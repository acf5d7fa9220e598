--------------------------- MODULE HardeningProofs ---------------------------
(***************************************************************************)
(* What the plugins establish, for every value of their constants: of each *)
(* an invariant its steps keep, and what that says of an apply and of a    *)
(* rollback.                                                               *)
(***************************************************************************)
EXTENDS Hardening, FiniteSetTheorems, WellFoundedInduction, TLAPS

-----------------------------------------------------------------------------
(* The audit plugin.                                                       *)

AuditCall ==
    [pc : {"idle", "enable", "start", "write", "load", "restart", "sweep"},
     result : {"none", "success", "failed", "undone", "undone_not_loaded",
               "undone_not_swept", "died"},
     quiet : BOOLEAN, ok : BOOLEAN, wrote : BOOLEAN, flushed : BOOLEAN, undo : BOOLEAN,
     config : SUBSET AuditParams.Category, live : SUBSET AuditParams.Category,
     filed : SUBSET AuditParams.Category,
     before : SUBSET {"compiled", "prev"},
     estimates : SUBSET {"enable", "start", "rules", "file"}]

AuditType == host \in Audit!Host /\ call \in AuditCall

\* An apply under way.  A locked kernel it has left alone; of what it has found
\* loaded it unloads nothing before it has loaded its file, and a reload that it
\* is to report as a success follows the file it wrote.
AuditApplying ==
    (call.pc # "idle" /\ call.quiet /\ ~call.undo) =>
        /\ call.pc # "sweep"
        /\ call.pc = "enable" => call.estimates = Audit!Estimates(call.config, host)
        /\ call.pc = "start" /\ ~host.running => "start" \in call.estimates
        /\ call.pc \in {"start", "write"} /\ host.ours # Audit!Rendered(call.config) =>
              "file" \in call.estimates
        /\ call.pc \in {"enable", "start", "write"} => ~call.wrote
        /\ call.pc # "enable" /\ call.ok => host.enabled
        /\ call.pc \in {"enable", "start"} \/ host.locked => call.live \subseteq Audit!Live(host)
        /\ call.pc = "write" =>
              call.live \subseteq Audit!Live(host) \/ host.kernel = Audit!Compiled(host)
        /\ call.pc \in {"load", "restart"} /\ call.ok => host.ours = Audit!Rendered(call.config)

\* A rollback under way.
AuditUndoing ==
    (call.pc # "idle" /\ call.quiet /\ call.undo) =>
        /\ call.pc \in {"load", "restart", "sweep"}
        /\ host.ours = host.saved.ours
        /\ "compiled" \in call.before <=> host.saved.compiled # Absent
        /\ "prev" \in call.before <=> host.saved.prev # Absent
        /\ host.compiled = Absent => host.saved.compiled = Absent
        /\ host.prev = Absent => host.saved.prev = Absent
        /\ call.pc = "sweep" /\ call.ok /\ ~host.locked => host.kernel = Audit!Compiled(host)

AuditKept ==
    Audit!SuccessMeansAudited /\ Audit!SuccessUnloadsNothing /\ Audit!UndoneMeansUndone

AuditInv ==
    /\ AuditType
    /\ call.pc # "idle" => call.result = "none"
    /\ AuditApplying /\ AuditUndoing /\ AuditKept

\* What compiling and loading leave of a host: the lines of the two files are
\* compiled, and loaded.
LEMMA AuditLoads ==
  ASSUME NEW h \in Audit!Host
  PROVE  /\ Audit!Compiled(h) \subseteq Audit!Rule
         /\ Audit!Compile(h) \in Audit!Host /\ Audit!Load(h) \in Audit!Host
         /\ \A r \in {Audit!Compile(h), Audit!Load(h)} :
              /\ r.ours = h.ours /\ r.enabled = h.enabled
              /\ r.running = h.running /\ r.locked = h.locked /\ r.saved = h.saved
              /\ r.compiled = Audit!Compiled(h) /\ Audit!Compiled(r) = Audit!Compiled(h)
              /\ r.prev = Absent => h.prev = Absent
         /\ Audit!Compile(h).kernel = h.kernel /\ Audit!Load(h).kernel = Audit!Compiled(h)
<1> DEFINE lines == Audit!Compiled(h)
           prev == IF h.compiled = Absent \/ h.compiled = lines THEN h.prev ELSE h.compiled
           c == [h EXCEPT !.compiled = lines, !.prev = prev]
           l == [c EXCEPT !.kernel = lines]
<1>1. lines \subseteq Audit!Rule
  BY DEF Audit!Compiled, Audit!Lines, Audit!Host, Audit!File
<1>2. prev \in Audit!File /\ (prev = Absent => h.prev = Absent)
  BY <1>1 DEF Audit!Host, Audit!File
<1>3. Audit!Compile(h) = c /\ Audit!Load(h) = l
  BY DEF Audit!Compile, Audit!Load
<1> HIDE DEF lines, prev
<1>4. /\ c \in Audit!Host /\ c.compiled = lines /\ c.prev = prev /\ c.kernel = h.kernel
      /\ c.ours = h.ours /\ c.foreign = h.foreign /\ c.enabled = h.enabled
      /\ c.running = h.running /\ c.locked = h.locked /\ c.saved = h.saved
  BY <1>1, <1>2 DEF Audit!Host, Audit!File
<1> HIDE DEF c
<1>5. /\ l \in Audit!Host /\ l.compiled = lines /\ l.prev = prev /\ l.kernel = lines
      /\ l.ours = h.ours /\ l.foreign = h.foreign /\ l.enabled = h.enabled
      /\ l.running = h.running /\ l.locked = h.locked /\ l.saved = h.saved
  BY <1>1, <1>4 DEF Audit!Host
<1> HIDE DEF l
<1>6. Audit!Compiled(c) = lines /\ Audit!Compiled(l) = lines
  BY <1>4, <1>5 DEF Audit!Compiled, lines
<1> QED  BY <1>1, <1>2, <1>3, <1>4, <1>5, <1>6 DEF lines

\* A boot of a host whose daemon is enabled loads them too.
LEMMA AuditBoots ==
  ASSUME NEW h \in Audit!Host, h.enabled
  PROVE  Audit!Booted(h) \in Audit!Host /\ Audit!Booted(h).kernel = Audit!Compiled(h)
<1> DEFINE up == [h EXCEPT !.locked = FALSE, !.kernel = {}, !.running = h.enabled]
<1>1. up \in Audit!Host /\ up.ours = h.ours /\ up.foreign = h.foreign
  BY DEF Audit!Host
<1>2. Audit!Booted(h) = Audit!Load(up)  BY DEF Audit!Booted
<1> HIDE DEF up
<1>3. Audit!Compiled(up) = Audit!Compiled(h)  BY <1>1 DEF Audit!Compiled
<1> QED  BY <1>1, <1>2, <1>3, AuditLoads

\* The rules a configuration asks for name every category it does not except.
LEMMA AuditRenders ==
  ASSUME HardeningAssumption, NEW config \in SUBSET AuditParams.Category
  PROVE  /\ Audit!Rendered(config) \in SUBSET Audit!Rule
         /\ Audit!Lines(Audit!Rendered(config)) = Audit!Rendered(config)
         /\ \A h \in Audit!Host :
              Audit!Rendered(config) \subseteq h.kernel =>
                 /\ AuditParams.Category \ config \subseteq Audit!Live(h)
                 /\ Audit!MissingRules(config, h) = {}
<1>1. Audit!Rendered(config) \in SUBSET Audit!Rule
  BY HardeningAssumption DEF Audit!RulesAssumption, Audit!Rendered, Audit!Rule
<1>2. Audit!Lines(Audit!Rendered(config)) = Audit!Rendered(config)
  BY <1>1, HardeningAssumption DEF Audit!RulesAssumption, Audit!Lines
<1>3. ASSUME NEW h \in Audit!Host, Audit!Rendered(config) \subseteq h.kernel
      PROVE  AuditParams.Category \ config \subseteq Audit!Live(h)
  <2>1. ASSUME NEW c \in AuditParams.Category \ config PROVE c \in Audit!Live(h)
    <3> DEFINE r == [category |-> c, version |-> AuditParams.Current]
    <3>1. r \in h.kernel  BY <1>3 DEF Audit!Rendered
    <3>2. r.category = c  OBVIOUS
    <3> HIDE DEF r
    <3> QED  BY <3>1, <3>2 DEF Audit!Live
  <2> QED  BY <2>1
<1> QED  BY <1>1, <1>2, <1>3 DEF Audit!MissingRules

\* A host that keeps them in its file, and whose daemon is enabled, has them after
\* a boot, and once they are loaded.
LEMMA AuditSucceeds ==
  ASSUME HardeningAssumption, NEW config \in SUBSET AuditParams.Category, NEW h \in Audit!Host,
         h.ours = Audit!Rendered(config)
  PROVE  /\ Audit!Rendered(config) \subseteq Audit!Compiled(h)
         /\ h.enabled => Audit!MissingRules(config, Audit!Booted(h)) = {}
         /\ h.kernel = Audit!Compiled(h) =>
               AuditParams.Category \ config \subseteq Audit!Live(h)
<1>1. Audit!Rendered(config) \subseteq Audit!Compiled(h)
  BY AuditRenders DEF Audit!Compiled
<1> QED  BY <1>1, AuditRenders, AuditBoots

\* Where a step leaves an apply or a rollback.
LEMMA AuditCalls ==
  ASSUME call \in AuditCall
  PROVE  /\ \A pc \in {"idle", "enable", "start", "write", "load", "restart", "sweep"} :
              Audit!Goto(pc) = [call EXCEPT !.pc = pc]
         /\ \A result \in {"success", "failed", "undone", "undone_not_loaded",
                           "undone_not_swept", "died"} :
              LET e == Audit!Ends(result) IN
              /\ e \in AuditCall /\ e.pc = "idle" /\ e.result = result
              /\ e.quiet = call.quiet /\ e.config = call.config /\ e.live = call.live
              /\ e.wrote = call.wrote
<1>1. ASSUME NEW result \in {"success", "failed", "undone", "undone_not_loaded",
                             "undone_not_swept", "died"}
      PROVE  LET e == Audit!Ends(result) IN
             /\ e \in AuditCall /\ e.pc = "idle" /\ e.result = result
             /\ e.quiet = call.quiet /\ e.config = call.config /\ e.live = call.live
             /\ e.wrote = call.wrote
  BY <1>1 DEF Audit!Ends, AuditCall
<1> QED  BY <1>1 DEF Audit!Goto

\* An apply begins, or is refused.
LEMMA AuditBegins ==
  ASSUME HardeningAssumption, AuditInv, Audit!Begin
  PROVE  AuditInv'
<1>1. PICK config \in AuditParams.Configs :
        LET c == [Audit!Idle EXCEPT !.config = config, !.live = Audit!Live(host),
                                    !.filed = Audit!Filed(host) \cap Audit!Live(host),
                                    !.estimates = Audit!Estimates(config, host)] IN
        \/ /\ call' = [c EXCEPT !.result = "failed"] /\ UNCHANGED host
        \/ /\ host.installed
           /\ call' = [c EXCEPT !.pc = "enable"]
           /\ host' = [host EXCEPT !.saved =
                 [ours |-> host.ours, compiled |-> host.compiled, prev |-> host.prev]]
  BY DEF Audit!Begin
<1> DEFINE live == Audit!Live(host)
           announced == Audit!Estimates(config, host)
           filed == Audit!Filed(host) \cap Audit!Live(host)
           c == [Audit!Idle EXCEPT !.config = config, !.live = live, !.filed = filed,
                                   !.estimates = announced]
<1>2. live \subseteq AuditParams.Category /\ config \subseteq AuditParams.Category
  BY HardeningAssumption
     DEF Audit!RulesAssumption, AuditInv, AuditType, Audit!Host, Audit!Live, Audit!Rule
<1>3. announced \subseteq {"enable", "start", "rules", "file"}
  BY DEF Audit!Estimates
<1>4. (call' = [c EXCEPT !.result = "failed"] /\ host' = host)
      \/ (call' = [c EXCEPT !.pc = "enable"]
          /\ host' = [host EXCEPT !.saved =
                 [ours |-> host.ours, compiled |-> host.compiled, prev |-> host.prev]])
  BY <1>1
<1> HIDE DEF live, announced
<1>9. filed \subseteq AuditParams.Category  BY <1>2 DEF live
<1> HIDE DEF filed
<1>5. /\ c \in AuditCall /\ c.pc = "idle" /\ c.result = "none" /\ c.config = config
      /\ c.live = live /\ c.estimates = announced /\ c.quiet = TRUE /\ c.undo = FALSE
      /\ c.wrote = FALSE
  BY <1>2, <1>3, <1>9 DEF Audit!Idle, AuditCall
<1> HIDE DEF c
<1>6. CASE call' = [c EXCEPT !.result = "failed"] /\ host' = host
  <2>1. call' \in AuditCall /\ call'.pc = "idle" /\ call'.result = "failed"
    BY <1>5, <1>6 DEF AuditCall
  <2> QED
    BY <1>6, <2>1
       DEF AuditInv, AuditType, AuditApplying, AuditUndoing, AuditKept,
           Audit!SuccessMeansAudited, Audit!SuccessUnloadsNothing, Audit!UndoneMeansUndone
<1>7. CASE /\ call' = [c EXCEPT !.pc = "enable"]
           /\ host' = [host EXCEPT !.saved =
                 [ours |-> host.ours, compiled |-> host.compiled, prev |-> host.prev]]
  <2>1. /\ call' \in AuditCall /\ call'.pc = "enable" /\ call'.result = "none"
        /\ call'.config = config /\ call'.live = live /\ call'.estimates = announced
        /\ call'.undo = FALSE /\ call'.wrote = FALSE
    BY <1>5, <1>7 DEF AuditCall
  <2>2. /\ host' \in Audit!Host /\ host'.kernel = host.kernel /\ host'.ours = host.ours
        /\ host'.enabled = host.enabled /\ host'.running = host.running
    BY <1>7 DEF AuditInv, AuditType, Audit!Host
  <2>3. Audit!Live(host') = live /\ Audit!Estimates(config, host') = announced
    BY <2>2 DEF live, announced, Audit!Live, Audit!Estimates, Audit!MissingRules
  <2> QED
    BY <2>1, <2>2, <2>3
       DEF AuditInv, AuditType, AuditApplying, AuditUndoing, AuditKept,
           Audit!SuccessMeansAudited, Audit!SuccessUnloadsNothing, Audit!UndoneMeansUndone
<1> QED  BY <1>4, <1>6, <1>7

\* What a step that does not end the call, and one that ends it undecided, has
\* to show.
LEMMA AuditGoesOn ==
  ASSUME AuditType', call'.result \in {"none", "failed", "undone_not_loaded", "undone_not_swept", "died"},
         call'.pc # "idle" => call'.result = "none" /\ AuditApplying' /\ AuditUndoing'
  PROVE  AuditInv'
BY DEF AuditInv, AuditApplying, AuditUndoing, AuditKept, Audit!SuccessMeansAudited,
       Audit!SuccessUnloadsNothing, Audit!UndoneMeansUndone

\* systemctl enable, or its refusal.
LEMMA AuditEnables ==
  ASSUME AuditInv, Audit!Enable
  PROVE  AuditInv'
<1>1. /\ host \in Audit!Host /\ call \in AuditCall /\ call.pc = "enable"
      /\ call.result = "none"
  BY DEF AuditInv, AuditType, Audit!Enable
<1> DEFINE c == [call EXCEPT !.pc = "start"]
<1>2. /\ c \in AuditCall /\ c.pc = "start" /\ c.result = "none" /\ c.quiet = call.quiet
      /\ c.ok = call.ok /\ c.undo = call.undo /\ c.config = call.config
      /\ c.live = call.live /\ c.estimates = call.estimates /\ c.wrote = call.wrote
  BY <1>1 DEF AuditCall
<1>3. \/ host' = [host EXCEPT !.enabled = TRUE] /\ call' = c
      \/ ~host.enabled /\ host' = host /\ call' = [c EXCEPT !.ok = FALSE]
  BY DEF Audit!Enable, Audit!Goto
<1> HIDE DEF c
<1>4. /\ call' \in AuditCall /\ call'.pc = "start" /\ call'.result = "none"
      /\ call'.quiet = call.quiet /\ call'.undo = call.undo /\ call'.config = call.config
      /\ call'.live = call.live /\ call'.estimates = call.estimates
      /\ call'.wrote = call.wrote /\ (call'.ok => host'.enabled)
  <2>1. CASE host' = [host EXCEPT !.enabled = TRUE] /\ call' = c
    <3>1. host'.enabled  BY <1>1, <2>1 DEF Audit!Host
    <3> QED  BY <1>2, <2>1, <3>1
  <2>2. CASE ~host.enabled /\ host' = host /\ call' = [c EXCEPT !.ok = FALSE]
    BY <1>2, <2>2 DEF AuditCall
  <2> QED  BY <1>3, <2>1, <2>2
<1>5. /\ host' \in Audit!Host /\ host'.kernel = host.kernel /\ host'.ours = host.ours
      /\ host'.running = host.running /\ host'.locked = host.locked
  BY <1>1, <1>3 DEF Audit!Host
<1>6. Audit!Live(host') = Audit!Live(host)  BY <1>5 DEF Audit!Live
<1>7. AuditApplying'
  BY <1>1, <1>4, <1>5, <1>6 DEF AuditInv, AuditApplying, Audit!Estimates
<1>8. AuditUndoing'  BY <1>1, <1>4 DEF AuditInv, AuditUndoing
<1> QED  BY <1>4, <1>5, <1>7, <1>8, AuditGoesOn DEF AuditType

\* systemctl start: a kernel that is not locked has the file's rules from then on.
LEMMA AuditStarts ==
  ASSUME AuditInv, Audit!Start
  PROVE  AuditInv'
<1>1. /\ host \in Audit!Host /\ call \in AuditCall /\ call.pc = "start"
      /\ call.result = "none"
  BY DEF AuditInv, AuditType, Audit!Start
<1> DEFINE c == [call EXCEPT !.pc = "write"]
           h == Audit!Load(host)
<1>2. /\ c \in AuditCall /\ c.pc = "write" /\ c.result = "none" /\ c.quiet = call.quiet
      /\ c.ok = call.ok /\ c.undo = call.undo /\ c.config = call.config
      /\ c.live = call.live /\ c.estimates = call.estimates /\ c.wrote = call.wrote
  BY <1>1 DEF AuditCall
<1>3. \/ host' = host /\ call' \in {c, [c EXCEPT !.ok = FALSE]}
      \/ host' = [host EXCEPT !.running = TRUE] /\ call' = c
      \/ ~host.locked /\ host' = [h EXCEPT !.running = TRUE] /\ call' = c
  BY DEF Audit!Start, Audit!Goto
<1>4. /\ h \in Audit!Host /\ h.ours = host.ours /\ h.enabled = host.enabled
      /\ h.locked = host.locked /\ h.kernel = Audit!Compiled(host)
      /\ Audit!Compiled(h) = Audit!Compiled(host)
  BY <1>1, AuditLoads
<1> HIDE DEF c, h
<1>5. /\ call' \in AuditCall /\ call'.pc = "write" /\ call'.result = "none"
      /\ call'.quiet = call.quiet /\ call'.undo = call.undo /\ call'.config = call.config
      /\ call'.live = call.live /\ call'.estimates = call.estimates
      /\ call'.wrote = call.wrote /\ (call'.ok => call.ok)
  <2>1. CASE call' = c  BY <1>2, <2>1
  <2>2. CASE call' = [c EXCEPT !.ok = FALSE]  BY <1>2, <2>2 DEF AuditCall
  <2> QED  BY <1>3, <2>1, <2>2
<1>6. /\ host' \in Audit!Host /\ host'.ours = host.ours /\ host'.locked = host.locked
      /\ host'.enabled = host.enabled
  BY <1>1, <1>3, <1>4 DEF Audit!Host
<1>7. \/ host'.kernel = host.kernel
      \/ ~host.locked /\ host'.kernel = Audit!Compiled(host')
  <2>1. ASSUME host' = [h EXCEPT !.running = TRUE]
        PROVE  host'.kernel = h.kernel /\ host'.ours = h.ours /\ host'.foreign = h.foreign
    BY <1>4, <2>1 DEF Audit!Host
  <2>2. CASE ~host.locked /\ host' = [h EXCEPT !.running = TRUE]
    BY <1>4, <2>1, <2>2 DEF Audit!Compiled
  <2> QED  BY <1>1, <1>3, <2>2 DEF Audit!Host
<1>8. host'.kernel = host.kernel => Audit!Live(host') = Audit!Live(host)
  BY DEF Audit!Live
<1>9. AuditApplying'
  BY <1>1, <1>5, <1>6, <1>7, <1>8 DEF AuditInv, AuditApplying
<1>10. AuditUndoing'  BY <1>1, <1>5 DEF AuditInv, AuditUndoing
<1> QED  BY <1>5, <1>6, <1>9, <1>10, AuditGoesOn DEF AuditType

\* The rules file is written, if it does not say what it should.
LEMMA AuditWrites ==
  ASSUME HardeningAssumption, AuditInv, Audit!Write
  PROVE  AuditInv'
<1>1. /\ host \in Audit!Host /\ call \in AuditCall /\ call.pc = "write"
      /\ call.result = "none" /\ call.config \in SUBSET AuditParams.Category
      /\ call.live \subseteq AuditParams.Category
  BY DEF AuditInv, AuditType, Audit!Write, AuditCall
<1>2. CASE host.ours = Audit!Rendered(call.config) /\ UNCHANGED host
           /\ call' = Audit!Ends(IF call.ok THEN "success" ELSE "failed")
  <2>1. /\ call' \in AuditCall /\ call'.pc = "idle"
        /\ call'.result = (IF call.ok THEN "success" ELSE "failed")
        /\ call'.quiet = call.quiet /\ call'.config = call.config /\ call'.live = call.live
        /\ call'.wrote = call.wrote
    BY <1>1, <1>2, AuditCalls
  <2>2. CASE ~call.ok  BY <1>1, <1>2, <2>1, <2>2, AuditGoesOn DEF AuditType
  <2>3. CASE call.ok
    <3>1. call.quiet =>
            /\ Audit!MissingRules(call.config, Audit!Booted(host)) = {}
            /\ call.live \ call.config \subseteq Audit!Live(host)
            /\ ~call.wrote
      BY <1>1, <1>2, <2>3, AuditSucceeds DEF AuditInv, AuditApplying, AuditUndoing
    <3>2. host' = host  BY <1>2
    <3> QED
      BY <1>1, <2>1, <2>3, <3>1, <3>2
         DEF AuditInv, AuditType, AuditApplying, AuditUndoing, AuditKept,
             Audit!SuccessMeansAudited, Audit!SuccessUnloadsNothing, Audit!UndoneMeansUndone
  <2> QED  BY <2>2, <2>3
<1>3. ASSUME NEW ok \in BOOLEAN, NEW wrote \in BOOLEAN, ok => call.ok,
             call' = [call EXCEPT !.pc = "load", !.wrote = wrote, !.ok = ok],
             host' \in {host, [host EXCEPT !.ours = Audit!Rendered(call.config)]},
             ok => host' = [host EXCEPT !.ours = Audit!Rendered(call.config)]
      PROVE  AuditInv'
  <2>1. /\ call' \in AuditCall /\ call'.pc = "load" /\ call'.result = "none"
        /\ call'.quiet = call.quiet /\ call'.undo = call.undo /\ call'.config = call.config
        /\ call'.live = call.live /\ call'.ok = ok
    BY <1>1, <1>3 DEF AuditCall
  <2>2. Audit!Rendered(call.config) \in Audit!File  BY <1>1, AuditRenders DEF Audit!File
  <2>3. /\ host' \in Audit!Host /\ host'.kernel = host.kernel /\ host'.enabled = host.enabled
        /\ host'.locked = host.locked
        /\ ok => host'.ours = Audit!Rendered(call.config)
    BY <1>1, <1>3, <2>2 DEF Audit!Host
  <2>4. Audit!Live(host') = Audit!Live(host)  BY <2>3 DEF Audit!Live
  <2>5. AuditApplying'
    BY <1>1, <1>3, <2>1, <2>3, <2>4 DEF AuditInv, AuditApplying
  <2>6. AuditUndoing'  BY <1>1, <2>1 DEF AuditInv, AuditUndoing
  <2> QED  BY <2>1, <2>3, <2>5, <2>6, AuditGoesOn DEF AuditType
<1>4. CASE \E ok \in BOOLEAN :
             /\ host' = [host EXCEPT !.ours = Audit!Rendered(call.config)]
             /\ call' = [Audit!Goto("load") EXCEPT !.wrote = TRUE, !.ok = @ /\ ok]
  <2>1. PICK ok \in BOOLEAN :
             /\ host' = [host EXCEPT !.ours = Audit!Rendered(call.config)]
             /\ call' = [Audit!Goto("load") EXCEPT !.wrote = TRUE, !.ok = @ /\ ok]
    BY <1>4
  <2> DEFINE both == call.ok /\ ok
             c == [call EXCEPT !.pc = "load"]
  <2>2. c.ok = call.ok  BY <1>1 DEF AuditCall
  <2>3. call' = [c EXCEPT !.wrote = TRUE, !.ok = both]  BY <2>1, <2>2 DEF Audit!Goto
  <2>4. both \in BOOLEAN /\ (both => call.ok)  BY <1>1 DEF AuditCall
  <2> HIDE DEF both
  <2>5. call' = [call EXCEPT !.pc = "load", !.wrote = TRUE, !.ok = both]  BY <2>3
  <2> QED  BY <1>3, <2>1, <2>4, <2>5
<1>5. CASE UNCHANGED host /\ call' = [Audit!Goto("load") EXCEPT !.ok = FALSE]
  <2>1. call' = [call EXCEPT !.pc = "load", !.wrote = call.wrote, !.ok = FALSE]
    BY <1>1, <1>5 DEF Audit!Goto, AuditCall
  <2>2. call.wrote \in BOOLEAN  BY <1>1 DEF AuditCall
  <2> QED  BY <1>3, <1>5, <2>1, <2>2
<1> QED  BY <1>2, <1>4, <1>5 DEF Audit!Write

\* A load that the kernel takes ends an apply, and leads a rollback on.
LEMMA AuditTaken ==
  ASSUME HardeningAssumption, AuditInv, call.pc \in {"load", "restart"}, ~host.locked,
         host' \in Audit!Host, host'.ours = host.ours, host'.enabled = host.enabled,
         host'.saved = host.saved, host'.kernel = Audit!Compiled(host'),
         host'.compiled # Absent, host'.prev = Absent => host.prev = Absent,
         call' = Audit!Loaded
  PROVE  AuditInv'
<1>1. call \in AuditCall /\ call.result = "none"
      /\ call.config \in SUBSET AuditParams.Category /\ call.live \subseteq AuditParams.Category
  BY DEF AuditInv, AuditType, AuditCall
<1>2. CASE call.undo
  <2>1. call' = [call EXCEPT !.pc = "sweep"]  BY <1>2 DEF Audit!Loaded, Audit!Goto
  <2>2. /\ call' \in AuditCall /\ call'.pc = "sweep" /\ call'.result = "none"
        /\ call'.quiet = call.quiet /\ call'.undo = call.undo /\ call'.before = call.before
    BY <1>1, <2>1 DEF AuditCall
  <2>3. AuditUndoing'  BY <2>2, <1>2 DEF AuditInv, AuditUndoing
  <2> QED  BY <1>2, <2>2, <2>3, AuditGoesOn DEF AuditType, AuditApplying
<1>3. CASE ~call.undo
  <2>1. call' = Audit!Ends(IF call.ok THEN "success" ELSE "failed")
    BY <1>3 DEF Audit!Loaded
  <2>2. /\ call' \in AuditCall /\ call'.pc = "idle"
        /\ call'.result = (IF call.ok THEN "success" ELSE "failed")
        /\ call'.quiet = call.quiet /\ call'.config = call.config /\ call'.live = call.live
    BY <1>1, <2>1, AuditCalls
  <2>3. CASE ~call.ok  BY <2>2, <2>3, AuditGoesOn DEF AuditType
  <2>4. CASE call.ok
    <3>1. call.quiet => host'.ours = Audit!Rendered(call.config) /\ host'.enabled
      BY <1>3, <2>4 DEF AuditInv, AuditApplying
    <3>2. call.quiet =>
            /\ Audit!Rendered(call.config) \subseteq Audit!Compiled(host')
            /\ Audit!MissingRules(call.config, Audit!Booted(host')) = {}
            /\ AuditParams.Category \ call.config \subseteq Audit!Live(host')
      BY <1>1, <3>1, AuditSucceeds
    <3> QED
      BY <1>1, <2>2, <2>4, <3>2
         DEF AuditInv, AuditType, AuditApplying, AuditUndoing, AuditKept,
             Audit!SuccessMeansAudited, Audit!SuccessUnloadsNothing, Audit!UndoneMeansUndone
  <2> QED  BY <2>3, <2>4
<1> QED  BY <1>2, <1>3

\* One that it does not take leaves the files compiled at most, and a kernel that
\* is not locked perhaps without a rule.
LEMMA AuditRefused ==
  ASSUME AuditInv, call.pc \in {"load", "restart"},
         host' \in Audit!Host, host'.ours = host.ours, host'.enabled = host.enabled,
         host'.locked = host.locked, host'.saved = host.saved,
         host.locked => host'.kernel = host.kernel,
         host'.compiled = Absent => host.compiled = Absent,
         host'.prev = Absent => host.prev = Absent,
         NEW pc \in {"load", "restart"}, NEW flushed \in BOOLEAN,
         call' = [call EXCEPT !.pc = pc, !.flushed = flushed]
  PROVE  AuditInv'
<1>1. call \in AuditCall /\ call.result = "none"  BY DEF AuditInv, AuditType
<1>2. /\ call' \in AuditCall /\ call'.pc = pc /\ call'.result = "none"
      /\ call'.quiet = call.quiet /\ call'.undo = call.undo /\ call'.before = call.before
      /\ call'.config = call.config /\ call'.live = call.live /\ call'.ok = call.ok
  BY <1>1 DEF AuditCall
<1>3. host.locked => Audit!Live(host') = Audit!Live(host)  BY DEF Audit!Live
<1>4. AuditApplying'  BY <1>2, <1>3 DEF AuditInv, AuditApplying
<1>5. AuditUndoing'  BY <1>2 DEF AuditInv, AuditUndoing
<1> QED  BY <1>2, <1>4, <1>5, AuditGoesOn DEF AuditType

\* augenrules --load, which the kernel may refuse.
LEMMA AuditReloads ==
  ASSUME HardeningAssumption, AuditInv, Audit!AugenLoad
  PROVE  AuditInv'
<1>1. host \in Audit!Host /\ call \in AuditCall /\ call.pc = "load"
  BY DEF AuditInv, AuditType, Audit!AugenLoad
<1> DEFINE l == Audit!Load(host)
           c == Audit!Compile(host)
<1>2. \/ ~host.locked /\ host' = l /\ call' = Audit!Loaded
      \/ /\ ~host.locked /\ host' = [c EXCEPT !.kernel = {}]
         /\ call' = [Audit!Goto("load") EXCEPT !.flushed = TRUE]
      \/ host' \in {host, c} /\ call' = Audit!Goto("restart")
  BY DEF Audit!AugenLoad
<1>3. /\ Audit!Compiled(host) \subseteq Audit!Rule /\ c \in Audit!Host /\ l \in Audit!Host
      /\ \A r \in {c, l} :
           /\ r.ours = host.ours /\ r.enabled = host.enabled
           /\ r.locked = host.locked /\ r.saved = host.saved
           /\ r.compiled = Audit!Compiled(host) /\ Audit!Compiled(r) = Audit!Compiled(host)
           /\ r.prev = Absent => host.prev = Absent
      /\ c.kernel = host.kernel /\ l.kernel = Audit!Compiled(host)
  BY <1>1, AuditLoads
<1>4. Audit!Compiled(host) # Absent  BY <1>3, HardeningAssumption DEF Audit!RulesAssumption
<1> HIDE DEF l, c
<1>5. CASE ~host.locked /\ host' = l /\ call' = Audit!Loaded
  BY <1>1, <1>3, <1>4, <1>5, AuditTaken
<1>6. CASE /\ ~host.locked /\ host' = [c EXCEPT !.kernel = {}]
           /\ call' = [Audit!Goto("load") EXCEPT !.flushed = TRUE]
  <2>1. call' = [call EXCEPT !.pc = "load", !.flushed = TRUE]  BY <1>6 DEF Audit!Goto
  <2>2. /\ host' \in Audit!Host /\ host'.ours = host.ours /\ host'.enabled = host.enabled
        /\ host'.locked = host.locked /\ host'.saved = host.saved
        /\ host'.compiled = Audit!Compiled(host) /\ (host'.prev = Absent => host.prev = Absent)
    BY <1>3, <1>6 DEF Audit!Host
  <2> QED  BY <1>1, <1>4, <1>6, <2>1, <2>2, AuditRefused
<1>7. CASE host' \in {host, c} /\ call' = Audit!Goto("restart")
  <2>1. call' = [call EXCEPT !.pc = "restart", !.flushed = call.flushed]
        /\ call.flushed \in BOOLEAN
    BY <1>1, <1>7 DEF Audit!Goto, AuditCall
  <2>2. /\ host' \in Audit!Host /\ host'.ours = host.ours /\ host'.enabled = host.enabled
        /\ host'.locked = host.locked /\ host'.saved = host.saved /\ host'.kernel = host.kernel
        /\ host'.compiled = Absent => host.compiled = Absent
        /\ host'.prev = Absent => host.prev = Absent
    BY <1>1, <1>3, <1>4, <1>7
  <2> QED  BY <1>1, <2>1, <2>2, AuditRefused
<1> QED  BY <1>2, <1>5, <1>6, <1>7

\* The last resort, whose failure is none under a lock.
LEMMA AuditRestarts ==
  ASSUME HardeningAssumption, AuditInv, Audit!RestartDaemon
  PROVE  AuditInv'
<1>1. /\ host \in Audit!Host /\ call \in AuditCall /\ call.pc = "restart"
      /\ call.result = "none" /\ call.config \in SUBSET AuditParams.Category
      /\ call.live \subseteq AuditParams.Category
  BY DEF AuditInv, AuditType, Audit!RestartDaemon, AuditCall
<1> DEFINE l == Audit!Load(host)
<1>2. CASE ~host.locked /\ host' = [l EXCEPT !.running = TRUE] /\ call' = Audit!Loaded
  <2>1. /\ l \in Audit!Host /\ Audit!Compiled(host) \subseteq Audit!Rule
        /\ l.ours = host.ours /\ l.enabled = host.enabled /\ l.saved = host.saved
        /\ l.compiled = Audit!Compiled(host) /\ Audit!Compiled(l) = Audit!Compiled(host)
        /\ (l.prev = Absent => host.prev = Absent) /\ l.kernel = Audit!Compiled(host)
    BY <1>1, AuditLoads
  <2> HIDE DEF l
  <2>2. /\ host' \in Audit!Host /\ host'.ours = l.ours /\ host'.foreign = l.foreign
        /\ host'.enabled = l.enabled /\ host'.saved = l.saved /\ host'.compiled = l.compiled
        /\ host'.prev = l.prev /\ host'.kernel = l.kernel
    BY <1>2, <2>1 DEF Audit!Host
  <2>3. Audit!Compiled(host') = Audit!Compiled(l)  BY <2>2 DEF Audit!Compiled
  <2>4. Audit!Compiled(host) # Absent  BY <2>1, HardeningAssumption DEF Audit!RulesAssumption
  <2> QED  BY <1>1, <1>2, <2>1, <2>2, <2>3, <2>4, AuditTaken
<1>3. CASE UNCHANGED host /\ call.undo /\ call' = [Audit!Goto("sweep") EXCEPT !.ok = host.locked]
  <2>1. host.locked \in BOOLEAN  BY <1>1 DEF Audit!Host
  <2> DEFINE locked == host.locked
  <2>2. call' = [call EXCEPT !.pc = "sweep", !.ok = locked]  BY <1>3 DEF Audit!Goto
  <2> HIDE DEF locked
  <2>3. /\ call' \in AuditCall /\ call'.pc = "sweep" /\ call'.result = "none"
        /\ call'.quiet = call.quiet /\ call'.undo = call.undo /\ call'.before = call.before
        /\ call'.ok = locked
    BY <1>1, <2>1, <2>2 DEF AuditCall, locked
  <2>4. AuditUndoing'
    BY <1>1, <1>3, <2>3 DEF AuditInv, AuditUndoing, locked
  <2> QED  BY <1>1, <1>3, <2>3, <2>4, AuditGoesOn DEF AuditType, AuditApplying
<1>4. CASE UNCHANGED host /\ ~call.undo
           /\ call' = Audit!Ends(IF call.ok /\ host.locked THEN "success" ELSE "failed")
  <2>1. /\ call' \in AuditCall /\ call'.pc = "idle"
        /\ call'.result = (IF call.ok /\ host.locked THEN "success" ELSE "failed")
        /\ call'.quiet = call.quiet /\ call'.config = call.config /\ call'.live = call.live
    BY <1>1, <1>4, AuditCalls
  <2>2. CASE ~(call.ok /\ host.locked)
    BY <1>1, <1>4, <2>1, <2>2, AuditGoesOn DEF AuditType
  <2>3. CASE call.ok /\ host.locked
    <3>1. call.quiet =>
            /\ Audit!MissingRules(call.config, Audit!Booted(host)) = {}
            /\ call.live \ call.config \subseteq Audit!Live(host)
      BY <1>1, <1>4, <2>3, AuditSucceeds DEF AuditInv, AuditApplying
    <3>2. host' = host  BY <1>4
    <3> QED
      BY <1>1, <2>1, <2>3, <3>1, <3>2
         DEF AuditInv, AuditType, AuditApplying, AuditUndoing, AuditKept,
             Audit!SuccessMeansAudited, Audit!SuccessUnloadsNothing, Audit!UndoneMeansUndone
  <2> QED  BY <2>2, <2>3
<1> QED  BY <1>2, <1>3, <1>4 DEF Audit!RestartDaemon

\* The files are put back, and what was there of those a reload makes is noted.
LEMMA AuditRollsBack ==
  ASSUME AuditInv, Audit!Rollback
  PROVE  AuditInv'
<1>1. host \in Audit!Host /\ host.saved # Absent  BY DEF AuditInv, AuditType, Audit!Rollback
<1> DEFINE back == [host EXCEPT !.ours = host.saved.ours, !.compiled = host.saved.compiled,
                                !.prev = host.saved.prev]
           before == Audit!Present(back)
<1>2. host' = back /\ call' = [Audit!Idle EXCEPT !.pc = "load", !.undo = TRUE, !.before = before]
  BY DEF Audit!Rollback
<1>3. /\ host.saved.ours \in Audit!File /\ host.saved.compiled \in Audit!File
      /\ host.saved.prev \in Audit!File
  BY <1>1 DEF Audit!Host
<1>4. /\ back \in Audit!Host /\ back.ours = back.saved.ours
      /\ back.compiled = back.saved.compiled /\ back.prev = back.saved.prev
  BY <1>1, <1>3 DEF Audit!Host
<1>5. /\ before \subseteq {"compiled", "prev"}
      /\ "compiled" \in before <=> back.compiled # Absent
      /\ "prev" \in before <=> back.prev # Absent
  BY DEF Audit!Present
<1> HIDE DEF back, before
<1>6. /\ call' \in AuditCall /\ call'.pc = "load" /\ call'.result = "none"
      /\ call'.undo = TRUE /\ call'.before = before
  BY <1>2, <1>5 DEF Audit!Idle, AuditCall
<1>7. AuditUndoing'  BY <1>2, <1>4, <1>5, <1>6 DEF AuditUndoing
<1> QED  BY <1>2, <1>4, <1>6, <1>7, AuditGoesOn DEF AuditType, AuditApplying

\* remove_paths_the_reload_created
LEMMA AuditSweeps ==
  ASSUME HardeningAssumption, AuditInv, Audit!Sweep
  PROVE  AuditInv'
<1>1. host \in Audit!Host /\ call \in AuditCall /\ call.pc = "sweep"
  BY DEF AuditInv, AuditType, Audit!Sweep
<1> DEFINE made == Audit!Present(host) \ call.before
           compiled == IF "compiled" \in made THEN Absent ELSE host.compiled
           prev == IF "prev" \in made THEN Absent ELSE host.prev
<1>2. \/ /\ host' = [host EXCEPT !.compiled = compiled, !.prev = prev]
         /\ call' = Audit!Ends(IF call.ok THEN "undone" ELSE "undone_not_loaded")
      \/ host' = host /\ call' = Audit!Ends("undone_not_swept")
  BY DEF Audit!Sweep
<1>3. /\ compiled \in Audit!File /\ prev \in Audit!File
      /\ compiled = Absent <=> (host.compiled = Absent \/ "compiled" \notin call.before)
      /\ prev = Absent <=> (host.prev = Absent \/ "prev" \notin call.before)
  BY <1>1 DEF Audit!Host, Audit!File, Audit!Present
<1> HIDE DEF made, compiled, prev
<1>4. CASE host' = host /\ call' = Audit!Ends("undone_not_swept")
  BY <1>1, <1>4, AuditCalls, AuditGoesOn DEF AuditType
<1>5. CASE /\ host' = [host EXCEPT !.compiled = compiled, !.prev = prev]
           /\ call' = Audit!Ends(IF call.ok THEN "undone" ELSE "undone_not_loaded")
  <2>1. /\ host' \in Audit!Host /\ host'.compiled = compiled /\ host'.prev = prev
        /\ host'.ours = host.ours /\ host'.foreign = host.foreign
        /\ host'.kernel = host.kernel /\ host'.locked = host.locked /\ host'.saved = host.saved
    BY <1>1, <1>3, <1>5 DEF Audit!Host
  <2>2. Audit!Compiled(host') = Audit!Compiled(host)  BY <2>1 DEF Audit!Compiled
  <2>3. /\ call' \in AuditCall /\ call'.pc = "idle" /\ call'.quiet = call.quiet
        /\ call'.result = (IF call.ok THEN "undone" ELSE "undone_not_loaded")
    BY <1>1, <1>5, AuditCalls
  <2>4. CASE ~call.ok  BY <2>1, <2>3, <2>4, AuditGoesOn DEF AuditType
  <2>5. CASE call.ok
    <3>1. call.quiet => /\ host.ours = host.saved.ours
                        /\ compiled = Absent <=> host.saved.compiled = Absent
                        /\ prev = Absent <=> host.saved.prev = Absent
                        /\ ~host.locked => host.kernel = Audit!Compiled(host)
      BY <1>1, <1>3, <2>5 DEF AuditInv, AuditApplying, AuditUndoing
    <3> QED
      BY <2>1, <2>2, <2>3, <2>5, <3>1
         DEF AuditInv, AuditType, AuditApplying, AuditUndoing, AuditKept,
             Audit!SuccessMeansAudited, Audit!SuccessUnloadsNothing, Audit!UndoneMeansUndone
  <2> QED  BY <2>4, <2>5
<1> QED  BY <1>2, <1>4, <1>5

\* Whatever others do, the call no longer answers for the host.
LEMMA AuditDisturbed ==
  ASSUME HardeningAssumption, AuditInv, Audit!Others
  PROVE  AuditInv'
<1>1. host \in Audit!Host /\ call \in AuditCall  BY DEF AuditInv, AuditType
<1>2. call' = [call EXCEPT !.quiet = FALSE]  BY DEF Audit!Others
<1>3. /\ call' \in AuditCall /\ call'.quiet = FALSE /\ call'.pc = call.pc
      /\ call'.result = call.result
  BY <1>1, <1>2 DEF AuditCall
<1>4. host' \in Audit!Host
  <2>1. CASE \E f \in AuditParams.Foreign : host' = [host EXCEPT !.foreign = f]
    <3>1. \A f \in AuditParams.Foreign : f \in Audit!File
      BY HardeningAssumption DEF Audit!RulesAssumption
    <3> QED  BY <1>1, <2>1, <3>1 DEF Audit!Host
  <2>2. CASE host' \in {[host EXCEPT !.locked = TRUE], [host EXCEPT !.kernel = {}]}
    BY <1>1, <2>2 DEF Audit!Host
  <2>3. CASE host' = Audit!Booted(host)
    <3>1. CASE host.enabled  BY <1>1, <2>3, <3>1, AuditBoots
    <3>2. CASE ~host.enabled  BY <1>1, <2>3, <3>2 DEF Audit!Booted, Audit!Host
    <3> QED  BY <3>1, <3>2
  <2> QED  BY <2>1, <2>2, <2>3 DEF Audit!Others
<1> QED
  BY <1>3, <1>4
     DEF AuditInv, AuditType, AuditApplying, AuditUndoing, AuditKept,
         Audit!SuccessMeansAudited, Audit!SuccessUnloadsNothing, Audit!UndoneMeansUndone

LEMMA AuditInitial ==
  ASSUME HardeningAssumption, Audit!Init
  PROVE  AuditInv
<1>1. host \in Audit!Host  BY HardeningAssumption DEF Audit!RulesAssumption, Audit!Init
<1>2. call \in AuditCall /\ call.pc = "idle" /\ call.result = "none"
  BY DEF Audit!Init, Audit!Idle, AuditCall
<1> QED
  BY <1>1, <1>2
     DEF AuditInv, AuditType, AuditApplying, AuditUndoing, AuditKept,
         Audit!SuccessMeansAudited, Audit!SuccessUnloadsNothing, Audit!UndoneMeansUndone

LEMMA AuditNext ==
  ASSUME HardeningAssumption, AuditInv, Audit!Next
  PROVE  AuditInv'
<1>1. CASE Audit!Dies
  <2>1. host' = host /\ call' = Audit!Ends("died")  BY <1>1 DEF Audit!Dies
  <2>2. call \in AuditCall  BY DEF AuditInv, AuditType
  <2> QED  BY <2>1, <2>2, AuditCalls, AuditGoesOn DEF AuditInv, AuditType
<1> QED
  BY <1>1, AuditBegins, AuditEnables, AuditStarts, AuditWrites, AuditReloads, AuditRestarts,
     AuditRollsBack, AuditSweeps, AuditDisturbed DEF Audit!Next

\* An apply enables, starts and writes only what its preview announced.
LEMMA AuditAnnounces ==
  ASSUME HardeningAssumption, AuditInv, [Audit!Next]_<<host, call>>
  PROVE  Audit!PreviewIsHonest
<1>1. host \in Audit!Host /\ call \in AuditCall  BY DEF AuditInv, AuditType
<1> SUFFICES ASSUME call.pc \in {"enable", "start", "write"}, call'.quiet
             PROVE  /\ host'.enabled # host.enabled => "enable" \in call.estimates
                    /\ host'.running # host.running => "start" \in call.estimates
                    /\ host'.ours # host.ours => "file" \in call.estimates
  BY Zenon DEF Audit!PreviewIsHonest
<1>2. CASE UNCHANGED <<host, call>> \/ Audit!Dies
  <2>1. host' = host  BY <1>2 DEF Audit!Dies
  <2> QED  BY <2>1
<1>3. CASE Audit!Others
  <2>1. call'.quiet = FALSE  BY <1>1, <1>3 DEF Audit!Others, AuditCall
  <2> QED  BY <2>1
<1>4. CASE Audit!Enable
  <2>1. call'.quiet = call.quiet
    BY <1>1, <1>4 DEF Audit!Enable, Audit!Goto, AuditCall
  <2>2. host' = host \/ host' = [host EXCEPT !.enabled = TRUE]  BY <1>4 DEF Audit!Enable
  <2>3. host'.running = host.running /\ host'.ours = host.ours
        /\ (host'.enabled # host.enabled => ~host.enabled)
    BY <1>1, <2>2 DEF Audit!Host
  <2>4. call.pc = "enable" /\ ~call.undo
    BY <1>1, <1>4, <2>1 DEF Audit!Enable, AuditInv, AuditUndoing, AuditCall
  <2>5. call.estimates = Audit!Estimates(call.config, host)
    BY <2>1, <2>4 DEF AuditInv, AuditApplying
  <2> QED  BY <2>3, <2>5 DEF Audit!Estimates
<1>5. CASE Audit!Start
  <2>1. call'.quiet = call.quiet
    BY <1>1, <1>5 DEF Audit!Start, Audit!Goto, AuditCall
  <2>2. \/ host' = host \/ host' = [host EXCEPT !.running = TRUE]
        \/ host' = [Audit!Load(host) EXCEPT !.running = TRUE]
    BY Zenon, <1>5 DEF Audit!Start
  <2>3. host'.enabled = host.enabled /\ host'.ours = host.ours
        /\ (host'.running # host.running => ~host.running)
    <3> DEFINE h == Audit!Load(host)
    <3>1. h \in Audit!Host /\ h.ours = host.ours /\ (h.enabled <=> host.enabled)
          /\ (h.running <=> host.running)
      BY <1>1, AuditLoads
    <3>2. \/ host' = host \/ host' = [host EXCEPT !.running = TRUE]
          \/ host' = [h EXCEPT !.running = TRUE]
      BY <2>2
    <3> HIDE DEF h
    <3> QED  BY <1>1, <3>1, <3>2 DEF Audit!Host
  <2>4. call.pc = "start" /\ ~call.undo
    BY <1>1, <1>5, <2>1 DEF Audit!Start, AuditInv, AuditUndoing, AuditCall
  <2>5. ~host.running => "start" \in call.estimates
    BY <2>1, <2>4 DEF AuditInv, AuditApplying
  <2> QED  BY <2>3, <2>5
<1>6. CASE Audit!Write
  <2>1. call'.quiet = call.quiet
    BY <1>1, <1>6 DEF Audit!Write, Audit!Goto, Audit!Ends, AuditCall
  <2>2. host' = host \/ host' = [host EXCEPT !.ours = Audit!Rendered(call.config)]
    BY <1>6 DEF Audit!Write
  <2>3. host'.enabled = host.enabled /\ host'.running = host.running
        /\ (host'.ours # host.ours => host.ours # Audit!Rendered(call.config))
    BY <1>1, <2>2 DEF Audit!Host
  <2>4. call.pc = "write" /\ ~call.undo
    BY <1>1, <1>6, <2>1 DEF Audit!Write, AuditInv, AuditUndoing, AuditCall
  <2>5. host.ours # Audit!Rendered(call.config) => "file" \in call.estimates
    BY <2>1, <2>4 DEF AuditInv, AuditApplying
  <2> QED  BY <2>3, <2>5
<1> QED
  BY Zenon, <1>2, <1>3, <1>4, <1>5, <1>6
     DEF Audit!Next, Audit!Begin, Audit!AugenLoad, Audit!RestartDaemon, Audit!Rollback,
         Audit!Sweep

-----------------------------------------------------------------------------
(* What an apply of the audit plugin leaves loaded until it flushes the    *)
(* kernel.                                                                 *)

\* The rules it found loaded from the files stay in the files, and loaded.
AuditStays ==
    call.quiet =>
        /\ call.pc # "idle" => call.filed \ call.config \subseteq Audit!Filed(host)
        /\ ~call.flushed => call.filed \ call.config \subseteq Audit!Live(host)

\* A step that leaves the files alone, and the kernel too or loads it from them.
AuditSameFiles ==
    /\ call.pc # "idle"
    /\ call'.quiet = call.quiet /\ call'.config = call.config /\ call'.filed = call.filed
    /\ call.flushed => call'.flushed
    /\ Audit!Compiled(host') = Audit!Compiled(host)
    /\ call'.flushed \/ host'.kernel = host.kernel \/ host'.kernel = Audit!Compiled(host')

LEMMA AuditStaysFiled ==
  ASSUME AuditStays, AuditSameFiles, call.flushed \in BOOLEAN, call'.flushed \in BOOLEAN
  PROVE  AuditStays'
<1>1. host'.kernel = host.kernel => Audit!Live(host') = Audit!Live(host)  BY DEF Audit!Live
<1>2. /\ Audit!Filed(host') = Audit!Filed(host)
      /\ host'.kernel = Audit!Compiled(host') => Audit!Live(host') = Audit!Filed(host')
  BY DEF Audit!Live, Audit!Filed, AuditSameFiles
<1> QED  BY <1>1, <1>2 DEF AuditStays, AuditSameFiles

LEMMA AuditFollows ==
  ASSUME HardeningAssumption, AuditInv,
         Audit!Enable \/ Audit!Start \/ Audit!AugenLoad \/ Audit!RestartDaemon
            \/ Audit!Sweep \/ Audit!Dies
  PROVE  AuditSameFiles
<1>1. host \in Audit!Host /\ call \in AuditCall  BY DEF AuditInv, AuditType
<1> DEFINE Follows(c) ==
             c.quiet = call.quiet /\ c.config = call.config /\ c.filed = call.filed
             /\ (call.flushed => c.flushed)
           c == Audit!Compile(host)
           l == Audit!Load(host)
<1>2. \A pc \in {"start", "write", "load", "restart", "sweep"} :
         /\ Follows(Audit!Goto(pc))
         /\ \A ok \in BOOLEAN : Follows([Audit!Goto(pc) EXCEPT !.ok = ok])
         /\ Follows([Audit!Goto(pc) EXCEPT !.flushed = TRUE])
         /\ [Audit!Goto(pc) EXCEPT !.flushed = TRUE].flushed
  BY <1>1 DEF Audit!Goto, AuditCall
<1>3. \A result : Follows(Audit!Ends(result))  BY <1>1 DEF Audit!Ends, AuditCall
<1>4. Follows(Audit!Loaded)  BY <1>2, <1>3 DEF Audit!Loaded
<1> HIDE DEF Follows
<1>5. /\ c \in Audit!Host /\ c.kernel = host.kernel /\ Audit!Compiled(c) = Audit!Compiled(host)
      /\ l \in Audit!Host /\ l.kernel = Audit!Compiled(l)
      /\ Audit!Compiled(l) = Audit!Compiled(host)
  BY <1>1, AuditLoads
<1> HIDE DEF c, l
<1>6. \A h \in Audit!Host, on \in BOOLEAN :
         /\ [h EXCEPT !.running = on].kernel = h.kernel
         /\ [h EXCEPT !.enabled = on].kernel = h.kernel
         /\ Audit!Compiled([h EXCEPT !.running = on]) = Audit!Compiled(h)
         /\ Audit!Compiled([h EXCEPT !.enabled = on]) = Audit!Compiled(h)
  BY DEF Audit!Host, Audit!Compiled
<1>7. Audit!Compiled([c EXCEPT !.kernel = {}]) = Audit!Compiled(c)
  BY <1>5 DEF Audit!Host, Audit!Compiled
<1>8. host.locked \in BOOLEAN  BY <1>1 DEF Audit!Host
<1>9. CASE Audit!Enable
  <2>1. call.pc # "idle"  BY <1>9 DEF Audit!Enable
  <2>2. Follows(call')  BY <1>2, <1>9 DEF Audit!Enable
  <2>3. host' = host \/ host' = [host EXCEPT !.enabled = TRUE]  BY <1>9 DEF Audit!Enable
  <2> QED  BY <1>1, <1>6, <2>1, <2>2, <2>3 DEF AuditSameFiles, Follows
<1>10. CASE Audit!Start
  <2>1. call.pc # "idle"  BY <1>10 DEF Audit!Start
  <2>2. Follows(call')  BY <1>2, <1>10 DEF Audit!Start
  <2>3. host' = host \/ host' \in {[host EXCEPT !.running = TRUE], [l EXCEPT !.running = TRUE]}
    BY <1>10 DEF Audit!Start, l
  <2> QED  BY <1>1, <1>5, <1>6, <2>1, <2>2, <2>3 DEF AuditSameFiles, Follows
<1>11. CASE Audit!AugenLoad
  <2>1. call.pc # "idle"  BY <1>11 DEF Audit!AugenLoad
  <2>2. \/ host' \in {host, c, l} /\ Follows(call')
        \/ host' = [c EXCEPT !.kernel = {}] /\ Follows(call') /\ call'.flushed
    BY <1>2, <1>4, <1>11 DEF Audit!AugenLoad, c, l
  <2> QED  BY <1>1, <1>5, <1>7, <2>1, <2>2 DEF AuditSameFiles, Follows
<1>12. CASE Audit!RestartDaemon
  <2>1. call.pc # "idle"  BY <1>12 DEF Audit!RestartDaemon
  <2>2. Follows(call')  BY <1>2, <1>3, <1>4, <1>8, <1>12 DEF Audit!RestartDaemon
  <2>3. host' = host \/ host' = [l EXCEPT !.running = TRUE]
    BY <1>12 DEF Audit!RestartDaemon, l
  <2> QED  BY <1>1, <1>5, <1>6, <2>1, <2>2, <2>3 DEF AuditSameFiles, Follows
<1>13. CASE Audit!Sweep
  <2>1. call.pc # "idle"  BY <1>13 DEF Audit!Sweep
  <2>2. Follows(call')  BY <1>3, <1>13 DEF Audit!Sweep
  <2>3. host'.ours = host.ours /\ host'.foreign = host.foreign /\ host'.kernel = host.kernel
    BY <1>1, <1>13 DEF Audit!Sweep, Audit!Host
  <2> QED  BY <2>1, <2>2, <2>3 DEF AuditSameFiles, Follows, Audit!Compiled
<1>14. CASE Audit!Dies
  BY <1>3, <1>14 DEF Audit!Dies, AuditSameFiles, Follows
<1> QED  BY <1>9, <1>10, <1>11, <1>12, <1>13, <1>14

LEMMA AuditStaysNext ==
  ASSUME HardeningAssumption, AuditInv, AuditStays, Audit!Next
  PROVE  AuditStays'
<1>1. /\ host \in Audit!Host /\ call \in AuditCall /\ call' \in AuditCall
      /\ call.config \in SUBSET AuditParams.Category
  BY AuditNext DEF AuditInv, AuditType, AuditCall
<1>2. CASE Audit!Begin
  <2> DEFINE filed == Audit!Filed(host) \cap Audit!Live(host)
             live == Audit!Live(host)
  <2>1. PICK config \in AuditParams.Configs :
          LET c == [Audit!Idle EXCEPT !.config = config, !.live = live, !.filed = filed,
                                      !.estimates = Audit!Estimates(config, host)] IN
          \/ call' = [c EXCEPT !.result = "failed"] /\ host' = host
          \/ /\ call' = [c EXCEPT !.pc = "enable"]
             /\ host' = [host EXCEPT !.saved =
                   [ours |-> host.ours, compiled |-> host.compiled, prev |-> host.prev]]
    BY <1>2 DEF Audit!Begin
  <2> HIDE DEF filed, live
  <2>2. call'.filed = filed  BY <2>1 DEF Audit!Idle
  <2>3. host'.kernel = host.kernel /\ host'.ours = host.ours /\ host'.foreign = host.foreign
    BY <1>1, <2>1 DEF Audit!Host
  <2>4. Audit!Live(host') = Audit!Live(host) /\ Audit!Filed(host') = Audit!Filed(host)
    BY <2>3 DEF Audit!Live, Audit!Filed, Audit!Compiled
  <2> QED  BY <2>2, <2>4 DEF AuditStays, filed
<1>3. CASE Audit!Write
  <2>1. /\ call'.quiet = call.quiet /\ call'.config = call.config /\ call'.filed = call.filed
        /\ call'.flushed = call.flushed /\ call.pc # "idle"
    BY <1>1, <1>3 DEF Audit!Write, Audit!Goto, Audit!Ends, AuditCall
  <2>2. /\ host'.kernel = host.kernel /\ host'.foreign = host.foreign
        /\ host'.ours = host.ours \/ host'.ours = Audit!Rendered(call.config)
    BY <1>1, <1>3 DEF Audit!Write, Audit!Host
  <2>3. Audit!Live(host') = Audit!Live(host)  BY <2>2 DEF Audit!Live
  <2>4. CASE host'.ours = host.ours
    BY <2>1, <2>2, <2>3, <2>4 DEF AuditStays, Audit!Filed, Audit!Compiled
  <2>5. CASE host'.ours = Audit!Rendered(call.config)
    <3>1. Audit!Rendered(call.config) \subseteq Audit!Compiled(host')
      BY <1>1, <2>5, AuditRenders DEF Audit!Compiled
    <3>2. ASSUME NEW c \in AuditParams.Category \ call.config
          PROVE  c \in Audit!Filed(host')
      <4> DEFINE r == [category |-> c, version |-> AuditParams.Current]
      <4>1. r \in Audit!Compiled(host') /\ r.category = c  BY <3>1 DEF Audit!Rendered
      <4> HIDE DEF r
      <4> QED  BY <4>1 DEF Audit!Filed
    <3>3. call.filed \subseteq AuditParams.Category  BY <1>1 DEF AuditCall
    <3> QED  BY <2>1, <2>3, <3>2, <3>3 DEF AuditStays
  <2> QED  BY <2>2, <2>4, <2>5
<1>4. CASE Audit!Rollback
  <2>1. call'.filed = {}
    BY <1>4 DEF Audit!Rollback, Audit!Idle
  <2> QED  BY <2>1 DEF AuditStays
<1>5. CASE Audit!Others
  <2>1. call'.quiet = FALSE  BY <1>1, <1>5 DEF Audit!Others, AuditCall
  <2> QED  BY <2>1 DEF AuditStays
<1>6. call.flushed \in BOOLEAN /\ call'.flushed \in BOOLEAN  BY <1>1 DEF AuditCall
<1>7. CASE AuditSameFiles  BY <1>6, <1>7, AuditStaysFiled
<1> QED  BY <1>2, <1>3, <1>4, <1>5, <1>7, AuditFollows DEF Audit!Next

LEMMA AuditLoses == ASSUME AuditInv, AuditStays PROVE Audit!NothingUnloaded
BY DEF AuditInv, AuditKept, AuditStays, Audit!NothingUnloaded, Audit!LostOnlyToAFlush

-----------------------------------------------------------------------------
(* The services plugin.                                                    *)

ServCall ==
    [pc : {"idle", "probe", "stop", "disable", "mask"}, step : Nat,
     result : {"none", "success", "failed", "undone", "undone_not_reloaded", "died"},
     quiet : BOOLEAN, ok : BOOLEAN, on : BOOLEAN, config : SUBSET Serv!Service,
     todo : SUBSET Serv!Service, blind : SUBSET Serv!Service, started : SUBSET Serv!Service]

ServType == host \in Serv!Host /\ call \in ServCall

\* An apply under way.  The services behind it are minimised, or were not to be;
\* the one it has stopped does not run.
ServDone(c, h, s) ==
    \/ s \in c.config \cup c.blind
    \/ ~h.unit[s].installed
    \/ (~h.unit[s].active /\ ~Serv!Enabled(h.unit[s]))

ServApplying ==
    call.quiet =>
        /\ call.pc # "idle" =>
              /\ call.step > 0
              /\ \A s \in Serv!Service \ call.todo :
                    s \in call.blind \/ ~host.unit[s].installed
              /\ call.todo \subseteq host.saved.declared
              /\ call.ok => \A i \in 1..(call.step - 1) : ServDone(call, host, ServParams.Services[i])
        /\ call.pc \in {"stop", "disable", "mask"} =>
              ServParams.Services[call.step] \in call.todo
        /\ call.pc \in {"disable", "mask"} =>
              LET s == ServParams.Services[call.step] IN
              s \in call.blind \/ ~host.unit[s].active
        /\ call.result = "success" => Serv!SuccessMeansMinimised

\* What the calls of a checkpoint that is still the last word have made of a
\* unit: disabled one that was enabled, and made a link it declared.
ServSince(now, was, declared) ==
    /\ now.installed = was.installed
    /\ now.file = was.file \/ (was.file = "enabled" /\ now.file = "disabled")
    /\ now.slot = was.slot \/ (declared /\ now.slot = "mask")

ServSaved ==
    (host.saved # Absent /\ host.saved.quiet) =>
        \A s \in Serv!Service :
            ServSince(host.unit[s], host.saved.unit[s], s \in host.saved.declared)

\* A rollback that nobody came after.
ServUndone ==
    (call.pc = "idle" /\ call.result = "undone") =>
        /\ host.saved # Absent
        /\ call.quiet /\ host.saved.quiet =>
             \A s \in Serv!Service :
                /\ host.unit[s].file = host.saved.unit[s].file
                /\ host.unit[s].slot = host.saved.unit[s].slot

ServInv ==
    /\ ServType
    /\ call.pc # "idle" =>
          /\ call.result = "none" /\ host.saved # Absent
          /\ host.saved.quiet => call.quiet
    /\ call.pc \in {"stop", "disable", "mask"} => call.step \in DOMAIN ServParams.Services
    /\ ServApplying /\ ServSaved /\ ServUndone

\* A unit of the host set to a value.
LEMMA ServSets ==
  ASSUME NEW s \in Serv!Service, NEW v \in Serv!Unit, host \in Serv!Host,
         host' = [host EXCEPT !.unit[s] = v]
  PROVE  /\ host' \in Serv!Host /\ host'.saved = host.saved /\ host'.unit[s] = v
         /\ \A r \in Serv!Service \ {s} : host'.unit[r] = host.unit[r]
<1> DEFINE units == [host.unit EXCEPT ![s] = v]
<1>1. host.unit \in [Serv!Service -> Serv!Unit]  BY DEF Serv!Host
<1>2. units \in [Serv!Service -> Serv!Unit] /\ units[s] = v
      /\ \A r \in Serv!Service \ {s} : units[r] = host.unit[r]
  BY <1>1
<1>3. host' = [host EXCEPT !.unit = units]  OBVIOUS
<1> HIDE DEF units
<1>4. host' \in Serv!Host /\ host'.unit = units /\ host'.saved = host.saved
  BY <1>2, <1>3 DEF Serv!Host
<1> QED  BY <1>2, <1>4

\* A step of an apply on one unit, which only minimises it.
LEMMA ServMinimises ==
  ASSUME HardeningAssumption, ServInv, NEW s \in Serv!Service, NEW v \in Serv!Unit,
         host' = [host EXCEPT !.unit[s] = v],
         v.installed = host.unit[s].installed, v.active => host.unit[s].active,
         Serv!Enabled(v) => Serv!Enabled(host.unit[s]),
         (host.saved # Absent /\ host.saved.quiet) =>
             ServSince(v, host.saved.unit[s], s \in host.saved.declared),
         call'.config = call.config, call'.blind = call.blind
  PROVE  /\ host' \in Serv!Host /\ host'.saved = host.saved /\ host'.unit[s] = v
         /\ ServSaved'
         /\ \A r \in Serv!Service :
              /\ host'.unit[r].installed <=> host.unit[r].installed
              /\ host'.unit[r].active => host.unit[r].active
              /\ ServDone(call, host, r) => ServDone(call', host', r)
<1>1. host \in Serv!Host  BY DEF ServInv, ServType
<1>2. /\ host' \in Serv!Host /\ host'.saved = host.saved /\ host'.unit[s] = v
      /\ \A r \in Serv!Service \ {s} : host'.unit[r] = host.unit[r]
  BY <1>1, ServSets
<1>3. ASSUME NEW r \in Serv!Service
      PROVE  /\ host'.unit[r].installed <=> host.unit[r].installed
             /\ host'.unit[r].active => host.unit[r].active
             /\ ServDone(call, host, r) => ServDone(call', host', r)
             /\ (host.saved # Absent /\ host.saved.quiet) =>
                  ServSince(host'.unit[r], host.saved.unit[r], r \in host.saved.declared)
  <2>1. CASE r = s  BY <1>2, <2>1 DEF ServDone
  <2>2. CASE r # s  BY <1>2, <2>2 DEF ServDone, ServInv, ServSaved
  <2> QED  BY <2>1, <2>2
<1> QED  BY <1>2, <1>3 DEF ServSaved

\* Where the call ends without a success, or with nothing done.
LEMMA ServEnds ==
  ASSUME ServInv, host' = host, call' \in ServCall, call'.pc = "idle",
         call'.result \in {"none", "failed", "died"}
  PROVE  ServInv'
BY DEF ServInv, ServType, ServApplying, ServSaved, ServUndone

LEMMA ServBegins ==
  ASSUME HardeningAssumption, ServInv, Serv!Begin
  PROVE  ServInv'
<1>1. PICK config \in ServParams.Configs, blind \in SUBSET Serv!Service :
         LET seen == {s \in Serv!Service \ blind : host.unit[s].installed} IN
         \/ call' = [Serv!Idle EXCEPT !.result = "failed"] /\ UNCHANGED host
         \/ /\ call' = [Serv!Idle EXCEPT !.pc = "probe", !.step = 1, !.config = config,
                                         !.todo = seen, !.blind = blind]
            /\ host' = [host EXCEPT !.saved =
                  [unit |-> host.unit, declared |-> seen, quiet |-> TRUE]]
  BY Zenon DEF Serv!Begin
<1>2. config \in SUBSET Serv!Service  BY HardeningAssumption DEF Serv!ServicesAssumption
<1> DEFINE seen == {s \in Serv!Service \ blind : host.unit[s].installed}
           saved == [unit |-> host.unit, declared |-> seen, quiet |-> TRUE]
<1>3. CASE call' = [Serv!Idle EXCEPT !.result = "failed"] /\ UNCHANGED host
  <2>1. call' \in ServCall /\ call'.pc = "idle" /\ call'.result = "failed"
    BY <1>3 DEF Serv!Idle, ServCall
  <2> QED  BY <1>3, <2>1, ServEnds
<1>4. CASE /\ call' = [Serv!Idle EXCEPT !.pc = "probe", !.step = 1, !.config = config,
                                        !.todo = seen, !.blind = blind]
           /\ host' = [host EXCEPT !.saved = saved]
  <2>1. host \in Serv!Host  BY DEF ServInv, ServType
  <2>2. seen \in SUBSET Serv!Service
        /\ \A s \in Serv!Service \ seen : s \in blind \/ ~host.unit[s].installed
    OBVIOUS
  <2>3. saved \in Serv!Checkpoint /\ saved.unit = host.unit /\ saved.declared = seen
        /\ saved.quiet = TRUE
    BY <2>1, <2>2 DEF Serv!Host, Serv!Checkpoint
  <2> HIDE DEF seen, saved
  <2>4. host' \in Serv!Host /\ host'.unit = host.unit /\ host'.saved = saved
    BY <1>4, <2>1, <2>3 DEF Serv!Host
  <2>5. /\ call' \in ServCall /\ call'.pc = "probe" /\ call'.result = "none" /\ call'.quiet = TRUE
        /\ call'.step = 1 /\ call'.config = config /\ call'.todo = seen /\ call'.blind = blind
    BY <1>2, <1>4, <2>2 DEF Serv!Idle, ServCall
  <2>6. ServApplying'  BY <2>2, <2>3, <2>4, <2>5 DEF ServApplying
  <2>7. ServSaved'  BY <2>3, <2>4 DEF ServSaved, ServSince
  <2>8. saved # Absent => ServInv'
    BY <2>3, <2>4, <2>5, <2>6, <2>7 DEF ServInv, ServType, ServUndone
  <2>9. saved # Absent  BY <2>3, HardeningAssumption DEF Serv!ServicesAssumption
  <2> QED  BY <2>8, <2>9
<1> QED  BY <1>1, <1>3, <1>4

\* The services before one of the list are of the list.
LEMMA ServListed ==
  ASSUME HardeningAssumption, NEW k \in DOMAIN ServParams.Services
  PROVE  /\ k \in Nat /\ k > 0 /\ ServParams.Services[k] \in Serv!Service
         /\ \A i \in 1..(k - 1) : ServParams.Services[i] \in Serv!Service
<1>1. ServParams.Services \in Seq(Serv!Service)
  BY HardeningAssumption DEF Serv!ServicesAssumption
<1> QED  BY <1>1

\* An apply that is done with a service goes on to the next.
LEMMA ServGoesOn ==
  ASSUME HardeningAssumption, ServInv, call.pc # "idle", call.step \in DOMAIN ServParams.Services,
         host' \in Serv!Host, call' \in ServCall, host'.saved = host.saved, ServSaved',
         \A r \in Serv!Service : /\ host'.unit[r].installed => host.unit[r].installed
                                 /\ ServDone(call, host, r) => ServDone(call', host', r),
         call'.pc = "probe", call'.step = call.step + 1, call'.result = call.result,
         call'.quiet <=> call.quiet, call'.config = call.config, call'.todo = call.todo,
         call.blind \subseteq call'.blind,
         (call'.quiet /\ call'.ok) =>
             call.ok /\ ServDone(call', host', ServParams.Services[call.step])
  PROVE  ServInv'
<1>1. call.step \in Nat /\ call.step > 0  BY ServListed
<1>2. \A i \in 1..(call'.step - 1) : i = call.step \/ i \in 1..(call.step - 1)  BY <1>1
<1>3. (call'.quiet /\ call'.ok) =>
         \A i \in 1..(call'.step - 1) : ServDone(call', host', ServParams.Services[i])
  <2>1. (call.quiet /\ call.ok) =>
           \A i \in 1..(call.step - 1) : ServDone(call, host, ServParams.Services[i])
    BY DEF ServInv, ServApplying
  <2>2. \A i \in 1..(call.step - 1) : ServParams.Services[i] \in Serv!Service  BY ServListed
  <2> QED  BY <1>2, <2>1, <2>2
<1>4. call'.quiet =>
         /\ \A s \in Serv!Service \ call'.todo : s \in call'.blind \/ ~host'.unit[s].installed
         /\ call'.todo \subseteq host'.saved.declared
  <2>1. call.quiet =>
           /\ \A s \in Serv!Service \ call.todo : s \in call.blind \/ ~host.unit[s].installed
           /\ call.todo \subseteq host.saved.declared
    BY DEF ServInv, ServApplying
  <2>2. ASSUME call'.quiet, NEW s \in Serv!Service \ call'.todo
        PROVE  s \in call'.blind \/ ~host'.unit[s].installed
    BY <2>1, <2>2
  <2>3. call'.quiet => call'.todo \subseteq host'.saved.declared  BY <2>1
  <2> QED  BY <2>2, <2>3
<1>5. call'.result # "success"  BY DEF ServInv
<1>6. ServApplying'  BY <1>1, <1>3, <1>4, <1>5 DEF ServApplying
<1> QED  BY <1>6 DEF ServInv, ServType, ServUndone

\* An apply that has more to do with a service.
LEMMA ServStays ==
  ASSUME HardeningAssumption, ServInv, call.pc # "idle", call.step \in DOMAIN ServParams.Services,
         host' \in Serv!Host, call' \in ServCall, host'.saved = host.saved, ServSaved',
         \A r \in Serv!Service : /\ host'.unit[r].installed => host.unit[r].installed
                                 /\ ServDone(call, host, r) => ServDone(call', host', r),
         call'.pc \in {"stop", "disable", "mask"}, call'.step = call.step,
         call'.result = call.result, call'.quiet <=> call.quiet, call'.todo = call.todo,
         call'.ok => call.ok, call.blind \subseteq call'.blind,
         call.quiet => ServParams.Services[call.step] \in call.todo,
         (call.quiet /\ call'.pc \in {"disable", "mask"}) =>
             \/ ServParams.Services[call.step] \in call'.blind
             \/ ~host'.unit[ServParams.Services[call.step]].active
  PROVE  ServInv'
<1>1. call.quiet =>
         /\ call.step > 0
         /\ \A r \in Serv!Service \ call.todo : r \in call.blind \/ ~host.unit[r].installed
         /\ call.todo \subseteq host.saved.declared
         /\ call.ok => \A i \in 1..(call.step - 1) :
                          ServDone(call, host, ServParams.Services[i])
  BY DEF ServInv, ServApplying
<1>2. ASSUME call'.quiet
      PROVE  /\ \A r \in Serv!Service \ call'.todo : r \in call'.blind \/ ~host'.unit[r].installed
             /\ call'.todo \subseteq host'.saved.declared
  BY <1>1, <1>2
<1>3. \A i \in 1..(call.step - 1) : ServParams.Services[i] \in Serv!Service  BY ServListed
<1>4. (call'.quiet /\ call'.ok) =>
         \A i \in 1..(call'.step - 1) : ServDone(call', host', ServParams.Services[i])
  BY <1>1, <1>3
<1>5. call'.result # "success"  BY DEF ServInv
<1>6. ServApplying'  BY <1>1, <1>2, <1>4, <1>5 DEF ServApplying
<1> QED  BY <1>6 DEF ServInv, ServType, ServUndone

LEMMA ServProbes ==
  ASSUME HardeningAssumption, ServInv, Serv!Probe
  PROVE  ServInv'
<1>1. host \in Serv!Host /\ call \in ServCall  BY DEF ServInv, ServType
<1>2. host' = host /\ call.pc = "probe" /\ call.step \in DOMAIN ServParams.Services
  BY DEF Serv!Probe
<1> DEFINE s == ServParams.Services[call.step]
           u == host.unit[s]
<1>3. s \in Serv!Service  BY <1>2 DEF Serv!Service
<1>4. ServSaved'  BY <1>2 DEF ServInv, ServSaved
<1>5. ASSUME call'.config = call.config, call.blind \subseteq call'.blind
      PROVE  \A r \in Serv!Service : ServDone(call, host, r) => ServDone(call', host', r)
  BY <1>2, <1>5 DEF ServDone
<1>6. CASE s \notin call.todo \ call.config /\ call' = Serv!NextUnit
  <2>1. /\ call' \in ServCall /\ call'.pc = "probe" /\ call'.step = call.step + 1
        /\ call'.result = call.result /\ call'.quiet = call.quiet /\ call'.ok = call.ok
        /\ call'.config = call.config /\ call'.todo = call.todo /\ call'.blind = call.blind
    <3> DEFINE step == call.step + 1
    <3>1. step \in Nat  BY <1>1 DEF ServCall
    <3>2. call' = [call EXCEPT !.pc = "probe", !.step = step]  BY <1>6 DEF Serv!NextUnit
    <3> HIDE DEF step
    <3>3. /\ call' \in ServCall /\ call'.pc = "probe" /\ call'.step = step
          /\ call'.result = call.result /\ call'.quiet = call.quiet /\ call'.ok = call.ok
          /\ call'.config = call.config /\ call'.todo = call.todo /\ call'.blind = call.blind
      BY <1>1, <3>1, <3>2 DEF ServCall
    <3> QED  BY <3>3 DEF step
  <2>2. call.quiet => ServDone(call', host', s)
    <3>1. call.quiet =>
             \A r \in Serv!Service \ call.todo : r \in call.blind \/ ~host.unit[r].installed
      BY <1>2 DEF ServInv, ServApplying
    <3> QED  BY <1>2, <1>3, <1>6, <2>1, <3>1 DEF ServDone
  <2> QED  BY <1>1, <1>2, <1>4, <1>5, <2>1, <2>2, ServGoesOn
<1>7. ASSUME s \in call.todo \ call.config,
             NEW on \in {Serv!Enabled(u), FALSE}, NEW runs \in {u.active, FALSE},
             LET c == [call EXCEPT !.on = on,
                          !.blind = IF on # Serv!Enabled(u) \/ runs # u.active
                                    THEN @ \cup {s} ELSE @]
             IN call' = CASE runs -> [c EXCEPT !.pc = "stop"]
                          [] on /\ ~runs -> [c EXCEPT !.pc = "disable"]
                          [] OTHER -> [c EXCEPT !.step = @ + 1]
      PROVE  ServInv'
  <2> DEFINE b == IF on # Serv!Enabled(u) \/ runs # u.active THEN call.blind \cup {s}
                  ELSE call.blind
             c == [call EXCEPT !.on = on, !.blind = b]
  <2>1. u \in Serv!Unit  BY <1>1, <1>3 DEF Serv!Host
  <2>2. on \in BOOLEAN /\ runs \in BOOLEAN  BY <2>1 DEF Serv!Unit, Serv!Enabled
  <2>3. /\ b \in SUBSET Serv!Service /\ call.blind \subseteq b
        /\ s \in b \/ (on = Serv!Enabled(u) /\ runs = u.active)
    BY <1>1, <1>3 DEF ServCall
  <2> HIDE DEF b
  <2>4. c \in ServCall /\ c.pc = call.pc /\ c.step = call.step /\ c.result = call.result
        /\ c.quiet = call.quiet /\ c.ok = call.ok /\ c.config = call.config
        /\ c.todo = call.todo /\ c.blind = b
    BY <1>1, <2>2, <2>3 DEF ServCall
  <2>5. call' = CASE runs -> [c EXCEPT !.pc = "stop"]
                  [] on /\ ~runs -> [c EXCEPT !.pc = "disable"]
                  [] OTHER -> [c EXCEPT !.step = @ + 1]
    BY <1>7 DEF b
  <2> HIDE DEF c
  <2>6. CASE ~runs /\ ~on
    <3>1. call' = [c EXCEPT !.step = @ + 1]  BY <2>5, <2>6
    <3>2. /\ call' \in ServCall /\ call'.pc = "probe" /\ call'.step = call.step + 1
          /\ call'.result = call.result /\ call'.quiet = call.quiet /\ call'.ok = call.ok
          /\ call'.config = call.config /\ call'.todo = call.todo /\ call'.blind = b
      BY <1>2, <2>4, <3>1 DEF ServCall
    <3>3. ServDone(call', host', s)
      BY <1>2, <2>1, <2>3, <2>6, <3>2 DEF ServDone, Serv!Unit, Serv!Enabled
    <3> QED  BY <1>1, <1>2, <1>4, <1>5, <2>3, <3>2, <3>3, ServGoesOn
  <2>7. CASE runs \/ on
    <3>1. call' = [c EXCEPT !.pc = IF runs THEN "stop" ELSE "disable"]
      BY <2>2, <2>5, <2>7
    <3>2. /\ call' \in ServCall /\ call'.pc = (IF runs THEN "stop" ELSE "disable")
          /\ call'.result = call.result /\ call'.quiet = call.quiet /\ call'.ok = call.ok
          /\ call'.config = call.config /\ call'.todo = call.todo /\ call'.blind = b
          /\ call'.step = call.step
      BY <2>4, <3>1 DEF ServCall
    <3>3. call'.pc = "disable" => s \in b \/ ~u.active  BY <2>2, <2>3, <3>2
    <3>4. \A r \in Serv!Service : ServDone(call, host, r) => ServDone(call', host', r)
      <4>1. call'.config = call.config /\ call.blind \subseteq call'.blind  BY <2>3, <3>2
      <4> QED  BY <1>5, <4>1
    <3>5. /\ call.quiet => s \in call.todo
          /\ call'.pc \in {"disable", "mask"} => s \in call'.blind \/ ~host'.unit[s].active
      BY <1>2, <1>7, <3>2, <3>3
    <3>6. /\ call'.pc \in {"stop", "disable", "mask"} /\ call.pc # "idle"
          /\ call.blind \subseteq call'.blind /\ host' \in Serv!Host /\ host'.saved = host.saved
          /\ \A r \in Serv!Service : host'.unit[r].installed => host.unit[r].installed
      BY <1>1, <1>2, <2>3, <3>2
    <3> QED  BY <1>2, <1>4, <3>2, <3>4, <3>5, <3>6, ServStays
  <2> QED  BY <2>6, <2>7, <2>2
<1> QED  BY <1>6, <1>7 DEF Serv!Probe

\* The service an apply is at.
LEMMA ServAt ==
  ASSUME HardeningAssumption, ServInv, call.pc \in {"stop", "disable", "mask"},
         NEW s, s = ServParams.Services[call.step]
  PROVE  /\ call.step \in DOMAIN ServParams.Services
         /\ s \in Serv!Service /\ host.unit[s] \in Serv!Unit
         /\ call.quiet => s \in call.todo
         /\ (host.saved # Absent /\ host.saved.quiet) =>
               /\ s \in host.saved.declared
               /\ ServSince(host.unit[s], host.saved.unit[s], s \in host.saved.declared)
         /\ (call.quiet /\ call.pc # "stop") => s \in call.blind \/ ~host.unit[s].active
<1>1. call.step \in DOMAIN ServParams.Services  BY DEF ServInv
<1>2. s \in Serv!Service /\ host.unit[s] \in Serv!Unit
  BY <1>1 DEF Serv!Service, Serv!Host, ServInv, ServType
<1>3. call.quiet => s \in call.todo /\ call.todo \subseteq host.saved.declared
  BY DEF ServInv, ServApplying
<1>4. (call.quiet /\ call.pc # "stop") => s \in call.blind \/ ~host.unit[s].active
  BY DEF ServInv, ServApplying
<1>5. (host.saved # Absent /\ host.saved.quiet) =>
         /\ call.quiet
         /\ ServSince(host.unit[s], host.saved.unit[s], s \in host.saved.declared)
  BY <1>2 DEF ServInv, ServSaved
<1> QED  BY <1>1, <1>2, <1>3, <1>4, <1>5

\* Where a service will not be stopped, or not masked, the call has failed.
LEMMA ServFails ==
  ASSUME HardeningAssumption, ServInv, call.pc # "idle", call.step \in DOMAIN ServParams.Services,
         host' = host, call' = [Serv!NextUnit EXCEPT !.ok = FALSE]
  PROVE  ServInv'
<1>1. host \in Serv!Host /\ call \in ServCall  BY DEF ServInv, ServType
<1> DEFINE step == call.step + 1
<1>2. step \in Nat  BY <1>1 DEF ServCall
<1>3. call' = [call EXCEPT !.pc = "probe", !.step = step, !.ok = FALSE]  BY DEF Serv!NextUnit
<1> HIDE DEF step
<1>4. /\ call' \in ServCall /\ call'.pc = "probe" /\ call'.step = step
      /\ call'.result = call.result /\ call'.quiet = call.quiet /\ ~call'.ok
      /\ call'.config = call.config /\ call'.todo = call.todo /\ call'.blind = call.blind
  BY <1>1, <1>2, <1>3 DEF ServCall
<1>5. /\ ServSaved'
      /\ \A r \in Serv!Service : ServDone(call, host, r) => ServDone(call', host', r)
  BY <1>4 DEF ServInv, ServSaved, ServDone
<1>6. call'.step = call.step + 1  BY <1>4 DEF step
<1> QED  BY <1>1, <1>4, <1>5, <1>6, ServGoesOn

LEMMA ServStops ==
  ASSUME HardeningAssumption, ServInv, Serv!Stop
  PROVE  ServInv'
<1> DEFINE s == ServParams.Services[call.step]
           v == [host.unit[s] EXCEPT !.active = FALSE]
<1>1. host \in Serv!Host /\ call \in ServCall /\ call.pc = "stop"
  BY DEF Serv!Stop, ServInv, ServType
<1>2. /\ call.step \in DOMAIN ServParams.Services
      /\ s \in Serv!Service /\ host.unit[s] \in Serv!Unit
      /\ call.quiet => s \in call.todo
      /\ (host.saved # Absent /\ host.saved.quiet) =>
            ServSince(host.unit[s], host.saved.unit[s], s \in host.saved.declared)
  BY <1>1, ServAt
<1>3. /\ v \in Serv!Unit /\ v.active = FALSE /\ v.installed = host.unit[s].installed
      /\ v.file = host.unit[s].file /\ v.slot = host.unit[s].slot
  BY <1>2 DEF Serv!Unit
<1>4. CASE /\ host' = [host EXCEPT !.unit[s].active = FALSE]
           /\ call' = Serv!Goto(IF call.on THEN "disable" ELSE "mask")
  <2>1. host' = [host EXCEPT !.unit[s] = v]  BY <1>4
  <2>2. /\ call' \in ServCall /\ call'.pc \in {"disable", "mask"} /\ call'.step = call.step
        /\ call'.result = call.result /\ call'.quiet = call.quiet /\ call'.ok = call.ok
        /\ call'.config = call.config /\ call'.todo = call.todo /\ call'.blind = call.blind
    BY <1>1, <1>4 DEF Serv!Goto, ServCall
  <2> HIDE DEF v
  <2>3. /\ Serv!Enabled(v) => Serv!Enabled(host.unit[s])
        /\ (host.saved # Absent /\ host.saved.quiet) =>
              ServSince(v, host.saved.unit[s], s \in host.saved.declared)
    BY <1>2, <1>3 DEF Serv!Enabled, Serv!Word, ServSince
  <2>4. /\ host' \in Serv!Host /\ host'.saved = host.saved /\ host'.unit[s] = v /\ ServSaved'
        /\ \A r \in Serv!Service : /\ host'.unit[r].installed <=> host.unit[r].installed
                                   /\ ServDone(call, host, r) => ServDone(call', host', r)
    BY <1>2, <1>3, <2>1, <2>2, <2>3, ServMinimises
  <2> QED  BY <1>1, <1>2, <1>3, <2>2, <2>4, ServStays
<1>5. CASE UNCHANGED host /\ call' = [Serv!NextUnit EXCEPT !.ok = FALSE]
  BY <1>1, <1>2, <1>5, ServFails
<1> QED  BY <1>4, <1>5 DEF Serv!Stop

LEMMA ServDisables ==
  ASSUME HardeningAssumption, ServInv, Serv!Disable
  PROVE  ServInv'
<1> DEFINE s == ServParams.Services[call.step]
           u == host.unit[s]
           v == [u EXCEPT !.file = IF @ = "enabled" THEN "disabled" ELSE @]
<1>1. host \in Serv!Host /\ call \in ServCall /\ call.pc = "disable"
  BY DEF Serv!Disable, ServInv, ServType
<1>2. /\ call.step \in DOMAIN ServParams.Services /\ s \in Serv!Service /\ u \in Serv!Unit
      /\ call.quiet => s \in call.todo /\ (s \in call.blind \/ ~u.active)
      /\ (host.saved # Absent /\ host.saved.quiet) =>
            ServSince(u, host.saved.unit[s], s \in host.saved.declared)
  BY <1>1, ServAt
<1>3. /\ v \in Serv!Unit /\ v.active = u.active /\ v.installed = u.installed
      /\ v.file = (IF u.file = "enabled" THEN "disabled" ELSE u.file) /\ v.slot = u.slot
  BY <1>2 DEF Serv!Unit
<1>4. ASSUME call' \in {Serv!Goto("mask"), [Serv!Goto("mask") EXCEPT !.ok = FALSE]}
      PROVE  /\ call' \in ServCall /\ call'.pc = "mask" /\ call'.step = call.step
             /\ call'.result = call.result /\ call'.quiet = call.quiet /\ (call'.ok => call.ok)
             /\ call'.config = call.config /\ call'.todo = call.todo /\ call'.blind = call.blind
  BY <1>1, <1>4 DEF Serv!Goto, ServCall
<1>5. CASE /\ host' = [host EXCEPT !.unit[s].file = IF @ = "enabled" THEN "disabled" ELSE @]
           /\ call' = Serv!Goto("mask")
  <2>1. host' = [host EXCEPT !.unit[s] = v]  BY <1>5
  <2> HIDE DEF v
  <2>2. /\ Serv!Enabled(v) => Serv!Enabled(u)
        /\ (host.saved # Absent /\ host.saved.quiet) =>
              ServSince(v, host.saved.unit[s], s \in host.saved.declared)
    BY <1>2, <1>3 DEF Serv!Enabled, Serv!Word, ServSince
  <2>3. /\ host' \in Serv!Host /\ host'.saved = host.saved /\ host'.unit[s] = v /\ ServSaved'
        /\ \A r \in Serv!Service : /\ host'.unit[r].installed <=> host.unit[r].installed
                                   /\ ServDone(call, host, r) => ServDone(call', host', r)
    <3>1. call'.config = call.config /\ call'.blind = call.blind  BY <1>4, <1>5
    <3> QED  BY <1>2, <1>3, <2>1, <2>2, <3>1, ServMinimises
  <2> QED  BY <1>1, <1>2, <1>3, <1>4, <1>5, <2>3, ServStays
<1>6. CASE UNCHANGED host /\ call' = [Serv!Goto("mask") EXCEPT !.ok = FALSE]
  <2>1. /\ ServSaved'
        /\ \A r \in Serv!Service : ServDone(call, host, r) => ServDone(call', host', r)
    BY <1>4, <1>6 DEF ServInv, ServSaved, ServDone
  <2> QED  BY <1>1, <1>2, <1>4, <1>6, <2>1, ServStays
<1> QED  BY <1>5, <1>6 DEF Serv!Disable

LEMMA ServMasks ==
  ASSUME HardeningAssumption, ServInv, Serv!Mask
  PROVE  ServInv'
<1> DEFINE s == ServParams.Services[call.step]
           u == host.unit[s]
           v == [u EXCEPT !.slot = "mask"]
<1>1. host \in Serv!Host /\ call \in ServCall /\ call.pc = "mask"
  BY DEF Serv!Mask, ServInv, ServType
<1>2. /\ call.step \in DOMAIN ServParams.Services /\ s \in Serv!Service /\ u \in Serv!Unit
      /\ call.quiet => s \in call.todo /\ (s \in call.blind \/ ~u.active)
      /\ (host.saved # Absent /\ host.saved.quiet) =>
            /\ s \in host.saved.declared
            /\ ServSince(u, host.saved.unit[s], s \in host.saved.declared)
  BY <1>1, ServAt
<1>3. /\ v \in Serv!Unit /\ v.active = u.active /\ v.installed = u.installed
      /\ v.file = u.file /\ v.slot = "mask"
  BY <1>2 DEF Serv!Unit
<1>4. CASE host' = [host EXCEPT !.unit[s].slot = "mask"] /\ call' = Serv!NextUnit
  <2> DEFINE step == call.step + 1
  <2>1. host' = [host EXCEPT !.unit[s] = v]  BY <1>4
  <2> HIDE DEF v
  <2>2. step \in Nat  BY <1>1 DEF ServCall
  <2>3. call' = [call EXCEPT !.pc = "probe", !.step = step]  BY <1>4 DEF Serv!NextUnit
  <2> HIDE DEF step
  <2>4. /\ call' \in ServCall /\ call'.pc = "probe" /\ call'.step = step
        /\ call'.result = call.result /\ (call'.quiet <=> call.quiet) /\ (call'.ok => call.ok)
        /\ call'.config = call.config /\ call'.todo = call.todo /\ call'.blind = call.blind
    BY <1>1, <2>2, <2>3 DEF ServCall
  <2>5. /\ ~Serv!Enabled(v)
        /\ (host.saved # Absent /\ host.saved.quiet) =>
              ServSince(v, host.saved.unit[s], s \in host.saved.declared)
    BY <1>2, <1>3 DEF Serv!Enabled, Serv!Word, ServSince
  <2>6. /\ host' \in Serv!Host /\ host'.saved = host.saved /\ host'.unit[s] = v /\ ServSaved'
        /\ \A r \in Serv!Service : /\ host'.unit[r].installed <=> host.unit[r].installed
                                   /\ ServDone(call, host, r) => ServDone(call', host', r)
    BY <1>2, <1>3, <2>1, <2>4, <2>5, ServMinimises
  <2>7. call.quiet => ServDone(call', host', s)
    BY <1>2, <1>3, <2>4, <2>5, <2>6 DEF ServDone
  <2>8. call'.step = call.step + 1  BY <2>4 DEF step
  <2> QED  BY <1>1, <1>2, <2>4, <2>6, <2>7, <2>8, ServGoesOn
<1>5. CASE UNCHANGED host /\ call' = [Serv!NextUnit EXCEPT !.ok = FALSE]
  BY <1>1, <1>2, <1>5, ServFails
<1> QED  BY <1>4, <1>5 DEF Serv!Mask

LEMMA ServFinishes ==
  ASSUME HardeningAssumption, ServInv, Serv!Finish
  PROVE  ServInv'
<1> DEFINE result == IF call.ok THEN "success" ELSE "failed"
<1>1. /\ host \in Serv!Host /\ call \in ServCall /\ call.pc = "probe" /\ host' = host
      /\ call.step \notin DOMAIN ServParams.Services
  BY DEF Serv!Finish, ServInv, ServType
<1>2. call' = [call EXCEPT !.pc = "idle", !.result = result]  BY DEF Serv!Finish, Serv!Goto
<1>3. result \in {"success", "failed"} /\ (result = "success" => call.ok)  OBVIOUS
<1> HIDE DEF result
<1>4. /\ call' \in ServCall /\ call'.pc = "idle" /\ call'.result = result
      /\ (call'.quiet <=> call.quiet) /\ call'.config = call.config /\ call'.blind = call.blind
  BY <1>1, <1>2, <1>3 DEF ServCall
<1>5. (call'.quiet /\ result = "success") => \A s \in Serv!Service : ServDone(call, host, s)
  <2>1. ServParams.Services \in Seq(Serv!Service)
    BY HardeningAssumption DEF Serv!ServicesAssumption
  <2>2. call.quiet => \A i \in DOMAIN ServParams.Services : i \in 1..(call.step - 1)
    <3>1. call.quiet => call.step > 0  BY <1>1 DEF ServInv, ServApplying
    <3> QED  BY <1>1, <2>1, <3>1 DEF ServCall
  <2>3. (call'.quiet /\ result = "success") =>
           \A i \in 1..(call.step - 1) : ServDone(call, host, ServParams.Services[i])
    BY <1>1, <1>3, <1>4 DEF ServInv, ServApplying
  <2>4. \A s \in Serv!Service : \E i \in DOMAIN ServParams.Services : s = ServParams.Services[i]
    BY DEF Serv!Service
  <2> QED  BY <1>4, <2>2, <2>3, <2>4
<1>6. call'.result = "success" => Serv!SuccessMeansMinimised'
  BY <1>1, <1>4, <1>5 DEF Serv!SuccessMeansMinimised, Serv!Findings, ServDone
<1>7. ServApplying'  BY <1>4, <1>6 DEF ServApplying
<1> QED
  BY <1>1, <1>3, <1>4, <1>7 DEF ServInv, ServType, ServSaved, ServUndone

LEMMA ServRollsBack ==
  ASSUME HardeningAssumption, ServInv, Serv!Rollback
  PROVE  ServInv'
<1> DEFINE units == [s \in Serv!Service |-> Serv!Restored(host, s)]
<1>1. host \in Serv!Host /\ host.saved # Absent  BY DEF Serv!Rollback, ServInv, ServType
<1>2. host.saved \in Serv!Checkpoint  BY <1>1 DEF Serv!Host
<1>3. ASSUME NEW s \in Serv!Service
      PROVE  /\ Serv!Restored(host, s) \in Serv!Unit
             /\ host.saved.quiet =>
                  /\ Serv!Restored(host, s).installed = host.saved.unit[s].installed
                  /\ Serv!Restored(host, s).file = host.saved.unit[s].file
                  /\ Serv!Restored(host, s).slot = host.saved.unit[s].slot
  <2> DEFINE was == host.saved.unit[s]
             u == host.unit[s]
             file == IF was.file = "enabled" THEN "enabled" ELSE u.file
             slot == IF was.slot = "none" /\ s \notin host.saved.declared THEN u.slot
                     ELSE was.slot
             v == [u EXCEPT !.file = file, !.slot = slot]
  <2>1. was \in Serv!Unit /\ u \in Serv!Unit
    BY <1>1, <1>2 DEF Serv!Host, Serv!Checkpoint
  <2>2. Serv!Restored(host, s) = v  BY DEF Serv!Restored
  <2>3. host.saved.quiet => ServSince(u, was, s \in host.saved.declared)
    BY <1>1 DEF ServInv, ServSaved
  <2>4. /\ file \in {"enabled", "static", "disabled"} /\ slot \in {"none", "mask", "override"}
        /\ host.saved.quiet => file = was.file /\ slot = was.slot
    BY <2>1, <2>3 DEF Serv!Unit, ServSince
  <2> HIDE DEF file, slot
  <2>5. v \in Serv!Unit /\ v.file = file /\ v.slot = slot /\ v.installed = u.installed
    BY <2>1, <2>4 DEF Serv!Unit
  <2> HIDE DEF v
  <2> QED  BY <2>2, <2>3, <2>4, <2>5 DEF ServSince
<1>4. /\ units \in [Serv!Service -> Serv!Unit]
      /\ \A s \in Serv!Service : units[s] = Serv!Restored(host, s)
  BY <1>3
<1>5. host' = [host EXCEPT !.unit = units]  BY DEF Serv!Rollback
<1> HIDE DEF units
<1>6. host' \in Serv!Host /\ host'.unit = units /\ host'.saved = host.saved
  BY <1>1, <1>4, <1>5 DEF Serv!Host
<1>7. PICK reloaded \in BOOLEAN :
         call' = [Serv!Idle EXCEPT !.result = IF reloaded THEN "undone" ELSE "undone_not_reloaded"]
  BY Zenon DEF Serv!Rollback
<1>8. /\ call' \in ServCall /\ call'.pc = "idle"
      /\ call'.result \in {"undone", "undone_not_reloaded"}
  BY <1>7 DEF Serv!Idle, ServCall
<1>9. ServSaved'  BY <1>3, <1>4, <1>6 DEF ServSaved, ServSince
<1>10. ServUndone'  BY <1>1, <1>3, <1>4, <1>6 DEF ServUndone
<1> QED  BY <1>6, <1>8, <1>9, <1>10 DEF ServInv, ServType, ServApplying

\* Whatever others do, the call no longer answers for the host, and neither does
\* the checkpoint.
LEMMA ServDisturbed ==
  ASSUME HardeningAssumption, ServInv, Serv!Others
  PROVE  ServInv'
<1>1. host \in Serv!Host /\ call \in ServCall  BY DEF ServInv, ServType
<1> DEFINE started == call.started
                 \cup {s \in Serv!Service : host'.unit[s].active /\ ~host.unit[s].active}
<1>2. call' = [call EXCEPT !.quiet = FALSE, !.started = started]  BY DEF Serv!Others
<1>0. started \subseteq Serv!Service  BY <1>1 DEF ServCall
<1> HIDE DEF started
<1>3. /\ call' \in ServCall /\ call'.quiet = FALSE /\ call'.pc = call.pc
      /\ call'.result = call.result /\ call'.step = call.step
  BY <1>0, <1>1, <1>2 DEF ServCall
<1>4. ASSUME NEW s \in Serv!Service, NEW v \in Serv!Unit,
             host' = [host EXCEPT !.unit[s] = v,
                         !.saved = IF @ = Absent THEN @ ELSE [@ EXCEPT !.quiet = FALSE]]
      PROVE  /\ host' \in Serv!Host /\ (host.saved # Absent => host'.saved # Absent)
             /\ host'.saved # Absent => host'.saved.quiet = FALSE
  <2> DEFINE units == [host.unit EXCEPT ![s] = v]
             saved == IF host.saved = Absent THEN Absent ELSE [host.saved EXCEPT !.quiet = FALSE]
  <2>1. units \in [Serv!Service -> Serv!Unit]  BY <1>1 DEF Serv!Host
  <2>2. /\ saved \in {Absent} \cup Serv!Checkpoint
        /\ host.saved # Absent => saved \in Serv!Checkpoint
        /\ saved # Absent => saved.quiet = FALSE
    BY <1>1 DEF Serv!Host, Serv!Checkpoint
  <2>3. host' = [host EXCEPT !.unit = units, !.saved = saved]  BY <1>4
  <2> HIDE DEF units, saved
  <2>4. host' \in Serv!Host /\ host'.saved = saved  BY <1>1, <2>1, <2>2, <2>3 DEF Serv!Host
  <2>5. Absent \notin Serv!Checkpoint  BY HardeningAssumption DEF Serv!ServicesAssumption
  <2> QED  BY <2>2, <2>4, <2>5
<1>5. PICK s \in Serv!Service :
         LET u == host.unit[s]
             becomes(v) == [host EXCEPT !.unit[s] = v,
                               !.saved = IF @ = Absent THEN @ ELSE [@ EXCEPT !.quiet = FALSE]]
         IN
         \/ u.installed /\ u.slot # "mask" /\ host' = becomes([u EXCEPT !.active = TRUE])
         \/ ~u.installed /\ host' = becomes([u EXCEPT !.installed = TRUE, !.file = "enabled"])
         \/ u.slot = "none" /\ host' = becomes([u EXCEPT !.slot = "override"])
         \/ host' = becomes([u EXCEPT !.active = u.installed /\ Serv!Word(u) = "enabled"])
  BY Zenon DEF Serv!Others
<1> DEFINE u == host.unit[s]
<1>6. u \in Serv!Unit  BY <1>1 DEF Serv!Host
<1>7. /\ [u EXCEPT !.active = TRUE] \in Serv!Unit
      /\ [u EXCEPT !.installed = TRUE, !.file = "enabled"] \in Serv!Unit
      /\ [u EXCEPT !.slot = "override"] \in Serv!Unit
      /\ [u EXCEPT !.active = u.installed /\ Serv!Word(u) = "enabled"] \in Serv!Unit
  BY <1>6 DEF Serv!Unit
<1>8. \E v \in Serv!Unit :
         host' = [host EXCEPT !.unit[s] = v,
                     !.saved = IF @ = Absent THEN @ ELSE [@ EXCEPT !.quiet = FALSE]]
  BY <1>5, <1>7
<1>9. /\ host' \in Serv!Host /\ (host.saved # Absent => host'.saved # Absent)
      /\ host'.saved # Absent => host'.saved.quiet = FALSE
  BY <1>4, <1>8
<1>10. ServUndone'  BY <1>3, <1>9 DEF ServInv, ServUndone
<1> QED
  BY <1>3, <1>9, <1>10 DEF ServInv, ServType, ServApplying, ServSaved

LEMMA ServInitial ==
  ASSUME HardeningAssumption, Serv!Init
  PROVE  ServInv
<1>1. host \in Serv!Host /\ host.saved = Absent
  BY HardeningAssumption DEF Serv!ServicesAssumption, Serv!Init
<1>2. call \in ServCall /\ call.pc = "idle" /\ call.result = "none"
  BY DEF Serv!Init, Serv!Idle, ServCall
<1> QED  BY <1>1, <1>2 DEF ServInv, ServType, ServApplying, ServSaved, ServUndone

LEMMA ServNext ==
  ASSUME HardeningAssumption, ServInv, Serv!Next
  PROVE  ServInv'
<1>1. CASE Serv!Dies
  <2>1. host' = host /\ call' = [Serv!Idle EXCEPT !.result = "died"]  BY <1>1 DEF Serv!Dies
  <2>2. call' \in ServCall /\ call'.pc = "idle" /\ call'.result = "died"
    BY <2>1 DEF Serv!Idle, ServCall
  <2> QED  BY <2>1, <2>2, ServEnds
<1> QED
  BY <1>1, ServBegins, ServProbes, ServStops, ServDisables, ServMasks, ServFinishes,
     ServRollsBack, ServDisturbed DEF Serv!Next

\* What the plugin promises follows of the invariant.
LEMMA ServPromises ==
  ASSUME ServInv
  PROVE  /\ Serv!SuccessMeansMinimised /\ Serv!UndoneMeansUndone /\ Serv!LossIsTold
<1>1. call.result # "none" => call.pc = "idle"  BY DEF ServInv
<1>2. Serv!SuccessMeansMinimised  BY DEF ServInv, ServApplying, Serv!SuccessMeansMinimised
<1>3. (call.result = "undone" /\ call.quiet /\ host.saved.quiet) =>
         \A s \in Serv!Service : /\ host.unit[s].file = host.saved.unit[s].file
                                 /\ host.unit[s].slot = host.saved.unit[s].slot
  BY <1>1 DEF ServInv, ServUndone
<1>4. Serv!UndoneMeansUndone  BY <1>3 DEF Serv!UndoneMeansUndone, Serv!Word
<1>5. Serv!LossIsTold
  BY <1>3 DEF Serv!LossIsTold, Serv!Divergence, Serv!Word
<1> QED  BY <1>2, <1>4, <1>5

\* The service whose turn it is to be disabled and masked does not run, unless
\* systemctl would not say or others have started it: quiet or not.
ServSeen ==
    call.pc \in {"disable", "mask"} =>
        LET s == ServParams.Services[call.step] IN
        s \in call.blind \cup call.started \/ ~host.unit[s].active

LEMMA ServSeenNext ==
  ASSUME HardeningAssumption, ServInv, ServSeen, Serv!Next
  PROVE  ServSeen'
<1>1. host \in Serv!Host /\ call \in ServCall  BY DEF ServInv, ServType
<1> SUFFICES ASSUME call'.pc \in {"disable", "mask"}
             PROVE  LET s == ServParams.Services[call'.step] IN
                    s \in call'.blind \cup call'.started \/ ~host'.unit[s].active
  BY DEF ServSeen
<1> DEFINE at == ServParams.Services[call.step]
<1>2. CASE Serv!Probe
  <2>1. /\ host' = host /\ call.step \in DOMAIN ServParams.Services
        /\ call' = Serv!NextUnit
           \/ \E on \in {Serv!Enabled(host.unit[at]), FALSE}, runs \in {host.unit[at].active, FALSE} :
                LET c == [call EXCEPT !.on = on,
                             !.blind = IF on # Serv!Enabled(host.unit[at]) \/ runs # host.unit[at].active
                                       THEN @ \cup {at} ELSE @]
                IN call' = CASE runs -> [c EXCEPT !.pc = "stop"]
                             [] on /\ ~runs -> [c EXCEPT !.pc = "disable"]
                             [] OTHER -> [c EXCEPT !.step = @ + 1]
    BY <1>2 DEF Serv!Probe
  <2>2. call' # Serv!NextUnit /\ call.pc = "probe"
    BY <1>1, <1>2 DEF Serv!NextUnit, ServCall, Serv!Probe
  <2>3. PICK on \in {Serv!Enabled(host.unit[at]), FALSE}, runs \in {host.unit[at].active, FALSE} :
                LET c == [call EXCEPT !.on = on,
                             !.blind = IF on # Serv!Enabled(host.unit[at]) \/ runs # host.unit[at].active
                                       THEN @ \cup {at} ELSE @]
                IN call' = CASE runs -> [c EXCEPT !.pc = "stop"]
                             [] on /\ ~runs -> [c EXCEPT !.pc = "disable"]
                             [] OTHER -> [c EXCEPT !.step = @ + 1]
    BY <2>1, <2>2
  <2> DEFINE blind == IF on # Serv!Enabled(host.unit[at]) \/ runs # host.unit[at].active
                      THEN call.blind \cup {at} ELSE call.blind
             c == [call EXCEPT !.on = on, !.blind = blind]
  <2>4. call' = CASE runs -> [c EXCEPT !.pc = "stop"]
                  [] on /\ ~runs -> [c EXCEPT !.pc = "disable"]
                  [] OTHER -> [c EXCEPT !.step = @ + 1]
    BY <2>3
  <2>5. runs # host.unit[at].active => at \in blind  OBVIOUS
  <2> HIDE DEF blind
  <2>6. ~runs /\ call' = [c EXCEPT !.pc = "disable"]
    <3>1. c.pc = "probe"  BY <1>1, <2>2 DEF ServCall
    <3>2. [c EXCEPT !.pc = "stop"].pc = "stop" /\ [c EXCEPT !.step = @ + 1].pc = "probe"
      BY <1>1, <3>1 DEF ServCall
    <3> QED  BY <2>4, <3>2
  <2>7. call'.step = call.step /\ call'.blind = blind  BY <1>1, <2>6 DEF ServCall
  <2> QED  BY <2>1, <2>5, <2>6, <2>7
<1>3. CASE Serv!Stop
  <2>1. call' # Serv!NextUnit /\ call' # [Serv!NextUnit EXCEPT !.ok = FALSE]
    BY <1>1 DEF Serv!NextUnit, ServCall
  <2>2. /\ host' = [host EXCEPT !.unit[at].active = FALSE]
        /\ call' = Serv!Goto(IF call.on THEN "disable" ELSE "mask")
    BY <1>3, <2>1 DEF Serv!Stop
  <2>3. call'.step = call.step  BY <1>1, <2>2 DEF Serv!Goto, ServCall
  <2>4. at \in Serv!Service /\ host.unit[at] \in Serv!Unit  BY <1>3, ServAt DEF Serv!Stop
  <2>5. host'.unit[at].active = FALSE
    <3> DEFINE v == [host.unit[at] EXCEPT !.active = FALSE]
    <3>1. v \in Serv!Unit /\ v.active = FALSE  BY <2>4 DEF Serv!Unit
    <3>2. host' = [host EXCEPT !.unit[at] = v]  BY <2>2
    <3> HIDE DEF v
    <3> QED  BY <1>1, <2>4, <3>1, <3>2, ServSets
  <2> QED  BY <2>3, <2>5
<1>4. CASE Serv!Disable
  <2>1. call'.step = call.step /\ call'.blind = call.blind /\ call'.started = call.started
    BY <1>1, <1>4 DEF Serv!Disable, Serv!Goto, ServCall
  <2>2. at \in Serv!Service /\ host.unit[at] \in Serv!Unit  BY <1>4, ServAt DEF Serv!Disable
  <2>3. host'.unit[at].active = host.unit[at].active
    <3> DEFINE file == IF host.unit[at].file = "enabled" THEN "disabled" ELSE host.unit[at].file
               v == [host.unit[at] EXCEPT !.file = file]
    <3>1. host' = host \/ host' = [host EXCEPT !.unit[at] = v]  BY <1>4 DEF Serv!Disable
    <3>2. file \in {"enabled", "static", "disabled"}  BY <2>2 DEF Serv!Unit
    <3> HIDE DEF file
    <3>3. v \in Serv!Unit /\ v.active = host.unit[at].active  BY <2>2, <3>2 DEF Serv!Unit
    <3> HIDE DEF v
    <3> QED  BY <1>1, <2>2, <3>1, <3>3, ServSets
  <2>4. call.pc = "disable"  BY <1>4 DEF Serv!Disable
  <2> QED  BY <2>1, <2>3, <2>4 DEF ServSeen
<1>5. CASE Serv!Others
  <2> DEFINE up == {s \in Serv!Service : host'.unit[s].active /\ ~host.unit[s].active}
             started == call.started \cup up
  <2>1. call' = [call EXCEPT !.quiet = FALSE, !.started = started]  BY <1>5 DEF Serv!Others
  <2> HIDE DEF started
  <2>2. /\ call'.step = call.step /\ call'.blind = call.blind /\ call'.pc = call.pc
        /\ call'.started = started
    BY <1>1, <2>1 DEF ServCall
  <2>3. at \in Serv!Service  BY <2>2, ServAt
  <2> QED  BY <2>2, <2>3 DEF ServSeen, started
<1>6. ~(Serv!Begin \/ Serv!Mask \/ Serv!Finish \/ Serv!Rollback \/ Serv!Dies)
  BY <1>1 DEF Serv!Begin, Serv!Mask, Serv!Finish, Serv!Rollback, Serv!Dies, Serv!Idle,
              Serv!NextUnit, Serv!Goto, ServCall
<1> QED  BY <1>2, <1>3, <1>4, <1>5, <1>6 DEF Serv!Next

\* Only the mask of one service is made at once, and that one does not run.
LEMMA ServMasksStopped ==
  ASSUME HardeningAssumption, ServInv, ServSeen, [Serv!Next]_<<host, call>>
  PROVE  Serv!NeverMasksRunning
<1> SUFFICES ASSUME NEW s \in Serv!Service, call.pc = "mask",
                    host.unit[s].slot # "mask", host'.unit[s].slot = "mask"
             PROVE  s \in call.blind \cup call.started \/ ~host.unit[s].active
  BY Zenon DEF Serv!NeverMasksRunning
<1>0. host' # host  OBVIOUS
<1>1. host \in Serv!Host /\ call \in ServCall  BY DEF ServInv, ServType
<1>2. ~Serv!Others
  <2> SUFFICES ASSUME Serv!Others PROVE FALSE  OBVIOUS
  <2>1. PICK r \in Serv!Service :
         LET u == host.unit[r]
             becomes(v) == [host EXCEPT !.unit[r] = v,
                               !.saved = IF @ = Absent THEN @ ELSE [@ EXCEPT !.quiet = FALSE]]
         IN
         \/ u.installed /\ u.slot # "mask" /\ host' = becomes([u EXCEPT !.active = TRUE])
         \/ ~u.installed /\ host' = becomes([u EXCEPT !.installed = TRUE, !.file = "enabled"])
         \/ u.slot = "none" /\ host' = becomes([u EXCEPT !.slot = "override"])
         \/ host' = becomes([u EXCEPT !.active = u.installed /\ Serv!Word(u) = "enabled"])
    BY Zenon DEF Serv!Others
  <2> DEFINE u == host.unit[r]
             changed == {[u EXCEPT !.active = TRUE],
                         [u EXCEPT !.installed = TRUE, !.file = "enabled"],
                         [u EXCEPT !.slot = "override"],
                         [u EXCEPT !.active = u.installed /\ Serv!Word(u) = "enabled"]}
  <2>5. u \in Serv!Unit  BY <1>1 DEF Serv!Host
  <2>6. /\ [u EXCEPT !.active = TRUE].slot = u.slot
        /\ [u EXCEPT !.installed = TRUE, !.file = "enabled"].slot = u.slot
        /\ [u EXCEPT !.slot = "override"].slot = "override"
        /\ [u EXCEPT !.active = u.installed /\ Serv!Word(u) = "enabled"].slot = u.slot
    BY <2>5 DEF Serv!Unit
  <2>7. \A v \in changed : v.slot \in {u.slot, "override"}  BY <2>6
  <2>8. PICK v \in changed :
           host' = [host EXCEPT !.unit[r] = v,
                      !.saved = IF @ = Absent THEN @ ELSE [@ EXCEPT !.quiet = FALSE]]
    BY Zenon, <2>1
  <2> HIDE DEF changed
  <2>2. v.slot \in {u.slot, "override"}  BY <2>7, <2>8
  <2> DEFINE units == [host.unit EXCEPT ![r] = v]
  <2>3. host'.unit = units  BY <1>1, <2>8 DEF Serv!Host
  <2>4. units[s].slot # "mask"
    <3>1. host.unit \in [Serv!Service -> Serv!Unit]  BY <1>1 DEF Serv!Host
    <3> QED  BY <2>2, <3>1
  <2> QED  BY <2>3, <2>4
<1>3. Serv!Mask
  BY <1>0, <1>2 DEF Serv!Next, Serv!Begin, Serv!Probe, Serv!Stop, Serv!Disable, Serv!Finish,
              Serv!Rollback, Serv!Dies
<1> DEFINE at == ServParams.Services[call.step]
           v == [host.unit[at] EXCEPT !.slot = "mask"]
<1>4. /\ at \in Serv!Service /\ host.unit[at] \in Serv!Unit
      /\ at \in call.blind \cup call.started \/ ~host.unit[at].active
  BY ServAt DEF ServSeen
<1>5. v \in Serv!Unit /\ v.active = host.unit[at].active  BY <1>4 DEF Serv!Unit
<1>6. host' = [host EXCEPT !.unit[at] = v]
  <2>1. host' = [host EXCEPT !.unit[at].slot = "mask"]  BY Zenon, <1>0, <1>3 DEF Serv!Mask
  <2> QED  BY <2>1
<1> HIDE DEF v
<1>8. host'.unit[at] = v /\ \A r \in Serv!Service \ {at} : host'.unit[r] = host.unit[r]
  BY <1>1, <1>4, <1>5, <1>6, ServSets
<1>9. s = at  BY <1>8
<1> QED  BY <1>4, <1>9

-----------------------------------------------------------------------------
(* The mandatory access control plugin.                                    *)

MacCall ==
    [pc : {"idle", "read", "set", "restored", "setenforce", "reload"},
     result : {"none", "success", "failed", "undone", "undone_running_mode_left_alone",
               "undone_SELinux", "undone_AppArmor", "undone_not_reloaded", "died"},
     quiet : BOOLEAN, excepted : BOOLEAN, mode : Mac!Mode \cup {Absent}]

MacType == host \in Mac!Host /\ call \in MacCall

\* The mode a rollback is about to set is the one the file it restored names; it
\* comes to AppArmor with no mode only where there is no such file.
MacInv ==
    /\ MacType
    /\ call.pc # "idle" => call.result = "none"
    /\ call.pc = "restored" => call.mode = Absent
    /\ call.pc = "setenforce" => call.mode # Absent
    /\ call.quiet =>
          /\ call.pc = "setenforce" =>
                host.config # "none" /\ call.mode = Mac!ModeArgument(host.config)
          /\ call.pc = "reload" /\ call.mode = Absent => host.config = "none"
    /\ Mac!SuccessMeansEnforcing /\ Mac!UndoneMeansRestored

LEMMA MacBegins ==
  ASSUME HardeningAssumption, MacInv, Mac!Begin
  PROVE  MacInv'
<1>1. host \in Mac!Host /\ call \in MacCall  BY DEF MacInv, MacType
<1>2. CASE host' = host /\ call' = [Mac!Idle EXCEPT !.result = "failed"]
  <2>1. /\ call' \in MacCall /\ call'.pc = "idle" /\ call'.result = "failed"
    BY <1>2 DEF Mac!Idle, MacCall
  <2> QED
    BY <1>1, <1>2, <2>1
       DEF MacInv, MacType, Mac!SuccessMeansEnforcing, Mac!UndoneMeansRestored
<1>3. ASSUME NEW excepted \in BOOLEAN, NEW found \in Mac!Detect,
             host' = [host EXCEPT !.saved = host.config],
             LET c == [Mac!Idle EXCEPT !.excepted = excepted] IN
             call' = CASE found = "selinux" /\ ~excepted -> [c EXCEPT !.pc = "read"]
                       [] found = "indeterminate"        -> [c EXCEPT !.result = "failed"]
                       [] OTHER                          -> [c EXCEPT !.result = "success"]
      PROVE  MacInv'
  <2>1. /\ host' \in Mac!Host /\ host'.system = host.system /\ host'.config = host.config
        /\ host'.mode = host.mode
    BY <1>1, <1>3 DEF Mac!Host
  <2> DEFINE c == [Mac!Idle EXCEPT !.excepted = excepted]
  <2>2. /\ c \in MacCall /\ c.pc = "idle" /\ c.result = "none" /\ c.excepted = excepted
    BY DEF Mac!Idle, MacCall
  <2>3. call' = CASE found = "selinux" /\ ~excepted -> [c EXCEPT !.pc = "read"]
                  [] found = "indeterminate"        -> [c EXCEPT !.result = "failed"]
                  [] OTHER                          -> [c EXCEPT !.result = "success"]
    BY <1>3
  <2> HIDE DEF c
  <2>4. /\ call' \in MacCall /\ call'.pc \in {"idle", "read"} /\ call'.excepted = excepted
        /\ call'.result \in {"none", "failed", "success"}
        /\ call'.pc # "idle" => call'.result = "none"
        /\ call'.result = "success" => host.system # "selinux" \/ excepted
    <3>1. CASE found = "selinux" /\ ~excepted
      <4>1. call' = [c EXCEPT !.pc = "read"]  BY <2>3, <3>1
      <4> QED  BY <2>2, <4>1 DEF MacCall
    <3>2. CASE found = "indeterminate"
      <4>1. call' = [c EXCEPT !.result = "failed"]  BY <2>3, <3>2
      <4> QED  BY <2>2, <4>1 DEF MacCall
    <3>3. CASE found # "indeterminate" /\ (found # "selinux" \/ excepted)
      <4>1. call' = [c EXCEPT !.result = "success"]  BY <2>3, <3>3
      <4>2. host.system # "selinux" \/ excepted  BY <1>3, <3>3 DEF Mac!Detect
      <4> QED  BY <2>2, <4>1, <4>2 DEF MacCall
    <3> QED  BY <3>1, <3>2, <3>3
  <2> QED
    BY <2>1, <2>4
       DEF MacInv, MacType, Mac!SuccessMeansEnforcing, Mac!UndoneMeansRestored
<1> QED  BY <1>2, <1>3 DEF Mac!Begin

LEMMA MacReads ==
  ASSUME MacInv, Mac!Read
  PROVE  MacInv'
<1>1. host \in Mac!Host /\ call \in MacCall /\ host' = host
  BY DEF Mac!Read, MacInv, MacType
<1>2. CASE call' = Mac!Ends("failed") \/ call' = [call EXCEPT !.pc = "set"]
  <2>1. /\ call' \in MacCall /\ call'.result \in {"failed", call.result}
        /\ (call'.pc = "idle" /\ call'.result = "failed")
             \/ (call'.pc = "set" /\ call'.result = call.result)
    BY <1>1, <1>2 DEF Mac!Ends, MacCall
  <2> QED
    BY <1>1, <2>1
       DEF Mac!Read, MacInv, MacType, Mac!SuccessMeansEnforcing, Mac!UndoneMeansRestored
<1>3. CASE host.mode = "enforcing" /\ call' = Mac!Ends("success")
  <2>1. call' \in MacCall /\ call'.pc = "idle" /\ call'.result = "success"
    BY <1>1, <1>3 DEF Mac!Ends, MacCall
  <2> QED
    BY <1>1, <1>3, <2>1
       DEF MacInv, MacType, Mac!SuccessMeansEnforcing, Mac!UndoneMeansRestored
<1> QED  BY <1>2, <1>3 DEF Mac!Read

LEMMA MacSets ==
  ASSUME MacInv, Mac!Set
  PROVE  MacInv'
<1>1. host \in Mac!Host /\ call \in MacCall  BY DEF MacInv, MacType
<1>2. CASE host' = [host EXCEPT !.mode = "enforcing"] /\ call' = Mac!Ends("success")
  <2>1. host' \in Mac!Host /\ host'.mode = "enforcing"  BY <1>1, <1>2 DEF Mac!Host, Mac!Mode
  <2>2. call' \in MacCall /\ call'.pc = "idle" /\ call'.result = "success"
    BY <1>1, <1>2 DEF Mac!Ends, MacCall
  <2> QED
    BY <2>1, <2>2 DEF MacInv, MacType, Mac!SuccessMeansEnforcing, Mac!UndoneMeansRestored
<1>3. CASE UNCHANGED host /\ call' = Mac!Ends("failed")
  <2>1. call' \in MacCall /\ call'.pc = "idle" /\ call'.result = "failed"
    BY <1>1, <1>3 DEF Mac!Ends, MacCall
  <2> QED
    BY <1>1, <1>3, <2>1
       DEF MacInv, MacType, Mac!SuccessMeansEnforcing, Mac!UndoneMeansRestored
<1> QED  BY <1>2, <1>3 DEF Mac!Set

LEMMA MacRollsBack ==
  ASSUME MacInv, Mac!Rollback
  PROVE  MacInv'
<1>1. host \in Mac!Host /\ host.saved # Absent  BY DEF Mac!Rollback, MacInv, MacType
<1>2. host' = [host EXCEPT !.config = host.saved]  BY DEF Mac!Rollback
<1>3. host' \in Mac!Host  BY <1>1, <1>2 DEF Mac!Host
<1>4. PICK found \in Mac!Detect :
         call' = [Mac!Idle EXCEPT !.pc = IF found = "none" THEN "idle" ELSE "restored",
                                  !.result = IF found = "none" THEN "undone" ELSE "none"]
  BY Zenon DEF Mac!Rollback
<1>5. /\ call' \in MacCall /\ call'.mode = Absent /\ call'.result \in {"undone", "none"}
      /\ call'.pc \in {"idle", "restored"} /\ (call'.pc # "idle" => call'.result = "none")
  BY <1>4 DEF Mac!Idle, MacCall
<1> QED
  BY <1>3, <1>5 DEF MacInv, MacType, Mac!SuccessMeansEnforcing, Mac!UndoneMeansRestored

LEMMA MacRestores ==
  ASSUME HardeningAssumption, MacInv, Mac!RestoredMode
  PROVE  MacInv'
<1>1. host \in Mac!Host /\ call \in MacCall /\ host' = host /\ call.pc = "restored"
  BY DEF Mac!RestoredMode, MacInv, MacType
<1> DEFINE mode == Mac!ModeArgument(host.config)
<1>2. mode \in Mac!Mode \cup {Absent}  BY DEF Mac!ModeArgument, Mac!Mode
<1>3. \/ call' = Mac!Ends("undone_running_mode_left_alone")
      \/ host.config = "none" /\ call' = [call EXCEPT !.pc = "reload"]
      \/ /\ host.config # "none" /\ mode # Absent
         /\ call' = [call EXCEPT !.pc = "setenforce", !.mode = mode]
  <2>1. PICK unread \in BOOLEAN :
           CASE unread \/ mode = Absent ->
                  call' = Mac!Ends("undone_running_mode_left_alone")
             [] ~unread /\ host.config = "none" ->
                  call' = [call EXCEPT !.pc = "reload"]
             [] OTHER -> call' = [call EXCEPT !.pc = "setenforce", !.mode = mode]
    BY Zenon DEF Mac!RestoredMode
  <2>2. host.config = "none" => mode # Absent
    BY HardeningAssumption DEF Mac!MacAssumption, Mac!ModeArgument, Mac!Mode
  <2> QED  BY <2>1, <2>2
<1> HIDE DEF mode
<1>4. CASE call' = Mac!Ends("undone_running_mode_left_alone")
  <2>1. /\ call' \in MacCall /\ call'.pc = "idle"
        /\ call'.result = "undone_running_mode_left_alone"
    BY <1>1, <1>4 DEF Mac!Ends, MacCall
  <2> QED
    BY <1>1, <2>1 DEF MacInv, MacType, Mac!SuccessMeansEnforcing, Mac!UndoneMeansRestored
<1>5. CASE host.config = "none" /\ call' = [call EXCEPT !.pc = "reload"]
  <2>1. call' \in MacCall /\ call'.pc = "reload" /\ call'.result = call.result
    BY <1>1, <1>5 DEF MacCall
  <2> QED
    BY <1>1, <1>5, <2>1
       DEF MacInv, MacType, Mac!SuccessMeansEnforcing, Mac!UndoneMeansRestored
<1>6. CASE /\ host.config # "none" /\ mode # Absent
           /\ call' = [call EXCEPT !.pc = "setenforce", !.mode = mode]
  <2>1. /\ call' \in MacCall /\ call'.pc = "setenforce" /\ call'.result = call.result
        /\ call'.mode = mode
    BY <1>1, <1>2, <1>6 DEF MacCall
  <2>2. mode = Mac!ModeArgument(host'.config)  BY <1>1 DEF mode
  <2> QED
    BY <1>1, <1>6, <2>1, <2>2
       DEF MacInv, MacType, Mac!SuccessMeansEnforcing, Mac!UndoneMeansRestored
<1> QED  BY <1>3, <1>4, <1>5, <1>6

LEMMA MacEnforces ==
  ASSUME MacInv, Mac!Setenforce
  PROVE  MacInv'
<1>1. host \in Mac!Host /\ call \in MacCall /\ call.pc = "setenforce" /\ call.mode # Absent
  BY DEF Mac!Setenforce, MacInv, MacType
<1>2. CASE host' = [host EXCEPT !.mode = call.mode] /\ call' = Mac!Ends("undone_SELinux")
  <2>1. call.mode \in Mac!Mode  BY <1>1 DEF MacCall
  <2>2. host' \in Mac!Host /\ host'.mode = call.mode /\ host'.config = host.config
    BY <1>1, <1>2, <2>1 DEF Mac!Host
  <2>3. /\ call' \in MacCall /\ call'.pc = "idle" /\ call'.result = "undone_SELinux"
        /\ call'.quiet <=> call.quiet
    BY <1>1, <1>2 DEF Mac!Ends, MacCall
  <2>4. call.quiet => call.mode = Mac!ModeArgument(host'.config)  BY <1>1, <2>2 DEF MacInv
  <2> QED
    BY <2>2, <2>3, <2>4
       DEF MacInv, MacType, Mac!SuccessMeansEnforcing, Mac!UndoneMeansRestored
<1>3. CASE UNCHANGED host /\ call' = [call EXCEPT !.pc = "reload"]
  <2>1. /\ call' \in MacCall /\ call'.pc = "reload" /\ call'.result = call.result
        /\ call'.mode = call.mode
    BY <1>1, <1>3 DEF MacCall
  <2> QED
    BY <1>1, <1>3, <2>1
       DEF MacInv, MacType, Mac!SuccessMeansEnforcing, Mac!UndoneMeansRestored
<1> QED  BY <1>2, <1>3 DEF Mac!Setenforce

LEMMA MacReloads ==
  ASSUME MacInv, Mac!Reload
  PROVE  MacInv'
<1>1. host \in Mac!Host /\ call \in MacCall /\ call.pc = "reload"
  BY DEF Mac!Reload, MacInv, MacType
<1>2. PICK reloads \in BOOLEAN :
         /\ reloads => host.system = "apparmor"
         /\ host' = IF reloads THEN [host EXCEPT !.profiles = TRUE] ELSE host
         /\ call' = Mac!Ends(IF reloads /\ call.mode = Absent THEN "undone_AppArmor"
                             ELSE "undone_not_reloaded")
  BY Zenon DEF Mac!Reload
<1>3. /\ host' \in Mac!Host /\ host'.config = host.config
      /\ reloads => host'.profiles = TRUE
  BY <1>1, <1>2 DEF Mac!Host
<1>4. /\ call' \in MacCall /\ call'.pc = "idle" /\ (call'.quiet <=> call.quiet)
      /\ call'.result \in {"undone_AppArmor", "undone_not_reloaded"}
      /\ call'.result = "undone_AppArmor" => reloads /\ call.mode = Absent
  BY <1>1, <1>2 DEF Mac!Ends, MacCall
<1> QED
  BY <1>1, <1>3, <1>4
     DEF MacInv, MacType, Mac!SuccessMeansEnforcing, Mac!UndoneMeansRestored

\* Whatever others do, the call no longer answers for the host.
LEMMA MacDisturbed ==
  ASSUME HardeningAssumption, MacInv, Mac!Others
  PROVE  MacInv'
<1>1. host \in Mac!Host /\ call \in MacCall  BY DEF MacInv, MacType
<1>2. call' = [call EXCEPT !.quiet = FALSE]  BY DEF Mac!Others
<1>3. /\ call' \in MacCall /\ call'.quiet = FALSE /\ call'.pc = call.pc
      /\ call'.result = call.result /\ call'.mode = call.mode
  BY <1>1, <1>2 DEF MacCall
<1>4. host' \in Mac!Host
  <2>1. CASE host' \in {[host EXCEPT !.mode = m] : m \in {"enforcing", "permissive"}}
                        \cup {[host EXCEPT !.config = c] :
                               c \in {"enforcing", "permissive", "nameless", "none"}}
    BY <1>1, <2>1 DEF Mac!Host, Mac!Mode, Mac!Config
  <2>2. CASE host' = [host EXCEPT !.profiles = FALSE]  BY <1>1, <2>2 DEF Mac!Host
  <2>3. CASE Mac!ModeArgument(host.config) # Absent
             /\ host' = [host EXCEPT !.mode = Mac!ModeArgument(host.config)]
    <3>1. Mac!ModeArgument(host.config) \in Mac!Mode
      BY <2>3 DEF Mac!ModeArgument, Mac!Mode
    <3> QED  BY <1>1, <2>3, <3>1 DEF Mac!Host
  <2> QED  BY <2>1, <2>2, <2>3 DEF Mac!Others
<1> QED
  BY <1>3, <1>4
     DEF MacInv, MacType, Mac!SuccessMeansEnforcing, Mac!UndoneMeansRestored

LEMMA MacNext ==
  ASSUME HardeningAssumption, MacInv, Mac!Next
  PROVE  MacInv'
<1>1. CASE Mac!Dies
  <2>1. host' = host /\ call' = [Mac!Idle EXCEPT !.result = "died"]  BY <1>1 DEF Mac!Dies
  <2>2. call' \in MacCall /\ call'.pc = "idle" /\ call'.result = "died"
    BY <2>1 DEF Mac!Idle, MacCall
  <2> QED
    BY <2>1, <2>2
       DEF MacInv, MacType, Mac!SuccessMeansEnforcing, Mac!UndoneMeansRestored
<1> QED
  BY <1>1, MacBegins, MacReads, MacSets, MacRollsBack, MacRestores, MacEnforces, MacReloads,
     MacDisturbed DEF Mac!Next

\* A running SELinux is made permissive only by a rollback, and only where the file
\* it has restored names a mode that is not enforcing (restored_selinux_mode).
LEMMA MacLoosensNothing ==
  ASSUME HardeningAssumption, MacInv, [Mac!Next]_<<host, call>>
  PROVE  Mac!NeverLoosensOnAGuess
<1> SUFFICES ASSUME host.mode = "enforcing", host'.mode = "permissive", call'.quiet
             PROVE  host'.config \notin {"enforcing", "nameless", "none"}
  BY Zenon DEF Mac!NeverLoosensOnAGuess
<1>1. host \in Mac!Host /\ call \in MacCall  BY DEF MacInv, MacType
<1>2. host'.mode # host.mode  OBVIOUS
<1>3. ~Mac!Others
  <2>1. Mac!Others => call'.quiet = FALSE  BY <1>1 DEF Mac!Others, MacCall
  <2> QED  BY <2>1
<1>4. ~Mac!Begin /\ ~Mac!Rollback /\ ~Mac!Reload /\ ~Mac!Set
  <2>1. Mac!Begin => host'.mode = host.mode  BY <1>1 DEF Mac!Begin, Mac!Host
  <2>2. Mac!Rollback => host'.mode = host.mode  BY <1>1 DEF Mac!Rollback, Mac!Host
  <2>3. Mac!Reload => host'.mode = host.mode  BY <1>1 DEF Mac!Reload, Mac!Host
  <2>4. Mac!Set => host'.mode \in {"enforcing", host.mode}  BY <1>1 DEF Mac!Set, Mac!Host
  <2> QED  BY <1>2, <2>1, <2>2, <2>3, <2>4
<1>5. Mac!Setenforce /\ host' = [host EXCEPT !.mode = call.mode]
      /\ call' = Mac!Ends("undone_SELinux")
  BY Zenon, <1>2, <1>3, <1>4
     DEF Mac!Next, Mac!Read, Mac!RestoredMode, Mac!Setenforce, Mac!Dies
<1>6. host'.mode = call.mode /\ host'.config = host.config /\ call'.quiet = call.quiet
  BY <1>1, <1>5 DEF Mac!Host, MacCall, Mac!Ends
<1>7. host.config # "none" /\ call.mode = Mac!ModeArgument(host.config)
  BY <1>5, <1>6 DEF MacInv, Mac!Setenforce
<1>8. Absent # "permissive"  BY HardeningAssumption DEF Mac!MacAssumption, Mac!Mode
<1> QED  BY <1>6, <1>7, <1>8 DEF Mac!ModeArgument

-----------------------------------------------------------------------------
(* The firewall plugin.                                                    *)

FwCall ==
    [pc : {"idle", "enable", "wanted", "refusal", "rule", "check", "fragment", "include", "load"},
     step : Nat,
     result : {"none", "success", "failed", "refused", "undone", "undone_unit_left",
               "undone_not_reloaded", "died"},
     quiet : BOOLEAN, ok : BOOLEAN, config : FirewallParams.Configs,
     via : FirewallParams.Sessions \cup {Absent}, before : Firewall!Policy \cup {Absent},
     wrote : BOOLEAN, persists : BOOLEAN]

FwType == host \in Firewall!Host /\ call \in FwCall

\* Whatever is written, restored or left half done, what the backend keeps is of
\* its kind; only of the two that load what they keep are there commands by rule.
FwInv ==
    /\ FwType
    /\ Firewall!Keeps(host.kind, host)
    /\ host.saved # Absent => Firewall!Keeps(host.kind, host.saved)
    /\ call.pc = "rule" => host.kind # "nftables"
    /\ call.pc # "idle" => call.result = "none"
    /\ Firewall!UndoneMeansUndone

LEMMA FwGoesOn ==
  ASSUME FwInv, call' \in FwCall, host' \in Firewall!Host, Firewall!Keeps(host'.kind, host'),
         host'.saved # Absent => Firewall!Keeps(host'.kind, host'.saved),
         call'.pc = "rule" => host'.kind # "nftables",
         call'.pc # "idle" => call'.result = "none",
         call'.result # "undone"
  PROVE  FwInv'
BY DEF FwInv, FwType, Firewall!UndoneMeansUndone

\* The call where it goes on, and where it ends.
LEMMA FwCalls ==
  ASSUME call \in FwCall
  PROVE  /\ \A pc \in {"refusal", "wanted", "rule", "check", "fragment", "include", "load"} :
              \A c \in {Firewall!Goto(pc), [Firewall!Goto(pc) EXCEPT !.ok = FALSE]} :
                 c \in FwCall /\ c.pc = pc /\ c.result = call.result
         /\ \A result \in {"failed", "refused", "success", "died"} :
              LET c == Firewall!Ends(result) IN
              c \in FwCall /\ c.pc = "idle" /\ c.result = result /\ c.quiet = call.quiet
         /\ \A c \in {Firewall!Done, [Firewall!Done EXCEPT !.persists = FALSE]} :
              c \in FwCall /\ c.pc = "idle" /\ c.result \in {"success", "failed"}
<1>1. ASSUME NEW pc \in {"refusal", "wanted", "rule", "check", "fragment", "include", "load"},
             NEW c \in {Firewall!Goto(pc), [Firewall!Goto(pc) EXCEPT !.ok = FALSE]}
      PROVE  c \in FwCall /\ c.pc = pc /\ c.result = call.result
  <2> DEFINE step == IF pc = "rule" THEN 1 ELSE 0
             g == [call EXCEPT !.pc = pc, !.step = step]
  <2>1. step \in Nat  OBVIOUS
  <2>2. c \in {g, [g EXCEPT !.ok = FALSE]}  BY <1>1 DEF Firewall!Goto
  <2> HIDE DEF step
  <2>3. g \in FwCall /\ g.pc = pc /\ g.result = call.result  BY <1>1, <2>1 DEF FwCall
  <2> HIDE DEF g
  <2> QED  BY <2>2, <2>3 DEF FwCall
<1>2. ASSUME NEW result \in {"failed", "refused", "success", "died"}
      PROVE  LET c == Firewall!Ends(result) IN
             c \in FwCall /\ c.pc = "idle" /\ c.result = result /\ c.quiet = call.quiet
  BY DEF Firewall!Ends, FwCall
<1>3. ASSUME NEW c \in {Firewall!Done, [Firewall!Done EXCEPT !.persists = FALSE]}
      PROVE  c \in FwCall /\ c.pc = "idle" /\ c.result \in {"success", "failed"}
  <2> DEFINE d == Firewall!Ends(IF call.ok THEN "success" ELSE "failed")
  <2>1. d \in FwCall /\ d.pc = "idle" /\ d.result \in {"success", "failed"}  BY <1>2
  <2>2. c \in {d, [d EXCEPT !.persists = FALSE]}  BY <1>3 DEF Firewall!Done
  <2> HIDE DEF d
  <2> QED  BY <2>1, <2>2 DEF FwCall
<1> QED  BY <1>1, <1>2, <1>3

\* A host with another policy loaded, or kept.
LEMMA FwSets ==
  ASSUME host \in Firewall!Host, NEW now \in Firewall!Policy \cup {Absent},
         NEW files \in Firewall!Policy \cup {Absent}, NEW on \in BOOLEAN, NEW unit \in BOOLEAN,
         NEW boot \in Firewall!Boot
  PROVE  LET h == [host EXCEPT !.now = now, !.files = files, !.on = on, !.unit = unit,
                               !.boot = boot] IN
         /\ h \in Firewall!Host /\ h.kind = host.kind /\ h.now = now /\ h.files = files
         /\ h.on = on /\ h.unit = unit /\ h.boot = boot /\ h.guard = host.guard
         /\ h.saved = host.saved
BY DEF Firewall!Host

LEMMA FwBegins ==
  ASSUME HardeningAssumption, FwInv, Firewall!Begin
  PROVE  FwInv' /\ call'.result # "undone"
<1>1. host \in Firewall!Host /\ call \in FwCall  BY DEF FwInv, FwType
<1>2. PICK config \in FirewallParams.Configs, via \in FirewallParams.Sessions \cup {Absent} :
         LET c == [Firewall!Idle EXCEPT !.config = config, !.via = via] IN
         \/ call' = [c EXCEPT !.result = "failed"] /\ UNCHANGED host
         \/ /\ call' = [c EXCEPT !.pc = "enable"]
            /\ host' = [host EXCEPT !.saved =
                          [files |-> host.files, on |-> host.on, boot |-> host.boot]]
  BY Zenon DEF Firewall!Begin
<1> DEFINE c == [Firewall!Idle EXCEPT !.config = config, !.via = via]
           saved == [files |-> host.files, on |-> host.on, boot |-> host.boot]
<1>3. c \in FwCall /\ c.pc = "idle" /\ c.result = "none"  BY DEF Firewall!Idle, FwCall
<1>4. CASE call' = [c EXCEPT !.result = "failed"] /\ UNCHANGED host
  <2> HIDE DEF c
  <2>1. call' \in FwCall /\ call'.pc = "idle" /\ call'.result = "failed"
    BY <1>3, <1>4 DEF FwCall
  <2> QED  BY <1>1, <1>4, <2>1, FwGoesOn DEF FwInv
<1>5. CASE call' = [c EXCEPT !.pc = "enable"] /\ host' = [host EXCEPT !.saved = saved]
  <2> HIDE DEF c
  <2>1. call' \in FwCall /\ call'.pc = "enable" /\ call'.result = "none"
    BY <1>3, <1>5 DEF FwCall
  <2>2. /\ host' \in Firewall!Host /\ host'.kind = host.kind /\ host'.files = host.files
        /\ host'.on = host.on /\ host'.boot = host.boot /\ host'.saved = saved
    BY <1>1, <1>5 DEF Firewall!Host
  <2>3. Firewall!Keeps(host'.kind, host') /\ Firewall!Keeps(host'.kind, host'.saved)
    BY <2>2 DEF FwInv, Firewall!Keeps
  <2> QED  BY <2>1, <2>2, <2>3, FwGoesOn
<1> QED  BY <1>2, <1>4, <1>5

LEMMA FwEnables ==
  ASSUME FwInv, Firewall!Enable \/ Firewall!Wanted
  PROVE  FwInv' /\ call'.result # "undone"
<1>1. host \in Firewall!Host /\ call \in FwCall /\ call.result = "none"
  BY DEF FwInv, FwType, Firewall!Enable, Firewall!Wanted
<1>2. /\ call' \in {Firewall!Goto("refusal"), [Firewall!Goto("refusal") EXCEPT !.ok = FALSE],
                    Firewall!Goto("wanted"), Firewall!Ends("failed")}
      /\ \/ host' = host \/ host' = [host EXCEPT !.unit = TRUE]
         \/ host.kind # "nftables" /\ host' = [host EXCEPT !.now = host.files, !.on = TRUE]
  BY DEF Firewall!Enable, Firewall!Wanted
<1>3. /\ call' \in FwCall /\ call'.pc # "rule"
      /\ call'.pc # "idle" => call'.result = "none"
      /\ call'.result # "undone"
  <2>1. CASE call' = Firewall!Ends("failed")  BY <1>1, <2>1, FwCalls
  <2>2. CASE call' = Firewall!Goto("wanted")  BY <1>1, <2>2, FwCalls
  <2>3. CASE call' \in {Firewall!Goto("refusal"), [Firewall!Goto("refusal") EXCEPT !.ok = FALSE]}
    BY <1>1, <2>3, FwCalls
  <2> QED  BY <1>2, <2>1, <2>2, <2>3
<1>4. /\ host' \in Firewall!Host /\ host'.kind = host.kind /\ host'.files = host.files
      /\ host'.boot = host.boot /\ host'.saved = host.saved
      /\ host'.on = host.on \/ (host'.on /\ host.kind # "nftables")
  BY <1>1, <1>2 DEF Firewall!Host
<1>5. Firewall!Keeps(host'.kind, host')  BY <1>1, <1>4 DEF FwInv, Firewall!Keeps, Firewall!Host
<1> QED  BY <1>3, <1>4, <1>5, FwGoesOn DEF FwInv

\* The first command takes note of what is kept.
LEMMA FwStarts ==
  ASSUME call \in FwCall, host \in Firewall!Host
  PROVE  LET c == [Firewall!Goto("rule") EXCEPT !.before = host.files] IN
         /\ c \in FwCall /\ c.pc = "rule" /\ c.result = call.result /\ c.step = 1
         /\ c.before = host.files /\ c.config = call.config /\ c.via = call.via
         /\ c.quiet = call.quiet /\ c.wrote = call.wrote /\ c.ok = call.ok
<1> DEFINE g == [call EXCEPT !.pc = "rule", !.step = 1]
           c == [Firewall!Goto("rule") EXCEPT !.before = host.files]
<1>1. host.files \in Firewall!Policy \cup {Absent}  BY DEF Firewall!Host
<1>2. c = [g EXCEPT !.before = host.files]  BY DEF Firewall!Goto
<1>3. /\ g \in FwCall /\ g.pc = "rule" /\ g.result = call.result /\ g.step = 1
      /\ g.config = call.config /\ g.via = call.via /\ g.quiet = call.quiet
      /\ g.wrote = call.wrote /\ g.ok = call.ok
  BY DEF FwCall
<1> HIDE DEF c, g
<1>4. /\ c \in FwCall /\ c.pc = "rule" /\ c.result = call.result /\ c.step = 1
      /\ c.before = host.files /\ c.config = call.config /\ c.via = call.via
      /\ c.quiet = call.quiet /\ c.wrote = call.wrote /\ c.ok = call.ok
  BY <1>1, <1>2, <1>3 DEF FwCall
<1> QED  BY <1>4 DEF c

LEMMA FwRefuses ==
  ASSUME FwInv, Firewall!Refuse
  PROVE  FwInv' /\ call'.result # "undone"
<1>1. host \in Firewall!Host /\ call \in FwCall /\ call.result = "none" /\ host' = host
  BY DEF FwInv, FwType, Firewall!Refuse
<1>2. \/ call' = Firewall!Ends("refused")
      \/ host.kind = "nftables" /\ call' = Firewall!Goto("check")
      \/ /\ host.kind # "nftables"
         /\ call' = [Firewall!Goto("rule") EXCEPT !.before = host.files]
  BY DEF Firewall!Refuse
<1>3. ASSUME host.kind # "nftables",
             call' = [Firewall!Goto("rule") EXCEPT !.before = host.files]
      PROVE  call' \in FwCall /\ call'.pc = "rule" /\ call'.result = "none"
  BY <1>1, <1>3, FwStarts
<1>4. /\ call' \in FwCall
      /\ call'.pc = "rule" => host.kind # "nftables"
      /\ call'.pc # "idle" => call'.result = "none"
      /\ call'.result # "undone"
  BY <1>1, <1>2, <1>3, FwCalls
<1> QED  BY <1>1, <1>4, FwGoesOn DEF FwInv

LEMMA FwMatches ==
  ASSUME HardeningAssumption, NEW config \in FirewallParams.Configs,
         NEW i \in DOMAIN FirewallParams.Rules
  PROVE  Firewall!Matches(config, FirewallParams.Rules[i]) \subseteq FirewallParams.Traffic
<1> DEFINE r == FirewallParams.Rules[i]
           m == Firewall!Matches(config, r)
<1>1. /\ FirewallParams.Baseline[r].matches \subseteq FirewallParams.Traffic
      /\ config.matches[r] \in {Absent} \cup SUBSET FirewallParams.Traffic
  BY HardeningAssumption DEF Firewall!FirewallAssumption
<1>2. m \in {config.matches[r], FirewallParams.Baseline[r].matches}
      /\ (m = config.matches[r] => config.matches[r] # Absent
             \/ m = FirewallParams.Baseline[r].matches)
  BY DEF Firewall!Matches
<1> QED  BY <1>1, <1>2

\* What is admitted, and denied, of a policy.
LEMMA FwDecides ==
  ASSUME NEW policy \in Firewall!Policy, NEW S \in SUBSET FirewallParams.Traffic
  PROVE  /\ Firewall!Admit(policy, S) \in Firewall!Policy
         /\ Firewall!Admit(policy, S).drop = policy.drop
         /\ Firewall!Admit(policy, S).admits = policy.admits \cup S
         /\ Firewall!Admit(policy, S).denies = policy.denies \ S
         /\ Firewall!Deny(policy, S) \in Firewall!Policy
         /\ Firewall!Deny(policy, S).drop = policy.drop
         /\ Firewall!Deny(policy, S).admits = policy.admits \ S
         /\ Firewall!Deny(policy, S).denies = policy.denies \cup S
         /\ [policy EXCEPT !.drop = TRUE] \in Firewall!Policy
         /\ [policy EXCEPT !.drop = TRUE].drop = TRUE
         /\ [policy EXCEPT !.drop = TRUE].admits = policy.admits
         /\ [policy EXCEPT !.drop = TRUE].denies = policy.denies
BY DEF Firewall!Admit, Firewall!Deny, Firewall!Policy

\* What one command may make of what is kept: the default is set, or what a rule
\* matches is denied by ufw, or admitted.
FwOutcome(kind, policy, config, r, m, kept) ==
    \/ Firewall!SetsDefault(kind, config, r) /\ kept = [policy EXCEPT !.drop = TRUE]
    \/ /\ ~Firewall!SetsDefault(kind, config, r)
       /\ kind = "ufw" /\ Firewall!Action(config, r) # "accept"
       /\ \E S \in {m \ policy.admits, m} : kept = Firewall!Deny(policy, S)
    \/ /\ ~Firewall!SetsDefault(kind, config, r)
       /\ \E S \in SUBSET FirewallParams.Traffic :
             m \ policy.denies \subseteq S /\ kept = Firewall!Admit(policy, S)

LEMMA FwRuled ==
  ASSUME HardeningAssumption, NEW config \in FirewallParams.Configs,
         NEW i \in DOMAIN FirewallParams.Rules, NEW policy \in Firewall!Policy,
         NEW kind \in {"ufw", "firewalld"}, NEW r, r = FirewallParams.Rules[i],
         NEW m, m = Firewall!Matches(config, r),
         NEW kept \in Firewall!Ruled(kind, policy, config, r)
  PROVE  FwOutcome(kind, policy, config, r, m, kept)
<1> DEFINE sets == Firewall!SetsDefault(kind, config, r)
<1>1. m \in SUBSET FirewallParams.Traffic  BY HardeningAssumption, FwMatches
<1>2. /\ Firewall!AnySource(m) \in SUBSET FirewallParams.Traffic
      /\ m \subseteq Firewall!AnySource(m)
  BY <1>1 DEF Firewall!AnySource
<1>3. /\ sets => kept \in {[policy EXCEPT !.drop = TRUE]}
      /\ (~sets /\ kind = "firewalld") =>
            kept \in {Firewall!Admit(policy, Firewall!AnySource(m) \ policy.denies)}
      /\ (~sets /\ kind = "ufw") =>
            kept \in (IF Firewall!Action(config, r) = "accept"
                      THEN {Firewall!Admit(policy, S) : S \in {m \ policy.denies, m}}
                      ELSE {Firewall!Deny(policy, S) : S \in {m \ policy.admits, m}})
  <2> HIDE DEF sets
  <2>1. CASE sets  BY <2>1 DEF Firewall!Ruled, sets
  <2>2. CASE ~sets /\ kind = "firewalld"  BY <2>2 DEF Firewall!Ruled, sets
  <2>3. CASE ~sets /\ kind = "ufw" /\ m = FirewallParams.Traffic
    BY <2>3 DEF Firewall!Ruled, sets
  <2>4. CASE ~sets /\ kind = "ufw" /\ m # FirewallParams.Traffic
    BY <2>4 DEF Firewall!Ruled, sets
  <2> QED  BY <2>1, <2>2, <2>3, <2>4
<1> HIDE DEF sets
<1>4. CASE sets  BY <1>3, <1>4 DEF sets, FwOutcome
<1>5. CASE ~sets /\ kind = "firewalld"
  <2> DEFINE S == Firewall!AnySource(m) \ policy.denies
  <2>1. kept = Firewall!Admit(policy, S)  BY <1>3, <1>5
  <2>2. m \ policy.denies \subseteq S /\ S \in SUBSET FirewallParams.Traffic  BY <1>2
  <2> QED  BY <1>5, <2>1, <2>2 DEF sets, FwOutcome
<1>6. CASE ~sets /\ kind = "ufw" /\ Firewall!Action(config, r) = "accept"
  <2>1. PICK S \in {m \ policy.denies, m} : kept = Firewall!Admit(policy, S)  BY <1>3, <1>6
  <2>2. m \ policy.denies \subseteq S /\ S \in SUBSET FirewallParams.Traffic  BY <1>1
  <2> QED  BY <1>6, <2>1, <2>2 DEF sets, FwOutcome
<1>7. CASE ~sets /\ kind = "ufw" /\ Firewall!Action(config, r) # "accept"
  <2>1. PICK S \in {m \ policy.admits, m} : kept = Firewall!Deny(policy, S)  BY <1>3, <1>7
  <2> QED  BY <1>7, <2>1 DEF sets, FwOutcome
<1> QED  BY <1>4, <1>5, <1>6, <1>7

\* What a rule, and a configuration, makes of a policy is a policy.
LEMMA FwPolicies ==
  ASSUME HardeningAssumption, NEW config \in FirewallParams.Configs
  PROVE  /\ Firewall!Rendered(config) \in Firewall!Policy
         /\ \A i \in DOMAIN FirewallParams.Rules, policy \in Firewall!Policy,
               kind \in {"ufw", "firewalld"} :
              Firewall!Ruled(kind, policy, config, FirewallParams.Rules[i])
                \subseteq Firewall!Policy
<1>1. Firewall!Rendered(config) \in Firewall!Policy
  BY DEF Firewall!Rendered, Firewall!Policy
<1>2. ASSUME NEW i \in DOMAIN FirewallParams.Rules, NEW policy \in Firewall!Policy,
             NEW kind \in {"ufw", "firewalld"},
             NEW kept \in Firewall!Ruled(kind, policy, config, FirewallParams.Rules[i])
      PROVE  kept \in Firewall!Policy
  <2> DEFINE r == FirewallParams.Rules[i]
             m == Firewall!Matches(config, r)
  <2>1. m \in SUBSET FirewallParams.Traffic  BY HardeningAssumption, FwMatches
  <2>2. \/ kept = [policy EXCEPT !.drop = TRUE]
        \/ \E S \in SUBSET FirewallParams.Traffic :
              kept = Firewall!Deny(policy, S) \/ kept = Firewall!Admit(policy, S)
    <3>0. r = FirewallParams.Rules[i] /\ m = Firewall!Matches(config, r)  OBVIOUS
    <3> HIDE DEF m, r
    <3>1. \/ kept = [policy EXCEPT !.drop = TRUE]
          \/ \E S \in {m \ policy.admits, m} : kept = Firewall!Deny(policy, S)
          \/ \E S \in SUBSET FirewallParams.Traffic : kept = Firewall!Admit(policy, S)
      <4>1. FwOutcome(kind, policy, config, r, m, kept)
        BY <3>0, HardeningAssumption, FwRuled
      <4> QED  BY <4>1 DEF FwOutcome
    <3> QED  BY <2>1, <3>1
  <2>3. CASE kept = [policy EXCEPT !.drop = TRUE]  BY <2>3 DEF Firewall!Policy
  <2>4. ASSUME NEW S \in SUBSET FirewallParams.Traffic,
               kept = Firewall!Deny(policy, S) \/ kept = Firewall!Admit(policy, S)
        PROVE  kept \in Firewall!Policy
    <3>1. Firewall!Deny(policy, S) \in Firewall!Policy /\ Firewall!Admit(policy, S) \in Firewall!Policy
      BY FwDecides
    <3> QED  BY <2>4, <3>1
  <2> QED  BY <2>2, <2>3, <2>4
<1> QED  BY <1>1, <1>2

LEMMA FwRules ==
  ASSUME HardeningAssumption, FwInv, Firewall!ApplyRule
  PROVE  FwInv' /\ call'.result # "undone"
<1>1. /\ host \in Firewall!Host /\ call \in FwCall /\ call.result = "none" /\ call.pc = "rule"
      /\ host.kind # "nftables" /\ call.step \in DOMAIN FirewallParams.Rules
      /\ host.files \in Firewall!Policy
  <2>1. /\ host \in Firewall!Host /\ call \in FwCall /\ call.result = "none" /\ call.pc = "rule"
        /\ host.kind # "nftables" /\ call.step \in DOMAIN FirewallParams.Rules
        /\ host.files # Absent
    BY DEF FwInv, FwType, Firewall!ApplyRule, Firewall!Keeps
  <2> QED  BY <2>1 DEF Firewall!Host
<1> DEFINE ruled == Firewall!Ruled(host.kind, host.files, call.config,
                                   FirewallParams.Rules[call.step])
           next == [call EXCEPT !.step = @ + 1]
<1>2. ruled \subseteq Firewall!Policy
  <2>1. call.config \in FirewallParams.Configs /\ host.kind \in {"ufw", "firewalld"}
    BY <1>1 DEF FwCall, Firewall!Host
  <2> QED  BY <1>1, <2>1, FwPolicies
<1> HIDE DEF ruled
<1>3. /\ next \in FwCall /\ next.pc = "rule" /\ next.result = "none"
  <2> DEFINE step == call.step + 1
  <2>1. step \in Nat  BY <1>1 DEF FwCall
  <2>2. next = [call EXCEPT !.step = step]  OBVIOUS
  <2> HIDE DEF step, next
  <2> QED  BY <1>1, <2>1, <2>2 DEF FwCall
<1> HIDE DEF next
<1>4. /\ \/ call' = next \/ call' = [next EXCEPT !.wrote = TRUE]
         \/ call' = [next EXCEPT !.ok = FALSE]
      /\ \/ host' = host
         \/ \E kept \in ruled :
               host' = [host EXCEPT !.files = kept,
                           !.now = IF host.kind = "ufw" /\ @ # Absent THEN kept ELSE @]
  BY Zenon DEF Firewall!ApplyRule, ruled, next
<1>5. call' \in FwCall /\ call'.pc = "rule" /\ call'.result = "none"
  BY <1>3, <1>4 DEF FwCall
<1>6. /\ host' \in Firewall!Host /\ host'.kind = host.kind /\ host'.on = host.on
      /\ host'.boot = host.boot /\ host'.saved = host.saved /\ host'.files # Absent
  <2>1. CASE host' = host  BY <1>1, <2>1 DEF FwInv, Firewall!Keeps
  <2>2. ASSUME NEW kept \in ruled,
               host' = [host EXCEPT !.files = kept,
                           !.now = IF host.kind = "ufw" /\ @ # Absent THEN kept ELSE @]
        PROVE  /\ host' \in Firewall!Host /\ host'.kind = host.kind /\ host'.on = host.on
               /\ host'.boot = host.boot /\ host'.saved = host.saved /\ host'.files # Absent
    <3> DEFINE now == IF host.kind = "ufw" /\ host.now # Absent THEN kept ELSE host.now
    <3>1. now \in Firewall!Policy \cup {Absent}  BY <1>1, <1>2 DEF Firewall!Host
    <3>2. host' = [host EXCEPT !.files = kept, !.now = now]  BY <2>2
    <3> HIDE DEF now
    <3>3. /\ host' \in Firewall!Host /\ host'.kind = host.kind /\ host'.on = host.on
          /\ host'.boot = host.boot /\ host'.saved = host.saved /\ host'.files = kept
      BY <1>1, <1>2, <3>1, <3>2 DEF Firewall!Host
    <3> QED  BY <1>2, <3>3, HardeningAssumption DEF Firewall!FirewallAssumption
  <2> QED  BY <1>4, <2>1, <2>2
<1>7. Firewall!Keeps(host'.kind, host')  BY <1>1, <1>6 DEF FwInv, Firewall!Keeps
<1> QED  BY <1>1, <1>5, <1>6, <1>7, FwGoesOn DEF FwInv

LEMMA FwRulesEnd ==
  ASSUME FwInv, Firewall!RulesDone
  PROVE  FwInv' /\ call'.result # "undone"
<1>1. host \in Firewall!Host /\ call \in FwCall  BY DEF FwInv, FwType
<1>2. /\ call' = Firewall!Done \/ call' = Firewall!Ends("failed")
      /\ host' = host \/ host' = [host EXCEPT !.now = host.files]
  BY DEF Firewall!RulesDone
<1>3. call' \in FwCall /\ call'.pc = "idle" /\ call'.result \in {"success", "failed"}
  <2>1. CASE call' = Firewall!Done  BY <1>1, <2>1, FwCalls
  <2>2. CASE call' = Firewall!Ends("failed")  BY <1>1, <2>2, FwCalls
  <2> QED  BY <1>2, <2>1, <2>2
<1>4. /\ host' \in Firewall!Host /\ host'.kind = host.kind /\ host'.files = host.files
      /\ host'.on = host.on /\ host'.boot = host.boot /\ host'.saved = host.saved
  BY <1>1, <1>2 DEF Firewall!Host
<1>5. Firewall!Keeps(host'.kind, host')  BY <1>4 DEF FwInv, Firewall!Keeps
<1> QED  BY <1>3, <1>4, <1>5, FwGoesOn DEF FwInv

LEMMA FwLoads ==
  ASSUME HardeningAssumption, FwInv,
         \/ Firewall!NftCheck \/ Firewall!NftFragment \/ Firewall!NftInclude \/ Firewall!NftLoad
  PROVE  FwInv' /\ call'.result # "undone"
<1>1. host \in Firewall!Host /\ call \in FwCall  BY DEF FwInv, FwType
<1> DEFINE policy == Firewall!Rendered(call.config)
<1>2. policy \in Firewall!Policy
  <2>1. call.config \in FirewallParams.Configs  BY <1>1 DEF FwCall
  <2> QED  BY <2>1, FwPolicies
<1> HIDE DEF policy
<1>3. /\ call.pc # "idle"
      /\ \/ call' \in {Firewall!Goto("fragment"), Firewall!Goto("include"), Firewall!Goto("load")}
         \/ call' = Firewall!Ends("failed")
         \/ call' \in {Firewall!Done, [Firewall!Done EXCEPT !.persists = FALSE]}
      /\ \/ host' = host \/ host' = [host EXCEPT !.now = policy]
         \/ host' = [host EXCEPT !.files = policy]
         \/ host' = [host EXCEPT !.on = TRUE, !.boot = "there"]
         \/ host' = [host EXCEPT !.now = host.files]
  BY DEF Firewall!NftCheck, Firewall!NftFragment, Firewall!NftInclude, Firewall!NftLoad,
         Firewall!NftStep, policy
<1>4. /\ call' \in FwCall /\ call'.pc # "rule"
      /\ call'.pc # "idle" => call'.result = "none"
      /\ call'.result # "undone"
  <2>1. call.result = "none"  BY <1>3 DEF FwInv
  <2>2. CASE call' \in {Firewall!Goto("fragment"), Firewall!Goto("include"), Firewall!Goto("load")}
    BY <1>1, <2>1, <2>2, FwCalls
  <2>3. CASE call' = Firewall!Ends("failed")  BY <1>1, <2>3, FwCalls
  <2>4. CASE call' \in {Firewall!Done, [Firewall!Done EXCEPT !.persists = FALSE]}
    BY <1>1, <2>4, FwCalls
  <2> QED  BY <1>3, <2>2, <2>3, <2>4
<1>5. /\ host' \in Firewall!Host /\ host'.kind = host.kind /\ host'.saved = host.saved
      /\ host'.files \in {host.files, policy}
      /\ \/ host'.on = host.on /\ host'.boot = host.boot
         \/ host'.on = TRUE /\ host'.boot = "there"
  BY <1>1, <1>2, <1>3 DEF Firewall!Host, Firewall!Boot
<1>6. policy # Absent  BY <1>2, HardeningAssumption DEF Firewall!FirewallAssumption
<1>7. Firewall!Keeps(host'.kind, host')  BY <1>5, <1>6 DEF FwInv, Firewall!Keeps
<1> QED  BY <1>4, <1>5, <1>7, FwGoesOn DEF FwInv

\* What a restored host is, and what the reload of its backend makes of it: what
\* is loaded is what the next boot loads, or the divergence is told.
LEMMA FwRestores ==
  ASSUME FwInv, host.saved # Absent
  PROVE  LET h == Firewall!Restored(host) IN
         /\ h \in Firewall!Host /\ h.kind = host.kind /\ h.saved = host.saved
         /\ h.now = host.now /\ h.unit = host.unit /\ h.guard = host.guard
         /\ Firewall!Keeps(h.kind, h)
<1>1. host \in Firewall!Host  BY DEF FwInv, FwType
<1>2. host.saved \in [files : Firewall!Policy \cup {Absent}, on : BOOLEAN, boot : Firewall!Boot]
  BY <1>1 DEF Firewall!Host
<1> DEFINE h == Firewall!Restored(host)
           kept == host.kind = "nftables" /\ host.saved.boot = "unknown"
<1>3. CASE kept
  <2>1. h = [host EXCEPT !.files = host.saved.files]  BY <1>3 DEF Firewall!Restored
  <2> HIDE DEF h
  <2>2. /\ h \in Firewall!Host /\ h.kind = host.kind /\ h.saved = host.saved
        /\ h.now = host.now /\ h.unit = host.unit /\ h.guard = host.guard
        /\ h.on = host.on /\ h.boot = host.boot
    BY <1>1, <1>2, <2>1 DEF Firewall!Host
  <2>3. Firewall!Keeps(h.kind, h)  BY <1>3, <2>2 DEF FwInv, Firewall!Keeps
  <2> QED  BY <2>2, <2>3 DEF h
<1>4. CASE ~kept
  <2>1. h = [host EXCEPT !.files = host.saved.files, !.on = host.saved.on,
                         !.boot = host.saved.boot]
    BY <1>4 DEF Firewall!Restored
  <2> HIDE DEF h
  <2>2. /\ h \in Firewall!Host /\ h.kind = host.kind /\ h.saved = host.saved
        /\ h.now = host.now /\ h.unit = host.unit /\ h.guard = host.guard
        /\ h.on = host.saved.on /\ h.boot = host.saved.boot /\ h.files = host.saved.files
    BY <1>1, <1>2, <2>1 DEF Firewall!Host
  <2>3. Firewall!Keeps(host.kind, host.saved)  BY DEF FwInv
  <2>4. Firewall!Keeps(h.kind, h)  BY <2>2, <2>3 DEF Firewall!Keeps
  <2> QED  BY <2>2, <2>4 DEF h
<1> QED  BY <1>3, <1>4

LEMMA FwReloads ==
  ASSUME NEW h \in Firewall!Host, Firewall!Keeps(h.kind, h)
  PROVE  LET g == Firewall!Reloaded(h) IN
         /\ g \in Firewall!Host /\ g.kind = h.kind /\ g.saved = h.saved /\ g.files = h.files
         /\ g.on = h.on /\ g.boot = h.boot /\ g.guard = h.guard
         /\ Firewall!Diverged(g) \/ g.now = Firewall!Booted([g EXCEPT !.unit = TRUE])
         /\ (g.kind = "nftables" /\ g.boot = "absent") => (g.unit => g.guard)
         /\ (h.now # Absent /\ h.kind # "nftables") => g.now # Absent
<1> DEFINE now == CASE h.kind = "ufw" -> IF h.on THEN h.files ELSE h.now
                    [] h.kind = "firewalld" -> h.files
                    [] h.kind = "nftables" /\ h.boot = "there" ->
                          IF h.on THEN h.files ELSE Absent
                    [] OTHER -> Absent
           unit == IF h.kind = "nftables" /\ h.boot # "there"
                   THEN h.unit /\ (h.boot = "unknown" \/ h.guard) ELSE h.unit
           g == [h EXCEPT !.now = now, !.unit = unit]
<1>1. now \in Firewall!Policy \cup {Absent} /\ unit \in BOOLEAN  BY DEF Firewall!Host
<1>2. Firewall!Reloaded(h) = g
  <2>1. CASE h.kind = "ufw" /\ h.on  BY <2>1 DEF Firewall!Reloaded, Firewall!Host
  <2>2. CASE h.kind = "ufw" /\ ~h.on  BY <2>2 DEF Firewall!Reloaded, Firewall!Host
  <2>3. CASE h.kind = "firewalld"  BY <2>3 DEF Firewall!Reloaded, Firewall!Host
  <2>4. CASE h.kind = "nftables" /\ h.boot = "there"
    BY <2>4 DEF Firewall!Reloaded, Firewall!Host
  <2>5. CASE h.kind = "nftables" /\ h.boot # "there"
    BY <2>5 DEF Firewall!Reloaded, Firewall!Host
  <2> QED  BY <2>1, <2>2, <2>3, <2>4, <2>5 DEF Firewall!Host
<1>3. /\ h.kind = "ufw" => now = (IF h.on THEN h.files ELSE h.now)
      /\ h.kind = "firewalld" => now = h.files
      /\ h.kind = "nftables" =>
            now = (IF h.boot = "there" /\ h.on THEN h.files ELSE Absent)
      /\ (h.kind = "nftables" /\ h.boot = "absent") => (unit => h.guard)
  BY DEF Firewall!Host
<1> HIDE DEF now, unit
<1>4. /\ g \in Firewall!Host /\ g.kind = h.kind /\ g.saved = h.saved /\ g.files = h.files
      /\ g.on = h.on /\ g.boot = h.boot /\ g.guard = h.guard /\ g.now = now /\ g.unit = unit
  BY <1>1 DEF Firewall!Host
<1> HIDE DEF g
<1>5. Firewall!Booted([g EXCEPT !.unit = TRUE]) =
         IF g.on /\ g.boot # "unknown" THEN g.files ELSE Absent
  BY <1>4 DEF Firewall!Booted, Firewall!Host
<1>6. /\ Firewall!Diverged(g) \/ g.now = Firewall!Booted([g EXCEPT !.unit = TRUE])
      /\ (h.now # Absent /\ h.kind # "nftables") => g.now # Absent
  <2>1. h.kind \in {"ufw", "firewalld", "nftables"} /\ h.boot \in {"there", "absent", "unknown"}
    BY DEF Firewall!Host, Firewall!Boot
  <2>2. CASE h.kind = "ufw"
    BY <1>3, <1>4, <1>5, <2>2 DEF Firewall!Keeps, Firewall!Diverged, Firewall!Host
  <2>3. CASE h.kind = "firewalld"
    BY <1>3, <1>4, <1>5, <2>3 DEF Firewall!Keeps, Firewall!Host
  <2>4. CASE h.kind = "nftables"
    BY <1>3, <1>4, <1>5, <2>1, <2>4 DEF Firewall!Keeps
  <2> QED  BY <2>1, <2>2, <2>3, <2>4
<1> QED  BY <1>2, <1>3, <1>4, <1>6

LEMMA FwIdle ==
  ASSUME HardeningAssumption
  PROVE  Firewall!Idle \in FwCall /\ Firewall!Idle.pc = "idle" /\ Firewall!Idle.result = "none"
<1> DEFINE config == CHOOSE c \in FirewallParams.Configs : TRUE
<1>1. config \in FirewallParams.Configs  BY HardeningAssumption DEF Firewall!FirewallAssumption
<1> HIDE DEF config
<1>2. Firewall!Idle = [pc |-> "idle", step |-> 0, result |-> "none", quiet |-> TRUE, ok |-> TRUE,
                       config |-> config, via |-> Absent, before |-> Absent, wrote |-> FALSE,
                       persists |-> TRUE]
  BY DEF Firewall!Idle, config
<1> QED  BY <1>1, <1>2 DEF FwCall

LEMMA FwRollsBack ==
  ASSUME HardeningAssumption, FwInv, Firewall!Rollback
  PROVE  /\ FwInv'
         /\ (call'.result = "undone" /\ host.now # Absent /\ host.kind # "nftables") =>
               host'.now # Absent
<1>1. host \in Firewall!Host /\ call \in FwCall /\ host.saved # Absent
  BY DEF Firewall!Rollback, FwInv, FwType
<1> DEFINE back == Firewall!Restored(host)
           done == [Firewall!Idle EXCEPT !.result = "undone"]
           loaded == Firewall!Reloaded(back)
<1>2. /\ back \in Firewall!Host /\ back.kind = host.kind /\ back.saved = host.saved
      /\ back.now = host.now /\ back.unit = host.unit /\ Firewall!Keeps(back.kind, back)
  BY <1>1, FwRestores
<1>3. /\ loaded \in Firewall!Host /\ loaded.kind = host.kind /\ loaded.saved = host.saved
      /\ Firewall!Keeps(loaded.kind, loaded)
      /\ Firewall!Diverged(loaded)
         \/ loaded.now = Firewall!Booted([loaded EXCEPT !.unit = TRUE])
      /\ (loaded.kind = "nftables" /\ loaded.boot = "absent") => (loaded.unit => loaded.guard)
      /\ (host.now # Absent /\ host.kind # "nftables") => loaded.now # Absent
  <2> HIDE DEF back
  <2> QED  BY <1>2, FwReloads DEF Firewall!Keeps
<1>4. \/ host' = loaded /\ call' = done
      \/ host' = [loaded EXCEPT !.unit = host.unit]
         /\ call' = [done EXCEPT !.result = "undone_unit_left"]
      \/ /\ \E now \in {host.now, Absent} : host' = [back EXCEPT !.now = now]
         /\ call' = [done EXCEPT !.result = "undone_not_reloaded"]
  BY Zenon DEF Firewall!Rollback
<1> HIDE DEF back, loaded
<1>5. call' \in FwCall /\ call'.pc = "idle"
  <2>1. done \in FwCall /\ done.pc = "idle"  BY FwIdle DEF FwCall
  <2> HIDE DEF done
  <2> QED  BY <1>4, <2>1 DEF FwCall
<1>6. CASE host' = loaded /\ call' = done
  <2>1. Firewall!UndoneMeansUndone'  BY <1>3, <1>6 DEF Firewall!UndoneMeansUndone
  <2> QED  BY <1>3, <1>5, <1>6, <2>1 DEF FwInv, FwType
<1>7. CASE host' = [loaded EXCEPT !.unit = host.unit]
           /\ call' = [done EXCEPT !.result = "undone_unit_left"]
  <2>1. /\ host' \in Firewall!Host /\ host'.kind = host.kind /\ host'.saved = host.saved
        /\ host'.on = loaded.on /\ host'.boot = loaded.boot /\ host'.files = loaded.files
    BY <1>1, <1>3, <1>7 DEF Firewall!Host
  <2>2. Firewall!Keeps(host'.kind, host')  BY <1>3, <2>1 DEF Firewall!Keeps
  <2>3. call'.result = "undone_unit_left"  BY <1>7 DEF Firewall!Idle
  <2> QED  BY <1>5, <2>1, <2>2, <2>3, FwGoesOn DEF FwInv
<1>8. CASE /\ \E now \in {host.now, Absent} : host' = [back EXCEPT !.now = now]
           /\ call' = [done EXCEPT !.result = "undone_not_reloaded"]
  <2>1. /\ host' \in Firewall!Host /\ host'.kind = host.kind /\ host'.saved = host.saved
        /\ host'.on = back.on /\ host'.boot = back.boot /\ host'.files = back.files
    BY <1>1, <1>2, <1>8 DEF Firewall!Host
  <2>2. Firewall!Keeps(host'.kind, host')  BY <1>2, <2>1 DEF Firewall!Keeps
  <2>3. call'.result = "undone_not_reloaded"  BY <1>8 DEF Firewall!Idle
  <2> QED  BY <1>5, <2>1, <2>2, <2>3, FwGoesOn DEF FwInv
<1> QED  BY <1>4, <1>6, <1>7, <1>8

\* Whatever others do, the call no longer answers for the host.
LEMMA FwDisturbed ==
  ASSUME FwInv, Firewall!Others
  PROVE  FwInv'
<1>1. host \in Firewall!Host /\ call \in FwCall  BY DEF FwInv, FwType
<1>2. call' = [call EXCEPT !.quiet = FALSE]  BY DEF Firewall!Others
<1>3. /\ call' \in FwCall /\ call'.quiet = FALSE /\ call'.pc = call.pc
      /\ call'.result = call.result
  BY <1>1, <1>2 DEF FwCall
<1>4. /\ host' \in Firewall!Host /\ host'.kind = host.kind /\ host'.saved = host.saved
      /\ host'.files = host.files /\ host'.boot = host.boot
      /\ host'.on = host.on \/ (host.kind = "ufw" /\ host'.on = FALSE)
  <2>1. CASE host' = [host EXCEPT !.now = Firewall!Booted(host)]
    <3>1. Firewall!Booted(host) \in Firewall!Policy \cup {Absent}
      BY <1>1 DEF Firewall!Booted, Firewall!Host
    <3> QED  BY <1>1, <2>1, <3>1 DEF Firewall!Host
  <2>2. CASE host' = [host EXCEPT !.now = Absent,
                                  !.on = IF host.kind = "ufw" THEN FALSE ELSE @]
    BY <1>1, <2>2 DEF Firewall!Host
  <2>3. CASE host' = [host EXCEPT !.unit = FALSE]  BY <1>1, <2>3 DEF Firewall!Host
  <2> QED  BY <2>1, <2>2, <2>3 DEF Firewall!Others
<1>5. Firewall!Keeps(host'.kind, host')  BY <1>4 DEF FwInv, Firewall!Keeps
<1> QED  BY <1>3, <1>4, <1>5 DEF FwInv, FwType, Firewall!UndoneMeansUndone

LEMMA FwNext ==
  ASSUME HardeningAssumption, FwInv, Firewall!Next
  PROVE  FwInv'
<1>1. CASE Firewall!Dies
  <2>1. host' = host /\ call' = Firewall!Ends("died")  BY <1>1 DEF Firewall!Dies
  <2>2. host \in Firewall!Host /\ call \in FwCall  BY DEF FwInv, FwType
  <2>3. call' \in FwCall /\ call'.pc = "idle" /\ call'.result = "died"  BY <2>1, <2>2, FwCalls
  <2> QED  BY <2>1, <2>2, <2>3, FwGoesOn DEF FwInv
<1> QED
  BY <1>1, FwBegins, FwEnables, FwRefuses, FwRules, FwRulesEnd, FwLoads, FwRollsBack,
     FwDisturbed DEF Firewall!Next

\* A rollback that reports a success has stopped no firewall but the table of
\* nftables this tool loaded (reload_after_rollback).
LEMMA FwUndoOpensNothing ==
  ASSUME HardeningAssumption, FwInv, [Firewall!Next]_<<host, call>>
  PROVE  Firewall!UndoNeverOpens
<1> SUFFICES ASSUME call'.result # call.result, call'.result = "undone", host.now # Absent,
                    host.kind # "nftables"
             PROVE  host'.now # Absent
  BY Zenon DEF Firewall!UndoNeverOpens
<1>1. call \in FwCall  BY DEF FwInv, FwType
<1>2. CASE Firewall!Rollback  BY <1>2, HardeningAssumption, FwRollsBack
<1>3. CASE Firewall!Others
  <2>1. call'.result = call.result  BY <1>1, <1>3 DEF Firewall!Others, FwCall
  <2> QED  BY <2>1
<1>4. CASE Firewall!Dies
  <2>1. call'.result = "died"  BY <1>1, <1>4 DEF Firewall!Dies, Firewall!Ends, FwCall
  <2> QED  BY <2>1
<1>5. CASE UNCHANGED <<host, call>>  BY <1>5
<1> QED
  BY <1>2, <1>3, <1>4, <1>5, HardeningAssumption, FwBegins, FwEnables, FwRefuses, FwRules,
     FwRulesEnd, FwLoads DEF Firewall!Next

\* What the rule of ssh decides, and what an apply has been through, which is in the
\* files: the default where it is set, and what that rule decides.
FwDenied == Firewall!Denied(host.kind, call.config)
FwSession ==
    Firewall!Matches(call.config, FirewallParams.SshRule)
      \ (FwDenied \cup Firewall!DeniedBefore(host.kind, call.before))
FwBehind ==
    /\ \A i \in Firewall!Applied(call.config) :
          (/\ i < call.step /\ FirewallParams.Rules[i] = FirewallParams.DropRule
           /\ host.kind = "firewalld" =>
                Firewall!Action(call.config, FirewallParams.DropRule) = "drop") => host.files.drop
    /\ \A i \in Firewall!Accepting(call.config) :
          (i < call.step /\ FirewallParams.Rules[i] = FirewallParams.SshRule) =>
             /\ FwSession \subseteq host.files.admits
             /\ host.kind = "ufw" => call.wrote

\* Since the first command nothing but what the configuration denies was denied.
FwSince ==
    /\ call.before \in Firewall!Policy
    /\ call.before.drop => host.files.drop
    /\ call.before.admits \ FwDenied \subseteq host.files.admits
    /\ host.files.denies \subseteq call.before.denies \cup FwDenied

FwRemote == call.via # Absent

\* An apply goes on with rules that were not refused.  While nobody else does anything,
\* ufw runs what it keeps from the first command on, and nftables keeps what was
\* rendered until it is loaded.
FwKept ==
    /\ call.pc \in {"enable", "wanted", "refusal"} => ~call.wrote
    /\ (call.pc \in {"wanted", "refusal", "rule"} /\ call.quiet /\ host.kind = "ufw") =>
          host.now # Absent
    /\ call.pc = "rule" =>
          /\ ~Firewall!Refused(call.config, FwRemote) /\ call.step \in Nat \ {0}
          /\ (call.quiet /\ call.wrote /\ host.kind = "ufw") => host.now = host.files
          /\ FwSince
          /\ call.ok => FwBehind
    /\ call.pc \in {"check", "fragment", "include", "load"} =>
          host.kind = "nftables" /\ ~Firewall!Refused(call.config, FwRemote)
    /\ call.pc \in {"include", "load"} => host.files = Firewall!Rendered(call.config)
    /\ Firewall!SuccessMeansKept
    /\ Firewall!SessionSurvives

\* What stays of the call where it goes on, and where it ends.
LEMMA FwCallsKeep ==
  ASSUME call \in FwCall
  PROVE  /\ \A pc \in {"refusal", "wanted", "rule", "check", "fragment", "include", "load"} :
              \A c \in {Firewall!Goto(pc), [Firewall!Goto(pc) EXCEPT !.ok = FALSE]} :
                 /\ c.pc = pc /\ c.config = call.config /\ c.via = call.via /\ c.before = call.before
                 /\ c.quiet = call.quiet /\ c.wrote = call.wrote /\ c.result = call.result
                 /\ c.step = IF pc = "rule" THEN 1 ELSE 0
         /\ \A c \in {Firewall!Done, [Firewall!Done EXCEPT !.persists = FALSE]} :
                 /\ c.pc = "idle" /\ c.config = call.config /\ c.via = call.via /\ c.before = call.before
                 /\ c.quiet = call.quiet /\ c.wrote = call.wrote
                 /\ c.result = "success" => call.ok
         /\ [Firewall!Done EXCEPT !.persists = FALSE].persists = FALSE
<1>1. ASSUME NEW pc \in {"refusal", "wanted", "rule", "check", "fragment", "include", "load"},
             NEW c \in {Firewall!Goto(pc), [Firewall!Goto(pc) EXCEPT !.ok = FALSE]}
      PROVE  /\ c.pc = pc /\ c.config = call.config /\ c.via = call.via /\ c.before = call.before
             /\ c.quiet = call.quiet /\ c.wrote = call.wrote /\ c.result = call.result
             /\ c.step = IF pc = "rule" THEN 1 ELSE 0
  <2> DEFINE step == IF pc = "rule" THEN 1 ELSE 0
             g == [call EXCEPT !.pc = pc, !.step = step]
  <2>1. step \in Nat  OBVIOUS
  <2>2. c \in {g, [g EXCEPT !.ok = FALSE]}  BY <1>1 DEF Firewall!Goto
  <2> HIDE DEF step
  <2>3. /\ g \in FwCall /\ g.pc = pc /\ g.config = call.config /\ g.via = call.via /\ g.before = call.before
        /\ g.quiet = call.quiet /\ g.wrote = call.wrote /\ g.result = call.result
        /\ g.step = step
    BY <1>1, <2>1 DEF FwCall
  <2> HIDE DEF g
  <2>4. /\ c.pc = pc /\ c.config = call.config /\ c.via = call.via /\ c.before = call.before
        /\ c.quiet = call.quiet /\ c.wrote = call.wrote /\ c.result = call.result
        /\ c.step = step
    BY <2>2, <2>3 DEF FwCall
  <2> QED  BY <2>4 DEF step
<1>2. ASSUME NEW c \in {Firewall!Done, [Firewall!Done EXCEPT !.persists = FALSE]}
      PROVE  /\ c.pc = "idle" /\ c.config = call.config /\ c.via = call.via /\ c.before = call.before
             /\ c.quiet = call.quiet /\ c.wrote = call.wrote
             /\ c.result = "success" => call.ok
  <2> DEFINE result == IF call.ok THEN "success" ELSE "failed"
             d == [call EXCEPT !.pc = "idle", !.result = result]
  <2>1. result \in {"success", "failed"} /\ (result = "success" => call.ok)  OBVIOUS
  <2>2. c \in {d, [d EXCEPT !.persists = FALSE]}
    BY <1>2 DEF Firewall!Done, Firewall!Ends
  <2> HIDE DEF result
  <2>3. /\ d \in FwCall /\ d.pc = "idle" /\ d.config = call.config /\ d.via = call.via /\ d.before = call.before
        /\ d.quiet = call.quiet /\ d.wrote = call.wrote /\ d.result = result
    BY <2>1 DEF FwCall
  <2> HIDE DEF d
  <2> QED  BY <2>1, <2>2, <2>3 DEF FwCall
<1>3. [Firewall!Done EXCEPT !.persists = FALSE].persists = FALSE
  <2>1. Firewall!Done \in FwCall  BY FwCalls
  <2> QED  BY <2>1 DEF FwCall
<1> QED  BY <1>1, <1>2, <1>3

\* A call that ends otherwise than in a success answers for nothing.
LEMMA FwStops ==
  ASSUME call'.pc = "idle", call'.result # "success"
  PROVE  FwKept'
BY DEF FwKept, Firewall!SuccessMeansKept, Firewall!SessionSurvives

LEMMA FwBeginsKept ==
  ASSUME HardeningAssumption, FwInv, Firewall!Begin
  PROVE  FwKept'
<1>1. PICK config \in FirewallParams.Configs, via \in FirewallParams.Sessions \cup {Absent} :
         LET c == [Firewall!Idle EXCEPT !.config = config, !.via = via] IN
         \/ call' = [c EXCEPT !.result = "failed"]
         \/ call' = [c EXCEPT !.pc = "enable"]
  BY Zenon DEF Firewall!Begin
<1> DEFINE c == [Firewall!Idle EXCEPT !.config = config, !.via = via]
<1>2. c \in FwCall /\ c.pc = "idle" /\ c.result = "none" /\ c.wrote = FALSE
  BY DEF Firewall!Idle, FwCall
<1> HIDE DEF c
<1>3. CASE call' = [c EXCEPT !.result = "failed"]
  <2>1. call'.pc = "idle" /\ call'.result = "failed"  BY <1>2, <1>3 DEF FwCall
  <2> QED  BY <2>1, FwStops
<1>4. CASE call' = [c EXCEPT !.pc = "enable"]
  <2>1. call'.pc = "enable" /\ call'.result = "none" /\ call'.wrote = FALSE
    BY <1>2, <1>4 DEF FwCall
  <2> QED  BY <2>1 DEF FwKept, Firewall!SuccessMeansKept, Firewall!SessionSurvives
<1> QED  BY <1>1, <1>3, <1>4 DEF c

LEMMA FwEnablesKept ==
  ASSUME FwInv, FwKept, Firewall!Enable \/ Firewall!Wanted
  PROVE  FwKept'
<1>1. /\ host \in Firewall!Host /\ call \in FwCall /\ call.result = "none"
      /\ call.pc \in {"enable", "wanted"} /\ ~call.wrote
  BY DEF FwInv, FwType, FwKept, Firewall!Enable, Firewall!Wanted
<1>2. \/ call' = Firewall!Ends("failed")
      \/ /\ call' \in {Firewall!Goto("refusal"), [Firewall!Goto("refusal") EXCEPT !.ok = FALSE],
                       Firewall!Goto("wanted")}
         /\ \/ /\ call.pc = "enable" /\ host.now # Absent
               /\ host' \in {host, [host EXCEPT !.unit = TRUE]}
            \/ /\ call.pc = "enable" /\ host.kind # "nftables"
               /\ host' = [host EXCEPT !.now = host.files, !.on = TRUE]
            \/ host.kind = "nftables" /\ host' = host
            \/ call.pc = "wanted" /\ host' = [host EXCEPT !.unit = TRUE]
  BY DEF Firewall!Enable, Firewall!Wanted
<1>3. CASE call' = Firewall!Ends("failed")
  <2>1. call'.pc = "idle" /\ call'.result = "failed"  BY <1>1, <1>3, FwCalls
  <2> QED  BY <2>1, FwStops
<1>4. CASE call' \in {Firewall!Goto("refusal"), [Firewall!Goto("refusal") EXCEPT !.ok = FALSE],
                      Firewall!Goto("wanted")}
           /\ ~(call' = Firewall!Ends("failed"))
  <2>1. /\ call'.pc \in {"refusal", "wanted"} /\ call'.result = "none"
        /\ call'.quiet = call.quiet /\ call'.wrote = call.wrote
    <3>1. CASE call' = Firewall!Goto("wanted")  BY <1>1, <3>1, FwCallsKeep
    <3>2. CASE call' \in {Firewall!Goto("refusal"), [Firewall!Goto("refusal") EXCEPT !.ok = FALSE]}
      BY <1>1, <3>2, FwCallsKeep
    <3> QED  BY <1>4, <3>1, <3>2
  <2>2. host.kind # "nftables" => host.files # Absent  BY DEF FwInv, Firewall!Keeps
  <2>3. (call'.quiet /\ host'.kind = "ufw") => host'.now # Absent
    <3>1. CASE call.pc = "enable" /\ host.now # Absent /\ host' \in {host, [host EXCEPT !.unit = TRUE]}
      BY <1>1, <3>1 DEF Firewall!Host
    <3>2. CASE call.pc = "enable" /\ host.kind # "nftables"
               /\ host' = [host EXCEPT !.now = host.files, !.on = TRUE]
      BY <1>1, <2>2, <3>2 DEF Firewall!Host
    <3>3. CASE host.kind = "nftables" /\ host' = host  BY <3>3
    <3>4. CASE call.pc = "wanted" /\ host' = [host EXCEPT !.unit = TRUE]
      <4>1. host'.kind = host.kind /\ host'.now = host.now  BY <1>1, <3>4 DEF Firewall!Host
      <4> QED  BY <2>1, <3>4, <4>1 DEF FwKept
    <3> QED  BY <1>2, <1>4, <3>1, <3>2, <3>3, <3>4
  <2> QED  BY <1>1, <2>1, <2>3 DEF FwKept, Firewall!SuccessMeansKept, Firewall!SessionSurvives
<1> QED  BY <1>2, <1>3, <1>4

\* The default comes after the rule of the session, and neither is implied.
LEMMA FwRulesAre ==
  ASSUME HardeningAssumption
  PROVE  /\ FirewallParams.SshRule # FirewallParams.DropRule
         /\ \A kind \in {"ufw", "firewalld", "nftables"} :
              /\ FirewallParams.SshRule \notin FirewallParams.Implicit[kind]
              /\ FirewallParams.DropRule \notin FirewallParams.Implicit[kind]
         /\ \A i \in DOMAIN FirewallParams.Rules :
              i \in Nat \ {0} /\ 1 .. i \subseteq DOMAIN FirewallParams.Rules
         /\ \E i \in DOMAIN FirewallParams.Rules : FirewallParams.Rules[i] = FirewallParams.DropRule
         /\ \A i, j \in DOMAIN FirewallParams.Rules :
              (/\ FirewallParams.Rules[i] = FirewallParams.SshRule
               /\ FirewallParams.Rules[j] = FirewallParams.DropRule) => i < j
<1>1. Firewall!FirewallAssumption  BY HardeningAssumption
<1>2. \A i \in DOMAIN FirewallParams.Rules :
         i \in Nat \ {0} /\ 1 .. i \subseteq DOMAIN FirewallParams.Rules
  BY <1>1 DEF Firewall!FirewallAssumption
<1>3. PICK d \in DOMAIN FirewallParams.Rules : FirewallParams.Rules[d] = FirewallParams.DropRule
  BY <1>1 DEF Firewall!FirewallAssumption
<1>4. \A i, j \in DOMAIN FirewallParams.Rules :
         (/\ FirewallParams.Rules[i] = FirewallParams.SshRule
          /\ FirewallParams.Rules[j] = FirewallParams.DropRule) => i < j
  BY <1>1 DEF Firewall!FirewallAssumption
<1>5. FirewallParams.SshRule # FirewallParams.DropRule
  <2>1. d \in Nat /\ ~(d < d)  BY <1>2
  <2> QED  BY <1>3, <1>4, <2>1
<1>6. \A kind \in {"ufw", "firewalld", "nftables"} :
         /\ FirewallParams.SshRule \notin FirewallParams.Implicit[kind]
         /\ FirewallParams.DropRule \notin FirewallParams.Implicit[kind]
  BY <1>1 DEF Firewall!FirewallAssumption
<1> QED  BY <1>2, <1>3, <1>4, <1>5, <1>6

LEMMA FwRefusesKept ==
  ASSUME HardeningAssumption, FwInv, FwKept, Firewall!Refuse
  PROVE  FwKept'
<1>1. /\ host \in Firewall!Host /\ call \in FwCall /\ call.result = "none" /\ host' = host
      /\ call.pc = "refusal" /\ ~call.wrote
  BY DEF FwInv, FwType, FwKept, Firewall!Refuse
<1>2. CASE Firewall!Refused(call.config, FwRemote)
  <2>1. call' = Firewall!Ends("refused")  BY <1>2 DEF Firewall!Refuse, FwRemote
  <2>2. call'.pc = "idle" /\ call'.result = "refused"  BY <1>1, <2>1, FwCalls
  <2> QED  BY <2>2, FwStops
<1>3. CASE ~Firewall!Refused(call.config, FwRemote) /\ host.kind = "nftables"
  <2>1. call' = Firewall!Goto("check")  BY <1>3 DEF Firewall!Refuse, FwRemote
  <2>2. /\ call'.pc = "check" /\ call'.config = call.config /\ call'.via = call.via
        /\ call'.result = "none"
    BY <1>1, <2>1, FwCallsKeep
  <2>3. ~Firewall!Refused(call'.config, FwRemote')  BY <1>3, <2>2 DEF FwRemote
  <2> QED
    BY <1>1, <1>3, <2>2, <2>3 DEF FwKept, Firewall!SuccessMeansKept, Firewall!SessionSurvives
<1>4. CASE ~Firewall!Refused(call.config, FwRemote) /\ host.kind # "nftables"
  <2>1. call' = [Firewall!Goto("rule") EXCEPT !.before = host.files]
    BY <1>4 DEF Firewall!Refuse, FwRemote
  <2>2. /\ call'.pc = "rule" /\ call'.config = call.config /\ call'.via = call.via
        /\ call'.result = "none" /\ call'.step = 1 /\ call'.wrote = call.wrote
        /\ call'.quiet = call.quiet /\ call'.before = host.files
    BY <1>1, <2>1, FwStarts
  <2>3. ~Firewall!Refused(call'.config, FwRemote')  BY <1>4, <2>2 DEF FwRemote
  <2>4. FwBehind'
    <3>1. \A i \in DOMAIN FirewallParams.Rules : ~(i < call'.step)
      BY <2>2, FwRulesAre
    <3> QED  BY <3>1 DEF FwBehind, Firewall!Applied, Firewall!Accepting
  <2>5. (call'.quiet /\ host'.kind = "ufw") => host'.now # Absent
    BY <1>1, <2>2 DEF FwKept
  <2>6. FwSince'
    <3>1. host.files \in Firewall!Policy
      <4>1. host.files # Absent  BY <1>4 DEF FwInv, Firewall!Keeps
      <4> QED  BY <1>1, <4>1 DEF Firewall!Host
    <3> QED  BY <1>1, <2>2, <3>1 DEF FwSince
  <2> QED
    BY <1>1, <2>2, <2>3, <2>4, <2>5, <2>6
    DEF FwKept, Firewall!SuccessMeansKept, Firewall!SessionSurvives
<1> QED  BY <1>2, <1>3, <1>4

\* The sizes of sets are those of the library.
LEMMA FwCounts ==
  /\ \A S : Firewall!IsFiniteSet(S) <=> IsFiniteSet(S)
  /\ \A S : Firewall!Cardinality(S) = Cardinality(S)
<1>1. ASSUME NEW S PROVE Firewall!IsFiniteSet(S) <=> IsFiniteSet(S)
  BY Zenon DEF Firewall!IsFiniteSet, IsFiniteSet
<1>2. ASSUME NEW S PROVE Firewall!Cardinality(S) = Cardinality(S)
  BY Zenon DEF Firewall!Cardinality, Cardinality
<1> QED  BY <1>1, <1>2

\* The default drops all there is, whatever it was overridden to.
LEMMA FwDefault ==
  ASSUME HardeningAssumption, NEW config \in FirewallParams.Configs
  PROVE  /\ Firewall!Action(config, FirewallParams.DropRule) # "accept"
         /\ Firewall!Matches(config, FirewallParams.DropRule) = FirewallParams.Traffic
         /\ Firewall!SetsDefault("ufw", config, FirewallParams.DropRule)
         /\ Firewall!Action(config, FirewallParams.DropRule) = "drop" =>
              Firewall!SetsDefault("firewalld", config, FirewallParams.DropRule)
<1> DEFINE r == FirewallParams.DropRule
           asked == config.matches[r]
           T == FirewallParams.Traffic
<1>1. /\ IsFiniteSet(T) /\ FirewallParams.Baseline[r].action = "drop"
      /\ FirewallParams.Baseline[r].matches = T /\ asked \in {Absent} \cup SUBSET T
  <2>1. Firewall!FirewallAssumption  BY HardeningAssumption
  <2>2. PICK d \in DOMAIN FirewallParams.Rules : FirewallParams.Rules[d] = r  BY FwRulesAre
  <2>3. asked \in {Absent} \cup SUBSET T  BY <2>1, <2>2 DEF Firewall!FirewallAssumption
  <2>4. IsFiniteSet(T)
    <3>1. Firewall!IsFiniteSet(T)  BY <2>1 DEF Firewall!FirewallAssumption
    <3> QED  BY <3>1, FwCounts
  <2>5. FirewallParams.Baseline[r] = [action |-> "drop", matches |-> T]
    BY <2>1, Zenon DEF Firewall!FirewallAssumption
  <2> QED  BY <2>3, <2>4, <2>5
<1>2. Firewall!Action(config, r) # "accept"  BY <1>1 DEF Firewall!Action
<1>3. ASSUME asked # Absent, Cardinality(asked) >= Cardinality(T) PROVE asked = T
  <2>1. asked \in SUBSET T  BY <1>1, <1>3
  <2>2. /\ IsFiniteSet(asked) /\ Cardinality(asked) <= Cardinality(T)
        /\ Cardinality(T) = Cardinality(asked) => T = asked
    BY <1>1, <2>1, FS_Subset
  <2>3. Cardinality(asked) \in Nat /\ Cardinality(T) \in Nat
    BY <1>1, <2>2, FS_CardinalityType
  <2> QED  BY <1>3, <2>2, <2>3
<1>4. Firewall!Matches(config, r) = T
  <2> DEFINE m == Firewall!Matches(config, r)
             c == Firewall!Cardinality(asked)
             w == Firewall!Cardinality(T)
  <2>0. m = IF asked # Absent /\ c >= w THEN asked ELSE T
    <3>1. m = IF /\ asked # Absent
                 /\ IF Firewall!Action(config, r) = "accept" THEN c <= w ELSE c >= w
              THEN asked ELSE T
      BY <1>1, Zenon DEF Firewall!Matches
    <3> HIDE DEF m, c, w, asked
    <3> QED  BY <1>2, <3>1
  <2> HIDE DEF m, c, w
  <2>1. m = T \/ (m = asked /\ asked # Absent /\ c >= w)  BY <2>0
  <2>2. c = Cardinality(asked) /\ w = Cardinality(T)  BY FwCounts DEF c, w
  <2> QED  BY <1>3, <2>1, <2>2 DEF m
<1>5. Firewall!AnySource(T) = T  BY DEF Firewall!AnySource
<1> QED  BY <1>2, <1>4, <1>5 DEF Firewall!SetsDefault

\* A command takes nothing from the session that no rule denies, nor the default.
FwCarried(kind, policy, config, r, accepted, denied, kept) ==
    /\ policy.drop => kept.drop
    /\ Firewall!SetsDefault(kind, config, r) => kept.drop
    /\ policy.admits \ Firewall!Denied(kind, config) \subseteq kept.admits
    /\ kept.denies \subseteq denied \cup Firewall!Denied(kind, config)
    /\ (accepted /\ r = FirewallParams.SshRule) =>
          Firewall!Matches(config, FirewallParams.SshRule)
            \ (Firewall!Denied(kind, config) \cup denied) \subseteq kept.admits

LEMMA FwCommands ==
  ASSUME HardeningAssumption, NEW config \in FirewallParams.Configs,
         NEW i \in Firewall!Applied(config), NEW policy \in Firewall!Policy,
         NEW kind \in {"ufw", "firewalld"}, NEW denied,
         policy.denies \subseteq denied \cup Firewall!Denied(kind, config),
         Firewall!Commanded(kind, config, FirewallParams.Rules[i]),
         NEW kept \in Firewall!Ruled(kind, policy, config, FirewallParams.Rules[i])
  PROVE  FwCarried(kind, policy, config, FirewallParams.Rules[i],
                   i \in Firewall!Accepting(config), denied, kept)
<1> DEFINE r == FirewallParams.Rules[i]
           m == Firewall!Matches(config, r)
           against == Firewall!Denied(kind, config)
           session == Firewall!Matches(config, FirewallParams.SshRule) \ (against \cup denied)
           sets == Firewall!SetsDefault(kind, config, r)
<1>1. i \in DOMAIN FirewallParams.Rules /\ m \in SUBSET FirewallParams.Traffic
  <2>1. i \in DOMAIN FirewallParams.Rules  BY DEF Firewall!Applied
  <2> QED  BY <2>1, HardeningAssumption, FwMatches
<1>2. \/ sets /\ kept = [policy EXCEPT !.drop = TRUE]
      \/ /\ ~sets
         /\ \/ kind = "ufw" /\ Firewall!Action(config, r) # "accept"
               /\ \E S \in {m \ policy.admits, m} : kept = Firewall!Deny(policy, S)
            \/ \E S \in SUBSET FirewallParams.Traffic :
                  m \ policy.denies \subseteq S /\ kept = Firewall!Admit(policy, S)
  <2>1. r = FirewallParams.Rules[i] /\ m = Firewall!Matches(config, r)  OBVIOUS
  <2>2. kept \in Firewall!Ruled(kind, policy, config, r)  OBVIOUS
  <2>3. sets = Firewall!SetsDefault(kind, config, r)  OBVIOUS
  <2> HIDE DEF m, r, sets
  <2>4. \/ sets /\ kept = [policy EXCEPT !.drop = TRUE]
        \/ /\ ~sets /\ kind = "ufw" /\ Firewall!Action(config, r) # "accept"
           /\ \E S \in {m \ policy.admits, m} : kept = Firewall!Deny(policy, S)
        \/ /\ ~sets
           /\ \E S \in SUBSET FirewallParams.Traffic :
                 m \ policy.denies \subseteq S /\ kept = Firewall!Admit(policy, S)
    <3>1. FwOutcome(kind, policy, config, r, m, kept)
      BY <1>1, <2>1, <2>2, HardeningAssumption, FwRuled
    <3> QED  BY <2>3, <3>1, Zenon DEF FwOutcome
  <2> QED  BY <2>4, Zenon
<1>3. CASE sets /\ kept = [policy EXCEPT !.drop = TRUE]
  <2>1. /\ kept.drop /\ kept.admits = policy.admits /\ kept.denies = policy.denies
    BY <1>3 DEF Firewall!Policy
  <2>2. ~(i \in Firewall!Accepting(config) /\ r = FirewallParams.SshRule)
    <3>1. i \in Firewall!Accepting(config) => Firewall!Action(config, r) = "accept"
      BY DEF Firewall!Accepting
    <3>2. r = FirewallParams.SshRule => r # FirewallParams.DropRule  BY FwRulesAre
    <3> QED  BY <1>3, <3>1, <3>2 DEF Firewall!SetsDefault
  <2> QED  BY <2>1, <2>2 DEF FwCarried
<1>4. CASE /\ ~sets /\ kind = "ufw" /\ Firewall!Action(config, r) # "accept"
           /\ \E S \in {m \ policy.admits, m} : kept = Firewall!Deny(policy, S)
  <2>1. PICK S \in {m \ policy.admits, m} : kept = Firewall!Deny(policy, S)  BY <1>4
  <2>2. S \in SUBSET FirewallParams.Traffic /\ S \subseteq m  BY <1>1, <2>1
  <2>3. /\ kept.drop = policy.drop /\ kept.admits = policy.admits \ S
        /\ kept.denies = policy.denies \cup S
    BY <2>1, <2>2, FwDecides
  <2>4. i \notin Firewall!Accepting(config)  BY <1>4 DEF Firewall!Accepting
  <2>5. r \notin FirewallParams.Implicit[kind] \cup {FirewallParams.DropRule}
    BY <1>4 DEF Firewall!Commanded, Firewall!SetsDefault
  <2>6. m \subseteq against  BY <1>4, <2>4, <2>5 DEF Firewall!Denied
  <2> HIDE DEF m, against, sets
  <2>7. /\ policy.admits \ against \subseteq kept.admits
        /\ kept.denies \subseteq denied \cup against
    BY <2>2, <2>3, <2>6 DEF against
  <2> QED  BY <1>4, <2>3, <2>4, <2>7 DEF m, against, sets, FwCarried
<1>5. CASE /\ ~sets
           /\ \E S \in SUBSET FirewallParams.Traffic :
                 m \ policy.denies \subseteq S /\ kept = Firewall!Admit(policy, S)
  <2>1. PICK S \in SUBSET FirewallParams.Traffic :
           m \ policy.denies \subseteq S /\ kept = Firewall!Admit(policy, S)
    BY <1>5
  <2>2. /\ kept.drop = policy.drop /\ kept.admits = policy.admits \cup S
        /\ kept.denies = policy.denies \ S
    BY <2>1, FwDecides
  <2>3. r = FirewallParams.SshRule => session \subseteq m \ policy.denies  OBVIOUS
  <2> HIDE DEF m, against, sets, session
  <2>4. /\ policy.admits \ against \subseteq kept.admits
        /\ kept.denies \subseteq denied \cup against
        /\ r = FirewallParams.SshRule => session \subseteq kept.admits
    BY <2>1, <2>2, <2>3 DEF against
  <2> QED  BY <1>5, <2>2, <2>4 DEF m, against, sets, session, FwCarried
<1> QED  BY <1>2, <1>3, <1>4, <1>5

\* What was left alone was so before the first command.
LEMMA FwSkips ==
  ASSUME HardeningAssumption, FwSince, host.kind \in {"ufw", "firewalld"},
         call.config \in FirewallParams.Configs,
         NEW i \in Firewall!Applied(call.config),
         \/ ~Firewall!Commanded(host.kind, call.config, FirewallParams.Rules[i])
         \/ Firewall!Needless(host.kind, call.before, call.config, FirewallParams.Rules[i])
  PROVE  /\ (/\ FirewallParams.Rules[i] = FirewallParams.DropRule
             /\ host.kind = "firewalld" =>
                  Firewall!Action(call.config, FirewallParams.DropRule) = "drop")
               => host.files.drop
         /\ (/\ i \in Firewall!Accepting(call.config)
             /\ FirewallParams.Rules[i] = FirewallParams.SshRule)
               => host.kind # "ufw" /\ FwSession \subseteq host.files.admits
<1> DEFINE r == FirewallParams.Rules[i]
           m == Firewall!Matches(call.config, r)
           before == call.before
<1>1. /\ i \in DOMAIN FirewallParams.Rules /\ before \in Firewall!Policy
      /\ before.drop => host.files.drop
      /\ before.admits \ FwDenied \subseteq host.files.admits
  BY DEF Firewall!Applied, FwSince
<1>2. ASSUME r = FirewallParams.DropRule,
             host.kind = "firewalld" =>
               Firewall!Action(call.config, FirewallParams.DropRule) = "drop"
      PROVE  host.files.drop
  <2>1. Firewall!SetsDefault(host.kind, call.config, r)  BY <1>2, FwDefault
  <2>2. r \notin FirewallParams.Implicit[host.kind]  BY <1>2, FwRulesAre
  <2>3. Firewall!Commanded(host.kind, call.config, r)  BY <2>1, <2>2 DEF Firewall!Commanded
  <2>4. before \in Firewall!Ruled(host.kind, before, call.config, r)
    BY <2>3 DEF Firewall!Needless
  <2>5. before = [before EXCEPT !.drop = TRUE]  BY <2>1, <2>4 DEF Firewall!Ruled
  <2>6. [before EXCEPT !.drop = TRUE].drop  BY <1>1 DEF Firewall!Policy
  <2> QED  BY <1>1, <2>5, <2>6
<1>3. ASSUME i \in Firewall!Accepting(call.config), r = FirewallParams.SshRule
      PROVE  host.kind # "ufw" /\ FwSession \subseteq host.files.admits
  <2>1. /\ Firewall!Action(call.config, r) = "accept" /\ r # FirewallParams.DropRule
        /\ r \notin FirewallParams.Implicit[host.kind]
    BY <1>3, FwRulesAre DEF Firewall!Accepting
  <2>2. /\ ~Firewall!SetsDefault(host.kind, call.config, r)
        /\ Firewall!Commanded(host.kind, call.config, r)
    BY <2>1 DEF Firewall!SetsDefault, Firewall!Commanded
  <2>3. host.kind = "firewalld" /\ before \in Firewall!Ruled(host.kind, before, call.config, r)
    BY <2>2 DEF Firewall!Needless
  <2>4. PICK S \in SUBSET FirewallParams.Traffic :
           m \ before.denies \subseteq S /\ before = Firewall!Admit(before, S)
    <3>1. r = FirewallParams.Rules[i] /\ m = Firewall!Matches(call.config, r)  OBVIOUS
    <3> HIDE DEF m, r, before
    <3>2. FwOutcome(host.kind, before, call.config, r, m, before)
      BY <1>1, <2>3, <3>1, HardeningAssumption, FwRuled
    <3> QED  BY <2>1, <2>2, <2>3, <3>2 DEF FwOutcome
  <2>5. before.admits = before.admits \cup S
    <3> HIDE DEF before, m
    <3>1. before \in Firewall!Policy  BY <1>1
    <3>2. Firewall!Admit(before, S).admits = before.admits \cup S
      BY <3>1 DEF Firewall!Admit, Firewall!Policy
    <3> QED  BY <2>4, <3>2
  <2>6. FwSession \subseteq m \ before.denies /\ FwSession \cap FwDenied = {}
    BY <1>3, <2>3 DEF FwSession, Firewall!DeniedBefore
  <2> HIDE DEF m, before
  <2>7. FwSession \subseteq before.admits \ FwDenied  BY <2>4, <2>5, <2>6
  <2> QED  BY <1>1, <2>3, <2>7
<1> QED  BY <1>2, <1>3

LEMMA FwRulesKept ==
  ASSUME HardeningAssumption, FwInv, FwKept, Firewall!ApplyRule
  PROVE  FwKept'
<1>1. /\ host \in Firewall!Host /\ call \in FwCall /\ call.result = "none" /\ call.pc = "rule"
      /\ host.kind \in {"ufw", "firewalld"} /\ call.step \in DOMAIN FirewallParams.Rules
      /\ call.step \in Nat \ {0} /\ host.files \in Firewall!Policy
      /\ call.config \in FirewallParams.Configs /\ FwSince
  <2>1. /\ host \in Firewall!Host /\ call \in FwCall /\ call.result = "none" /\ call.pc = "rule"
        /\ host.kind # "nftables" /\ call.step \in DOMAIN FirewallParams.Rules
        /\ host.files # Absent /\ call.step \in Nat \ {0} /\ FwSince
    BY DEF FwInv, FwType, FwKept, Firewall!ApplyRule, Firewall!Keeps
  <2> QED  BY <2>1 DEF Firewall!Host, FwCall
<1> DEFINE r == FirewallParams.Rules[call.step]
           ruled == Firewall!Ruled(host.kind, host.files, call.config, r)
           next == [call EXCEPT !.step = @ + 1]
           issued == /\ call.step \in Firewall!Applied(call.config)
                     /\ Firewall!Commanded(host.kind, call.config, r)
           skipped == ~issued \/ Firewall!Needless(host.kind, call.before, call.config, r)
<1>2. \/ skipped /\ call' = next /\ host' = host
      \/ /\ issued /\ call' = [next EXCEPT !.wrote = TRUE]
         /\ \E kept \in ruled :
               host' = [host EXCEPT !.files = kept,
                           !.now = IF host.kind = "ufw" /\ @ # Absent THEN kept ELSE @]
      \/ issued /\ call' = [next EXCEPT !.ok = FALSE] /\ host' = host
  BY Zenon DEF Firewall!ApplyRule
<1>3. \A kept \in ruled : kept \in Firewall!Policy /\ kept # Absent
  <2>1. ruled \subseteq Firewall!Policy  BY <1>1, FwPolicies
  <2> QED  BY <2>1, HardeningAssumption DEF Firewall!FirewallAssumption
<1>4. /\ next \in FwCall /\ next.pc = "rule" /\ next.result = "none"
      /\ next.step = call.step + 1 /\ next.config = call.config /\ next.via = call.via
      /\ next.quiet = call.quiet /\ next.ok = call.ok /\ next.wrote = call.wrote
      /\ next.before = call.before
  <2> DEFINE step == call.step + 1
  <2>1. step \in Nat  BY <1>1
  <2>2. next = [call EXCEPT !.step = step]  OBVIOUS
  <2> HIDE DEF step, next
  <2>3. /\ next \in FwCall /\ next.pc = "rule" /\ next.result = "none"
        /\ next.step = step /\ next.config = call.config /\ next.via = call.via
        /\ next.quiet = call.quiet /\ next.ok = call.ok /\ next.wrote = call.wrote
        /\ next.before = call.before
    BY <1>1, <2>1, <2>2 DEF FwCall
  <2> QED  BY <2>3 DEF step
<1> HIDE DEF next, ruled
<1>5. /\ call'.pc = "rule" /\ call'.result = "none" /\ call'.step = call.step + 1
      /\ call'.config = call.config /\ call'.via = call.via /\ call'.quiet = call.quiet
      /\ call'.ok => call.ok
      /\ call'.wrote = (call.wrote \/ call' = [next EXCEPT !.wrote = TRUE])
      /\ call'.before = call.before
  BY <1>2, <1>4 DEF FwCall
<1>6. ~Firewall!Refused(call'.config, FwRemote') /\ call'.step \in Nat \ {0}
  BY <1>1, <1>5 DEF FwKept, FwRemote
<1>7. ASSUME issued, call' = [next EXCEPT !.wrote = TRUE], NEW kept \in ruled,
             host' = [host EXCEPT !.files = kept,
                         !.now = IF host.kind = "ufw" /\ @ # Absent THEN kept ELSE @]
      PROVE  FwKept'
  <2> DEFINE now == IF host.kind = "ufw" /\ host.now # Absent THEN kept ELSE host.now
  <2>1. host' = [host EXCEPT !.files = kept, !.now = now]  BY <1>7
  <2>2. now \in Firewall!Policy \cup {Absent}  BY <1>1, <1>3 DEF Firewall!Host
  <2>3. /\ host.kind = "ufw" /\ host.now # Absent => now = kept
        /\ host.now # Absent => now # Absent
    BY <1>3
  <2> HIDE DEF now
  <2>4. /\ host'.kind = host.kind /\ host'.files = kept /\ host'.now = now
    BY <1>1, <1>3, <2>1, <2>2 DEF Firewall!Host
  <2>5. (call'.quiet /\ host'.kind = "ufw") => (host'.now # Absent /\ host'.now = host'.files)
    BY <1>1, <1>5, <2>3, <2>4 DEF FwKept
  <2>6. call'.wrote  BY <1>5, <1>7
  <2>7. call.step \in Firewall!Applied(call.config)  BY <1>7
  <2>8. /\ host.files.drop => kept.drop
        /\ Firewall!SetsDefault(host.kind, call.config, r) => kept.drop
        /\ host.files.admits \ FwDenied \subseteq kept.admits
        /\ kept.denies \subseteq call.before.denies \cup FwDenied
        /\ (call.step \in Firewall!Accepting(call.config) /\ r = FirewallParams.SshRule) =>
              FwSession \subseteq kept.admits
    <3> DEFINE denied == call.before.denies
    <3>1. host.files.denies \subseteq denied \cup Firewall!Denied(host.kind, call.config)
      BY <1>1 DEF FwSince, FwDenied
    <3>2. kept \in Firewall!Ruled(host.kind, host.files, call.config, r)  BY DEF ruled
    <3>3. FwSession = Firewall!Matches(call.config, FirewallParams.SshRule)
                        \ (Firewall!Denied(host.kind, call.config) \cup denied)
      BY <1>1 DEF FwSession, FwDenied, Firewall!DeniedBefore
    <3> DEFINE kind == host.kind
               config == call.config
               policy == host.files
               i == call.step
    <3>4. /\ config \in FirewallParams.Configs /\ i \in Firewall!Applied(config)
          /\ policy \in Firewall!Policy /\ kind \in {"ufw", "firewalld"}
          /\ policy.denies \subseteq denied \cup Firewall!Denied(kind, config)
          /\ Firewall!Commanded(kind, config, FirewallParams.Rules[i])
          /\ kept \in Firewall!Ruled(kind, policy, config, FirewallParams.Rules[i])
      BY <1>1, <1>7, <2>7, <3>1, <3>2
    <3> HIDE DEF denied, kind, config, policy, i
    <3>5. FwCarried(kind, policy, config, FirewallParams.Rules[i],
                    i \in Firewall!Accepting(config), denied, kept)
      BY <3>4, HardeningAssumption, FwCommands
    <3> QED  BY <3>3, <3>5 DEF FwCarried, FwDenied, denied, kind, config, policy, i
  <2>9. FwDenied' = FwDenied /\ FwSession' = FwSession
    BY <1>5, <2>4 DEF FwSession, FwDenied, Firewall!DeniedBefore
  <2>10. FwSince'
    <3>1. FwSession \subseteq FwSession /\ call.before.admits \ FwDenied \subseteq kept.admits
      BY <1>1, <2>8 DEF FwSince
    <3> QED  BY <1>1, <1>5, <2>4, <2>8, <2>9, <3>1 DEF FwSince
  <2>11. call'.ok => FwBehind'
    <3> SUFFICES ASSUME call'.ok PROVE FwBehind'  OBVIOUS
    <3>1. FwBehind  BY <1>1, <1>5 DEF FwKept
    <3>2. FwSession \cap FwDenied = {}  BY DEF FwSession
    <3>3. ASSUME NEW i \in Firewall!Applied(call.config), i < call.step + 1,
                 FirewallParams.Rules[i] = FirewallParams.DropRule,
                 host.kind = "firewalld" =>
                   Firewall!Action(call.config, FirewallParams.DropRule) = "drop"
          PROVE  kept.drop
      <4>1. i \in Nat  BY FwRulesAre DEF Firewall!Applied
      <4>2. i < call.step \/ i = call.step  BY <1>1, <3>3, <4>1
      <4>3. CASE i < call.step  BY <2>8, <3>1, <3>3, <4>3 DEF FwBehind
      <4>4. CASE i = call.step
        <5>1. Firewall!SetsDefault(host.kind, call.config, r)
          BY <1>1, <3>3, <4>4, HardeningAssumption, FwDefault
        <5> QED  BY <2>8, <5>1
      <4> QED  BY <4>2, <4>3, <4>4
    <3>4. ASSUME NEW i \in Firewall!Accepting(call.config), i < call.step + 1,
                 FirewallParams.Rules[i] = FirewallParams.SshRule
          PROVE  FwSession \subseteq kept.admits
      <4>1. i \in Nat  BY FwRulesAre DEF Firewall!Applied, Firewall!Accepting
      <4>2. i < call.step \/ i = call.step  BY <1>1, <3>4, <4>1
      <4>3. CASE i < call.step
        <5>1. FwSession \subseteq host.files.admits  BY <3>1, <3>4, <4>3 DEF FwBehind
        <5> QED  BY <2>8, <3>2, <5>1
      <4>4. CASE i = call.step  BY <2>8, <3>4, <4>4
      <4> QED  BY <4>2, <4>3, <4>4
    <3> QED  BY <1>5, <2>4, <2>6, <2>9, <3>3, <3>4 DEF FwBehind
  <2> QED
    BY <1>1, <1>5, <1>6, <2>5, <2>10, <2>11
    DEF FwKept, Firewall!SuccessMeansKept, Firewall!SessionSurvives
<1>8. ASSUME host' = host PROVE FwSince' /\ FwSession' = FwSession
  BY <1>1, <1>5, <1>8 DEF FwSince, FwSession, FwDenied, Firewall!DeniedBefore
<1>9. CASE skipped /\ call' = next /\ host' = host
  <2>1. call'.wrote = call.wrote /\ call'.ok = call.ok  BY <1>4, <1>9
  <2>2. ASSUME call.step \in Firewall!Applied(call.config)
        PROVE  /\ (/\ r = FirewallParams.DropRule
                   /\ host.kind = "firewalld" =>
                        Firewall!Action(call.config, FirewallParams.DropRule) = "drop")
                     => host.files.drop
               /\ (call.step \in Firewall!Accepting(call.config) /\ r = FirewallParams.SshRule)
                     => host.kind # "ufw" /\ FwSession \subseteq host.files.admits
    BY <1>1, <1>9, <2>2, HardeningAssumption, FwSkips
  <2>3. call'.ok => FwBehind'
    <3> SUFFICES ASSUME call'.ok PROVE FwBehind'  OBVIOUS
    <3>1. FwBehind  BY <1>1, <1>5 DEF FwKept
    <3>2. ASSUME NEW i \in Firewall!Applied(call.config), i < call.step + 1,
                 FirewallParams.Rules[i] = FirewallParams.DropRule,
                 host.kind = "firewalld" =>
                   Firewall!Action(call.config, FirewallParams.DropRule) = "drop"
          PROVE  host.files.drop
      <4>1. i \in Nat  BY FwRulesAre DEF Firewall!Applied
      <4>2. i < call.step \/ i = call.step  BY <1>1, <3>2, <4>1
      <4> QED  BY <2>2, <3>1, <3>2, <4>2 DEF FwBehind
    <3>3. ASSUME NEW i \in Firewall!Accepting(call.config), i < call.step + 1,
                 FirewallParams.Rules[i] = FirewallParams.SshRule
          PROVE  FwSession \subseteq host.files.admits /\ (host.kind = "ufw" => call.wrote)
      <4>1. i \in Nat /\ i \in Firewall!Applied(call.config)
        BY FwRulesAre DEF Firewall!Applied, Firewall!Accepting
      <4>2. i < call.step \/ i = call.step  BY <1>1, <3>3, <4>1
      <4> QED  BY <2>2, <3>1, <3>3, <4>1, <4>2 DEF FwBehind
    <3> QED  BY <1>5, <1>8, <1>9, <2>1, <3>2, <3>3 DEF FwBehind
  <2> QED
    BY <1>1, <1>5, <1>6, <1>8, <1>9, <2>1, <2>3
    DEF FwKept, Firewall!SuccessMeansKept, Firewall!SessionSurvives
<1>10. CASE call' = [next EXCEPT !.ok = FALSE] /\ host' = host
  <2>1. call'.wrote = call.wrote /\ call'.ok = FALSE  BY <1>4, <1>10 DEF FwCall
  <2> QED
    BY <1>1, <1>5, <1>6, <1>8, <1>10, <2>1
    DEF FwKept, Firewall!SuccessMeansKept, Firewall!SessionSurvives
<1> QED  BY <1>2, <1>7, <1>9, <1>10

\* Where every rule is behind, what was to be in the files is.
LEMMA FwRulesEndKept ==
  ASSUME HardeningAssumption, FwInv, FwKept, Firewall!RulesDone
  PROVE  FwKept'
<1>1. /\ host \in Firewall!Host /\ call \in FwCall /\ call.pc = "rule"
      /\ host.kind \in {"ufw", "firewalld"} /\ call.step \notin DOMAIN FirewallParams.Rules
      /\ call.step \in Nat \ {0} /\ ~Firewall!Refused(call.config, FwRemote)
  <2>1. /\ host \in Firewall!Host /\ call \in FwCall /\ call.pc = "rule"
        /\ host.kind # "nftables" /\ call.step \notin DOMAIN FirewallParams.Rules
        /\ call.step \in Nat \ {0} /\ ~Firewall!Refused(call.config, FwRemote)
    BY DEF FwInv, FwType, FwKept, Firewall!RulesDone
  <2> QED  BY <2>1 DEF Firewall!Host
<1>2. CASE call' = Firewall!Ends("failed")
  <2>1. call'.pc = "idle" /\ call'.result = "failed"  BY <1>1, <1>2, FwCalls
  <2> QED  BY <2>1, FwStops
<1>3. CASE call' = Firewall!Done
  <2>1. /\ call'.pc = "idle" /\ call'.config = call.config /\ call'.via = call.via
        /\ call'.before = call.before
        /\ call'.quiet = call.quiet /\ call'.wrote = call.wrote
        /\ call'.result = "success" => call.ok
    BY <1>1, <1>3, FwCallsKeep
  <2> SUFFICES ASSUME call'.result = "success", call'.quiet PROVE FwKept'
    BY <2>1 DEF FwKept, Firewall!SuccessMeansKept, Firewall!SessionSurvives
  <2>2. \/ host' = host /\ (host.kind = "ufw" \/ ~call.wrote)
        \/ /\ host.kind = "firewalld" /\ call.wrote
           /\ host' = [host EXCEPT !.now = host.files]
    <3>1. ~(call' = Firewall!Ends("failed"))
      <4>1. Firewall!Ends("failed").result = "failed"  BY <1>1, FwCalls
      <4> QED  BY <4>1
    <3> QED  BY <3>1 DEF Firewall!RulesDone
  <2>3. host'.kind = host.kind /\ host'.files = host.files  BY <1>1, <2>2 DEF Firewall!Host
  <2>4. call'.wrote => host'.now = host'.files
    <3>1. CASE host' = host /\ (host.kind = "ufw" \/ ~call.wrote)
      BY <1>1, <2>1, <3>1 DEF FwKept
    <3>2. CASE host.kind = "firewalld" /\ host' = [host EXCEPT !.now = host.files]
      BY <1>1, <3>2 DEF Firewall!Host
    <3> QED  BY <2>2, <3>1, <3>2
  <2>5. \A i \in DOMAIN FirewallParams.Rules : i < call.step
    <3> SUFFICES ASSUME NEW i \in DOMAIN FirewallParams.Rules, call.step <= i PROVE FALSE
      BY <1>1, FwRulesAre
    <3>1. call.step \in 1 .. i  BY <1>1, FwRulesAre
    <3> QED  BY <1>1, <3>1, FwRulesAre
  <2>6. FwBehind /\ FwSince  BY <1>1, <2>1 DEF FwKept
  <2>7. (/\ FirewallParams.DropRule \notin call.config.exceptions
         /\ host.kind = "firewalld" =>
              Firewall!Action(call.config, FirewallParams.DropRule) = "drop") => host.files.drop
    <3>1. PICK i \in DOMAIN FirewallParams.Rules :
             FirewallParams.Rules[i] = FirewallParams.DropRule
      BY FwRulesAre
    <3> QED  BY <2>5, <2>6, <3>1 DEF FwBehind, Firewall!Applied
  <2>8. FwRemote => FwSession \subseteq host.files.admits /\ (host.kind = "ufw" => call.wrote)
    <3> SUFFICES ASSUME FwRemote
                 PROVE  FwSession \subseteq host.files.admits
                        /\ (host.kind = "ufw" => call.wrote)
      OBVIOUS
    <3>1. PICK i \in Firewall!Accepting(call.config) :
             FirewallParams.Rules[i] = FirewallParams.SshRule
      BY <1>1 DEF Firewall!Refused, FwRemote
    <3>2. i \in DOMAIN FirewallParams.Rules  BY DEF Firewall!Accepting, Firewall!Applied
    <3> QED  BY <2>5, <2>6, <3>1, <3>2 DEF FwBehind
  <2>9. Firewall!SuccessMeansKept'
    BY <1>1, <2>1, <2>3, <2>4, <2>7 DEF Firewall!SuccessMeansKept
  <2>10. Firewall!SessionSurvives'
    <3> SUFFICES ASSUME FwRemote, call.via \in FwSession
                 PROVE  call.via \in
                          Firewall!Passes(IF host'.kind = "firewalld" /\ ~call'.wrote
                                          THEN host'.files ELSE host'.now)
      BY <2>1, <2>3 DEF Firewall!SessionSurvives, FwSession, FwDenied, FwRemote
    <3>1. (IF host'.kind = "firewalld" /\ ~call'.wrote THEN host'.files ELSE host'.now)
             = host.files
      BY <1>1, <2>1, <2>3, <2>4, <2>8
    <3>2. host.files \in Firewall!Policy
      <4>1. host.files # Absent  BY <1>1 DEF FwInv, Firewall!Keeps
      <4> QED  BY <1>1, <4>1 DEF Firewall!Host
    <3>3. call.via \in host.files.admits /\ call.via \in FirewallParams.Traffic
      BY <2>8, <3>2 DEF Firewall!Policy
    <3>4. call.via \notin host.files.denies
      BY <1>1, <2>6 DEF FwSince, FwSession, Firewall!DeniedBefore
    <3>5. host.files # Absent  BY <3>2, HardeningAssumption DEF Firewall!FirewallAssumption
    <3> QED  BY <3>1, <3>3, <3>4, <3>5 DEF Firewall!Passes
  <2> QED  BY <2>1, <2>9, <2>10 DEF FwKept
<1> QED  BY <1>2, <1>3 DEF Firewall!RulesDone

\* What is rendered admits the session, for the default is the last rule.
LEMMA FwRenders ==
  ASSUME HardeningAssumption, call.config \in FirewallParams.Configs, FwRemote,
         host.kind = "nftables", ~Firewall!Refused(call.config, FwRemote)
  PROVE  FwSession \subseteq Firewall!Passes(Firewall!Rendered(call.config))
<1> DEFINE rendered == Firewall!Rendered(call.config)
<1>1. PICK i \in Firewall!Accepting(call.config) :
         FirewallParams.Rules[i] = FirewallParams.SshRule
  BY DEF Firewall!Refused, FwRemote
<1>2. i \in DOMAIN FirewallParams.Rules /\ i \in Firewall!Applied(call.config)
  BY DEF Firewall!Accepting, Firewall!Applied
<1>3. FwSession \subseteq FirewallParams.Traffic
  <2>1. Firewall!Matches(call.config, FirewallParams.SshRule) \subseteq FirewallParams.Traffic
    BY <1>1, <1>2, HardeningAssumption, FwMatches
  <2> QED  BY <2>1 DEF FwSession
<1>4. ASSUME NEW x \in FwSession, NEW j \in Firewall!Applied(call.config), j < i,
             ~Firewall!Admits(call.config, j)
      PROVE  x \notin Firewall!Hits(call.config, j)
  <2>1. j \in DOMAIN FirewallParams.Rules  BY DEF Firewall!Applied
  <2>2. FirewallParams.Rules[j] # FirewallParams.DropRule
    <3>1. i \in Nat /\ j \in Nat  BY <1>2, <2>1, FwRulesAre
    <3>2. ~(i < j)  BY <1>4, <3>1
    <3> QED  BY <1>1, <1>2, <2>1, <3>2, FwRulesAre
  <2>3. /\ FirewallParams.Rules[j] \notin FirewallParams.Implicit["nftables"]
        /\ j \notin Firewall!Accepting(call.config)
        /\ Firewall!Hits(call.config, j)
              = Firewall!Matches(call.config, FirewallParams.Rules[j])
    BY <1>4 DEF Firewall!Admits, Firewall!Fixed, Firewall!Accepting, Firewall!Hits
  <2>4. Firewall!Hits(call.config, j) \subseteq FwDenied
    BY <2>2, <2>3 DEF FwDenied, Firewall!Denied
  <2> QED  BY <2>4 DEF FwSession
<1>5. /\ Firewall!Admits(call.config, i)
      /\ \A x \in FwSession : x \in Firewall!Hits(call.config, i)
  <2>1. FirewallParams.Rules[i] \notin FirewallParams.Implicit["nftables"]
    BY <1>1, FwRulesAre
  <2> QED
    BY <1>1, <2>1
    DEF Firewall!Admits, Firewall!Hits, Firewall!Fixed, Firewall!Accepting, FwSession
<1>6. FwSession \subseteq rendered.admits
  <2>1. rendered.admits =
          {x \in FirewallParams.Traffic : \E k \in Firewall!Applied(call.config) :
             /\ Firewall!Admits(call.config, k) /\ x \in Firewall!Hits(call.config, k)
             /\ \A j \in Firewall!Applied(call.config) :
                  (j < k /\ ~Firewall!Admits(call.config, j)) =>
                     x \notin Firewall!Hits(call.config, j)}
    BY DEF Firewall!Rendered
  <2> QED  BY <1>2, <1>3, <1>4, <1>5, <2>1
<1>7. rendered.drop /\ rendered # Absent
  <2>1. rendered \in Firewall!Policy  BY HardeningAssumption, FwPolicies
  <2> QED  BY <2>1, HardeningAssumption DEF Firewall!FirewallAssumption, Firewall!Rendered
<1> QED  BY <1>6, <1>7 DEF Firewall!Passes

LEMMA FwLoadsKept ==
  ASSUME HardeningAssumption, FwInv, FwKept,
         \/ Firewall!NftCheck \/ Firewall!NftFragment \/ Firewall!NftInclude \/ Firewall!NftLoad
  PROVE  FwKept'
<1>1. /\ host \in Firewall!Host /\ call \in FwCall /\ call.result = "none"
      /\ call.pc \in {"check", "fragment", "include", "load"}
      /\ host.kind = "nftables" /\ ~Firewall!Refused(call.config, FwRemote)
      /\ call.config \in FirewallParams.Configs
  <2>1. call.pc \in {"check", "fragment", "include", "load"}
    BY DEF Firewall!NftCheck, Firewall!NftFragment, Firewall!NftInclude, Firewall!NftLoad,
           Firewall!NftStep
  <2>2. call.config \in FirewallParams.Configs  BY DEF FwInv, FwType, FwCall
  <2> QED  BY <2>1, <2>2 DEF FwInv, FwType, FwKept
<1> DEFINE policy == Firewall!Rendered(call.config)
<1>2. /\ policy \in Firewall!Policy /\ policy.drop = TRUE
      /\ FwRemote => FwSession \subseteq Firewall!Passes(policy)
  <2>1. policy.drop = TRUE  BY DEF Firewall!Rendered
  <2> QED  BY <1>1, <2>1, FwPolicies, FwRenders
<1> HIDE DEF policy
<1>3. \/ call' = Firewall!Ends("failed")
      \/ call' = Firewall!Goto("fragment") /\ host' = host
      \/ call' = Firewall!Goto("include") /\ host' = [host EXCEPT !.files = policy]
      \/ /\ call' = Firewall!Goto("load") /\ call.pc = "include"
         /\ host' = [host EXCEPT !.on = TRUE, !.boot = "there"]
      \/ /\ call' = Firewall!Done /\ call.pc = "load"
         /\ host' = [host EXCEPT !.now = host.files]
      \/ /\ call' = [Firewall!Done EXCEPT !.persists = FALSE]
         /\ host' = [host EXCEPT !.now = policy]
  BY DEF Firewall!NftCheck, Firewall!NftFragment, Firewall!NftInclude, Firewall!NftLoad,
         Firewall!NftStep, policy
<1>4. CASE call' = Firewall!Ends("failed")
  <2>1. call'.pc = "idle" /\ call'.result = "failed"  BY <1>1, <1>4, FwCalls
  <2> QED  BY <2>1, FwStops
<1>5. CASE call' = Firewall!Goto("fragment") /\ host' = host
  <2>1. /\ call'.pc = "fragment" /\ call'.config = call.config /\ call'.via = call.via
        /\ call'.result = "none"
    BY <1>1, <1>5, FwCallsKeep
  <2>2. ~Firewall!Refused(call'.config, FwRemote')  BY <1>1, <2>1 DEF FwRemote
  <2> QED
    BY <1>1, <1>5, <2>1, <2>2 DEF FwKept, Firewall!SuccessMeansKept, Firewall!SessionSurvives
<1>6. CASE call' = Firewall!Goto("include") /\ host' = [host EXCEPT !.files = policy]
  <2>1. /\ call'.pc = "include" /\ call'.config = call.config /\ call'.via = call.via
        /\ call'.result = "none"
    BY <1>1, <1>6, FwCallsKeep
  <2>2. ~Firewall!Refused(call'.config, FwRemote')  BY <1>1, <2>1 DEF FwRemote
  <2>3. host'.kind = host.kind /\ host'.files = Firewall!Rendered(call'.config)
    BY <1>1, <1>2, <1>6, <2>1 DEF Firewall!Host, policy
  <2> QED
    BY <1>1, <2>1, <2>2, <2>3 DEF FwKept, Firewall!SuccessMeansKept, Firewall!SessionSurvives
<1>7. CASE /\ call' = Firewall!Goto("load") /\ call.pc = "include"
           /\ host' = [host EXCEPT !.on = TRUE, !.boot = "there"]
  <2>1. /\ call'.pc = "load" /\ call'.config = call.config /\ call'.via = call.via
        /\ call'.result = "none"
    BY <1>1, <1>7, FwCallsKeep
  <2>2. ~Firewall!Refused(call'.config, FwRemote')  BY <1>1, <2>1 DEF FwRemote
  <2>3. host'.kind = host.kind /\ host'.files = host.files
    BY <1>1, <1>7 DEF Firewall!Host
  <2>4. host'.files = Firewall!Rendered(call'.config)  BY <1>7, <2>1, <2>3 DEF FwKept
  <2> QED
    BY <1>1, <2>1, <2>2, <2>3, <2>4
    DEF FwKept, Firewall!SuccessMeansKept, Firewall!SessionSurvives
<1>8. CASE /\ call' = Firewall!Done /\ call.pc = "load"
           /\ host' = [host EXCEPT !.now = host.files]
  <2>1. /\ call'.pc = "idle" /\ call'.config = call.config /\ call'.via = call.via
    BY <1>1, <1>8, FwCallsKeep
  <2>2. host.files = policy  BY <1>8 DEF FwKept, policy
  <2>3. host'.kind = "nftables" /\ host'.files = policy /\ host'.now = policy
    BY <1>1, <1>2, <1>8, <2>2 DEF Firewall!Host
  <2>4. Firewall!SuccessMeansKept'  BY <1>2, <2>3 DEF Firewall!SuccessMeansKept
  <2>5. Firewall!SessionSurvives'
    BY <1>1, <1>2, <2>1, <2>3
    DEF Firewall!SessionSurvives, Firewall!DeniedBefore, FwSession, FwDenied, FwRemote
  <2> QED  BY <2>1, <2>4, <2>5 DEF FwKept
<1>9. CASE /\ call' = [Firewall!Done EXCEPT !.persists = FALSE]
           /\ host' = [host EXCEPT !.now = policy]
  <2>1. /\ call'.pc = "idle" /\ call'.config = call.config /\ call'.via = call.via
        /\ call'.persists = FALSE
    BY <1>1, <1>9, FwCallsKeep
  <2>2. host'.kind = "nftables" /\ host'.now = policy
    BY <1>1, <1>2, <1>9 DEF Firewall!Host
  <2>3. Firewall!SuccessMeansKept'  BY <2>1 DEF Firewall!SuccessMeansKept
  <2>4. Firewall!SessionSurvives'
    BY <1>1, <1>2, <2>1, <2>2
    DEF Firewall!SessionSurvives, Firewall!DeniedBefore, FwSession, FwDenied, FwRemote
  <2> QED  BY <2>1, <2>3, <2>4 DEF FwKept
<1> QED  BY <1>3, <1>4, <1>5, <1>6, <1>7, <1>8, <1>9

LEMMA FwKeepsOn ==
  ASSUME HardeningAssumption, FwInv, FwKept, [Firewall!Next]_<<host, call>>
  PROVE  FwKept'
<1>1. call \in FwCall  BY DEF FwInv, FwType
<1>2. CASE Firewall!Dies
  <2>1. call' = Firewall!Ends("died")  BY <1>2 DEF Firewall!Dies
  <2>2. call'.pc = "idle" /\ call'.result = "died"  BY <1>1, <2>1, FwCalls
  <2> QED  BY <2>2, FwStops
<1>3. CASE Firewall!Rollback
  <2> DEFINE done == [Firewall!Idle EXCEPT !.result = "undone"]
  <2>1. \/ call' = done \/ call' = [done EXCEPT !.result = "undone_unit_left"]
        \/ call' = [done EXCEPT !.result = "undone_not_reloaded"]
    BY <1>3, Zenon DEF Firewall!Rollback
  <2>2. done \in FwCall /\ done.pc = "idle" /\ done.result = "undone"
    BY HardeningAssumption, FwIdle DEF FwCall
  <2> HIDE DEF done
  <2>3. call'.pc = "idle" /\ call'.result # "success"  BY <2>1, <2>2 DEF FwCall
  <2> QED  BY <2>3, FwStops
<1>4. CASE Firewall!Others
  <2>1. /\ call'.quiet = FALSE /\ call'.pc = call.pc /\ call'.config = call.config
        /\ call'.via = call.via /\ call'.wrote = call.wrote /\ call'.step = call.step
        /\ call'.ok = call.ok /\ call'.before = call.before
    BY <1>1, <1>4 DEF Firewall!Others, FwCall
  <2>2. host'.kind = host.kind /\ host'.files = host.files
    <3>1. host \in Firewall!Host  BY DEF FwInv, FwType
    <3> QED  BY <1>4, <3>1 DEF Firewall!Others, Firewall!Host
  <2>3. FwBehind' = FwBehind /\ FwSince' = FwSince
    BY <2>1, <2>2 DEF FwBehind, FwSince, FwSession, FwDenied, Firewall!DeniedBefore
  <2>4. Firewall!Refused(call'.config, FwRemote') = Firewall!Refused(call.config, FwRemote)
    BY <2>1 DEF FwRemote
  <2>5. /\ call'.pc = "rule" => /\ ~Firewall!Refused(call'.config, FwRemote')
                                /\ call'.step \in Nat \ {0} /\ FwSince'
                                /\ call'.ok => FwBehind'
        /\ call'.pc \in {"enable", "wanted", "refusal"} => ~call'.wrote
        /\ call'.pc \in {"check", "fragment", "include", "load"} =>
             host'.kind = "nftables" /\ ~Firewall!Refused(call'.config, FwRemote')
        /\ call'.pc \in {"include", "load"} => host'.files = Firewall!Rendered(call'.config)
    BY <2>1, <2>2, <2>3, <2>4 DEF FwKept
  <2> QED  BY <2>1, <2>5 DEF FwKept, Firewall!SuccessMeansKept, Firewall!SessionSurvives
<1>5. CASE UNCHANGED <<host, call>>
  BY <1>5 DEF FwKept, FwBehind, FwSince, FwSession, FwDenied, FwRemote,
              Firewall!DeniedBefore, Firewall!SuccessMeansKept, Firewall!SessionSurvives
<1> QED
  BY <1>2, <1>3, <1>4, <1>5, HardeningAssumption, FwBeginsKept, FwEnablesKept, FwRefusesKept,
     FwRulesKept, FwRulesEndKept, FwLoadsKept DEF Firewall!Next

LEMMA FwStartsKept ==
  ASSUME HardeningAssumption, Firewall!Init
  PROVE  FwKept
<1>1. call.pc = "idle" /\ call.result = "none"
  BY FwIdle DEF Firewall!Init
<1> QED  BY <1>1 DEF FwKept, Firewall!SuccessMeansKept, Firewall!SessionSurvives

-----------------------------------------------------------------------------
(* The permissions plugin.                                                 *)

PermCall ==
    [pc : {"idle", "observe", "check", "chmod", "verify"}, step : Nat,
     result : {"none", "success", "failed", "undone", "died"}, quiet : BOOLEAN, ok : BOOLEAN,
     config : PermParams.Configs \cup {Absent}, mode : Perm!Mode \cup {Absent},
     announced : SUBSET Perm!Path, blind : SUBSET Perm!Path]

PermType == host \in Perm!Host /\ call \in PermCall

\* An apply under way.  What it has been through has nothing left to find; what
\* has something to find was announced; and what it has read of the path it is at is
\* that path's mode, which is no documented exception, or was not to be read.
PermApplying ==
    (call.pc # "idle" /\ call.quiet) =>
        /\ Perm!Findings(call.config, host) \subseteq call.announced \cup call.blind
        /\ call.ok => \A i \in 1..(call.step - 1) :
              PermParams.Paths[i] \notin Perm!Findings(call.config, host) \ call.blind
        /\ call.pc \in {"check", "chmod"} =>
              \/ call.mode = Absent /\ Perm!P \in call.blind
              \/ /\ call.mode = host.mode[Perm!P]
                 /\ ~Perm!Excepted(call.config, Perm!P, call.mode)
        /\ call.pc = "chmod" =>
              IF call.mode = Absent THEN Perm!P \notin PermParams.MaxMask
              ELSE Perm!Violates(Perm!P, Perm!Directive, call.mode)

PermInv ==
    /\ PermType
    /\ call.pc # "idle" => call.result = "none" /\ call.step > 0
    /\ call.pc \in {"check", "chmod", "verify"} => call.step \in DOMAIN PermParams.Paths
    /\ PermApplying /\ Perm!SuccessMeansClean

\* The path at hand is one of the table's, and what a directive asks of it is a mode
\* it does not violate, which a mask never adds a bit to.
LEMMA PermAsks ==
  ASSUME HardeningAssumption, NEW step \in DOMAIN PermParams.Paths, NEW config,
         NEW mode \in Perm!Mode
  PROVE  LET p == PermParams.Paths[step]
             directive == Perm!Effective(config, p)
             target == Perm!Target(p, directive, mode) IN
         /\ p \in Perm!Path /\ directive \in Perm!Mode
         /\ target \in Perm!Mode /\ ~Perm!Violates(p, directive, target)
         /\ p \in PermParams.MaxMask => target \subseteq mode
<1> DEFINE p == PermParams.Paths[step]
           directive == Perm!Effective(config, p)
<1>1. p \in Perm!Path  BY DEF Perm!Path
<1>2. PermParams.Baseline[p] \in Perm!Mode
  BY <1>1, HardeningAssumption DEF Perm!PermissionsAssumption
<1>3. directive \in Perm!Mode  BY <1>2 DEF Perm!Effective, Perm!Mode
<1> HIDE DEF directive
<1> QED  BY <1>1, <1>3 DEF Perm!Target, Perm!Violates, Perm!Mode, directive

\* A path is left behind: with nothing to find there, or as a failure.
LEMMA PermPasses ==
  ASSUME HardeningAssumption, PermInv, call.pc # "idle", call.step \in DOMAIN PermParams.Paths,
         NEW ok \in BOOLEAN, ok => call.ok, call' = [Perm!NextPath(call) EXCEPT !.ok = ok],
         host' \in Perm!Host,
         call.quiet =>
             /\ Perm!Findings(call.config, host') \subseteq Perm!Findings(call.config, host)
             /\ ok => Perm!P \notin Perm!Findings(call.config, host') \ call.blind
  PROVE  PermInv'
<1>1. call \in PermCall  BY DEF PermInv, PermType
<1>2. call.step \in Nat /\ call.step > 0  BY <1>1 DEF PermInv, PermCall
<1>3. /\ call' \in PermCall /\ call'.pc = "observe" /\ call'.step = call.step + 1
      /\ call'.result = call.result /\ call'.quiet = call.quiet /\ call'.ok = ok
      /\ call'.config = call.config /\ call'.announced = call.announced
      /\ call'.blind = call.blind
  <2> DEFINE step == call.step + 1
  <2>1. step \in Nat  BY <1>2
  <2>2. call' = [call EXCEPT !.pc = "observe", !.step = step, !.mode = Absent, !.ok = ok]
    BY <1>1 DEF PermCall, Perm!NextPath
  <2> HIDE DEF step
  <2>3. /\ call' \in PermCall /\ call'.pc = "observe" /\ call'.step = step
        /\ call'.result = call.result /\ call'.quiet = call.quiet /\ call'.ok = ok
        /\ call'.config = call.config /\ call'.announced = call.announced
        /\ call'.blind = call.blind
    BY <1>1, <2>1, <2>2 DEF PermCall
  <2> QED  BY <2>3 DEF step
<1>4. PermApplying'
  <2> SUFFICES ASSUME call.quiet
               PROVE  /\ Perm!Findings(call.config, host') \subseteq call.announced \cup call.blind
                      /\ ok => \A i \in 1..call.step :
                           PermParams.Paths[i] \notin
                               Perm!Findings(call.config, host') \ call.blind
    BY <1>2, <1>3 DEF PermApplying
  <2>1. Perm!Findings(call.config, host) \subseteq call.announced \cup call.blind
    BY DEF PermInv, PermApplying
  <2>2. ASSUME ok, NEW i \in 1..call.step
        PROVE  PermParams.Paths[i] \notin Perm!Findings(call.config, host') \ call.blind
    <3>1. CASE i = call.step  BY <2>2, <3>1 DEF Perm!P
    <3>2. CASE i \in 1..(call.step - 1)
      <4>1. PermParams.Paths[i] \notin Perm!Findings(call.config, host) \ call.blind
        BY <2>2, <3>2 DEF PermInv, PermApplying
      <4> QED  BY <4>1
    <3> QED  BY <1>2, <2>2, <3>1, <3>2
  <2> QED  BY <2>1, <2>2
<1>5. call'.result = "none"  BY <1>3 DEF PermInv
<1> QED  BY <1>2, <1>3, <1>4, <1>5 DEF PermInv, PermType, Perm!SuccessMeansClean

LEMMA PermBegins ==
  ASSUME HardeningAssumption, PermInv, Perm!Begin
  PROVE  PermInv'
<1>1. host \in Perm!Host  BY DEF PermInv, PermType
<1>2. PICK config \in PermParams.Configs :
         \/ call' = [Perm!Idle EXCEPT !.result = "failed"] /\ UNCHANGED host
         \/ /\ host' = [host EXCEPT !.saved = host.mode]
            /\ call' = Perm!NextPath([Perm!Idle EXCEPT !.config = config,
                                         !.announced = Perm!Findings(config, host)])
  BY Zenon DEF Perm!Begin
<1>3. CASE call' = [Perm!Idle EXCEPT !.result = "failed"] /\ UNCHANGED host
  <2>1. call' \in PermCall /\ call'.pc = "idle" /\ call'.result = "failed"
    BY <1>3 DEF Perm!Idle, PermCall
  <2> QED
    BY <1>1, <1>3, <2>1 DEF PermInv, PermType, PermApplying, Perm!SuccessMeansClean
<1>4. CASE /\ host' = [host EXCEPT !.saved = host.mode]
           /\ call' = Perm!NextPath([Perm!Idle EXCEPT !.config = config,
                                        !.announced = Perm!Findings(config, host)])
  <2> DEFINE announced == Perm!Findings(config, host)
  <2>1. announced \in SUBSET Perm!Path  BY DEF Perm!Findings
  <2>2. call' = Perm!NextPath([Perm!Idle EXCEPT !.config = config, !.announced = announced])
    BY <1>4
  <2>3. Perm!Findings(config, host') = announced
    <3>1. host'.mode = host.mode /\ host'.fat = host.fat  BY <1>1, <1>4 DEF Perm!Host
    <3> QED  BY <3>1 DEF Perm!Findings
  <2> HIDE DEF announced
  <2>4. /\ call' \in PermCall /\ call'.pc = "observe" /\ call'.step = 1
        /\ call'.result = "none" /\ call'.config = config /\ call'.announced = announced
    <3>1. call' = [pc |-> "observe", step |-> 1, result |-> "none", quiet |-> TRUE,
                   ok |-> TRUE, config |-> config, mode |-> Absent,
                   announced |-> announced, blind |-> {}]
      BY <2>2, 0 + 1 = 1 DEF Perm!NextPath, Perm!Idle
    <3> QED  BY <2>1, <3>1 DEF PermCall
  <2>5. host' \in Perm!Host  BY <1>1, <1>4 DEF Perm!Host
  <2>6. PermApplying'  BY <2>3, <2>4 DEF PermApplying
  <2> QED  BY <2>4, <2>5, <2>6 DEF PermInv, PermType, Perm!SuccessMeansClean
<1> QED  BY <1>2, <1>3, <1>4

LEMMA PermObserves ==
  ASSUME HardeningAssumption, PermInv, Perm!Observe
  PROVE  PermInv'
<1>1. host \in Perm!Host /\ call \in PermCall  BY DEF PermInv, PermType
<1>2. call.pc = "observe" /\ call.step \in DOMAIN PermParams.Paths /\ host' = host
  BY DEF Perm!Observe
<1>3. PICK mode \in {host.mode[Perm!P], Absent} :
         call' = IF mode # Absent /\ Perm!Excepted(call.config, Perm!P, mode)
                 THEN Perm!NextPath(call)
                 ELSE [call EXCEPT !.pc = "check", !.mode = mode,
                          !.blind = IF mode = Absent THEN @ \cup {Perm!P} ELSE @]
  BY Zenon DEF Perm!Observe
<1>4. Perm!P \in Perm!Path  BY <1>2 DEF Perm!P, Perm!Path
<1>5. CASE mode # Absent /\ Perm!Excepted(call.config, Perm!P, mode)
  <2>1. call' = [Perm!NextPath(call) EXCEPT !.ok = call.ok]
    BY <1>1, <1>3, <1>5 DEF PermCall, Perm!NextPath
  <2>2. Perm!P \notin Perm!Findings(call.config, host')
    BY <1>2, <1>3, <1>5 DEF Perm!Findings
  <2>3. call.ok \in BOOLEAN  BY <1>1 DEF PermCall
  <2> QED  BY <1>1, <1>2, <2>1, <2>2, <2>3, PermPasses
<1>6. CASE ~(mode # Absent /\ Perm!Excepted(call.config, Perm!P, mode))
  <2> DEFINE blind == IF mode = Absent THEN call.blind \cup {Perm!P} ELSE call.blind
  <2>1. call' = [call EXCEPT !.pc = "check", !.mode = mode, !.blind = blind]
    BY <1>3, <1>6
  <2>2. blind \in SUBSET Perm!Path /\ call.blind \subseteq blind
        /\ (mode = Absent => Perm!P \in blind)
    BY <1>1, <1>4 DEF PermCall
  <2>3. mode \in Perm!Mode \cup {Absent}  BY <1>1, <1>4 DEF Perm!Host
  <2> HIDE DEF blind
  <2>4. /\ call' \in PermCall /\ call'.pc = "check" /\ call'.mode = mode
        /\ call'.blind = blind /\ call'.step = call.step /\ call'.config = call.config
        /\ call'.announced = call.announced /\ call'.ok = call.ok
        /\ call'.quiet = call.quiet /\ call'.result = call.result
    BY <1>1, <2>1, <2>2, <2>3 DEF PermCall
  <2>5. PermApplying'
    <3> SUFFICES ASSUME call.quiet PROVE PermApplying'
      BY <2>4 DEF PermApplying
    <3>1. /\ Perm!Findings(call.config, host) \subseteq call.announced \cup call.blind
          /\ call.ok => \A i \in 1..(call.step - 1) :
                PermParams.Paths[i] \notin Perm!Findings(call.config, host) \ call.blind
      BY <1>2 DEF PermInv, PermApplying
    <3>2. Perm!P' = Perm!P  BY <2>4 DEF Perm!P
    <3>3. mode = Absent \/ (mode = host.mode[Perm!P]
                            /\ ~Perm!Excepted(call.config, Perm!P, mode))
      BY <1>3, <1>6
    <3> QED  BY <1>2, <2>2, <2>4, <3>1, <3>2, <3>3 DEF PermApplying
  <2> QED
    BY <1>1, <1>2, <2>4, <2>5 DEF PermInv, PermType, Perm!SuccessMeansClean
<1> QED  BY <1>5, <1>6

LEMMA PermChecks ==
  ASSUME HardeningAssumption, PermInv, Perm!Check
  PROVE  PermInv'
<1>1. host \in Perm!Host /\ call \in PermCall  BY DEF PermInv, PermType
<1>2. call.pc = "check" /\ call.step \in DOMAIN PermParams.Paths /\ host' = host
  BY DEF PermInv, Perm!Check
<1>3. PICK asked \in BOOLEAN :
         call' \in {Perm!Fails,
           CASE host.mode[Perm!P] = Absent -> Perm!NextPath(call)
             [] call.mode = Absent /\ Perm!P \in PermParams.MaxMask -> Perm!NextPath(call)
             [] call.mode # Absent /\ ~Perm!Violates(Perm!P, Perm!Directive, call.mode) ->
                  Perm!NextPath(call)
             [] asked /\ Perm!P \in host.fat -> Perm!NextPath(call)
             [] OTHER -> [call EXCEPT !.pc = "chmod"]}
  BY Zenon DEF Perm!Check
<1>4. call.quiet => \/ call.mode = Absent /\ Perm!P \in call.blind
                    \/ /\ call.mode = host.mode[Perm!P]
                       /\ ~Perm!Excepted(call.config, Perm!P, call.mode)
  BY <1>2 DEF PermInv, PermApplying
<1>5. CASE call' = Perm!Fails
  BY <1>1, <1>2, <1>5, PermPasses DEF Perm!Fails
<1>6. CASE /\ call' = Perm!NextPath(call)
           /\ \/ host.mode[Perm!P] = Absent \/ call.mode = Absent \/ Perm!P \in host.fat
              \/ ~Perm!Violates(Perm!P, Perm!Directive, call.mode)
  <2>1. call' = [Perm!NextPath(call) EXCEPT !.ok = call.ok]
    BY <1>1, <1>6 DEF PermCall, Perm!NextPath
  <2>2. call.quiet => Perm!P \notin Perm!Findings(call.config, host') \ call.blind
    BY <1>2, <1>4, <1>6 DEF Perm!Findings, Perm!Directive
  <2>3. call.ok \in BOOLEAN  BY <1>1 DEF PermCall
  <2> QED  BY <1>1, <1>2, <2>1, <2>2, <2>3, PermPasses
<1>7. CASE /\ call' = [call EXCEPT !.pc = "chmod"]
           /\ IF call.mode = Absent THEN Perm!P \notin PermParams.MaxMask
              ELSE Perm!Violates(Perm!P, Perm!Directive, call.mode)
  <2>1. /\ call' \in PermCall /\ call'.pc = "chmod" /\ call'.mode = call.mode
        /\ call'.blind = call.blind /\ call'.step = call.step /\ call'.config = call.config
        /\ call'.announced = call.announced /\ call'.ok = call.ok
        /\ call'.quiet = call.quiet /\ call'.result = call.result
    BY <1>1, <1>7 DEF PermCall
  <2>2. PermApplying'
    <3> SUFFICES ASSUME call.quiet PROVE PermApplying'
      BY <2>1 DEF PermApplying
    <3>1. /\ Perm!Findings(call.config, host) \subseteq call.announced \cup call.blind
          /\ call.ok => \A i \in 1..(call.step - 1) :
                PermParams.Paths[i] \notin Perm!Findings(call.config, host) \ call.blind
      BY <1>2 DEF PermInv, PermApplying
    <3>2. Perm!P' = Perm!P /\ Perm!Directive' = Perm!Directive
      BY <2>1 DEF Perm!P, Perm!Directive
    <3> QED  BY <1>2, <1>4, <1>7, <2>1, <3>1, <3>2 DEF PermApplying
  <2> QED
    BY <1>1, <1>2, <2>1, <2>2 DEF PermInv, PermType, Perm!SuccessMeansClean
<1> QED  BY <1>3, <1>5, <1>6, <1>7

LEMMA PermChmods ==
  ASSUME HardeningAssumption, PermInv, Perm!Chmod
  PROVE  /\ PermInv'
         /\ \A p \in Perm!Path \ {Perm!P} : host'.mode[p] = host.mode[p]
         /\ (call.quiet /\ host'.mode[Perm!P] # host.mode[Perm!P]) =>
                Perm!P \in Perm!Findings(call.config, host) \cup call.blind
         /\ (call.quiet /\ Perm!P \in PermParams.MaxMask) =>
                host.mode[Perm!P] = Absent \/ host'.mode[Perm!P] \subseteq host.mode[Perm!P]
<1>1. host \in Perm!Host /\ call \in PermCall  BY DEF PermInv, PermType
<1>2. call.pc = "chmod" /\ call.step \in DOMAIN PermParams.Paths
  BY DEF PermInv, Perm!Chmod
<1>3. Perm!P \in Perm!Path  BY <1>2 DEF Perm!P, Perm!Path
<1> DEFINE mode == IF call.mode = Absent THEN {} ELSE call.mode
           target == Perm!Target(Perm!P, Perm!Directive, mode)
<1>4. mode \in Perm!Mode  BY <1>1 DEF PermCall, Perm!Mode
<1>5. /\ target \in Perm!Mode /\ ~Perm!Violates(Perm!P, Perm!Directive, target)
      /\ Perm!P \in PermParams.MaxMask => target \subseteq mode
  BY <1>2, <1>4, PermAsks DEF Perm!P, Perm!Directive
<1>6. call.quiet =>
         /\ \/ call.mode = Absent /\ Perm!P \in call.blind
            \/ /\ call.mode = host.mode[Perm!P]
               /\ ~Perm!Excepted(call.config, Perm!P, call.mode)
         /\ IF call.mode = Absent THEN Perm!P \notin PermParams.MaxMask
            ELSE Perm!Violates(Perm!P, Perm!Directive, call.mode)
  BY <1>2 DEF PermInv, PermApplying
<1>7. \/ call' = Perm!Fails /\ host' = host
      \/ /\ host.mode[Perm!P] # Absent /\ (host.remote \/ Perm!P \notin host.fat)
         /\ host' = IF Perm!P \in host.fat THEN host ELSE [host EXCEPT !.mode[Perm!P] = target]
         /\ call' = IF host.remote THEN [call EXCEPT !.pc = "verify"] ELSE Perm!NextPath(call)
  BY DEF Perm!Chmod
<1> HIDE DEF target
<1>8. CASE call' = Perm!Fails /\ host' = host
  <2>1. PermInv'  BY <1>1, <1>2, <1>8, PermPasses DEF Perm!Fails
  <2> QED  BY <1>8, <1>6, <2>1, <1>1, <1>3 DEF Perm!Host
<1>9. CASE /\ host.mode[Perm!P] # Absent /\ (host.remote \/ Perm!P \notin host.fat)
           /\ host' = IF Perm!P \in host.fat THEN host
                      ELSE [host EXCEPT !.mode[Perm!P] = target]
           /\ call' = IF host.remote THEN [call EXCEPT !.pc = "verify"]
                      ELSE Perm!NextPath(call)
  <2> DEFINE modes == IF Perm!P \in host.fat THEN host.mode
                      ELSE [host.mode EXCEPT ![Perm!P] = target]
  <2>1. host' = [host EXCEPT !.mode = modes]  BY <1>1, <1>9 DEF Perm!Host
  <2>2. modes \in [Perm!Path -> Perm!Mode \cup {Absent}]
        /\ (\A p \in Perm!Path \ {Perm!P} : modes[p] = host.mode[p])
        /\ modes[Perm!P] = IF Perm!P \in host.fat THEN host.mode[Perm!P] ELSE target
    BY <1>1, <1>3, <1>5 DEF Perm!Host
  <2> HIDE DEF modes
  <2>3. host' \in Perm!Host /\ host'.mode = modes /\ host'.fat = host.fat
        /\ host'.saved = host.saved /\ host'.remote = host.remote
    BY <1>1, <2>1, <2>2 DEF Perm!Host
  <2>4. Perm!P \notin Perm!Findings(call.config, host')
    BY <1>5, <2>2, <2>3 DEF Perm!Findings, Perm!Directive
  <2>5. Perm!Findings(call.config, host') \subseteq Perm!Findings(call.config, host)
    <3> SUFFICES ASSUME NEW p \in Perm!Findings(call.config, host')
                 PROVE  p \in Perm!Findings(call.config, host)
      OBVIOUS
    <3>1. p \in Perm!Path /\ p # Perm!P  BY <2>4 DEF Perm!Findings
    <3> QED  BY <2>2, <2>3, <3>1 DEF Perm!Findings
  <2>6. PermInv'
    <3>1. CASE host.remote
      <4>1. /\ call' \in PermCall /\ call'.pc = "verify" /\ call'.blind = call.blind
            /\ call'.step = call.step /\ call'.config = call.config
            /\ call'.announced = call.announced /\ call'.ok = call.ok
            /\ call'.quiet = call.quiet /\ call'.result = call.result
        BY <1>1, <1>9, <3>1 DEF PermCall
      <4>2. PermApplying'
        <5> SUFFICES ASSUME call.quiet PROVE PermApplying'
          BY <4>1 DEF PermApplying
        <5>1. /\ Perm!Findings(call.config, host) \subseteq call.announced \cup call.blind
              /\ call.ok => \A i \in 1..(call.step - 1) :
                    PermParams.Paths[i] \notin Perm!Findings(call.config, host) \ call.blind
          BY <1>2 DEF PermInv, PermApplying
        <5>2. /\ Perm!Findings(call.config, host') \subseteq call.announced \cup call.blind
              /\ call.ok => \A i \in 1..(call.step - 1) :
                    PermParams.Paths[i] \notin Perm!Findings(call.config, host') \ call.blind
          BY <2>5, <5>1
        <5> QED  BY <4>1, <5>2 DEF PermApplying
      <4> QED
        BY <1>2, <2>3, <4>1, <4>2 DEF PermInv, PermType, Perm!SuccessMeansClean
    <3>2. CASE ~host.remote
      <4>1. call' = [Perm!NextPath(call) EXCEPT !.ok = call.ok]
        BY <1>1, <1>9, <3>2 DEF PermCall, Perm!NextPath
      <4>2. call.ok \in BOOLEAN  BY <1>1 DEF PermCall
      <4> QED  BY <1>2, <2>3, <2>4, <2>5, <4>1, <4>2, PermPasses
    <3> QED  BY <3>1, <3>2
  <2>7. (call.quiet /\ host'.mode[Perm!P] # host.mode[Perm!P]) =>
            Perm!P \in Perm!Findings(call.config, host) \cup call.blind
    BY <1>3, <1>6, <1>9, <2>2, <2>3 DEF Perm!Findings, Perm!Directive
  <2>8. (call.quiet /\ Perm!P \in PermParams.MaxMask) =>
            host'.mode[Perm!P] \subseteq host.mode[Perm!P]
    BY <1>5, <1>6, <2>2, <2>3
  <2> QED  BY <2>2, <2>3, <2>6, <2>7, <2>8
<1> QED  BY <1>7, <1>8, <1>9

LEMMA PermVerifies ==
  ASSUME HardeningAssumption, PermInv, Perm!Verify
  PROVE  PermInv'
<1>1. host \in Perm!Host /\ call \in PermCall  BY DEF PermInv, PermType
<1>2. call.pc = "verify" /\ call.step \in DOMAIN PermParams.Paths /\ host' = host
  BY DEF PermInv, Perm!Verify
<1>3. CASE call' = Perm!Fails
  BY <1>1, <1>2, <1>3, PermPasses DEF Perm!Fails
<1>4. CASE /\ host.mode[Perm!P] # Absent
           /\ ~Perm!Violates(Perm!P, Perm!Directive, host.mode[Perm!P])
           /\ call' = Perm!NextPath(call)
  <2>1. call' = [Perm!NextPath(call) EXCEPT !.ok = call.ok]
    BY <1>1, <1>4 DEF PermCall, Perm!NextPath
  <2>2. Perm!P \notin Perm!Findings(call.config, host')
    BY <1>2, <1>4 DEF Perm!Findings, Perm!Directive
  <2>3. call.ok \in BOOLEAN  BY <1>1 DEF PermCall
  <2> QED  BY <1>1, <1>2, <2>1, <2>2, <2>3, PermPasses
<1> QED  BY <1>3, <1>4 DEF Perm!Verify

LEMMA PermFinishes ==
  ASSUME HardeningAssumption, PermInv, Perm!Finish
  PROVE  PermInv'
<1>1. host \in Perm!Host /\ call \in PermCall  BY DEF PermInv, PermType
<1>2. call.pc = "observe" /\ call.step \notin DOMAIN PermParams.Paths /\ host' = host
  BY DEF Perm!Finish
<1> DEFINE result == IF call.ok THEN "success" ELSE "failed"
<1>3. call' = [call EXCEPT !.pc = "idle", !.result = result]  BY DEF Perm!Finish
<1>4. result \in {"success", "failed"} /\ (result = "success" => call.ok)  OBVIOUS
<1> HIDE DEF result
<1>5. /\ call' \in PermCall /\ call'.pc = "idle" /\ call'.result = result
      /\ call'.quiet = call.quiet /\ call'.config = call.config /\ call'.blind = call.blind
  BY <1>1, <1>3, <1>4 DEF PermCall
<1>6. Perm!SuccessMeansClean'
  <2> SUFFICES ASSUME call.ok, call.quiet, NEW p \in Perm!Findings(call.config, host)
               PROVE  p \in call.blind
    BY <1>2, <1>4, <1>5 DEF Perm!SuccessMeansClean
  <2>1. PermParams.Paths \in Seq(Perm!Path)
    BY HardeningAssumption DEF Perm!PermissionsAssumption
  <2>2. PICK i \in DOMAIN PermParams.Paths : p = PermParams.Paths[i]
    BY DEF Perm!Findings, Perm!Path
  <2>3. call.step \in Nat /\ call.step > 0  BY <1>1, <1>2 DEF PermInv, PermCall
  <2>4. i \in 1..(call.step - 1)  BY <1>2, <2>1, <2>2, <2>3
  <2>5. \A k \in 1..(call.step - 1) :
           PermParams.Paths[k] \notin Perm!Findings(call.config, host) \ call.blind
    BY <1>2 DEF PermInv, PermApplying
  <2> QED  BY <2>2, <2>4, <2>5
<1> QED  BY <1>1, <1>2, <1>5, <1>6 DEF PermInv, PermType, PermApplying

LEMMA PermNext ==
  ASSUME HardeningAssumption, PermInv, Perm!Next
  PROVE  PermInv'
<1>1. host \in Perm!Host /\ call \in PermCall  BY DEF PermInv, PermType
<1>2. CASE Perm!Rollback
  <2> DEFINE modes == [p \in Perm!Path |->
                          IF host.mode[p] = Absent \/ p \in host.fat THEN host.mode[p]
                          ELSE host.saved[p]]
  <2>1. host.saved # Absent /\ host' = [host EXCEPT !.mode = modes]
        /\ call' = [Perm!Idle EXCEPT !.result = "undone"]
    BY <1>1, <1>2 DEF Perm!Rollback, Perm!Host
  <2>2. modes \in [Perm!Path -> Perm!Mode \cup {Absent}]  BY <1>1, <2>1 DEF Perm!Host
  <2> HIDE DEF modes
  <2>3. host' \in Perm!Host  BY <1>1, <2>1, <2>2 DEF Perm!Host
  <2>4. call' \in PermCall /\ call'.pc = "idle" /\ call'.result = "undone"
    BY <2>1 DEF Perm!Idle, PermCall
  <2> QED  BY <2>3, <2>4 DEF PermInv, PermType, PermApplying, Perm!SuccessMeansClean
<1>3. CASE Perm!Dies
  <2>1. host' = host /\ call' = [Perm!Idle EXCEPT !.result = "died"]  BY <1>3 DEF Perm!Dies
  <2>2. call' \in PermCall /\ call'.pc = "idle" /\ call'.result = "died"
    BY <2>1 DEF Perm!Idle, PermCall
  <2> QED
    BY <1>1, <2>1, <2>2 DEF PermInv, PermType, PermApplying, Perm!SuccessMeansClean
<1>4. CASE Perm!Others
  <2>1. PICK p \in Perm!Path \ host.fat, mode \in Perm!Mode \cup {Absent} :
           host' = [host EXCEPT !.mode[p] = mode]
    BY Zenon, <1>4 DEF Perm!Others
  <2> DEFINE modes == [host.mode EXCEPT ![p] = mode]
  <2>2. host' = [host EXCEPT !.mode = modes]  BY <2>1
  <2>3. modes \in [Perm!Path -> Perm!Mode \cup {Absent}]  BY <1>1 DEF Perm!Host
  <2> HIDE DEF modes
  <2>4. host' \in Perm!Host  BY <1>1, <2>2, <2>3 DEF Perm!Host
  <2>5. /\ call' \in PermCall /\ call'.quiet = FALSE /\ call'.pc = call.pc
        /\ call'.step = call.step /\ call'.result = call.result
    BY <1>1, <1>4 DEF Perm!Others, PermCall
  <2> QED  BY <2>4, <2>5 DEF PermInv, PermType, PermApplying, Perm!SuccessMeansClean
<1> QED
  BY <1>2, <1>3, <1>4, PermBegins, PermObserves, PermChecks, PermChmods, PermVerifies,
     PermFinishes DEF Perm!Next

\* Only the chmod of an apply changes a mode while nobody else does.
LEMMA PermChanges ==
  ASSUME HardeningAssumption, PermInv, [Perm!Next]_<<host, call>>, call.pc # "idle", call'.quiet
  PROVE  host'.mode = host.mode \/ (Perm!Chmod /\ call.quiet)
<1>1. host \in Perm!Host /\ call \in PermCall  BY DEF PermInv, PermType
<1>2. ~Perm!Others
  <2>1. Perm!Others => call'.quiet = FALSE  BY <1>1 DEF Perm!Others, PermCall
  <2> QED  BY <2>1
<1>3. Perm!Chmod => call'.quiet = call.quiet
  BY <1>1 DEF Perm!Chmod, Perm!Fails, Perm!NextPath, PermCall
<1> QED
  BY <1>2, <1>3 DEF Perm!Next, Perm!Begin, Perm!Rollback, Perm!Observe, Perm!Check,
                    Perm!Verify, Perm!Finish, Perm!Dies

\* An apply chmods no path that its preview did not announce and that it could read.
LEMMA PermAnnounces ==
  ASSUME HardeningAssumption, PermInv, [Perm!Next]_<<host, call>>
  PROVE  Perm!PreviewIsHonest
<1> SUFFICES ASSUME NEW p \in Perm!Path, call.pc # "idle", call'.quiet,
                    host'.mode[p] # host.mode[p]
             PROVE  p \in call.announced \cup call.blind
  BY Zenon DEF Perm!PreviewIsHonest
<1>1. Perm!Chmod /\ call.quiet  BY PermChanges
<1>2. p = Perm!P /\ p \in Perm!Findings(call.config, host) \cup call.blind
  BY <1>1, PermChmods
<1>3. Perm!Findings(call.config, host) \subseteq call.announced \cup call.blind
  BY <1>1 DEF PermInv, PermApplying
<1> QED  BY <1>2, <1>3

\* A directive that is a mask takes bits from a mode and never adds one.
LEMMA PermLoosensNothing ==
  ASSUME HardeningAssumption, PermInv, [Perm!Next]_<<host, call>>
  PROVE  Perm!MaskNeverAdds
<1> SUFFICES ASSUME NEW p \in PermParams.MaxMask, call.pc # "idle", call'.quiet,
                    host.mode[p] # Absent
             PROVE  host'.mode[p] \subseteq host.mode[p]
  BY Zenon DEF Perm!MaskNeverAdds
<1>1. p \in Perm!Path  BY HardeningAssumption DEF Perm!PermissionsAssumption
<1>2. CASE host'.mode = host.mode  BY <1>2
<1>3. CASE Perm!Chmod /\ call.quiet
  <2>1. CASE p = Perm!P  BY <1>3, <2>1, PermChmods
  <2>2. CASE p # Perm!P
    <3>1. host'.mode[p] = host.mode[p]  BY <1>1, <1>3, <2>2, PermChmods
    <3> QED  BY <3>1
  <2> QED  BY <2>1, <2>2
<1> QED  BY <1>2, <1>3, PermChanges

-----------------------------------------------------------------------------
(* The pam plugin.                                                         *)

PamCall ==
    [pc : {"idle", "observe", "lockout", "rewrite"}, step : Nat,
     result : {"none", "success", "failed", "died"}, quiet : BOOLEAN, ok : BOOLEAN,
     config : PamParams.Configs, blind : SUBSET Pam!Conf, text : [Pam!Conf -> Pam!File],
     seen : [Pam!Directive -> PamParams.Value], announced : SUBSET Pam!Directive,
     drifted : SUBSET Pam!Conf]

PamType == host \in Pam!Host /\ call \in PamCall

\* The files an apply is still to write, and the directives.
PamFilesAhead(c) ==
    {f \in Pam!Conf : \E i \in DOMAIN PamParams.Rewritten :
        PamParams.Rewritten[i] = f /\ (c.pc = "rewrite" => i >= c.step)}

PamAhead(c) ==
    {d \in Pam!Directive :
        \/ PamParams.FileOf[d] \in PamFilesAhead(c)
        \/ c.pc # "rewrite" /\ \E i \in DOMAIN PamParams.Lockout :
              PamParams.Lockout[i] = d /\ (c.pc = "lockout" => i >= c.step)}

\* A directive of which nothing more is asked.
PamMet(config, h, d) ==
    \/ Pam!Excepted(config, d, Pam!Observed(h, {}, d))
    \/ ~Pam!ViolatedBy(PamParams.Compare[d], Pam!Target(config, d), Pam!Observed(h, {}, d))

\* An apply under way.  Of what is ahead it knows the text and the value, and what it
\* has been through asks for nothing more, or it has failed; what asks for something
\* was announced.
PamApplying ==
    (call.pc # "idle" /\ call.quiet) =>
        /\ Pam!Announced(call.config, host) \subseteq call.announced
        /\ Pam!Drifted(host) \subseteq call.drifted
        /\ call.ok => call.blind = {}
        /\ \A f \in PamFilesAhead(call) : call.text[f] = Pam!InForce(host, f)
        /\ call.pc # "observe" =>
              /\ \A d \in PamAhead(call) :
                    call.seen[d] = IF PamParams.FileOf[d] \in call.blind THEN Unset
                                   ELSE Pam!Observed(host, {}, d)
              /\ call.ok =>
                    /\ \A d \in Pam!Directive : Pam!Presence(host, d) # "out"
                    /\ \A d \in Pam!Directive \ PamAhead(call) : PamMet(call.config, host, d)

PamInv ==
    /\ PamType
    /\ call.pc # "idle" => call.result = "none"
    /\ call.pc \in {"lockout", "rewrite"} => call.step > 0
    /\ call.blind \subseteq {PamParams.Rewritten[i] : i \in DOMAIN PamParams.Rewritten}
    /\ PamApplying /\ Pam!SuccessMeansHardened

\* Of two numbers ClampTarget takes one that meets both; it keeps one that meets the
\* target, unless the target is one of the least two, which negate to the same.
LEMMA PamClamps ==
  ASSUME HardeningAssumption, NEW d \in Pam!Directive, NEW target \in Pam!Given, NEW seen
  PROVE  LET compare == PamParams.Compare[d]
             goal == Pam!ClampTarget(compare, target, seen) IN
         /\ goal \in Pam!Given /\ ~Pam!ViolatedBy(compare, target, goal)
         /\ Pam!Placeable(compare, seen) => ~Pam!ViolatedBy(compare, seen, goal)
         /\ (target > MinInt + 1 /\ ~Pam!ViolatedBy(compare, target, seen)) => goal = seen
<1> DEFINE compare == PamParams.Compare[d]
           goal == Pam!ClampTarget(compare, target, seen)
<1>1. compare.kind \in {"AtMost", "AtLeast", "NonZeroAtMost"}
  BY HardeningAssumption DEF Pam!PamAssumption
<1> HIDE DEF compare
<1>2. /\ MaxInt \in Nat /\ MinInt = -MaxInt - 1 /\ MinInt \in Int
      /\ Pam!Given = MinInt..MaxInt
  BY WidthAssumption DEF Pam!Given
<1>3. \A v : Pam!Placeable(compare, v) <=> v \in MinInt..MaxInt
  BY <1>1 DEF Pam!Placeable
<1>4. \A v \in MinInt..MaxInt :
         /\ Pam!Spelling(compare, v) = v
         /\ Pam!Score(compare, v) =
              CASE compare.kind = "AtLeast" -> v
                [] compare.kind = "AtMost" -> IF v = MinInt THEN MaxInt ELSE -v
                [] compare.kind = "NonZeroAtMost" ->
                     IF v = 0 THEN MinInt ELSE IF v = MinInt THEN MaxInt ELSE -v
  BY <1>1 DEF Pam!Spelling, Pam!Score, Pam!Negated
<1>5. goal = IF Pam!Placeable(compare, seen)
                   /\ Pam!Score(compare, seen) > Pam!Score(compare, target)
             THEN seen ELSE target
  BY <1>2, <1>3, <1>4 DEF Pam!ClampTarget
<1> HIDE DEF goal
<1>6. \A v \in MinInt..MaxInt : Pam!Score(compare, v) \in Int
  BY <1>1, <1>2, <1>4
<1>7. goal \in Pam!Given  BY <1>2, <1>3, <1>5
<1>8. ~Pam!ViolatedBy(compare, target, goal)
  BY <1>2, <1>3, <1>5, <1>6 DEF Pam!ViolatedBy
<1>9. Pam!Placeable(compare, seen) => ~Pam!ViolatedBy(compare, seen, goal)
  BY <1>2, <1>3, <1>5, <1>6 DEF Pam!ViolatedBy
<1>10. ASSUME target > MinInt + 1, ~Pam!ViolatedBy(compare, target, seen)
       PROVE  goal = seen
  <2>1. seen \in MinInt..MaxInt /\ Pam!Score(compare, seen) >= Pam!Score(compare, target)
    BY <1>2, <1>3, <1>6, <1>10 DEF Pam!ViolatedBy
  <2>2. ASSUME Pam!Score(compare, seen) = Pam!Score(compare, target) PROVE seen = target
    BY <1>1, <1>2, <1>4, <1>10, <2>1, <2>2
  <2> QED  BY <1>2, <1>3, <1>5, <1>6, <2>1, <2>2
<1> QED  BY <1>7, <1>8, <1>9, <1>10 DEF compare, goal

\* What the configuration makes of a baseline is a number.
LEMMA PamTargets ==
  ASSUME HardeningAssumption, NEW d \in Pam!Directive, NEW config
  PROVE  Pam!Target(config, d) \in Pam!Given
<1>1. PamParams.Baseline[d] \in Pam!Given  BY HardeningAssumption DEF Pam!PamAssumption
<1> QED  BY <1>1, PamClamps DEF Pam!Target, Pam!ResolvedTarget

\* A text written where a file has its name.
LEMMA PamWrites ==
  ASSUME HardeningAssumption, PamInv, NEW f \in Pam!Conf, NEW text \in Pam!File, text.there,
         host' = [host EXCEPT !.admin[f] = text]
  PROVE  /\ host' \in Pam!Host /\ Pam!InForce(host', f) = text
         /\ \A g \in Pam!Conf \ {f} : Pam!InForce(host', g) = Pam!InForce(host, g)
         /\ \A d \in Pam!Directive :
              /\ Pam!Presence(host', d) = Pam!Presence(host, d)
              /\ Pam!Inline(host', d) = Pam!Inline(host, d)
              /\ PamParams.FileOf[d] # f \/ text.set[d] = Pam!InForce(host, f).set[d] =>
                    Pam!Observed(host', {}, d) = Pam!Observed(host, {}, d)
              /\ PamParams.FileOf[d] = f /\ Pam!Inline(host, d) = Unset =>
                    Pam!Observed(host', {}, d) = text.set[d]
         /\ (\A k \in Pam!Key : text.set[k] = Unset => Pam!InForce(host, f).set[k] = Unset) =>
              \A g \in Pam!Conf : Pam!Masked(host', g) \subseteq Pam!Masked(host, g)
<1>1. host \in Pam!Host  BY DEF PamInv, PamType
<1> DEFINE admin == [host.admin EXCEPT ![f] = text]
<1>2. host' = [host EXCEPT !.admin = admin]  OBVIOUS
<1>3. /\ admin \in [Pam!Conf -> Pam!File] /\ admin[f] = text
      /\ \A g \in Pam!Conf \ {f} : admin[g] = host.admin[g]
  BY <1>1 DEF Pam!Host
<1> HIDE DEF admin
<1>4. host' \in Pam!Host /\ host'.admin = admin /\ host'.vendor = host.vendor
      /\ host'.stack = host.stack
  BY <1>1, <1>2, <1>3 DEF Pam!Host
<1>5. /\ Pam!InForce(host', f) = text
      /\ \A g \in Pam!Conf \ {f} : Pam!InForce(host', g) = Pam!InForce(host, g)
  BY <1>3, <1>4 DEF Pam!InForce
<1>6. ASSUME NEW d \in Pam!Directive
      PROVE  /\ Pam!Presence(host', d) = Pam!Presence(host, d)
             /\ Pam!Inline(host', d) = Pam!Inline(host, d)
  BY <1>4 DEF Pam!Presence, Pam!Inline
<1>7. ASSUME NEW d \in Pam!Directive,
             PamParams.FileOf[d] # f \/ text.set[d] = Pam!InForce(host, f).set[d]
      PROVE  Pam!Observed(host', {}, d) = Pam!Observed(host, {}, d)
  <2>1. PamParams.FileOf[d] \in Pam!Conf  BY DEF Pam!Conf
  <2>2. Pam!InForce(host', PamParams.FileOf[d]).set[d] = Pam!InForce(host, PamParams.FileOf[d]).set[d]
    BY <1>5, <1>7, <2>1
  <2> QED  BY <1>6, <2>2 DEF Pam!Observed
<1>8. ASSUME NEW d \in Pam!Directive, PamParams.FileOf[d] = f, Pam!Inline(host, d) = Unset
      PROVE  Pam!Observed(host', {}, d) = text.set[d]
  BY <1>5, <1>6, <1>8 DEF Pam!Observed
<1>9. ASSUME \A k \in Pam!Key : text.set[k] = Unset => Pam!InForce(host, f).set[k] = Unset,
             NEW g \in Pam!Conf, NEW k \in Pam!Masked(host', g)
      PROVE  k \in Pam!Masked(host, g)
  <2>1. CASE g # f  BY <1>3, <1>4, <1>9, <2>1 DEF Pam!Masked
  <2>2. CASE g = f
    BY <1>3, <1>4, <1>9, <2>2 DEF Pam!Masked, Pam!InForce
  <2> QED  BY <2>1, <2>2
<1> QED  BY <1>4, <1>5, <1>6, <1>7, <1>8, <1>9

LEMMA PamBegins ==
  ASSUME HardeningAssumption, PamInv, Pam!Begin
  PROVE  PamInv'
<1>1. host \in Pam!Host /\ host' = host  BY DEF PamInv, PamType, Pam!Begin
<1> DEFINE files == {PamParams.Rewritten[i] : i \in DOMAIN PamParams.Rewritten}
           text == [f \in Pam!Conf |-> Pam!InForce(host, f)]
<1>2. PICK config \in PamParams.Configs, blind \in SUBSET files :
         call' = [Pam!Idle EXCEPT !.pc = "observe", !.config = config, !.blind = blind,
                                  !.ok = (blind = {}), !.text = text,
                                  !.announced = Pam!Announced(config, host),
                                  !.drifted = Pam!Drifted(host)]
  BY Zenon DEF Pam!Begin
<1> DEFINE ok == (blind = {})
           announced == Pam!Announced(config, host)
           drifted == Pam!Drifted(host)
<1>3. blind \in SUBSET Pam!Conf
  <2>1. PamParams.Rewritten \in Seq(Pam!Conf)  BY HardeningAssumption DEF Pam!PamAssumption
  <2> QED  BY <2>1
<1>4. text \in [Pam!Conf -> Pam!File]  BY <1>1 DEF Pam!Host, Pam!InForce
<1>5. announced \in SUBSET Pam!Directive /\ drifted \in SUBSET Pam!Conf
  BY DEF Pam!Announced, Pam!Drifted
<1>6. ok \in BOOLEAN /\ (ok => blind = {})  OBVIOUS
<1>7. call' = [pc |-> "observe", step |-> 0, result |-> "none", quiet |-> TRUE, ok |-> ok,
               config |-> config, blind |-> blind, text |-> text,
               seen |-> [d \in Pam!Directive |-> Unset], announced |-> announced,
               drifted |-> drifted]
  BY <1>2 DEF Pam!Idle
<1>8. \A f \in Pam!Conf : text[f] = Pam!InForce(host, f)  OBVIOUS
<1> HIDE DEF ok, announced, drifted, text
<1>9. Unset \in PamParams.Value  BY HardeningAssumption DEF Pam!PamAssumption
<1>10. call' \in PamCall  BY <1>3, <1>4, <1>5, <1>6, <1>7, <1>9 DEF PamCall
<1>11. PamApplying'
  <2>1. \A f \in PamFilesAhead(call') : text[f] = Pam!InForce(host, f)
    BY <1>8 DEF PamFilesAhead
  <2> QED  BY <1>1, <1>6, <1>7, <2>1 DEF PamApplying, announced, drifted
<1> QED  BY <1>1, <1>7, <1>10, <1>11 DEF PamInv, PamType, Pam!SuccessMeansHardened

LEMMA PamObserves ==
  ASSUME HardeningAssumption, PamInv, Pam!Observe
  PROVE  PamInv'
<1>1. host \in Pam!Host /\ call \in PamCall /\ call.pc = "observe" /\ host' = host
      /\ call.result = "none"
  BY DEF PamInv, PamType, Pam!Observe
<1> DEFINE seen == [d \in Pam!Directive |->
                      IF PamParams.FileOf[d] \in call.blind THEN Unset
                      ELSE IF \E i \in DOMAIN PamParams.Rewritten :
                                 PamParams.FileOf[d] = PamParams.Rewritten[i]
                      THEN call.text[PamParams.FileOf[d]].set[d]
                      ELSE Pam!Observed(host, {}, d)]
           ok == call.ok /\ \A d \in Pam!Directive : Pam!Presence(host, d) # "out"
<1>2. call' = [call EXCEPT !.pc = "lockout", !.step = 1, !.ok = ok, !.seen = seen]
  BY <1>1 DEF Pam!Observe, Pam!Goto, PamCall
<1>3. \A d \in Pam!Directive : PamParams.FileOf[d] \in Pam!Conf /\ d \in Pam!Key
  BY DEF Pam!Conf, Pam!Key
<1>4. Unset \in PamParams.Value  BY HardeningAssumption DEF Pam!PamAssumption
<1>5. \A d \in Pam!Directive : Pam!Observed(host, {}, d) \in PamParams.Value
  BY <1>1, <1>3, <1>4 DEF Pam!Host, Pam!File, Pam!Observed, Pam!Inline, Pam!InForce
<1>6. \A d \in Pam!Directive : call.text[PamParams.FileOf[d]].set[d] \in PamParams.Value
  BY <1>1, <1>3 DEF PamCall, Pam!File
<1>7. seen \in [Pam!Directive -> PamParams.Value]  BY <1>4, <1>5, <1>6
<1>8. ok \in BOOLEAN /\ (ok => call.ok /\ \A d \in Pam!Directive : Pam!Presence(host, d) # "out")
  BY <1>1 DEF PamCall
<1>9. \A d \in Pam!Directive :
         seen[d] = IF PamParams.FileOf[d] \in call.blind THEN Unset
                   ELSE IF \E i \in DOMAIN PamParams.Rewritten :
                              PamParams.FileOf[d] = PamParams.Rewritten[i]
                   THEN call.text[PamParams.FileOf[d]].set[d]
                   ELSE Pam!Observed(host, {}, d)
  OBVIOUS
<1> HIDE DEF seen, ok
<1>10. /\ call' \in PamCall /\ call'.pc = "lockout" /\ call'.step = 1 /\ call'.ok = ok
       /\ call'.seen = seen /\ call'.result = call.result /\ call'.quiet = call.quiet
       /\ call'.config = call.config /\ call'.blind = call.blind /\ call'.text = call.text
       /\ call'.announced = call.announced /\ call'.drifted = call.drifted
  BY <1>1, <1>2, <1>7, <1>8 DEF PamCall
<1>11. PamApplying'
  <2> SUFFICES ASSUME call.quiet PROVE PamApplying'
    BY <1>10 DEF PamApplying
  <2>1. /\ Pam!Announced(call.config, host) \subseteq call.announced
        /\ Pam!Drifted(host) \subseteq call.drifted
        /\ call.ok => call.blind = {}
        /\ \A f \in PamFilesAhead(call) : call.text[f] = Pam!InForce(host, f)
    BY <1>1 DEF PamInv, PamApplying
  <2>2. PamFilesAhead(call') = PamFilesAhead(call)
    BY <1>1, <1>10 DEF PamFilesAhead
  <2>3. ASSUME NEW d \in Pam!Directive
        PROVE  seen[d] = IF PamParams.FileOf[d] \in call.blind THEN Unset
                         ELSE Pam!Observed(host, {}, d)
    <3>1. CASE \E i \in DOMAIN PamParams.Rewritten :
                  PamParams.FileOf[d] = PamParams.Rewritten[i]
      <4>1. PamParams.FileOf[d] \in PamFilesAhead(call)
        BY <1>1, <1>3, <3>1 DEF PamFilesAhead
      <4>2. Pam!Inline(host, d) = Unset
        BY <3>1, HardeningAssumption DEF Pam!PamAssumption, Pam!Inline
      <4>3. Pam!Observed(host, {}, d) = Pam!InForce(host, PamParams.FileOf[d]).set[d]
        BY <4>2 DEF Pam!Observed
      <4> QED  BY <1>9, <2>1, <3>1, <4>1, <4>3
    <3>2. CASE ~\E i \in DOMAIN PamParams.Rewritten :
                   PamParams.FileOf[d] = PamParams.Rewritten[i]
      BY <1>9, <3>2
    <3> QED  BY <3>1, <3>2
  <2>4. Pam!Directive \subseteq PamAhead(call')
    <3> SUFFICES ASSUME NEW d \in Pam!Directive PROVE d \in PamAhead(call')
      OBVIOUS
    <3>1. CASE \E i \in DOMAIN PamParams.Rewritten :
                  PamParams.Rewritten[i] = PamParams.FileOf[d]
      BY <1>3, <1>10, <3>1 DEF PamAhead, PamFilesAhead
    <3>2. CASE \E i \in DOMAIN PamParams.Lockout : PamParams.Lockout[i] = d
      <4>1. PamParams.Lockout \in Seq(Pam!Directive)
        BY HardeningAssumption DEF Pam!PamAssumption
      <4>2. \A i \in DOMAIN PamParams.Lockout : i >= 1  BY <4>1
      <4> QED  BY <1>10, <3>2, <4>2 DEF PamAhead
    <3> QED  BY <3>1, <3>2, HardeningAssumption DEF Pam!PamAssumption
  <2>5. \A f \in PamFilesAhead(call') : call'.text[f] = Pam!InForce(host', f)
    BY <1>1, <1>10, <2>1, <2>2
  <2>6. \A d \in PamAhead(call') :
           call'.seen[d] = IF PamParams.FileOf[d] \in call'.blind THEN Unset
                           ELSE Pam!Observed(host', {}, d)
    BY <1>1, <1>10, <2>3 DEF PamAhead
  <2>7. /\ Pam!Announced(call'.config, host') \subseteq call'.announced
        /\ Pam!Drifted(host') \subseteq call'.drifted
        /\ call'.ok => call'.blind = {} /\ \A d \in Pam!Directive : Pam!Presence(host', d) # "out"
    BY <1>1, <1>8, <1>10, <2>1
  <2> QED  BY <2>4, <2>5, <2>6, <2>7 DEF PamApplying
<1>12. call'.blind \subseteq {PamParams.Rewritten[i] : i \in DOMAIN PamParams.Rewritten}
  BY <1>10 DEF PamInv
<1> QED
  BY <1>1, <1>10, <1>11, <1>12 DEF PamInv, PamType, Pam!SuccessMeansHardened

\* What a step leaves ahead.
LEMMA PamAfterLockout ==
  ASSUME HardeningAssumption, PamInv, call.pc = "lockout", call.step \in DOMAIN PamParams.Lockout,
         call'.pc = "lockout", call'.step = call.step + 1
  PROVE  LET d == PamParams.Lockout[call.step] IN
         /\ d \in PamAhead(call) /\ PamParams.FileOf[d] \notin PamFilesAhead(call)
         /\ PamFilesAhead(call') = PamFilesAhead(call)
         /\ PamAhead(call') = PamAhead(call) \ {d}
<1> DEFINE d == PamParams.Lockout[call.step]
<1>1. PamParams.Lockout \in Seq(Pam!Directive)
  BY HardeningAssumption DEF Pam!PamAssumption
<1>2. d \in Pam!Directive /\ call.step \in Nat  BY <1>1
<1>3. \A i, j \in DOMAIN PamParams.Lockout :
         i \in Nat /\ (PamParams.Lockout[i] = PamParams.Lockout[j] => i = j)
  BY <1>1, HardeningAssumption DEF Pam!PamAssumption
<1>4. ~\E i \in DOMAIN PamParams.Rewritten : PamParams.Rewritten[i] = PamParams.FileOf[d]
  BY <1>2, HardeningAssumption DEF Pam!PamAssumption
<1>5. PamFilesAhead(call') = PamFilesAhead(call) /\ PamParams.FileOf[d] \notin PamFilesAhead(call)
  BY <1>4 DEF PamFilesAhead
<1>6. d \in PamAhead(call)  BY <1>2, <1>3 DEF PamAhead
<1>7. PamAhead(call') = PamAhead(call) \ {d}
  <2>1. ASSUME NEW i \in DOMAIN PamParams.Lockout
        PROVE  i >= call.step + 1 <=> i >= call.step /\ PamParams.Lockout[i] # d
    BY <1>2, <1>3
  <2> QED  BY <1>5, <2>1 DEF PamAhead
<1> QED  BY <1>5, <1>6, <1>7

LEMMA PamAfterRewrite ==
  ASSUME HardeningAssumption, PamInv, call.pc = "rewrite", call.step \in DOMAIN PamParams.Rewritten,
         call'.pc = "rewrite", call'.step = call.step + 1
  PROVE  LET f == PamParams.Rewritten[call.step] IN
         /\ f \in Pam!Conf /\ f \in PamFilesAhead(call)
         /\ PamFilesAhead(call') = PamFilesAhead(call) \ {f}
         /\ PamAhead(call') = PamAhead(call) \ {d \in Pam!Directive : PamParams.FileOf[d] = f}
<1> DEFINE f == PamParams.Rewritten[call.step]
<1>1. PamParams.Rewritten \in Seq(Pam!Conf)
  BY HardeningAssumption DEF Pam!PamAssumption
<1>2. f \in Pam!Conf /\ call.step \in Nat  BY <1>1
<1>3. \A i, j \in DOMAIN PamParams.Rewritten :
         i \in Nat /\ (PamParams.Rewritten[i] = PamParams.Rewritten[j] => i = j)
  BY <1>1, HardeningAssumption DEF Pam!PamAssumption
<1>4. f \in PamFilesAhead(call)  BY <1>2, <1>3 DEF PamFilesAhead
<1>5. PamFilesAhead(call') = PamFilesAhead(call) \ {f}
  <2>1. ASSUME NEW i \in DOMAIN PamParams.Rewritten
        PROVE  i >= call.step + 1 <=> i >= call.step /\ PamParams.Rewritten[i] # f
    BY <1>2, <1>3
  <2> QED  BY <2>1 DEF PamFilesAhead
<1> QED  BY <1>2, <1>4, <1>5 DEF PamAhead

\* A preview announces what something is still asked of.
LEMMA PamAsks ==
  ASSUME NEW config, NEW h, NEW d \in Pam!Directive
  PROVE  d \in Pam!Announced(config, h) <=> ~PamMet(config, h, d)
BY DEF Pam!Announced, PamMet

\* The directives of a set are left behind: nothing more is asked of each, or the
\* apply has failed and let it be.
LEMMA PamPasses ==
  ASSUME HardeningAssumption, PamInv, call.pc \in {"lockout", "rewrite"},
         NEW ok \in BOOLEAN, ok => call.ok,
         call' = [call EXCEPT !.step = @ + 1, !.ok = ok], host' \in Pam!Host,
         NEW D, PamAhead(call') = PamAhead(call) \ D,
         \A f \in PamFilesAhead(call') :
            f \in PamFilesAhead(call) /\ Pam!InForce(host', f) = Pam!InForce(host, f),
         \A d \in Pam!Directive \ D : Pam!Observed(host', {}, d) = Pam!Observed(host, {}, d),
         \A d \in Pam!Directive : Pam!Presence(host', d) = Pam!Presence(host, d),
         call.quiet => \A f \in Pam!Conf : Pam!Masked(host', f) \subseteq Pam!Masked(host, f),
         call.quiet => \A d \in Pam!Directive \cap D :
            \/ PamMet(call.config, host', d)
            \/ ~ok /\ Pam!Observed(host', {}, d) = Pam!Observed(host, {}, d)
  PROVE  PamInv'
<1>1. call \in PamCall /\ call.step \in Nat /\ call.step > 0 /\ call.result = "none"
  BY DEF PamInv, PamType, PamCall
<1> DEFINE step == call.step + 1
<1>2. step \in Nat /\ step > 0  BY <1>1
<1>3. call' = [call EXCEPT !.step = step, !.ok = ok]  OBVIOUS
<1> HIDE DEF step
<1>4. /\ call' \in PamCall /\ call'.step = step /\ call'.ok = ok /\ call'.pc = call.pc
      /\ call'.result = call.result /\ call'.quiet = call.quiet /\ call'.config = call.config
      /\ call'.blind = call.blind /\ call'.text = call.text /\ call'.seen = call.seen
      /\ call'.announced = call.announced /\ call'.drifted = call.drifted
  BY <1>1, <1>2, <1>3 DEF PamCall
<1>5. PamApplying'
  <2> SUFFICES ASSUME call.quiet PROVE PamApplying'
    BY <1>4 DEF PamApplying
  <2>1. /\ Pam!Announced(call.config, host) \subseteq call.announced
        /\ Pam!Drifted(host) \subseteq call.drifted
        /\ call.ok => call.blind = {}
        /\ \A f \in PamFilesAhead(call) : call.text[f] = Pam!InForce(host, f)
        /\ \A d \in PamAhead(call) :
              call.seen[d] = IF PamParams.FileOf[d] \in call.blind THEN Unset
                             ELSE Pam!Observed(host, {}, d)
        /\ call.ok =>
              /\ \A d \in Pam!Directive : Pam!Presence(host, d) # "out"
              /\ \A d \in Pam!Directive \ PamAhead(call) : PamMet(call.config, host, d)
    BY DEF PamInv, PamApplying
  <2>2. \A f \in PamFilesAhead(call') : call'.text[f] = Pam!InForce(host', f)
    BY <1>4, <2>1
  <2>3. PamAhead(call') \subseteq Pam!Directive  BY DEF PamAhead
  <2>4. \A d \in PamAhead(call') :
           call'.seen[d] = IF PamParams.FileOf[d] \in call'.blind THEN Unset
                           ELSE Pam!Observed(host', {}, d)
    BY <1>4, <2>1, <2>3
  <2>5. \A d \in Pam!Directive :
           Pam!Observed(host', {}, d) = Pam!Observed(host, {}, d) =>
              (PamMet(call.config, host', d) <=> PamMet(call.config, host, d))
    BY DEF PamMet
  <2>6. \A d \in Pam!Directive \ PamAhead(call') : call'.ok => PamMet(call'.config, host', d)
    BY <1>4, <2>1, <2>5
  <2>7. Pam!Announced(call'.config, host') \subseteq call'.announced
    <3> SUFFICES ASSUME NEW d \in Pam!Announced(call.config, host')
                 PROVE  d \in call.announced
      BY <1>4
    <3>1. d \in Pam!Directive  BY DEF Pam!Announced
    <3>2. ~PamMet(call.config, host', d)  BY <3>1, PamAsks
    <3>3. ~PamMet(call.config, host, d)  BY <2>5, <3>1, <3>2
    <3> QED  BY <2>1, <3>1, <3>3, PamAsks
  <2>8. Pam!Drifted(host') \subseteq call'.drifted
    BY <1>4, <2>1 DEF Pam!Drifted
  <2>9. call'.ok =>
           /\ call'.blind = {}
           /\ \A d \in Pam!Directive : Pam!Presence(host', d) # "out"
    BY <1>4, <2>1
  <2> QED  BY <1>4, <2>2, <2>4, <2>6, <2>7, <2>8, <2>9 DEF PamApplying
<1>6. call'.blind \subseteq {PamParams.Rewritten[i] : i \in DOMAIN PamParams.Rewritten}
  BY <1>4 DEF PamInv
<1> QED
  BY <1>1, <1>2, <1>4, <1>5, <1>6 DEF PamInv, PamType, Pam!SuccessMeansHardened

\* What is left as it is loosens nothing, hides nothing and needs no announcement.
LEMMA PamSame ==
  ASSUME HardeningAssumption, NEW d \in Pam!Directive, NEW v,
         Pam!Placeable(PamParams.Compare[d], v)
  PROVE  ~Pam!ViolatedBy(PamParams.Compare[d], v, v)
<1> DEFINE compare == PamParams.Compare[d]
<1>1. compare.kind \in {"AtMost", "AtLeast", "NonZeroAtMost"}
  BY HardeningAssumption DEF Pam!PamAssumption
<1> HIDE DEF compare
<1>2. MaxInt \in Nat /\ MinInt = -MaxInt - 1  BY WidthAssumption
<1>3. v \in MinInt..MaxInt  BY <1>1 DEF Pam!Placeable, compare
<1>4. Pam!Score(compare, v) \in Int  BY <1>1, <1>2, <1>3 DEF Pam!Score, Pam!Negated
<1> QED  BY <1>4 DEF Pam!ViolatedBy, compare

LEMMA PamStays ==
  ASSUME HardeningAssumption, host' = host
  PROVE  Pam!VendorSurvives /\ Pam!NeverLoosens /\ Pam!PreviewIsHonest
BY PamSame DEF Pam!VendorSurvives, Pam!NeverLoosens, Pam!PreviewIsHonest

\* The value seen of a directive that is ahead, in a file of the lockout's, is in force.
LEMMA PamLockouts ==
  ASSUME HardeningAssumption, PamInv, Pam!WriteLockout
  PROVE  PamInv' /\ Pam!VendorSurvives /\ Pam!NeverLoosens /\ Pam!PreviewIsHonest
<1>1. /\ host \in Pam!Host /\ call \in PamCall /\ call.pc = "lockout" /\ call.step \in Nat
      /\ call.step \in DOMAIN PamParams.Lockout
  BY DEF PamInv, PamType, PamCall, Pam!WriteLockout
<1> DEFINE d == PamParams.Lockout[call.step]
           f == PamParams.FileOf[d]
           target == Pam!Target(call.config, d)
           set == [Pam!InForce(host, f).set EXCEPT ![d] = target]
           text == [there |-> TRUE, set |-> set]
           enough == \/ Pam!Excepted(call.config, d, call.seen[d])
                     \/ ~Pam!ViolatedBy(PamParams.Compare[d], target, call.seen[d])
<1>2. d \in Pam!Directive /\ f \in Pam!Conf /\ d \in Pam!Key
  <2>1. PamParams.Lockout \in Seq(Pam!Directive)
    BY HardeningAssumption DEF Pam!PamAssumption
  <2> QED  BY <1>1, <2>1 DEF Pam!Conf, Pam!Key
<1>3. call.quiet => call.seen[d] = Pam!Observed(host, {}, d) /\ d \in PamAhead(call)
  <2> SUFFICES ASSUME call.quiet
               PROVE  call.seen[d] = Pam!Observed(host, {}, d) /\ d \in PamAhead(call)
    OBVIOUS
  <2>1. d \in PamAhead(call)
    BY <1>1, <1>2 DEF PamAhead
  <2>2. f \notin call.blind
    <3>1. call.blind \subseteq {PamParams.Rewritten[i] : i \in DOMAIN PamParams.Rewritten}
      BY DEF PamInv
    <3>2. ~\E i \in DOMAIN PamParams.Rewritten : PamParams.Rewritten[i] = f
      BY <1>1, <1>2, HardeningAssumption DEF Pam!PamAssumption
    <3> QED  BY <3>1, <3>2
  <2>3. call.seen[d] = IF f \in call.blind THEN Unset ELSE Pam!Observed(host, {}, d)
    BY <1>1, <2>1 DEF PamInv, PamApplying
  <2> QED  BY <2>1, <2>2, <2>3
<1>4. ASSUME NEW ok \in BOOLEAN, ok => call.ok,
             call' = [call EXCEPT !.step = @ + 1, !.ok = ok]
      PROVE  /\ PamFilesAhead(call') = PamFilesAhead(call)
             /\ PamAhead(call') = PamAhead(call) \ {d} /\ f \notin PamFilesAhead(call)
             /\ call'.quiet = call.quiet
  BY <1>1, <1>4, PamAfterLockout DEF PamCall
<1>5. \/ /\ host' = host
         /\ \/ enough /\ call' = [call EXCEPT !.pc = "lockout", !.step = call.step + 1]
            \/ call' = [call EXCEPT !.step = @ + 1, !.ok = FALSE]
      \/ /\ ~enough /\ Pam!Inline(host, d) = Unset
         /\ host' = [host EXCEPT !.admin[f] = text] /\ call' = [call EXCEPT !.step = @ + 1]
  BY <1>1 DEF Pam!WriteLockout, Pam!Rewrite, Pam!Goto
<1>6. CASE host' = host /\ call' = [call EXCEPT !.step = @ + 1, !.ok = FALSE]
  <2>1. PamInv'  BY <1>1, <1>4, <1>6, PamPasses
  <2> QED  BY <1>6, <2>1, PamStays
<1>7. CASE /\ host' = host /\ enough
           /\ call' = [call EXCEPT !.pc = "lockout", !.step = call.step + 1]
  <2>1. call' = [call EXCEPT !.step = @ + 1, !.ok = call.ok] /\ call.ok \in BOOLEAN
    BY <1>1, <1>7 DEF PamCall
  <2>2. call.quiet => PamMet(call.config, host', d)  BY <1>3, <1>7 DEF PamMet
  <2>3. PamInv'  BY <1>1, <1>4, <1>7, <2>1, <2>2, PamPasses
  <2> QED  BY <1>7, <2>3, PamStays
<1>8. CASE /\ ~enough /\ Pam!Inline(host, d) = Unset
           /\ host' = [host EXCEPT !.admin[f] = text] /\ call' = [call EXCEPT !.step = @ + 1]
  <2>1. call' = [call EXCEPT !.step = @ + 1, !.ok = call.ok] /\ call.ok \in BOOLEAN
    BY <1>1, <1>8 DEF PamCall
  <2>2. target \in Pam!Given  BY <1>2, PamTargets
  <2>3. target \in PamParams.Value /\ target # Unset
    BY <2>2, HardeningAssumption DEF Pam!PamAssumption
  <2>4. Pam!InForce(host, f) \in Pam!File  BY <1>1, <1>2 DEF Pam!Host, Pam!InForce
  <2>5. /\ set \in [Pam!Key -> PamParams.Value] /\ set[d] = target
        /\ \A k \in Pam!Key \ {d} : set[k] = Pam!InForce(host, f).set[k]
    BY <1>2, <2>3, <2>4 DEF Pam!File
  <2> HIDE DEF set
  <2>6. text \in Pam!File /\ text.there /\ text.set = set  BY <2>5 DEF Pam!File
  <2> HIDE DEF text
  <2>7. /\ host' \in Pam!Host
        /\ \A g \in Pam!Conf \ {f} : Pam!InForce(host', g) = Pam!InForce(host, g)
        /\ \A e \in Pam!Directive : Pam!Presence(host', e) = Pam!Presence(host, e)
        /\ \A e \in Pam!Directive : PamParams.FileOf[e] # f \/ text.set[e] = Pam!InForce(host, f).set[e] =>
              Pam!Observed(host', {}, e) = Pam!Observed(host, {}, e)
        /\ Pam!Observed(host', {}, d) = target
        /\ (\A k \in Pam!Key : text.set[k] = Unset => Pam!InForce(host, f).set[k] = Unset) =>
              \A g \in Pam!Conf : Pam!Masked(host', g) \subseteq Pam!Masked(host, g)
    BY <1>2, <1>8, <2>5, <2>6, PamWrites
  <2>8. \A e \in Pam!Directive \ {d} : Pam!Observed(host', {}, e) = Pam!Observed(host, {}, e)
    <3> SUFFICES ASSUME NEW e \in Pam!Directive \ {d}
                 PROVE  Pam!Observed(host', {}, e) = Pam!Observed(host, {}, e)
      OBVIOUS
    <3>1. e \in Pam!Key  BY DEF Pam!Key
    <3> QED  BY <2>5, <2>6, <2>7, <3>1
  <2>9. ~Pam!ViolatedBy(PamParams.Compare[d], target, target)
    <3>1. Pam!Placeable(PamParams.Compare[d], target)
      BY <1>2, <2>2, HardeningAssumption DEF Pam!PamAssumption, Pam!Placeable, Pam!Given
    <3> QED  BY <1>2, <3>1, PamSame
  <2>10. PamMet(call.config, host', d)  BY <2>7, <2>9 DEF PamMet
  <2>11. \A g \in PamFilesAhead(call') :
            g \in PamFilesAhead(call) /\ Pam!InForce(host', g) = Pam!InForce(host, g)
    BY <1>4, <2>1, <2>7 DEF PamFilesAhead
  <2>12. \A g \in Pam!Conf : Pam!Masked(host', g) \subseteq Pam!Masked(host, g)
    <3>1. \A k \in Pam!Key : text.set[k] = Unset => Pam!InForce(host, f).set[k] = Unset
      BY <2>3, <2>5, <2>6
    <3> QED  BY <2>7, <3>1
  <2>13. PamInv' /\ Pam!VendorSurvives
    BY <1>1, <1>4, <2>1, <2>7, <2>8, <2>10, <2>11, <2>12, PamPasses DEF Pam!VendorSurvives
  <2>14. Pam!NeverLoosens
    <3> SUFFICES ASSUME call.quiet, NEW e \in Pam!Directive,
                        Pam!Placeable(PamParams.Compare[e], Pam!Observed(host, {}, e))
                 PROVE  ~Pam!ViolatedBy(PamParams.Compare[e], Pam!Observed(host, {}, e),
                                        Pam!Observed(host', {}, e))
      BY <1>4, <2>1 DEF Pam!NeverLoosens
    <3>1. CASE e # d  BY <2>8, <3>1, PamSame
    <3>2. CASE e = d
      <4> DEFINE was == Pam!Observed(host, {}, d)
      <4>1. Pam!ViolatedBy(PamParams.Compare[d], target, was)  BY <1>3, <1>8
      <4>2. was \in Pam!Given
        BY <1>2, <3>2, HardeningAssumption DEF Pam!PamAssumption, Pam!Placeable, Pam!Given
      <4>3. ~Pam!ViolatedBy(PamParams.Compare[d], was, target)
        <5> HIDE DEF was, target
        <5> DEFINE compare == PamParams.Compare[d]
        <5>1. compare.kind \in {"AtMost", "AtLeast", "NonZeroAtMost"}
          BY <1>2, HardeningAssumption DEF Pam!PamAssumption
        <5> HIDE DEF compare
        <5>2. MaxInt \in Nat /\ MinInt = -MaxInt - 1  BY WidthAssumption
        <5>3. /\ Pam!Score(compare, was) \in Int /\ Pam!Score(compare, target) \in Int
              /\ Pam!Placeable(compare, was) /\ Pam!Placeable(compare, target)
          BY <2>2, <4>2, <5>1, <5>2 DEF Pam!Score, Pam!Negated, Pam!Given, Pam!Placeable
        <5> QED  BY <4>1, <5>3 DEF Pam!ViolatedBy, compare
      <4> QED  BY <2>7, <3>2, <4>3
    <3> QED  BY <3>1, <3>2
  <2>15. Pam!PreviewIsHonest
    <3> SUFFICES ASSUME call.quiet PROVE d \in call.announced
      BY <1>4, <2>1, <2>8 DEF Pam!PreviewIsHonest
    <3>1. ~PamMet(call.config, host, d)  BY <1>3, <1>8 DEF PamMet
    <3>2. d \in Pam!Announced(call.config, host)  BY <1>2, <3>1, PamAsks
    <3> QED  BY <1>1, <3>2 DEF PamInv, PamApplying
  <2> QED  BY <2>13, <2>14, <2>15
<1> QED  BY <1>5, <1>6, <1>7, <1>8

\* No configuration asks for one of the two least numbers, which negate to the same.
PamTargetsApart ==
    \A config \in PamParams.Configs, d \in Pam!Directive :
        Pam!Target(config, d) > MinInt + 1

LEMMA PamRewrites ==
  ASSUME HardeningAssumption, PamInv, Pam!WriteFile
  PROVE  /\ PamInv' /\ Pam!VendorSurvives /\ Pam!NeverLoosens
         /\ PamTargetsApart => Pam!PreviewIsHonest
<1>1. /\ host \in Pam!Host /\ call \in PamCall /\ call.pc = "rewrite" /\ call.step \in Nat
      /\ call.step \in DOMAIN PamParams.Rewritten
  BY DEF PamInv, PamType, PamCall, Pam!WriteFile
<1> DEFINE f == PamParams.Rewritten[call.step]
           D == {d \in Pam!Directive : PamParams.FileOf[d] = f}
           set == [k \in Pam!Key |->
                     IF k \in Pam!Directive /\ PamParams.FileOf[k] = f
                        /\ ~Pam!Excepted(call.config, k, call.seen[k])
                     THEN Pam!Goal(k) ELSE call.text[f].set[k]]
           text == [there |-> TRUE, set |-> set]
<1>2. f \in Pam!Conf
  <2>1. PamParams.Rewritten \in Seq(Pam!Conf)  BY HardeningAssumption DEF Pam!PamAssumption
  <2> QED  BY <1>1, <2>1
<1>3. call.text[f] \in Pam!File  BY <1>1, <1>2 DEF PamCall
<1>4. ASSUME NEW d \in D
      PROVE  /\ d \in Pam!Directive /\ d \in Pam!Key /\ PamParams.FileOf[d] = f
             /\ Pam!Inline(host, d) = Unset
             /\ Pam!Target(call.config, d) \in Pam!Given
             /\ Pam!Goal(d) \in Pam!Given
             /\ ~Pam!ViolatedBy(PamParams.Compare[d], Pam!Target(call.config, d), Pam!Goal(d))
             /\ Pam!Placeable(PamParams.Compare[d], call.seen[d]) =>
                  ~Pam!ViolatedBy(PamParams.Compare[d], call.seen[d], Pam!Goal(d))
             /\ (Pam!Target(call.config, d) > MinInt + 1
                 /\ ~Pam!ViolatedBy(PamParams.Compare[d], Pam!Target(call.config, d), call.seen[d]))
                    => Pam!Goal(d) = call.seen[d]
  <2>1. d \in Pam!Directive /\ d \in Pam!Key  BY <1>4 DEF Pam!Key
  <2>2. ~\E i \in DOMAIN PamParams.Lockout : PamParams.Lockout[i] = d
    BY <1>1, <1>4, HardeningAssumption DEF Pam!PamAssumption
  <2>3. Pam!Inline(host, d) = Unset  BY <2>2 DEF Pam!Inline
  <2>4. Pam!Target(call.config, d) \in Pam!Given  BY <2>1, PamTargets
  <2> QED  BY <1>4, <2>1, <2>3, <2>4, PamClamps DEF Pam!Goal
<1>5. ASSUME call.quiet, f \notin call.blind, NEW d \in D
      PROVE  /\ call.seen[d] = Pam!Observed(host, {}, d)
             /\ call.seen[d] = call.text[f].set[d]
  <2>1. f \in PamFilesAhead(call)
    <3>1. call.step >= call.step  BY <1>1
    <3> QED  BY <1>1, <1>2, <3>1 DEF PamFilesAhead
  <2>2. d \in PamAhead(call)  BY <1>4, <1>5, <2>1 DEF PamAhead
  <2>3. call.text[f] = Pam!InForce(host, f)
    BY <1>1, <1>5, <2>1 DEF PamInv, PamApplying
  <2>4. call.seen[d] = Pam!Observed(host, {}, d)
    <3>1. call.seen[d] = IF PamParams.FileOf[d] \in call.blind THEN Unset
                         ELSE Pam!Observed(host, {}, d)
      BY <1>1, <1>5, <2>2 DEF PamInv, PamApplying
    <3> QED  BY <1>4, <1>5, <3>1
  <2>5. Pam!Observed(host, {}, d) = Pam!InForce(host, f).set[d]
    BY <1>4, <1>5 DEF Pam!Observed
  <2> QED  BY <2>3, <2>4, <2>5
<1>6. ASSUME NEW ok \in BOOLEAN, ok => call.ok,
             call' = [call EXCEPT !.step = @ + 1, !.ok = ok]
      PROVE  /\ PamFilesAhead(call') = PamFilesAhead(call) \ {f}
             /\ PamAhead(call') = PamAhead(call) \ D
             /\ call'.quiet = call.quiet
  BY <1>1, <1>6, PamAfterRewrite DEF PamCall
<1>7. set = Pam!Edited(f).set /\ text = Pam!Edited(f)
  BY Zenon DEF Pam!Edited
<1>8. /\ set \in [Pam!Key -> PamParams.Value]
      /\ \A k \in Pam!Key :
            set[k] = IF k \in D /\ ~Pam!Excepted(call.config, k, call.seen[k])
                     THEN Pam!Goal(k) ELSE call.text[f].set[k]
  <2>1. \A d \in D : Pam!Goal(d) \in PamParams.Value
    BY <1>4, HardeningAssumption DEF Pam!PamAssumption
  <2> QED  BY <1>3, <2>1 DEF Pam!File
<1> HIDE DEF set
<1>9. \/ /\ host' = host
         /\ \/ (f \in call.blind \/ set = call.text[f].set)
               /\ call' = [call EXCEPT !.pc = "rewrite", !.step = call.step + 1]
            \/ call' = [call EXCEPT !.step = @ + 1, !.ok = FALSE]
      \/ /\ f \notin call.blind
         /\ host' = [host EXCEPT !.admin[f] = text] /\ call' = [call EXCEPT !.step = @ + 1]
  BY <1>1, <1>7 DEF Pam!WriteFile, Pam!Rewrite, Pam!Goto
<1>10. CASE host' = host /\ call' = [call EXCEPT !.step = @ + 1, !.ok = FALSE]
  <2>1. PamInv'  BY <1>1, <1>6, <1>10, PamPasses
  <2> QED  BY <1>10, <2>1, PamStays
<1>11. CASE /\ host' = host /\ (f \in call.blind \/ set = call.text[f].set)
            /\ call' = [call EXCEPT !.pc = "rewrite", !.step = call.step + 1]
  <2>1. call' = [call EXCEPT !.step = @ + 1, !.ok = call.ok] /\ call.ok \in BOOLEAN
    BY <1>1, <1>11 DEF PamCall
  <2>2. ASSUME call.quiet, NEW d \in D
        PROVE  PamMet(call.config, host', d) \/ ~call.ok
    <3>1. CASE f \in call.blind
      BY <1>1, <2>2, <3>1 DEF PamInv, PamApplying
    <3>2. CASE f \notin call.blind /\ set = call.text[f].set
      <4>1. \/ Pam!Excepted(call.config, d, call.seen[d])
            \/ Pam!Goal(d) = call.seen[d]
        BY <1>4, <1>5, <1>8, <2>2, <3>2
      <4> QED  BY <1>4, <1>5, <1>11, <2>2, <3>2, <4>1 DEF PamMet
    <3> QED  BY <1>11, <3>1, <3>2
  <2>3. PamInv'  BY <1>1, <1>6, <1>11, <2>1, <2>2, PamPasses
  <2> QED  BY <1>11, <2>3, PamStays
<1>12. CASE /\ f \notin call.blind
            /\ host' = [host EXCEPT !.admin[f] = text] /\ call' = [call EXCEPT !.step = @ + 1]
  <2>1. call' = [call EXCEPT !.step = @ + 1, !.ok = call.ok] /\ call.ok \in BOOLEAN
    BY <1>1, <1>12 DEF PamCall
  <2>2. text \in Pam!File /\ text.there /\ text.set = set  BY <1>8 DEF Pam!File
  <2> HIDE DEF text
  <2>3. /\ host' \in Pam!Host
        /\ \A g \in Pam!Conf \ {f} : Pam!InForce(host', g) = Pam!InForce(host, g)
        /\ \A e \in Pam!Directive :
             /\ Pam!Presence(host', e) = Pam!Presence(host, e)
             /\ PamParams.FileOf[e] # f => Pam!Observed(host', {}, e) = Pam!Observed(host, {}, e)
             /\ PamParams.FileOf[e] = f /\ Pam!Inline(host, e) = Unset =>
                  Pam!Observed(host', {}, e) = text.set[e]
        /\ (\A k \in Pam!Key : text.set[k] = Unset => Pam!InForce(host, f).set[k] = Unset) =>
              \A g \in Pam!Conf : Pam!Masked(host', g) \subseteq Pam!Masked(host, g)
    BY <1>2, <1>12, <2>2, PamWrites
  <2>4. ASSUME NEW d \in D PROVE Pam!Observed(host', {}, d) = set[d]
    BY <1>4, <2>2, <2>3, <2>4
  <2>5. \A e \in Pam!Directive \ D : Pam!Observed(host', {}, e) = Pam!Observed(host, {}, e)
    BY <2>3
  <2>6. ASSUME call.quiet, NEW d \in D
        PROVE  \/ /\ Pam!Excepted(call.config, d, Pam!Observed(host, {}, d))
                  /\ Pam!Observed(host', {}, d) = Pam!Observed(host, {}, d)
               \/ Pam!Observed(host', {}, d) = Pam!Goal(d)
    BY <1>4, <1>5, <1>8, <1>12, <2>4, <2>6
  <2>7. ASSUME call.quiet, NEW d \in D PROVE PamMet(call.config, host', d)
    BY <1>4, <2>6, <2>7 DEF PamMet
  <2>8. \A g \in PamFilesAhead(call') :
           g \in PamFilesAhead(call) /\ Pam!InForce(host', g) = Pam!InForce(host, g)
    BY <1>6, <2>1, <2>3 DEF PamFilesAhead
  <2>9. ASSUME call.quiet
        PROVE  \A g \in Pam!Conf : Pam!Masked(host', g) \subseteq Pam!Masked(host, g)
    <3>1. call.text[f] = Pam!InForce(host, f)
      <4>1. f \in PamFilesAhead(call)
        <5>1. call.step >= call.step  BY <1>1
        <5> QED  BY <1>1, <1>2, <5>1 DEF PamFilesAhead
      <4> QED  BY <1>1, <2>9, <4>1 DEF PamInv, PamApplying
    <3>2. ASSUME NEW k \in Pam!Key, set[k] = Unset
          PROVE  Pam!InForce(host, f).set[k] = Unset
      <4>1. k \in D => Pam!Goal(k) # Unset
        BY <1>4, HardeningAssumption DEF Pam!PamAssumption
      <4> QED  BY <1>8, <3>1, <3>2, <4>1
    <3> QED  BY <2>2, <2>3, <3>2
  <2>10. PamInv' /\ Pam!VendorSurvives
    BY <1>1, <1>6, <2>1, <2>3, <2>5, <2>7, <2>8, <2>9, PamPasses DEF Pam!VendorSurvives
  <2>11. Pam!NeverLoosens
    <3> SUFFICES ASSUME call.quiet, NEW e \in Pam!Directive,
                        Pam!Placeable(PamParams.Compare[e], Pam!Observed(host, {}, e))
                 PROVE  ~Pam!ViolatedBy(PamParams.Compare[e], Pam!Observed(host, {}, e),
                                        Pam!Observed(host', {}, e))
      BY <1>6, <2>1 DEF Pam!NeverLoosens
    <3>1. CASE Pam!Observed(host', {}, e) = Pam!Observed(host, {}, e)  BY <3>1, PamSame
    <3>2. CASE e \in D /\ Pam!Observed(host', {}, e) = Pam!Goal(e)
      BY <1>4, <1>5, <1>12, <3>2
    <3> QED  BY <2>5, <2>6, <3>1, <3>2
  <2>12. ASSUME PamTargetsApart PROVE Pam!PreviewIsHonest
    <3> SUFFICES ASSUME call.quiet, NEW d \in D,
                        Pam!Observed(host', {}, d) # Pam!Observed(host, {}, d)
                 PROVE  d \in call.announced
      BY <1>6, <2>1, <2>5 DEF Pam!PreviewIsHonest
    <3>1. Pam!Observed(host', {}, d) = Pam!Goal(d)  BY <2>6
    <3>2. call.seen[d] = Pam!Observed(host, {}, d)  BY <1>5, <1>12
    <3>3. Pam!Target(call.config, d) > MinInt + 1
      BY <1>1, <1>4, <2>12 DEF PamTargetsApart, PamCall
    <3>4. Pam!ViolatedBy(PamParams.Compare[d], Pam!Target(call.config, d), call.seen[d])
      BY <1>4, <3>1, <3>2, <3>3
    <3>5. ~Pam!Excepted(call.config, d, call.seen[d])
      BY <1>4, <1>5, <1>8, <1>12, <2>4, <3>2
    <3>6. d \in Pam!Announced(call.config, host)
      BY <1>4, <3>2, <3>4, <3>5 DEF Pam!Announced
    <3> QED  BY <1>1, <3>6 DEF PamInv, PamApplying
  <2> QED  BY <2>10, <2>11, <2>12
<1> QED  BY <1>9, <1>10, <1>11, <1>12

LEMMA PamFinishes ==
  ASSUME HardeningAssumption, PamInv, Pam!Finish
  PROVE  PamInv'
<1>1. /\ host \in Pam!Host /\ call \in PamCall /\ host' = host /\ call.pc = "rewrite"
      /\ call.step \notin DOMAIN PamParams.Rewritten /\ call.step \in Nat /\ call.step > 0
  BY DEF PamInv, PamType, PamCall, Pam!Finish
<1> DEFINE result == IF call.ok THEN "success" ELSE "failed"
<1>2. call' = [call EXCEPT !.pc = "idle", !.step = 0, !.result = result]
  BY <1>1 DEF Pam!Finish, Pam!Goto, PamCall
<1>3. result \in {"success", "failed"} /\ (result = "success" => call.ok)  OBVIOUS
<1> HIDE DEF result
<1>4. /\ call' \in PamCall /\ call'.pc = "idle" /\ call'.result = result
      /\ call'.quiet = call.quiet /\ call'.config = call.config /\ call'.blind = call.blind
      /\ call'.drifted = call.drifted
  BY <1>1, <1>2, <1>3 DEF PamCall
<1>5. PamAhead(call) = {}
  <2>1. PamParams.Rewritten \in Seq(Pam!Conf)  BY HardeningAssumption DEF Pam!PamAssumption
  <2>2. \A i \in DOMAIN PamParams.Rewritten : ~(i >= call.step)  BY <1>1, <2>1
  <2> QED  BY <1>1, <2>2 DEF PamAhead, PamFilesAhead
<1>6. Pam!SuccessMeansHardened'
  <2> SUFFICES ASSUME call.ok, call.quiet, NEW d \in Pam!Directive \ host.ignored
               PROVE  d \notin Pam!Findings(call.config, host)
    <3>1. call.quiet => Pam!Drifted(host) \subseteq call.drifted
      BY <1>1 DEF PamInv, PamApplying
    <3> QED  BY <1>1, <1>3, <1>4, <3>1 DEF Pam!SuccessMeansHardened, Pam!Findings
  <2>1. Pam!Presence(host, d) # "out" /\ PamMet(call.config, host, d)
    BY <1>1, <1>5 DEF PamInv, PamApplying
  <2>2. ASSUME Pam!Excepted(call.config, d, Pam!Observed(host, {}, d))
        PROVE  Pam!ExceptionOutcome(call.config.exceptions, d, Pam!Observed(host, {}, d))
                  = "applied"
    <3>1. call.config \in PamParams.Configs  BY <1>1 DEF PamCall
    <3>2. \A e1, e2 \in call.config.exceptions : e1.key = e2.key => e1 = e2
      BY <3>1, HardeningAssumption DEF Pam!PamAssumption
    <3>3. PICK e \in call.config.exceptions :
             e.key = d /\ e.allowed /\ ~e.expired /\ e.value = Pam!Observed(host, {}, d)
      BY <2>2 DEF Pam!Excepted, Pam!MatchingException, Pam!Documented
    <3>4. {x \in Pam!Documented(call.config.exceptions, d) : x.allowed} = {e}
      BY <3>2, <3>3 DEF Pam!Documented
    <3> QED  BY <3>3, <3>4 DEF Pam!ExceptionOutcome
  <2> QED  BY <2>1, <2>2 DEF PamMet, Pam!Findings
<1>7. call'.blind \subseteq {PamParams.Rewritten[i] : i \in DOMAIN PamParams.Rewritten}
  BY <1>4 DEF PamInv
<1> QED  BY <1>1, <1>4, <1>6, <1>7 DEF PamInv, PamType, PamApplying

\* Between steps, and where nothing is in progress, what is promised is kept.
LEMMA PamNext ==
  ASSUME HardeningAssumption, PamInv, Pam!Next
  PROVE  PamInv'
<1>1. host \in Pam!Host /\ call \in PamCall  BY DEF PamInv, PamType
<1>2. CASE Pam!LockoutDone
  <2>1. /\ host' = host /\ call.pc = "lockout" /\ call.step \notin DOMAIN PamParams.Lockout
        /\ call.step \in Nat /\ call.step > 0
        /\ call' = [call EXCEPT !.pc = "rewrite", !.step = 1]
    BY <1>1, <1>2 DEF PamInv, PamCall, Pam!LockoutDone, Pam!Goto
  <2>2. /\ call' \in PamCall /\ call'.pc = "rewrite" /\ call'.step = 1
        /\ call'.result = call.result /\ call'.quiet = call.quiet /\ call'.ok = call.ok
        /\ call'.config = call.config /\ call'.blind = call.blind /\ call'.text = call.text
        /\ call'.seen = call.seen /\ call'.announced = call.announced
        /\ call'.drifted = call.drifted
    BY <1>1, <2>1 DEF PamCall
  <2>3. PamParams.Rewritten \in Seq(Pam!Conf) /\ PamParams.Lockout \in Seq(Pam!Directive)
    BY HardeningAssumption DEF Pam!PamAssumption
  <2>4. PamFilesAhead(call') = PamFilesAhead(call)
    <3>1. \A i \in DOMAIN PamParams.Rewritten : i >= 1  BY <2>3
    <3> QED  BY <2>1, <2>2, <3>1 DEF PamFilesAhead
  <2>5. PamAhead(call') = PamAhead(call)
    <3>1. \A i \in DOMAIN PamParams.Lockout : ~(i >= call.step)  BY <2>1, <2>3
    <3> QED  BY <2>1, <2>2, <2>4, <3>1 DEF PamAhead
  <2>6. PamApplying'
    <3> SUFFICES ASSUME call.quiet PROVE PamApplying'
      BY <2>2 DEF PamApplying
    <3>1. /\ Pam!Announced(call.config, host) \subseteq call.announced
          /\ Pam!Drifted(host) \subseteq call.drifted
          /\ call.ok => call.blind = {}
          /\ \A f \in PamFilesAhead(call) : call.text[f] = Pam!InForce(host, f)
          /\ \A d \in PamAhead(call) :
                call.seen[d] = IF PamParams.FileOf[d] \in call.blind THEN Unset
                               ELSE Pam!Observed(host, {}, d)
          /\ call.ok =>
                /\ \A d \in Pam!Directive : Pam!Presence(host, d) # "out"
                /\ \A d \in Pam!Directive \ PamAhead(call) : PamMet(call.config, host, d)
      BY <2>1 DEF PamInv, PamApplying
    <3>2. \A f \in PamFilesAhead(call') : call'.text[f] = Pam!InForce(host', f)
      BY <2>1, <2>2, <2>4, <3>1
    <3>3. \A d \in PamAhead(call') :
             call'.seen[d] = IF PamParams.FileOf[d] \in call'.blind THEN Unset
                             ELSE Pam!Observed(host', {}, d)
      BY <2>1, <2>2, <2>5, <3>1
    <3>4. call'.ok =>
             /\ call'.blind = {} /\ \A d \in Pam!Directive : Pam!Presence(host', d) # "out"
             /\ \A d \in Pam!Directive \ PamAhead(call') : PamMet(call'.config, host', d)
      BY <2>1, <2>2, <2>5, <3>1
    <3>5. /\ Pam!Announced(call'.config, host') \subseteq call'.announced
          /\ Pam!Drifted(host') \subseteq call'.drifted
      BY <2>1, <2>2, <3>1
    <3> QED  BY <3>2, <3>3, <3>4, <3>5 DEF PamApplying
  <2>7. call'.blind \subseteq {PamParams.Rewritten[i] : i \in DOMAIN PamParams.Rewritten}
    BY <2>2 DEF PamInv
  <2> QED
    BY <1>1, <2>1, <2>2, <2>6, <2>7 DEF PamInv, PamType, Pam!SuccessMeansHardened
<1>3. CASE Pam!Dies
  <2>1. host' = host /\ call' = [Pam!Idle EXCEPT !.result = "died"]  BY <1>3 DEF Pam!Dies
  <2>2. /\ [f \in Pam!Conf |-> Pam!NoFile] \in [Pam!Conf -> Pam!File]
        /\ (CHOOSE c \in PamParams.Configs : TRUE) \in PamParams.Configs
        /\ Unset \in PamParams.Value
    BY HardeningAssumption DEF Pam!PamAssumption, Pam!NoFile, Pam!File
  <2>3. call' \in PamCall /\ call'.pc = "idle" /\ call'.result = "died" /\ call'.blind = {}
    BY <2>1, <2>2 DEF Pam!Idle, PamCall
  <2> QED
    BY <1>1, <2>1, <2>3 DEF PamInv, PamType, PamApplying, Pam!SuccessMeansHardened
<1>4. CASE Pam!Others
  <2>1. PICK f \in Pam!Conf :
           \/ \E text \in PamParams.Edits : host' = [host EXCEPT !.admin[f] = text]
           \/ \E text \in PamParams.Edits : host' = [host EXCEPT !.vendor[f] = text]
           \/ \E loaded \in {"in", "out", "unknown"} :
                 host' = [host EXCEPT !.stack[f].loaded = loaded]
    BY Zenon, <1>4 DEF Pam!Others
  <2>2. host' \in Pam!Host
    <3>1. PamParams.Edits \subseteq Pam!File  BY HardeningAssumption DEF Pam!PamAssumption
    <3>2. ASSUME NEW text \in PamParams.Edits, host' = [host EXCEPT !.admin[f] = text]
          PROVE  host' \in Pam!Host
      BY <1>1, <3>1, <3>2 DEF Pam!Host
    <3>3. ASSUME NEW text \in PamParams.Edits, host' = [host EXCEPT !.vendor[f] = text]
          PROVE  host' \in Pam!Host
      BY <1>1, <3>1, <3>3 DEF Pam!Host
    <3>4. ASSUME NEW loaded \in {"in", "out", "unknown"},
                 host' = [host EXCEPT !.stack[f].loaded = loaded]
          PROVE  host' \in Pam!Host
      <4> DEFINE Stack == [loaded : {"in", "out", "unknown"},
                           inline : [Pam!Directive -> PamParams.Value]]
                 here == [host.stack[f] EXCEPT !.loaded = loaded]
                 stack == [host.stack EXCEPT ![f] = here]
      <4>1. host.stack \in [Pam!Conf -> Stack]  BY <1>1 DEF Pam!Host
      <4> HIDE DEF Stack
      <4>2. host.stack[f] \in Stack  BY <4>1
      <4>3. here \in Stack  BY <4>2 DEF Stack
      <4>4. host' = [host EXCEPT !.stack = stack]  BY <3>4
      <4> HIDE DEF here
      <4>5. stack \in [Pam!Conf -> Stack]  BY <4>1, <4>3
      <4> HIDE DEF stack
      <4> USE DEF Stack
      <4> QED  BY <1>1, <4>4, <4>5 DEF Pam!Host
    <3> QED  BY <2>1, <3>2, <3>3, <3>4
  <2>3. /\ call' \in PamCall /\ call'.quiet = FALSE /\ call'.pc = call.pc
        /\ call'.step = call.step /\ call'.result = call.result /\ call'.blind = call.blind
    BY <1>1, <1>4 DEF Pam!Others, PamCall
  <2>4. call'.blind \subseteq {PamParams.Rewritten[i] : i \in DOMAIN PamParams.Rewritten}
    BY <2>3 DEF PamInv
  <2> QED
    BY <2>2, <2>3, <2>4 DEF PamInv, PamType, PamApplying, Pam!SuccessMeansHardened
<1> QED
  BY <1>2, <1>3, <1>4, PamBegins, PamObserves, PamLockouts, PamRewrites, PamFinishes
     DEF Pam!Next

\* What the steps of an apply keep: no vendor's value is hidden, nothing in force is
\* weaker, and what changes was announced.
LEMMA PamKeepsItsWord ==
  ASSUME HardeningAssumption, PamInv, [Pam!Next]_<<host, call>>
  PROVE  Pam!VendorSurvives /\ Pam!NeverLoosens /\ (PamTargetsApart => Pam!PreviewIsHonest)
<1>1. host \in Pam!Host /\ call \in PamCall  BY DEF PamInv, PamType
<1>2. CASE Pam!Others
  <2>1. call'.quiet = FALSE  BY <1>1, <1>2 DEF Pam!Others, PamCall
  <2> QED  BY <2>1 DEF Pam!VendorSurvives, Pam!NeverLoosens, Pam!PreviewIsHonest
<1>3. CASE host' = host  BY <1>3, PamStays
<1> QED
  BY <1>2, <1>3, PamLockouts, PamRewrites
     DEF Pam!Next, Pam!Begin, Pam!Observe, Pam!LockoutDone, Pam!Finish, Pam!Dies

-----------------------------------------------------------------------------
(* The rule the settings are judged by.                                    *)

\* A value that has a place has it on a scale of numbers.
LEMMA Places ==
  ASSUME NEW compare, IsComparison(compare), NEW value, Placeable(compare, value)
  PROVE  /\ Score(compare, value) \in Int
         /\ Placeable(compare, Spelling(compare, value))
         /\ Score(compare, Spelling(compare, value)) = Score(compare, value)
<1>1. CASE compare.kind = "Ranked"
  <2> DEFINE order == compare.order
  <2>1. /\ Len(order) \in Nat /\ DOMAIN order = 1..Len(order)
        /\ \A i \in DOMAIN order : 1 \in DOMAIN order[i]
        /\ \A i, j \in DOMAIN order :
              (\E a \in DOMAIN order[i], b \in DOMAIN order[j] : order[i][a] = order[j][b]) => i = j
    BY <1>1 DEF IsComparison
  <2>2. PICK i \in DOMAIN order : \E j \in DOMAIN order[i] : order[i][j] = value
    BY Zenon, <1>1 DEF Placeable
  <2> HIDE DEF order
  <2>3. ASSUME NEW v, \E j \in DOMAIN order[i] : order[i][j] = v
        PROVE  Rank(order, v) = i
    <3>1. \A k \in DOMAIN order :
             (\E j \in DOMAIN order[k] : order[k][j] = v) => k = i
      BY <2>1, <2>3
    <3>2. \A k \in 1..(i - 1) : k \in DOMAIN order /\ k # i  BY <2>1
    <3>3. \A k \in 1..(i - 1) : \A j \in DOMAIN order[k] : order[k][j] # v
      BY <3>1, <3>2
    <3> QED  BY <2>3, <3>1, <3>3 DEF Rank
  <2>4. Rank(order, value) = i  BY <2>2, <2>3
  <2>5. Spelling(compare, value) = order[i][1]  BY <1>1, <2>4 DEF Spelling, order
  <2>6. \E j \in DOMAIN order[i] : order[i][j] = order[i][1]  BY <2>1, <2>2
  <2>7. Rank(order, order[i][1]) = i  BY <2>3, <2>6
  <2>8. Placeable(compare, order[i][1])  BY <1>1, <2>2, <2>6 DEF Placeable, order
  <2>9. \A v : Score(compare, v) = Rank(order, v)  BY <1>1 DEF Score, order
  <2> QED  BY <2>1, <2>2, <2>4, <2>5, <2>7, <2>8, <2>9
<1>2. CASE compare.kind \in {"AtMost", "AtLeast", "NonZeroAtMost"}
  <2>1. value \in MinInt..MaxInt /\ Spelling(compare, value) = value
    BY <1>2 DEF Placeable, Spelling
  <2>2. MaxInt \in Nat /\ MinInt \in Int  BY WidthAssumption
  <2>3. Score(compare, value) \in {value, MinInt, Negated(value)}
    BY <1>2 DEF Score
  <2>4. Negated(value) \in Int  BY <2>1, <2>2 DEF Negated
  <2> QED  BY <2>1, <2>2, <2>3, <2>4
<1> QED  BY <1>1, <1>2 DEF IsComparison, Kind

\* The stricter of two is no weaker than either.
LEMMA Clamps ==
  ASSUME NEW compare, IsComparison(compare), NEW baseline, Placeable(compare, baseline),
         NEW candidate
  PROVE  /\ \E v : /\ Placeable(compare, v)
                   /\ ClampTarget(compare, baseline, candidate) = Spelling(compare, v)
         /\ ~ViolatedBy(compare, baseline, ClampTarget(compare, baseline, candidate))
         /\ Placeable(compare, candidate) =>
               ~ViolatedBy(compare, candidate, ClampTarget(compare, baseline, candidate))
<1> DEFINE v == IF /\ Placeable(compare, candidate)
                   /\ Score(compare, candidate) > Score(compare, baseline)
                THEN candidate ELSE baseline
           target == ClampTarget(compare, baseline, candidate)
<1>1. Placeable(compare, v) /\ target = Spelling(compare, v)  BY DEF ClampTarget
<1>2. /\ Score(compare, v) \in Int /\ Placeable(compare, target)
      /\ Score(compare, target) = Score(compare, v)
  <2> HIDE DEF v, target
  <2> QED  BY <1>1, Places
<1>3. /\ Score(compare, baseline) \in Int
      /\ Placeable(compare, candidate) => Score(compare, candidate) \in Int
  BY Places
<1>4. /\ ~(Score(compare, v) < Score(compare, baseline))
      /\ Placeable(compare, candidate) => ~(Score(compare, v) < Score(compare, candidate))
  BY <1>3
<1> HIDE DEF v, target
<1>5. /\ ~ViolatedBy(compare, baseline, target)
      /\ Placeable(compare, candidate) => ~ViolatedBy(compare, candidate, target)
  BY <1>2, <1>4 DEF ViolatedBy
<1> QED  BY <1>1, <1>5 DEF target

-----------------------------------------------------------------------------
(* The kernel plugin.                                                      *)

KernCall ==
    [pc : 0..(Len(KernelParams.Params) + 1), result : {"none", "success", "failed", "died"},
     config : KernelParams.Configs, file : [Kernel!Param -> KernelParams.Value],
     changed : BOOLEAN, ok : BOOLEAN, blind : SUBSET Kernel!Param]

KernType ==
    /\ host \in Kernel!Host /\ call \in KernCall
    /\ host.etc[KernelParams.Ours] = Absent \/ host.etc[KernelParams.Ours].glob = {}
    /\ host.saved = Absent \/ host.saved.glob = {}

\* What an apply means to leave for the next boot meets the target, or an exception
\* documents it; it is no weaker than what runs, as far as that could be read; and
\* after a success it is what the file of this tool says.
KernDecided(c, k) ==
    c.file[k] # Unset =>
        ~Kernel!ViolatedBy(KernelParams.Compare[k], Kernel!Target(c.config, k), c.file[k])

KernKeeps(c, h, k) ==
    (c.file[k] # Unset /\ Kernel!Placeable(KernelParams.Compare[k], h.live[k])) =>
        ~Kernel!ViolatedBy(KernelParams.Compare[k], h.live[k], c.file[k])

KernInv ==
    /\ KernType
    /\ call.pc # 0 => call.result = "none"
    /\ \A k \in Kernel!Param :
          KernDecided(call, k) /\ (call.pc # 0 => k \in call.blind \/ KernKeeps(call, host, k))
    /\ call.result = "success" =>
          host.etc[KernelParams.Ours] = [set |-> call.file, glob |-> {}, as |-> Unset]

\* The rule as the plugin has it.
LEMMA KernJudges ==
  \A compare, v, w :
     /\ Kernel!Placeable(compare, v) <=> Placeable(compare, v)
     /\ Kernel!ViolatedBy(compare, v, w) <=> ViolatedBy(compare, v, w)
     /\ Kernel!ClampTarget(compare, v, w) = ClampTarget(compare, v, w)
<1> SUFFICES ASSUME NEW compare
             PROVE  \A v, w :
                /\ Kernel!Placeable(compare, v) <=> Placeable(compare, v)
                /\ Kernel!ViolatedBy(compare, v, w) <=> ViolatedBy(compare, v, w)
                /\ Kernel!ClampTarget(compare, v, w) = ClampTarget(compare, v, w)
  OBVIOUS
<1>1. \A v : Kernel!Placeable(compare, v) <=> Placeable(compare, v)
  BY DEF Kernel!Placeable, Placeable
<1>2. \A order, v : Kernel!Rank(order, v) = Rank(order, v)
  BY DEF Kernel!Rank, Rank
<1>3. \A v : Kernel!Score(compare, v) = Score(compare, v)
  BY <1>2 DEF Kernel!Score, Score, Kernel!Negated, Negated
<1>4. \A v : Kernel!Spelling(compare, v) = Spelling(compare, v)
  BY <1>2 DEF Kernel!Spelling, Spelling
<1>5. \A v, w : Kernel!ViolatedBy(compare, v, w) <=> ViolatedBy(compare, v, w)
  BY <1>1, <1>3 DEF Kernel!ViolatedBy, ViolatedBy
<1>6. \A v, w : Kernel!ClampTarget(compare, v, w) = ClampTarget(compare, v, w)
  BY <1>1, <1>3, <1>4 DEF Kernel!ClampTarget, ClampTarget
<1> QED  BY <1>1, <1>5, <1>6

\* What is planned of a parameter is a value that meets the target and is no weaker
\* than what was observed; a value is no weaker than itself.
LEMMA KernPlans ==
  ASSUME HardeningAssumption, NEW k \in Kernel!Param, NEW config, NEW observed
  PROVE  LET compare == KernelParams.Compare[k]
             value   == Kernel!Planned(config, k, observed) IN
         /\ value # Unset =>
               /\ ~Kernel!ViolatedBy(compare, Kernel!Target(config, k), value)
               /\ Kernel!Placeable(compare, observed) => ~Kernel!ViolatedBy(compare, observed, value)
         /\ value \in KernelParams.Value
         /\ Kernel!Placeable(compare, observed) => ~Kernel!ViolatedBy(compare, observed, observed)
<1> DEFINE compare == KernelParams.Compare[k]
           target  == Kernel!Target(config, k)
           value   == Kernel!Planned(config, k, observed)
<1>1. /\ IsComparison(compare) /\ Placeable(compare, KernelParams.Baseline[k])
      /\ IF compare.kind = "Ranked"
         THEN \A i \in DOMAIN compare.order : \A j \in DOMAIN compare.order[i] :
                 compare.order[i][j] \in KernelParams.Value \ {Unset}
         ELSE MinInt..MaxInt \subseteq KernelParams.Value \ {Unset}
      /\ Unset \in KernelParams.Value
  <2>1. Kernel!IsComparison(compare) => IsComparison(compare)
    BY DEF Kernel!IsComparison, Kernel!Kind, IsComparison, Kind
  <2>2. /\ Kernel!IsComparison(compare)
        /\ Kernel!Placeable(compare, KernelParams.Baseline[k])
    BY HardeningAssumption DEF Kernel!KernelAssumption
  <2>3. Placeable(compare, KernelParams.Baseline[k])  BY <2>2, KernJudges
  <2> QED  BY <2>1, <2>2, <2>3, HardeningAssumption DEF Kernel!KernelAssumption
<1> HIDE DEF compare
<1>2. \A v : Placeable(compare, v) => v \in KernelParams.Value \ {Unset}
  <2> SUFFICES ASSUME NEW v, Placeable(compare, v) PROVE v \in KernelParams.Value \ {Unset}
    OBVIOUS
  <2>1. CASE compare.kind = "Ranked"  BY <1>1, <2>1 DEF Placeable
  <2>2. CASE compare.kind # "Ranked"  BY <1>1, <2>2 DEF Placeable
  <2> QED  BY <2>1, <2>2
<1>3. ASSUME NEW baseline, Placeable(compare, baseline), NEW candidate
      PROVE  Placeable(compare, ClampTarget(compare, baseline, candidate))
  <2>1. PICK v : Placeable(compare, v)
                   /\ ClampTarget(compare, baseline, candidate) = Spelling(compare, v)
    BY Zenon, <1>1, <1>3, Clamps
  <2> QED  BY <1>1, <2>1, Places
<1>4. target = ClampTarget(compare, KernelParams.Baseline[k], config.override[k])
  BY KernJudges DEF Kernel!Target, Kernel!ResolvedTarget, compare
<1>5. Placeable(compare, target)  BY <1>1, <1>3, <1>4
<1>6. value \in {Unset, ClampTarget(compare, target, observed)}
  BY KernJudges DEF Kernel!Planned, compare
<1> HIDE DEF target, value
<1>7. value # Unset =>
         /\ ~ViolatedBy(compare, target, value)
         /\ Placeable(compare, observed) => ~ViolatedBy(compare, observed, value)
  BY <1>1, <1>5, <1>6, Clamps
<1>8. value \in KernelParams.Value  BY <1>1, <1>2, <1>3, <1>5, <1>6
<1>9. Placeable(compare, observed) => ~ViolatedBy(compare, observed, observed)
  BY <1>1, Places DEF ViolatedBy
<1> QED  BY <1>7, <1>8, <1>9, KernJudges DEF value, target, compare

\* Of the files found the last has its number: there are finitely many.
LEMMA KernLast ==
  ASSUME NEW n \in Nat, NEW S \in SUBSET (1..n), S # {}
  PROVE  Kernel!Last(S) \in S /\ \A j \in S : j <= Kernel!Last(S)
<1>1. IsFiniteSet(S)
  <2>1. IsFiniteSet(1..n)  BY FS_Interval
  <2> QED  BY <2>1, FS_Subset
<1> DEFINE From(i) == {j \in S : i <= j}
           T == {From(i) : i \in S}
           R == StrictSubsetOrdering(S)
<1>2. IsWellFoundedOn(R, SUBSET S)
  BY <1>1, FS_StrictSubsetOrderingWellFounded, FS_FiniteSubsetsOfFinite
<1>3. T # {} /\ T \subseteq SUBSET S  OBVIOUS
<1>4. PICK u \in T : \A v \in T : <<v, u>> \notin R
  <2> HIDE DEF R, T
  <2> QED  BY <1>2, <1>3, WFMin
<1>5. PICK i \in S : u = From(i)  OBVIOUS
<1>6. ASSUME NEW j \in S, ~(j <= i) PROVE FALSE
  <2>1. i \in From(i) /\ i \notin From(j)  BY <1>6
  <2>2. From(j) \subseteq From(i) /\ From(j) # From(i)
    <3>1. ASSUME NEW l \in From(j) PROVE l \in From(i)  BY <1>6
    <3>2. From(j) \subseteq From(i)
      <4> HIDE DEF From
      <4> QED  BY <3>1
    <3> QED  BY <2>1, <3>2
  <2>3. From(j) \in SUBSET S /\ From(i) \in SUBSET S /\ From(j) \in T  OBVIOUS
  <2>4. <<From(j), From(i)>> \in R  BY <2>2, <2>3 DEF StrictSubsetOrdering
  <2> QED  BY <1>4, <1>5, <2>3, <2>4
<1> QED  BY <1>6 DEF Kernel!Last

\* Files by their number.
KernFiles(n) == [1..n -> Kernel!File \cup {Absent}]

\* What is merged of files is a value, and none where none sets one.
LEMMA KernMerges ==
  ASSUME HardeningAssumption, NEW n \in Nat, NEW files \in KernFiles(n), NEW k \in Kernel!Param
  PROVE  /\ Kernel!Setters(files, k) \subseteq 1..n /\ Kernel!Globbers(files, k) \subseteq 1..n
         /\ Kernel!Merged(files, k) \in KernelParams.Value
         /\ Kernel!Merged(files, k) = Unset <=> Kernel!Setters(files, k) = {}
         /\ Kernel!Applied(files, k) \in KernelParams.Value
<1>1. Kernel!Setters(files, k) \subseteq 1..n /\ Kernel!Globbers(files, k) \subseteq 1..n
  BY DEF KernFiles, Kernel!Setters, Kernel!Globbers
<1>2. \A i \in 1..n : files[i] # Absent =>
         files[i].set[k] \in KernelParams.Value /\ files[i].as \in KernelParams.Value
  BY DEF KernFiles, Kernel!File
<1>3. ASSUME Kernel!Setters(files, k) # {}
      PROVE  Kernel!Last(Kernel!Setters(files, k)) \in Kernel!Setters(files, k)
  BY <1>1, <1>3, KernLast
<1>4. ASSUME Kernel!Globbers(files, k) # {}
      PROVE  Kernel!Last(Kernel!Globbers(files, k)) \in Kernel!Globbers(files, k)
  BY <1>1, <1>4, KernLast
<1>5. Unset \in KernelParams.Value  BY HardeningAssumption DEF Kernel!KernelAssumption
<1>6. /\ Kernel!Merged(files, k) \in KernelParams.Value
      /\ Kernel!Merged(files, k) = Unset <=> Kernel!Setters(files, k) = {}
  <2>1. CASE Kernel!Setters(files, k) = {}  BY <1>5, <2>1 DEF Kernel!Merged
  <2>2. CASE Kernel!Setters(files, k) # {}
    <3> DEFINE i == Kernel!Last(Kernel!Setters(files, k))
    <3>1. i \in 1..n /\ files[i] # Absent /\ files[i].set[k] # Unset
      BY <1>1, <1>3, <2>2 DEF Kernel!Setters
    <3>2. Kernel!Merged(files, k) = files[i].set[k]  BY <2>2 DEF Kernel!Merged
    <3> QED  BY <1>2, <2>2, <3>1, <3>2
  <2> QED  BY <2>1, <2>2
<1>7. Kernel!Applied(files, k) \in KernelParams.Value
  <2>1. CASE Kernel!Setters(files, k) = {} /\ Kernel!Globbers(files, k) # {}
    <3> DEFINE i == Kernel!Last(Kernel!Globbers(files, k))
    <3>1. i \in 1..n /\ files[i] # Absent  BY <1>1, <1>4, <2>1 DEF Kernel!Globbers
    <3>2. Kernel!Applied(files, k) = files[i].as  BY <2>1 DEF Kernel!Applied
    <3> QED  BY <1>2, <3>1, <3>2
  <2> QED  BY <1>5, <1>6, <2>1 DEF Kernel!Applied
<1> QED  BY <1>1, <1>6, <1>7

\* What a boot and a reload bring are values.
LEMMA KernBrings ==
  ASSUME HardeningAssumption, NEW h \in Kernel!Host, NEW k \in Kernel!Param
  PROVE  /\ Kernel!Dropins(h) \in KernFiles(KernelParams.Names)
         /\ <<h.ufw>> \in KernFiles(1) /\ <<h.legacy>> \in KernFiles(1)
         /\ Kernel!BootValue(h, k) \in KernelParams.Value
         /\ Kernel!ReloadValue(h, k) \in KernelParams.Value
<1>1. /\ h.etc \in [Kernel!Name -> Kernel!File \cup {Absent}]
      /\ h.usr \in [Kernel!Name -> Kernel!File \cup {Absent}]
      /\ h.ufw \in Kernel!File \cup {Absent} /\ h.legacy \in Kernel!File \cup {Absent}
  BY DEF Kernel!Host
<1>2. KernelParams.Names \in Nat /\ Kernel!Name = 1..KernelParams.Names
  BY HardeningAssumption DEF Kernel!KernelAssumption, Kernel!Name
<1>3. \A hidden \in BOOLEAN, m \in Kernel!Name :
         Kernel!InForce(h, hidden, m) \in Kernel!File \cup {Absent}
  BY <1>1 DEF Kernel!InForce
<1>4. Kernel!Dropins(h) \in KernFiles(KernelParams.Names)
  BY <1>2, <1>3 DEF KernFiles, Kernel!Dropins
<1>5. <<h.ufw>> \in KernFiles(1) /\ <<h.legacy>> \in KernFiles(1)
  BY <1>1 DEF KernFiles
<1>6. /\ Kernel!Applied(Kernel!Dropins(h), k) \in KernelParams.Value
      /\ Kernel!Applied(<<h.ufw>>, k) \in KernelParams.Value
      /\ Kernel!Applied(<<h.legacy>>, k) \in KernelParams.Value
  BY <1>2, <1>4, <1>5, KernMerges
<1> QED  BY <1>4, <1>5, <1>6 DEF Kernel!BootValue, Kernel!ReloadValue, Kernel!Over

\* What was read of the files, in the order they are applied in.
LEMMA KernSweeps ==
  ASSUME HardeningAssumption, NEW h \in Kernel!Host, NEW unread \in Kernel!Unread, NEW first \in Nat,
         first <= KernelParams.Names + 1
  PROVE  LET n == KernelParams.Names
             swept == Kernel!Swept(h, unread, first) IN
         /\ n \in Nat /\ swept \in KernFiles(n + 1)
         /\ swept[n + 1] = IF unread.ufw THEN Absent ELSE h.ufw
         /\ \A i \in 1..n : swept[i] = IF i \in unread.names \/ i < first THEN Absent
                                       ELSE Kernel!InForce(h, unread.dir, i)
<1> DEFINE n == KernelParams.Names
           swept == Kernel!Swept(h, unread, first)
<1>1. n \in Nat /\ Kernel!Name = 1..n
  BY HardeningAssumption DEF Kernel!KernelAssumption, Kernel!Name
<1>2. swept = [i \in 1..(n + 1) |->
                 CASE i = n + 1 -> IF unread.ufw THEN Absent ELSE h.ufw
                   [] i \in unread.names \/ i < first -> Absent
                   [] OTHER -> Kernel!InForce(h, unread.dir, i)]
  BY Zenon DEF Kernel!Swept
<1> HIDE DEF swept
<1>3. swept[n + 1] = IF unread.ufw THEN Absent ELSE h.ufw
  <2>1. n + 1 \in 1..(n + 1) /\ ~(n + 1 < first)  BY <1>1
  <2>2. n + 1 \notin unread.names  BY <1>1 DEF Kernel!Unread
  <2> QED  BY <1>2, <2>1, <2>2
<1>4. \A i \in 1..n : swept[i] = IF i \in unread.names \/ i < first THEN Absent
                                 ELSE Kernel!InForce(h, unread.dir, i)
  <2> SUFFICES ASSUME NEW i \in 1..n
               PROVE  swept[i] = IF i \in unread.names \/ i < first THEN Absent
                                 ELSE Kernel!InForce(h, unread.dir, i)
    OBVIOUS
  <2>1. i \in 1..(n + 1) /\ i # n + 1  BY <1>1
  <2> QED  BY <1>2, <2>1
<1>5. swept \in KernFiles(n + 1)
  <2>1. h.ufw \in Kernel!File \cup {Absent}  BY DEF Kernel!Host
  <2>2. \A i \in 1..n : Kernel!InForce(h, unread.dir, i) \in Kernel!File \cup {Absent}
    BY <1>1 DEF Kernel!Host, Kernel!InForce
  <2>3. \A i \in 1..(n + 1) : i = n + 1 \/ i \in 1..n  BY <1>1
  <2>4. \A i \in 1..(n + 1) : swept[i] \in Kernel!File \cup {Absent}
    BY <1>3, <1>4, <2>1, <2>2, <2>3
  <2> QED  BY <1>2, <2>4 DEF KernFiles
<1> QED  BY <1>1, <1>3, <1>4, <1>5 DEF swept

\* Where no pattern could name a parameter and every file from the one that decides on
\* was read, what was merged is what the next boot brings.
LEMMA KernBoots ==
  ASSUME HardeningAssumption, NEW h \in Kernel!Host, NEW k \in Kernel!Param,
         NEW unread \in Kernel!Unread, NEW first \in Nat, first <= KernelParams.Names + 1,
         ~unread.dir, ~unread.ufw,
         Kernel!Globbers(Kernel!Swept(h, unread, first), k) = {},
         Kernel!Setters(Kernel!Swept(h, unread, first), k) # {},
         \A m \in unread.names :
            m < Kernel!Last(Kernel!Setters(Kernel!Swept(h, unread, first), k))
  PROVE  Kernel!BootValue(h, k) = Kernel!Merged(Kernel!Swept(h, unread, first), k)
<1> DEFINE n == KernelParams.Names
           swept == Kernel!Swept(h, unread, first)
           last1 == Kernel!Last(Kernel!Setters(swept, k))
           files == Kernel!Dropins(h)
           ufw == <<h.ufw>>
<1>1. /\ n \in Nat /\ swept \in KernFiles(n + 1) /\ swept[n + 1] = h.ufw
      /\ \A i \in 1..n : swept[i] = IF i \in unread.names \/ i < first THEN Absent
                                    ELSE Kernel!InForce(h, FALSE, i)
  <2>1. \A i : Kernel!InForce(h, unread.dir, i) = Kernel!InForce(h, FALSE, i)
    BY DEF Kernel!InForce
  <2>2. /\ n \in Nat /\ swept \in KernFiles(n + 1)
        /\ swept[n + 1] = IF unread.ufw THEN Absent ELSE h.ufw
        /\ \A i \in 1..n : swept[i] = IF i \in unread.names \/ i < first THEN Absent
                                      ELSE Kernel!InForce(h, unread.dir, i)
    BY Zenon, KernSweeps
  <2> HIDE DEF swept
  <2> QED  BY <2>1, <2>2
<1>2. /\ files \in KernFiles(n) /\ ufw \in KernFiles(1)
      /\ \A i \in 1..n : files[i] = Kernel!InForce(h, FALSE, i)
  <2>1. Kernel!Name = 1..n  BY HardeningAssumption DEF Kernel!KernelAssumption, Kernel!Name
  <2> QED  BY <2>1, KernBrings DEF Kernel!Dropins
<1> HIDE DEF swept, files
<1>3. /\ last1 \in Kernel!Setters(swept, k) /\ last1 \in 1..(n + 1)
      /\ \A j \in Kernel!Setters(swept, k) : j <= last1
  <2>1. Kernel!Setters(swept, k) \subseteq 1..(n + 1)  BY <1>1, KernMerges
  <2>2. Kernel!Setters(swept, k) # {}  BY DEF swept
  <2>3. n + 1 \in Nat  BY <1>1
  <2> DEFINE S == Kernel!Setters(swept, k)
  <2> HIDE DEF S
  <2>4. Kernel!Last(S) \in S /\ \A j \in S : j <= Kernel!Last(S)
    BY <2>1, <2>2, <2>3, KernLast DEF S
  <2> QED  BY <2>1, <2>4 DEF S
<1>4. Kernel!Merged(swept, k) = swept[last1].set[k]
  BY <1>3 DEF Kernel!Merged
<1>5. swept[last1] # Absent /\ swept[last1].set[k] # Unset
  BY <1>3 DEF Kernel!Setters
<1>6. Kernel!Globbers(ufw, k) = {}
  <2>1. n + 1 \notin Kernel!Globbers(swept, k)  BY DEF swept
  <2>2. h.ufw = Absent \/ k \notin h.ufw.glob
    BY <1>1, <2>1 DEF Kernel!Globbers, KernFiles
  <2> QED  BY <2>2 DEF Kernel!Globbers
<1>7. \A i : i \in Kernel!Setters(ufw, k) <=> i = 1 /\ h.ufw # Absent /\ h.ufw.set[k] # Unset
  BY DEF Kernel!Setters
<1>8. CASE last1 = n + 1
  <2>1. Kernel!Setters(ufw, k) = {1}  BY <1>1, <1>5, <1>7, <1>8
  <2>2. Kernel!Last({1}) = 1
    <3>1. {1} \in SUBSET (1..1) /\ {1} # {} /\ 1 \in Nat  OBVIOUS
    <3>2. Kernel!Last({1}) \in {1}  BY <3>1, KernLast
    <3> QED  BY <3>2
  <2>3. Kernel!Merged(ufw, k) = h.ufw.set[k]
    <3>1. Kernel!Setters(ufw, k) # {} /\ Kernel!Last(Kernel!Setters(ufw, k)) = 1
      BY <2>1, <2>2
    <3>2. Kernel!Merged(ufw, k) = ufw[1].set[k]  BY ONLY <3>1 DEF Kernel!Merged
    <3> QED  BY <3>2
  <2>4. Kernel!Applied(ufw, k) = h.ufw.set[k]  BY <2>1, <2>3 DEF Kernel!Applied
  <2>5. h.ufw.set[k] # Unset /\ Kernel!Merged(swept, k) = h.ufw.set[k]
    BY <1>1, <1>4, <1>5, <1>8
  <2> QED  BY <2>4, <2>5 DEF Kernel!BootValue, Kernel!Over, swept
<1>9. CASE last1 # n + 1
  <2>1. last1 \in 1..n  BY <1>1, <1>3, <1>9
  <2>2. Kernel!Applied(ufw, k) = Unset
    <3>1. n + 1 \notin Kernel!Setters(swept, k)  BY <1>1, <1>3, <1>9
    <3>2. h.ufw = Absent \/ h.ufw.set[k] = Unset
      BY <1>1, <3>1 DEF Kernel!Setters, KernFiles
    <3>3. Kernel!Setters(ufw, k) = {}  BY <1>7, <3>2
    <3> QED  BY <1>6, <3>3 DEF Kernel!Applied
  <2>3. /\ files[last1] = swept[last1] /\ ~(last1 < first)
    BY <1>1, <1>2, <1>5, <2>1
  <2>4. last1 \in Kernel!Setters(files, k)
    BY <1>2, <1>5, <2>1, <2>3 DEF Kernel!Setters, KernFiles
  <2>5. ASSUME NEW j \in Kernel!Setters(files, k), j > last1 PROVE FALSE
    <3>1. j \in 1..n /\ files[j] # Absent /\ files[j].set[k] # Unset
      BY <1>2, <2>5 DEF Kernel!Setters, KernFiles
    <3>2. j \notin unread.names
      <4>1. \A m \in unread.names : m < last1  BY DEF swept
      <4>2. ASSUME j \in unread.names PROVE FALSE
        <5>1. j < last1  BY <4>1, <4>2
        <5> QED  BY <2>1, <2>5, <3>1, <5>1
      <4> QED  BY <4>2
    <3>3. ~(j < first)  BY <2>1, <2>3, <2>5, <3>1
    <3>4. swept[j] = files[j]  BY <1>1, <1>2, <3>1, <3>2, <3>3
    <3>5. j \in Kernel!Setters(swept, k)
      BY <1>1, <3>1, <3>4 DEF Kernel!Setters, KernFiles
    <3> QED  BY <1>3, <2>5, <3>5, <3>1
  <2>6. Kernel!Last(Kernel!Setters(files, k)) = last1
    <3>1. Kernel!Setters(files, k) \subseteq 1..n  BY <1>1, <1>2, KernMerges
    <3>2. /\ Kernel!Last(Kernel!Setters(files, k)) \in Kernel!Setters(files, k)
          /\ last1 <= Kernel!Last(Kernel!Setters(files, k))
      BY <1>1, <2>4, <3>1, KernLast
    <3>3. ~(Kernel!Last(Kernel!Setters(files, k)) > last1)  BY <2>5, <3>2
    <3> HIDE DEF last1
    <3> QED  BY <2>1, <3>1, <3>2, <3>3
  <2>7. Kernel!Applied(files, k) = swept[last1].set[k]
    BY <2>3, <2>4, <2>6 DEF Kernel!Applied, Kernel!Merged
  <2> QED
    BY <1>4, <2>2, <2>7 DEF Kernel!BootValue, Kernel!Over, swept, files
<1> QED  BY <1>8, <1>9

\* Where every file was read and none sets a parameter or could, a boot brings nothing.
LEMMA KernBootsNothing ==
  ASSUME HardeningAssumption, NEW h \in Kernel!Host, NEW k \in Kernel!Param,
         NEW unread \in Kernel!Unread, ~unread.dir, ~unread.ufw, unread.names = {},
         Kernel!Globbers(Kernel!Swept(h, unread, 1), k) = {},
         Kernel!Setters(Kernel!Swept(h, unread, 1), k) = {}
  PROVE  Kernel!BootValue(h, k) = Unset
<1> DEFINE n == KernelParams.Names
           swept == Kernel!Swept(h, unread, 1)
           files == Kernel!Dropins(h)
           ufw == <<h.ufw>>
<1>1. /\ n \in Nat /\ swept \in KernFiles(n + 1) /\ swept[n + 1] = h.ufw
      /\ \A i \in 1..n : swept[i] = Kernel!InForce(h, FALSE, i)
  <2>1. \A i : Kernel!InForce(h, unread.dir, i) = Kernel!InForce(h, FALSE, i)
    BY DEF Kernel!InForce
  <2>2. 1 <= n + 1 /\ 1 \in Nat  BY HardeningAssumption DEF Kernel!KernelAssumption
  <2>3. /\ n \in Nat /\ swept \in KernFiles(n + 1)
        /\ swept[n + 1] = IF unread.ufw THEN Absent ELSE h.ufw
        /\ \A i \in 1..n : swept[i] = IF i \in unread.names \/ i < 1 THEN Absent
                                      ELSE Kernel!InForce(h, unread.dir, i)
    BY Zenon, <2>2, KernSweeps
  <2> HIDE DEF swept
  <2>4. swept[n + 1] = h.ufw  BY <2>3
  <2>5. ASSUME NEW i \in 1..n PROVE swept[i] = Kernel!InForce(h, FALSE, i)
    <3>1. ~(i \in unread.names \/ i < 1)  BY <2>3
    <3>2. swept[i] = Kernel!InForce(h, unread.dir, i)  BY <2>3, <3>1
    <3> QED  BY <2>1, <3>2
  <2> QED  BY <2>3, <2>4, <2>5
<1>2. /\ files \in KernFiles(n) /\ ufw \in KernFiles(1)
      /\ \A i \in 1..n : files[i] = Kernel!InForce(h, FALSE, i)
  <2>1. Kernel!Name = 1..n  BY HardeningAssumption DEF Kernel!KernelAssumption, Kernel!Name
  <2> QED  BY <2>1, KernBrings DEF Kernel!Dropins
<1>3. Kernel!Globbers(swept, k) = {} /\ Kernel!Setters(swept, k) = {}
  BY Zenon DEF swept
<1> HIDE DEF swept, files
<1>4. \A i \in 1..(n + 1) : swept[i] = Absent \/ (swept[i].set[k] = Unset /\ k \notin swept[i].glob)
  BY <1>1, <1>3 DEF Kernel!Globbers, Kernel!Setters, KernFiles
<1>5. \A i \in 1..n : files[i] = Absent \/ (files[i].set[k] = Unset /\ k \notin files[i].glob)
  <2>1. \A i \in 1..n : i \in 1..(n + 1)  BY <1>1
  <2>2. ASSUME NEW i \in 1..n PROVE files[i] = swept[i]
    <3>1. files[i] = Kernel!InForce(h, FALSE, i)  BY <1>2
    <3>2. swept[i] = Kernel!InForce(h, FALSE, i)  BY <1>1
    <3> QED  BY <3>1, <3>2
  <2> QED  BY <1>4, <2>1, <2>2
<1>6. h.ufw = Absent \/ (h.ufw.set[k] = Unset /\ k \notin h.ufw.glob)
  <2>1. n + 1 \in 1..(n + 1)  BY <1>1
  <2> QED  BY <1>1, <1>4, <2>1
<1>7. Kernel!Applied(files, k) = Unset
  <2>1. Kernel!Setters(files, k) = {} /\ Kernel!Globbers(files, k) = {}
    BY <1>2, <1>5 DEF Kernel!Globbers, Kernel!Setters, KernFiles
  <2> QED  BY <2>1 DEF Kernel!Applied
<1>8. Kernel!Applied(ufw, k) = Unset
  <2>1. Kernel!Setters(ufw, k) = {} /\ Kernel!Globbers(ufw, k) = {}
    BY <1>6 DEF Kernel!Globbers, Kernel!Setters
  <2> QED  BY <2>1 DEF Kernel!Applied
<1> QED  BY <1>7, <1>8 DEF Kernel!BootValue, Kernel!Over, files

\* Of a parameter the probe says that it diverged only where it read all that decides,
\* and no pattern could; and where it is silent the boot brings what runs, or what runs
\* was not what this tool asks for.
LEMMA KernProbes ==
  ASSUME NEW h, NEW unread, NEW k
  PROVE  LET swept == Kernel!Swept(h, unread, 1)
             boot  == Kernel!Merged(swept, k)
             here  == Kernel!Divergence(h, unread, TRUE, k) IN
         /\ here = "diverged" =>
               /\ ~unread.dir /\ ~unread.ufw /\ Kernel!Globbers(swept, k) = {}
               /\ boot = Unset \/ boot # h.live[k]
               /\ \A m \in unread.names :
                     ~(m >= IF boot = Unset THEN 0 ELSE Kernel!Last(Kernel!Setters(swept, k)))
         /\ here = "silent" =>
               \/ boot # Unset /\ boot = h.live[k]
               \/ Kernel!ViolatedBy(KernelParams.Compare[k], KernelParams.Baseline[k], h.live[k])
<1> DEFINE swept  == Kernel!Swept(h, unread, 1)
           boot   == Kernel!Merged(swept, k)
           legacy == IF unread.legacy \/ h.legacy = Absent THEN Unset ELSE h.legacy.set[k]
           decider == IF boot = Unset THEN 0 ELSE Kernel!Last(Kernel!Setters(swept, k))
           blocked == \/ unread.dir \/ unread.ufw \/ (\E m \in unread.names : m >= decider)
                      \/ unread.legacy
           patterns == \/ Kernel!Globbers(swept, k) # {}
                       \/ ~unread.legacy /\ Kernel!Globbers(<<h.legacy>>, k) # {}
           weaker == Kernel!ViolatedBy(KernelParams.Compare[k], KernelParams.Baseline[k], h.live[k])
           here   == Kernel!Divergence(h, unread, TRUE, k)
<1>1. here = CASE boot # Unset /\ boot = h.live[k] -> "silent"
               [] boot = Unset /\ weaker -> "silent"
               [] OTHER -> IF blocked \/ patterns THEN "unverifiable"
                           ELSE IF legacy = h.live[k] THEN (IF TRUE THEN "diverged" ELSE "unverifiable")
                           ELSE "diverged"
  BY DEF Kernel!Divergence
<1> HIDE DEF swept, boot, legacy, weaker, here, patterns, blocked
<1>2. here = "diverged" => ~blocked /\ ~patterns /\ (boot = Unset \/ boot # h.live[k])
  BY <1>1
<1>3. here = "silent" => (boot # Unset /\ boot = h.live[k]) \/ weaker
  BY <1>1
<1>4. ~blocked => /\ ~unread.dir /\ ~unread.ufw
                  /\ \A m \in unread.names : ~(m >= decider)
  BY DEF blocked
<1>5. ~patterns => Kernel!Globbers(swept, k) = {}  BY DEF patterns
<1> QED  BY Zenon, <1>2, <1>3, <1>4, <1>5 DEF swept, boot, weaker, here

\* What the probe after a rollback says of a parameter is so.
LEMMA KernTells ==
  ASSUME HardeningAssumption, host \in Kernel!Host
  PROVE  Kernel!DivergedIsReal /\ Kernel!SilenceIsEarned
<1>1. \A k \in Kernel!Param : host.live[k] # Unset /\ 1 <= KernelParams.Names + 1 /\ 1 \in Nat
  BY HardeningAssumption DEF Kernel!Host, Kernel!KernelAssumption
<1>2. ASSUME NEW k \in Kernel!Param, NEW unread \in Kernel!Unread,
             host.live[k] = Kernel!BootValue(host, k),
             Kernel!Divergence(host, unread, TRUE, k) = "diverged"
      PROVE  FALSE
  <2> DEFINE swept == Kernel!Swept(host, unread, 1)
             boot  == Kernel!Merged(swept, k)
             S     == Kernel!Setters(swept, k)
  <2>1. /\ ~unread.dir /\ ~unread.ufw /\ Kernel!Globbers(swept, k) = {}
        /\ boot = Unset \/ boot # host.live[k]
        /\ \A m \in unread.names : ~(m >= IF boot = Unset THEN 0 ELSE Kernel!Last(S))
    BY Zenon, <1>2, KernProbes
  <2>2. KernelParams.Names \in Nat /\ swept \in KernFiles(KernelParams.Names + 1)
    BY Zenon, <1>1, <1>2, KernSweeps
  <2>3. S \subseteq 1..(KernelParams.Names + 1) /\ (boot = Unset <=> S = {})
    <3>1. KernelParams.Names + 1 \in Nat  BY <2>2
    <3> HIDE DEF swept
    <3> QED  BY <2>2, <3>1, KernMerges
  <2>4. unread.names \subseteq Nat
    BY HardeningAssumption DEF Kernel!Unread, Kernel!Name, Kernel!KernelAssumption
  <2>5. CASE boot = Unset
    <3>1. unread.names = {}
      <4>1. \A m \in unread.names : ~(m >= 0)  BY <2>1, <2>5
      <4> QED  BY <2>4, <4>1
    <3>2. S = {}  BY <2>3, <2>5
    <3>3. Kernel!BootValue(host, k) = Unset  BY <2>1, <3>1, <3>2, KernBootsNothing
    <3> QED  BY <1>1, <1>2, <3>3
  <2>6. CASE boot # Unset
    <3>1. S # {}  BY <2>3, <2>6
    <3>2. Kernel!Last(S) \in Nat
      <4>1. KernelParams.Names + 1 \in Nat /\ S \in SUBSET (1..(KernelParams.Names + 1))
        BY <2>2, <2>3
      <4> HIDE DEF S
      <4>2. Kernel!Last(S) \in S  BY <3>1, <4>1, KernLast
      <4>3. Kernel!Last(S) \in 1..(KernelParams.Names + 1)  BY Zenon, <4>1, <4>2
      <4> QED  BY <4>1, <4>3
    <3>3. \A m \in unread.names : m < Kernel!Last(S)
      <4>1. \A m \in unread.names : ~(m >= Kernel!Last(S))  BY <2>1, <2>6
      <4> HIDE DEF S
      <4> QED  BY <2>4, <3>2, <4>1
    <3>4. Kernel!BootValue(host, k) = boot  BY <1>1, <2>1, <3>1, <3>3, KernBoots
    <3> QED  BY <1>2, <2>1, <2>6, <3>4
  <2> QED  BY <2>5, <2>6
<1>3. ASSUME NEW k \in Kernel!Param, NEW unread \in Kernel!Unread,
             host.live[k] # Kernel!BootValue(host, k),
             ~Kernel!ViolatedBy(KernelParams.Compare[k], KernelParams.Baseline[k], host.live[k]),
             Kernel!Divergence(host, unread, TRUE, k) = "silent",
             ~Kernel!OpenQuestions(host, unread)
      PROVE  FALSE
  <2> DEFINE swept == Kernel!Swept(host, unread, 1)
             boot  == Kernel!Merged(swept, k)
             S     == Kernel!Setters(swept, k)
             n     == KernelParams.Names
  <2>1. boot # Unset /\ boot = host.live[k]  BY <1>3, KernProbes
  <2>2. ~unread.dir /\ ~unread.ufw /\ unread.names = {}
    BY <1>3 DEF Kernel!OpenQuestions, Kernel!Everything
  <2>3. n \in Nat /\ swept \in KernFiles(n + 1)
    BY Zenon, <1>1, <1>3, KernSweeps
  <2>4. Kernel!Globbers(Append(swept, host.legacy), k) = {}
    BY <1>3 DEF Kernel!OpenQuestions
  <2>5. S # {}
    <3>1. n + 1 \in Nat  BY <2>3
    <3> HIDE DEF swept
    <3> QED  BY <2>1, <2>3, <3>1, KernMerges
  <2> HIDE DEF swept
  <2>6. Kernel!Globbers(swept, k) = {}
    <3>1. Len(swept) = n + 1 /\ swept \in Seq(Kernel!File \cup {Absent})
      BY <2>3 DEF KernFiles
    <3>2. /\ DOMAIN Append(swept, host.legacy) = 1..(n + 2)
          /\ \A i \in 1..(n + 1) : Append(swept, host.legacy)[i] = swept[i]
      BY <2>3, <3>1 DEF KernFiles
    <3>3. \A i \in 1..(n + 1) : i \in 1..(n + 2)  BY <2>3
    <3> QED  BY <2>3, <2>4, <3>2, <3>3 DEF Kernel!Globbers, KernFiles
  <2>7. Kernel!BootValue(host, k) = boot
    BY <1>1, <2>2, <2>5, <2>6, KernBoots DEF swept
  <2> QED  BY <1>3, <2>1, <2>7
<1>4. Kernel!DivergedIsReal  BY Zenon, <1>2 DEF Kernel!DivergedIsReal
<1>5. Kernel!SilenceIsEarned  BY Zenon, <1>3 DEF Kernel!SilenceIsEarned
<1> QED  BY <1>4, <1>5

\* After a success the file of this tool is the last word but for later files, and a
\* scan of those that finds nothing is right about the boot.
LEMMA KernSurvives ==
  ASSUME HardeningAssumption, KernInv
  PROVE  Kernel!HardeningSurvivesBoot
<1> SUFFICES ASSUME call.result = "success",
                    Kernel!BootFindings(call.config, host, Kernel!Everything) = {},
                    ~Kernel!BootUnchecked(host, Kernel!Everything),
                    NEW k \in Kernel!Param, call.file[k] # Unset
             PROVE  ~Kernel!ViolatedBy(KernelParams.Compare[k], Kernel!Target(call.config, k),
                                       Kernel!BootValue(host, k))
  BY Zenon DEF Kernel!HardeningSurvivesBoot, Kernel!Excepted
<1> DEFINE n == KernelParams.Names
           ours == KernelParams.Ours
           all == Kernel!Everything
           from == Kernel!Swept(host, all, ours)
           later == Kernel!Swept(host, all, ours + 1)
           file == [set |-> call.file, glob |-> {}, as |-> Unset]
<1>1. /\ n \in Nat /\ ours \in 1..n /\ n + 1 \in Nat
      /\ Unset \in KernelParams.Value /\ \A f \in Kernel!File : f # Absent
  BY HardeningAssumption DEF Kernel!KernelAssumption, Kernel!Name
<1>2. /\ all \in Kernel!Unread /\ all.names = {} /\ ~all.dir /\ ~all.ufw
  BY DEF Kernel!Everything, Kernel!Unread
<1>3. /\ host \in Kernel!Host /\ call \in KernCall /\ host.etc[ours] = file
  BY DEF KernInv, KernType
<1>4. file \in Kernel!File /\ file # Absent
  BY <1>1, <1>3 DEF KernCall, Kernel!File
<1>5. Kernel!InForce(host, all.dir, ours) = file
  BY <1>2, <1>3, <1>4 DEF Kernel!InForce
<1> HIDE DEF all, ours
<1>6. /\ from \in KernFiles(n + 1) /\ later \in KernFiles(n + 1)
      /\ \A i \in 1..(n + 1) :
            /\ i > ours => later[i] = from[i]
            /\ i < ours => from[i] = Absent
            /\ i <= ours => later[i] = Absent
      /\ from[ours] = file
  <2>1. ours \in Nat /\ ours + 1 \in Nat /\ ours <= n + 1 /\ ours + 1 <= n + 1  BY <1>1
  <2>2. /\ from \in KernFiles(n + 1) /\ from[n + 1] = IF all.ufw THEN Absent ELSE host.ufw
        /\ \A i \in 1..n : from[i] = IF i \in all.names \/ i < ours THEN Absent
                                     ELSE Kernel!InForce(host, all.dir, i)
    BY Zenon, <1>2, <1>3, <2>1, KernSweeps
  <2>3. /\ later \in KernFiles(n + 1) /\ later[n + 1] = IF all.ufw THEN Absent ELSE host.ufw
        /\ \A i \in 1..n : later[i] = IF i \in all.names \/ i < ours + 1 THEN Absent
                                      ELSE Kernel!InForce(host, all.dir, i)
    BY Zenon, <1>2, <1>3, <2>1, KernSweeps
  <2> HIDE DEF from, later
  <2>4. from[ours] = file
    <3>1. ~(ours \in all.names \/ ours < ours)  BY <1>1, <1>2
    <3> QED  BY <1>1, <1>5, <2>2, <3>1
  <2>5. ASSUME NEW i \in 1..(n + 1)
        PROVE  /\ i > ours => later[i] = from[i]
               /\ i < ours => from[i] = Absent
               /\ i <= ours => later[i] = Absent
    <3>1. CASE i = n + 1  BY <1>1, <2>2, <2>3, <3>1
    <3>2. CASE i # n + 1
      <4>1. i \in 1..n  BY <1>1, <3>2
      <4>2. i > ours => ~(i < ours) /\ ~(i < ours + 1)  BY <1>1, <4>1
      <4>3. i <= ours => i < ours + 1  BY <1>1, <4>1
      <4> QED  BY <1>2, <2>2, <2>3, <4>1, <4>2, <4>3
    <3> QED  BY <3>1, <3>2
  <2> QED  BY <2>2, <2>3, <2>4, <2>5
<1>7. Kernel!Globbers(later, k) = {}  BY DEF Kernel!BootUnchecked, all, ours
<1>8. LET v == Kernel!Merged(later, k) IN
      v = Unset \/ ~Kernel!ViolatedBy(KernelParams.Compare[k], Kernel!Target(call.config, k), v)
  BY DEF Kernel!BootFindings, all, ours
<1> DEFINE S == Kernel!Setters(from, k)
           L == Kernel!Setters(later, k)
           d == Kernel!Last(S)
<1>9. /\ S \subseteq 1..(n + 1) /\ L \subseteq 1..(n + 1) /\ ours \in S
      /\ \A i \in 1..(n + 1) : i \in L <=> i \in S /\ i > ours
      /\ Kernel!Globbers(from, k) = {}
  <2> HIDE DEF from, later
  <2>1. ours \in 1..(n + 1)  BY <1>1
  <2>2. file.set[k] # Unset /\ k \notin file.glob  OBVIOUS
  <2>3. S \subseteq 1..(n + 1) /\ L \subseteq 1..(n + 1)  BY <1>1, <1>6, KernMerges
  <2>4. ours \in S  BY <1>4, <1>6, <2>1, <2>2 DEF Kernel!Setters, KernFiles
  <2>5. ASSUME NEW i \in 1..(n + 1) PROVE i \in L <=> i \in S /\ i > ours
    <3>1. i > ours \/ i <= ours  BY <1>1
    <3> QED  BY <1>6, <3>1, <1>1 DEF Kernel!Setters, KernFiles
  <2>6. ASSUME NEW i \in Kernel!Globbers(from, k) PROVE FALSE
    <3>1. i \in 1..(n + 1) /\ from[i] # Absent /\ k \in from[i].glob
      BY <1>6, <2>6 DEF Kernel!Globbers, KernFiles
    <3>2. i > ours  BY <1>1, <1>6, <2>2, <3>1
    <3>3. i \in Kernel!Globbers(later, k)
      BY <1>6, <3>1, <3>2 DEF Kernel!Globbers, KernFiles
    <3> QED  BY <1>7, <3>3
  <2> QED  BY <2>3, <2>4, <2>5, <2>6
<1>10. Kernel!BootValue(host, k) = Kernel!Merged(from, k)
  <2>1. ours \in Nat /\ ours <= n + 1  BY <1>1
  <2> QED  BY <1>2, <1>3, <1>9, <2>1, KernBoots
<1> HIDE DEF from, later
<1>11. /\ d \in S /\ \A j \in S : j <= d
  <2> HIDE DEF S
  <2> QED  BY <1>1, <1>9, KernLast
<1>12. Kernel!Merged(from, k) = from[d].set[k]  BY <1>9 DEF Kernel!Merged
<1>13. CASE d = ours
  <2>1. Kernel!Merged(from, k) = call.file[k]  BY <1>6, <1>12, <1>13
  <2> QED  BY <1>10, <2>1 DEF KernInv, KernDecided
<1>14. CASE d # ours
  <2>1. d \in 1..(n + 1) /\ d > ours /\ d \in L
    <3>1. d \in 1..(n + 1) /\ ours <= d  BY <1>9, <1>11
    <3>2. d > ours  BY <1>1, <1>14, <3>1
    <3> QED  BY <1>9, <1>11, <3>1, <3>2
  <2>2. Kernel!Last(L) \in L /\ d <= Kernel!Last(L)
    <3>1. L # {}  BY <2>1
    <3> HIDE DEF L, d
    <3> QED  BY <1>1, <1>9, <2>1, <3>1, KernLast
  <2>3. Kernel!Last(L) \in S /\ Kernel!Last(L) \in 1..(n + 1)  BY <1>9, <2>2
  <2>4. Kernel!Last(L) <= d  BY <1>11, <2>3
  <2>5. Kernel!Last(L) = d
    <3> HIDE DEF L, d
    <3> QED  BY <2>1, <2>2, <2>3, <2>4
  <2>6. Kernel!Merged(later, k) = from[d].set[k]
    BY <1>6, <2>1, <2>5 DEF Kernel!Merged
  <2>7. from[d].set[k] # Unset  BY <1>11 DEF Kernel!Setters
  <2> QED  BY <1>8, <1>10, <1>12, <2>6, <2>7
<1> QED  BY <1>13, <1>14

\* A call that has decided nothing promises nothing, and keeps what there is.
KernFresh(pc, result, config) ==
    [pc |-> pc, result |-> result, config |-> config, file |-> Kernel!Nothing,
     changed |-> FALSE, ok |-> TRUE, blind |-> {}]

LEMMA KernRests ==
  ASSUME HardeningAssumption, NEW config \in KernelParams.Configs,
         NEW result \in {"none", "failed", "died"}, NEW pc \in {0, 1}, pc = 1 => result = "none",
         call' = KernFresh(pc, result, config), host' \in Kernel!Host,
         host'.etc[KernelParams.Ours] = Absent \/ host'.etc[KernelParams.Ours].glob = {},
         host'.saved = Absent \/ host'.saved.glob = {}
  PROVE  KernInv'
<1>1. Len(KernelParams.Params) \in Nat /\ Unset \in KernelParams.Value
  BY HardeningAssumption DEF Kernel!KernelAssumption
<1>2. /\ Kernel!Nothing \in [Kernel!Param -> KernelParams.Value]
      /\ \A k \in Kernel!Param : Kernel!Nothing[k] = Unset
  BY <1>1 DEF Kernel!Nothing
<1>3. pc \in 0..(Len(KernelParams.Params) + 1)  BY <1>1
<1>4. KernFresh(pc, result, config) \in KernCall
  BY <1>2, <1>3 DEF KernCall, KernFresh
<1>5. /\ call' \in KernCall /\ call'.pc = pc /\ call'.result = result
      /\ call'.file = Kernel!Nothing
  BY <1>4 DEF KernFresh
<1>6. KernType'  BY <1>5 DEF KernType
<1>7. \A k \in Kernel!Param : KernDecided(call', k) /\ KernKeeps(call', host', k)
  BY <1>2, <1>5 DEF KernDecided, KernKeeps
<1> QED  BY <1>5, <1>6, <1>7 DEF KernInv

LEMMA KernBegins ==
  ASSUME HardeningAssumption, KernInv, Kernel!Begin
  PROVE  KernInv'
<1>1. /\ host \in Kernel!Host /\ KernelParams.Ours \in Kernel!Name
      /\ host.etc[KernelParams.Ours] = Absent \/ host.etc[KernelParams.Ours].glob = {}
      /\ host.saved = Absent \/ host.saved.glob = {}
  BY HardeningAssumption DEF KernInv, KernType, Kernel!KernelAssumption
<1>2. PICK config \in KernelParams.Configs :
         \/ /\ call' = [Kernel!Idle EXCEPT !.pc = 1, !.config = config]
            /\ host' = [host EXCEPT !.saved = host.etc[KernelParams.Ours]]
         \/ /\ call' = [Kernel!Idle EXCEPT !.result = "failed", !.config = config]
            /\ UNCHANGED host
  BY Zenon DEF Kernel!Begin
<1>3. CASE /\ call' = [Kernel!Idle EXCEPT !.pc = 1, !.config = config]
           /\ host' = [host EXCEPT !.saved = host.etc[KernelParams.Ours]]
  <2>1. call' = KernFresh(1, "none", config)  BY <1>3 DEF Kernel!Idle, KernFresh
  <2>2. /\ host' \in Kernel!Host /\ host'.etc = host.etc
        /\ host'.saved = host.etc[KernelParams.Ours]
    BY <1>1, <1>3 DEF Kernel!Host
  <2> QED  BY <1>1, <2>1, <2>2, KernRests
<1>4. CASE /\ call' = [Kernel!Idle EXCEPT !.result = "failed", !.config = config]
           /\ UNCHANGED host
  <2>1. call' = KernFresh(0, "failed", config)  BY <1>4 DEF Kernel!Idle, KernFresh
  <2> QED  BY <1>1, <1>4, <2>1, KernRests
<1> QED  BY <1>2, <1>3, <1>4

\* The parameter at hand is left or set to what was decided, which is no weaker than
\* what it was seen to be.
LEMMA KernSets ==
  ASSUME HardeningAssumption, KernInv, Kernel!Set
  PROVE  KernInv' /\ Kernel!NeverLoosens
<1> DEFINE k == KernelParams.Params[call.pc]
           compare == KernelParams.Compare[k]
<1>1. /\ host \in Kernel!Host /\ call \in KernCall
      /\ host.etc[KernelParams.Ours] = Absent \/ host.etc[KernelParams.Ours].glob = {}
      /\ host.saved = Absent \/ host.saved.glob = {}
      /\ \A p \in Kernel!Param :
            KernDecided(call, p) /\ (call.pc # 0 => p \in call.blind \/ KernKeeps(call, host, p))
      /\ call.pc # 0 => call.result = "none"
  BY DEF KernInv, KernType
<1>2. /\ call.pc \in DOMAIN KernelParams.Params /\ k \in Kernel!Param
      /\ call.pc \in 1..Len(KernelParams.Params) /\ Len(KernelParams.Params) \in Nat
  BY HardeningAssumption DEF Kernel!Set, Kernel!KernelAssumption, Kernel!Param
<1>3. PICK observed \in {host.live[k], Unset} :
        LET value == Kernel!Planned(call.config, k, observed)
            next  == [call EXCEPT !.pc = @ + 1, !.file[k] = value,
                             !.blind = IF observed = Unset THEN @ \cup {k} ELSE @]
        IN
        \/ /\ value # Unset => ~Kernel!ViolatedBy(compare, value, observed)
           /\ call' = next /\ UNCHANGED host
        \/ /\ value # Unset /\ Kernel!ViolatedBy(compare, value, observed)
           /\ \/ /\ host' = [host EXCEPT !.live[k] = value]
                 /\ call' = [next EXCEPT !.changed = TRUE]
              \/ /\ call' = [next EXCEPT !.ok = FALSE] /\ UNCHANGED host
  BY Zenon DEF Kernel!Set
<1> DEFINE value == Kernel!Planned(call.config, k, observed)
           file == [call.file EXCEPT ![k] = value]
           blind == IF observed = Unset THEN call.blind \cup {k} ELSE call.blind
<1> HIDE DEF k
<1>4. host.live \in [Kernel!Param -> KernelParams.Value \ {Unset}]
      /\ host.live[k] \in KernelParams.Value \ {Unset}
  BY <1>1, <1>2 DEF Kernel!Host
<1>5. /\ value # Unset =>
            /\ ~Kernel!ViolatedBy(compare, Kernel!Target(call.config, k), value)
            /\ Kernel!Placeable(compare, observed) => ~Kernel!ViolatedBy(compare, observed, value)
      /\ value \in KernelParams.Value
  BY <1>2, KernPlans
<1>6. \A p \in Kernel!Param : \A v :
         Kernel!Placeable(KernelParams.Compare[p], v) =>
            ~Kernel!ViolatedBy(KernelParams.Compare[p], v, v)
  BY KernPlans
<1>7. \/ host' = host
      \/ value # Unset /\ host' = [host EXCEPT !.live[k] = value]
  BY <1>3
<1> HIDE DEF value
<1>8. /\ call' \in KernCall /\ call'.pc = call.pc + 1 /\ call'.result = call.result
      /\ call'.config = call.config /\ call'.file = file /\ call'.blind = blind
  <2> DEFINE next == [call EXCEPT !.pc = @ + 1, !.file = file, !.blind = blind]
  <2>1. file \in [Kernel!Param -> KernelParams.Value] /\ blind \in SUBSET Kernel!Param
    BY <1>1, <1>2, <1>5 DEF KernCall
  <2>2. call.pc + 1 \in 0..(Len(KernelParams.Params) + 1)  BY <1>2
  <2>3. next = [call EXCEPT !.pc = @ + 1, !.file[k] = value,
                            !.blind = IF observed = Unset THEN @ \cup {k} ELSE @]
    BY <1>1 DEF KernCall
  <2>4. call' \in {next, [next EXCEPT !.changed = TRUE], [next EXCEPT !.ok = FALSE]}
    BY <1>3, <2>3 DEF value
  <2> HIDE DEF file, blind
  <2> QED  BY <1>1, <2>1, <2>2, <2>4 DEF KernCall
<1>9. /\ host' \in Kernel!Host /\ host'.etc = host.etc /\ host'.saved = host.saved
      /\ \A p \in Kernel!Param : p # k => host'.live[p] = host.live[p]
      /\ host'.live[k] \in {host.live[k], value}
      /\ value = Unset => host'.live[k] = host.live[k]
  <2>1. CASE host' = host  BY <1>1, <2>1
  <2>2. CASE value # Unset /\ host' = [host EXCEPT !.live[k] = value]
    <3> DEFINE live == [host.live EXCEPT ![k] = value]
    <3>1. live \in [Kernel!Param -> KernelParams.Value \ {Unset}]  BY <1>4, <1>5, <2>2
    <3>2. host' = [host EXCEPT !.live = live]  BY <2>2
    <3>3. live[k] = value /\ \A p \in Kernel!Param : p # k => live[p] = host.live[p]
      BY <1>2, <1>4
    <3> HIDE DEF live
    <3>4. host' \in Kernel!Host /\ host'.live = live /\ host'.etc = host.etc
          /\ host'.saved = host.saved
      BY <1>1, <3>1, <3>2 DEF Kernel!Host
    <3> QED  BY <2>2, <3>3, <3>4
  <2> QED  BY <1>7, <2>1, <2>2
<1>10. /\ file[k] = value
       /\ \A p \in Kernel!Param : p # k => file[p] = call.file[p]
       /\ call.blind \subseteq blind /\ (k \notin blind => observed = host.live[k])
  BY <1>1, <1>2 DEF KernCall
<1> HIDE DEF file, blind
<1>11. ASSUME NEW p \in Kernel!Param
       PROVE  /\ KernDecided(call', p) /\ (p \in call'.blind \/ KernKeeps(call', host', p))
  <2>1. CASE p = k
    <3>1. KernDecided(call', p)  BY <1>5, <1>8, <1>10, <2>1 DEF KernDecided
    <3>2. ASSUME k \notin blind, value # Unset,
                 Kernel!Placeable(compare, host'.live[k])
          PROVE  ~Kernel!ViolatedBy(compare, host'.live[k], value)
      BY <1>2, <1>5, <1>6, <1>9, <1>10, <3>2
    <3> QED  BY <1>8, <1>10, <2>1, <3>1, <3>2 DEF KernKeeps
  <2>2. CASE p # k
    BY <1>1, <1>2, <1>8, <1>9, <1>10, <2>2 DEF KernDecided, KernKeeps
  <2> QED  BY <2>1, <2>2
<1>12. KernInv'
  <2>1. call'.result = "none"  BY <1>1, <1>2, <1>8
  <2> QED  BY <1>1, <1>8, <1>9, <1>11, <2>1 DEF KernInv, KernType
<1>13. Kernel!NeverLoosens
  <2>1. ASSUME NEW p \in Kernel!Param \ call'.blind,
               Kernel!Placeable(KernelParams.Compare[p], host.live[p])
        PROVE  ~Kernel!ViolatedBy(KernelParams.Compare[p], host.live[p], host'.live[p])
    <3>1. CASE p = k  BY <1>2, <1>5, <1>6, <1>8, <1>9, <1>10, <2>1, <3>1
    <3>2. CASE p # k  BY <1>6, <1>9, <2>1, <3>2
    <3> QED  BY <3>1, <3>2
  <2>2. host'.etc = host.etc  BY <1>9
  <2> QED  BY Zenon, <2>1, <2>2 DEF Kernel!NeverLoosens
<1> QED  BY <1>12, <1>13

\* The file of this tool is written of what was decided.
LEMMA KernPersists ==
  ASSUME HardeningAssumption, KernInv, Kernel!Persist
  PROVE  KernInv' /\ Kernel!NeverLoosens
<1> DEFINE file == [set |-> call.file, glob |-> {}, as |-> Unset]
           ours == KernelParams.Ours
<1>1. /\ host \in Kernel!Host /\ call \in KernCall
      /\ host.etc[ours] = Absent \/ host.etc[ours].glob = {}
      /\ host.saved = Absent \/ host.saved.glob = {}
      /\ \A k \in Kernel!Param :
            KernDecided(call, k) /\ (call.pc # 0 => k \in call.blind \/ KernKeeps(call, host, k))
  BY DEF KernInv, KernType
<1>2. /\ Unset \in KernelParams.Value /\ ours \in Kernel!Name
      /\ Len(KernelParams.Params) \in Nat
  BY HardeningAssumption DEF Kernel!KernelAssumption
<1>3. PICK result \in {"success", "failed"} :
         /\ call' = [call EXCEPT !.pc = 0, !.result = result]
         /\ \/ host' = [host EXCEPT !.etc[ours] = file]
            \/ host' = host /\ (result = "success" => host.etc[ours] = file)
  BY DEF Kernel!Persist
<1>4. /\ call' \in KernCall /\ call'.pc = 0 /\ call'.result = result
      /\ call'.config = call.config /\ call'.file = call.file /\ call'.blind = call.blind
  <2>1. 0 \in 0..(Len(KernelParams.Params) + 1)  BY <1>2
  <2> QED  BY <1>1, <1>3, <2>1 DEF KernCall
<1>5. file \in Kernel!File /\ file.set = call.file /\ file.glob = {}
  BY <1>1, <1>2 DEF KernCall, Kernel!File
<1>6. /\ host' \in Kernel!Host /\ host'.live = host.live /\ host'.saved = host.saved
      /\ host'.etc[ours] \in {host.etc[ours], file}
      /\ result = "success" => host'.etc[ours] = file
  <2>1. CASE host' = host /\ (result = "success" => host.etc[ours] = file)
    BY <1>1, <2>1
  <2>2. CASE host' = [host EXCEPT !.etc[ours] = file]
    <3> DEFINE etc == [host.etc EXCEPT ![ours] = file]
    <3>1. host.etc \in [Kernel!Name -> Kernel!File \cup {Absent}]  BY <1>1 DEF Kernel!Host
    <3> HIDE DEF file
    <3>2. etc \in [Kernel!Name -> Kernel!File \cup {Absent}] /\ etc[ours] = file
      BY <1>2, <1>5, <3>1
    <3>3. host' = [host EXCEPT !.etc = etc]  BY <2>2
    <3> HIDE DEF etc
    <3>4. host' \in Kernel!Host /\ host'.etc = etc /\ host'.live = host.live
          /\ host'.saved = host.saved
      BY <1>1, <3>2, <3>3 DEF Kernel!Host
    <3> QED  BY <3>2, <3>4
  <2> QED  BY <1>3, <2>1, <2>2
<1>7. KernInv'
  <2>1. \A k \in Kernel!Param : KernDecided(call', k)  BY <1>1, <1>4 DEF KernDecided
  <2>2. host'.etc[ours] = Absent \/ host'.etc[ours].glob = {}  BY <1>1, <1>5, <1>6
  <2>3. call'.result = "success" =>
           host'.etc[ours] = [set |-> call'.file, glob |-> {}, as |-> Unset]
    BY <1>4, <1>6
  <2> QED  BY <1>1, <1>4, <1>6, <2>1, <2>2, <2>3 DEF KernInv, KernType
<1>8. Kernel!NeverLoosens
  <2> SUFFICES ASSUME NEW k \in Kernel!Param \ call'.blind,
                      Kernel!Placeable(KernelParams.Compare[k], host.live[k])
               PROVE  /\ ~Kernel!ViolatedBy(KernelParams.Compare[k], host.live[k], host'.live[k])
                      /\ (host'.etc[ours] # host.etc[ours] /\ call.file[k] # Unset) =>
                            ~Kernel!ViolatedBy(KernelParams.Compare[k], host.live[k],
                                               host'.etc[ours].set[k])
    BY Zenon DEF Kernel!NeverLoosens, Kernel!Excepted
  <2>1. ~Kernel!ViolatedBy(KernelParams.Compare[k], host.live[k], host'.live[k])
    BY <1>6, KernPlans
  <2>2. ASSUME host'.etc[ours] # host.etc[ours], call.file[k] # Unset
        PROVE  ~Kernel!ViolatedBy(KernelParams.Compare[k], host.live[k], host'.etc[ours].set[k])
    <3>1. call.pc # 0  BY <1>2 DEF Kernel!Persist
    <3>2. KernKeeps(call, host, k)  BY <1>1, <1>4, <3>1
    <3>3. host'.etc[ours].set[k] = call.file[k]  BY <1>5, <1>6, <2>2
    <3> QED  BY <2>2, <3>2, <3>3 DEF KernKeeps
  <2> QED  BY <2>1, <2>2
<1> QED  BY <1>7, <1>8

\* A rollback puts the file back and reloads what can be.
LEMMA KernRollsBack ==
  ASSUME HardeningAssumption, KernInv, Kernel!Rollback
  PROVE  KernInv'
<1> DEFINE ours == KernelParams.Ours
           etc == [host.etc EXCEPT ![ours] = host.saved]
           back == [host EXCEPT !.etc = etc]
<1>1. /\ host \in Kernel!Host /\ call \in KernCall
      /\ host.saved = Absent \/ host.saved.glob = {}
  BY DEF KernInv, KernType
<1>2. ours \in Kernel!Name  BY HardeningAssumption DEF Kernel!KernelAssumption
<1>3. /\ etc \in [Kernel!Name -> Kernel!File \cup {Absent}] /\ etc[ours] = host.saved
      /\ host.live \in [Kernel!Param -> KernelParams.Value \ {Unset}]
  BY <1>1, <1>2 DEF Kernel!Host
<1> HIDE DEF etc
<1>4. /\ back \in Kernel!Host /\ back.etc = etc /\ back.saved = host.saved
  BY <1>1, <1>3 DEF Kernel!Host
<1>5. PICK stuck \in SUBSET Kernel!Param :
        LET b == [host EXCEPT !.etc[ours] = host.saved] IN
        host' = [b EXCEPT !.live = [k \in Kernel!Param |->
                   IF k \in stuck \/ Kernel!ReloadValue(b, k) = Unset THEN host.live[k]
                   ELSE Kernel!ReloadValue(b, k)]]
  BY Zenon DEF Kernel!Rollback
<1> DEFINE live == [k \in Kernel!Param |->
                      IF k \in stuck \/ Kernel!ReloadValue(back, k) = Unset THEN host.live[k]
                      ELSE Kernel!ReloadValue(back, k)]
<1>6. host' = [back EXCEPT !.live = live]
  <2>1. back = [host EXCEPT !.etc[ours] = host.saved]  BY DEF etc
  <2> QED  BY Zenon, <1>5, <2>1
<1> HIDE DEF back
<1>7. live \in [Kernel!Param -> KernelParams.Value \ {Unset}]
  <2>1. \A k \in Kernel!Param : Kernel!ReloadValue(back, k) \in KernelParams.Value
    BY <1>4, KernBrings
  <2> QED  BY <1>3, <2>1
<1> HIDE DEF live
<1>8. host' \in Kernel!Host /\ host'.etc = etc /\ host'.saved = host.saved
  BY <1>4, <1>6, <1>7 DEF Kernel!Host
<1>9. call' = KernFresh(0, "none", call.config) /\ call.config \in KernelParams.Configs
  BY <1>1 DEF Kernel!Rollback, Kernel!Idle, KernFresh, KernCall
<1> QED  BY <1>1, <1>3, <1>8, <1>9, KernRests

\* A boot loads what the files bring, and ends what was in progress; a death ends it.
LEMMA KernReboots ==
  ASSUME HardeningAssumption, KernInv, Kernel!Boot \/ Kernel!Dies
  PROVE  KernInv'
<1>1. /\ host \in Kernel!Host /\ call \in KernCall
      /\ host.etc[KernelParams.Ours] = Absent \/ host.etc[KernelParams.Ours].glob = {}
      /\ host.saved = Absent \/ host.saved.glob = {}
      /\ \A k \in Kernel!Param : KernDecided(call, k)
      /\ call.result = "success" =>
            host.etc[KernelParams.Ours] = [set |-> call.file, glob |-> {}, as |-> Unset]
  BY DEF KernInv, KernType
<1>2. /\ host' \in Kernel!Host /\ host'.etc = host.etc /\ host'.saved = host.saved
  <2>1. CASE Kernel!Dies  BY <1>1, <2>1 DEF Kernel!Dies
  <2>2. CASE Kernel!Boot
    <3> DEFINE live == [k \in Kernel!Param |->
                          Kernel!Over(KernelParams.Default[k], Kernel!BootValue(host, k))]
    <3>1. live \in [Kernel!Param -> KernelParams.Value \ {Unset}]
      <4>1. \A k \in Kernel!Param : Kernel!BootValue(host, k) \in KernelParams.Value
                                    /\ KernelParams.Default[k] \in KernelParams.Value \ {Unset}
        BY <1>1, HardeningAssumption, KernBrings DEF Kernel!KernelAssumption
      <4> QED  BY <4>1 DEF Kernel!Over
    <3>2. host' = [host EXCEPT !.live = live]  BY Zenon, <2>2 DEF Kernel!Boot
    <3> HIDE DEF live
    <3> QED  BY <1>1, <3>1, <3>2 DEF Kernel!Host
  <2> QED  BY <2>1, <2>2
<1>3. CASE call' = call /\ call.pc = 0
  BY <1>1, <1>2, <1>3 DEF KernInv, KernType
<1>4. CASE call' = [Kernel!Idle EXCEPT !.result = "died"]
  <2>1. (CHOOSE c \in KernelParams.Configs : TRUE) \in KernelParams.Configs
    BY HardeningAssumption DEF Kernel!KernelAssumption
  <2>2. call' = KernFresh(0, "died", CHOOSE c \in KernelParams.Configs : TRUE)
    BY <1>4 DEF Kernel!Idle, KernFresh
  <2> QED  BY <1>1, <1>2, <2>1, <2>2, KernRests
<1>5. CASE call' = [Kernel!Idle EXCEPT !.result = "died", !.config = call.config]
  <2>1. call.config \in KernelParams.Configs  BY <1>1 DEF KernCall
  <2>2. call' = KernFresh(0, "died", call.config)  BY <1>5 DEF Kernel!Idle, KernFresh
  <2> QED  BY <1>1, <1>2, <2>1, <2>2, KernRests
<1> QED  BY <1>3, <1>4, <1>5 DEF Kernel!Boot, Kernel!Dies

\* Others write any file but the one of this tool.
LEMMA KernDisturbed ==
  ASSUME HardeningAssumption, KernInv, Kernel!Others
  PROVE  KernInv' /\ Kernel!NeverLoosens
<1> DEFINE ours == KernelParams.Ours
<1>1. host \in Kernel!Host /\ call \in KernCall /\ call' = call
  BY DEF KernInv, KernType, Kernel!Others
<1>2. PICK f \in KernelParams.Files \cup {Absent} :
         \/ \E n \in Kernel!Name \ {ours} : host' = [host EXCEPT !.etc[n] = f]
         \/ host' = [host EXCEPT !.ufw = f]
         \/ host' = [host EXCEPT !.legacy = f]
  BY Zenon DEF Kernel!Others
<1>3. f \in Kernel!File \cup {Absent} /\ ours \in Kernel!Name
  BY HardeningAssumption DEF Kernel!KernelAssumption
<1>4. /\ host' \in Kernel!Host /\ host'.etc[ours] = host.etc[ours]
      /\ host'.live = host.live /\ host'.saved = host.saved
  <2>1. ASSUME NEW n \in Kernel!Name \ {ours}, host' = [host EXCEPT !.etc[n] = f]
        PROVE  /\ host' \in Kernel!Host /\ host'.etc[ours] = host.etc[ours]
               /\ host'.live = host.live /\ host'.saved = host.saved
    <3> DEFINE etc == [host.etc EXCEPT ![n] = f]
    <3>1. /\ etc \in [Kernel!Name -> Kernel!File \cup {Absent}]
          /\ etc[ours] = host.etc[ours]
      BY <1>1, <1>3 DEF Kernel!Host
    <3>2. host' = [host EXCEPT !.etc = etc]  BY <2>1
    <3> HIDE DEF etc
    <3>3. /\ host' \in Kernel!Host /\ host'.etc = etc
          /\ host'.live = host.live /\ host'.saved = host.saved
      BY <1>1, <3>1, <3>2 DEF Kernel!Host
    <3> QED  BY <3>1, <3>3
  <2>2. CASE host' = [host EXCEPT !.ufw = f]  BY <1>1, <1>3, <2>2 DEF Kernel!Host
  <2>3. CASE host' = [host EXCEPT !.legacy = f]  BY <1>1, <1>3, <2>3 DEF Kernel!Host
  <2> QED  BY <1>2, <2>1, <2>2, <2>3
<1>5. KernInv'
  <2>1. \A k \in Kernel!Param : KernKeeps(call, host, k) => KernKeeps(call', host', k)
    BY <1>1, <1>4 DEF KernKeeps
  <2>2. \A k \in Kernel!Param : KernDecided(call', k)  BY <1>1 DEF KernInv
  <2> QED  BY <1>1, <1>4, <2>1, <2>2 DEF KernInv, KernType
<1>6. Kernel!NeverLoosens
  <2>1. \A k \in Kernel!Param :
           Kernel!Placeable(KernelParams.Compare[k], host.live[k]) =>
              ~Kernel!ViolatedBy(KernelParams.Compare[k], host.live[k], host'.live[k])
    BY <1>4, KernPlans
  <2> QED  BY <1>4, <2>1 DEF Kernel!NeverLoosens
<1> QED  BY <1>5, <1>6

\* No step of an apply makes a running value weaker, or leaves for the next boot a
\* weaker one than runs.
LEMMA KernLoosensNothing ==
  ASSUME HardeningAssumption, KernInv, [Kernel!Next]_<<host, call>>
  PROVE  Kernel!NeverLoosens
<1>1. host \in Kernel!Host /\ call \in KernCall  BY DEF KernInv, KernType
<1>2. CASE Kernel!Begin \/ Kernel!Rollback
  <2>1. call.pc = 0  BY <1>2 DEF Kernel!Begin, Kernel!Rollback
  <2> QED  BY <2>1 DEF Kernel!NeverLoosens
<1>3. CASE Kernel!Boot \/ Kernel!Dies
  <2>1. call.pc # 0 => call' = [Kernel!Idle EXCEPT !.result = "died"]
                       \/ call' = [Kernel!Idle EXCEPT !.result = "died", !.config = call.config]
    BY <1>3 DEF Kernel!Boot, Kernel!Dies
  <2>2. call.pc # 0 => call'.pc = 0 /\ call'.result = "died"  BY <2>1 DEF Kernel!Idle
  <2> QED  BY <2>2 DEF Kernel!NeverLoosens
<1>4. CASE UNCHANGED <<host, call>>
  <2>1. \A k \in Kernel!Param :
           Kernel!Placeable(KernelParams.Compare[k], host.live[k]) =>
              ~Kernel!ViolatedBy(KernelParams.Compare[k], host.live[k], host'.live[k])
    BY <1>4, KernPlans
  <2> QED  BY <1>4, <2>1 DEF Kernel!NeverLoosens
<1> QED
  BY <1>2, <1>3, <1>4, KernSets, KernPersists, KernDisturbed DEF Kernel!Next

-----------------------------------------------------------------------------
(* The ssh plugin.                                                         *)

\* The first of the files found has its number.
LEMMA SshFirst ==
  ASSUME NEW n \in Nat, NEW S \in SUBSET (0..n), S # {}
  PROVE  \E r \in S : /\ \A q \in S : r <= q
                      /\ (CHOOSE s \in S : \A q \in S : s <= q) = r
<1> DEFINE T == {n + 1 - i : i \in S}
<1>1. T \in SUBSET (1..(n + 1)) /\ T # {}
  <2>1. ASSUME NEW i \in S PROVE n + 1 - i \in 1..(n + 1)  OBVIOUS
  <2> QED  BY <2>1
<1>2. Kernel!Last(T) \in T /\ \A j \in T : j <= Kernel!Last(T)
  <2> HIDE DEF T
  <2>1. n + 1 \in Nat  OBVIOUS
  <2> QED  BY <1>1, <2>1, KernLast
<1>3. PICK r \in S : Kernel!Last(T) = n + 1 - r  BY <1>2
<1>4. \A q \in S : r <= q
  <2> SUFFICES ASSUME NEW q \in S PROVE r <= q
    OBVIOUS
  <2>1. n + 1 - q \in T  OBVIOUS
  <2>2. n + 1 - q <= n + 1 - r  BY <1>2, <1>3, <2>1
  <2> QED  BY <2>2
<1> DEFINE c == CHOOSE s \in S : \A q \in S : s <= q
<1>5. c \in S /\ \A q \in S : c <= q  BY <1>4
<1> HIDE DEF c
<1>6. c = r
  <2>1. c <= r /\ r <= c  BY <1>4, <1>5
  <2>2. c \in Int /\ r \in Int  BY <1>5
  <2> QED  BY <2>1, <2>2
<1> QED  BY <1>4, <1>6 DEF c

\* The numbers files go by.
LEMMA SshRanks ==
  ASSUME HardeningAssumption
  PROVE  /\ SshParams.Fragments \in Nat /\ SshParams.Ours \in 1..SshParams.Fragments
         /\ Ssh!Fragment = 1..SshParams.Fragments /\ Ssh!Nobody = SshParams.Fragments + 2
         /\ \A file : Ssh!MainRank(file) \in {0, SshParams.Fragments + 1}
BY HardeningAssumption DEF Ssh!SshAssumption, Ssh!Fragment, Ssh!Nobody, Ssh!MainRank

\* The file a key's value is taken from is the first that gives one.
LEMMA SshSupplies ==
  ASSUME HardeningAssumption, NEW file, NEW frags, NEW k, NEW ignored
  PROVE  LET S == Ssh!Suppliers(file, frags, k, ignored)
             r == Ssh!Supplier(file, frags, k, ignored) IN
         /\ S \subseteq 0..(SshParams.Fragments + 1)
         /\ r \in 0..(SshParams.Fragments + 2)
         /\ IF S = {} THEN r = Ssh!Nobody ELSE r \in S /\ \A q \in S : r <= q
         /\ \A s \in S : (\A q \in S : s <= q) => s = r
<1> DEFINE S == Ssh!Suppliers(file, frags, k, ignored)
           r == Ssh!Supplier(file, frags, k, ignored)
<1>1. S \subseteq 0..(SshParams.Fragments + 1)
  BY SshRanks DEF Ssh!Suppliers
<1>2. IF S = {} THEN r = Ssh!Nobody ELSE r \in S /\ \A q \in S : r <= q
  <2>1. CASE S = {}  BY <2>1 DEF Ssh!Supplier
  <2>2. CASE S # {}
    <3>1. r = CHOOSE s \in S : \A q \in S : s <= q  BY <2>2 DEF Ssh!Supplier
    <3>2. SshParams.Fragments + 1 \in Nat  BY SshRanks
    <3> HIDE DEF S, r
    <3>3. PICK t \in S : /\ \A q \in S : t <= q
                         /\ (CHOOSE s \in S : \A q \in S : s <= q) = t
      BY <1>1, <2>2, <3>2, SshFirst
    <3> QED  BY <2>2, <3>1, <3>3
  <2> QED  BY <2>1, <2>2
<1> HIDE DEF S, r
<1>3. \A s \in S : (\A q \in S : s <= q) => s = r
  <2> SUFFICES ASSUME NEW s \in S, \A q \in S : s <= q PROVE s = r
    OBVIOUS
  <2>1. r \in S /\ s <= r /\ r <= s  BY <1>2
  <2>2. s \in Int /\ r \in Int  BY <1>1, <2>1, SshRanks
  <2> QED  BY <2>1, <2>2
<1>4. r \in 0..(SshParams.Fragments + 2)
  <2>1. SshParams.Fragments \in Nat /\ Ssh!Nobody = SshParams.Fragments + 2  BY SshRanks
  <2>2. CASE S = {}  BY <1>2, <2>1, <2>2
  <2>3. CASE S # {}
    <3>1. r \in 0..(SshParams.Fragments + 1)  BY <1>1, <1>2, <2>3
    <3> QED  BY <2>1, <3>1
  <2> QED  BY <2>2, <2>3
<1> QED  BY <1>1, <1>2, <1>3, <1>4 DEF S, r

\* Where the tool's fragment is not heard, sshd obeys what it would without it.
LEMMA SshHears ==
  ASSUME HardeningAssumption, NEW file, NEW frags, NEW k
  PROVE  LET ours == SshParams.Ours
             r    == Ssh!Supplier(file, frags, k, {})
             s    == Ssh!Supplier(file, frags, k, {ours}) IN
         /\ r = ours => /\ Ssh!Effective(file, frags, k) = frags[ours][k]
                        /\ frags[ours][k] # Unset /\ file.include # "none"
         /\ r # ours => /\ r = s
                        /\ Ssh!Effective(file, frags, k)
                              = Ssh!EffectiveWithout(file, frags, k, {ours})
         /\ s # ours /\ (s < ours => r = s)
         /\ (frags[ours][k] # Unset /\ file.include # "none" /\ ours < s) => r = ours
<1> DEFINE ours == SshParams.Ours
           R == Ssh!Suppliers(file, frags, k, {})
           S == Ssh!Suppliers(file, frags, k, {ours})
           r == Ssh!Supplier(file, frags, k, {})
           s == Ssh!Supplier(file, frags, k, {ours})
<1>1. /\ R \ {ours} = S /\ ours \notin S
      /\ ours \in R <=> frags[ours][k] # Unset /\ file.include # "none"
  BY SshRanks DEF Ssh!Suppliers
<1>2. /\ R \subseteq 0..(SshParams.Fragments + 1)
      /\ IF R = {} THEN r = Ssh!Nobody ELSE r \in R /\ \A q \in R : r <= q
      /\ \A t \in R : (\A q \in R : t <= q) => t = r
  BY SshSupplies
<1>3. /\ IF S = {} THEN s = Ssh!Nobody ELSE s \in S /\ \A q \in S : s <= q
      /\ \A t \in S : (\A q \in S : t <= q) => t = s
      /\ s \in 0..(SshParams.Fragments + 2)
  BY SshSupplies
<1>4. /\ Ssh!Effective(file, frags, k) = Ssh!ValueFrom(file, frags, k, r)
      /\ Ssh!EffectiveWithout(file, frags, k, {ours}) = Ssh!ValueFrom(file, frags, k, s)
  BY DEF Ssh!Effective, Ssh!EffectiveWithout
<1>5. ours # Ssh!Nobody /\ ours # Ssh!MainRank(file)  BY SshRanks
<1>6. Ssh!ValueFrom(file, frags, k, ours) = frags[ours][k]
  BY <1>5 DEF Ssh!ValueFrom
<1> HIDE DEF ours, R, S, r, s
<1>7. ASSUME r # ours PROVE r = s
  <2>1. CASE R = {}  BY <1>1, <1>2, <1>3, <2>1
  <2>2. CASE R # {}
    <3>1. r \in S /\ \A q \in S : r <= q  BY <1>1, <1>2, <1>7, <2>2
    <3> QED  BY <1>3, <3>1
  <2> QED  BY <2>1, <2>2
<1>8. ASSUME r = ours PROVE r \in R
  BY <1>2, <1>5, <1>8
<1>9. s # ours  BY <1>1, <1>3, <1>5
<1>10. ASSUME s < ours PROVE r = s
  <2>1. ours \in 1..SshParams.Fragments /\ Ssh!Nobody = SshParams.Fragments + 2
        /\ SshParams.Fragments \in Nat
    BY SshRanks DEF ours
  <2>2. S # {}  BY <1>3, <1>10, <2>1
  <2>3. s \in R /\ s <= ours  BY <1>1, <1>3, <1>10, <2>1, <2>2
  <2>4. \A q \in R : s <= q  BY <1>1, <1>3, <2>2, <2>3
  <2> QED  BY <1>2, <2>3, <2>4
<1>11. ASSUME ours \in R, ours < s PROVE r = ours
  <2>1. ASSUME r # ours PROVE FALSE
    <3>1. r = s /\ r <= ours  BY <1>2, <1>7, <1>11, <2>1
    <3>2. ours \in Int /\ s \in Int  BY <1>3, SshRanks DEF ours
    <3> QED  BY <1>11, <3>1, <3>2
  <2> QED  BY <2>1
<1> QED  BY <1>1, <1>4, <1>6, <1>7, <1>8, <1>9, <1>10, <1>11 DEF ours, R, S, r, s

\* The rule as the plugin has it, and what it asks for: a value the rule finds nothing
\* against, which is never no value.
LEMMA SshJudges ==
  \A compare, v, w :
     /\ Ssh!Placeable(compare, v) <=> Placeable(compare, v)
     /\ Ssh!ViolatedBy(compare, v, w) <=> ViolatedBy(compare, v, w)
     /\ Ssh!ClampTarget(compare, v, w) = ClampTarget(compare, v, w)
<1> SUFFICES ASSUME NEW compare
             PROVE  \A v, w :
                /\ Ssh!Placeable(compare, v) <=> Placeable(compare, v)
                /\ Ssh!ViolatedBy(compare, v, w) <=> ViolatedBy(compare, v, w)
                /\ Ssh!ClampTarget(compare, v, w) = ClampTarget(compare, v, w)
  OBVIOUS
<1>1. \A v : Ssh!Placeable(compare, v) <=> Placeable(compare, v)
  BY DEF Ssh!Placeable, Placeable
<1>2. \A order, v : Ssh!Rank(order, v) = Rank(order, v)
  BY DEF Ssh!Rank, Rank
<1>3. \A v : Ssh!Score(compare, v) = Score(compare, v)
  BY <1>2 DEF Ssh!Score, Score, Ssh!Negated, Negated
<1>4. \A v : Ssh!Spelling(compare, v) = Spelling(compare, v)
  BY <1>2 DEF Ssh!Spelling, Spelling
<1>5. \A v, w : Ssh!ViolatedBy(compare, v, w) <=> ViolatedBy(compare, v, w)
  BY <1>1, <1>3 DEF Ssh!ViolatedBy, ViolatedBy
<1>6. \A v, w : Ssh!ClampTarget(compare, v, w) = ClampTarget(compare, v, w)
  BY <1>1, <1>3, <1>4 DEF Ssh!ClampTarget, ClampTarget
<1> QED  BY <1>1, <1>5, <1>6

LEMMA SshAims ==
  ASSUME HardeningAssumption, NEW d \in SshParams.Directive, NEW config
  PROVE  LET compare == SshParams.Compare[d]
             target  == Ssh!Target(config, d) IN
         /\ target # Unset /\ ~Ssh!ViolatedBy(compare, target, target)
         /\ \A now : LET clamped == Ssh!ClampTarget(compare, target, now) IN
               clamped # Unset /\ ~Ssh!ViolatedBy(compare, target, clamped)
         /\ \A v : ~Ssh!ViolatedBy(compare, target, v) => v # Unset
<1> DEFINE compare == SshParams.Compare[d]
           target  == Ssh!Target(config, d)
<1>1. /\ IsComparison(compare) /\ Placeable(compare, SshParams.Baseline[d])
      /\ ~Placeable(compare, Unset)
  <2>1. Ssh!IsComparison(compare) => IsComparison(compare)
    BY DEF Ssh!IsComparison, Ssh!Kind, IsComparison, Kind
  <2>2. /\ Ssh!IsComparison(compare) /\ Ssh!Placeable(compare, SshParams.Baseline[d])
        /\ ~Ssh!Placeable(compare, Unset)
    BY HardeningAssumption DEF Ssh!SshAssumption
  <2> QED  BY <2>1, <2>2, SshJudges
<1>2. target = ClampTarget(compare, SshParams.Baseline[d], config.override[d])
  BY SshJudges DEF Ssh!Target, Ssh!ResolvedTarget
<1> HIDE DEF compare, target
<1>3. ASSUME NEW baseline, Placeable(compare, baseline), NEW candidate
      PROVE  Placeable(compare, ClampTarget(compare, baseline, candidate))
  <2>1. PICK v : Placeable(compare, v)
                   /\ ClampTarget(compare, baseline, candidate) = Spelling(compare, v)
    BY Zenon, <1>1, <1>3, Clamps
  <2> QED  BY <1>1, <2>1, Places
<1>4. Placeable(compare, target)  BY <1>1, <1>2, <1>3
<1>5. ~ViolatedBy(compare, target, target)  BY <1>1, <1>4, Places DEF ViolatedBy
<1>6. \A now : /\ Placeable(compare, ClampTarget(compare, target, now))
               /\ ~ViolatedBy(compare, target, ClampTarget(compare, target, now))
  BY <1>1, <1>3, <1>4, Clamps
<1>7. \A v : ~ViolatedBy(compare, target, v) => Placeable(compare, v)
  BY DEF ViolatedBy
<1> QED  BY <1>1, <1>4, <1>5, <1>6, <1>7, SshJudges DEF compare, target

\* What an edit of the main file does to one key, the fragments being what they are.
LEMMA SshEdits ==
  ASSUME HardeningAssumption, NEW file, NEW edited, edited.include = file.include,
         NEW frags, NEW k
  PROVE  LET ours == SshParams.Ours IN
         /\ edited.set[k] = file.set[k] =>
               /\ Ssh!Effective(edited, frags, k) = Ssh!Effective(file, frags, k)
               /\ Ssh!EffectiveWithout(edited, frags, k, {ours})
                     = Ssh!EffectiveWithout(file, frags, k, {ours})
         /\ edited.set[k] # Unset /\ ~Ssh!Overridden(file, frags, k) =>
               Ssh!EffectiveWithout(edited, frags, k, {ours}) = edited.set[k]
         /\ edited.set[k] # Unset /\ Ssh!Supplier(edited, frags, k, {}) = ours =>
               Ssh!Supplier(file, frags, k, {}) = ours
<1> DEFINE ours == SshParams.Ours
           main == Ssh!MainRank(file)
           Of(f, ignored) == Ssh!Suppliers(f, frags, k, ignored)
           First(f, ignored) == Ssh!Supplier(f, frags, k, ignored)
<1>1. Ssh!MainRank(edited) = main  BY DEF Ssh!MainRank
<1>2. ASSUME edited.set[k] = file.set[k]
      PROVE  \A ignored : Ssh!EffectiveWithout(edited, frags, k, ignored)
                             = Ssh!EffectiveWithout(file, frags, k, ignored)
  <2> SUFFICES ASSUME NEW ignored
               PROVE  Ssh!EffectiveWithout(edited, frags, k, ignored)
                         = Ssh!EffectiveWithout(file, frags, k, ignored)
    OBVIOUS
  <2>1. Of(edited, ignored) = Of(file, ignored)  BY <1>1, <1>2 DEF Ssh!Suppliers
  <2>2. First(edited, ignored) = First(file, ignored)  BY <2>1 DEF Ssh!Supplier
  <2> QED  BY <1>1, <1>2, <2>2 DEF Ssh!EffectiveWithout, Ssh!ValueFrom
<1>3. ASSUME edited.set[k] # Unset
      PROVE  \A ignored : Of(edited, ignored) = Of(file, ignored) \cup {main}
  BY <1>1, <1>3 DEF Ssh!Suppliers
<1>4. ASSUME edited.set[k] # Unset, ~Ssh!Overridden(file, frags, k)
      PROVE  Ssh!EffectiveWithout(edited, frags, k, {ours}) = edited.set[k]
  <2>1. First(file, {ours}) \in {main, Ssh!Nobody}  BY <1>4 DEF Ssh!Overridden
  <2>2. /\ Of(file, {ours}) \subseteq 0..(SshParams.Fragments + 1)
        /\ IF Of(file, {ours}) = {} THEN First(file, {ours}) = Ssh!Nobody
           ELSE /\ First(file, {ours}) \in Of(file, {ours})
                /\ \A q \in Of(file, {ours}) : First(file, {ours}) <= q
    BY SshSupplies
  <2>3. main \in Nat /\ Ssh!Nobody \notin 0..(SshParams.Fragments + 1)  BY SshRanks
  <2>4. Of(edited, {ours}) = Of(file, {ours}) \cup {main}  BY <1>3, <1>4
  <2> HIDE DEF main, Of, First
  <2>5. \A q \in Of(file, {ours}) : main <= q  BY <2>1, <2>2, <2>3
  <2>6. main \in Of(edited, {ours}) /\ \A q \in Of(edited, {ours}) : main <= q
    <3>1. main <= main  BY <2>3
    <3> QED  BY ONLY <2>4, <2>5, <3>1, Zenon
  <2>7. First(edited, {ours}) = main
    BY <2>6, SshSupplies DEF Of, First
  <2>8. main # Ssh!Nobody  BY SshRanks DEF main
  <2> QED  BY <1>1, <2>7, <2>8 DEF Ssh!EffectiveWithout, Ssh!ValueFrom, First
<1>5. ASSUME edited.set[k] # Unset, First(edited, {}) = ours
      PROVE  First(file, {}) = ours
  <2>1. Of(edited, {}) = Of(file, {}) \cup {main}  BY <1>3, <1>5
  <2>2. ours # main /\ ours # Ssh!Nobody  BY SshRanks
  <2>3. IF Of(edited, {}) = {} THEN First(edited, {}) = Ssh!Nobody
        ELSE /\ First(edited, {}) \in Of(edited, {})
             /\ \A q \in Of(edited, {}) : First(edited, {}) <= q
    BY SshSupplies
  <2>4. \A s \in Of(file, {}) : (\A q \in Of(file, {}) : s <= q) => s = First(file, {})
    BY SshSupplies
  <2> HIDE DEF ours, main, Of, First
  <2>5. ours \in Of(file, {}) /\ \A q \in Of(file, {}) : ours <= q
    BY <1>5, <2>1, <2>2, <2>3
  <2> QED  BY <2>4, <2>5
<1> QED  BY <1>2, <1>4, <1>5 DEF Ssh!Effective

\* What is decided of a key that is not excused: the main file keeps its value, or gets
\* a secure one that no other file hides; and the fragment gets a secure one, or what is
\* obeyed without it is secure.
SshSettles(config, file, frags, k, decision) ==
    /\ \/ decision.main = file.set[k]
       \/ /\ decision.main # Unset /\ ~Ssh!Insecure(config, k, decision.main)
          /\ ~Ssh!Overridden(file, frags, k)
    /\ IF decision.drop = Unset
       THEN \A edited :
               edited.include = file.include /\ edited.set[k] = decision.main =>
                  ~Ssh!Insecure(config, k,
                      Ssh!EffectiveWithout(edited, frags, k, {SshParams.Ours}))
       ELSE ~Ssh!Insecure(config, k, decision.drop)

\* A key is settled by keeping a main file that makes it secure without the fragment, by
\* a secure value in the fragment, and by one in a main file that nothing hides.
LEMMA SshSettlesBy ==
  ASSUME HardeningAssumption, NEW config, NEW file, NEW frags, NEW k, NEW e, NEW v, v # Unset,
         ~Ssh!Insecure(config, k, v)
  PROVE  /\ SshSettles(config, file, frags, k, Ssh!Decision(file.set[k], v, e))
         /\ ~Ssh!Overridden(file, frags, k) =>
               SshSettles(config, file, frags, k, Ssh!Decision(v, Unset, e))
<1>1. SshSettles(config, file, frags, k, Ssh!Decision(file.set[k], v, e))
  BY DEF SshSettles, Ssh!Decision
<1>2. ASSUME ~Ssh!Overridden(file, frags, k)
      PROVE  SshSettles(config, file, frags, k, Ssh!Decision(v, Unset, e))
  <2>1. ASSUME NEW edited, edited.include = file.include, edited.set[k] = v
        PROVE  Ssh!EffectiveWithout(edited, frags, k, {SshParams.Ours}) = v
    BY <1>2, <2>1, SshEdits
  <2> QED  BY <1>2, <2>1 DEF SshSettles, Ssh!Decision
<1> QED  BY <1>1, <1>2

LEMMA SshKeepsBy ==
  ASSUME HardeningAssumption, NEW config, NEW file, NEW frags, NEW k, NEW e,
         ~Ssh!Insecure(config, k,
             Ssh!EffectiveWithout(file, frags, k, {SshParams.Ours}))
  PROVE  SshSettles(config, file, frags, k, Ssh!Decision(file.set[k], Unset, e))
<1>1. ASSUME NEW edited, edited.include = file.include, edited.set[k] = file.set[k]
      PROVE  Ssh!EffectiveWithout(edited, frags, k, {SshParams.Ours})
                = Ssh!EffectiveWithout(file, frags, k, {SshParams.Ours})
  BY <1>1, SshEdits
<1> QED  BY <1>1 DEF SshSettles, Ssh!Decision

\* A decision leaves a vendor's file as it is, and settles its key or excuses it.
SshDecided(config, file, frags, k, decision) ==
    /\ decision = Ssh!Decision(decision.main, decision.drop, decision.excused)
    /\ file.layer = "vendor" => decision.main = file.set[k]
    /\ decision.excused \in BOOLEAN
    /\ ~decision.excused => SshSettles(config, file, frags, k, decision)

LEMMA SshDirectives ==
  ASSUME HardeningAssumption, NEW config, NEW root \in BOOLEAN, NEW file, NEW frags,
         NEW d \in SshParams.Directive \ SshParams.Crypto
  PROVE  SshDecided(config, file, frags, d,
                    Ssh!DirectiveDecision(config, root, file, frags, d))
<1> DEFINE now      == Ssh!Effective(file, frags, d)
           target   == Ssh!Target(config, d)
           under    == Ssh!EffectiveWithout(file, frags, d, {SshParams.Ours})
           guard    == root /\ d = SshParams.RootLogin /\ target = SshParams.No
           goal     == IF guard THEN SshParams.Safe ELSE target
           clamped  == Ssh!ClampTarget(SshParams.Compare[d], goal, now)
           keep     == file.set[d]
           held     == Ssh!HeldByOurs(file, frags, d)
           decision == Ssh!DirectiveDecision(config, root, file, frags, d)
<1>1. \A v : Ssh!Insecure(config, d, v)
                <=> Ssh!ViolatedBy(SshParams.Compare[d], target, v)
  BY DEF Ssh!Insecure
<1>2. \/ decision = Ssh!Decision(keep, Unset, TRUE)
      \/ decision = Ssh!Decision(keep, held, TRUE)
      \/ /\ ~Ssh!ViolatedBy(SshParams.Compare[d], target, under)
         /\ decision = Ssh!Decision(keep, Unset, FALSE)
      \/ decision = Ssh!Decision(keep, clamped, guard)
      \/ /\ ~(file.layer = "vendor") /\ ~Ssh!Overridden(file, frags, d)
         /\ \/ /\ ~Ssh!ViolatedBy(SshParams.Compare[d], target, keep)
               /\ decision = Ssh!Decision(keep, Unset, FALSE)
            \/ decision = Ssh!Decision(goal, Unset, guard)
  BY DEF Ssh!DirectiveDecision
<1>3. guard \in BOOLEAN /\ (~guard => goal = target)  OBVIOUS
<1>4. /\ target # Unset /\ ~Ssh!Insecure(config, d, target)
      /\ ~guard => clamped # Unset /\ ~Ssh!Insecure(config, d, clamped)
      /\ \A v : ~Ssh!Insecure(config, d, v) => v # Unset
  BY <1>1, <1>3, SshAims
<1> HIDE DEF now, target, under, guard, goal, clamped, keep, held, decision
<1>5. CASE decision = Ssh!Decision(keep, Unset, TRUE) \/ decision = Ssh!Decision(keep, held, TRUE)
  <2>1. \A v : SshDecided(config, file, frags, d, Ssh!Decision(file.set[d], v, TRUE))
    BY DEF SshDecided, Ssh!Decision
  <2> QED  BY <1>5, <2>1 DEF keep, decision
<1>6. CASE /\ ~Ssh!ViolatedBy(SshParams.Compare[d], target, under)
           /\ decision = Ssh!Decision(keep, Unset, FALSE)
  <2>1. SshSettles(config, file, frags, d, decision)
    BY <1>1, <1>6, SshKeepsBy DEF keep, under
  <2> QED  BY <1>6, <2>1 DEF SshDecided, Ssh!Decision, keep, decision
<1>7. CASE decision = Ssh!Decision(keep, clamped, guard)
  <2>1. ~guard => SshSettles(config, file, frags, d, decision)
    BY <1>4, <1>7, SshSettlesBy DEF keep
  <2> QED  BY <1>3, <1>7, <2>1 DEF SshDecided, Ssh!Decision, keep, decision
<1>8. CASE /\ ~(file.layer = "vendor") /\ ~Ssh!Overridden(file, frags, d)
           /\ ~Ssh!ViolatedBy(SshParams.Compare[d], target, keep)
           /\ decision = Ssh!Decision(keep, Unset, FALSE)
  <2>1. keep # Unset /\ ~Ssh!Insecure(config, d, keep)  BY <1>1, <1>4, <1>8
  <2>2. SshSettles(config, file, frags, d, decision)  BY <1>8, <2>1, SshSettlesBy
  <2> QED  BY <1>8, <2>2 DEF SshDecided, Ssh!Decision, keep, decision
<1>9. CASE /\ ~(file.layer = "vendor") /\ ~Ssh!Overridden(file, frags, d)
           /\ decision = Ssh!Decision(goal, Unset, guard)
  <2>1. ~guard => SshSettles(config, file, frags, d, decision)
    BY <1>3, <1>4, <1>9, SshSettlesBy
  <2> QED  BY <1>3, <1>9, <2>1 DEF SshDecided, Ssh!Decision, keep, decision
<1> QED  BY <1>2, <1>5, <1>6, <1>7, <1>8, <1>9

LEMMA SshCryptos ==
  ASSUME HardeningAssumption, NEW config, NEW supported, NEW file, NEW frags,
         NEW k \in SshParams.Crypto
  PROVE  SshDecided(config, file, frags, k,
                    Ssh!CryptoDecision(config, supported, file, frags, k))
<1> DEFINE chosen   == SshParams.Desired \cap supported
           keep     == file.set[k]
           under    == Ssh!EffectiveWithout(file, frags, k, {SshParams.Ours})
           decision == Ssh!CryptoDecision(config, supported, file, frags, k)
<1>1. \A v : Ssh!Insecure(config, k, v) <=> ~Ssh!CryptoSecure(v)
  BY DEF Ssh!Insecure
<1>2. \/ decision = Ssh!Decision(keep, Unset, TRUE)
      \/ Ssh!CryptoSecure(under) /\ decision = Ssh!Decision(keep, Unset, FALSE)
      \/ chosen # {} /\ decision = Ssh!Decision(keep, chosen, FALSE)
      \/ /\ chosen # {} /\ ~(file.layer = "vendor") /\ ~Ssh!Overridden(file, frags, k)
         /\ decision = Ssh!Decision(chosen, Unset, FALSE)
  BY DEF Ssh!CryptoDecision
<1>3. chosen # {} => chosen # Unset /\ ~Ssh!Insecure(config, k, chosen)
  <2>1. chosen \in SUBSET SshParams.Desired  OBVIOUS
  <2>2. chosen # Unset  BY <2>1, HardeningAssumption DEF Ssh!SshAssumption
  <2> QED  BY <1>1, <2>1, <2>2 DEF Ssh!CryptoSecure
<1> HIDE DEF chosen, keep, under, decision
<1>4. CASE decision = Ssh!Decision(keep, Unset, TRUE)
  BY <1>4 DEF SshDecided, Ssh!Decision, keep, decision
<1>5. CASE Ssh!CryptoSecure(under) /\ decision = Ssh!Decision(keep, Unset, FALSE)
  <2>1. SshSettles(config, file, frags, k, decision)
    BY <1>1, <1>5, SshKeepsBy DEF keep, under
  <2> QED  BY <1>5, <2>1 DEF SshDecided, Ssh!Decision, keep, decision
<1>6. CASE chosen # {} /\ decision = Ssh!Decision(keep, chosen, FALSE)
  <2>1. SshSettles(config, file, frags, k, decision)
    BY <1>3, <1>6, SshSettlesBy DEF keep
  <2> QED  BY <1>6, <2>1 DEF SshDecided, Ssh!Decision, keep, decision
<1>7. CASE /\ chosen # {} /\ ~(file.layer = "vendor") /\ ~Ssh!Overridden(file, frags, k)
           /\ decision = Ssh!Decision(chosen, Unset, FALSE)
  <2>1. SshSettles(config, file, frags, k, decision)  BY <1>3, <1>7, SshSettlesBy
  <2> QED  BY <1>7, <2>1 DEF SshDecided, Ssh!Decision, keep, decision
<1> QED  BY <1>2, <1>4, <1>5, <1>6, <1>7

LEMMA SshDecides ==
  ASSUME HardeningAssumption, NEW config, NEW root \in BOOLEAN, NEW supported, NEW file, NEW frags
  PROVE  LET plan == Ssh!Decisions(config, root, supported, file, frags) IN
         /\ plan = [k \in Ssh!Key |-> plan[k]]
         /\ \A k \in Ssh!Key : SshDecided(config, file, frags, k, plan[k])
<1> DEFINE plan == Ssh!Decisions(config, root, supported, file, frags)
<1>1. plan = [k \in Ssh!Key |-> plan[k]]  BY DEF Ssh!Decisions
<1>2. ASSUME NEW k \in Ssh!Key PROVE SshDecided(config, file, frags, k, plan[k])
  <2>1. CASE k \in SshParams.Crypto
    <3>1. plan[k] = Ssh!CryptoDecision(config, supported, file, frags, k)
      BY <2>1 DEF Ssh!Decisions
    <3> QED  BY <2>1, <3>1, SshCryptos
  <2>2. CASE k \notin SshParams.Crypto
    <3>1. plan[k] = Ssh!DirectiveDecision(config, root, file, frags, k)
      BY <2>2 DEF Ssh!Decisions
    <3>2. k \in SshParams.Directive \ SshParams.Crypto  BY <2>2 DEF Ssh!Key
    <3> QED  BY <3>1, <3>2, SshDirectives
  <2> QED  BY <2>1, <2>2
<1> QED  BY <1>1, <1>2

\* What an apply in progress, or the last one, has of the host it read, while nobody
\* else writes it: until its own writes the main file is the one it read, and its plan
\* settles each key that is not excused; then both files are as planned; and what a
\* success or a no-op promises.
SshEdited(c) == [c.seen EXCEPT !.set = [k \in Ssh!Key |-> c.plan[k].main]]

SshUnasked(c, h) ==
    IF c.checked THEN {} ELSE Ssh!Unheard(h.frag[SshParams.Ours], h.main, h.frag)

SshClean(c, h) ==
    \A k \in Ssh!Key : ~c.plan[k].excused /\ k \notin SshUnasked(c, h) =>
        ~Ssh!Insecure(c.config, k, Ssh!Effective(h.main, h.frag, k))

SshPlanned(c, h) ==
    \A k \in Ssh!Key :
        ~c.plan[k].excused => SshSettles(c.config, c.seen, h.frag, k, c.plan[k])

SshHolds(c, h) ==
    /\ c.pc # "idle" => c.result = "none"
    /\ c.pc \in {"open", "lock", "plan", "gate", "dropin"} => ~c.checked
    /\ c.pc \in {"open", "lock", "plan", "gate"} => c.ok
    /\ c.pc \in {"gate", "dropin", "verify", "restart"} /\ c.seen.layer = "vendor" =>
          \A k \in Ssh!Key : c.plan[k].main = c.seen.set[k]
    /\ c.quiet =>
          /\ c.pc \in {"open", "lock", "plan", "gate"} => h.main = c.seen
          /\ c.pc \in {"gate", "dropin", "verify", "restart"} => SshPlanned(c, h)
          /\ c.ok /\ c.pc \in {"dropin", "verify", "restart"} => h.main = SshEdited(c)
          /\ ~c.ok /\ c.pc = "dropin" => h.main = c.seen
          /\ c.ok /\ c.pc \in {"verify", "restart"} =>
                h.frag[SshParams.Ours] = Ssh!Dropin(c.plan)
          /\ c.ok /\ c.pc = "restart" /\ c.checked =>
                Ssh!Unheard(h.frag[SshParams.Ours], h.main, h.frag) = {}
          /\ c.result \in {"success", "noop"} => SshClean(c, h)
          /\ c.result = "success" => h.running = Ssh!Obeyed(h.main, h.frag)

SshIsCall(c) ==
    /\ c = [pc |-> c.pc, result |-> c.result, quiet |-> c.quiet, session |-> c.session,
            config |-> c.config, seen |-> c.seen, fd |-> c.fd, plan |-> c.plan,
            checked |-> c.checked, ok |-> c.ok]
    /\ c.pc \in {"idle", "open", "lock", "plan", "gate", "dropin", "verify", "restart"}
    /\ c.result \in {"none", "noop", "success", "failed", "died"}
    /\ c.quiet \in BOOLEAN /\ c.checked \in BOOLEAN /\ c.ok \in BOOLEAN
    /\ Ssh!IsMain(c.seen)

SshIsHost(h) ==
    /\ h = [main |-> h.main, frag |-> h.frag, running |-> h.running, inode |-> h.inode]
    /\ Ssh!IsMain(h.main)
    /\ h.frag = [f \in Ssh!Fragment |-> h.frag[f]]
    /\ \A f \in Ssh!Fragment : Ssh!IsFragment(h.frag[f])

SshInv ==
    /\ SshIsHost(host)
    /\ call = [p \in Process |-> call[p]]
    /\ \A p \in Process : SshIsCall(call[p]) /\ SshHolds(call[p], host)

\* What a write leaves of what was compliant, a key apart that a failed write of the
\* main file left with the fragment.
SshStrands(c, h, k) ==
    /\ ~c.ok /\ c.plan[k].main # c.seen.set[k]
    /\ Ssh!HeldByOurs(h.main, h.frag, k) # Unset

SshLeaves(c, h, g) ==
    \A k \in Ssh!Key :
        /\ ~c.plan[k].excused /\ ~SshStrands(c, h, k)
        /\ ~Ssh!Insecure(c.config, k, Ssh!Effective(h.main, h.frag, k))
        => ~Ssh!Insecure(c.config, k, Ssh!Effective(g.main, g.frag, k))

\* Another's write takes from an apply that the host is as it read it; a restart, or a
\* step that writes nothing, leaves everything an apply knows.
LEMMA SshMoves ==
  ASSUME SshInv, NEW p \in Process, NEW mine, SshIsCall(mine), SshHolds(mine, host'),
         SshIsHost(host'),
         \/ /\ call' = [call EXCEPT ![p] = mine]
            /\ host'.main = host.main /\ host'.frag = host.frag
            /\ host'.running \in {host.running, Ssh!Obeyed(host.main, host.frag)}
         \/ /\ call' = [q \in Process |->
                          IF q = p THEN mine ELSE [call[q] EXCEPT !.quiet = FALSE]]
            /\ mine.quiet => SshLeaves(call[p], host, host')
  PROVE  SshInv' /\ Ssh!KeepsCompliance
<1>1. /\ call = [q \in Process |-> call[q]]
      /\ \A q \in Process : SshIsCall(call[q]) /\ SshHolds(call[q], host)
  BY DEF SshInv
<1>2. CASE /\ call' = [call EXCEPT ![p] = mine]
           /\ host'.main = host.main /\ host'.frag = host.frag
           /\ host'.running \in {host.running, Ssh!Obeyed(host.main, host.frag)}
  <2>1. call' = [q \in Process |-> IF q = p THEN mine ELSE call[q]]  BY <1>1, <1>2
  <2>2. call' = [q \in Process |-> call'[q]]  BY <2>1
  <2>3. ASSUME NEW q \in Process PROVE SshIsCall(call'[q]) /\ SshHolds(call'[q], host')
    <3>1. CASE q = p  BY <2>1, <3>1
    <3>2. CASE q # p
      <4>1. call'[q] = call[q]  BY <2>1, <3>2
      <4>2. /\ SshPlanned(call[q], host') <=> SshPlanned(call[q], host)
            /\ SshClean(call[q], host') <=> SshClean(call[q], host)
        BY <1>2 DEF SshPlanned, SshClean, SshUnasked
      <4>3. host.running = Ssh!Obeyed(host.main, host.frag)
               => host'.running = Ssh!Obeyed(host'.main, host'.frag)
        BY <1>2
      <4>4. SshIsCall(call[q]) /\ SshHolds(call[q], host)  BY <1>1
      <4> QED  BY <1>2, <4>1, <4>2, <4>3, <4>4 DEF SshHolds
    <3> QED  BY <3>1, <3>2
  <2>4. SshInv'  BY <2>2, <2>3 DEF SshInv
  <2>5. Ssh!KeepsCompliance  BY <1>2 DEF Ssh!KeepsCompliance
  <2> QED  BY <2>4, <2>5
<1>3. CASE /\ call' = [q \in Process |->
                          IF q = p THEN mine ELSE [call[q] EXCEPT !.quiet = FALSE]]
           /\ mine.quiet => SshLeaves(call[p], host, host')
  <2>1. call' = [q \in Process |-> call'[q]]  BY <1>3
  <2>2. ASSUME NEW q \in Process
        PROVE  /\ SshIsCall(call'[q]) /\ SshHolds(call'[q], host')
               /\ q # p => call'[q].quiet = FALSE
    <3>1. CASE q = p
      <4>1. call'[q] = mine  BY <1>3, <3>1
      <4> QED  BY <3>1, <4>1
    <3>2. CASE q # p
      <4> DEFINE c == call[q]
                 d == call'[q]
      <4>1. d = [c EXCEPT !.quiet = FALSE]  BY <1>3, <3>2
      <4>2. SshIsCall(c) /\ SshHolds(c, host)  BY <1>1
      <4>3. c = [pc |-> c.pc, result |-> c.result, quiet |-> c.quiet, session |-> c.session,
                 config |-> c.config, seen |-> c.seen, fd |-> c.fd, plan |-> c.plan,
                 checked |-> c.checked, ok |-> c.ok]
        BY <4>2 DEF SshIsCall
      <4> HIDE DEF c, d
      <4>4. d = [pc |-> c.pc, result |-> c.result, quiet |-> FALSE, session |-> c.session,
                 config |-> c.config, seen |-> c.seen, fd |-> c.fd, plan |-> c.plan,
                 checked |-> c.checked, ok |-> c.ok]
        BY <4>1, <4>3
      <4>5. SshIsCall(d)  BY <4>2, <4>4 DEF SshIsCall
      <4>6. SshHolds(d, host')  BY <4>2, <4>4 DEF SshHolds
      <4> QED  BY <4>4, <4>5, <4>6 DEF d
    <3> QED  BY <3>1, <3>2
  <2>3. SshInv'  BY <2>1, <2>2 DEF SshInv
  <2>4. call'[p] = mine  BY <1>3
  <2>5. Ssh!KeepsCompliance
    <3> SUFFICES ASSUME NEW q \in Process, call'[q].quiet,
                        NEW k \in Ssh!Key \ (Ssh!Excused(q) \cup Ssh!Stranded(q)),
                        ~Ssh!Insecure(call[q].config, k, Ssh!Effective(host.main, host.frag, k))
                 PROVE  ~Ssh!Insecure(call[q].config, k,
                                      Ssh!Effective(host'.main, host'.frag, k))
      BY DEF Ssh!KeepsCompliance
    <3>1. q = p  BY <2>2
    <3>2. ~call[p].plan[k].excused /\ ~SshStrands(call[p], host, k)
      BY <3>1 DEF Ssh!Excused, Ssh!Stranded, SshStrands
    <3> QED  BY <1>3, <2>4, <3>1, <3>2 DEF SshLeaves
  <2> QED  BY <2>3, <2>5
<1> QED  BY <1>2, <1>3

\* What another content of the tool's own fragment leaves as it was.
LEMMA SshRewrites ==
  ASSUME HardeningAssumption, NEW file, NEW frags, NEW other,
         \A f \in Ssh!Fragment \ {SshParams.Ours} : other[f] = frags[f], NEW k
  PROVE  LET ours == SshParams.Ours IN
         /\ Ssh!EffectiveWithout(file, other, k, {ours})
               = Ssh!EffectiveWithout(file, frags, k, {ours})
         /\ Ssh!Overridden(file, other, k) <=> Ssh!Overridden(file, frags, k)
         /\ other[ours][k] # Unset /\ Ssh!Supplier(file, other, k, {}) # ours =>
               Ssh!Supplier(file, frags, k, {}) # ours
<1> DEFINE ours == SshParams.Ours
           S == Ssh!Suppliers(file, frags, k, {ours})
           s == Ssh!Supplier(file, frags, k, {ours})
           t == Ssh!Supplier(file, other, k, {ours})
<1>1. Ssh!Suppliers(file, other, k, {ours}) = S  BY DEF Ssh!Suppliers
<1>2. t = s
  <2> DEFINE O == Ssh!Suppliers(file, other, k, {ours})
  <2>1. s = IF S = {} THEN Ssh!Nobody ELSE CHOOSE i \in S : \A q \in S : i <= q
    BY Zenon DEF Ssh!Supplier
  <2>2. t = IF O = {} THEN Ssh!Nobody ELSE CHOOSE i \in O : \A q \in O : i <= q
    BY Zenon DEF Ssh!Supplier
  <2>3. O = S  BY <1>1
  <2> HIDE DEF S, O, s, t
  <2> QED  BY <2>1, <2>2, <2>3
<1>3. IF S = {} THEN s = Ssh!Nobody ELSE s \in S
  BY SshSupplies
<1>4. s = Ssh!Nobody \/ s = Ssh!MainRank(file) \/ s \in Ssh!Fragment \ {ours}
  BY <1>3 DEF Ssh!Suppliers
<1>5. Ssh!ValueFrom(file, other, k, s) = Ssh!ValueFrom(file, frags, k, s)
  <2> HIDE DEF s
  <2> QED  BY <1>4 DEF Ssh!ValueFrom
<1>6. Ssh!EffectiveWithout(file, other, k, {ours}) = Ssh!EffectiveWithout(file, frags, k, {ours})
  BY <1>2, <1>5 DEF Ssh!EffectiveWithout
<1>7. Ssh!Overridden(file, other, k) <=> Ssh!Overridden(file, frags, k)
  BY <1>2 DEF Ssh!Overridden
<1>8. ASSUME other[ours][k] # Unset, Ssh!Supplier(file, other, k, {}) # ours,
             Ssh!Supplier(file, frags, k, {}) = ours
      PROVE  FALSE
  <2>1. file.include # "none" /\ ~(s < ours)  BY <1>8, SshHears
  <2>2. ~(ours < t) /\ t # ours  BY <1>8, <2>1, SshHears
  <2>3. s \in 0..(SshParams.Fragments + 2)  BY SshSupplies
  <2>4. ours \in Nat /\ s \in Int  BY <2>3, SshRanks
  <2> HIDE DEF ours, s, t
  <2> QED  BY <1>2, <2>1, <2>2, <2>4
<1> QED  BY <1>6, <1>7, <1>8

LEMMA SshStaysSettled ==
  ASSUME HardeningAssumption, NEW config, NEW file, NEW frags, NEW other,
         \A f \in Ssh!Fragment \ {SshParams.Ours} : other[f] = frags[f],
         NEW k, NEW decision, SshSettles(config, file, frags, k, decision)
  PROVE  SshSettles(config, file, other, k, decision)
<1>1. \A edited : Ssh!EffectiveWithout(edited, other, k, {SshParams.Ours})
                     = Ssh!EffectiveWithout(edited, frags, k, {SshParams.Ours})
  BY SshRewrites
<1>2. Ssh!Overridden(file, other, k) <=> Ssh!Overridden(file, frags, k)
  BY SshRewrites
<1> QED  BY <1>1, <1>2 DEF SshSettles

\* Where both files are as planned, what is heard is secure.
LEMMA SshArrives ==
  ASSUME HardeningAssumption, NEW config, NEW seen, NEW frag, NEW k, NEW decision,
         SshSettles(config, seen, frag, k, decision),
         NEW main, main.include = seen.include, main.set[k] = decision.main,
         frag[SshParams.Ours][k] = decision.drop
  PROVE  \/ ~Ssh!Insecure(config, k, Ssh!Effective(main, frag, k))
         \/ decision.drop # Unset /\ Ssh!Supplier(main, frag, k, {}) # SshParams.Ours
<1> DEFINE r == Ssh!Supplier(main, frag, k, {})
<1>1. CASE decision.drop = Unset
  <2>1. r # SshParams.Ours  BY <1>1, SshHears
  <2>2. Ssh!Effective(main, frag, k)
           = Ssh!EffectiveWithout(main, frag, k, {SshParams.Ours})
    BY <2>1, SshHears
  <2> QED  BY <1>1, <2>2 DEF SshSettles
<1>2. CASE decision.drop # Unset /\ r = SshParams.Ours
  <2>1. Ssh!Effective(main, frag, k) = decision.drop  BY <1>2, SshHears
  <2> QED  BY <1>2, <2>1 DEF SshSettles
<1> QED  BY <1>1, <1>2

\* The main file is written first: what was compliant stays so.
LEMMA SshMainKeeps ==
  ASSUME HardeningAssumption, NEW config, NEW seen, NEW frag, NEW k, NEW decision,
         SshSettles(config, seen, frag, k, decision),
         NEW main, main.include = seen.include, main.set[k] = decision.main,
         ~Ssh!Insecure(config, k, Ssh!Effective(seen, frag, k))
  PROVE  ~Ssh!Insecure(config, k, Ssh!Effective(main, frag, k))
<1> DEFINE r == Ssh!Supplier(main, frag, k, {})
<1>1. CASE decision.main = seen.set[k]
  <2>1. Ssh!Effective(main, frag, k) = Ssh!Effective(seen, frag, k)  BY <1>1, SshEdits
  <2> QED  BY <2>1
<1>2. CASE /\ decision.main # Unset /\ ~Ssh!Insecure(config, k, decision.main)
           /\ ~Ssh!Overridden(seen, frag, k)
  <2>1. CASE r = SshParams.Ours
    <3>1. Ssh!Supplier(seen, frag, k, {}) = SshParams.Ours  BY <1>2, <2>1, SshEdits
    <3>2. Ssh!Effective(main, frag, k) = Ssh!Effective(seen, frag, k)
      BY <2>1, <3>1, SshHears
    <3> QED  BY <3>2
  <2>2. CASE r # SshParams.Ours
    <3>1. Ssh!Effective(main, frag, k) = decision.main
      BY <1>2, <2>2, SshHears, SshEdits
    <3> QED  BY <1>2, <3>1
  <2> QED  BY <2>1, <2>2
<1> QED  BY <1>1, <1>2 DEF SshSettles

\* Then the fragment, of which the same is so.
LEMMA SshFragmentKeeps ==
  ASSUME HardeningAssumption, NEW config, NEW seen, NEW frag, NEW k, NEW decision,
         SshSettles(config, seen, frag, k, decision),
         NEW main, main.include = seen.include, main.set[k] = decision.main,
         NEW other, \A f \in Ssh!Fragment \ {SshParams.Ours} : other[f] = frag[f],
         other[SshParams.Ours][k] = decision.drop,
         ~Ssh!Insecure(config, k, Ssh!Effective(main, frag, k))
  PROVE  ~Ssh!Insecure(config, k, Ssh!Effective(main, other, k))
<1>1. SshSettles(config, seen, other, k, decision)  BY SshStaysSettled
<1>2. CASE decision.drop # Unset /\ Ssh!Supplier(main, other, k, {}) # SshParams.Ours
  <2>1. Ssh!Supplier(main, frag, k, {}) # SshParams.Ours  BY <1>2, SshRewrites
  <2>2. Ssh!Effective(main, other, k) = Ssh!Effective(main, frag, k)
    BY <1>2, <2>1, SshHears, SshRewrites
  <2> QED  BY <2>2
<1> QED  BY <1>1, <1>2, SshArrives

\* Where the fragment gave a key no value, or not the one obeyed, and is given none or a
\* secure one, what was compliant stays so, whatever the main file.
LEMMA SshUnheldKeeps ==
  ASSUME HardeningAssumption, NEW config, NEW main, NEW frag, NEW other, NEW k,
         \A f \in Ssh!Fragment \ {SshParams.Ours} : other[f] = frag[f],
         Ssh!Supplier(main, frag, k, {}) # SshParams.Ours,
         other[SshParams.Ours][k] # Unset =>
            ~Ssh!Insecure(config, k, other[SshParams.Ours][k]),
         ~Ssh!Insecure(config, k, Ssh!Effective(main, frag, k))
  PROVE  ~Ssh!Insecure(config, k, Ssh!Effective(main, other, k))
<1>1. CASE Ssh!Supplier(main, other, k, {}) = SshParams.Ours
  BY <1>1, SshHears
<1>2. CASE Ssh!Supplier(main, other, k, {}) # SshParams.Ours
  BY <1>2, SshHears, SshRewrites
<1> QED  BY <1>1, <1>2

\* The record of a process after a step of its apply.
SshNow(c, pc, fd, plan, checked, ok) ==
    [pc |-> pc, result |-> c.result, quiet |-> c.quiet, session |-> c.session,
     config |-> c.config, seen |-> c.seen, fd |-> fd, plan |-> plan,
     checked |-> checked, ok |-> ok]

LEMMA SshTurns ==
  ASSUME NEW c, SshIsCall(c), NEW fd, NEW plan, NEW checked \in BOOLEAN, NEW ok \in BOOLEAN,
         NEW pc \in {"idle", "open", "lock", "plan", "gate", "dropin", "verify", "restart"}
  PROVE  /\ SshIsCall(SshNow(c, pc, fd, plan, checked, ok))
         /\ [c EXCEPT !.pc = pc] = SshNow(c, pc, c.fd, c.plan, c.checked, c.ok)
         /\ [c EXCEPT !.pc = pc, !.ok = ok] = SshNow(c, pc, c.fd, c.plan, c.checked, ok)
         /\ [c EXCEPT !.pc = pc, !.plan = plan] = SshNow(c, pc, c.fd, plan, c.checked, c.ok)
         /\ [c EXCEPT !.fd = fd, !.pc = pc] = SshNow(c, pc, fd, c.plan, c.checked, c.ok)
<1>1. PICK a1, a2, a3, a4, a5, a6, a7, a8, a9, a10 :
         c = [pc |-> a1, result |-> a2, quiet |-> a3, session |-> a4, config |-> a5,
              seen |-> a6, fd |-> a7, plan |-> a8, checked |-> a9, ok |-> a10]
  BY DEF SshIsCall
<1>2. SshIsCall(SshNow(c, pc, fd, plan, checked, ok))  BY DEF SshIsCall, SshNow
<1>3. [c EXCEPT !.pc = pc] = SshNow(c, pc, c.fd, c.plan, c.checked, c.ok)
  BY <1>1 DEF SshNow
<1>4. [c EXCEPT !.pc = pc, !.ok = ok] = SshNow(c, pc, c.fd, c.plan, c.checked, ok)
  <2> DEFINE d == [c EXCEPT !.pc = pc, !.ok = ok]
  <2>1. d \in [pc : {pc}, result : {a2}, quiet : {a3}, session : {a4}, config : {a5},
               seen : {a6}, fd : {a7}, plan : {a8}, checked : {a9}, ok : {ok}]
    BY <1>1
  <2> HIDE DEF d
  <2>2. d = SshNow(c, pc, c.fd, c.plan, c.checked, ok)  BY <1>1, <2>1 DEF SshNow
  <2> QED  BY <2>2 DEF d
<1>5. [c EXCEPT !.pc = pc, !.plan = plan] = SshNow(c, pc, c.fd, plan, c.checked, c.ok)
  <2> DEFINE d == [c EXCEPT !.pc = pc, !.plan = plan]
  <2>1. d \in [pc : {pc}, result : {a2}, quiet : {a3}, session : {a4}, config : {a5},
               seen : {a6}, fd : {a7}, plan : {plan}, checked : {a9}, ok : {a10}]
    BY <1>1
  <2> HIDE DEF d
  <2>2. d = SshNow(c, pc, c.fd, plan, c.checked, c.ok)  BY <1>1, <2>1 DEF SshNow
  <2> QED  BY <2>2 DEF d
<1>6. [c EXCEPT !.fd = fd, !.pc = pc] = SshNow(c, pc, fd, c.plan, c.checked, c.ok)
  <2> DEFINE d == [c EXCEPT !.fd = fd, !.pc = pc]
  <2>1. d \in [pc : {pc}, result : {a2}, quiet : {a3}, session : {a4}, config : {a5},
               seen : {a6}, fd : {fd}, plan : {a8}, checked : {a9}, ok : {a10}]
    BY <1>1
  <2> HIDE DEF d
  <2>2. d = SshNow(c, pc, fd, c.plan, c.checked, c.ok)  BY <1>1, <2>1 DEF SshNow
  <2> QED  BY <2>2 DEF d
<1> QED  BY <1>2, <1>3, <1>4, <1>5, <1>6

\* The record of a process that has ended.
SshEnded(c, result) ==
    [pc |-> "idle", result |-> result, quiet |-> c.quiet, session |-> c.session,
     config |-> c.config, seen |-> CHOOSE m \in SshParams.Mains : TRUE, fd |-> 0,
     plan |-> IF result = "success" THEN c.plan ELSE Ssh!NoPlan,
     checked |-> result = "success" /\ c.checked, ok |-> TRUE]

LEMMA SshEnds ==
  ASSUME HardeningAssumption, SshInv, NEW p \in Process,
         NEW result \in {"success", "failed", "died"}, Ssh!Ends(p, result)
  PROVE  /\ call' = [call EXCEPT ![p] = SshEnded(call[p], result)]
         /\ SshIsCall(SshEnded(call[p], result))
<1>1. SshIsCall(call[p])  BY DEF SshInv
<1>2. Ssh!IsMain(CHOOSE m \in SshParams.Mains : TRUE)
  BY HardeningAssumption DEF Ssh!SshAssumption
<1> DEFINE c    == call[p]
           plan == IF result = "success" THEN c.plan ELSE Ssh!NoPlan
           seen == CHOOSE m \in SshParams.Mains : TRUE
           checked == result = "success" /\ c.checked
           mine == [Ssh!NoCall EXCEPT !.result = result, !.quiet = c.quiet,
                       !.config = c.config, !.session = c.session,
                       !.plan = plan, !.checked = checked]
<1>3. mine = SshEnded(c, result)
  <2> HIDE DEF c, plan, checked, seen
  <2>1. mine \in [pc : {"idle"}, result : {result}, quiet : {c.quiet}, session : {c.session},
                  config : {c.config}, seen : {seen}, fd : {0}, plan : {plan},
                  checked : {checked}, ok : {TRUE}]
    BY DEF Ssh!NoCall, seen
  <2> HIDE DEF mine
  <2>2. mine = [pc |-> "idle", result |-> result, quiet |-> c.quiet, session |-> c.session,
                config |-> c.config, seen |-> seen, fd |-> 0, plan |-> plan,
                checked |-> checked, ok |-> TRUE]
    BY <2>1
  <2> QED  BY <2>2 DEF SshEnded, c, plan, seen, checked
<1>4. SshIsCall(SshEnded(call[p], result))  BY <1>1, <1>2 DEF SshIsCall, SshEnded
<1> QED  BY <1>3, <1>4 DEF Ssh!Ends

\* The steps before anything is written.
LEMMA SshReads ==
  ASSUME HardeningAssumption, SshInv, NEW p \in Process, Ssh!Read(p)
  PROVE  SshInv' /\ Ssh!KeepsCompliance
<1>1. PICK config \in SshParams.Configs, session \in Sessions :
         call' = [call EXCEPT ![p] =
            [Ssh!NoCall EXCEPT !.pc = "open", !.config = config, !.session = session,
                               !.seen = host.main, !.quiet = TRUE]]
  BY Zenon DEF Ssh!Read
<1> DEFINE mine == [pc |-> "open", result |-> "none", quiet |-> TRUE, session |-> session,
                    config |-> config, seen |-> host.main, fd |-> 0, plan |-> Ssh!NoPlan,
                    checked |-> FALSE, ok |-> TRUE]
           new  == [Ssh!NoCall EXCEPT !.pc = "open", !.config = config, !.session = session,
                                      !.seen = host.main, !.quiet = TRUE]
<1>2. mine = new
  <2>1. new \in [pc : {"open"}, result : {"none"}, quiet : {TRUE}, session : {session},
                 config : {config}, seen : {host.main}, fd : {0}, plan : {Ssh!NoPlan},
                 checked : {FALSE}, ok : {TRUE}]
    BY DEF Ssh!NoCall
  <2> HIDE DEF new
  <2> QED  BY <2>1
<1>3. SshIsHost(host) /\ host' = host  BY DEF SshInv, Ssh!Read
<1>4. SshIsCall(mine) /\ SshHolds(mine, host)  BY <1>3 DEF SshIsCall, SshIsHost, SshHolds
<1>5. call' = [call EXCEPT ![p] = mine]  BY <1>1, <1>2
<1> HIDE DEF mine
<1> QED  BY <1>3, <1>4, <1>5, SshMoves

LEMMA SshWaits ==
  ASSUME HardeningAssumption, SshInv, NEW p \in Process, Ssh!Open(p) \/ Ssh!Lock(p)
  PROVE  SshInv' /\ Ssh!KeepsCompliance
<1> DEFINE c == call[p]
<1>1. SshIsHost(host) /\ SshIsCall(c) /\ SshHolds(c, host)  BY DEF SshInv
<1>2. c.checked \in BOOLEAN /\ c.ok \in BOOLEAN  BY <1>1 DEF SshIsCall
<1>3. \E pc \in {"lock", "plan"} :
         \E fd : call' = [call EXCEPT ![p] = SshNow(c, pc, fd, c.plan, c.checked, c.ok)]
  <2>1. CASE Ssh!Open(p)
    <3> DEFINE fd == IF call[p].session = "local" THEN host.inode ELSE 0
    <3>1. call' = [call EXCEPT ![p] = [call[p] EXCEPT !.fd = fd, !.pc = "lock"]]
      BY <2>1 DEF Ssh!Open
    <3> HIDE DEF fd
    <3> HIDE DEF c
    <3>2. [c EXCEPT !.fd = fd, !.pc = "lock"] = SshNow(c, "lock", fd, c.plan, c.checked, c.ok)
      BY <1>2, <1>1, SshTurns
    <3> QED  BY <3>1, <3>2 DEF c
  <2>2. CASE Ssh!Lock(p)
    <3>1. call' = [call EXCEPT ![p] = [c EXCEPT !.pc = "plan"]]
      BY <2>2 DEF Ssh!Lock, Ssh!Goto
    <3> HIDE DEF c
    <3>2. [c EXCEPT !.pc = "plan"] = SshNow(c, "plan", c.fd, c.plan, c.checked, c.ok)
      BY <1>2, <1>1, SshTurns
    <3> QED  BY <3>1, <3>2
  <2> QED  BY <2>1, <2>2
<1>4. host' = host /\ c.pc \in {"open", "lock"}
  <2>1. CASE Ssh!Open(p)  BY <2>1 DEF Ssh!Open
  <2>2. CASE Ssh!Lock(p)  BY <2>2 DEF Ssh!Lock
  <2> QED  BY <2>1, <2>2
<1>5. PICK pc \in {"lock", "plan"} :
         \E fd : call' = [call EXCEPT ![p] = SshNow(c, pc, fd, c.plan, c.checked, c.ok)]
  BY <1>3
<1>6. PICK fd : call' = [call EXCEPT ![p] = SshNow(c, pc, fd, c.plan, c.checked, c.ok)]
  BY <1>5
<1> DEFINE mine == SshNow(c, pc, fd, c.plan, c.checked, c.ok)
<1>7. SshIsCall(mine)
  <2> HIDE DEF c
  <2> QED  BY <1>2, <1>1, SshTurns
<1>8. SshHolds(mine, host)  BY <1>1, <1>4 DEF SshHolds, SshNow
<1> HIDE DEF mine, c
<1> QED  BY <1>1, <1>4, <1>7, <1>8, <1>6, SshMoves DEF mine

LEMMA SshStops ==
  ASSUME HardeningAssumption, SshInv, NEW p \in Process, Ssh!Refuses(p) \/ Ssh!Dies(p)
  PROVE  SshInv' /\ Ssh!KeepsCompliance
<1>1. PICK result \in {"failed", "died"} : Ssh!Ends(p, result)
  BY DEF Ssh!Refuses, Ssh!Dies
<1>2. SshIsHost(host) /\ host' = host  BY DEF SshInv, Ssh!Refuses, Ssh!Dies
<1> DEFINE mine == SshEnded(call[p], result)
<1>3. call' = [call EXCEPT ![p] = mine] /\ SshIsCall(mine)  BY <1>1, SshEnds
<1>4. SshHolds(mine, host)  BY DEF SshHolds, SshEnded
<1> HIDE DEF mine
<1> QED  BY <1>2, <1>3, <1>4, SshMoves

\* What an apply decides settles every key it does not leave for a reason; where there is
\* nothing to write, the files are as it would have them.
LEMMA SshPlans ==
  ASSUME HardeningAssumption, SshInv, NEW p \in Process, Ssh!Plan(p)
  PROVE  SshInv' /\ Ssh!KeepsCompliance
<1> DEFINE c == call[p]
           ours == SshParams.Ours
<1>1. /\ SshIsHost(host) /\ SshIsCall(c) /\ SshHolds(c, host)
      /\ c.checked \in BOOLEAN /\ c.ok \in BOOLEAN /\ c.quiet \in BOOLEAN
  <2>1. SshIsHost(host) /\ SshIsCall(c) /\ SshHolds(c, host)  BY DEF SshInv
  <2> QED  BY <2>1 DEF SshIsCall
<1>2. PICK supported \in {SshParams.Supported, {}} :
         LET plan == Ssh!Decisions(c.config, c.session = "remote_root", supported, c.seen, host.frag)
             noop == /\ \A k \in Ssh!Key : plan[k].main = c.seen.set[k]
                     /\ Ssh!Dropin(plan) = host.frag[ours]
         IN call' = [call EXCEPT ![p] =
               IF noop THEN [Ssh!NoCall EXCEPT !.result = "noop", !.quiet = c.quiet,
                                !.config = c.config, !.session = c.session, !.plan = plan]
               ELSE [c EXCEPT !.pc = "gate", !.plan = plan]]
  BY Zenon DEF Ssh!Plan
<1> DEFINE plan == Ssh!Decisions(c.config, c.session = "remote_root", supported, c.seen, host.frag)
           noop == /\ \A k \in Ssh!Key : plan[k].main = c.seen.set[k]
                   /\ Ssh!Dropin(plan) = host.frag[ours]
           stop == [Ssh!NoCall EXCEPT !.result = "noop", !.quiet = c.quiet,
                       !.config = c.config, !.session = c.session, !.plan = plan]
<1>3. call' = [call EXCEPT ![p] = IF noop THEN stop ELSE [c EXCEPT !.pc = "gate", !.plan = plan]]
  BY <1>2
<1>4. /\ c.pc = "plan" /\ host' = host /\ c.result = "none" /\ ~c.checked /\ c.ok
      /\ c.quiet => host.main = c.seen
  BY <1>1 DEF Ssh!Plan, SshHolds
<1>5. \A k \in Ssh!Key : SshDecided(c.config, c.seen, host.frag, k, plan[k])
  <2>1. (c.session = "remote_root") \in BOOLEAN  OBVIOUS
  <2> QED  BY Zenon, <2>1, SshDecides
<1> HIDE DEF c, plan
<1>6. CASE noop
  <2> DEFINE seen == CHOOSE m \in SshParams.Mains : TRUE
             mine == [pc |-> "idle", result |-> "noop", quiet |-> c.quiet,
                      session |-> c.session, config |-> c.config, seen |-> seen, fd |-> 0,
                      plan |-> plan, checked |-> FALSE, ok |-> TRUE]
  <2>1. Ssh!IsMain(seen)  BY HardeningAssumption DEF Ssh!SshAssumption
  <2>2. stop = mine
    <3> HIDE DEF seen
    <3>1. stop \in [pc : {"idle"}, result : {"noop"}, quiet : {c.quiet}, session : {c.session},
                    config : {c.config}, seen : {seen}, fd : {0}, plan : {plan},
                    checked : {FALSE}, ok : {TRUE}]
      BY DEF Ssh!NoCall, seen
    <3> HIDE DEF stop
    <3> QED  BY <3>1
  <2> HIDE DEF seen, stop
  <2>3. SshIsCall(mine)  BY <1>1, <2>1 DEF SshIsCall
  <2>4. ASSUME c.quiet PROVE SshClean(mine, host)
    <3> SUFFICES ASSUME NEW k \in Ssh!Key, ~plan[k].excused,
                        k \notin Ssh!Unheard(host.frag[ours], host.main, host.frag)
                 PROVE  ~Ssh!Insecure(c.config, k, Ssh!Effective(host.main, host.frag, k))
      BY DEF SshClean, SshUnasked
    <3>1. SshSettles(c.config, c.seen, host.frag, k, plan[k])  BY <1>5 DEF SshDecided
    <3>2. host.main = c.seen /\ host.main.set[k] = plan[k].main  BY <1>4, <1>6, <2>4
    <3>3. host.frag[ours][k] = plan[k].drop  BY <1>6 DEF Ssh!Dropin
    <3> QED  BY <3>1, <3>2, <3>3, SshArrives DEF Ssh!Unheard
  <2>5. SshHolds(mine, host)
    <3> HIDE DEF mine
    <3>1. mine.pc = "idle" /\ mine.result = "noop" /\ mine.quiet = c.quiet  BY DEF mine
    <3> QED  BY <2>4, <3>1 DEF SshHolds
  <2>6. call' = [call EXCEPT ![p] = mine]  BY <1>3, <1>6, <2>2
  <2> HIDE DEF mine
  <2> QED  BY <1>1, <1>4, <2>3, <2>5, <2>6, SshMoves
<1>7. CASE ~noop
  <2> DEFINE mine == SshNow(c, "gate", c.fd, plan, c.checked, c.ok)
  <2>1. [c EXCEPT !.pc = "gate", !.plan = plan] = mine /\ SshIsCall(mine)
    <3>1. [c EXCEPT !.pc = "gate", !.plan = plan] = mine  BY <1>1, SshTurns
    <3>2. SshIsCall(mine)  BY <1>1, SshTurns
    <3> QED  BY <3>1, <3>2
  <2>2. SshHolds(mine, host)  BY <1>4, <1>5 DEF SshHolds, SshPlanned, SshDecided, SshNow
  <2>3. call' = [call EXCEPT ![p] = mine]  BY <1>3, <1>7, <2>1
  <2> HIDE DEF mine
  <2> QED  BY <1>1, <1>4, <2>1, <2>2, <2>3, SshMoves
<1> QED  BY <1>6, <1>7

\* What an apply in progress knows, by name.
LEMMA SshKnows ==
  ASSUME SshInv, NEW p \in Process
  PROVE  LET c == call[p] IN
         /\ SshIsHost(host) /\ SshIsCall(c) /\ SshHolds(c, host)
         /\ c.checked \in BOOLEAN /\ c.ok \in BOOLEAN /\ c.quiet \in BOOLEAN
<1>1. SshIsHost(host) /\ SshIsCall(call[p]) /\ SshHolds(call[p], host)  BY DEF SshInv
<1> QED  BY <1>1 DEF SshIsCall

\* The main file is edited as planned.
LEMMA SshWritesMain ==
  ASSUME HardeningAssumption, SshInv, NEW p \in Process, Ssh!WriteMain(p)
  PROVE  SshInv' /\ Ssh!KeepsCompliance
<1> DEFINE c == call[p]
           edit == [k \in Ssh!Key |-> c.plan[k].main]
           next == SshNow(c, "dropin", c.fd, c.plan, c.checked, c.ok)
<1>1. /\ SshIsHost(host) /\ SshIsCall(c) /\ SshHolds(c, host)
      /\ c.checked \in BOOLEAN /\ c.ok \in BOOLEAN
  BY SshKnows
<1>2. c.pc = "gate"  BY DEF Ssh!WriteMain
<1>3. /\ c.result = "none" /\ ~c.checked /\ c.ok
      /\ c.quiet => host.main = c.seen /\ SshPlanned(c, host)
      /\ c.seen.layer = "vendor" => \A k \in Ssh!Key : c.plan[k].main = c.seen.set[k]
  BY <1>1, <1>2 DEF SshHolds
<1>4. /\ c.seen = [layer |-> c.seen.layer, include |-> c.seen.include, set |-> c.seen.set]
      /\ c.seen.set = [k \in Ssh!Key |-> c.seen.set[k]]
      /\ c.seen.layer \in {"admin", "vendor"}
  BY <1>1 DEF SshIsCall, Ssh!IsMain, Ssh!IsFragment
<1>5. \/ /\ c.seen.layer = "vendor" \/ edit = c.seen.set
         /\ call' = [call EXCEPT ![p].pc = "dropin"] /\ host' = host
      \/ /\ \E inode : host' = [host EXCEPT !.main = [c.seen EXCEPT !.set = edit], !.inode = inode]
         /\ Ssh!Disturbs(p, [c EXCEPT !.pc = "dropin"])
      \/ /\ call' = [call EXCEPT ![p] = [c EXCEPT !.pc = "dropin", !.ok = FALSE]]
         /\ host' = host
  BY DEF Ssh!WriteMain, Ssh!Goto
<1>6. CASE /\ c.seen.layer = "vendor" \/ edit = c.seen.set
           /\ call' = [call EXCEPT ![p].pc = "dropin"] /\ host' = host
  <2>1. edit = c.seen.set  BY <1>3, <1>4, <1>6
  <2>2. SshEdited(c) = c.seen  BY <1>4, <2>1 DEF SshEdited
  <2>3. call' = [call EXCEPT ![p] = [c EXCEPT !.pc = "dropin"]]  BY <1>6
  <2> HIDE DEF c, edit
  <2>4. [c EXCEPT !.pc = "dropin"] = next /\ SshIsCall(next)  BY <1>1, SshTurns
  <2>5. SshHolds(next, host)
    BY <1>3, <2>2 DEF SshHolds, SshPlanned, SshEdited, SshNow
  <2> HIDE DEF next
  <2> QED  BY <1>1, <1>6, <2>3, <2>4, <2>5, SshMoves DEF c
<1>7. CASE /\ \E inode : host' = [host EXCEPT !.main = [c.seen EXCEPT !.set = edit], !.inode = inode]
           /\ Ssh!Disturbs(p, [c EXCEPT !.pc = "dropin"])
  <2> DEFINE main == [c.seen EXCEPT !.set = edit]
  <2>1. PICK inode : host' = [host EXCEPT !.main = main, !.inode = inode]  BY <1>7
  <2>2. /\ main = [layer |-> c.seen.layer, include |-> c.seen.include, set |-> edit]
        /\ edit = [k \in Ssh!Key |-> edit[k]]
        /\ \A k \in Ssh!Key : edit[k] = c.plan[k].main
    BY <1>4
  <2>3. Ssh!IsMain(main)
    <3> HIDE DEF edit, main
    <3> QED  BY <1>4, <2>2 DEF Ssh!IsMain, Ssh!IsFragment
  <2>4. SshEdited(c) = main  BY DEF SshEdited
  <2> HIDE DEF main, edit
  <2>5. host' = [main |-> main, frag |-> host.frag, running |-> host.running, inode |-> inode]
    <3>1. PICK b1, b2, b3, b4 : host = [main |-> b1, frag |-> b2, running |-> b3, inode |-> b4]
      BY <1>1 DEF SshIsHost
    <3>2. host' \in [main : {main}, frag : {b2}, running : {b3}, inode : {inode}]
      BY <2>1, <3>1
    <3> QED  BY <3>1, <3>2
  <2>6. SshIsHost(host')  BY <1>1, <2>3, <2>5 DEF SshIsHost
  <2>7. call' = [q \in Process |->
                   IF q = p THEN [c EXCEPT !.pc = "dropin"] ELSE [call[q] EXCEPT !.quiet = FALSE]]
    BY <1>7 DEF Ssh!Disturbs
  <2>8. [c EXCEPT !.pc = "dropin"] = next /\ SshIsCall(next)
    <3> HIDE DEF c
    <3> QED  BY <1>1, SshTurns
  <2>9. next.quiet = c.quiet /\ (next.quiet => SshLeaves(c, host, host'))
    <3>1. ASSUME c.quiet PROVE SshLeaves(c, host, host')
      <4> SUFFICES ASSUME NEW k \in Ssh!Key, ~c.plan[k].excused,
                          ~Ssh!Insecure(c.config, k, Ssh!Effective(host.main, host.frag, k))
                   PROVE  ~Ssh!Insecure(c.config, k, Ssh!Effective(host'.main, host'.frag, k))
        BY DEF SshLeaves
      <4>1. SshSettles(c.config, c.seen, host.frag, k, c.plan[k])
        BY <1>3, <3>1 DEF SshPlanned
      <4>2. main.include = c.seen.include /\ main.set[k] = c.plan[k].main  BY <2>2
      <4>3. ~Ssh!Insecure(c.config, k, Ssh!Effective(c.seen, host.frag, k))  BY <1>3, <3>1
      <4>4. host'.main = main /\ host'.frag = host.frag  BY <2>5
      <4> HIDE DEF c, next
      <4>5. ~Ssh!Insecure(c.config, k, Ssh!Effective(main, host.frag, k))
        BY <4>1, <4>2, <4>3, SshMainKeeps
      <4> QED  BY <4>4, <4>5
    <3> QED  BY <3>1 DEF SshNow
  <2>10. SshHolds(next, host')
    <3>1. host'.main = SshEdited(next)  BY <2>4, <2>5 DEF SshEdited, SshNow
    <3>2. c.quiet => SshPlanned(next, host')  BY <1>3, <2>5 DEF SshPlanned, SshNow
    <3> HIDE DEF c
    <3> QED  BY <1>3, <3>1, <3>2 DEF SshHolds, SshNow
  <2> HIDE DEF next
  <2> QED  BY <1>1, <2>6, <2>7, <2>8, <2>9, <2>10, SshMoves
<1>8. CASE /\ call' = [call EXCEPT ![p] = [c EXCEPT !.pc = "dropin", !.ok = FALSE]]
           /\ host' = host
  <2> DEFINE mine == SshNow(c, "dropin", c.fd, c.plan, c.checked, FALSE)
  <2> HIDE DEF c
  <2>1. [c EXCEPT !.pc = "dropin", !.ok = FALSE] = mine /\ SshIsCall(mine)  BY <1>1, SshTurns
  <2>2. SshHolds(mine, host)  BY <1>3 DEF SshHolds, SshPlanned, SshNow
  <2>3. call' = [call EXCEPT ![p] = mine]  BY <1>8, <2>1 DEF c
  <2> HIDE DEF mine
  <2> QED  BY <1>1, <1>8, <2>1, <2>2, <2>3, SshMoves
<1> QED  BY <1>5, <1>6, <1>7, <1>8

\* Then the tool's own fragment.
LEMMA SshWritesDropin ==
  ASSUME HardeningAssumption, SshInv, NEW p \in Process, Ssh!WriteDropin(p)
  PROVE  SshInv' /\ Ssh!KeepsCompliance
<1> DEFINE c == call[p]
           ours == SshParams.Ours
           drop == Ssh!Dropin(c.plan)
<1>1. /\ SshIsHost(host) /\ SshIsCall(c) /\ SshHolds(c, host)
      /\ c.checked \in BOOLEAN /\ c.ok \in BOOLEAN
  BY SshKnows
<1>2. c.pc = "dropin"  BY DEF Ssh!WriteDropin
<1>3. /\ c.result = "none" /\ ~c.checked
      /\ c.quiet => /\ SshPlanned(c, host)
                    /\ host.main = IF c.ok THEN SshEdited(c) ELSE c.seen
      /\ c.seen.layer = "vendor" => \A k \in Ssh!Key : c.plan[k].main = c.seen.set[k]
  BY <1>1, <1>2 DEF SshHolds
<1>4. \/ /\ drop = host.frag[ours]
         /\ call' = [call EXCEPT ![p].pc = "restart"] /\ host' = host
      \/ /\ host' = [host EXCEPT !.frag[ours] = drop]
         /\ Ssh!Disturbs(p, [c EXCEPT !.pc = "verify"])
      \/ /\ call' = [call EXCEPT ![p] = [c EXCEPT !.pc = "restart", !.ok = FALSE]]
         /\ host' = host
  BY DEF Ssh!WriteDropin, Ssh!Goto
<1>5. CASE /\ drop = host.frag[ours]
           /\ call' = [call EXCEPT ![p].pc = "restart"] /\ host' = host
  <2> DEFINE next == SshNow(c, "restart", c.fd, c.plan, c.checked, c.ok)
  <2>1. call' = [call EXCEPT ![p] = [c EXCEPT !.pc = "restart"]]  BY <1>5
  <2> HIDE DEF c
  <2>2. [c EXCEPT !.pc = "restart"] = next /\ SshIsCall(next)  BY <1>1, SshTurns
  <2>3. SshHolds(next, host)
    BY <1>3, <1>5 DEF SshHolds, SshPlanned, SshEdited, SshNow
  <2> HIDE DEF next
  <2> QED  BY <1>1, <1>5, <2>1, <2>2, <2>3, SshMoves DEF c
<1>6. CASE /\ host' = [host EXCEPT !.frag[ours] = drop]
           /\ Ssh!Disturbs(p, [c EXCEPT !.pc = "verify"])
  <2> DEFINE next == SshNow(c, "verify", c.fd, c.plan, c.checked, c.ok)
             frag == [host.frag EXCEPT ![ours] = drop]
  <2>1. /\ ours \in Ssh!Fragment /\ host.frag = [f \in Ssh!Fragment |-> host.frag[f]]
        /\ Ssh!IsFragment(drop) /\ \A k \in Ssh!Key : drop[k] = c.plan[k].drop
    <3>1. ours \in Ssh!Fragment  BY HardeningAssumption DEF Ssh!SshAssumption
    <3>2. drop = [k \in Ssh!Key |-> c.plan[k].drop]  BY DEF Ssh!Dropin
    <3>3. Ssh!IsFragment(drop)
      <4> HIDE DEF drop
      <4> QED  BY <3>2 DEF Ssh!IsFragment
    <3> QED  BY <1>1, <3>1, <3>2, <3>3 DEF SshIsHost
  <2> HIDE DEF drop
  <2>2. /\ frag = [f \in Ssh!Fragment |-> frag[f]] /\ frag[ours] = drop
        /\ \A f \in Ssh!Fragment \ {ours} : frag[f] = host.frag[f]
    BY <2>1
  <2>3. host' = [host EXCEPT !.frag = frag]  BY <1>6
  <2> HIDE DEF frag
  <2>4. host' = [main |-> host.main, frag |-> frag, running |-> host.running, inode |-> host.inode]
    <3>1. PICK b1, b2, b3, b4 : host = [main |-> b1, frag |-> b2, running |-> b3, inode |-> b4]
      BY <1>1 DEF SshIsHost
    <3> QED  BY <2>3, <3>1
  <2>5. SshIsHost(host')
    <3>1. \A f \in Ssh!Fragment : Ssh!IsFragment(frag[f])  BY <1>1, <2>1, <2>2 DEF SshIsHost
    <3>2. Ssh!IsMain(host.main)  BY <1>1 DEF SshIsHost
    <3> QED  BY <2>2, <2>4, <3>1, <3>2 DEF SshIsHost
  <2>6. call' = [q \in Process |->
                   IF q = p THEN [c EXCEPT !.pc = "verify"] ELSE [call[q] EXCEPT !.quiet = FALSE]]
    BY <1>6 DEF Ssh!Disturbs
  <2>7. [c EXCEPT !.pc = "verify"] = next /\ SshIsCall(next)
    <3> HIDE DEF c
    <3> QED  BY <1>1, SshTurns
  <2>8. next.quiet => SshLeaves(c, host, host')
    <3>1. ASSUME c.quiet PROVE SshLeaves(c, host, host')
      <4> SUFFICES ASSUME NEW k \in Ssh!Key, ~c.plan[k].excused, ~SshStrands(c, host, k),
                          ~Ssh!Insecure(c.config, k, Ssh!Effective(host.main, host.frag, k))
                   PROVE  ~Ssh!Insecure(c.config, k, Ssh!Effective(host'.main, host'.frag, k))
        BY DEF SshLeaves
      <4>1. SshSettles(c.config, c.seen, host.frag, k, c.plan[k])
        BY <1>3, <3>1 DEF SshPlanned
      <4>2. host'.main = host.main /\ host'.frag = frag  BY <2>4
      <4>3. frag[ours][k] = c.plan[k].drop  BY <2>1, <2>2
      <4>4. CASE c.ok \/ c.plan[k].main = c.seen.set[k]
        <5>1. host.main.include = c.seen.include /\ host.main.set[k] = c.plan[k].main
          <6>1. SshIsCall(c) /\ Ssh!IsMain(c.seen)  BY <1>1 DEF SshIsCall
          <6>2. CASE c.ok
            <7>1. host.main = [c.seen EXCEPT !.set = [j \in Ssh!Key |-> c.plan[j].main]]
              BY <1>3, <3>1, <6>2 DEF SshEdited
            <7> QED  BY <6>1, <7>1 DEF Ssh!IsMain
          <6>3. CASE ~c.ok  BY <1>3, <3>1, <4>4, <6>3
          <6> QED  BY <6>2, <6>3
        <5> HIDE DEF c, next
        <5>2. ~Ssh!Insecure(c.config, k, Ssh!Effective(host.main, frag, k))
          BY <2>2, <4>1, <4>3, <5>1, SshFragmentKeeps
        <5> QED  BY <4>2, <5>2
      <4>5. CASE ~c.ok /\ c.plan[k].main # c.seen.set[k]
        <5>1. Ssh!HeldByOurs(host.main, host.frag, k) = Unset  BY <4>5 DEF SshStrands
        <5>2. Ssh!Supplier(host.main, host.frag, k, {}) # ours
          BY <5>1, SshHears DEF Ssh!HeldByOurs
        <5>3. frag[ours][k] # Unset => ~Ssh!Insecure(c.config, k, frag[ours][k])
          BY <4>1, <4>3 DEF SshSettles
        <5> HIDE DEF c, next
        <5>4. ~Ssh!Insecure(c.config, k, Ssh!Effective(host.main, frag, k))
          BY <2>2, <5>2, <5>3, SshUnheldKeeps
        <5> QED  BY <4>2, <5>4
      <4> QED  BY <4>4, <4>5
    <3> QED  BY <3>1 DEF SshNow
  <2>9. SshHolds(next, host')
    <3>1. c.quiet /\ c.ok => host'.main = SshEdited(next)
      BY <1>3, <2>4 DEF SshEdited, SshNow
    <3>2. ASSUME c.quiet PROVE SshPlanned(next, host')
      <4> SUFFICES ASSUME NEW k \in Ssh!Key, ~c.plan[k].excused
                   PROVE  SshSettles(c.config, c.seen, frag, k, c.plan[k])
        BY <2>4 DEF SshPlanned, SshNow
      <4>1. SshSettles(c.config, c.seen, host.frag, k, c.plan[k])
        BY <1>3, <3>2 DEF SshPlanned
      <4> HIDE DEF c, next
      <4> QED  BY <2>2, <4>1, SshStaysSettled
    <3>3. host'.frag[ours] = Ssh!Dropin(next.plan)  BY <2>2, <2>4 DEF SshNow, drop
    <3> HIDE DEF c
    <3> QED  BY <1>3, <3>1, <3>2, <3>3 DEF SshHolds, SshNow
  <2> HIDE DEF next
  <2> QED  BY <1>1, <2>5, <2>6, <2>7, <2>8, <2>9, SshMoves
<1>7. CASE /\ call' = [call EXCEPT ![p] = [c EXCEPT !.pc = "restart", !.ok = FALSE]]
           /\ host' = host
  <2> DEFINE mine == SshNow(c, "restart", c.fd, c.plan, c.checked, FALSE)
  <2> HIDE DEF c
  <2>1. [c EXCEPT !.pc = "restart", !.ok = FALSE] = mine /\ SshIsCall(mine)  BY <1>1, SshTurns
  <2>2. SshHolds(mine, host)  BY <1>3 DEF SshHolds, SshPlanned, SshNow
  <2>3. call' = [call EXCEPT ![p] = mine]  BY <1>7, <2>1 DEF c
  <2> HIDE DEF mine
  <2> QED  BY <1>1, <1>7, <2>1, <2>2, <2>3, SshMoves
<1> QED  BY <1>4, <1>5, <1>6, <1>7

\* What was written is asked to be heard.
LEMMA SshVerifies ==
  ASSUME HardeningAssumption, SshInv, NEW p \in Process, Ssh!Verify(p)
  PROVE  SshInv' /\ Ssh!KeepsCompliance
<1> DEFINE c == call[p]
           Asked(resolved) == c.ok /\ resolved /\ Ssh!Unheard(Ssh!Dropin(c.plan), SshEdited(c), host.frag) = {}
<1>1. /\ SshIsHost(host) /\ SshIsCall(c) /\ SshHolds(c, host)
      /\ c.checked \in BOOLEAN /\ c.ok \in BOOLEAN
  BY SshKnows
<1>2. c.pc = "verify" /\ host' = host  BY DEF Ssh!Verify
<1>3. PICK resolved \in BOOLEAN :
         call' = [call EXCEPT ![p] =
                    [c EXCEPT !.pc = "restart", !.checked = TRUE, !.ok = Asked(resolved)]]
  BY DEF Ssh!Verify, SshEdited
<1> DEFINE ok == Asked(resolved)
           next == SshNow(c, "restart", c.fd, c.plan, TRUE, ok)
<1>4. ok \in BOOLEAN  BY <1>1
<1>5. SshHolds(next, host)
  <2>1. /\ c.result = "none"
        /\ c.quiet => SshPlanned(c, host)
                      /\ (c.ok => host.main = SshEdited(c)
                                  /\ host.frag[SshParams.Ours] = Ssh!Dropin(c.plan))
        /\ c.seen.layer = "vendor" => \A k \in Ssh!Key : c.plan[k].main = c.seen.set[k]
    BY <1>1, <1>2 DEF SshHolds
  <2>2. ok => c.ok /\ Ssh!Unheard(Ssh!Dropin(c.plan), SshEdited(c), host.frag) = {}  OBVIOUS
  <2> HIDE DEF c, ok
  <2> QED  BY <2>1, <2>2 DEF SshHolds, SshPlanned, SshEdited, SshNow
<1> HIDE DEF c, ok
<1>6. [c EXCEPT !.pc = "restart", !.checked = TRUE, !.ok = ok] = next
  <2>1. PICK a1, a2, a3, a4, a5, a6, a7, a8, a9, a10 :
           c = [pc |-> a1, result |-> a2, quiet |-> a3, session |-> a4, config |-> a5,
                seen |-> a6, fd |-> a7, plan |-> a8, checked |-> a9, ok |-> a10]
    BY <1>1 DEF SshIsCall
  <2> DEFINE d == [c EXCEPT !.pc = "restart", !.checked = TRUE, !.ok = ok]
  <2>2. d \in [pc : {"restart"}, result : {a2}, quiet : {a3}, session : {a4}, config : {a5},
               seen : {a6}, fd : {a7}, plan : {a8}, checked : {TRUE}, ok : {ok}]
    BY <2>1
  <2> HIDE DEF d
  <2>3. d = next  BY <2>1, <2>2 DEF SshNow
  <2> QED  BY <2>3 DEF d
<1>7. SshIsCall(next)  BY <1>1, <1>4, SshTurns
<1>8. call' = [call EXCEPT ![p] = next]  BY <1>3, <1>6 DEF ok
<1> HIDE DEF next
<1> QED  BY <1>1, <1>2, <1>5, <1>7, <1>8, SshMoves

\* sshd is restarted, and reads what an apply has left.
LEMMA SshRestarts ==
  ASSUME HardeningAssumption, SshInv, NEW p \in Process, Ssh!Restart(p)
  PROVE  SshInv' /\ Ssh!KeepsCompliance
<1> DEFINE c == call[p]
           ours == SshParams.Ours
<1>1. /\ SshIsHost(host) /\ SshIsCall(c) /\ SshHolds(c, host)
      /\ c.checked \in BOOLEAN /\ c.ok \in BOOLEAN
  BY SshKnows
<1>2. PICK result \in {"success", "failed"} :
         /\ Ssh!Ends(p, result)
         /\ \/ host' = [host EXCEPT !.running = Ssh!Obeyed(host.main, host.frag)]
               /\ (result = "success" => c.ok)
            \/ host' = host /\ result = "failed"
  BY DEF Ssh!Restart
<1> DEFINE mine == SshEnded(c, result)
<1>3. call' = [call EXCEPT ![p] = mine] /\ SshIsCall(mine)  BY <1>2, SshEnds
<1>4. /\ host'.main = host.main /\ host'.frag = host.frag /\ SshIsHost(host')
      /\ host'.running \in {host.running, Ssh!Obeyed(host.main, host.frag)}
      /\ result = "success" => /\ c.ok
                               /\ host'.running = Ssh!Obeyed(host.main, host.frag)
  <2>1. CASE host' = host /\ result = "failed"  BY <1>1, <2>1
  <2>2. CASE host' = [host EXCEPT !.running = Ssh!Obeyed(host.main, host.frag)]
             /\ (result = "success" => c.ok)
    <3>1. PICK b1, b2, b3, b4 : host = [main |-> b1, frag |-> b2, running |-> b3, inode |-> b4]
      BY <1>1 DEF SshIsHost
    <3> DEFINE new == Ssh!Obeyed(host.main, host.frag)
    <3> HIDE DEF new
    <3>2. host' = [main |-> host.main, frag |-> host.frag, running |-> new, inode |-> host.inode]
      BY <2>2, <3>1 DEF new
    <3>3. SshIsHost(host')  BY <1>1, <3>2 DEF SshIsHost
    <3> QED  BY <2>2, <3>2, <3>3 DEF new
  <2> QED  BY <1>2, <2>1, <2>2
<1>5. ASSUME c.quiet, result = "success"
      PROVE  SshClean(mine, host')
  <2>1. /\ SshPlanned(c, host) /\ host.main = SshEdited(c)
        /\ host.frag[ours] = Ssh!Dropin(c.plan)
        /\ c.checked => Ssh!Unheard(host.frag[ours], host.main, host.frag) = {}
    <3>1. c.pc = "restart" /\ c.ok  BY <1>4, <1>5 DEF Ssh!Restart
    <3> QED  BY <1>1, <1>5, <3>1 DEF SshHolds
  <2>2. mine.plan = c.plan /\ mine.checked = c.checked /\ mine.config = c.config
    BY <1>1, <1>5 DEF SshEnded
  <2> HIDE DEF mine
  <2> SUFFICES ASSUME NEW k \in Ssh!Key, ~c.plan[k].excused,
                      k \notin SshUnasked(mine, host')
               PROVE  ~Ssh!Insecure(c.config, k, Ssh!Effective(host.main, host.frag, k))
    BY <1>4, <2>2 DEF SshClean
  <2>3. k \notin Ssh!Unheard(host.frag[ours], host.main, host.frag)
    BY <1>4, <2>1, <2>2 DEF SshUnasked
  <2>4. SshSettles(c.config, c.seen, host.frag, k, c.plan[k])  BY <2>1 DEF SshPlanned
  <2>5. host.main.include = c.seen.include /\ host.main.set[k] = c.plan[k].main
    <3>1. Ssh!IsMain(c.seen)  BY <1>1 DEF SshIsCall
    <3> QED  BY <2>1, <3>1 DEF Ssh!IsMain, SshEdited
  <2>6. host.frag[ours][k] = c.plan[k].drop  BY <2>1 DEF Ssh!Dropin
  <2> HIDE DEF c
  <2> QED  BY <2>3, <2>4, <2>5, <2>6, SshArrives DEF Ssh!Unheard
<1>6. SshHolds(mine, host')
  <2>1. mine.pc = "idle" /\ mine.quiet = c.quiet /\ mine.result = result  BY DEF SshEnded
  <2> HIDE DEF mine
  <2> QED  BY <1>2, <1>4, <1>5, <2>1 DEF SshHolds
<1> HIDE DEF mine
<1> QED  BY <1>3, <1>4, <1>6, SshMoves

\* What others write is a fragment or a main file, and every apply has seen its host
\* change.
LEMMA SshDisturbed ==
  ASSUME HardeningAssumption, SshInv, Ssh!Others
  PROVE  SshInv' /\ Ssh!KeepsCompliance
<1>1. /\ SshIsHost(host)
      /\ \A q \in Process : SshIsCall(call[q]) /\ SshHolds(call[q], host)
      /\ call' = [q \in Process |-> [call[q] EXCEPT !.quiet = FALSE]]
  BY DEF SshInv, Ssh!Others
<1>2. SshIsHost(host')
  <2>1. \/ \E f \in Ssh!Fragment \ {SshParams.Ours}, content \in SshParams.Theirs \cup {Ssh!Empty} :
              host' = [host EXCEPT !.frag[f] = content]
        \/ \E m, inode : m \in SshParams.Mains /\ host' = [host EXCEPT !.main = m, !.inode = inode]
    BY Zenon DEF Ssh!Others
  <2>2. PICK b1, b2, b3, b4 : host = [main |-> b1, frag |-> b2, running |-> b3, inode |-> b4]
    BY <1>1 DEF SshIsHost
  <2>3. ASSUME NEW f \in Ssh!Fragment, NEW content \in SshParams.Theirs \cup {Ssh!Empty},
               host' = [host EXCEPT !.frag[f] = content]
        PROVE  SshIsHost(host')
    <3>1. Ssh!IsFragment(content)
      BY HardeningAssumption DEF Ssh!SshAssumption, Ssh!IsFragment, Ssh!Empty
    <3> DEFINE frag == [host.frag EXCEPT ![f] = content]
    <3>2. /\ frag = [g \in Ssh!Fragment |-> frag[g]]
          /\ \A g \in Ssh!Fragment : Ssh!IsFragment(frag[g])
      BY <1>1, <3>1 DEF SshIsHost
    <3>3. host' = [host EXCEPT !.frag = frag]  BY <2>3
    <3> HIDE DEF frag
    <3>4. host' = [main |-> host.main, frag |-> frag, running |-> b3, inode |-> b4]
      BY <2>2, <3>3
    <3> QED  BY <1>1, <3>2, <3>4 DEF SshIsHost
  <2>4. ASSUME NEW m \in SshParams.Mains, NEW inode,
               host' = [host EXCEPT !.main = m, !.inode = inode]
        PROVE  SshIsHost(host')
    <3>1. Ssh!IsMain(m)  BY HardeningAssumption DEF Ssh!SshAssumption
    <3>2. host' \in [main : {m}, frag : {b2}, running : {b3}, inode : {inode}]
      BY <2>2, <2>4
    <3>3. host' = [main |-> m, frag |-> b2, running |-> b3, inode |-> inode]  BY <3>2
    <3>4. b2 = host.frag  BY <2>2
    <3> QED  BY <1>1, <3>1, <3>3, <3>4 DEF SshIsHost
  <2> QED  BY <2>1, <2>3, <2>4
<1>3. ASSUME NEW q \in Process
      PROVE  SshIsCall(call'[q]) /\ SshHolds(call'[q], host') /\ call'[q].quiet = FALSE
  <2> DEFINE c == call[q]
             d == call'[q]
  <2>1. d = [c EXCEPT !.quiet = FALSE] /\ SshIsCall(c) /\ SshHolds(c, host)  BY <1>1
  <2>2. c = [pc |-> c.pc, result |-> c.result, quiet |-> c.quiet, session |-> c.session,
             config |-> c.config, seen |-> c.seen, fd |-> c.fd, plan |-> c.plan,
             checked |-> c.checked, ok |-> c.ok]
    BY <2>1 DEF SshIsCall
  <2> HIDE DEF c, d
  <2>3. d = [pc |-> c.pc, result |-> c.result, quiet |-> FALSE, session |-> c.session,
             config |-> c.config, seen |-> c.seen, fd |-> c.fd, plan |-> c.plan,
             checked |-> c.checked, ok |-> c.ok]
    BY <2>1, <2>2
  <2>4. SshIsCall(d)  BY <2>1, <2>3 DEF SshIsCall
  <2>5. SshHolds(d, host')  BY <2>1, <2>3 DEF SshHolds
  <2> QED  BY <2>3, <2>4, <2>5 DEF d
<1>4. call' = [q \in Process |-> call'[q]]  BY <1>1
<1>5. SshInv'  BY <1>2, <1>3, <1>4 DEF SshInv
<1>6. Ssh!KeepsCompliance  BY <1>3 DEF Ssh!KeepsCompliance
<1> QED  BY <1>5, <1>6

\* A step of an apply leaves compliant what was compliant.
LEMMA SshSteps ==
  ASSUME HardeningAssumption, SshInv, [Ssh!Next]_<<host, call>>
  PROVE  SshInv' /\ Ssh!KeepsCompliance
<1>1. CASE Ssh!Next
  <2>1. ASSUME NEW p \in Process, Ssh!Step(p)
        PROVE  SshInv' /\ Ssh!KeepsCompliance
    BY <2>1, HardeningAssumption, SshReads, SshWaits, SshStops, SshPlans, SshWritesMain,
       SshWritesDropin, SshVerifies, SshRestarts DEF Ssh!Step
  <2> QED  BY <1>1, <2>1, HardeningAssumption, SshDisturbed DEF Ssh!Next
<1>2. CASE UNCHANGED <<host, call>>
  <2>1. SshInv'
    BY <1>2 DEF SshInv, SshHolds, SshPlanned, SshClean, SshUnasked
  <2>2. Ssh!KeepsCompliance  BY <1>2 DEF Ssh!KeepsCompliance
  <2> QED  BY <2>1, <2>2
<1> QED  BY <1>1, <1>2

\* What a success promises, and what one that had nothing to do.
LEMMA SshPromises ==
  ASSUME SshInv
  PROVE  Ssh!SuccessMeansHardened /\ Ssh!NoopMeansCompliant
<1>1. ASSUME NEW p \in Process, call[p].result \in {"success", "noop"}, call[p].quiet
      PROVE  /\ \A k \in Ssh!Key : k \notin Ssh!Excused(p) /\ k \notin Ssh!Unasked(p) =>
                   ~Ssh!Insecure(call[p].config, k, Ssh!Effective(host.main, host.frag, k))
             /\ call[p].result = "success" =>
                   host.running = Ssh!Obeyed(host.main, host.frag)
  <2>1. SshHolds(call[p], host)  BY DEF SshInv
  <2>2. SshClean(call[p], host)  BY <1>1, <2>1 DEF SshHolds
  <2>3. SshUnasked(call[p], host) = Ssh!Unasked(p)  BY DEF SshUnasked, Ssh!Unasked
  <2> QED  BY <1>1, <2>1, <2>2, <2>3 DEF SshHolds, SshClean, Ssh!Excused
<1>2. Ssh!NoopMeansCompliant  BY <1>1 DEF Ssh!NoopMeansCompliant, Ssh!Findings
<1>3. Ssh!SuccessMeansHardened
  BY <1>1 DEF Ssh!SuccessMeansHardened, Ssh!Findings, Ssh!Obeyed
<1> QED  BY <1>2, <1>3

-----------------------------------------------------------------------------
(* The types the plugins declare, of their invariants.                     *)

LEMMA AuditTyped == ASSUME AuditInv PROVE Audit!TypeOK
  BY DEF AuditInv, AuditType, AuditCall, Audit!TypeOK, Audit!Host, Audit!File, Audit!Lines

LEMMA ServTyped == ASSUME ServInv PROVE Serv!TypeOK
  BY DEF ServInv, ServType, ServCall, Serv!TypeOK, Serv!Host, Serv!Unit

LEMMA MacTyped == ASSUME MacInv PROVE Mac!TypeOK
  BY DEF MacInv, MacType, MacCall, Mac!TypeOK, Mac!Host, Mac!Mode

LEMMA FwTyped == ASSUME FwInv PROVE Firewall!TypeOK
  BY DEF FwInv, FwType, FwCall, Firewall!TypeOK, Firewall!Host

LEMMA PermTyped == ASSUME PermInv PROVE Perm!TypeOK
  BY DEF PermInv, PermType, PermCall, Perm!TypeOK, Perm!Host

LEMMA PamTyped == ASSUME PamInv PROVE Pam!TypeOK
  BY DEF PamInv, PamType, PamCall, Pam!TypeOK, Pam!Host, Pam!File

LEMMA KernTyped == ASSUME KernInv PROVE Kernel!TypeOK
  BY DEF KernInv, KernType, KernCall, Kernel!TypeOK, Kernel!Host

\* What sshd runs with is a value of every directive: it is read anew by a restart
\* alone, and no other step touches it.
LEMMA SshRunsOn ==
  ASSUME SshInv, DOMAIN host.running = Ssh!Key, [Ssh!Next]_<<host, call>>
  PROVE  DOMAIN host'.running = Ssh!Key
<1>1. PICK m, f, r, n : host = [main |-> m, frag |-> f, running |-> r, inode |-> n]
  BY DEF SshInv, SshIsHost
<1>2. CASE host' = host  BY <1>2
<1>3. CASE \/ \E main, inode : host' = [host EXCEPT !.main = main, !.inode = inode]
           \/ \E i, frag : host' = [host EXCEPT !.frag[i] = frag]
  <2>1. host'.running = host.running  BY <1>1, <1>3
  <2> QED  BY <2>1
<1>4. CASE host' = [host EXCEPT !.running = Ssh!Obeyed(host.main, host.frag)]
  <2>1. host'.running = Ssh!Obeyed(host.main, host.frag)  BY <1>1, <1>4
  <2> QED  BY <2>1 DEF Ssh!Obeyed
<1>5. ASSUME NEW p \in Process, Ssh!Step(p)
      PROVE  \/ host' = host
             \/ \E main, inode : host' = [host EXCEPT !.main = main, !.inode = inode]
             \/ \E i, frag : host' = [host EXCEPT !.frag[i] = frag]
             \/ host' = [host EXCEPT !.running = Ssh!Obeyed(host.main, host.frag)]
  <2>1. CASE Ssh!Read(p)  BY <2>1, Zenon DEF Ssh!Read
  <2>2. CASE Ssh!Open(p)  BY <2>2, Zenon DEF Ssh!Open
  <2>3. CASE Ssh!Lock(p)  BY <2>3, Zenon DEF Ssh!Lock
  <2>4. CASE Ssh!Refuses(p)  BY <2>4, Zenon DEF Ssh!Refuses
  <2>5. CASE Ssh!Plan(p)  BY <2>5, Zenon DEF Ssh!Plan
  <2>6. CASE Ssh!WriteMain(p)  BY <2>6, Zenon DEF Ssh!WriteMain
  <2>7. CASE Ssh!WriteDropin(p)  BY <2>7, Zenon DEF Ssh!WriteDropin
  <2>8. CASE Ssh!Verify(p)  BY <2>8, Zenon DEF Ssh!Verify
  <2>9. CASE Ssh!Restart(p)  BY <2>9, Zenon DEF Ssh!Restart
  <2>10. CASE Ssh!Dies(p)  BY <2>10, Zenon DEF Ssh!Dies
  <2> QED
    BY <1>5, <2>1, <2>2, <2>3, <2>4, <2>5, <2>6, <2>7, <2>8, <2>9, <2>10, Zenon DEF Ssh!Step
<1>6. CASE Ssh!Others
  <2>1. \/ \E i, frag : host' = [host EXCEPT !.frag[i] = frag]
        \/ \E main, inode : host' = [host EXCEPT !.main = main, !.inode = inode]
    BY <1>6, Zenon DEF Ssh!Others
  <2> QED  BY <1>3, <2>1
<1>7. CASE UNCHANGED <<host, call>>  BY <1>2, <1>7
<1> QED  BY <1>2, <1>3, <1>4, <1>5, <1>6, <1>7 DEF Ssh!Next

LEMMA SshTyped == ASSUME SshInv, DOMAIN host.running = Ssh!Key PROVE Ssh!TypeOK
  BY DEF SshInv, SshIsCall, Ssh!TypeOK
=============================================================================
