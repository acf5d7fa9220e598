------------------------------ MODULE AuditRules ------------------------------
(***************************************************************************)
(* The audit plugin (crates/hardener-plugins/src/audit): one rules file,   *)
(* Ours, among those augenrules compiles and loads; the daemon that loads  *)
(* them at boot; an apply whose reload may fail at any of its four         *)
(* commands; a rollback that reloads and takes back what the reload left.  *)
(*                                                                         *)
(* A rule is a record of a category and a version: what earlier releases   *)
(* wrote for a category counts, to a scan, as that category.               *)
(***************************************************************************)
EXTENDS Naturals

CONSTANTS Category,  \* the categories of AUDIT_RULES
          Versions,  \* of the text written for them, the current one Current
          Current,
          Absent,    \* no file
          Hosts, Foreign, Configs, MaxApplies, MaxChanges

Rule == [category : Category, version : Versions]

\* A file of rules, if there is one; a host that has them in its kernel.
File == {Absent} \cup SUBSET Rule
Host == [installed : BOOLEAN, enabled : BOOLEAN, running : BOOLEAN, locked : BOOLEAN,
         ours : File, foreign : File, compiled : File, prev : File, kernel : SUBSET Rule,
         saved : {Absent} \cup [ours : File, compiled : File, prev : File]]

RulesAssumption ==
    /\ Current \in Versions /\ \A rules \in SUBSET Rule : rules # Absent
    /\ Hosts \subseteq Host /\ Foreign \subseteq File /\ Configs \subseteq SUBSET Category

VARIABLES host,  \* installed, enabled, running; ours, foreign, compiled, prev:
                 \* the files; kernel: the rules loaded; locked: -e 2;
                 \* saved: the files as the last checkpoint captured them
          call,  \* the apply or rollback in progress, or the last one
          left

vars == <<host, call, left>>

\* rendered_rules_file: a configuration is the set of its excepted categories.
Rendered(config) == {[category |-> c, version |-> Current] : c \in Category \ config}

Lines(file) == IF file = Absent THEN {} ELSE file

\* What augenrules makes of the directory, and the categories it names.
Compiled(h) == Lines(h.ours) \cup Lines(h.foreign)
Filed(h) == {r.category : r \in Compiled(h)}

\* It keeps the compiled file it displaces.
Compile(h) == [h EXCEPT !.compiled = Compiled(h),
                        !.prev = IF h.compiled = Absent \/ h.compiled = Compiled(h)
                                 THEN @ ELSE h.compiled]

Load(h) == [Compile(h) EXCEPT !.kernel = Compiled(h)]

\* A boot unlocks the configuration and, where the daemon is enabled, loads it.
Booted(h) ==
    LET up == [h EXCEPT !.locked = FALSE, !.kernel = {}, !.running = h.enabled] IN
    IF h.enabled THEN Load(up) ELSE up

\* scan: a category counts as loaded when any rule names it.
Live(h) == {r.category : r \in h.kernel}
MissingRules(config, h) == Category \ (Live(h) \cup config)

\* Seeded fault: a stale file whose categories are all loaded is not announced.
EstimatesOfRules(config, h) ==
    {e \in {"enable", "start", "rules", "file"} :
        \/ e = "enable" /\ ~h.enabled
        \/ e = "start"  /\ ~h.running
        \/ e \in {"rules", "file"} /\ MissingRules(config, h) # {}}

\* validate, of an installed daemon: the estimate of each step.
Estimates(config, h) ==
    {e \in {"enable", "start", "rules", "file"} :
        \/ e = "enable" /\ ~h.enabled
        \/ e = "start"  /\ ~h.running
        \/ e = "rules"  /\ MissingRules(config, h) # {}
        \/ e = "file"   /\ h.ours # Rendered(config)}

(***************************************************************************)
(* apply.                                                                  *)
(***************************************************************************)

Idle == [pc |-> "idle", result |-> "none", quiet |-> TRUE, ok |-> TRUE, wrote |-> FALSE,
         flushed |-> FALSE, undo |-> FALSE, config |-> {}, live |-> {}, filed |-> {},
         before |-> {}, estimates |-> {}]

Goto(pc) == [call EXCEPT !.pc = pc]
Ends(result) == [call EXCEPT !.pc = "idle", !.result = result]

Init ==
    /\ host \in Hosts
    /\ call = Idle
    /\ left = [applies |-> MaxApplies, changes |-> MaxChanges]

\* Refused where the daemon is absent or cannot be asked for; then the
\* checkpoint of every file the apply, or its reload, may write.
Begin ==
    /\ call.pc = "idle" /\ left.applies > 0
    /\ left' = [left EXCEPT !.applies = @ - 1]
    /\ \E config \in Configs :
          LET c == [Idle EXCEPT !.config = config, !.live = Live(host),
                                !.filed = Filed(host) \cap Live(host),
                                !.estimates = Estimates(config, host)] IN
          \/ /\ call' = [c EXCEPT !.result = "failed"] /\ UNCHANGED host
          \/ /\ host.installed
             /\ call' = [c EXCEPT !.pc = "enable"]
             /\ host' = [host EXCEPT !.saved =
                   [ours |-> host.ours, compiled |-> host.compiled, prev |-> host.prev]]

\* Seeded fault: a refusal of systemctl is passed over.
EnableUnreported ==
    /\ call.pc = "enable"
    /\ \/ host' = [host EXCEPT !.enabled = TRUE]
       \/ ~host.enabled /\ UNCHANGED host
    /\ call' = Goto("start")
    /\ UNCHANGED left

\* Each of the two, unless it is so already; systemctl may refuse.
Enable ==
    /\ call.pc = "enable"
    /\ \/ host' = [host EXCEPT !.enabled = TRUE] /\ call' = Goto("start")
       \/ ~host.enabled /\ UNCHANGED host /\ call' = [Goto("start") EXCEPT !.ok = FALSE]
    /\ UNCHANGED left

\* The daemon's unit loads the rules when it starts.
Start ==
    /\ call.pc = "start"
    /\ \/ host.running /\ UNCHANGED host /\ call' = Goto("write")
       \/ /\ ~host.running
          /\ \/ /\ host' = IF host.locked THEN [host EXCEPT !.running = TRUE]
                           ELSE [Load(host) EXCEPT !.running = TRUE]
                /\ call' = Goto("write")
             \/ UNCHANGED host /\ call' = [Goto("write") EXCEPT !.ok = FALSE]
    /\ UNCHANGED left

\* The rules file, and nothing more where it says what it should: neither the
\* file nor the reload.  A file that cannot be read differs; a copy that
\* cannot be made, a write that fails, are failed changes, and the reload
\* follows; so is a mode that cannot be set.
Write ==
    /\ call.pc = "write"
    /\ \/ /\ host.ours = Rendered(call.config)
          /\ call' = Ends(IF call.ok THEN "success" ELSE "failed") /\ UNCHANGED host
       \/ \E ok \in BOOLEAN :
             /\ host' = [host EXCEPT !.ours = Rendered(call.config)]
             /\ call' = [Goto("load") EXCEPT !.wrote = TRUE, !.ok = @ /\ ok]
       \/ UNCHANGED host /\ call' = [Goto("load") EXCEPT !.ok = FALSE]
    /\ UNCHANGED left

(***************************************************************************)
(* reload_audit_rules, for an apply and for a rollback.                    *)
(***************************************************************************)

Loaded ==
    IF call.undo THEN Goto("sweep") ELSE Ends(IF call.ok THEN "success" ELSE "failed")

\* augenrules --load compiles before it loads.  A load refused because a rule
\* exists has the kernel's rules flushed and is tried once more.
AugenLoad ==
    /\ call.pc = "load"
    /\ \/ ~host.locked /\ host' = Load(host) /\ call' = Loaded
       \/ /\ ~host.locked /\ ~call.flushed
          /\ host' = [Compile(host) EXCEPT !.kernel = {}]
          /\ call' = [Goto("load") EXCEPT !.flushed = TRUE]
       \/ host' = Compile(host) /\ call' = Goto("restart")
       \/ ~call.flushed /\ UNCHANGED host /\ call' = Goto("restart")
    /\ UNCHANGED left

\* Seeded fault: a last resort that failed is only warned of.
RestartDaemonUnreported ==
    /\ call.pc = "restart"
    /\ \/ ~host.locked /\ host' = [Load(host) EXCEPT !.running = TRUE]
       \/ UNCHANGED host
    /\ call' = Loaded
    /\ UNCHANGED left

\* The last resort; where it fails too a locked configuration is no failure.
RestartDaemon ==
    /\ call.pc = "restart"
    /\ \/ /\ ~host.locked /\ host' = [Load(host) EXCEPT !.running = TRUE]
          /\ call' = Loaded
       \/ /\ UNCHANGED host
          /\ call' = IF call.undo THEN [Goto("sweep") EXCEPT !.ok = host.locked]
                     ELSE Ends(IF call.ok /\ host.locked THEN "success" ELSE "failed")
    /\ UNCHANGED left

(***************************************************************************)
(* rollback: the files are put back, and the rules reloaded.               *)
(***************************************************************************)

\* Seeded fault: the copy augenrules keeps is forgotten.
PresentCompiled(h) == {f \in {"compiled"} : h[f] # Absent}


Present(h) == {f \in {"compiled", "prev"} : h[f] # Absent}

Rollback ==
    /\ call.pc = "idle" /\ host.saved # Absent
    /\ LET back == [host EXCEPT !.ours = host.saved.ours, !.compiled = host.saved.compiled,
                                !.prev = host.saved.prev]
       IN /\ host' = back
          /\ call' = [Idle EXCEPT !.pc = "load", !.undo = TRUE, !.before = Present(back)]
    /\ UNCHANGED left

\* remove_paths_the_reload_created; rm may fail, and is only warned of.
Sweep ==
    /\ call.pc = "sweep"
    /\ LET made == Present(host) \ call.before IN
       \/ /\ host' = [host EXCEPT !.compiled = IF "compiled" \in made THEN Absent ELSE @,
                                  !.prev = IF "prev" \in made THEN Absent ELSE @]
          /\ call' = Ends(IF call.ok THEN "undone" ELSE "undone_not_loaded")
       \/ made # {} /\ UNCHANGED host /\ call' = Ends("undone_not_swept")
    /\ UNCHANGED left

Dies ==
    /\ call.pc # "idle"
    /\ call' = Ends("died")
    /\ UNCHANGED <<host, left>>

\* Another package's rules, `auditctl -e 2`, a flush by hand, a boot.
Others ==
    /\ left.changes > 0
    /\ left' = [left EXCEPT !.changes = @ - 1]
    /\ \/ \E f \in Foreign : host' = [host EXCEPT !.foreign = f]
       \/ host' = [host EXCEPT !.locked = TRUE]
       \/ ~host.locked /\ host' = [host EXCEPT !.kernel = {}]
       \/ host' = Booted(host)
    /\ call' = [call EXCEPT !.quiet = FALSE]

Next == \/ Begin \/ Enable \/ Start \/ Write \/ AugenLoad \/ RestartDaemon
        \/ Rollback \/ Sweep \/ Dies \/ Others

(***************************************************************************)
(* Properties.                                                             *)
(***************************************************************************)

TypeOK ==
    /\ call.pc \in {"idle", "enable", "start", "write", "load", "restart", "sweep"}
    /\ host.kernel \subseteq Rule /\ Lines(host.ours) \subseteq Rule

\* An apply that reports success has its rules loaded by the next boot, and
\* at once where it rewrote them and the kernel would take them.
SuccessMeansAudited ==
    (call.result = "success" /\ call.quiet) =>
        /\ MissingRules(call.config, Booted(host)) = {}
        /\ (call.wrote /\ ~host.locked) => Rendered(call.config) \subseteq host.kernel

\* An apply that reports success has unloaded nothing but what its
\* configuration excepts.
SuccessUnloadsNothing ==
    (call.result = "success" /\ call.quiet) =>
        call.live \ call.config \subseteq Live(host)

\* One under way, and one that failed or died, has unloaded none of the rules
\* that were loaded from the files, unless it flushed the kernel to load them
\* anew (what reload_audit_rules says of its own failure).
LostOnlyToAFlush ==
    (call.quiet /\ ~call.flushed) => call.filed \ call.config \subseteq Live(host)

NothingUnloaded == SuccessUnloadsNothing /\ LostOnlyToAFlush

\* A rollback that says the rules are reloaded has them so, and leaves of the
\* files an apply may create none that was not there before it.
UndoneMeansUndone ==
    (call.result = "undone" /\ call.quiet) =>
        /\ host.ours = host.saved.ours
        /\ host.compiled = Absent <=> host.saved.compiled = Absent
        /\ host.prev = Absent <=> host.saved.prev = Absent
        /\ ~host.locked => host.kernel = Compiled(host)

\* An apply writes, enables and starts only what a preview announced.
PreviewIsHonest ==
    (call.pc \in {"enable", "start", "write"} /\ call'.quiet) =>
       /\ (host'.enabled # host.enabled => "enable" \in call.estimates)
       /\ (host'.running # host.running => "start" \in call.estimates)
       /\ (host'.ours # host.ours => "file" \in call.estimates)
=============================================================================
