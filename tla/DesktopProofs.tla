---------------------------- MODULE DesktopProofs ----------------------------
(***************************************************************************)
(* The guard of the desktop's privileged commands, the sessions its scans   *)
(* are filed in and what it answers, for any number of commands, any        *)
(* plugins, databases and cooldown.                                         *)
(***************************************************************************)
EXTENDS Desktop, TLAPS

\* Between the check of the cooldown and the prompt; and under the guard.
Passed  == {"paced", "held", "armed"}
Guarded == {"held", "armed", "prompt"}

\* The six fields of a command, whatever its argument and its answer are.
Whole(r) == r = [kind |-> r.kind, pc |-> r.pc, saw |-> r.saw, session |-> r.session,
                 of |-> r.of, said |-> r.said]

\* A command that is past the check took a verb that needs the guard, and read a
\* time that was the cooldown ago, or none.
Sound(r, now) ==
    /\ Whole(r)
    /\ r.saw \in Nat
    /\ r.pc \in Passed \cup Guarded => r.kind \in Privileged
    /\ r.pc = "scanning" => r.kind = "scan"
    /\ r.pc \in Passed => (r.saw = 0 \/ r.saw + Cooldown <= now)

AppInv ==
    /\ app = [busy |-> app.busy, last |-> app.last, now |-> app.now, ended |-> app.ended]
    /\ app.last \in Nat /\ app.now \in Nat
    /\ app.ended = app.last

CallInv ==
    /\ call = [c \in Command |-> call[c]]
    /\ \A c \in Command : Sound(call[c], app.now)

\* One command at most has the guard, and the flag is up while it has.
GuardInv ==
    \A c \in Command :
      call[c].pc \in Guarded =>
        /\ app.busy
        /\ \A d \in Command : call[d].pc \in Guarded => d = c

DeskInv == AppInv /\ CallInv /\ GuardInv

\* What a step of one command does to the rest: nothing.
LEMMA Moves ==
  ASSUME CallInv, NEW c \in Command, NEW r, call' = [call EXCEPT ![c] = r]
  PROVE  /\ call'[c] = r
         /\ \A d \in Command : d # c => call'[d] = call[d]
         /\ call' = [d \in Command |-> call'[d]]
<1>1. call = [d \in Command |-> call[d]]  BY DEF CallInv
<1>2. DOMAIN call = Command  BY <1>1
<1>3. call' = [d \in Command |-> IF d = c THEN r ELSE call[d]]  BY <1>2
<1> QED  BY <1>3

\* A command that is on its way out keeps the invariant if it has the guard
\* dropped with it, or never had it.
LEMMA Answered ==
  ASSUME DeskInv, NEW c \in Command, NEW said, Answer(c, said),
         \/ app' = app /\ call[c].pc \notin Guarded
         \/ app' = Drop(app) /\ call[c].pc \in Guarded
  PROVE  DeskInv'
<1>1. /\ call'[c] = Idle(said)
      /\ \A d \in Command : d # c => call'[d] = call[d]
      /\ call' = [d \in Command |-> call'[d]]
  BY Moves DEF Answer, DeskInv
<1>2. app'.now = app.now /\ AppInv'  BY DEF DeskInv, AppInv, Drop
<1>3. Sound(Idle(said), app.now)
  BY DEF Sound, Whole, Idle, Passed, Guarded
<1>4. CallInv'  BY <1>1, <1>2, <1>3 DEF DeskInv, CallInv
<1>5. call'[c].pc \notin Guarded  BY <1>1 DEF Idle, Guarded
<1>6. GuardInv'
  <2>1. CASE app' = app  BY <2>1, <1>1, <1>5 DEF DeskInv, GuardInv
  <2>2. CASE call[c].pc \in Guarded  BY <2>2, <1>1, <1>5 DEF DeskInv, GuardInv
  <2> QED  BY <2>1, <2>2
<1> QED  BY <1>2, <1>4, <1>6 DEF DeskInv

\* A command that stays under way keeps it if it is sound where it gets to, and
\* does not come by the guard.
LEMMA GoesOn ==
  ASSUME DeskInv, NEW c \in Command, NEW r, call' = [call EXCEPT ![c] = r],
         UNCHANGED app, Sound(r, app.now),
         r.pc \in Guarded => call[c].pc \in Guarded
  PROVE  DeskInv'
<1>1. /\ call'[c] = r
      /\ \A d \in Command : d # c => call'[d] = call[d]
      /\ call' = [d \in Command |-> call'[d]]
  BY Moves DEF DeskInv
<1>2. AppInv'  BY DEF DeskInv, AppInv
<1>3. CallInv'  BY <1>1 DEF DeskInv, CallInv
<1>4. GuardInv'  BY <1>1 DEF DeskInv, GuardInv
<1> QED  BY <1>2, <1>3, <1>4 DEF DeskInv

\* To moves a command on, and leaves the rest of it.
LEMMA Advance ==
  ASSUME DeskInv, NEW c \in Command, NEW pc, To(c, pc)
  PROVE  \E r : /\ call' = [call EXCEPT ![c] = r]
                /\ Whole(r) /\ r.pc = pc /\ r.kind = call[c].kind /\ r.saw = call[c].saw
                /\ r.session = call[c].session /\ r.of = call[c].of /\ r.said = call[c].said
<1> DEFINE r == [kind |-> call[c].kind, pc |-> pc, saw |-> call[c].saw,
                 session |-> call[c].session, of |-> call[c].of, said |-> call[c].said]
<1>1. call[c] = [kind |-> call[c].kind, pc |-> call[c].pc, saw |-> call[c].saw,
                 session |-> call[c].session, of |-> call[c].of, said |-> call[c].said]
  BY DEF DeskInv, CallInv, Sound, Whole
<1>2. [call[c] EXCEPT !.pc = pc] = r  BY <1>1
<1>3. call' = [call EXCEPT ![c] = r]  BY <1>2 DEF To
<1>4. /\ Whole(r) /\ r.pc = pc /\ r.kind = call[c].kind /\ r.saw = call[c].saw
      /\ r.session = call[c].session /\ r.of = call[c].of /\ r.said = call[c].said
  BY DEF Whole
<1> QED  BY <1>3, <1>4

\* Leave drops the guard exactly where there is one to drop.
LEMMA Left ==
  ASSUME DeskInv, NEW c \in Command, NEW said, Leave(c, said),
         call[c].pc \in Guarded \cup {"scanning"}
  PROVE  DeskInv'
<1>1. Answer(c, said)  BY DEF Leave
<1>2. CASE call[c].pc \in Guarded
  <2>1. call[c].kind \in Privileged  BY <1>2 DEF DeskInv, CallInv, Sound
  <2>2. app' = Drop(app)  BY <2>1 DEF Leave
  <2> QED  BY <1>1, <1>2, <2>2, Answered
<1>3. CASE call[c].pc = "scanning"
  <2>1. call[c].kind = "scan"  BY <1>3 DEF DeskInv, CallInv, Sound
  <2>2. app' = app  BY <2>1 DEF Leave, Privileged
  <2>3. call[c].pc \notin Guarded  BY <1>3 DEF Guarded
  <2> QED  BY <1>1, <2>2, <2>3, Answered
<1> QED  BY <1>2, <1>3

\* A verb that needs the guard is begun a cooldown after the last, or is answered.
LEMMA AcquireStep ==
  ASSUME DesktopAssumption, DeskInv, NEW c \in Command, NEW kind \in Privileged, NEW of, Acquire(c, kind, of)
  PROVE  DeskInv'
<1>1. call[c].pc \notin Guarded  BY DEF Acquire, Asks, Idle, Guarded
<1>2. CASE app.last > 0 /\ app.now - app.last < Cooldown
  <2>1. Answer(c, <<"cooldown">>) /\ app' = app  BY <1>2 DEF Acquire
  <2> QED  BY <1>1, <2>1, Answered
<1>3. CASE ~(app.last > 0 /\ app.now - app.last < Cooldown)
  <2>1. call' = [call EXCEPT ![c] = Begun(kind, of, "paced", app.last, 0)] /\ UNCHANGED app
    BY <1>3 DEF Acquire
  <2>2. app.last = 0 \/ app.last + Cooldown <= app.now
    BY <1>3 DEF DeskInv, AppInv, DesktopAssumption
  <2>3. Sound(Begun(kind, of, "paced", app.last, 0), app.now)
    BY <2>2 DEF Begun, Sound, Whole, Passed, Guarded, DeskInv, AppInv
  <2>4. Begun(kind, of, "paced", app.last, 0).pc \notin Guarded  BY DEF Begun, Guarded
  <2> QED  BY <2>1, <2>3, <2>4, GoesOn
<1> QED  BY <1>2, <1>3

\* The flag is taken by one that found it down: nobody else has it.
LEMMA SwapStep ==
  ASSUME DeskInv, NEW c \in Command, Swap(c)
  PROVE  DeskInv'
<1>1. call[c].pc \notin Guarded  BY DEF Swap, Guarded
<1>2. CASE app.busy
  <2>1. Answer(c, Nothing) /\ app' = app  BY <1>2 DEF Swap
  <2> QED  BY <1>1, <2>1, Answered
<1>3. CASE ~app.busy
  <2>1. To(c, "held") /\ app' = [app EXCEPT !.busy = TRUE]  BY <1>3 DEF Swap
  <2>2. PICK r : /\ call' = [call EXCEPT ![c] = r]
                 /\ Whole(r) /\ r.pc = "held" /\ r.kind = call[c].kind /\ r.saw = call[c].saw
    BY <2>1, Advance
  <2>3. /\ call'[c] = r
        /\ \A d \in Command : d # c => call'[d] = call[d]
        /\ call' = [d \in Command |-> call'[d]]
    BY <2>2, Moves DEF DeskInv
  <2>4. AppInv' /\ app'.now = app.now /\ app'.busy  BY <2>1 DEF DeskInv, AppInv
  <2>5. Sound(r, app.now)
    BY <2>2 DEF Swap, DeskInv, CallInv, Sound, Passed
  <2>6. CallInv'  BY <2>3, <2>4, <2>5 DEF DeskInv, CallInv
  <2>7. \A d \in Command : call[d].pc \notin Guarded  BY <1>3 DEF DeskInv, GuardInv
  <2>8. GuardInv'  BY <2>3, <2>4, <2>7 DEF GuardInv
  <2> QED  BY <2>4, <2>6, <2>8 DEF DeskInv
<1> QED  BY <1>2, <1>3

\* One that has the guard is armed, and keeps it.
LEMMA ArmedStep ==
  ASSUME DeskInv, NEW c \in Command, call[c].pc = "held", To(c, "armed"), UNCHANGED app
  PROVE  DeskInv'
<1>1. PICK r : /\ call' = [call EXCEPT ![c] = r]
               /\ Whole(r) /\ r.pc = "armed" /\ r.kind = call[c].kind /\ r.saw = call[c].saw
  BY Advance
<1>2. Sound(r, app.now)
  BY <1>1 DEF DeskInv, CallInv, Sound, Passed
<1>3. call[c].pc \in Guarded  BY DEF Guarded
<1> QED  BY <1>1, <1>2, <1>3, GoesOn

\* What is done under the guard before the prompt.
LEMMA PrepareStep ==
  ASSUME DeskInv, NEW c \in Command, Prepare(c)
  PROVE  DeskInv'
<1>1. call[c].pc = "held" /\ call[c].pc \in Guarded  BY DEF Prepare, Guarded
<1>2. CASE call[c].kind = "delete"
  <2>1. ResolveDelete(c)  BY <1>2 DEF Prepare
  <2>2. \/ \E said : Leave(c, said)
        \/ To(c, "armed") /\ UNCHANGED app
    BY <2>1 DEF ResolveDelete
  <2> QED  BY <1>1, <2>2, Left, ArmedStep
<1>3. CASE call[c].kind = "deep"
  <2> DEFINE r == Begun("deep", call[c].of, "armed", call[c].saw, Len(book.sessions) + 1)
  <2>1. call' = [call EXCEPT ![c] = r] /\ UNCHANGED app  BY <1>3 DEF Prepare
  <2>2. Sound(r, app.now)
    BY <1>1 DEF Begun, DeskInv, CallInv, Sound, Whole, Passed, Privileged
  <2> QED  BY <1>1, <2>1, <2>2, GoesOn
<1>4. CASE call[c].kind \notin {"delete", "deep"}
  <2>1. To(c, "armed") /\ UNCHANGED app  BY <1>4 DEF Prepare
  <2> QED  BY <1>1, <2>1, ArmedStep
<1> QED  BY <1>2, <1>3, <1>4

\* The prompt is put up by the one that is armed, and the guard kept.
LEMMA PromptStep ==
  ASSUME DeskInv, NEW c \in Command, Prompt(c)
  PROVE  DeskInv'
<1>1. call[c].pc = "armed" /\ To(c, "prompt") /\ UNCHANGED app  BY DEF Prompt
<1>2. PICK r : /\ call' = [call EXCEPT ![c] = r]
               /\ Whole(r) /\ r.pc = "prompt" /\ r.kind = call[c].kind /\ r.saw = call[c].saw
  BY <1>1, Advance
<1>3. Sound(r, app.now)
  BY <1>1, <1>2 DEF DeskInv, CallInv, Sound, Passed, Guarded
<1>4. call[c].pc \in Guarded  BY <1>1 DEF Guarded
<1> QED  BY <1>1, <1>2, <1>3, <1>4, GoesOn

\* A scan without privileges is begun beside whatever holds the guard.
LEMMA BeginScanStep ==
  ASSUME DeskInv, NEW c \in Command, BeginScan(c)
  PROVE  DeskInv'
<1>1. PICK selected \in Selections :
        call' = [call EXCEPT ![c] = Begun("scan", selected, "scanning", 0, Len(book.sessions) + 1)]
  BY DEF BeginScan
<1> DEFINE r == Begun("scan", selected, "scanning", 0, Len(book.sessions) + 1)
<1>2. Sound(r, app.now) /\ r.pc \notin Guarded
  BY DEF Begun, Sound, Whole, Passed, Guarded
<1>3. UNCHANGED app  BY DEF BeginScan
<1> QED  BY <1>1, <1>2, <1>3, GoesOn

\* The child ends, and with it the prompt: the time is noted, the guard dropped.
LEMMA ChildEndsStep ==
  ASSUME DeskInv, NEW c \in Command, ChildEnds(c)
  PROVE  DeskInv'
<1>1. call[c].pc = "prompt" /\ Answer(c, Nothing) /\ app' = Drop(Marked(app))
  BY DEF ChildEnds
<1>2. /\ call'[c] = Idle(Nothing)
      /\ \A d \in Command : d # c => call'[d] = call[d]
      /\ call' = [d \in Command |-> call'[d]]
  BY <1>1, Moves DEF Answer, DeskInv
<1>3. app' = [busy |-> FALSE, last |-> app.now, now |-> app.now, ended |-> app.now]
  BY <1>1 DEF Drop, Marked, DeskInv, AppInv
<1>4. AppInv' /\ app'.now = app.now  BY <1>3 DEF DeskInv, AppInv
<1>5. Sound(Idle(Nothing), app.now)  BY DEF Sound, Whole, Idle, Passed, Guarded
<1>6. CallInv'  BY <1>2, <1>4, <1>5 DEF DeskInv, CallInv
<1>7. \A d \in Command : d # c => call[d].pc \notin Guarded
  BY <1>1 DEF DeskInv, GuardInv, Guarded
<1>8. call'[c].pc \notin Guarded  BY <1>2 DEF Idle, Guarded
<1>9. GuardInv'  BY <1>2, <1>7, <1>8 DEF GuardInv
<1> QED  BY <1>4, <1>6, <1>9 DEF DeskInv

\* The commands that take no guard answer, and the front end shows the answer.
LEMMA AnswersStep ==
  ASSUME DeskInv, NEW c \in Command, GetCheckpoints(c) \/ GenerateReport(c) \/ Show(c)
  PROVE  DeskInv'
<1>1. PICK said : Answer(c, said)  BY DEF GetCheckpoints, GenerateReport, Show
<1>2. app' = app  BY DEF GetCheckpoints, GenerateReport, Show
<1>3. call[c].pc \notin Guarded
  BY DEF GetCheckpoints, GenerateReport, Show, Asks, Idle, Guarded
<1> QED  BY <1>1, <1>2, <1>3, Answered

\* A command that is refused or given up, or a scan that ends, lets go of the guard it has.
LEMMA EndsStep ==
  ASSUME DeskInv, NEW c \in Command, Refuses(c) \/ Abort(c) \/ Scanned(c)
  PROVE  DeskInv'
<1>1. Leave(c, Nothing)  BY DEF Refuses, Abort, Scanned
<1>2. call[c].pc \in Guarded \cup {"scanning"}  BY DEF Refuses, Abort, Scanned, Guarded
<1> QED  BY <1>1, <1>2, Left

\* What has waited long enough has still waited long enough.
LEMMA TickStep ==
  ASSUME DesktopAssumption, DeskInv, Tick
  PROVE  DeskInv'
<1>1. app' = [app EXCEPT !.now = app.now + 1] /\ call' = call  BY DEF Tick
<1>2. AppInv' /\ app'.now = app.now + 1 /\ app'.busy = app.busy  BY <1>1 DEF DeskInv, AppInv
<1>3. \A c \in Command : Sound(call[c], app.now + 1)
  BY DEF DeskInv, AppInv, CallInv, Sound, DesktopAssumption
<1>4. CallInv' /\ GuardInv'  BY <1>1, <1>2, <1>3 DEF DeskInv, CallInv, GuardInv
<1> QED  BY <1>2, <1>4 DEF DeskInv

\* Of idle commands none has the guard, whatever the time is.
LEMMA AllIdle ==
  ASSUME NEW f, f = [c \in Command |-> Idle(Nothing)], NEW now
  PROVE  /\ f = [c \in Command |-> f[c]]
         /\ \A c \in Command : Sound(f[c], now) /\ f[c].pc \notin Guarded
<1>1. Sound(Idle(Nothing), now) /\ Idle(Nothing).pc \notin Guarded
  BY DEF Sound, Whole, Idle, Passed, Guarded
<1> QED  BY <1>1

\* A process that is started again starts with idle commands and fresh statics.
LEMMA RestartStep ==
  ASSUME DeskInv, Restart
  PROVE  DeskInv'
<1>1. call' = [c \in Command |-> Idle(Nothing)]  BY DEF Restart
<1>2. /\ call' = [c \in Command |-> call'[c]]
      /\ \A c \in Command : Sound(call'[c], app'.now) /\ call'[c].pc \notin Guarded
  BY <1>1, AllIdle
<1>3. app' = [busy |-> FALSE, last |-> 0, now |-> app.now, ended |-> 0]  BY DEF Restart, Fresh
<1>4. AppInv'  BY <1>3 DEF DeskInv, AppInv
<1>5. CallInv' /\ GuardInv'  BY <1>2 DEF CallInv, GuardInv
<1> QED  BY <1>4, <1>5 DEF DeskInv

\* The initial states satisfy the invariant.
LEMMA InitDesk ==
  ASSUME Init
  PROVE  DeskInv
<1>1. call = [c \in Command |-> Idle(Nothing)]  BY DEF Init
<1>2. /\ call = [c \in Command |-> call[c]]
      /\ \A c \in Command : Sound(call[c], app.now) /\ call[c].pc \notin Guarded
  BY <1>1, AllIdle
<1>3. AppInv  BY DEF Init, Fresh, AppInv
<1> QED  BY <1>2, <1>3 DEF DeskInv, CallInv, GuardInv

\* Every step preserves it.
LEMMA NextDesk ==
  ASSUME DesktopAssumption, DeskInv, [Next]_vars
  PROVE  DeskInv'
<1>1. CASE UNCHANGED vars
  BY <1>1 DEF vars, DeskInv, AppInv, CallInv, GuardInv
<1>2. CASE Tick  BY <1>2, TickStep
<1>3. CASE Restart  BY <1>3, RestartStep
<1>4. ASSUME NEW c \in Command, Step(c)
      PROVE  DeskInv'
  <2>1. CASE \E kind \in Privileged : \E of : Acquire(c, kind, of)  BY <2>1, AcquireStep
  <2>2. CASE Swap(c)  BY <2>2, SwapStep
  <2>3. CASE Refuses(c) \/ Abort(c) \/ Scanned(c)  BY <2>3, EndsStep
  <2>4. CASE Prepare(c)  BY <2>4, PrepareStep
  <2>5. CASE Prompt(c)  BY <2>5, PromptStep
  <2>6. CASE ChildEnds(c)  BY <2>6, ChildEndsStep
  <2>7. CASE BeginScan(c)  BY <2>7, BeginScanStep
  <2>8. CASE GetCheckpoints(c) \/ GenerateReport(c) \/ Show(c)  BY <2>8, AnswersStep
  <2> QED  BY <1>4, <2>1, <2>2, <2>3, <2>4, <2>5, <2>6, <2>7, <2>8 DEF Step, Privileged
<1> QED  BY <1>1, <1>2, <1>3, <1>4 DEF Next

\* A prompt is raised by a command that was armed, and by no other step.
LEMMA OnlyArmed ==
  ASSUME DeskInv, Next, NEW c \in Command, call[c].pc # "prompt", call'[c].pc = "prompt"
  PROVE  call[c].pc = "armed"
<1>1. CASE Tick  BY <1>1 DEF Tick
<1>2. CASE Restart
  <2>1. call' = [d \in Command |-> Idle(Nothing)]  BY <1>2 DEF Restart
  <2>2. call'[c].pc = "idle"  BY <2>1 DEF Idle
  <2> QED  BY <2>2
<1>3. ASSUME NEW d \in Command, Step(d)
      PROVE  call[c].pc = "armed"
  <2>1. ASSUME NEW said, Answer(d, said)
        PROVE  call'[c].pc # "prompt"
    <3>1. call'[d] = Idle(said) /\ (c # d => call'[c] = call[c])
      BY <2>1, Moves DEF Answer, DeskInv
    <3> QED  BY <3>1 DEF Idle
  <2>2. ASSUME NEW r, call' = [call EXCEPT ![d] = r], r.pc # "prompt"
        PROVE  call'[c].pc # "prompt"
    <3>1. call'[d] = r /\ (c # d => call'[c] = call[c])  BY <2>2, Moves DEF DeskInv
    <3> QED  BY <3>1, <2>2
  <2>3. ASSUME NEW pc, To(d, pc)
        PROVE  call'[c].pc # "prompt" \/ (c = d /\ pc = "prompt")
    <3>1. PICK r : call' = [call EXCEPT ![d] = r] /\ r.pc = pc  BY <2>3, Advance
    <3>2. call'[d] = r /\ (c # d => call'[c] = call[c])  BY <3>1, Moves DEF DeskInv
    <3> QED  BY <3>1, <3>2
  <2>4. CASE \E kind \in Privileged : \E of : Acquire(d, kind, of)
    <3>1. PICK kind \in Privileged : \E of : Acquire(d, kind, of)  BY <2>4
    <3>2. PICK of : Acquire(d, kind, of)  BY <3>1
    <3>3. \/ Answer(d, <<"cooldown">>)
          \/ call' = [call EXCEPT ![d] = Begun(kind, of, "paced", app.last, 0)]
      BY <3>2 DEF Acquire
    <3>4. Begun(kind, of, "paced", app.last, 0).pc # "prompt"  BY DEF Begun
    <3> QED  BY <3>3, <3>4, <2>1, <2>2
  <2>5. CASE Swap(d)
    <3>1. Answer(d, Nothing) \/ To(d, "held")  BY <2>5 DEF Swap
    <3> QED  BY <3>1, <2>1, <2>3
  <2>6. CASE Refuses(d) \/ Abort(d) \/ Scanned(d)
    <3>1. Answer(d, Nothing)  BY <2>6 DEF Refuses, Abort, Scanned, Leave
    <3> QED  BY <3>1, <2>1
  <2>7. CASE Prepare(d)
    <3> DEFINE r == Begun("deep", call[d].of, "armed", call[d].saw, Len(book.sessions) + 1)
    <3>1. \/ \E said : Leave(d, said)
          \/ To(d, "armed")
          \/ call' = [call EXCEPT ![d] = r]
      BY <2>7 DEF Prepare, ResolveDelete
    <3>2. r.pc # "prompt"  BY DEF Begun
    <3>3. (\E said : Leave(d, said)) => \E said : Answer(d, said)  BY DEF Leave
    <3> HIDE DEF r
    <3> QED  BY <3>1, <3>2, <3>3, <2>1, <2>2, <2>3
  <2>8. CASE Prompt(d)
    <3>1. call[d].pc = "armed" /\ To(d, "prompt")  BY <2>8 DEF Prompt
    <3>2. c = d  BY <3>1, <2>3
    <3> QED  BY <3>1, <3>2
  <2>9. CASE ChildEnds(d)
    <3>1. Answer(d, Nothing)  BY <2>9 DEF ChildEnds
    <3> QED  BY <3>1, <2>1
  <2>10. CASE BeginScan(d)
    <3>1. PICK selected \in Selections :
            call' = [call EXCEPT ![d] = Begun("scan", selected, "scanning", 0, Len(book.sessions) + 1)]
      BY <2>10 DEF BeginScan
    <3>2. Begun("scan", selected, "scanning", 0, Len(book.sessions) + 1).pc # "prompt"  BY DEF Begun
    <3> QED  BY <3>1, <3>2, <2>2
  <2>11. CASE GetCheckpoints(d) \/ GenerateReport(d) \/ Show(d)
    <3>1. \E said : Answer(d, said)  BY <2>11 DEF GetCheckpoints, GenerateReport, Show
    <3> QED  BY <3>1, <2>1
  <2> QED
    BY <1>3, <2>4, <2>5, <2>6, <2>7, <2>8, <2>9, <2>10, <2>11 DEF Step, Privileged
<1> QED  BY <1>1, <1>2, <1>3 DEF Next

\* Nobody else's prompt is up when one is raised, nor was within the cooldown of
\* what the command had read.
LEMMA PromptAlone ==
  ASSUME DesktopAssumption, DeskInv, Next
  PROVE  PromptIsAlone
<1>1. ASSUME NEW c \in Command, call[c].pc # "prompt", call'[c].pc = "prompt"
      PROVE  /\ \A d \in Command : call[d].pc # "prompt"
             /\ \/ app.ended = 0
                \/ app.now - app.ended >= Cooldown
                \/ call[c].saw # app.last
  <2>1. call[c].pc = "armed"  BY <1>1, OnlyArmed
  <2>2. \A d \in Command : call[d].pc # "prompt"
    BY <2>1 DEF DeskInv, GuardInv, Guarded
  <2>3. call[c].saw = 0 \/ call[c].saw + Cooldown <= app.now
    BY <2>1 DEF DeskInv, CallInv, Sound, Passed
  <2>4. app.ended = app.last /\ app.now \in Nat /\ app.last \in Nat  BY DEF DeskInv, AppInv
  <2> QED  BY <2>2, <2>3, <2>4 DEF DesktopAssumption
<1> QED  BY <1>1 DEF PromptIsAlone

\* Of any number of commands one prompt at most is up, and none is raised within
\* the cooldown of one the command knew of (mod.rs: PrivilegedOpGuard::acquire
\* reads the cooldown before it takes the flag).
THEOREM PromptsAreAlone ==
  ASSUME DesktopAssumption
  PROVE  Spec => [][PromptIsAlone]_vars
<1>1. Init => DeskInv  BY InitDesk
<1>2. DeskInv /\ [Next]_vars => DeskInv'  BY NextDesk
<1>3. DeskInv /\ [Next]_vars => [PromptIsAlone]_vars  BY PromptAlone
<1> QED  BY <1>1, <1>2, <1>3, PTL DEF Spec

------------------------------------------------------------------------------
\* What a scan has found: of each plugin it was asked for, or nothing.
Rows == {NoRows} \cup UNION {[selected -> Recorded \cup {"skipped"}] : selected \in Selections}

Session == [at : Nat, status : {"running", "completed", "failed"}, rows : Rows, truth : Rows]

Book == [sessions : Seq(Session), user : Database, system : Database, off : SUBSET Plugin,
         verbs : {b.verbs : b \in Books}, lost : SUBSET Nat, faults : Nat]

\* A completed session holds all it found or nothing of it, and looked at something.
Faithful(s) ==
    s.status = "completed" =>
      /\ s.rows = NoRows \/ s.rows = s.truth
      /\ \E p \in DOMAIN s.truth : s.truth[p] # "skipped"

BookOk(b) ==
    /\ b \in Book
    /\ b.system.reach = "absent" => b.system.rows = {}
    /\ \A i \in DOMAIN b.sessions : Faithful(b.sessions[i])

\* A command is in a session while its scan is under way, and while it is not in none.
Scans(r) == r.pc = "scanning" \/ (r.kind = "deep" /\ r.pc \in {"armed", "prompt"})

InSession(r, sessions) ==
    /\ r.session \in 0 .. Len(sessions)
    /\ r.session # 0 <=> Scans(r)
    /\ r.kind \in {"scan", "deep"} => r.of \in Selections

\* A session is one command's, and one left running is some command's or lost.
FiledInv ==
    /\ \A c \in Command : InSession(call[c], book.sessions)
    /\ \A c, d \in Command : call[c].session = call[d].session => c = d \/ call[c].session = 0
    /\ \A i \in DOMAIN book.sessions :
         book.sessions[i].status = "running" =>
           i \in book.lost \/ \E c \in Command : call[c].session = i

WordInv == DeskInv /\ BookOk(book) /\ FiledInv

\* The end of a scan touches its session alone, and settles it.
Settles(b, e, i) ==
    /\ Len(e.sessions) = Len(b.sessions)
    /\ b.lost \subseteq e.lost
    /\ \A j \in DOMAIN b.sessions : j # i => e.sessions[j] = b.sessions[j]
    /\ e.sessions[i].status = "running" => i \in e.lost

LEMMA StartedOk ==
  ASSUME NEW b, BookOk(b), NEW now \in Nat
  PROVE  LET e == StartSession(b, now) IN
         /\ BookOk(e) /\ e.lost = b.lost
         /\ Len(e.sessions) = Len(b.sessions) + 1
         /\ \A i \in DOMAIN b.sessions : e.sessions[i] = b.sessions[i]
<1> DEFINE new == [at |-> now, status |-> "running", rows |-> NoRows, truth |-> NoRows]
           s   == Append(b.sessions, new)
           e   == [b EXCEPT !.sessions = s]
<1>1. b \in Book /\ b.sessions \in Seq(Session)  BY DEF BookOk, Book
<1>2. new \in Session  BY DEF Session, Rows
<1>3. /\ s \in Seq(Session) /\ Len(s) = Len(b.sessions) + 1
      /\ \A i \in 1 .. Len(b.sessions) : s[i] = b.sessions[i]
      /\ s[Len(b.sessions) + 1] = new
  <2> HIDE DEF new
  <2> QED  BY <1>1, <1>2
<1>4. DOMAIN b.sessions = 1 .. Len(b.sessions) /\ DOMAIN s = 1 .. Len(s) /\ Len(b.sessions) \in Nat
  <2> HIDE DEF s
  <2> QED  BY <1>1, <1>3
<1>5. Faithful(new)  BY DEF Faithful
<1>6. e = StartSession(b, now)  BY DEF StartSession
<1>7. e.sessions = s /\ e.lost = b.lost /\ e.system = b.system /\ e \in Book
  <2> HIDE DEF s
  <2> QED  BY <1>1, <1>3 DEF Book
<1>8. \A i \in DOMAIN s : Faithful(s[i])
  <2> SUFFICES ASSUME NEW i \in DOMAIN s PROVE Faithful(s[i])  OBVIOUS
  <2> HIDE DEF s, new
  <2>1. i \in DOMAIN b.sessions \/ i = Len(b.sessions) + 1  BY <1>3, <1>4
  <2> QED  BY <2>1, <1>3, <1>4, <1>5 DEF BookOk
<1> HIDE DEF s, new, e
<1> QED  BY <1>3, <1>4, <1>6, <1>7, <1>8 DEF BookOk

\* The end of a session: written, or lost.
LEMMA CompletedOk ==
  ASSUME NEW b, BookOk(b), NEW i \in DOMAIN b.sessions, NEW status \in {"completed", "failed"},
         NEW fails \in BOOLEAN, status = "completed" => Faithful([b.sessions[i] EXCEPT !.status = "completed"])
  PROVE  LET e == CompleteSession(b, i, status, fails) IN BookOk(e) /\ Settles(b, e, i)
<1>1. b \in Book /\ b.sessions \in Seq(Session)  BY DEF BookOk, Book
<1>2. DOMAIN b.sessions = 1 .. Len(b.sessions) /\ Len(b.sessions) \in Nat  BY <1>1
<1>3. CASE fails
  <2> DEFINE e == [b EXCEPT !.lost = @ \cup {i}, !.faults = @ + 1]
  <2>1. e = CompleteSession(b, i, status, fails)  BY <1>3 DEF CompleteSession
  <2>2. b.faults + 1 \in Nat /\ b.lost \cup {i} \in SUBSET Nat  BY <1>1, <1>2 DEF Book
  <2>3. e \in Book  BY <1>1, <2>2 DEF Book
  <2>4. e.sessions = b.sessions /\ e.lost = b.lost \cup {i} /\ e.system = b.system
    BY <1>1 DEF Book
  <2> HIDE DEF e
  <2> QED  BY <2>1, <2>3, <2>4 DEF BookOk, Settles
<1>4. CASE ~fails
  <2> DEFINE t == [b.sessions[i] EXCEPT !.status = status]
             s == [b.sessions EXCEPT ![i] = t]
             e == [b EXCEPT !.sessions = s]
  <2>1. e = CompleteSession(b, i, status, fails)  BY <1>4 DEF CompleteSession
  <2>2. b.sessions[i] \in Session  BY <1>1
  <2>3. t \in Session /\ t.status = status  BY <2>2 DEF Session
  <2>4. /\ s \in Seq(Session) /\ Len(s) = Len(b.sessions) /\ DOMAIN s = DOMAIN b.sessions
        /\ s[i] = t /\ \A j \in DOMAIN b.sessions : j # i => s[j] = b.sessions[j]
    <3> HIDE DEF t
    <3> QED  BY <1>1, <1>2, <2>3
  <2>5. e \in Book /\ e.sessions = s /\ e.lost = b.lost /\ e.system = b.system
    <3> HIDE DEF s
    <3> QED  BY <1>1, <2>4 DEF Book
  <2>6. Faithful(t)  BY <2>3 DEF Faithful
  <2> HIDE DEF t, s, e
  <2> QED  BY <2>1, <2>3, <2>4, <2>5, <2>6 DEF BookOk, Settles
<1> QED  BY <1>3, <1>4

\* What a scan brings is of the plugins asked for, and one of them at least ran.
LEMMA ResultsOk ==
  ASSUME NEW selected \in Selections, NEW b, NEW results \in Results(selected, b)
  PROVE  results \in Rows /\ \E p \in DOMAIN results : results[p] # "skipped"
<1>1. ~(selected \subseteq b.off)  BY DEF Results, Refused
<1>2. /\ results \in [selected -> Recorded \cup {"skipped"}]
      /\ \A p \in selected : (results[p] = "skipped") <=> p \in b.off
  BY <1>1 DEF Results, Refused
<1>3. results \in Rows  BY <1>2 DEF Rows
<1>4. PICK p \in selected : p \notin b.off  BY <1>1
<1> QED  BY <1>2, <1>3, <1>4

\* What a scan found is stored, or is not; nothing else is touched.
LEMMA StoredOk ==
  ASSUME NEW b, BookOk(b), NEW i \in DOMAIN b.sessions, NEW results \in Rows,
         \E p \in DOMAIN results : results[p] # "skipped", NEW fails \in BOOLEAN
  PROVE  LET e == StoreResults(b, i, results, fails) IN
         /\ BookOk(e) /\ e.lost = b.lost
         /\ Len(e.sessions) = Len(b.sessions)
         /\ \A j \in DOMAIN b.sessions : j # i => e.sessions[j] = b.sessions[j]
         /\ e.sessions[i] \in Session /\ e.sessions[i].truth = results
         /\ e.sessions[i].rows = NoRows \/ e.sessions[i].rows = results
<1>1. b \in Book /\ b.sessions \in Seq(Session)  BY DEF BookOk, Book
<1>2. DOMAIN b.sessions = 1 .. Len(b.sessions) /\ Len(b.sessions) \in Nat  BY <1>1
<1> DEFINE rows == IF fails THEN NoRows ELSE results
           t == [[b.sessions[i] EXCEPT !.rows = rows] EXCEPT !.truth = results]
           s == [b.sessions EXCEPT ![i] = t]
           n == b.faults + IF fails THEN 1 ELSE 0
           e == [b EXCEPT !.sessions = s, !.faults = n]
<1>3. rows \in Rows /\ n \in Nat  BY <1>1 DEF Rows, Book
<1>4. b.sessions[i] \in Session  BY <1>1
<1>5. t \in Session /\ t.rows = rows /\ t.truth = results
  <2> HIDE DEF rows
  <2> QED  BY <1>3, <1>4 DEF Session
<1>6. /\ s \in Seq(Session) /\ Len(s) = Len(b.sessions) /\ DOMAIN s = DOMAIN b.sessions
      /\ s[i] = t /\ \A j \in DOMAIN b.sessions : j # i => s[j] = b.sessions[j]
  <2> HIDE DEF t
  <2> QED  BY <1>1, <1>2, <1>5
<1>7. e \in Book
  <2> HIDE DEF s, n
  <2> QED  BY <1>1, <1>3, <1>6 DEF Book
<1>8. e.sessions = s /\ e.lost = b.lost /\ e.system = b.system
  <2> HIDE DEF s, n
  <2> QED  BY <1>1 DEF Book
<1>9. e = StoreResults(b, i, results, fails)
  BY DEF StoreResults
<1>10. Faithful(t)  BY <1>5 DEF Faithful
<1> HIDE DEF t, s, e
<1> QED  BY <1>5, <1>6, <1>7, <1>8, <1>9, <1>10 DEF BookOk

\* A scan that came to its end is filed whole, or as one that was lost.
LEMMA PersistedOk ==
  ASSUME NEW b, BookOk(b), NEW i \in DOMAIN b.sessions, NEW selected \in Selections,
         NEW results \in Results(selected, b), NEW first \in BOOLEAN, NEW then \in BOOLEAN
  PROVE  LET e == PersistScanResults(b, i, results, first, then) IN BookOk(e) /\ Settles(b, e, i)
<1> DEFINE m == StoreResults(b, i, results, first)
           e == CompleteSession(m, i, "completed", then)
<1>1. results \in Rows /\ \E p \in DOMAIN results : results[p] # "skipped"  BY ResultsOk
<1>2. /\ BookOk(m) /\ m.lost = b.lost
      /\ Len(m.sessions) = Len(b.sessions)
      /\ \A j \in DOMAIN b.sessions : j # i => m.sessions[j] = b.sessions[j]
      /\ m.sessions[i] \in Session /\ m.sessions[i].truth = results
      /\ m.sessions[i].rows = NoRows \/ m.sessions[i].rows = results
  BY <1>1, StoredOk
<1>3. e = PersistScanResults(b, i, results, first, then)  BY DEF PersistScanResults
<1>4. DOMAIN m.sessions = DOMAIN b.sessions
  <2>1. b.sessions \in Seq(Session) /\ m.sessions \in Seq(Session)  BY <1>2 DEF BookOk, Book
  <2> HIDE DEF m
  <2> QED  BY <2>1, <1>2
<1> HIDE DEF m
<1>5. Faithful([m.sessions[i] EXCEPT !.status = "completed"])
  BY <1>1, <1>2 DEF Faithful, Session
<1>6. BookOk(e) /\ Settles(m, e, i)
  <2>1. i \in DOMAIN m.sessions /\ "completed" \in {"completed", "failed"}  BY <1>4
  <2> QED  BY <2>1, <1>2, <1>5, CompletedOk
<1> HIDE DEF e
<1> QED  BY <1>2, <1>3, <1>4, <1>6 DEF Settles

\* A scan that was given up is filed as one that failed, or lost.
LEMMA FailedOk ==
  ASSUME NEW b, BookOk(b), NEW i \in DOMAIN b.sessions, NEW fails \in BOOLEAN
  PROVE  LET e == FailSession(b, i, fails) IN BookOk(e) /\ Settles(b, e, i)
<1>1. "failed" \in {"completed", "failed"} /\ "failed" # "completed"  OBVIOUS
<1>2. LET e == CompleteSession(b, i, "failed", fails) IN BookOk(e) /\ Settles(b, e, i)
  BY <1>1, CompletedOk
<1> QED  BY <1>2 DEF FailSession

\* A command that stays in its session, or in none, over a book whose sessions stay.
LEMMA StaysFiled ==
  ASSUME WordInv, NEW c \in Command, NEW r, call' = [call EXCEPT ![c] = r],
         book'.sessions = book.sessions, book'.lost = book.lost,
         InSession(r, book.sessions), r.session = call[c].session
  PROVE  FiledInv'
<1>1. /\ call'[c] = r
      /\ \A d \in Command : d # c => call'[d] = call[d]
  BY Moves DEF WordInv, DeskInv
<1>2. \A d \in Command : call'[d].session = call[d].session  BY <1>1
<1>3. \A d \in Command : InSession(call'[d], book'.sessions)  BY <1>1 DEF WordInv, FiledInv
<1> QED  BY <1>2, <1>3 DEF WordInv, FiledInv

\* A command that has begun a session of its own, the newest.
LEMMA Files ==
  ASSUME WordInv, NEW c \in Command, NEW r, call' = [call EXCEPT ![c] = r],
         book' = StartSession(book, app.now), call[c].session = 0,
         r.session = Len(book.sessions) + 1, Scans(r), r.of \in Selections
  PROVE  BookOk(book') /\ FiledInv'
<1>1. /\ call'[c] = r
      /\ \A d \in Command : d # c => call'[d] = call[d]
  BY Moves DEF WordInv, DeskInv
<1>2. /\ BookOk(book') /\ book'.lost = book.lost
      /\ Len(book'.sessions) = Len(book.sessions) + 1
      /\ \A i \in DOMAIN book.sessions : book'.sessions[i] = book.sessions[i]
  <2>1. app.now \in Nat /\ BookOk(book)  BY DEF WordInv, DeskInv, AppInv
  <2> QED  BY <2>1, StartedOk
<1>3. book.sessions \in Seq(Session) /\ book'.sessions \in Seq(Session)
  BY <1>2 DEF BookOk, Book, WordInv
<1>4. /\ Len(book.sessions) \in Nat
      /\ DOMAIN book.sessions = 1 .. Len(book.sessions)
      /\ DOMAIN book'.sessions = 1 .. Len(book'.sessions)
  BY <1>3
<1>5. \A d \in Command : d # c => call[d].session \in 0 .. Len(book.sessions)
  BY DEF WordInv, FiledInv, InSession
<1>6. \A d \in Command : InSession(call'[d], book'.sessions)
  <2> SUFFICES ASSUME NEW d \in Command PROVE InSession(call'[d], book'.sessions)  OBVIOUS
  <2>1. CASE d = c  BY <2>1, <1>1, <1>2, <1>4 DEF InSession
  <2>2. CASE d # c  BY <2>2, <1>1, <1>2, <1>4 DEF InSession, WordInv, FiledInv
  <2> QED  BY <2>1, <2>2
<1>7. \A d, e \in Command :
        call'[d].session = call'[e].session => d = e \/ call'[d].session = 0
  BY <1>1, <1>4, <1>5 DEF WordInv, FiledInv
<1>8. \A i \in DOMAIN book'.sessions :
        book'.sessions[i].status = "running" =>
          i \in book'.lost \/ \E d \in Command : call'[d].session = i
  <2> SUFFICES ASSUME NEW i \in DOMAIN book'.sessions, book'.sessions[i].status = "running"
               PROVE  i \in book'.lost \/ \E d \in Command : call'[d].session = i
    OBVIOUS
  <2>1. CASE i = Len(book.sessions) + 1  BY <2>1, <1>1
  <2>2. CASE i # Len(book.sessions) + 1
    <3>1. i \in DOMAIN book.sessions /\ i # 0  BY <2>2, <1>2, <1>4
    <3>2. i \in book.lost \/ \E d \in Command : call[d].session = i
      BY <3>1, <1>2 DEF WordInv, FiledInv
    <3> QED  BY <3>1, <3>2, <1>1, <1>2
  <2> QED  BY <2>1, <2>2
<1> QED  BY <1>2, <1>6, <1>7, <1>8 DEF FiledInv

\* A command that leaves the session it has settled.
LEMMA LeavesSettled ==
  ASSUME WordInv, NEW c \in Command, NEW said, Answer(c, said),
         call[c].session # 0, BookOk(book'), Settles(book, book', call[c].session)
  PROVE  FiledInv'
<1> DEFINE i == call[c].session
<1>1. /\ call'[c] = Idle(said)
      /\ \A d \in Command : d # c => call'[d] = call[d]
  BY Moves DEF WordInv, DeskInv, Answer
<1>2. book.sessions \in Seq(Session) /\ book'.sessions \in Seq(Session)
  BY DEF BookOk, Book, WordInv
<1>3. /\ Len(book.sessions) \in Nat
      /\ DOMAIN book.sessions = 1 .. Len(book.sessions)
      /\ DOMAIN book'.sessions = DOMAIN book.sessions
  BY <1>2 DEF Settles
<1>4. /\ Idle(said).session = 0 /\ ~Scans(Idle(said)) /\ Idle(said).kind = "none"
  BY DEF Idle, Scans
<1>5. \A d \in Command : InSession(call'[d], book'.sessions)
  <2> SUFFICES ASSUME NEW d \in Command PROVE InSession(call'[d], book'.sessions)  OBVIOUS
  <2>1. Len(book'.sessions) = Len(book.sessions)  BY DEF Settles
  <2>2. CASE d = c  BY <2>1, <2>2, <1>1, <1>3, <1>4 DEF InSession
  <2>3. CASE d # c  BY <2>1, <2>3, <1>1 DEF InSession, WordInv, FiledInv
  <2> QED  BY <2>2, <2>3
<1>6. \A d, e \in Command :
        call'[d].session = call'[e].session => d = e \/ call'[d].session = 0
  BY <1>1, <1>4 DEF WordInv, FiledInv
<1>7. \A j \in DOMAIN book'.sessions :
        book'.sessions[j].status = "running" =>
          j \in book'.lost \/ \E d \in Command : call'[d].session = j
  <2> SUFFICES ASSUME NEW j \in DOMAIN book'.sessions, book'.sessions[j].status = "running"
               PROVE  j \in book'.lost \/ \E d \in Command : call'[d].session = j
    OBVIOUS
  <2>1. CASE j = i  BY <2>1 DEF Settles
  <2>2. CASE j # i
    <3>1. book'.sessions[j] = book.sessions[j]  BY <2>2, <1>3 DEF Settles
    <3>2. j \in book.lost \/ \E d \in Command : call[d].session = j
      BY <3>1, <1>3 DEF WordInv, FiledInv
    <3> QED  BY <2>2, <3>2, <1>1 DEF Settles
  <2> QED  BY <2>1, <2>2
<1> QED  BY <1>5, <1>6, <1>7 DEF FiledInv

\* A command that answers and was in no session leaves the sessions as they are.
LEMMA AnswersUnfiled ==
  ASSUME WordInv, NEW c \in Command, NEW said, Answer(c, said), ~Scans(call[c]),
         book'.sessions = book.sessions, book'.lost = book.lost
  PROVE  FiledInv'
<1>1. call' = [call EXCEPT ![c] = Idle(said)]  BY DEF Answer
<1>2. call[c].session = 0  BY DEF WordInv, FiledInv, InSession
<1>3. Idle(said).session = 0 /\ InSession(Idle(said), book.sessions)
  <2>1. Len(book.sessions) \in Nat  BY DEF WordInv, BookOk, Book
  <2> QED  BY <2>1 DEF Idle, InSession, Scans
<1> QED  BY <1>1, <1>2, <1>3, StaysFiled

\* One that moves on where it is in a session as before.
LEMMA MovesOn ==
  ASSUME WordInv, NEW c \in Command, NEW pc, To(c, pc),
         pc # "scanning" /\ call[c].pc # "scanning",
         call[c].kind = "deep" => (pc \in {"armed", "prompt"} <=> call[c].pc \in {"armed", "prompt"}),
         book'.sessions = book.sessions, book'.lost = book.lost
  PROVE  FiledInv'
<1>1. PICK r : /\ call' = [call EXCEPT ![c] = r]
               /\ r.pc = pc /\ r.kind = call[c].kind
               /\ r.session = call[c].session /\ r.of = call[c].of
  BY Advance DEF WordInv
<1>2. Scans(r) <=> Scans(call[c])  BY <1>1 DEF Scans
<1>3. InSession(r, book.sessions)  BY <1>1, <1>2 DEF WordInv, FiledInv, InSession
<1> QED  BY <1>1, <1>3, StaysFiled

\* A failure is counted, and changes nothing else.
LEMMA FaultOk ==
  ASSUME NEW b, BookOk(b)
  PROVE  LET e == [b EXCEPT !.faults = @ + 1] IN
         BookOk(e) /\ e.sessions = b.sessions /\ e.lost = b.lost
<1> DEFINE e == [b EXCEPT !.faults = @ + 1]
<1>1. b \in Book /\ b.faults + 1 \in Nat  BY DEF BookOk, Book
<1>2. e \in Book /\ e.sessions = b.sessions /\ e.lost = b.lost /\ e.system = b.system
  BY <1>1 DEF Book
<1>3. BookOk(e)
  <2> HIDE DEF e
  <2> QED  BY <1>2 DEF BookOk
<1> QED  BY <1>2, <1>3

\* Rows are taken from a database, and what it is stays.
LEMMA WithoutOk ==
  ASSUME NEW b, BookOk(b), NEW id
  PROVE  /\ LET e == [b EXCEPT !.user.rows = Without(@, id)] IN
            BookOk(e) /\ e.sessions = b.sessions /\ e.lost = b.lost
         /\ LET e == [b EXCEPT !.system.rows = Without(@, id)] IN
            BookOk(e) /\ e.sessions = b.sessions /\ e.lost = b.lost
<1>1. b \in Book  BY DEF BookOk
<1> DEFINE thin(d) == [d EXCEPT !.rows = Without(@, id)]
<1>2. ASSUME NEW d \in Database
      PROVE  thin(d) \in Database /\ thin(d).reach = d.reach /\ thin(d).rows \subseteq d.rows
  BY DEF Database, Without
<1>3. b.user \in Database /\ b.system \in Database  BY <1>1 DEF Book
<1> DEFINE e == [b EXCEPT !.user.rows = Without(@, id)]
           f == [b EXCEPT !.system.rows = Without(@, id)]
<1>4. e \in Book /\ e.sessions = b.sessions /\ e.lost = b.lost /\ e.system = b.system
  <2>1. e = [b EXCEPT !.user = thin(b.user)]  OBVIOUS
  <2> DEFINE u == thin(b.user)
  <2>2. u \in Database  BY <1>2, <1>3
  <2> HIDE DEF u, thin
  <2> QED  BY <1>1, <2>1, <2>2 DEF Book, u
<1>5. f \in Book /\ f.sessions = b.sessions /\ f.lost = b.lost /\ f.system = thin(b.system)
  <2>1. f = [b EXCEPT !.system = thin(b.system)]  OBVIOUS
  <2>2. thin(b.system) \in Database  BY <1>2, <1>3
  <2> QED  BY <1>1, <2>1, <2>2 DEF Book
<1>6. BookOk(e)
  <2> HIDE DEF e
  <2> QED  BY <1>4 DEF BookOk
<1>7. BookOk(f)
  <2>1. f.system.reach = b.system.reach /\ f.system.rows \subseteq b.system.rows
    BY <1>2, <1>3, <1>5
  <2> HIDE DEF f
  <2> QED  BY <1>5, <2>1 DEF BookOk
<1> QED  BY <1>4, <1>5, <1>6, <1>7

\* A child running as root adds a row to the system's database, which is then there.
LEMMA CapturedOk ==
  ASSUME NEW b, BookOk(b), NEW e \in Captured(b)
  PROVE  BookOk(e) /\ e.sessions = b.sessions /\ e.lost = b.lost
<1>1. PICK id \in Id, reach \in IF b.system.reach = "absent" THEN {"read", "unreadable"}
                                ELSE {b.system.reach} :
        e = [b EXCEPT !.system = [reach |-> reach,
                                  rows |-> b.system.rows \cup {[id |-> id, here |-> TRUE]}]]
  BY DEF Captured
<1> DEFINE s == [reach |-> reach, rows |-> b.system.rows \cup {[id |-> id, here |-> TRUE]}]
<1>2. b \in Book /\ b.system \in Database  BY DEF BookOk, Book
<1>3. reach \in {"read", "unreadable"}  BY <1>2 DEF Database
<1>4. s \in Database /\ s.reach # "absent"
  <2>1. [id |-> id, here |-> TRUE] \in [id : Id, here : BOOLEAN]  OBVIOUS
  <2>2. b.system.rows \cup {[id |-> id, here |-> TRUE]} \in SUBSET [id : Id, here : BOOLEAN]
    BY <1>2, <2>1 DEF Database
  <2> QED  BY <1>3, <2>2 DEF Database
<1>5. e = [b EXCEPT !.system = s]  BY <1>1
<1> HIDE DEF s
<1>6. e \in Book /\ e.sessions = b.sessions /\ e.lost = b.lost /\ e.system = s
  BY <1>2, <1>4, <1>5 DEF Book
<1> QED  BY <1>4, <1>6 DEF BookOk

\* What a step of one command makes of the book.
LEMMA AcquireWord ==
  ASSUME WordInv, NEW c \in Command, NEW kind \in Privileged, NEW of, Acquire(c, kind, of),
         kind = "deep" => of \in Selections
  PROVE  BookOk(book') /\ FiledInv'
<1>1. book' = book /\ ~Scans(call[c])  BY DEF Acquire, Asks, Idle, Scans
<1>2. BookOk(book')  BY <1>1 DEF WordInv
<1>3. CASE app.last > 0 /\ app.now - app.last < Cooldown
  <2>1. Answer(c, <<"cooldown">>)  BY <1>3 DEF Acquire
  <2> QED  BY <1>1, <1>2, <2>1, AnswersUnfiled
<1>4. CASE ~(app.last > 0 /\ app.now - app.last < Cooldown)
  <2> DEFINE r == Begun(kind, of, "paced", app.last, 0)
  <2>1. call' = [call EXCEPT ![c] = r]  BY <1>4 DEF Acquire
  <2>2. call[c].session = 0  BY DEF Acquire, Asks, Idle
  <2>3. r.session = 0 /\ InSession(r, book.sessions)
    <3>1. Len(book.sessions) \in Nat  BY DEF WordInv, BookOk, Book
    <3> QED  BY <3>1 DEF Begun, InSession, Scans, Privileged
  <2> HIDE DEF r
  <2> QED  BY <1>1, <1>2, <2>1, <2>2, <2>3, StaysFiled
<1> QED  BY <1>3, <1>4

LEMMA SwapWord ==
  ASSUME WordInv, NEW c \in Command, Swap(c)
  PROVE  BookOk(book') /\ FiledInv'
<1>1. book' = book /\ call[c].pc = "paced" /\ ~Scans(call[c])  BY DEF Swap, Scans
<1>2. BookOk(book')  BY <1>1 DEF WordInv
<1>3. Answer(c, Nothing) \/ To(c, "held")  BY DEF Swap
<1> QED  BY <1>1, <1>2, <1>3, AnswersUnfiled, MovesOn

LEMMA ResolveWord ==
  ASSUME WordInv, NEW c \in Command, call[c].pc = "held", call[c].kind = "delete", ResolveDelete(c)
  PROVE  BookOk(book') /\ FiledInv'
<1>1. ~Scans(call[c]) /\ BookOk(book)  BY DEF Scans, WordInv
<1>2. BookOk(book') /\ book'.sessions = book.sessions /\ book'.lost = book.lost
  <2>1. \/ book' = [book EXCEPT !.user.rows = Without(@, call[c].of)]
        \/ book' = [book EXCEPT !.faults = @ + 1]
        \/ book' = book
    BY DEF ResolveDelete
  <2>2. ASSUME book' = [book EXCEPT !.user.rows = Without(@, call[c].of)]
        PROVE  BookOk(book') /\ book'.sessions = book.sessions /\ book'.lost = book.lost
    BY <1>1, <2>2, WithoutOk, Zenon
  <2>3. ASSUME book' = [book EXCEPT !.faults = @ + 1]
        PROVE  BookOk(book') /\ book'.sessions = book.sessions /\ book'.lost = book.lost
    BY <1>1, <2>3, FaultOk, Zenon
  <2> QED  BY <1>1, <2>1, <2>2, <2>3
<1>3. (\E said : Answer(c, said)) \/ To(c, "armed")  BY DEF ResolveDelete, Leave
<1> QED  BY <1>1, <1>2, <1>3, AnswersUnfiled, MovesOn

LEMMA PrepareWord ==
  ASSUME WordInv, NEW c \in Command, Prepare(c)
  PROVE  BookOk(book') /\ FiledInv'
<1>1. call[c].pc = "held" /\ ~Scans(call[c]) /\ call[c].session = 0
  BY DEF Prepare, Scans, WordInv, FiledInv, InSession
<1>2. CASE call[c].kind = "delete"
  <2>1. ResolveDelete(c)  BY <1>2 DEF Prepare
  <2> QED  BY <1>1, <1>2, <2>1, ResolveWord
<1>3. CASE call[c].kind = "deep"
  <2> DEFINE r == Begun("deep", call[c].of, "armed", call[c].saw, Len(book.sessions) + 1)
  <2>1. call' = [call EXCEPT ![c] = r] /\ book' = StartSession(book, app.now)
    BY <1>3 DEF Prepare
  <2>2. call[c].of \in Selections  BY <1>3 DEF WordInv, FiledInv, InSession
  <2>3. r.session = Len(book.sessions) + 1 /\ Scans(r) /\ r.of \in Selections
    BY <2>2 DEF Begun, Scans
  <2> HIDE DEF r
  <2> QED  BY <1>1, <2>1, <2>3, Files
<1>4. CASE call[c].kind \notin {"delete", "deep"}
  <2>1. To(c, "armed") /\ book' = book  BY <1>4 DEF Prepare
  <2>2. BookOk(book')  BY <2>1 DEF WordInv
  <2> QED  BY <1>1, <1>4, <2>1, <2>2, MovesOn
<1> QED  BY <1>2, <1>3, <1>4

LEMMA PromptWord ==
  ASSUME WordInv, NEW c \in Command, Prompt(c)
  PROVE  BookOk(book') /\ FiledInv'
<1>1. call[c].pc = "armed" /\ To(c, "prompt") /\ book' = book  BY DEF Prompt
<1>2. BookOk(book')  BY <1>1 DEF WordInv
<1> QED  BY <1>1, <1>2, MovesOn

LEMMA BeginScanWord ==
  ASSUME WordInv, NEW c \in Command, BeginScan(c)
  PROVE  BookOk(book') /\ FiledInv'
<1>1. PICK selected \in Selections :
        call' = [call EXCEPT ![c] = Begun("scan", selected, "scanning", 0, Len(book.sessions) + 1)]
  BY DEF BeginScan
<1> DEFINE r == Begun("scan", selected, "scanning", 0, Len(book.sessions) + 1)
<1>2. book' = StartSession(book, app.now) /\ call[c].session = 0
  BY DEF BeginScan, Asks, Idle
<1>3. r.session = Len(book.sessions) + 1 /\ Scans(r) /\ r.of \in Selections
  BY DEF Begun, Scans
<1> HIDE DEF r
<1> QED  BY <1>1, <1>2, <1>3, Files DEF r

\* A command in a session is in one of the book's.
LEMMA InBook ==
  ASSUME WordInv, NEW c \in Command, Scans(call[c])
  PROVE  /\ call[c].session # 0 /\ call[c].session \in DOMAIN book.sessions
         /\ call[c].of \in Selections
<1>1. book.sessions \in Seq(Session)  BY DEF WordInv, BookOk, Book
<1>2. InSession(call[c], book.sessions)  BY DEF WordInv, FiledInv
<1>3. call[c].kind \in {"scan", "deep"}
  BY DEF WordInv, DeskInv, CallInv, Sound, Scans
<1> QED  BY <1>1, <1>2, <1>3 DEF InSession

LEMMA EndScanWord ==
  ASSUME WordInv, NEW c \in Command, NEW said, Scans(call[c]), Answer(c, said),
         \/ \E results \in Results(call[c].of, book) : EndScan(c, results)
         \/ \E fails \in MayFail(book) : FailSessionOnErr(c, fails)
  PROVE  BookOk(book') /\ FiledInv'
<1> DEFINE i == call[c].session
<1>1. i # 0 /\ i \in DOMAIN book.sessions /\ call[c].of \in Selections /\ BookOk(book)
  BY InBook DEF WordInv
<1>2. BookOk(book') /\ Settles(book, book', i)
  <2>1. ASSUME NEW results \in Results(call[c].of, book), EndScan(c, results)
        PROVE  BookOk(book') /\ Settles(book, book', i)
    <3>1. PICK first \in BOOLEAN, then \in BOOLEAN :
            book' = PersistScanResults(book, i, results, first, then)
      BY <2>1, Zenon DEF EndScan, MayFail
    <3> QED  BY <1>1, <3>1, PersistedOk
  <2>2. ASSUME NEW fails \in MayFail(book), FailSessionOnErr(c, fails)
        PROVE  BookOk(book') /\ Settles(book, book', i)
    <3>1. book' = FailSession(book, i, fails)  BY <1>1, <2>2 DEF FailSessionOnErr
    <3>2. fails \in BOOLEAN  BY DEF MayFail
    <3> QED  BY <1>1, <3>1, <3>2, FailedOk
  <2> QED  BY <2>1, <2>2
<1> QED  BY <1>1, <1>2, LeavesSettled

LEMMA ScannedWord ==
  ASSUME WordInv, NEW c \in Command, Scanned(c)
  PROVE  BookOk(book') /\ FiledInv'
<1>1. Scans(call[c])  BY DEF Scanned, Scans
<1>2. Answer(c, Nothing)  BY DEF Scanned, Leave
<1>3. \E results \in Results(call[c].of, book) : EndScan(c, results)  BY DEF Scanned
<1> QED  BY <1>1, <1>2, <1>3, EndScanWord

LEMMA AbortWord ==
  ASSUME WordInv, NEW c \in Command, Abort(c)
  PROVE  BookOk(book') /\ FiledInv'
<1>1. Answer(c, Nothing)  BY DEF Abort, Leave
<1>2. PICK fails \in MayFail(book) : FailSessionOnErr(c, fails)  BY DEF Abort
<1>3. CASE Scans(call[c])  BY <1>1, <1>2, <1>3, EndScanWord
<1>4. CASE ~Scans(call[c])
  <2>1. call[c].session = 0  BY <1>4 DEF WordInv, FiledInv, InSession
  <2>2. book' = book  BY <1>2, <2>1 DEF FailSessionOnErr
  <2>3. BookOk(book')  BY <2>2 DEF WordInv
  <2> QED  BY <1>1, <1>4, <2>2, <2>3, AnswersUnfiled
<1> QED  BY <1>3, <1>4

LEMMA ChildEndsWord ==
  ASSUME WordInv, NEW c \in Command, ChildEnds(c)
  PROVE  BookOk(book') /\ FiledInv'
<1>1. Answer(c, Nothing) /\ call[c].pc = "prompt"  BY DEF ChildEnds
<1>2. CASE call[c].kind = "deep"
  <2>1. Scans(call[c])  BY <1>1, <1>2 DEF Scans
  <2>2. \/ \E results \in Results(call[c].of, book) : EndScan(c, results)
        \/ \E fails \in MayFail(book) : FailSessionOnErr(c, fails)
    BY <1>2 DEF ChildEnds
  <2> QED  BY <1>1, <2>1, <2>2, EndScanWord
<1>3. CASE call[c].kind # "deep"
  <2>1. ~Scans(call[c]) /\ BookOk(book)  BY <1>1, <1>3 DEF Scans, WordInv
  <2>2. \/ book' = book \/ book' \in Captured(book)
        \/ book' = [book EXCEPT !.system.rows = Without(@, call[c].of)]
    BY <1>3 DEF ChildEnds, Applied, Previewed, RolledBack, Created, Deleted
  <2>3. ASSUME book' = [book EXCEPT !.system.rows = Without(@, call[c].of)]
        PROVE  BookOk(book') /\ book'.sessions = book.sessions /\ book'.lost = book.lost
    BY <2>1, <2>3, WithoutOk, Zenon
  <2>4. BookOk(book') /\ book'.sessions = book.sessions /\ book'.lost = book.lost
    BY <2>1, <2>2, <2>3, CapturedOk
  <2> QED  BY <1>1, <2>1, <2>4, AnswersUnfiled
<1> QED  BY <1>2, <1>3

LEMMA RefusesWord ==
  ASSUME WordInv, NEW c \in Command, Refuses(c)
  PROVE  BookOk(book') /\ FiledInv'
<1>1. Answer(c, Nothing) /\ book' = book /\ ~Scans(call[c])  BY DEF Refuses, Leave, Scans
<1>2. BookOk(book')  BY <1>1 DEF WordInv
<1> QED  BY <1>1, <1>2, AnswersUnfiled

LEMMA AnswersWord ==
  ASSUME WordInv, NEW c \in Command, GetCheckpoints(c) \/ GenerateReport(c) \/ Show(c)
  PROVE  BookOk(book') /\ FiledInv'
<1>1. PICK said : Answer(c, said)  BY DEF GetCheckpoints, GenerateReport, Show
<1>2. ~Scans(call[c]) /\ BookOk(book)
  <2>1. call[c].pc = "idle"  BY DEF GetCheckpoints, GenerateReport, Show, Asks, Idle
  <2> QED  BY <2>1 DEF Scans, WordInv
<1>3. book' = book \/ book' = [book EXCEPT !.faults = @ + 1]
  BY DEF GetCheckpoints, GenerateReport, Show
<1>4. BookOk(book') /\ book'.sessions = book.sessions /\ book'.lost = book.lost
  BY <1>2, <1>3, FaultOk
<1> QED  BY <1>1, <1>2, <1>4, AnswersUnfiled

\* The application ends, and every session under way is lost.
LEMMA RestartWord ==
  ASSUME WordInv, Restart
  PROVE  BookOk(book') /\ FiledInv'
<1> DEFINE lost == book.lost \cup {call[c].session : c \in Command}
<1>1. book' = [book EXCEPT !.faults = book.faults + 1, !.lost = lost]  BY DEF Restart
<1>2. book \in Book /\ BookOk(book)  BY DEF WordInv, BookOk
<1>3. lost \in SUBSET Nat
  <2>1. Len(book.sessions) \in Nat  BY <1>2 DEF Book
  <2>2. \A c \in Command : call[c].session \in Nat  BY <2>1 DEF WordInv, FiledInv, InSession
  <2> QED  BY <1>2, <2>2 DEF Book
<1>4. book.faults + 1 \in Nat  BY <1>2 DEF Book
<1>5. /\ book' \in Book /\ book'.sessions = book.sessions /\ book'.lost = lost
      /\ book'.system = book.system
  <2> HIDE DEF lost
  <2>1. book' \in Book  BY <1>1, <1>2, <1>3, <1>4 DEF Book
  <2>2. book'.sessions = book.sessions /\ book'.lost = lost /\ book'.system = book.system
    BY <1>1, <1>2 DEF Book
  <2> QED  BY <2>1, <2>2
<1>6. BookOk(book')  BY <1>2, <1>5 DEF BookOk
<1>7. \A c \in Command : call'[c] = Idle(Nothing)  BY DEF Restart
<1>8. FiledInv'
  <2>1. /\ Idle(Nothing).session = 0 /\ InSession(Idle(Nothing), book.sessions)
    <3>1. Len(book.sessions) \in Nat  BY <1>2 DEF Book
    <3> QED  BY <3>1 DEF Idle, InSession, Scans
  <2>2. \A c \in Command : InSession(call'[c], book'.sessions) /\ call'[c].session = 0
    BY <1>5, <1>7, <2>1
  <2>3. \A i \in DOMAIN book'.sessions : book'.sessions[i].status = "running" => i \in book'.lost
    BY <1>5 DEF WordInv, FiledInv
  <2> QED  BY <2>2, <2>3 DEF FiledInv
<1> QED  BY <1>6, <1>8

\* The initial states satisfy the invariant.
LEMMA InitWord ==
  ASSUME DesktopAssumption, Init
  PROVE  WordInv
<1>1. PICK b \in Books :
        book = [sessions |-> <<>>, user |-> b.user, system |-> b.system, off |-> b.off,
                verbs |-> b.verbs, lost |-> {}, faults |-> 0]
  BY DEF Init
<1>2. \A c \in Command : call[c] = Idle(Nothing)  BY DEF Init
<1>3. /\ b.off \in SUBSET Plugin /\ b.user \in Database /\ b.system \in Database
      /\ b.system.reach = "absent" => b.system.rows = {}
      /\ b.verbs \in {d.verbs : d \in Books}
  BY DEF DesktopAssumption
<1>4. <<>> \in Seq(Session) /\ DOMAIN <<>> = {} /\ Len(<<>>) = 0  OBVIOUS
<1>5. book \in Book  BY <1>1, <1>3, <1>4 DEF Book
<1>6. book.sessions = <<>> /\ book.system = b.system  BY <1>1
<1>7. BookOk(book)  BY <1>3, <1>4, <1>5, <1>6 DEF BookOk
<1>8. FiledInv
  <2>1. InSession(Idle(Nothing), book.sessions) /\ Idle(Nothing).session = 0
    BY <1>4, <1>6 DEF InSession, Idle, Scans
  <2> QED  BY <1>2, <1>4, <1>6, <2>1 DEF FiledInv
<1> QED  BY <1>7, <1>8, InitDesk DEF WordInv

\* Every step preserves it.
LEMMA NextWord ==
  ASSUME DesktopAssumption, WordInv, [Next]_vars
  PROVE  WordInv'
<1>1. DeskInv'  BY NextDesk DEF WordInv
<1>2. BookOk(book') /\ FiledInv'
  <2>1. CASE UNCHANGED vars
    BY <2>1 DEF vars, WordInv, FiledInv
  <2>2. CASE Tick
    BY <2>2 DEF Tick, WordInv, FiledInv
  <2>3. CASE Restart  BY <2>3, RestartWord
  <2>4. ASSUME NEW c \in Command, Step(c)
        PROVE  BookOk(book') /\ FiledInv'
    <3>1. CASE \E kind \in (Privileged \cap book.verbs) \ {"deep", "delete"} : Acquire(c, kind, Absent)
      BY <3>1, AcquireWord
    <3>2. CASE \E selected \in Selections : "deep" \in book.verbs /\ Acquire(c, "deep", selected)
      BY <3>2, AcquireWord DEF Privileged
    <3>3. CASE \E id \in Id : "delete" \in book.verbs /\ Acquire(c, "delete", id)
      BY <3>3, AcquireWord DEF Privileged
    <3>4. CASE Swap(c)  BY <3>4, SwapWord
    <3>5. CASE Refuses(c)  BY <3>5, RefusesWord
    <3>6. CASE Prepare(c)  BY <3>6, PrepareWord
    <3>7. CASE Prompt(c)  BY <3>7, PromptWord
    <3>8. CASE ChildEnds(c)  BY <3>8, ChildEndsWord
    <3>9. CASE BeginScan(c)  BY <3>9, BeginScanWord
    <3>10. CASE Scanned(c)  BY <3>10, ScannedWord
    <3>11. CASE Abort(c)  BY <3>11, AbortWord
    <3>12. CASE GetCheckpoints(c) \/ GenerateReport(c) \/ Show(c)  BY <3>12, AnswersWord
    <3> QED
      BY <2>4, <3>1, <3>2, <3>3, <3>4, <3>5, <3>6, <3>7, <3>8, <3>9, <3>10, <3>11, <3>12 DEF Step
  <2> QED  BY <2>1, <2>2, <2>3, <2>4 DEF Next
<1> QED  BY <1>1, <1>2 DEF WordInv

\* What is newly said, and by which step.
Speaks(c) ==
    \/ \E kind, of : Acquire(c, kind, of) /\ app.last > 0 /\ app.now - app.last < Cooldown
    \/ ResolveDelete(c)
    \/ GetCheckpoints(c)
    \/ GenerateReport(c)

LEMMA OnlySpeakers ==
  ASSUME WordInv, Next, NEW c \in Command, call'[c].said # Nothing, call[c].said = Nothing
  PROVE  Speaks(c)
<1>1. CASE Tick  BY <1>1 DEF Tick
<1>2. CASE Restart
  <2>1. call'[c] = Idle(Nothing)  BY <1>2 DEF Restart
  <2> QED  BY <2>1 DEF Idle
<1>3. ASSUME NEW d \in Command, Step(d)
      PROVE  Speaks(c)
  <2>1. ASSUME Answer(d, Nothing)
        PROVE  FALSE
    <3>1. call'[d] = Idle(Nothing) /\ (c # d => call'[c] = call[c])
      BY <2>1, Moves DEF Answer, WordInv, DeskInv
    <3> QED  BY <3>1 DEF Idle
  <2>2. ASSUME NEW kind, NEW of, NEW pc, NEW saw, NEW session,
               call' = [call EXCEPT ![d] = Begun(kind, of, pc, saw, session)]
        PROVE  FALSE
    <3>1. call'[d] = Begun(kind, of, pc, saw, session) /\ (c # d => call'[c] = call[c])
      BY <2>2, Moves DEF WordInv, DeskInv
    <3> QED  BY <3>1 DEF Begun
  <2>3. ASSUME NEW pc, To(d, pc)
        PROVE  FALSE
    <3>1. PICK r : call' = [call EXCEPT ![d] = r] /\ r.said = call[d].said
      BY <2>3, Advance DEF WordInv
    <3>2. call'[d] = r /\ (c # d => call'[c] = call[c])  BY <3>1, Moves DEF WordInv, DeskInv
    <3> QED  BY <3>1, <3>2
  <2>4. ASSUME NEW said, Answer(d, said)
        PROVE  c = d
    <3>1. c # d => call'[c] = call[c]  BY <2>4, Moves DEF Answer, WordInv, DeskInv
    <3> QED  BY <3>1
  <2>5. ASSUME NEW kind, NEW of, Acquire(d, kind, of)
        PROVE  Speaks(c)
    <3>1. CASE app.last > 0 /\ app.now - app.last < Cooldown
      <4>1. Answer(d, <<"cooldown">>)  BY <2>5, <3>1 DEF Acquire
      <4>2. c = d  BY <4>1, <2>4
      <4> QED  BY <2>5, <3>1, <4>2 DEF Speaks
    <3>2. CASE ~(app.last > 0 /\ app.now - app.last < Cooldown)
      <4>1. call' = [call EXCEPT ![d] = Begun(kind, of, "paced", app.last, 0)]
        BY <2>5, <3>2 DEF Acquire
      <4> QED  BY <4>1, <2>2
    <3> QED  BY <3>1, <3>2
  <2>6. CASE Swap(d)
    <3>1. Answer(d, Nothing) \/ To(d, "held")  BY <2>6 DEF Swap
    <3> QED  BY <3>1, <2>1, <2>3
  <2>7. CASE Refuses(d) \/ Abort(d) \/ Scanned(d) \/ ChildEnds(d) \/ Show(d)
    <3>1. Answer(d, Nothing)  BY <2>7 DEF Refuses, Abort, Scanned, Leave, ChildEnds, Show
    <3> QED  BY <3>1, <2>1
  <2>8. CASE Prepare(d)
    <3>1. \/ ResolveDelete(d) \/ To(d, "armed")
          \/ call' = [call EXCEPT ![d] = Begun("deep", call[d].of, "armed", call[d].saw,
                                              Len(book.sessions) + 1)]
      BY <2>8 DEF Prepare
    <3>2. ResolveDelete(d)  BY <3>1, <2>2, <2>3
    <3>3. (\E said : Answer(d, said)) \/ To(d, "armed")  BY <3>2 DEF ResolveDelete, Leave
    <3>4. c = d  BY <3>3, <2>3, <2>4
    <3> QED  BY <3>2, <3>4 DEF Speaks
  <2>9. CASE Prompt(d)  BY <2>9, <2>3 DEF Prompt
  <2>10. CASE BeginScan(d)  BY <2>10, <2>2 DEF BeginScan
  <2>11. CASE GetCheckpoints(d) \/ GenerateReport(d)
    <3>1. \E said : Answer(d, said)  BY <2>11 DEF GetCheckpoints, GenerateReport
    <3>2. c = d  BY <3>1, <2>4
    <3> QED  BY <2>11, <3>2 DEF Speaks
  <2> QED
    BY <1>3, <2>5, <2>6, <2>7, <2>8, <2>9, <2>10, <2>11 DEF Step
<1> QED  BY <1>1, <1>2, <1>3 DEF Next

\* Each answer is so.
LEMMA CooldownIsSo ==
  ASSUME WordInv, app.last > 0, app.now - app.last < Cooldown
  PROVE  IsSo(<<"cooldown">>)
<1>1. app.ended = app.last  BY DEF WordInv, DeskInv, AppInv
<1> QED  BY <1>1 DEF IsSo

LEMMA UnknownIsSo ==
  ASSUME WordInv, NEW id, NEW mine \in BOOLEAN,
         mine <=> (Opens(book.user) /\ \E r \in book.user.rows : r.id = id),
         SystemDatabaseDenies(book.system, id)
  PROVE  IsSo(<<"unknown", id, mine>>)
<1>1. ASSUME NEW r \in Collect(book.user) \cup book.system.rows, ~mine
      PROVE  r.id # id
  <2>1. CASE r \in Collect(book.user)  BY <1>1, <2>1 DEF Collect
  <2>2. CASE r \in book.system.rows
    BY <2>2 DEF SystemDatabaseDenies, WordInv, BookOk
  <2> QED  BY <2>1, <2>2
<1> DEFINE said == <<"unknown", id, mine>>
<1>2. said[1] = "unknown" /\ said[2] = id /\ said[3] = mine  OBVIOUS
<1> HIDE DEF said
<1>3. IsSo(said)  BY <1>1, <1>2 DEF IsSo
<1> QED  BY <1>3 DEF said

LEMMA ListedIsSo ==
  ASSUME WordInv, NEW rows, rows = Collect(book.user) \cup Collect(book.system), NEW others
  PROVE  IsSo(<<"listed", RestorableHere(rows), book.system.reach = "unreadable", others>>)
<1> DEFINE said == <<"listed", RestorableHere(rows), book.system.reach = "unreadable", others>>
<1>1. /\ said[1] = "listed" /\ said[2] = RestorableHere(rows)
      /\ said[3] = (book.system.reach = "unreadable")
  OBVIOUS
<1>2. ASSUME NEW r \in Collect(book.user) \cup book.system.rows, r.here,
             book.system.reach # "unreadable"
      PROVE  r \in RestorableHere(rows)
  <2>1. book.system.reach \in {"read", "unreadable", "absent"}
    BY DEF WordInv, BookOk, Book, Database
  <2>2. r \in rows
    BY <1>2, <2>1 DEF Collect, Opens, WordInv, BookOk
  <2> QED  BY <1>2, <2>2 DEF RestorableHere
<1> HIDE DEF said
<1>3. IsSo(said)  BY <1>1, <1>2 DEF IsSo
<1> QED  BY <1>3 DEF said

LEMMA ReportIsSo ==
  ASSUME WordInv, NEW read \in BOOLEAN, NEW rows \in Sourced(book, read)
  PROVE  IsSo(<<"report", rows>>)
<1> DEFINE said == <<"report", rows>>
<1>1. said[1] = "report" /\ said[2] = rows  OBVIOUS
<1>2. CASE rows \in Collected(book)
  <2>1. rows \in [Plugin \ book.off -> Recorded]  BY <1>2 DEF Collected
  <2>2. book.off \subseteq Plugin  BY DEF WordInv, BookOk, Book
  <2>3. DOMAIN rows = Plugin \ book.off  BY <2>1
  <2>4. (\E p \in DOMAIN rows : rows[p] # "skipped") \/ book.off = Plugin
    <3>1. ASSUME NEW p \in Plugin \ book.off
          PROVE  rows[p] # "skipped"
      BY <2>1 DEF Recorded
    <3> QED  BY <2>2, <2>3, <3>1
  <2> HIDE DEF said
  <2>5. IsSo(said)  BY <1>1, <2>3, <2>4 DEF IsSo
  <2> QED  BY <2>5 DEF said
<1>3. CASE rows \notin Collected(book)
  <2>1. rows \in PersistedSource(book)  BY <1>3 DEF Sourced
  <2>2. PICK i \in LatestScan(book.sessions) : rows = book.sessions[i].rows
    BY <2>1 DEF PersistedSource
  <2>3. rows # NoRows  BY <2>1 DEF PersistedSource
  <2>4. i \in DOMAIN book.sessions /\ book.sessions[i].status = "completed"  BY <2>2 DEF LatestScan
  <2>5. \A j \in DOMAIN book.sessions :
          book.sessions[j].status = "completed" => j = i \/ Newer(book.sessions, i, j)
    BY <2>2 DEF LatestScan
  <2>6. Faithful(book.sessions[i])  BY <2>4 DEF WordInv, BookOk
  <2>7. /\ rows = book.sessions[i].truth
        /\ \E p \in DOMAIN rows : rows[p] # "skipped"
    BY <2>2, <2>3, <2>4, <2>6 DEF Faithful
  <2> HIDE DEF said
  <2>8. IsSo(said)  BY <1>1, <2>4, <2>5, <2>7 DEF IsSo
  <2> QED  BY <2>8 DEF said
<1> QED  BY <1>2, <1>3

LEMMA WhatIsSaidIsSo ==
  ASSUME WordInv, NEW c \in Command, Speaks(c), call'[c].said # Nothing, call[c].said = Nothing
  PROVE  IsSo(call'[c].said)
<1>1. ASSUME NEW said, Answer(c, said)
      PROVE  call'[c].said = said
  <2>1. call'[c] = Idle(said)  BY <1>1, Moves DEF Answer, WordInv, DeskInv
  <2> QED  BY <2>1 DEF Idle
<1>2. CASE \E kind, of : Acquire(c, kind, of) /\ app.last > 0 /\ app.now - app.last < Cooldown
  <2>1. Answer(c, <<"cooldown">>) /\ app.last > 0 /\ app.now - app.last < Cooldown
    BY <1>2 DEF Acquire
  <2>2. call'[c].said = <<"cooldown">>  BY <1>1, <2>1
  <2> QED  BY <2>1, <2>2, CooldownIsSo
<1>3. CASE ResolveDelete(c)
  <2> DEFINE id == call[c].of
             mine == Opens(book.user) /\ \E r \in book.user.rows : r.id = id
  <2>1. \/ Answer(c, Nothing)
        \/ SystemDatabaseDenies(book.system, id) /\ Answer(c, <<"unknown", id, mine>>)
        \/ To(c, "armed")
    BY <1>3 DEF ResolveDelete, Leave
  <2>2. ~Answer(c, Nothing)  BY <1>1
  <2>3. ~To(c, "armed")
    <3>1. SUFFICES ASSUME To(c, "armed") PROVE FALSE  OBVIOUS
    <3>2. PICK r : call' = [call EXCEPT ![c] = r] /\ r.said = call[c].said
      BY <3>1, Advance DEF WordInv
    <3>3. call'[c] = r  BY <3>2, Moves DEF WordInv, DeskInv
    <3> QED  BY <3>2, <3>3
  <2>4. SystemDatabaseDenies(book.system, id) /\ call'[c].said = <<"unknown", id, mine>>
    BY <1>1, <2>1, <2>2, <2>3
  <2>5. mine \in BOOLEAN  OBVIOUS
  <2>6. IsSo(<<"unknown", id, mine>>)  BY <2>4, <2>5, UnknownIsSo
  <2> QED  BY <2>4, <2>6
<1>4. CASE GetCheckpoints(c)
  <2> DEFINE rows == Collect(book.user) \cup Collect(book.system)
  <2>1. Answer(c, <<"listed", RestorableHere(rows), book.system.reach = "unreadable",
                   rows # RestorableHere(rows)>>)
    BY <1>4 DEF GetCheckpoints
  <2>2. call'[c].said = <<"listed", RestorableHere(rows), book.system.reach = "unreadable",
                         rows # RestorableHere(rows)>>
    BY <1>1, <2>1
  <2> QED  BY <2>2, ListedIsSo
<1>5. CASE GenerateReport(c)
  <2>1. PICK read \in BOOLEAN : \E rows \in Sourced(book, read) : Answer(c, <<"report", rows>>)
    BY <1>5 DEF GenerateReport
  <2>2. PICK rows \in Sourced(book, read) : Answer(c, <<"report", rows>>)  BY <2>1
  <2>3. call'[c].said = <<"report", rows>>  BY <1>1, <2>2
  <2> QED  BY <2>2, <2>3, ReportIsSo
<1> QED  BY <1>2, <1>3, <1>4, <1>5 DEF Speaks

\* All three promises of a step.
LEMMA PromiseKept ==
  ASSUME DesktopAssumption, WordInv, [Next]_vars
  PROVE  [KeepsItsWord]_vars
<1>1. CASE UNCHANGED vars  BY <1>1
<1>2. CASE Next
  <2>1. WordInv'  BY NextWord
  <2>2. SessionsSettle  BY <2>1 DEF WordInv, FiledInv, SessionsSettle
  <2>3. AnswersAreTrue  BY <1>2, OnlySpeakers, WhatIsSaidIsSo DEF AnswersAreTrue
  <2>4. PromptIsAlone  BY <1>2, PromptAlone DEF WordInv
  <2> QED  BY <2>2, <2>3, <2>4 DEF KeepsItsWord
<1> QED  BY <1>1, <1>2

\* No session of a scan is left running but by a failure or the end of the
\* application, every answer is so, and one prompt at most is up (scan.rs: run_scan
\* files a session before anything else; compliance.rs: latest_or_fresh_findings).
THEOREM WordIsKept ==
  ASSUME DesktopAssumption
  PROVE  Spec => [][KeepsItsWord]_vars
<1>1. Init => WordInv  BY InitWord
<1>2. WordInv /\ [Next]_vars => WordInv'  BY NextWord
<1>3. WordInv /\ [Next]_vars => [KeepsItsWord]_vars  BY PromiseKept
<1> QED  BY <1>1, <1>2, <1>3, PTL DEF Spec

------------------------------------------------------------------------------
\* What DeskInv and BookOk leave open of the types: the flag, the steps, the bounds.
Bounded ==
    /\ app.busy \in BOOLEAN
    /\ app.last <= MaxTicks /\ app.now \in 1 .. MaxTicks
    /\ \A c \in Command :
         call[c].pc \in {"idle", "paced", "held", "armed", "prompt", "scanning"}
    /\ book.faults <= MaxFaults

LEMMA BoundedTyped ==
  ASSUME DesktopAssumption, WordInv, Bounded
  PROVE  TypeOK
<1>1. app \in [busy : BOOLEAN, last : 0 .. MaxTicks, now : 1 .. MaxTicks, ended : 0 .. MaxTicks]
  BY DEF DesktopAssumption, WordInv, DeskInv, AppInv, Bounded
<1>2. /\ book.sessions \in Seq(Session) /\ book.faults \in Nat
  BY DEF WordInv, BookOk, Book
<1>3. \A i \in DOMAIN book.sessions : book.sessions[i] \in Session
  <2>1. DOMAIN book.sessions = 1 .. Len(book.sessions)  BY <1>2
  <2> QED  BY <1>2, <2>1
<1>4. \A i \in DOMAIN book.sessions :
        book.sessions[i].status \in {"running", "completed", "failed"}
  BY <1>3 DEF Session
<1> QED  BY <1>1, <1>2, <1>4 DEF TypeOK, Bounded, DesktopAssumption

\* The seven fields of a book, whatever is in them.
Bound(b) == b = [sessions |-> b.sessions, user |-> b.user, system |-> b.system, off |-> b.off,
                 verbs |-> b.verbs, lost |-> b.lost, faults |-> b.faults]

\* A write may fail of the failures that are left.
LEMMA MayFailIs ==
  ASSUME NEW b, NEW fails \in MayFail(b)
  PROVE  fails = FALSE \/ (fails = TRUE /\ b.faults < MaxFaults)
<1>1. CASE b.faults < MaxFaults  BY <1>1, Zenon DEF MayFail
<1>2. CASE ~(b.faults < MaxFaults)
  <2>1. MayFail(b) = {FALSE}  BY <1>2 DEF MayFail
  <2> QED  BY <2>1
<1> QED  BY <1>1, <1>2

LEMMA CompletedFaults ==
  ASSUME NEW b, Bound(b), NEW i, NEW status
  PROVE  /\ CompleteSession(b, i, status, FALSE).faults = b.faults
         /\ CompleteSession(b, i, status, TRUE).faults = b.faults + 1
<1>1. PICK x1, x2, x3, x4, x5, x6, x7 :
        b = [sessions |-> x1, user |-> x2, system |-> x3, off |-> x4, verbs |-> x5, lost |-> x6,
             faults |-> x7]
  BY DEF Bound
<1>2. CompleteSession(b, i, status, FALSE) = [b EXCEPT !.sessions[i].status = status]
  BY DEF CompleteSession
<1>3. CompleteSession(b, i, status, TRUE) = [b EXCEPT !.lost = @ \cup {i}, !.faults = @ + 1]
  BY DEF CompleteSession
<1> QED  BY <1>1, <1>2, <1>3

LEMMA StoredFaults ==
  ASSUME NEW b, Bound(b), NEW i, NEW results, NEW fails \in BOOLEAN
  PROVE  /\ Bound(StoreResults(b, i, results, fails))
         /\ StoreResults(b, i, results, fails).faults = b.faults + IF fails THEN 1 ELSE 0
<1>1. PICK x1, x2, x3, x4, x5, x6, x7 :
        b = [sessions |-> x1, user |-> x2, system |-> x3, off |-> x4, verbs |-> x5, lost |-> x6,
             faults |-> x7]
  BY DEF Bound
<1> DEFINE rows == IF fails THEN NoRows ELSE results
           m == [x1 EXCEPT ![i] = [x1[i] EXCEPT !.rows = rows]]
           t == [m EXCEPT ![i] = [m[i] EXCEPT !.truth = results]]
           n == x7 + IF fails THEN 1 ELSE 0
           e == [sessions |-> t, user |-> x2, system |-> x3, off |-> x4, verbs |-> x5,
                 lost |-> x6, faults |-> n]
<1>2. StoreResults(b, i, results, fails) = e
  <2> HIDE DEF rows, n
  <2>1. StoreResults(b, i, results, fails)
          = [b EXCEPT !.sessions[i].rows = rows, !.sessions[i].truth = results, !.faults = n]
    BY <1>1 DEF StoreResults, rows, n
  <2>2. [b EXCEPT !.sessions[i].rows = rows]
          = [sessions |-> m, user |-> x2, system |-> x3, off |-> x4, verbs |-> x5,
             lost |-> x6, faults |-> x7]
    BY <1>1
  <2> QED  BY <2>1, <2>2
<1> HIDE DEF t, n
<1>3. Bound(e) /\ e.faults = n  BY DEF Bound
<1> QED  BY <1>1, <1>2, <1>3 DEF n

LEMMA EndBounded ==
  ASSUME DesktopAssumption, WordInv, Bounded, NEW c \in Command, NEW results, EndScan(c, results)
  PROVE  book'.faults <= MaxFaults
<1>1. Bound(book) /\ book.faults \in Nat /\ MaxFaults \in Nat /\ book.faults <= MaxFaults
  BY DEF WordInv, BookOk, Book, DesktopAssumption, Bounded, Bound
<1>2. PICK first \in MayFail(book) :
        \E then \in MayFail([book EXCEPT !.faults = @ + IF first THEN 1 ELSE 0]) :
          book' = PersistScanResults(book, call[c].session, results, first, then)
  BY DEF EndScan
<1> DEFINE n == book.faults + IF first THEN 1 ELSE 0
           b == [book EXCEPT !.faults = n]
<1>3. PICK then \in MayFail(b) :
        book' = PersistScanResults(book, call[c].session, results, first, then)
  BY <1>2
<1>4. first = FALSE \/ (first = TRUE /\ book.faults < MaxFaults)  BY MayFailIs
<1>5. n \in Nat /\ n <= MaxFaults /\ n = book.faults + IF first = TRUE THEN 1 ELSE 0
  BY <1>1, <1>4
<1> HIDE DEF n
<1>6. b.faults = n  BY <1>1 DEF Bound
<1> HIDE DEF b
<1>7. then = FALSE \/ (then = TRUE /\ n < MaxFaults)  BY <1>6, MayFailIs
<1> DEFINE s == StoreResults(book, call[c].session, results, first)
<1>8. Bound(s) /\ s.faults = n
  <2>1. first \in BOOLEAN  BY <1>4
  <2> QED  BY <1>1, <2>1, StoredFaults DEF n
<1>9. book' = CompleteSession(s, call[c].session, "completed", then)
  BY <1>3 DEF PersistScanResults
<1> HIDE DEF s
<1>10. book'.faults = n \/ (book'.faults = n + 1 /\ n < MaxFaults)
  BY <1>7, <1>8, <1>9, CompletedFaults
<1> QED  BY <1>1, <1>5, <1>10

LEMMA ErrBounded ==
  ASSUME DesktopAssumption, WordInv, Bounded, NEW c \in Command,
         NEW fails \in MayFail(book), FailSessionOnErr(c, fails)
  PROVE  book'.faults <= MaxFaults
<1>1. Bound(book) /\ book.faults \in Nat /\ MaxFaults \in Nat /\ book.faults <= MaxFaults
  BY DEF WordInv, BookOk, Book, DesktopAssumption, Bounded, Bound
<1>2. fails = FALSE \/ (fails = TRUE /\ book.faults < MaxFaults)  BY MayFailIs
<1>3. book' = book \/ book' = CompleteSession(book, call[c].session, "failed", fails)
  BY DEF FailSessionOnErr, FailSession
<1>4. book'.faults = book.faults \/ (book'.faults = book.faults + 1 /\ book.faults < MaxFaults)
  <2>1. CASE fails = FALSE
    <3>1. book' = book \/ book' = CompleteSession(book, call[c].session, "failed", FALSE)
      BY <1>3, <2>1, Zenon
    <3>2. CompleteSession(book, call[c].session, "failed", FALSE).faults = book.faults
      BY <1>1, CompletedFaults, Zenon
    <3> QED  BY <3>1, <3>2
  <2>2. CASE fails = TRUE /\ book.faults < MaxFaults
    <3>1. book' = book \/ book' = CompleteSession(book, call[c].session, "failed", TRUE)
      BY <1>3, <2>2, Zenon
    <3>2. CompleteSession(book, call[c].session, "failed", TRUE).faults = book.faults + 1
      BY <1>1, CompletedFaults, Zenon
    <3> QED  BY <2>2, <3>1, <3>2
  <2> QED  BY <1>2, <2>1, <2>2
<1> QED  BY <1>1, <1>4

LEMMA ChildBounded ==
  ASSUME DesktopAssumption, WordInv, Bounded, NEW c \in Command, ChildEnds(c)
  PROVE  book'.faults <= MaxFaults
<1>1. book \in Book /\ book.faults <= MaxFaults  BY DEF WordInv, BookOk, Bounded
<1>2. \A e \in Captured(book) : e.faults = book.faults  BY <1>1 DEF Captured, Book
<1>3. PICK exit \in Exits :
        \/ /\ call[c].kind = "deep"
           /\ IF AcceptJson(exit)
              THEN \E results \in Results(call[c].of, book) : EndScan(c, results)
              ELSE \E fails \in MayFail(book) : FailSessionOnErr(c, fails)
        \/ book' \in Applied(book, exit) \/ book' \in Previewed(book, exit)
        \/ book' \in RolledBack(book, exit) \/ book' \in Created(book, exit)
        \/ book' \in Deleted(book, exit, call[c].of)
  BY Zenon DEF ChildEnds
<1>4. CASE call[c].kind = "deep" /\ \E results \in Results(call[c].of, book) : EndScan(c, results)
  BY <1>4, EndBounded
<1>5. CASE \E fails \in MayFail(book) : FailSessionOnErr(c, fails)
  BY <1>5, ErrBounded
<1>6. CASE book' \in Applied(book, exit) \/ book' \in Previewed(book, exit)
           \/ book' \in RolledBack(book, exit) \/ book' \in Created(book, exit)
  BY <1>1, <1>2, <1>6 DEF Applied, Previewed, RolledBack, Created
<1>7. CASE book' \in Deleted(book, exit, call[c].of)
  BY <1>1, <1>7 DEF Deleted, Book
<1> QED  BY <1>3, <1>4, <1>5, <1>6, <1>7

LEMMA FaultsStep ==
  ASSUME DesktopAssumption, WordInv, Bounded, NEW c \in Command, Step(c)
  PROVE  book'.faults <= MaxFaults
<1>1. book \in Book /\ book.faults <= MaxFaults /\ book.faults \in Nat /\ MaxFaults \in Nat
  BY DEF WordInv, BookOk, Bounded, Book, DesktopAssumption
<1>2. ASSUME NEW kind, NEW of, Acquire(c, kind, of) PROVE book' = book
  BY <1>2 DEF Acquire
<1>3. CASE Swap(c) \/ Refuses(c) \/ Prompt(c) \/ GetCheckpoints(c) \/ Show(c)
  BY <1>1, <1>3 DEF Swap, Refuses, Prompt, GetCheckpoints, Show
<1>4. \A now : StartSession(book, now).faults = book.faults  BY <1>1 DEF StartSession, Book
<1>5. CASE Prepare(c)
  <2>1. CASE ResolveDelete(c)
    <3>1. \/ book' = book \/ book' = [book EXCEPT !.user.rows = Without(@, call[c].of)]
          \/ book.faults < MaxFaults /\ book' = [book EXCEPT !.faults = @ + 1]
      BY <2>1 DEF ResolveDelete
    <3> QED  BY <1>1, <3>1 DEF Book
  <2>2. CASE book' = StartSession(book, app.now)  BY <1>1, <1>4, <2>2
  <2> QED  BY <1>1, <1>5, <2>1, <2>2 DEF Prepare
<1>6. CASE BeginScan(c)  BY <1>1, <1>4, <1>6 DEF BeginScan
<1>7. CASE ChildEnds(c)  BY <1>7, ChildBounded
<1>8. CASE Scanned(c)
  <2>1. PICK results : EndScan(c, results)  BY <1>8 DEF Scanned
  <2> QED  BY <2>1, EndBounded
<1>9. CASE Abort(c)
  <2>1. PICK fails \in MayFail(book) : FailSessionOnErr(c, fails)  BY <1>9 DEF Abort
  <2> QED  BY <2>1, ErrBounded
<1>10. CASE GenerateReport(c)
  <2>1. \E read \in BOOLEAN : /\ ~read => book.faults < MaxFaults
                              /\ book' = IF read THEN book ELSE [book EXCEPT !.faults = @ + 1]
    BY <1>10, Zenon DEF GenerateReport
  <2> QED  BY <1>1, <2>1 DEF Book
<1> QED
  BY <1>1, <1>2, <1>3, <1>5, <1>6, <1>7, <1>8, <1>9, <1>10, Zenon DEF Step

\* The step of the command that moves, and those of the others.
LEMMA PcsStep ==
  ASSUME WordInv, Bounded, NEW c \in Command, Step(c)
  PROVE  \A d \in Command :
           call'[d].pc \in {"idle", "paced", "held", "armed", "prompt", "scanning"}
<1> DEFINE PCs == {"idle", "paced", "held", "armed", "prompt", "scanning"}
<1>1. DeskInv /\ CallInv /\ \A d \in Command : call[d].pc \in PCs
  BY DEF WordInv, DeskInv, Bounded
<1>2. ASSUME NEW r, call' = [call EXCEPT ![c] = r], r.pc \in PCs
      PROVE  \A d \in Command : call'[d].pc \in PCs
  <2>1. call'[c] = r /\ \A d \in Command : d # c => call'[d] = call[d]
    BY <1>1, <1>2, Moves
  <2> QED  BY <1>1, <1>2, <2>1
<1>3. ASSUME NEW said, Answer(c, said) PROVE \A d \in Command : call'[d].pc \in PCs
  <2>1. Idle(said).pc = "idle"  BY DEF Idle
  <2> QED  BY <1>2, <1>3, <2>1 DEF Answer
<1>4. ASSUME NEW pc \in PCs, To(c, pc) PROVE \A d \in Command : call'[d].pc \in PCs
  <2>1. PICK r : call' = [call EXCEPT ![c] = r] /\ r.pc = pc  BY <1>1, <1>4, Advance
  <2> QED  BY <1>2, <1>4, <2>1
<1>5. ASSUME NEW kind, NEW of, NEW pc \in PCs, NEW saw, NEW session,
             call' = [call EXCEPT ![c] = Begun(kind, of, pc, saw, session)]
      PROVE  \A d \in Command : call'[d].pc \in PCs
  <2>1. Begun(kind, of, pc, saw, session).pc = pc  BY DEF Begun
  <2> QED  BY <1>2, <1>5, <2>1
<1>6. ASSUME NEW kind, NEW of, Acquire(c, kind, of) PROVE \A d \in Command : call'[d].pc \in PCs
  BY <1>3, <1>5, <1>6 DEF Acquire
<1>7. CASE Swap(c)  BY <1>3, <1>4, <1>7 DEF Swap
<1>8. CASE Refuses(c)  BY <1>3, <1>8 DEF Refuses, Leave
<1>9. CASE Prepare(c)
  <2>1. CASE ResolveDelete(c)
    <3>1. (\E said : Answer(c, said)) \/ To(c, "armed")
      BY <2>1, Zenon DEF ResolveDelete, Leave
    <3> QED  BY <1>3, <1>4, <3>1
  <2>2. CASE call' = [call EXCEPT ![c] = Begun("deep", call[c].of, "armed", call[c].saw,
                                               Len(book.sessions) + 1)]
    BY <1>5, <2>2
  <2>3. CASE To(c, "armed")  BY <1>4, <2>3
  <2> QED  BY <1>9, <2>1, <2>2, <2>3 DEF Prepare
<1>10. CASE Prompt(c)  BY <1>4, <1>10 DEF Prompt
<1>11. CASE ChildEnds(c) \/ Scanned(c) \/ Abort(c) \/ Show(c)
  <2>1. Answer(c, Nothing)  BY <1>11, Zenon DEF ChildEnds, Scanned, Abort, Show, Leave
  <2> QED  BY <1>3, <2>1
<1>12. CASE BeginScan(c)
  <2>1. PICK selected : call' = [call EXCEPT ![c] =
                          Begun("scan", selected, "scanning", 0, Len(book.sessions) + 1)]
    BY <1>12 DEF BeginScan
  <2> QED  BY <1>5, <2>1
<1>13. CASE GetCheckpoints(c) \/ GenerateReport(c)
  <2>1. \E said : Answer(c, said)  BY <1>13, Zenon DEF GetCheckpoints, GenerateReport
  <2> QED  BY <1>3, <2>1
<1>14. \A d \in Command : call'[d].pc \in PCs
  <2>1. CASE \E kind, of : Acquire(c, kind, of)  BY <1>6, <2>1
  <2>2. CASE ~\E kind, of : Acquire(c, kind, of)
    <3>1. \/ Swap(c) \/ Refuses(c) \/ Prepare(c) \/ Prompt(c) \/ ChildEnds(c) \/ BeginScan(c)
          \/ Scanned(c) \/ Abort(c) \/ GetCheckpoints(c) \/ GenerateReport(c) \/ Show(c)
      BY <2>2, Zenon DEF Step
    <3> QED  BY <3>1, <1>7, <1>8, <1>9, <1>10, <1>11, <1>12, <1>13
  <2> QED  BY <2>1, <2>2
<1> QED  BY <1>14 DEF PCs

LEMMA AppStep ==
  ASSUME WordInv, NEW c \in Command, Step(c)
  PROVE  \/ app' \in {app, Drop(app), [app EXCEPT !.busy = TRUE]}
         \/ app' = Drop(Marked(app))
<1>1. ASSUME NEW kind, NEW of, Acquire(c, kind, of) PROVE app' = app
  BY <1>1 DEF Acquire
<1>2. ASSUME NEW said, Leave(c, said) PROVE app' \in {app, Drop(app)}
  BY <1>2 DEF Leave
<1>3. CASE Swap(c)  BY <1>3 DEF Swap
<1>4. CASE Refuses(c) \/ Scanned(c) \/ Abort(c)
  BY <1>2, <1>4 DEF Refuses, Scanned, Abort
<1>5. CASE Prepare(c)
  <2>1. CASE ResolveDelete(c)
    <3>1. (\E said : Leave(c, said)) \/ UNCHANGED app  BY <2>1, Zenon DEF ResolveDelete
    <3> QED  BY <1>2, <3>1
  <2> QED  BY <1>5, <2>1 DEF Prepare
<1>6. CASE Prompt(c) \/ BeginScan(c) \/ GetCheckpoints(c) \/ GenerateReport(c) \/ Show(c)
  BY <1>6, Zenon DEF Prompt, BeginScan, GetCheckpoints, GenerateReport, Show
<1>7. CASE ChildEnds(c)  BY <1>7, Zenon DEF ChildEnds
<1> QED  BY <1>1, <1>3, <1>4, <1>5, <1>6, <1>7, Zenon DEF Step

LEMMA BoundedStep ==
  ASSUME DesktopAssumption, WordInv, Bounded, [Next]_vars
  PROVE  Bounded'
<1>1. /\ app = [busy |-> app.busy, last |-> app.last, now |-> app.now, ended |-> app.ended]
      /\ app.last \in Nat /\ MaxTicks \in Nat /\ book \in Book /\ book.faults \in Nat
      /\ MaxFaults \in Nat
  BY DEF WordInv, DeskInv, AppInv, BookOk, Book, DesktopAssumption
<1>2. CASE UNCHANGED vars  BY <1>2 DEF vars, Bounded
<1>3. CASE Tick
  <2>1. app'.busy = app.busy /\ app'.last = app.last /\ app'.now = app.now + 1
    BY <1>1, <1>3 DEF Tick
  <2> QED  BY <1>1, <1>3, <2>1 DEF Tick, Bounded
<1>4. CASE Restart
  <2>1. app'.busy = FALSE /\ app'.last = 0 /\ app'.now = app.now  BY <1>4 DEF Restart, Fresh
  <2>2. book'.faults = book.faults + 1 /\ book.faults < MaxFaults
    BY <1>1, <1>4 DEF Restart, Book
  <2>3. \A c \in Command : call'[c].pc = "idle"  BY <1>4 DEF Restart, Idle
  <2>4. app'.busy \in BOOLEAN /\ app'.last <= MaxTicks /\ app'.now \in 1 .. MaxTicks
    <3>1. app'.busy \in BOOLEAN  BY <2>1, Zenon
    <3>2. 0 <= MaxTicks  BY <1>1
    <3> QED  BY <2>1, <3>1, <3>2 DEF Bounded
  <2>5. book'.faults <= MaxFaults  BY <1>1, <2>2
  <2> QED  BY <2>3, <2>4, <2>5 DEF Bounded
<1>5. ASSUME NEW c \in Command, Step(c) PROVE Bounded'
  <2>1. /\ app'.busy \in BOOLEAN /\ app'.now = app.now /\ app'.last \in {app.last, app.now}
    BY <1>1, <1>5, AppStep DEF Drop, Marked, Bounded
  <2> QED  BY <1>1, <1>5, <2>1, FaultsStep, PcsStep DEF Bounded
<1> QED  BY <1>2, <1>3, <1>4, <1>5 DEF Next

\* The guard, the commands, the sessions and the bounds of the clock keep their types
\* (PrivilegedOpGuard and the sessions of scan_manager.rs).
THEOREM TypeCorrect ==
  ASSUME DesktopAssumption
  PROVE  Spec => []TypeOK
<1>1. Init => WordInv  BY InitWord
<1>2. Init => Bounded
  BY DEF Init, Fresh, Idle, Bounded, DesktopAssumption
<1>3. WordInv /\ [Next]_vars => WordInv'  BY NextWord
<1>4. WordInv /\ Bounded /\ [Next]_vars => Bounded'  BY BoundedStep
<1>5. WordInv /\ Bounded => TypeOK  BY BoundedTyped
<1> QED  BY <1>1, <1>2, <1>3, <1>4, <1>5, PTL DEF Spec
==============================================================================
