--------------------------- MODULE ScanDaemonProofs ---------------------------
(***************************************************************************)
(* What ScanHistory and ScanDaemon establish for any hosts, findings and    *)
(* tasks: that an alert of a regression is one of findings as well, that    *)
(* the daemon scans once at a time, that every session is settled, that a   *)
(* run is compared with the newest other session, and alerts of a           *)
(* regression just where there was one.                                     *)
(***************************************************************************)
EXTENDS ScanDaemon, FiniteSetTheorems, SequenceTheorems, WellFoundedInduction, TLAPS

(***************************************************************************)
(* "A regression at the floor always also satisfies the absolute threshold, *)
(* so `Both` never double-sends" (alert_decision): whatever counts it is    *)
(* given, a host that got worse at or above the floor has a finding there.  *)
(***************************************************************************)
THEOREM RegressionMeetsThreshold ==
  ASSUME NEW floor \in Severity, NEW previous \in Tuple, NEW current \in Tuple,
         Regressed("both", floor, previous, current)
  PROVE  Absolute("both", floor, current)
<1>1. PICK s \in Severity : AboveFloor(current, floor)[s] > AboveFloor(previous, floor)[s]
  BY DEF Regressed, IsWorse
<1>2. s >= floor
  <2> SUFFICES ASSUME ~(s >= floor) PROVE FALSE  OBVIOUS
  <2>1. AboveFloor(current, floor)[s] = 0 /\ AboveFloor(previous, floor)[s] = 0
    BY DEF AboveFloor
  <2> QED  BY <1>1, <2>1
<1>3. current[s] > previous[s]  BY <1>1, <1>2 DEF AboveFloor
<1>4. previous[s] \in Nat /\ current[s] \in Nat  BY DEF Tuple
<1> QED  BY <1>2, <1>3, <1>4 DEF Absolute, MeetsThreshold

\* Counting findings of a severity gives a tuple.
LEMMA CountsType ==
  ASSUME NEW found \in SUBSET Finding
  PROVE  Counts(found) \in Tuple
<1>1. ASSUME NEW s \in Severity
      PROVE  Cardinality({f \in found : SeverityOf[f] = s}) \in Nat
  <2>1. {f \in found : SeverityOf[f] = s} \subseteq Finding  OBVIOUS
  <2>2. IsFiniteSet({f \in found : SeverityOf[f] = s})
    BY <2>1, FindingAssumption, FS_Subset
  <2> QED  BY <2>2, FS_CardinalityType
<1> QED  BY <1>1 DEF Counts, Tuple

------------------------------------------------------------------------------
(* Types. *)

LEMMA RestType == Rest \in Run
BY DaemonAssumption DEF Rest, Run, PC

LEMMA CreatedType ==
  ASSUME NEW h \in Host, NEW start \in Nat
  PROVE  Created(h, start) \in Session
BY DEF Created, Session, Status, Told, NoCounts, Tuple

\* A row of the history changed in place, wherever it is.
LEMMA ChangedType ==
  ASSUME NEW s \in Seq(Session), NEW i \in Nat, NEW row,
         i \in DOMAIN s => row \in Session
  PROVE  /\ [s EXCEPT ![i] = row] \in Seq(Session)
         /\ Len([s EXCEPT ![i] = row]) = Len(s)
<1>1. CASE i \in DOMAIN s  BY <1>1, ExceptSeq
<1>2. CASE i \notin DOMAIN s
  <2>1. [s EXCEPT ![i] = row] = s  BY <1>2
  <2> QED  BY <2>1
<1> QED  BY <1>1, <1>2

\* What a task may be on, and a history, by type.
LEMMA RunFields ==
  ASSUME NEW run \in Run
  PROVE  /\ run.pc \in PC /\ run.host \in Host
         /\ run.session \in Nat /\ run.start \in Nat /\ run.previous \in Nat
         /\ run.found \in SUBSET Finding /\ run.left \in SUBSET Finding
         /\ run.truth \in SUBSET Finding /\ run.whole \in BOOLEAN
BY DEF Run

------------------------------------------------------------------------------
(***************************************************************************)
(* The inductive invariant.  A task's position says how far its session is  *)
(* (Stage), and no two tasks share a session (Alone); so a step on one      *)
(* task's session leaves every other task's, and every settled one, alone.  *)
(***************************************************************************)

Settled(row) ==
  \/ row.status = "failed"
  \/ row.status = "completed" /\ row.counts = Counts(row.rows)

StageOf(t, run, ss) ==
  /\ run.session \in 0 .. Len(ss)
  /\ run.session = 0 <=> \/ run.pc \in {"idle", "create"}
                         \/ (run.pc = "scan" /\ t \notin Runner)
  /\ run.pc \in {"scan", "export", "complete"} /\ run.session # 0 =>
       ss[run.session].rows = {}
  /\ run.pc = "insert" =>
       /\ ss[run.session].status = "completed"
       /\ ss[run.session].counts = Counts(run.found)
       /\ ss[run.session].rows = run.found \ run.left
       /\ run.left \subseteq run.found
  /\ run.pc \in {"lookup", "dispatch"} =>
       /\ ss[run.session].status = "completed"
       /\ ss[run.session].counts = Counts(ss[run.session].rows)

Stage == \A t \in Task : StageOf(t, task[t], sessions)

Alone == \A t, u \in Task : t # u /\ task[t].session = task[u].session => task[t].session = 0

\* The daemon's jobs are tasks of its process.
JobsWithDaemon == daemon = "off" => \A t \in Cron : ~Busy(t)

Inv ==
  TypeOK /\ OneScanAtATime /\ JobsWithDaemon /\ Stage /\ Alone /\ SessionsSettle

(***************************************************************************)
(* A step of one task: it goes on to `run`, on its own session or on a new  *)
(* one, having changed no other row.                                        *)
(***************************************************************************)
LEMMA TaskStep ==
  ASSUME Inv, NEW t \in Task, NEW run \in Run, NEW ss \in Seq(Session),
         NEW gone \in SUBSET Nat,
         task' = [task EXCEPT ![t] = run], sessions' = ss, abandoned' = gone,
         abandoned \subseteq gone,
         Len(ss) >= Len(sessions),
         \A i \in DOMAIN sessions : i # task[t].session => ss[i] = sessions[i],
         run.session # 0 =>
           run.session = task[t].session \/ run.session > Len(sessions),
         \A i \in DOMAIN ss \ DOMAIN sessions : i = run.session,
         \/ task[t].session \in {0, run.session} \cup gone
         \/ Settled(ss[task[t].session]),
         StageOf(t, run, ss)
  PROVE  Stage' /\ Alone' /\ SessionsSettle'
<1>1. task \in [Task -> Run] /\ sessions \in Seq(Session)  BY DEF Inv, TypeOK
<1>2. task'[t] = run /\ \A u \in Task : u # t => task'[u] = task[u]  BY <1>1
<1>3. \A u \in Task : /\ StageOf(u, task[u], sessions)
                      /\ task[u].session \in 0 .. Len(sessions)
  BY DEF Inv, Stage, StageOf
<1>4. DOMAIN sessions = 1 .. Len(sessions) /\ DOMAIN ss = 1 .. Len(ss)
      /\ Len(sessions) \in Nat /\ Len(ss) \in Nat  BY <1>1
<1>5. run.session \in Nat  BY RunFields
<1>6. \A u \in Task : u # t /\ task[u].session # 0 => task[u].session # task[t].session
  BY DEF Inv, Alone
<1>7. Stage'
  <2> SUFFICES ASSUME NEW u \in Task PROVE StageOf(u, task'[u], ss)  BY DEF Stage, StageOf
  <2>1. CASE u = t  BY <2>1, <1>2
  <2>2. CASE u # t
    <3>1. task[u].session # 0 =>
            /\ ss[task[u].session] = sessions[task[u].session]
            /\ task[u].session \in 0 .. Len(ss)
      BY <1>3, <1>4, <1>6, <2>2
    <3>2. task[u].session \in 0 .. Len(ss)  BY <3>1, <1>3, <1>4
    <3>3. task'[u] = task[u]  BY <1>2, <2>2
    <3>4. StageOf(u, task[u], sessions)  BY <1>3
    <3> QED  BY <3>1, <3>2, <3>3, <3>4 DEF StageOf
  <2> QED  BY <2>1, <2>2
<1>8. Alone'
  <2>1. ASSUME NEW u \in Task, u # t, run.session = task[u].session PROVE run.session = 0
    BY <2>1, <1>3, <1>4, <1>5, <1>6
  <2>2. ASSUME NEW u \in Task, NEW v \in Task, u # v, task'[u].session = task'[v].session
        PROVE  task'[u].session = 0
    <3>1. CASE u = t  BY <3>1, <2>1, <2>2, <1>2
    <3>2. CASE v = t  BY <3>2, <2>1, <2>2, <1>2
    <3>3. CASE u # t /\ v # t  BY <3>3, <2>2, <1>2 DEF Inv, Alone
    <3> QED  BY <3>1, <3>2, <3>3
  <2> QED  BY <2>2 DEF Alone
<1>9. SessionsSettle'
  <2> SUFFICES ASSUME NEW i \in DOMAIN ss, i \notin Owned', i \notin gone
               PROVE  Settled(ss[i])
    BY DEF SessionsSettle, Settled
  <2>1. \A u \in Task : task'[u].session # i  BY DEF Owned
  <2>2. run.session # i  BY <2>1, <1>2
  <2>3. i \in DOMAIN sessions  BY <2>2
  <2>4. CASE i = task[t].session
    BY <2>2, <2>4, <1>4
  <2>5. CASE i # task[t].session
    <3>1. i \notin Owned
      <4>1. \A u \in Task : task[u].session # i  BY <2>1, <2>5, <1>2
      <4> QED  BY <4>1 DEF Owned
    <3>2. i \notin abandoned  OBVIOUS
    <3>3. Settled(sessions[i])  BY <2>3, <3>1, <3>2 DEF Inv, SessionsSettle, Settled
    <3> QED  BY <3>3, <2>3, <2>5
  <2> QED  BY <2>4, <2>5
<1> QED  BY <1>7, <1>8, <1>9

\* A step of one task keeps the flag, if the flag falls with the job's end.
LEMMA FlagStep ==
  ASSUME Inv, NEW t \in Task, NEW run \in Run,
         task' = [task EXCEPT ![t] = run], daemon' = daemon,
         \/ run.pc # "idle" /\ Busy(t) /\ flag' = flag
         \/ run.pc = "idle" /\ Busy(t) /\ flag' = IF t \in Cron THEN FALSE ELSE flag
         \/ t \notin Cron /\ flag' = flag
  PROVE  OneScanAtATime' /\ JobsWithDaemon'
<1>1. task \in [Task -> Run] /\ flag \in BOOLEAN /\ Cron \subseteq Task
  BY DEF Inv, TypeOK, Task, Runner
<1>2. task'[t] = run /\ \A u \in Task : u # t => task'[u] = task[u]  BY <1>1
<1>3. /\ \A v, u \in Cron : Busy(v) /\ Busy(u) => v = u
      /\ flag <=> \E u \in Cron : Busy(u)
  BY DEF Inv, OneScanAtATime
<1>4. \A u \in Cron : Busy(u)' <=> IF u = t THEN run.pc # "idle" ELSE Busy(u)
  BY <1>1, <1>2 DEF Busy
<1>5. OneScanAtATime'
  <2>1. CASE run.pc # "idle" /\ Busy(t) /\ flag' = flag
    BY <1>1, <1>3, <1>4, <2>1 DEF OneScanAtATime
  <2>2. CASE run.pc = "idle" /\ Busy(t) /\ flag' = IF t \in Cron THEN FALSE ELSE flag
    BY <1>1, <1>3, <1>4, <2>2 DEF OneScanAtATime
  <2>3. CASE t \notin Cron /\ flag' = flag
    BY <1>1, <1>3, <1>4, <2>3 DEF OneScanAtATime
  <2> QED  BY <2>1, <2>2, <2>3
<1>6. JobsWithDaemon'
  <2>1. daemon = "off" => \A u \in Cron : ~Busy(u)  BY DEF Inv, JobsWithDaemon
  <2>2. t \in Cron => Busy(t)  OBVIOUS
  <2> QED  BY <1>4, <2>1, <2>2 DEF JobsWithDaemon
<1> QED  BY <1>5, <1>6

\* A step of a task that goes on, and one of a task that returns, on the
\* history as it is.
LEMMA GoesOn ==
  ASSUME Inv, NEW t \in Task, NEW run \in Run, NEW ss \in Seq(Session),
         Busy(t), run.pc # "idle",
         task' = [task EXCEPT ![t] = run], sessions' = ss,
         Len(ss) = Len(sessions),
         \A i \in DOMAIN sessions : i # task[t].session => ss[i] = sessions[i],
         run.session = task[t].session,
         StageOf(t, run, ss),
         UNCHANGED <<now, flag, daemon, abandoned>>
  PROVE  Inv'
<1>1. task \in [Task -> Run] /\ sessions \in Seq(Session) /\ abandoned \in SUBSET Nat
  BY DEF Inv, TypeOK
<1>2. TypeOK'  BY <1>1 DEF Inv, TypeOK
<1>3. OneScanAtATime' /\ JobsWithDaemon'
  <2>1. flag' = flag /\ daemon' = daemon  OBVIOUS
  <2> QED  BY <2>1, FlagStep
<1>4. DOMAIN ss = DOMAIN sessions /\ Len(ss) >= Len(sessions)  BY <1>1
<1>5. task[t].session \in {0, run.session} \cup abandoned  OBVIOUS
<1>6. Stage' /\ Alone' /\ SessionsSettle'
  <2>1. abandoned' = abandoned  OBVIOUS
  <2> QED  BY <2>1, <1>1, <1>4, <1>5, TaskStep
<1> QED  BY <1>2, <1>3, <1>6 DEF Inv

LEMMA Returns ==
  ASSUME Inv, NEW t \in Task, NEW ss \in Seq(Session), NEW gone \in SUBSET Nat,
         Busy(t), Ends(t), sessions' = ss, abandoned' = gone, abandoned \subseteq gone,
         Len(ss) = Len(sessions),
         \A i \in DOMAIN sessions : i # task[t].session => ss[i] = sessions[i],
         task[t].session \in {0} \cup gone \/ Settled(ss[task[t].session]),
         UNCHANGED <<now, daemon>>
  PROVE  Inv'
<1>1. task \in [Task -> Run] /\ sessions \in Seq(Session) /\ flag \in BOOLEAN
  BY DEF Inv, TypeOK
<1>2. Rest \in Run /\ Rest.pc = "idle" /\ Rest.session = 0  BY RestType DEF Rest
<1>3. task' = [task EXCEPT ![t] = Rest] /\ flag' = IF t \in Cron THEN FALSE ELSE flag
  BY DEF Ends, Becomes
<1>4. TypeOK'  BY <1>1, <1>2, <1>3 DEF Inv, TypeOK
<1>5. OneScanAtATime' /\ JobsWithDaemon'
  <2>1. daemon' = daemon  OBVIOUS
  <2> QED  BY <1>2, <1>3, <2>1, FlagStep
<1>6. StageOf(t, Rest, ss)
  <2>1. Len(ss) \in Nat  OBVIOUS
  <2> QED  BY <1>2, <2>1 DEF StageOf
<1>7. DOMAIN ss = DOMAIN sessions /\ Len(ss) >= Len(sessions)  BY <1>1
<1>8. Stage' /\ Alone' /\ SessionsSettle'  BY <1>2, <1>3, <1>6, <1>7, TaskStep
<1> QED  BY <1>4, <1>5, <1>8 DEF Inv

\* A run that meets an error it only returns leaves its session abandoned.
LEMMA AbandonsStep ==
  ASSUME Inv, NEW t \in Task, Busy(t), Abandons(t), UNCHANGED <<now, sessions, daemon>>
  PROVE  Inv'
<1>1. task \in [Task -> Run] /\ sessions \in Seq(Session) /\ abandoned \in SUBSET Nat
  BY DEF Inv, TypeOK
<1>2. task[t].session \in Nat  BY <1>1, RunFields
<1> DEFINE gone == abandoned \cup ({task[t].session} \ {0})
<1>3. gone \in SUBSET Nat /\ abandoned \subseteq gone
      /\ task[t].session \in {0} \cup gone  BY <1>1, <1>2
<1>4. Ends(t) /\ abandoned' = gone  BY DEF Abandons
<1> HIDE DEF gone
<1>5. sessions' = sessions  OBVIOUS
<1> QED  BY <1>1, <1>3, <1>4, <1>5, Returns

\* Where a busy task stands.
LEMMA Standing ==
  ASSUME Inv, NEW t \in Task
  PROVE  /\ task[t] \in Run /\ StageOf(t, task[t], sessions)
         /\ sessions \in Seq(Session)
         /\ DOMAIN sessions = 1 .. Len(sessions) /\ Len(sessions) \in Nat
         /\ task[t].session # 0 =>
              task[t].session \in DOMAIN sessions /\ sessions[task[t].session] \in Session
<1>1. task[t] \in Run /\ sessions \in Seq(Session)  BY DEF Inv, TypeOK
<1>2. StageOf(t, task[t], sessions)  BY DEF Inv, Stage
<1>3. DOMAIN sessions = 1 .. Len(sessions) /\ Len(sessions) \in Nat  BY <1>1
<1>4. task[t].session \in 0 .. Len(sessions)  BY <1>2 DEF StageOf
<1>5. task[t].session # 0 => task[t].session \in DOMAIN sessions  BY <1>3, <1>4
<1> QED  BY <1>1, <1>2, <1>3, <1>5

\* A task begins: a job of the cron scheduler, with the flag, or a process of
\* its own.
LEMMA Begins ==
  ASSUME Inv, NEW t \in Task, NEW run \in Run, ~Busy(t),
         task' = [task EXCEPT ![t] = run], run.session = 0,
         run.pc = "create" \/ (run.pc = "scan" /\ t \notin Runner),
         UNCHANGED <<now, sessions, daemon, abandoned>>,
         \/ t \in Cron /\ run.pc = "create" /\ daemon # "off" /\ ~flag /\ flag' = TRUE
         \/ t \notin Cron /\ flag' = flag
  PROVE  Inv'
<1>1. task \in [Task -> Run] /\ sessions \in Seq(Session) /\ abandoned \in SUBSET Nat
      /\ flag \in BOOLEAN /\ Cron \subseteq Task
  BY DEF Inv, TypeOK, Task, Runner
<1>2. TypeOK'  BY <1>1 DEF Inv, TypeOK
<1>3. StageOf(t, run, sessions)
  <2>1. 0 \in 0 .. Len(sessions)  BY <1>1
  <2> QED  BY <2>1 DEF StageOf
<1>4. task[t].session = 0
  <2>1. StageOf(t, task[t], sessions) /\ task[t].pc = "idle"  BY Standing DEF Busy
  <2> QED  BY <2>1 DEF StageOf
<1>5. Stage' /\ Alone' /\ SessionsSettle'
  <2>1. sessions' = sessions /\ abandoned' = abandoned /\ Len(sessions) >= Len(sessions)
    BY <1>1
  <2> QED  BY <2>1, <1>1, <1>3, <1>4, TaskStep
<1>6. OneScanAtATime' /\ JobsWithDaemon'
  <2> daemon' = daemon  OBVIOUS
  <2>1. CASE t \notin Cron /\ flag' = flag  BY <2>1, FlagStep
  <2>2. CASE t \in Cron /\ run.pc = "create" /\ daemon # "off" /\ ~flag /\ flag' = TRUE
    <3>1. \A u \in Cron : ~Busy(u)  BY <2>2 DEF Inv, OneScanAtATime
    <3>2. task'[t] = run /\ \A u \in Task : u # t => task'[u] = task[u]  BY <1>1
    <3>3. \A u \in Cron : Busy(u)' <=> u = t  BY <1>1, <2>2, <3>1, <3>2 DEF Busy
    <3>4. JobsWithDaemon'  BY <2>2 DEF JobsWithDaemon
    <3> QED  BY <2>2, <3>3, <3>4 DEF OneScanAtATime
  <2> QED  BY <2>1, <2>2
<1> QED  BY <1>2, <1>5, <1>6 DEF Inv

------------------------------------------------------------------------------
(***************************************************************************)
(* ORDER BY started_at DESC, rowid DESC has a first row, by the             *)
(* well-foundedness of strict inclusion on the sets of rows no older than   *)
(* each: so previous_completed_session answers a session, or none.          *)
(***************************************************************************)
LEMMA Newest ==
  ASSUME NEW ss \in Seq(Session), NEW S \in SUBSET (DOMAIN ss), S # {}
  PROVE  \E i \in S : \A j \in S : j = i \/ Newer(ss, i, j)
<1>1. IsFiniteSet(S) /\ S \subseteq Nat
  <2>1. DOMAIN ss = 1 .. Len(ss) /\ Len(ss) \in Nat  OBVIOUS
  <2>2. IsFiniteSet(1 .. Len(ss))  BY <2>1, FS_Interval
  <2>3. S \subseteq 1 .. Len(ss)  BY <2>1
  <2>4. IsFiniteSet(S)  BY <2>2, <2>3, FS_Subset
  <2> QED  BY <2>1, <2>3, <2>4
<1>2. \A i \in S : ss[i].start \in Nat /\ i \in Nat
  <2>1. \A i \in S : ss[i] \in Session  OBVIOUS
  <2> QED  BY <1>1, <2>1 DEF Session
<1> DEFINE From(i) == {j \in S : j = i \/ Newer(ss, j, i)}
           T == {From(i) : i \in S}
           R == StrictSubsetOrdering(S)
<1>3. IsWellFoundedOn(R, SUBSET S)
  BY <1>1, FS_StrictSubsetOrderingWellFounded, FS_FiniteSubsetsOfFinite
<1>4. T # {} /\ T \subseteq SUBSET S  OBVIOUS
<1>5. PICK u \in T : \A v \in T : <<v, u>> \notin R
  <2> HIDE DEF R, T
  <2> QED  BY <1>3, <1>4, WFMin
<1>6. PICK i \in S : u = From(i)  OBVIOUS
<1>7. ASSUME NEW j \in S, j # i, ~Newer(ss, i, j) PROVE FALSE
  <2>1. Newer(ss, j, i)  BY <1>2, <1>7 DEF Newer
  <2>2. \A k \in From(j) : k \in From(i)
    BY <1>2, <2>1 DEF Newer
  <2>3. i \in From(i) /\ i \notin From(j)  BY <1>2, <1>7 DEF Newer
  <2>4. From(j) \subseteq From(i) /\ From(j) # From(i)  BY <2>2, <2>3
  <2>5. From(j) \in SUBSET S /\ From(i) \in SUBSET S /\ From(j) \in T  OBVIOUS
  <2> HIDE DEF From, T
  <2> QED  BY <1>5, <1>6, <2>4, <2>5 DEF StrictSubsetOrdering
<1> QED  BY <1>7

LEMMA PreviousType ==
  ASSUME NEW ss \in Seq(Session), NEW h, NEW exclude
  PROVE  PreviousCompleted(ss, h, exclude) \in 0 .. Len(ss)
<1> DEFINE others == NewestTwo(ss, h) \ {exclude}
<1>1. others \in SUBSET (DOMAIN ss)  BY DEF NewestTwo, Completed
<1>2. DOMAIN ss \subseteq 0 .. Len(ss) /\ 0 \in 0 .. Len(ss)
  <2>1. DOMAIN ss = 1 .. Len(ss) /\ Len(ss) \in Nat  OBVIOUS
  <2> QED  BY <2>1
<1>3. CASE others = {}  BY <1>2, <1>3 DEF PreviousCompleted
<1>4. CASE others # {}
  <2> HIDE DEF others
  <2>1. \E i \in others : \A j \in others : j = i \/ Newer(ss, i, j)
    BY <1>1, <1>4, Newest
  <2>2. (CHOOSE i \in others : \A j \in others : j = i \/ Newer(ss, i, j)) \in others
    BY <2>1
  <2> QED  BY <1>1, <1>2, <1>4, <2>2 DEF PreviousCompleted, others
<1> QED  BY <1>3, <1>4

------------------------------------------------------------------------------
(* The steps of a task. *)

LEMMA CreateSessionStep ==
  ASSUME Inv, NEW t \in Task, CreateSession(t)  PROVE Inv'
<1>1. task[t].pc = "create" /\ Busy(t)  BY DEF CreateSession, Busy
<1>2. CASE Abandons(t) /\ UNCHANGED sessions
  <2>1. UNCHANGED <<now, sessions, daemon>>  BY <1>2 DEF CreateSession
  <2> QED  BY <1>1, <1>2, <2>1, AbandonsStep
<1>3. CASE ~(Abandons(t) /\ UNCHANGED sessions)
  <2> DEFINE start == IF t \in Runner THEN now ELSE task[t].start
             row == Created(task[t].host, start)
             pc == IF t \in Runner THEN "scan" ELSE "complete"
             run == [task[t] EXCEPT !.pc = pc, !.session = Len(sessions) + 1, !.start = start]
             ss == Append(sessions, row)
  <2>1. task' = [task EXCEPT ![t] = run] /\ sessions' = ss
        /\ UNCHANGED <<now, daemon, flag, abandoned>>
    BY <1>3 DEF CreateSession, Becomes
  <2>2. now \in Nat /\ task \in [Task -> Run] /\ task[t] \in Run /\ abandoned \in SUBSET Nat
        /\ sessions \in Seq(Session) /\ Len(sessions) \in Nat
    BY DEF Inv, TypeOK
  <2>3. start \in Nat /\ task[t].host \in Host  BY <2>2, RunFields
  <2>4. row \in Session  BY <2>3, CreatedType
  <2>5. run \in Run /\ run.session = Len(sessions) + 1 /\ run.pc = pc
    <3>1. pc \in PC  BY DEF PC
    <3>2. Len(sessions) + 1 \in Nat  BY <2>2
    <3> HIDE DEF pc, start
    <3> QED  BY <2>2, <2>3, <3>1, <3>2 DEF Run
  <2>6. ss \in Seq(Session) /\ Len(ss) = Len(sessions) + 1 /\ ss[Len(sessions) + 1] = row
        /\ \A i \in DOMAIN sessions : ss[i] = sessions[i]
    <3> HIDE DEF row
    <3> QED  BY <2>2, <2>4
  <2>7. row.rows = {}  BY DEF Created
  <2>8. run.session = Len(sessions) + 1 /\ run.pc = IF t \in Runner THEN "scan" ELSE "complete"
    BY <2>5
  <2> HIDE DEF start, row, pc, run, ss
  <2>9. StageOf(t, run, ss)  BY <2>2, <2>6, <2>7, <2>8 DEF StageOf
  <2>10. task[t].session = 0
    <3>1. StageOf(t, task[t], sessions)  BY Standing
    <3> QED  BY <1>1, <3>1 DEF StageOf
  <2>11. DOMAIN ss = 1 .. Len(ss) /\ DOMAIN sessions = 1 .. Len(sessions)  BY <2>2, <2>6
  <2>12. \A i \in DOMAIN ss \ DOMAIN sessions : i = run.session  BY <2>2, <2>6, <2>8, <2>11
  <2>13. Len(ss) >= Len(sessions) /\ run.session > Len(sessions)  BY <2>2, <2>6, <2>8
  <2>14. Stage' /\ Alone' /\ SessionsSettle'
    <3>1. abandoned' = abandoned  BY <2>1
    <3> QED  BY <2>1, <2>2, <2>5, <2>6, <2>9, <2>10, <2>12, <2>13, <3>1, TaskStep
  <2>15. OneScanAtATime' /\ JobsWithDaemon'
    <3>1. run.pc # "idle"  BY <2>8
    <3>2. flag' = flag /\ daemon' = daemon  BY <2>1
    <3> QED  BY <1>1, <2>1, <2>5, <3>1, <3>2, FlagStep
  <2>16. TypeOK'  BY <2>1, <2>2, <2>5, <2>6 DEF Inv, TypeOK
  <2> QED  BY <2>14, <2>15, <2>16 DEF Inv
<1> QED  BY <1>2, <1>3

LEMMA ScanStep ==
  ASSUME Inv, NEW t \in Task, Scan(t)  PROVE Inv'
<1>1. task[t].pc = "scan" /\ Busy(t) /\ UNCHANGED <<now, flag, daemon, abandoned>>
      /\ sessions' = sessions
  BY DEF Scan, Busy
<1>2. task[t] \in Run /\ StageOf(t, task[t], sessions) /\ sessions \in Seq(Session)
  BY Standing
<1>3. ASSUME NEW run \in Run, task' = [task EXCEPT ![t] = run], run.session = task[t].session,
             \/ run.pc = "create" /\ t \notin Runner
             \/ run.pc \in {"export", "fail"} /\ t \in Runner
      PROVE  Inv'
  <2>1. StageOf(t, run, sessions)  BY <1>1, <1>2, <1>3 DEF StageOf
  <2>2. run.pc # "idle"  BY <1>3
  <2> QED  BY <1>1, <1>2, <1>3, <2>1, <2>2, GoesOn
<1>4. ASSUME NEW truth \in SUBSET Finding, NEW covered \in Covers(t),
             Becomes(t, [task[t] EXCEPT !.pc = IF t \in Runner THEN "export" ELSE "create",
                                        !.found = Recorded(t, truth, covered),
                                        !.truth = truth,
                                        !.whole = covered = Plugin])
      PROVE  Inv'
  <2> DEFINE found == Recorded(t, truth, covered)
             whole == covered = Plugin
             run == [task[t] EXCEPT !.pc = IF t \in Runner THEN "export" ELSE "create",
                                    !.found = found, !.truth = truth, !.whole = whole]
  <2>1. found \in SUBSET Finding  BY DEF Recorded, AtLeast
  <2>2. whole \in BOOLEAN  OBVIOUS
  <2>3. task' = [task EXCEPT ![t] = run]  BY <1>4 DEF Becomes
  <2>4. (IF t \in Runner THEN "export" ELSE "create") \in PC  BY DEF PC
  <2> HIDE DEF found, whole
  <2>5. /\ run \in Run /\ run.session = task[t].session
        /\ run.pc = IF t \in Runner THEN "export" ELSE "create"
    BY <1>2, <2>1, <2>2, <2>4 DEF Run
  <2> QED  BY <1>3, <2>3, <2>5
<1>5. CASE t \in Runner /\ Goto(t, "fail")
  <2> DEFINE run == [task[t] EXCEPT !.pc = "fail"]
  <2>1. run \in Run /\ run.session = task[t].session /\ run.pc = "fail"
    BY <1>2 DEF Run, PC
  <2>2. task' = [task EXCEPT ![t] = run]  BY <1>5 DEF Goto, Becomes
  <2> QED  BY <1>3, <1>5, <2>1, <2>2
<1> QED  BY <1>4, <1>5 DEF Scan

LEMMA FailSessionStep ==
  ASSUME Inv, NEW t \in Task, FailSession(t)  PROVE Inv'
<1>1. task[t].pc = "fail" /\ Busy(t) /\ UNCHANGED <<now, daemon>>  BY DEF FailSession, Busy
<1>2. CASE Abandons(t) /\ UNCHANGED sessions
  BY <1>1, <1>2, AbandonsStep
<1>3. CASE ~(Abandons(t) /\ UNCHANGED sessions)
  <2> DEFINE i == task[t].session
             row == [sessions[i] EXCEPT !.status = "failed"]
             ss == [sessions EXCEPT ![i] = row]
  <2>1. sessions' = ss /\ Ends(t) /\ abandoned' = abandoned  BY <1>3 DEF FailSession
  <2>2. sessions \in Seq(Session) /\ abandoned \in SUBSET Nat  BY DEF Inv, TypeOK
  <2>3. i \in DOMAIN sessions /\ sessions[i] \in Session /\ i \in Nat
    <3>1. StageOf(t, task[t], sessions)  BY Standing
    <3>2. i # 0  BY <1>1, <3>1 DEF StageOf
    <3> QED  BY <3>2, Standing, RunFields
  <2>4. row \in Session /\ Settled(row)  BY <2>3 DEF Session, Status, Settled
  <2> HIDE DEF row
  <2>5. ss \in Seq(Session) /\ Len(ss) = Len(sessions)  BY <2>2, <2>3, <2>4, ChangedType
  <2>6. Settled(ss[i]) /\ \A j \in DOMAIN sessions : j # i => ss[j] = sessions[j]
    BY <2>2, <2>3, <2>4
  <2> HIDE DEF ss
  <2> QED  BY <1>1, <2>1, <2>2, <2>5, <2>6, Returns
<1> QED  BY <1>2, <1>3

\* A run whose position alone changes, on the history as it is.
LEMMA GotoStep ==
  ASSUME Inv, NEW t \in Task, NEW pc \in PC, Busy(t), pc # "idle", Goto(t, pc),
         task[t].session # 0, pc \in {"complete", "fail", "lookup"},
         pc = "complete" => task[t].pc = "export",
         pc = "lookup" => task[t].pc = "insert" /\ task[t].left = {},
         UNCHANGED <<now, sessions, flag, daemon, abandoned>>
  PROVE  Inv'
<1>1. task[t] \in Run /\ StageOf(t, task[t], sessions) /\ sessions \in Seq(Session)
  BY Standing
<1> DEFINE run == [task[t] EXCEPT !.pc = pc]
<1>2. run \in Run /\ run.session = task[t].session /\ run.pc = pc
  BY <1>1 DEF Run
<1>3. task' = [task EXCEPT ![t] = run]  BY DEF Goto, Becomes
<1> HIDE DEF run
<1>4. StageOf(t, run, sessions)
  <2>1. pc = "lookup" =>
          /\ sessions[task[t].session].status = "completed"
          /\ sessions[task[t].session].counts = Counts(sessions[task[t].session].rows)
    <3>1. ASSUME pc = "lookup" PROVE task[t].found \ task[t].left = task[t].found
      BY <3>1
    <3> QED  BY <1>1, <3>1 DEF StageOf
  <2>2. pc = "complete" => sessions[task[t].session].rows = {}  BY <1>1 DEF StageOf
  <2>3. task[t].session \in 0 .. Len(sessions)  BY <1>1 DEF StageOf
  <2> QED  BY <1>2, <2>1, <2>2, <2>3 DEF StageOf
<1>5. sessions' = sessions  OBVIOUS
<1> QED  BY <1>1, <1>2, <1>3, <1>4, <1>5, GoesOn

\* A task past its scan has a session.
LEMMA HasSession ==
  ASSUME Inv, NEW t \in Task,
         task[t].pc \in {"export", "fail", "complete", "insert", "lookup", "dispatch"}
  PROVE  /\ task[t].session # 0 /\ task[t].session \in DOMAIN sessions
         /\ sessions[task[t].session] \in Session
<1>1. StageOf(t, task[t], sessions)  BY Standing
<1>2. task[t].session # 0  BY <1>1 DEF StageOf
<1> QED  BY <1>2, Standing

LEMMA ExportStep ==
  ASSUME Inv, NEW t \in Task, Export(t)  PROVE Inv'
<1>1. task[t].pc = "export" /\ Busy(t) /\ UNCHANGED <<now, sessions, daemon>>
  BY DEF Export, Busy
<1>2. CASE Abandons(t)  BY <1>1, <1>2, AbandonsStep
<1>3. CASE Goto(t, "complete") /\ UNCHANGED <<flag, abandoned>>
  <2>1. "complete" \in PC  BY DEF PC
  <2>2. task[t].session # 0  BY <1>1, HasSession
  <2> QED  BY <1>1, <1>3, <2>1, <2>2, GotoStep
<1> QED  BY <1>2, <1>3 DEF Export

LEMMA FaltersStep ==
  ASSUME Inv, NEW t \in Task, task[t].pc \in {"complete", "insert"}, Falters(t),
         UNCHANGED <<now, sessions, daemon>>
  PROVE Inv'
<1>1. Busy(t)  BY DEF Busy
<1>2. CASE Abandons(t)  BY <1>1, <1>2, AbandonsStep
<1>3. CASE Goto(t, "fail") /\ UNCHANGED <<flag, abandoned>>
  <2>1. "fail" \in PC  BY DEF PC
  <2>2. task[t].session # 0  BY HasSession
  <2> QED  BY <1>1, <1>3, <2>1, <2>2, GotoStep
<1> QED  BY <1>2, <1>3 DEF Falters

LEMMA CompleteStep ==
  ASSUME Inv, NEW t \in Task, Complete(t)  PROVE Inv'
<1>1. task[t].pc = "complete" /\ Busy(t) /\ UNCHANGED <<now, daemon>>  BY DEF Complete, Busy
<1>2. CASE Falters(t) /\ UNCHANGED sessions
  BY <1>1, <1>2, FaltersStep
<1>3. CASE ~(Falters(t) /\ UNCHANGED sessions)
  <2> DEFINE i == task[t].session
             counts == Counts(task[t].found)
             row == [sessions[i] EXCEPT !.status = "completed", !.counts = counts,
                                        !.truth = task[t].truth, !.whole = task[t].whole]
             ss == [sessions EXCEPT ![i] = row]
             run == [task[t] EXCEPT !.pc = "insert", !.left = task[t].found]
  <2>1. sessions' = ss /\ task' = [task EXCEPT ![t] = run] /\ UNCHANGED <<flag, abandoned>>
    BY <1>3 DEF Complete, Becomes
  <2>2. sessions \in Seq(Session) /\ task[t] \in Run /\ StageOf(t, task[t], sessions)
    BY Standing
  <2>3. i # 0 /\ i \in DOMAIN sessions /\ sessions[i] \in Session /\ i \in Nat
    BY <1>1, <2>2, HasSession, RunFields
  <2>4. /\ task[t].found \in SUBSET Finding /\ task[t].truth \in SUBSET Finding
        /\ task[t].whole \in BOOLEAN
    BY <2>2, RunFields
  <2>5. counts \in Tuple  BY <2>4, CountsType
  <2>6. /\ run \in Run /\ run.pc = "insert" /\ run.session = i
        /\ run.found = task[t].found /\ run.left = task[t].found
    BY <2>2, <2>4 DEF Run, PC
  <2> HIDE DEF counts
  <2>7. /\ row \in Session /\ row.status = "completed" /\ row.counts = counts
        /\ row.rows = sessions[i].rows
    BY <2>3, <2>4, <2>5 DEF Session, Status
  <2>8. sessions[i].rows = {}  BY <1>1, <2>2, <2>3 DEF StageOf
  <2> HIDE DEF row, run
  <2>9. ss \in Seq(Session) /\ Len(ss) = Len(sessions)  BY <2>2, <2>3, <2>7, ChangedType
  <2>10. ss[i] = row /\ \A j \in DOMAIN sessions : j # i => ss[j] = sessions[j]
    BY <2>2, <2>3
  <2>11. StageOf(t, run, ss)
    <3>1. i \in 0 .. Len(ss)  BY <2>2, <2>9 DEF StageOf
    <3> HIDE DEF ss
    <3> QED  BY <2>3, <2>6, <2>7, <2>8, <2>10, <3>1 DEF StageOf, counts
  <2> HIDE DEF ss
  <2> QED  BY <1>1, <2>1, <2>6, <2>9, <2>10, <2>11, GoesOn
<1> QED  BY <1>2, <1>3

LEMMA InsertStep ==
  ASSUME Inv, NEW t \in Task, Insert(t)  PROVE Inv'
<1>1. task[t].pc = "insert" /\ Busy(t) /\ UNCHANGED <<now, daemon>>  BY DEF Insert, Busy
<1>2. CASE Falters(t) /\ UNCHANGED sessions
  BY <1>1, <1>2, FaltersStep
<1>3. CASE ~(Falters(t) /\ UNCHANGED sessions)
  <2> DEFINE i == task[t].session
  <2>1. PICK f \in task[t].left :
          /\ sessions' = [sessions EXCEPT ![i] = [sessions[i] EXCEPT !.rows = @ \cup {f}]]
          /\ Becomes(t, [task[t] EXCEPT !.left = @ \ {f}])
          /\ UNCHANGED <<flag, abandoned>>
    BY <1>3 DEF Insert
  <2> DEFINE rows == sessions[i].rows \cup {f}
             row == [sessions[i] EXCEPT !.rows = rows]
             ss == [sessions EXCEPT ![i] = row]
             left == task[t].left \ {f}
             run == [task[t] EXCEPT !.left = left]
  <2>2. sessions \in Seq(Session) /\ task[t] \in Run /\ StageOf(t, task[t], sessions)
    BY Standing
  <2>3. i # 0 /\ i \in DOMAIN sessions /\ sessions[i] \in Session /\ i \in Nat
    BY <1>1, <2>2, HasSession, RunFields
  <2>4. sessions' = ss /\ task' = [task EXCEPT ![t] = run]
    BY <2>1 DEF Becomes
  <2>5. task[t].found \in SUBSET Finding /\ task[t].left \in SUBSET Finding
        /\ sessions[i].rows \in SUBSET Finding
    BY <2>2, <2>3, RunFields DEF Session
  <2>6. rows \in SUBSET Finding /\ left \in SUBSET Finding  BY <2>5
  <2>7. /\ sessions[i].status = "completed" /\ sessions[i].counts = Counts(task[t].found)
        /\ sessions[i].rows = task[t].found \ task[t].left
        /\ task[t].left \subseteq task[t].found
    BY <1>1, <2>2 DEF StageOf
  <2>8. rows = task[t].found \ left /\ left \subseteq task[t].found  BY <2>7
  <2> HIDE DEF rows, left
  <2>9. run \in Run /\ run.pc = "insert" /\ run.session = i
        /\ run.found = task[t].found /\ run.left = left
    BY <1>1, <2>2, <2>6 DEF Run, PC
  <2>10. row \in Session /\ row.status = "completed" /\ row.rows = rows
         /\ row.counts = Counts(task[t].found)
    BY <2>3, <2>6, <2>7 DEF Session
  <2> HIDE DEF row, run
  <2>11. ss \in Seq(Session) /\ Len(ss) = Len(sessions)  BY <2>2, <2>3, <2>10, ChangedType
  <2>12. ss[i] = row /\ \A j \in DOMAIN sessions : j # i => ss[j] = sessions[j]
    BY <2>2, <2>3
  <2>13. StageOf(t, run, ss)
    <3>1. i \in 0 .. Len(ss)  BY <2>2, <2>11 DEF StageOf
    <3> HIDE DEF ss
    <3> QED  BY <2>3, <2>8, <2>9, <2>10, <2>12, <3>1 DEF StageOf
  <2>14. run.pc # "idle" /\ UNCHANGED <<now, flag, daemon, abandoned>>  BY <1>1, <2>1, <2>9
  <2> HIDE DEF ss
  <2> QED  BY <1>1, <2>4, <2>9, <2>11, <2>12, <2>13, <2>14, GoesOn
<1> QED  BY <1>2, <1>3

LEMMA InsertedStep ==
  ASSUME Inv, NEW t \in Task, Inserted(t)  PROVE Inv'
<1>1. task[t].pc = "insert" /\ task[t].left = {} /\ Busy(t)
      /\ UNCHANGED <<now, sessions, daemon, abandoned>>
  BY DEF Inserted, Busy
<1>2. sessions \in Seq(Session) /\ task[t] \in Run /\ StageOf(t, task[t], sessions)
      /\ abandoned \in SUBSET Nat
  BY Standing DEF Inv, TypeOK
<1>3. task[t].session # 0  BY <1>1, HasSession
<1>4. CASE t \in Runner
  <2>1. Goto(t, "lookup") /\ flag' = flag  BY <1>4 DEF Inserted
  <2>2. "lookup" \in PC  BY DEF PC
  <2> QED  BY <1>1, <1>3, <2>1, <2>2, GotoStep
<1>5. CASE t \notin Runner
  <2>1. Ends(t)  BY <1>5 DEF Inserted
  <2>2. Settled(sessions[task[t].session])
    <3>1. task[t].found \ task[t].left = task[t].found  BY <1>1
    <3> QED  BY <1>1, <1>2, <3>1 DEF StageOf, Settled
  <2>3. sessions' = sessions /\ abandoned' = abandoned  BY <1>1
  <2> QED  BY <1>1, <1>2, <2>1, <2>2, <2>3, Returns
<1> QED  BY <1>4, <1>5

LEMMA LookupStep ==
  ASSUME Inv, NEW t \in Task, Lookup(t)  PROVE Inv'
<1>1. task[t].pc = "lookup" /\ Busy(t) /\ UNCHANGED <<now, flag, daemon, abandoned>>
      /\ sessions' = sessions
  BY DEF Lookup, Busy
<1>2. sessions \in Seq(Session) /\ task[t] \in Run /\ StageOf(t, task[t], sessions)
  BY Standing
<1>3. PICK previous \in {PreviousCompleted(sessions, task[t].host, task[t].session)}
                          \cup (IF Faults THEN {0} ELSE {}) :
        Becomes(t, [task[t] EXCEPT !.pc = "dispatch", !.previous = previous])
  BY DEF Lookup
<1>4. previous \in Nat
  <2>1. PreviousCompleted(sessions, task[t].host, task[t].session) \in Nat
    BY <1>2, PreviousType
  <2> QED  BY <1>3, <2>1
<1> DEFINE run == [task[t] EXCEPT !.pc = "dispatch", !.previous = previous]
<1>5. run \in Run /\ run.pc = "dispatch" /\ run.session = task[t].session
  BY <1>2, <1>4 DEF Run, PC
<1>6. task' = [task EXCEPT ![t] = run]  BY <1>3 DEF Becomes
<1> HIDE DEF run
<1>7. StageOf(t, run, sessions)  BY <1>1, <1>2, <1>5 DEF StageOf
<1> QED  BY <1>1, <1>2, <1>5, <1>6, <1>7, GoesOn

LEMMA DispatchStep ==
  ASSUME Inv, NEW t \in Task, Dispatch(t)  PROVE Inv'
<1>1. task[t].pc = "dispatch" /\ Busy(t) /\ UNCHANGED <<now, daemon>>
      /\ Ends(t) /\ abandoned' = abandoned
  BY DEF Dispatch, Busy
<1>2. sessions \in Seq(Session) /\ task[t] \in Run /\ StageOf(t, task[t], sessions)
      /\ abandoned \in SUBSET Nat
  BY Standing DEF Inv, TypeOK
<1> DEFINE i == task[t].session
           verdict == Verdict(t)
           row == [sessions[i] EXCEPT !.told = verdict]
           ss == [sessions EXCEPT ![i] = row]
<1>3. sessions' = ss  BY DEF Dispatch
<1>4. i \in DOMAIN sessions /\ sessions[i] \in Session /\ i \in Nat
  BY <1>1, <1>2, HasSession, RunFields
<1>5. verdict \in Told  BY DEF Verdict, Told
<1>6. sessions[i].status = "completed" /\ sessions[i].counts = Counts(sessions[i].rows)
  BY <1>1, <1>2 DEF StageOf
<1> HIDE DEF verdict
<1>7. row \in Session /\ Settled(row)  BY <1>4, <1>5, <1>6 DEF Session, Settled
<1> HIDE DEF row
<1>8. ss \in Seq(Session) /\ Len(ss) = Len(sessions)  BY <1>2, <1>4, <1>7, ChangedType
<1>9. Settled(ss[i]) /\ \A j \in DOMAIN sessions : j # i => ss[j] = sessions[j]
  BY <1>2, <1>4, <1>7
<1> HIDE DEF ss
<1> QED  BY <1>1, <1>2, <1>3, <1>8, <1>9, Returns

------------------------------------------------------------------------------
(* The steps of the daemon and of the rest, and the theorems. *)

\* The daemon's process ends: its jobs return to rest together, the flag with
\* them, and their sessions are abandoned.
LEMMA DaemonEndsStep ==
  ASSUME Inv, DaemonEnds  PROVE Inv'
<1> DEFINE ended == {task[t].session : t \in Cron} \ {0}
<1>1. task \in [Task -> Run] /\ sessions \in Seq(Session) /\ abandoned \in SUBSET Nat
      /\ Cron \subseteq Task /\ now \in Nat
  BY DEF Inv, TypeOK, Task, Runner
<1>2. \A t \in Task : /\ task[t].session \in Nat
                      /\ StageOf(t, task[t], sessions)
  BY <1>1, RunFields DEF Inv, Stage
<1>3. /\ flag' = FALSE /\ daemon' = "off" /\ abandoned' = abandoned \cup ended
      /\ task' = [t \in Task |-> IF t \in Cron /\ Busy(t) THEN Rest ELSE task[t]]
      /\ sessions' = sessions /\ now' = now
  BY DEF DaemonEnds
<1>4. ended \in SUBSET Nat  BY <1>1, <1>2
<1>5. Rest \in Run /\ Rest.pc = "idle" /\ Rest.session = 0  BY RestType DEF Rest
<1>6. \A t \in Task : task'[t] = IF t \in Cron /\ Busy(t) THEN Rest ELSE task[t]
  BY <1>3
<1>7. TypeOK'  BY <1>1, <1>3, <1>4, <1>5 DEF TypeOK
<1>8. OneScanAtATime' /\ JobsWithDaemon'
  <2>1. \A t \in Cron : task'[t].pc = "idle"  BY <1>1, <1>5, <1>6 DEF Busy
  <2> QED  BY <1>3, <2>1 DEF OneScanAtATime, JobsWithDaemon, Busy
<1>9. Stage'
  <2>1. ASSUME NEW t \in Task PROVE StageOf(t, task'[t], sessions)
    <3>1. StageOf(t, Rest, sessions)
      <4>1. 0 \in 0 .. Len(sessions)  BY <1>1
      <4> QED  BY <1>5, <4>1 DEF StageOf
    <3> QED  BY <3>1, <1>2, <1>6
  <2> QED  BY <2>1, <1>3 DEF Stage, StageOf
<1>10. Alone'
  <2>1. ASSUME NEW t \in Task, NEW u \in Task, t # u, task'[t].session = task'[u].session
        PROVE  task'[t].session = 0
    BY <2>1, <1>5, <1>6 DEF Inv, Alone
  <2> QED  BY <2>1 DEF Alone
<1>11. SessionsSettle'
  <2> SUFFICES ASSUME NEW i \in DOMAIN sessions, i \notin Owned', i \notin abandoned \cup ended
               PROVE  Settled(sessions[i])
    BY <1>3 DEF SessionsSettle, Settled
  <2>1. i # 0
    <3>1. DOMAIN sessions = 1 .. Len(sessions)  BY <1>1
    <3> QED  BY <3>1
  <2>2. \A t \in Task : task'[t].session # i  BY DEF Owned
  <2>3. \A t \in Task : task[t].session # i  BY <2>1, <2>2, <1>6
  <2>4. i \notin Owned  BY <2>3 DEF Owned
  <2> QED  BY <2>4 DEF Inv, SessionsSettle, Settled
<1> QED  BY <1>7, <1>8, <1>9, <1>10, <1>11 DEF Inv

\* What Inv is about is the history, the tasks, the flag and the abandoned.
LEMMA Elsewhere ==
  ASSUME Inv, UNCHANGED <<sessions, task, abandoned, flag>>, TypeOK',
         daemon' = "off" => daemon = "off"
  PROVE  Inv'
<1>1. OneScanAtATime' /\ JobsWithDaemon'
  BY DEF Inv, OneScanAtATime, JobsWithDaemon, Busy
<1>2. Stage' /\ Alone'  BY DEF Inv, Stage, StageOf, Alone
<1>3. SessionsSettle'  BY DEF Inv, SessionsSettle, Owned
<1> QED  BY <1>1, <1>2, <1>3 DEF Inv

LEMMA DiesStep ==
  ASSUME Inv, NEW t \in Task, Dies(t)  PROVE Inv'
<1> DEFINE gone == abandoned \cup ({task[t].session} \ {0})
<1>1. /\ t \notin Cron /\ Busy(t) /\ task' = [task EXCEPT ![t] = Rest]
      /\ abandoned' = gone /\ sessions' = sessions /\ flag' = flag
      /\ now' = now /\ daemon' = daemon
  BY DEF Dies, Becomes
<1>2. task \in [Task -> Run] /\ sessions \in Seq(Session) /\ abandoned \in SUBSET Nat
      /\ task[t].session \in Nat
  BY RunFields DEF Inv, TypeOK
<1>3. gone \in SUBSET Nat /\ abandoned \subseteq gone
      /\ task[t].session \in {0, Rest.session} \cup gone  BY <1>2
<1> HIDE DEF gone
<1>4. Rest \in Run /\ Rest.pc = "idle" /\ Rest.session = 0  BY RestType DEF Rest
<1>5. StageOf(t, Rest, sessions)
  <2>1. 0 \in 0 .. Len(sessions)  BY <1>2
  <2> QED  BY <1>4, <2>1 DEF StageOf
<1>6. Stage' /\ Alone' /\ SessionsSettle'
  <2>1. Len(sessions) >= Len(sessions)  BY <1>2
  <2> QED  BY <1>1, <1>2, <1>3, <1>4, <1>5, <2>1, TaskStep
<1>7. OneScanAtATime' /\ JobsWithDaemon'  BY <1>1, <1>4, FlagStep
<1>8. TypeOK'  BY <1>1, <1>2, <1>3, <1>4 DEF Inv, TypeOK
<1> QED  BY <1>6, <1>7, <1>8 DEF Inv

LEMMA InvInit ==
  ASSUME Init  PROVE Inv
<1>1. Rest \in Run /\ Rest.pc = "idle" /\ Rest.session = 0  BY RestType DEF Rest
<1>2. sessions = Stored /\ sessions \in Seq(Session) /\ Len(sessions) \in Nat
  <2>1. sessions = Stored  BY DEF Init
  <2>2. Stored \in Seq(Session)  BY StoredAssumption
  <2> QED  BY <2>1, <2>2
<1>3. \A t \in Task : task[t] = Rest  BY DEF Init
<1>4. TypeOK  BY <1>1, <1>2 DEF Init, TypeOK
<1>5. OneScanAtATime /\ JobsWithDaemon
  <2>1. Cron \subseteq Task  BY DEF Task, Runner
  <2> QED  BY <1>1, <1>3, <2>1 DEF OneScanAtATime, JobsWithDaemon, Busy, Init
<1>6. Stage
  <2>1. 0 \in 0 .. Len(sessions)  BY <1>2
  <2> QED  BY <1>1, <1>3, <2>1 DEF Stage, StageOf
<1>7. Alone  BY <1>1, <1>3 DEF Alone
<1>8. SessionsSettle  BY <1>2, StoredAssumption DEF SessionsSettle
<1> QED  BY <1>4, <1>5, <1>6, <1>7, <1>8 DEF Inv

\* A task that begins carries nothing yet but its host and its time.
LEMMA BegunType ==
  ASSUME NEW h \in Host, NEW start \in Nat, NEW pc \in PC
  PROVE  LET run == [Rest EXCEPT !.pc = pc, !.host = h, !.start = start]
         IN  run \in Run /\ run.pc = pc /\ run.session = 0
BY RestType DEF Rest, Run

LEMMA InvNext ==
  ASSUME Inv, Next  PROVE Inv'
<1>1. CASE Start
  <2>1. TypeOK'  BY <1>1 DEF Start, Inv, TypeOK
  <2>2. flag = FALSE
    <3>1. flag \in BOOLEAN  BY DEF Inv, TypeOK
    <3>2. ~ \E t \in Cron : Busy(t)  BY <1>1 DEF Start, Inv, JobsWithDaemon
    <3> QED  BY <3>1, <3>2 DEF Inv, OneScanAtATime
  <2>3. UNCHANGED <<sessions, task, abandoned, flag>> /\ daemon' = "running"
    BY <1>1, <2>2 DEF Start
  <2> QED  BY <2>1, <2>3, Elsewhere
<1>2. CASE Signal \/ Poll
  <2>1. TypeOK' /\ UNCHANGED <<sessions, task, abandoned, flag>> /\ daemon' # "off"
    BY <1>2 DEF Signal, Poll, Inv, TypeOK
  <2> QED  BY <2>1, Elsewhere
<1>3. CASE Shutdown \/ DaemonDies
  BY <1>3, DaemonEndsStep DEF Shutdown, DaemonDies
<1> DEFINE run == [Rest EXCEPT !.pc = "create"]
<1>4. run \in Run /\ run.pc = "create" /\ run.session = 0
  BY RestType DEF Rest, Run, PC
<1>5. ASSUME NEW t \in Cron, CronTick(t) PROVE Inv'
  <2>1. t \in Task  BY DEF Task, Runner
  <2>2. ~Busy(t) /\ task' = [task EXCEPT ![t] = run]
        /\ UNCHANGED <<now, sessions, daemon, abandoned>>
        /\ daemon # "off" /\ ~flag /\ flag' = TRUE
    BY <1>5 DEF CronTick, Becomes
  <2> HIDE DEF run
  <2> QED  BY <1>4, <2>1, <2>2, Begins
<1>6. ASSUME NEW t \in Manual, RunOnce(t) PROVE Inv'
  <2>1. t \in Task /\ t \notin Cron  BY DaemonAssumption DEF Task, Runner
  <2>2. ~Busy(t) /\ task' = [task EXCEPT ![t] = run] /\ flag' = flag
        /\ UNCHANGED <<now, sessions, daemon, abandoned>>
    BY <1>6 DEF RunOnce, Becomes
  <2> HIDE DEF run
  <2> QED  BY <1>4, <2>1, <2>2, Begins
<1>7. ASSUME NEW t \in Cli \cup Batch, CommandBegins(t) PROVE Inv'
  <2>1. PICK h \in Host :
          Becomes(t, [Rest EXCEPT !.pc = "scan", !.host = h, !.start = now])
    BY <1>7 DEF CommandBegins
  <2> DEFINE begun == [Rest EXCEPT !.pc = "scan", !.host = h, !.start = now]
  <2>2. now \in Nat /\ "scan" \in PC  BY DEF Inv, TypeOK, PC
  <2>3. begun \in Run /\ begun.pc = "scan" /\ begun.session = 0  BY <2>2, BegunType
  <2>4. t \in Task /\ t \notin Runner /\ t \notin Cron  BY DaemonAssumption DEF Task, Runner
  <2>5. ~Busy(t) /\ task' = [task EXCEPT ![t] = begun] /\ flag' = flag
        /\ UNCHANGED <<now, sessions, daemon, abandoned>>
    BY <1>7, <2>1 DEF CommandBegins, Becomes
  <2> HIDE DEF begun
  <2> QED  BY <2>3, <2>4, <2>5, Begins
<1>8. ASSUME NEW t \in Task, RunStep(t) \/ Dies(t) PROVE Inv'
  BY <1>8, CreateSessionStep, ScanStep, FailSessionStep, ExportStep, CompleteStep,
     InsertStep, InsertedStep, LookupStep, DispatchStep, DiesStep DEF RunStep
<1>9. CASE Tick
  <2>1. TypeOK' /\ UNCHANGED <<sessions, task, abandoned, flag, daemon>>
    BY <1>9 DEF Tick, Inv, TypeOK
  <2> QED  BY <2>1, Elsewhere
<1> QED  BY <1>1, <1>2, <1>3, <1>5, <1>6, <1>7, <1>8, <1>9 DEF Next

LEMMA InvStutter ==
  ASSUME Inv, UNCHANGED vars  PROVE Inv'
<1>1. TypeOK' /\ UNCHANGED <<sessions, task, abandoned, flag, daemon>>
  BY DEF vars, Inv, TypeOK
<1> QED  BY <1>1, Elsewhere

LEMMA Invariant == Spec => []Inv
<1>1. Inv /\ [Next]_vars => Inv'  BY InvNext, InvStutter
<1> QED  BY <1>1, InvInit, PTL DEF Spec

\* Every variable of the scheduler keeps its type: previous_completed_session
\* always names a session or none, and every run and row stays well formed.
THEOREM TypeCorrect == Spec => []TypeOK
<1>1. Inv => TypeOK  BY DEF Inv
<1> QED  BY <1>1, Invariant, PTL

(***************************************************************************)
(* The compare-and-swap on scan_in_progress, and its clearing on every path *)
(* out of a job, admit one scheduled scan at a time and never leave the     *)
(* flag up: for any number of jobs, other processes, and deaths.            *)
(***************************************************************************)
THEOREM OneScheduledScan == Spec => []OneScanAtATime
<1>1. Inv => OneScanAtATime  BY DEF Inv
<1> QED  BY <1>1, Invariant, PTL

(***************************************************************************)
(* Every session of a history that any number of processes write, whose     *)
(* writer neither died nor met an error, is failed or has in scan_findings  *)
(* just what its counts in scan_sessions say.                               *)
(***************************************************************************)
THEOREM EverySessionSettles == Spec => []SessionsSettle
<1>1. Inv => SessionsSettle  BY DEF Inv
<1> QED  BY <1>1, Invariant, PTL

------------------------------------------------------------------------------
(***************************************************************************)
(* What an alert is decided from.  A row that covers the whole host counts, *)
(* from the daemon's threshold up, what the host was really like; a run     *)
(* looks back at a row of the history, and at none before its lookup; and   *)
(* no session that is still written is among the abandoned.                 *)
(***************************************************************************)

RowTrue(row) ==
  row.whole => \A s \in Severity : s >= MinSeverity => row.counts[s] = Counts(row.truth)[s]

RunTrue(t, run, ss) ==
  /\ run.whole => run.found = IF t \in Runner THEN AtLeast(run.truth, MinSeverity)
                              ELSE run.truth
  /\ run.previous \in 0 .. Len(ss)
  /\ run.previous # 0 => run.pc = "dispatch"

Truthful ==
  /\ \A i \in DOMAIN sessions : RowTrue(sessions[i])
  /\ \A t \in Task : RunTrue(t, task[t], sessions)

Living ==
  /\ abandoned \subseteq DOMAIN sessions
  /\ \A t \in Task : task[t].session \notin abandoned

\* A severity's count of the findings at or above a floor.
LEMMA CountsAtLeast ==
  ASSUME NEW found \in SUBSET Finding, NEW floor \in Severity, NEW s \in Severity
  PROVE  Counts(AtLeast(found, floor))[s] = IF s >= floor THEN Counts(found)[s] ELSE 0
<1>1. CASE s >= floor
  <2>1. {f \in AtLeast(found, floor) : SeverityOf[f] = s} = {f \in found : SeverityOf[f] = s}
    BY <1>1 DEF AtLeast
  <2> QED  BY <1>1, <2>1 DEF Counts
<1>2. CASE ~(s >= floor)
  <2>1. {f \in AtLeast(found, floor) : SeverityOf[f] = s} = {}
    BY <1>2 DEF AtLeast
  <2> QED  BY <1>2, <2>1, FS_EmptySet DEF Counts
<1> QED  BY <1>1, <1>2

\* A run's findings are counted as the host is, from the threshold up.
LEMMA CountedTruly ==
  ASSUME NEW truth \in SUBSET Finding, NEW t \in Task, NEW s \in Severity, s >= MinSeverity
  PROVE  Counts(IF t \in Runner THEN AtLeast(truth, MinSeverity) ELSE truth)[s]
           = Counts(truth)[s]
BY CountsAtLeast, DaemonAssumption

(***************************************************************************)
(* A step of one task, which goes on to `run`: it leaves its session as it  *)
(* is among the abandoned, or has none any more.                            *)
(***************************************************************************)
LEMMA TruthStep ==
  ASSUME Inv, Truthful, Living, NEW t \in Task, NEW run \in Run, NEW ss \in Seq(Session),
         task' = [task EXCEPT ![t] = run], sessions' = ss, Len(ss) >= Len(sessions),
         \A i \in DOMAIN ss : RowTrue(ss[i]), RunTrue(t, run, ss),
         \/ /\ abandoned' = abandoned
            /\ run.session \in {0, task[t].session} \/ run.session > Len(sessions)
         \/ /\ abandoned' = abandoned \cup ({task[t].session} \ {0})
            /\ run.session = 0
  PROVE  Truthful' /\ Living'
<1>1. task \in [Task -> Run] /\ sessions \in Seq(Session)  BY DEF Inv, TypeOK
<1>2. task'[t] = run /\ \A u \in Task : u # t => task'[u] = task[u]  BY <1>1
<1>3. /\ DOMAIN sessions = 1 .. Len(sessions) /\ DOMAIN ss = 1 .. Len(ss)
      /\ Len(sessions) \in Nat /\ Len(ss) \in Nat  BY <1>1
<1>4. \A u \in Task : task[u].session \in 0 .. Len(sessions)  BY DEF Inv, Stage, StageOf
<1>5. Truthful'
  <2>1. ASSUME NEW u \in Task PROVE RunTrue(u, task'[u], ss)
    <3>1. CASE u = t  BY <3>1, <1>2
    <3>2. CASE u # t
      <4>1. RunTrue(u, task[u], sessions) /\ task'[u] = task[u]
        BY <3>2, <1>2 DEF Truthful
      <4> QED  BY <4>1, <1>3 DEF RunTrue
    <3> QED  BY <3>1, <3>2
  <2> QED  BY <2>1 DEF Truthful, RunTrue, RowTrue
<1>6. abandoned' \subseteq DOMAIN ss  BY <1>3, <1>4 DEF Living
<1>7. ASSUME NEW u \in Task PROVE task'[u].session \notin abandoned'
  <2>1. CASE u = t  BY <2>1, <1>2, <1>3 DEF Living
  <2>2. CASE u # t
    <3>1. task[u].session = task[t].session => task[u].session = 0  BY <2>2 DEF Inv, Alone
    <3> QED  BY <3>1, <2>2, <1>2, <1>3 DEF Living
  <2> QED  BY <2>1, <2>2
<1> QED  BY <1>5, <1>6, <1>7 DEF Living

\* The same where the history's rows are left as they are.
LEMMA TruthOnly ==
  ASSUME Inv, Truthful, Living, NEW t \in Task, NEW run \in Run,
         task' = [task EXCEPT ![t] = run], sessions' = sessions, RunTrue(t, run, sessions),
         \/ /\ abandoned' = abandoned
            /\ run.session \in {0, task[t].session}
         \/ /\ abandoned' = abandoned \cup ({task[t].session} \ {0})
            /\ run.session = 0
  PROVE  Truthful' /\ Living'
<1>1. sessions \in Seq(Session) /\ Len(sessions) >= Len(sessions)  BY DEF Inv, TypeOK
<1>2. \A i \in DOMAIN sessions : RowTrue(sessions[i])  BY DEF Truthful
<1> QED  BY <1>1, <1>2, TruthStep

\* A task at rest owns nothing.
LEMMA RestTrue ==
  ASSUME NEW t \in Task, NEW ss \in Seq(Session)
  PROVE  Rest \in Run /\ RunTrue(t, Rest, ss) /\ Rest.session = 0
<1>1. 0 \in 0 .. Len(ss)  OBVIOUS
<1> QED  BY <1>1, RestType DEF Rest, RunTrue

LEMMA TruthRests ==
  ASSUME Inv, Truthful, Living, NEW t \in Task, NEW ss \in Seq(Session),
         task' = [task EXCEPT ![t] = Rest], sessions' = ss, Len(ss) >= Len(sessions),
         \A i \in DOMAIN ss : RowTrue(ss[i]),
         \/ abandoned' = abandoned
         \/ abandoned' = abandoned \cup ({task[t].session} \ {0})
  PROVE  Truthful' /\ Living'
BY RestTrue, TruthStep

\* A run that returns, whether or not it met an error.
LEMMA TruthEnds ==
  ASSUME Inv, Truthful, Living, NEW t \in Task, Becomes(t, Rest), UNCHANGED sessions,
         \/ abandoned' = abandoned
         \/ abandoned' = abandoned \cup ({task[t].session} \ {0})
  PROVE  Truthful' /\ Living'
<1>1. sessions \in Seq(Session) /\ Len(sessions) >= Len(sessions)  BY DEF Inv, TypeOK
<1>2. \A i \in DOMAIN sessions : RowTrue(sessions[i])  BY DEF Truthful
<1>3. task' = [task EXCEPT ![t] = Rest] /\ sessions' = sessions  BY DEF Becomes
<1> QED  BY <1>1, <1>2, <1>3, TruthRests

\* A run whose position alone changes.
LEMMA TruthGoto ==
  ASSUME Inv, Truthful, Living, NEW t \in Task, NEW pc \in PC, Goto(t, pc),
         task[t].pc # "dispatch", UNCHANGED <<sessions, abandoned>>
  PROVE  Truthful' /\ Living'
<1> DEFINE run == [task[t] EXCEPT !.pc = pc]
<1>1. task[t] \in Run /\ RunTrue(t, task[t], sessions)  BY DEF Inv, TypeOK, Truthful
<1>2. /\ run \in Run /\ run.session = task[t].session /\ run.pc = pc
      /\ run.found = task[t].found /\ run.truth = task[t].truth
      /\ run.whole = task[t].whole /\ run.previous = task[t].previous
  BY <1>1 DEF Run
<1>3. task' = [task EXCEPT ![t] = run]  BY DEF Goto, Becomes
<1> HIDE DEF run
<1>4. RunTrue(t, run, sessions)  BY <1>1, <1>2 DEF RunTrue
<1>5. run.session \in {0, task[t].session} /\ abandoned' = abandoned /\ sessions' = sessions
  BY <1>2
<1> QED  BY <1>2, <1>3, <1>4, <1>5, TruthOnly

\* One step of a run, whichever.
LEMMA TruthRunStep ==
  ASSUME Inv, Truthful, Living, NEW t \in Task, RunStep(t)
  PROVE  Truthful' /\ Living'
<1>1. /\ task[t] \in Run /\ RunTrue(t, task[t], sessions) /\ sessions \in Seq(Session)
      /\ \A i \in DOMAIN sessions : RowTrue(sessions[i])
      /\ DOMAIN sessions = 1 .. Len(sessions) /\ Len(sessions) \in Nat
      /\ task \in [Task -> Run] /\ now \in Nat
  BY Standing DEF Inv, TypeOK, Truthful
<1>2. /\ task[t].found \in SUBSET Finding /\ task[t].truth \in SUBSET Finding
      /\ task[t].left \in SUBSET Finding /\ task[t].whole \in BOOLEAN
      /\ task[t].session \in Nat /\ task[t].host \in Host /\ task[t].start \in Nat
  BY <1>1, RunFields
<1>3. ASSUME Abandons(t), sessions' = sessions PROVE Truthful' /\ Living'
  <2>1. Becomes(t, Rest) /\ abandoned' = abandoned \cup ({task[t].session} \ {0})
    BY <1>3 DEF Abandons, Ends
  <2> QED  BY <1>3, <2>1, TruthEnds
<1>4. ASSUME Falters(t), sessions' = sessions, task[t].pc # "dispatch"
      PROVE  Truthful' /\ Living'
  <2>1. CASE Abandons(t)  BY <1>3, <1>4, <2>1
  <2>2. CASE Goto(t, "fail") /\ abandoned' = abandoned
    <3>1. "fail" \in PC  BY DEF PC
    <3> QED  BY <1>4, <2>2, <3>1, TruthGoto
  <2> QED  BY <1>4, <2>1, <2>2 DEF Falters
<1>5. ASSUME CreateSession(t) PROVE Truthful' /\ Living'
  <2>1. CASE Abandons(t) /\ UNCHANGED sessions  BY <1>3, <2>1
  <2>2. CASE ~(Abandons(t) /\ UNCHANGED sessions)
    <3> DEFINE start == IF t \in Runner THEN now ELSE task[t].start
               row == Created(task[t].host, start)
               pc == IF t \in Runner THEN "scan" ELSE "complete"
               run == [task[t] EXCEPT !.pc = pc, !.session = Len(sessions) + 1,
                                      !.start = start]
               ss == Append(sessions, row)
    <3>1. task' = [task EXCEPT ![t] = run] /\ sessions' = ss /\ abandoned' = abandoned
      BY <1>5, <2>2 DEF CreateSession, Becomes
    <3>2. start \in Nat /\ pc \in PC /\ Len(sessions) + 1 \in Nat  BY <1>1, <1>2 DEF PC
    <3>3. row \in Session /\ row.whole = FALSE  BY <1>2, <3>2, CreatedType DEF Created
    <3> HIDE DEF start, row
    <3>4. task[t].previous = 0
      BY <1>1, <1>5 DEF CreateSession, RunTrue
    <3> HIDE DEF pc
    <3>5. /\ run \in Run /\ run.session = Len(sessions) + 1
          /\ run.found = task[t].found /\ run.truth = task[t].truth
          /\ run.whole = task[t].whole /\ run.previous = 0
      BY <1>1, <3>2, <3>4 DEF Run
    <3>6. /\ ss \in Seq(Session) /\ Len(ss) = Len(sessions) + 1
          /\ DOMAIN ss = 1 .. Len(ss) /\ ss[Len(sessions) + 1] = row
          /\ \A i \in DOMAIN sessions : ss[i] = sessions[i]
      BY <1>1, <3>3
    <3> HIDE DEF run, ss
    <3>7. \A i \in DOMAIN ss : RowTrue(ss[i])
      <4>1. RowTrue(row)  BY <3>3 DEF RowTrue
      <4>2. \A i \in DOMAIN ss : i \in DOMAIN sessions \/ i = Len(sessions) + 1
        BY <1>1, <3>6
      <4> QED  BY <1>1, <3>6, <4>1, <4>2
    <3>8. RunTrue(t, run, ss)
      <4>1. 0 \in 0 .. Len(ss)  BY <1>1, <3>6
      <4> QED  BY <1>1, <3>5, <4>1 DEF RunTrue
    <3>9. Len(ss) >= Len(sessions) /\ run.session > Len(sessions)  BY <1>1, <3>5, <3>6
    <3> QED  BY <3>1, <3>5, <3>6, <3>7, <3>8, <3>9, TruthStep
  <2> QED  BY <2>1, <2>2
<1>6. ASSUME Scan(t) PROVE Truthful' /\ Living'
  <2>1. task[t].pc = "scan" /\ sessions' = sessions /\ abandoned' = abandoned
    BY <1>6 DEF Scan
  <2>2. CASE Goto(t, "fail")
    <3>1. "fail" \in PC  BY DEF PC
    <3> QED  BY <2>1, <2>2, <3>1, TruthGoto
  <2>3. CASE ~Goto(t, "fail")
    <3>1. PICK truth \in SUBSET Finding, covered \in Covers(t) :
            Becomes(t, [task[t] EXCEPT !.pc = IF t \in Runner THEN "export" ELSE "create",
                                       !.found = Recorded(t, truth, covered),
                                       !.truth = truth, !.whole = covered = Plugin])
      BY <1>6, <2>3 DEF Scan
    <3> DEFINE found == Recorded(t, truth, covered)
               whole == covered = Plugin
               pc == IF t \in Runner THEN "export" ELSE "create"
               run == [task[t] EXCEPT !.pc = pc, !.found = found, !.truth = truth,
                                      !.whole = whole]
    <3>2. found \in SUBSET Finding /\ whole \in BOOLEAN /\ pc \in PC
      BY DEF Recorded, AtLeast, PC
    <3>3. task' = [task EXCEPT ![t] = run]  BY <3>1 DEF Becomes
    <3>4. whole => found = IF t \in Runner THEN AtLeast(truth, MinSeverity) ELSE truth
      <4> SUFFICES ASSUME whole
                   PROVE  found = IF t \in Runner THEN AtLeast(truth, MinSeverity) ELSE truth
        OBVIOUS
      <4>1. \A f \in truth : PluginOf[f] \in covered  BY DaemonAssumption
      <4>2. {f \in truth : PluginOf[f] \in covered} = truth  BY <4>1
      <4> QED  BY <4>2 DEF Recorded
    <3>5. task[t].previous = 0  BY <1>1, <2>1 DEF RunTrue
    <3> HIDE DEF found, whole, pc
    <3>6. /\ run \in Run /\ run.session = task[t].session /\ run.found = found
          /\ run.truth = truth /\ run.whole = whole /\ run.previous = 0
      BY <1>1, <3>2, <3>5 DEF Run
    <3> HIDE DEF run
    <3>7. RunTrue(t, run, sessions)
      <4>1. 0 \in 0 .. Len(sessions)  BY <1>1
      <4> QED  BY <3>4, <3>6, <4>1 DEF RunTrue
    <3>8. run.session \in {0, task[t].session}  BY <3>6
    <3> QED  BY <2>1, <3>3, <3>6, <3>7, <3>8, TruthOnly
  <2> QED  BY <2>2, <2>3
<1>7. ASSUME FailSession(t) PROVE Truthful' /\ Living'
  <2>1. CASE Abandons(t) /\ UNCHANGED sessions  BY <1>3, <2>1
  <2>2. CASE ~(Abandons(t) /\ UNCHANGED sessions)
    <3> DEFINE i == task[t].session
               row == [sessions[i] EXCEPT !.status = "failed"]
               ss == [sessions EXCEPT ![i] = row]
    <3>1. sessions' = ss /\ task' = [task EXCEPT ![t] = Rest] /\ abandoned' = abandoned
      BY <1>7, <2>2 DEF FailSession, Ends, Becomes
    <3>2. i \in DOMAIN sessions /\ sessions[i] \in Session
      BY <1>7, HasSession DEF FailSession
    <3>3. row \in Session /\ RowTrue(row)
      BY <1>1, <3>2 DEF Session, Status, RowTrue
    <3> HIDE DEF row
    <3>4. ss \in Seq(Session) /\ Len(ss) = Len(sessions)
      BY <1>1, <1>2, <3>2, <3>3, ChangedType
    <3>5. \A j \in DOMAIN ss : RowTrue(ss[j])  BY <1>1, <3>2, <3>3
    <3> HIDE DEF ss
    <3>6. Len(ss) >= Len(sessions)  BY <1>1, <3>4
    <3> QED  BY <3>1, <3>4, <3>5, <3>6, TruthRests
  <2> QED  BY <2>1, <2>2
<1>8. ASSUME Export(t) PROVE Truthful' /\ Living'
  <2>1. task[t].pc # "dispatch" /\ sessions' = sessions  BY <1>8 DEF Export
  <2>2. CASE Abandons(t)  BY <1>3, <2>1, <2>2
  <2>3. CASE Goto(t, "complete") /\ abandoned' = abandoned
    <3>1. "complete" \in PC  BY DEF PC
    <3> QED  BY <2>1, <2>3, <3>1, TruthGoto
  <2> QED  BY <1>8, <2>2, <2>3 DEF Export
<1>9. ASSUME Complete(t) PROVE Truthful' /\ Living'
  <2>1. task[t].pc = "complete"  BY <1>9 DEF Complete
  <2>2. CASE Falters(t) /\ UNCHANGED sessions  BY <1>4, <2>1, <2>2
  <2>3. CASE ~(Falters(t) /\ UNCHANGED sessions)
    <3> DEFINE i == task[t].session
               counts == Counts(task[t].found)
               row == [sessions[i] EXCEPT !.status = "completed", !.counts = counts,
                                          !.truth = task[t].truth, !.whole = task[t].whole]
               ss == [sessions EXCEPT ![i] = row]
               run == [task[t] EXCEPT !.pc = "insert", !.left = task[t].found]
    <3>1. sessions' = ss /\ task' = [task EXCEPT ![t] = run] /\ abandoned' = abandoned
      BY <1>9, <2>3 DEF Complete, Becomes
    <3>2. i \in DOMAIN sessions /\ sessions[i] \in Session  BY <2>1, HasSession
    <3>3. task[t].whole => \A s \in Severity : s >= MinSeverity =>
            counts[s] = Counts(task[t].truth)[s]
      BY <1>1, <1>2, CountedTruly DEF RunTrue
    <3>4. counts \in Tuple /\ "completed" \in Status  BY <1>2, CountsType DEF Status
    <3> HIDE DEF counts
    <3>5. /\ row \in Session /\ row.counts = counts /\ row.truth = task[t].truth
          /\ row.whole = task[t].whole
      BY <1>2, <3>2, <3>4 DEF Session
    <3> HIDE DEF row
    <3>6. RowTrue(row)  BY <3>3, <3>5 DEF RowTrue
    <3>7. ss \in Seq(Session) /\ Len(ss) = Len(sessions)
      BY <1>1, <1>2, <3>2, <3>5, ChangedType
    <3>8. \A j \in DOMAIN ss : RowTrue(ss[j])  BY <1>1, <3>2, <3>6
    <3> HIDE DEF ss
    <3>9. /\ run \in Run /\ run.session = i /\ run.found = task[t].found
          /\ run.truth = task[t].truth /\ run.whole = task[t].whole
          /\ run.previous = task[t].previous
      BY <1>1, <1>2 DEF Run, PC
    <3> HIDE DEF run
    <3>10. RunTrue(t, run, ss)
      BY <1>1, <2>1, <3>7, <3>9 DEF RunTrue
    <3>11. Len(ss) >= Len(sessions) /\ run.session \in {0, task[t].session}
      BY <1>1, <3>7, <3>9
    <3> QED  BY <3>1, <3>7, <3>8, <3>9, <3>10, <3>11, TruthStep
  <2> QED  BY <2>2, <2>3
<1>10. ASSUME Insert(t) PROVE Truthful' /\ Living'
  <2>1. task[t].pc = "insert"  BY <1>10 DEF Insert
  <2>2. CASE Falters(t) /\ UNCHANGED sessions  BY <1>4, <2>1, <2>2
  <2>3. CASE ~(Falters(t) /\ UNCHANGED sessions)
    <3> DEFINE i == task[t].session
    <3>1. PICK f \in task[t].left :
            /\ sessions' = [sessions EXCEPT ![i] = [sessions[i] EXCEPT !.rows = @ \cup {f}]]
            /\ Becomes(t, [task[t] EXCEPT !.left = @ \ {f}])
            /\ abandoned' = abandoned
      BY <1>10, <2>3 DEF Insert
    <3> DEFINE rows == sessions[i].rows \cup {f}
               row == [sessions[i] EXCEPT !.rows = rows]
               ss == [sessions EXCEPT ![i] = row]
               left == task[t].left \ {f}
               run == [task[t] EXCEPT !.left = left]
    <3>2. sessions' = ss /\ task' = [task EXCEPT ![t] = run]  BY <3>1 DEF Becomes
    <3>3. i \in DOMAIN sessions /\ sessions[i] \in Session  BY <2>1, HasSession
    <3>4. rows \in SUBSET Finding /\ left \in SUBSET Finding  BY <1>2, <3>3 DEF Session
    <3> HIDE DEF rows, left
    <3>5. row \in Session /\ RowTrue(row)  BY <1>1, <3>3, <3>4 DEF Session, RowTrue
    <3> HIDE DEF row
    <3>6. ss \in Seq(Session) /\ Len(ss) = Len(sessions)
      BY <1>1, <1>2, <3>3, <3>5, ChangedType
    <3>7. \A j \in DOMAIN ss : RowTrue(ss[j])  BY <1>1, <3>3, <3>5
    <3> HIDE DEF ss
    <3>8. /\ run \in Run /\ run.session = i /\ run.found = task[t].found
          /\ run.truth = task[t].truth /\ run.whole = task[t].whole
          /\ run.previous = task[t].previous
      BY <1>1, <3>4 DEF Run
    <3> HIDE DEF run
    <3>9. RunTrue(t, run, ss)
      BY <1>1, <2>1, <3>6, <3>8 DEF RunTrue
    <3>10. Len(ss) >= Len(sessions) /\ run.session \in {0, task[t].session}
      BY <1>1, <3>6, <3>8
    <3> QED  BY <3>1, <3>2, <3>6, <3>7, <3>8, <3>9, <3>10, TruthStep
  <2> QED  BY <2>2, <2>3
<1>11. ASSUME Inserted(t) PROVE Truthful' /\ Living'
  <2>1. task[t].pc # "dispatch" /\ sessions' = sessions /\ abandoned' = abandoned
    BY <1>11 DEF Inserted
  <2>2. CASE Goto(t, "lookup")
    <3>1. "lookup" \in PC  BY DEF PC
    <3> QED  BY <2>1, <2>2, <3>1, TruthGoto
  <2>3. CASE Ends(t)  BY <2>1, <2>3, TruthEnds DEF Ends
  <2> QED  BY <1>11, <2>2, <2>3 DEF Inserted
<1>12. ASSUME Lookup(t) PROVE Truthful' /\ Living'
  <2>1. task[t].pc = "lookup" /\ sessions' = sessions /\ abandoned' = abandoned
    BY <1>12 DEF Lookup
  <2>2. PICK previous \in {PreviousCompleted(sessions, task[t].host, task[t].session)}
                            \cup (IF Faults THEN {0} ELSE {}) :
          Becomes(t, [task[t] EXCEPT !.pc = "dispatch", !.previous = previous])
    BY <1>12 DEF Lookup
  <2>3. previous \in 0 .. Len(sessions)
    <3>1. PreviousCompleted(sessions, task[t].host, task[t].session) \in 0 .. Len(sessions)
      BY <1>1, PreviousType
    <3>2. 0 \in 0 .. Len(sessions)  BY <1>1
    <3> QED  BY <2>2, <3>1, <3>2
  <2>4. previous \in Nat  BY <2>3, <1>1
  <2> DEFINE run == [task[t] EXCEPT !.pc = "dispatch", !.previous = previous]
  <2>5. task' = [task EXCEPT ![t] = run]  BY <2>2 DEF Becomes
  <2>6. /\ run \in Run /\ run.session = task[t].session /\ run.found = task[t].found
        /\ run.truth = task[t].truth /\ run.whole = task[t].whole
        /\ run.previous = previous /\ run.pc = "dispatch"
    BY <1>1, <2>4 DEF Run, PC
  <2> HIDE DEF run
  <2>7. RunTrue(t, run, sessions)  BY <1>1, <2>3, <2>6 DEF RunTrue
  <2>8. run.session \in {0, task[t].session}  BY <2>6
  <2> QED  BY <2>1, <2>5, <2>6, <2>7, <2>8, TruthOnly
<1>13. ASSUME Dispatch(t) PROVE Truthful' /\ Living'
  <2> DEFINE i == task[t].session
             verdict == Verdict(t)
             row == [sessions[i] EXCEPT !.told = verdict]
             ss == [sessions EXCEPT ![i] = row]
  <2>1. sessions' = ss /\ task' = [task EXCEPT ![t] = Rest] /\ abandoned' = abandoned
    BY <1>13 DEF Dispatch, Ends, Becomes
  <2>2. i \in DOMAIN sessions /\ sessions[i] \in Session
    BY <1>13, HasSession DEF Dispatch
  <2>3. verdict \in Told  BY DEF Verdict, Told
  <2> HIDE DEF verdict
  <2>4. row \in Session /\ RowTrue(row)  BY <1>1, <2>2, <2>3 DEF Session, RowTrue
  <2> HIDE DEF row
  <2>5. ss \in Seq(Session) /\ Len(ss) = Len(sessions)
    BY <1>1, <1>2, <2>2, <2>4, ChangedType
  <2>6. \A j \in DOMAIN ss : RowTrue(ss[j])  BY <1>1, <2>2, <2>4
  <2> HIDE DEF ss
  <2>7. Len(ss) >= Len(sessions)  BY <1>1, <2>5
  <2> QED  BY <2>1, <2>5, <2>6, <2>7, TruthRests
<1> QED  BY <1>5, <1>6, <1>7, <1>8, <1>9, <1>10, <1>11, <1>12, <1>13 DEF RunStep

\* The daemon's end abandons the sessions of its jobs, which rest.
LEMMA TruthDaemonEnds ==
  ASSUME Inv, Truthful, Living, DaemonEnds  PROVE Truthful' /\ Living'
<1> DEFINE ended == {task[t].session : t \in Cron} \ {0}
<1>1. /\ abandoned' = abandoned \cup ended /\ sessions' = sessions
      /\ \A t \in Task : task'[t] = IF t \in Cron /\ Busy(t) THEN Rest ELSE task[t]
  BY DEF DaemonEnds
<1>2. sessions \in Seq(Session) /\ DOMAIN sessions = 1 .. Len(sessions)
      /\ Len(sessions) \in Nat /\ Cron \subseteq Task
  BY DEF Inv, TypeOK, Task, Runner
<1>3. \A t \in Task : task[t].session \in 0 .. Len(sessions)  BY DEF Inv, Stage, StageOf
<1>4. Truthful'
  <2>1. ASSUME NEW t \in Task PROVE RunTrue(t, task'[t], sessions)
    BY <1>1, <1>2, RestTrue DEF Truthful
  <2> QED  BY <2>1, <1>1 DEF Truthful, RunTrue, RowTrue
<1>5. abandoned' \subseteq DOMAIN sessions
  <2>1. ended \subseteq DOMAIN sessions  BY <1>2, <1>3
  <2> QED  BY <2>1, <1>1 DEF Living
<1>6. ASSUME NEW t \in Task PROVE task'[t].session \notin abandoned'
  <2>1. Rest.session = 0 /\ 0 \notin DOMAIN sessions  BY <1>2 DEF Rest
  <2>2. CASE t \in Cron /\ Busy(t)  BY <1>1, <1>5, <2>1, <2>2
  <2>3. CASE ~(t \in Cron /\ Busy(t))
    <3>1. task'[t] = task[t] /\ task[t].session \notin abandoned  BY <1>1, <2>3 DEF Living
    <3>2. task[t].session \notin ended
      <4>1. t \in Cron => task[t].session = 0
        BY <2>3, Standing DEF StageOf, Busy
      <4>2. t \notin Cron => \A u \in Cron : task[u].session = task[t].session =>
                                             task[t].session = 0
        BY <1>2 DEF Inv, Alone
      <4> QED  BY <4>1, <4>2
    <3> QED  BY <1>1, <3>1, <3>2
  <2> QED  BY <2>2, <2>3
<1> QED  BY <1>1, <1>4, <1>5, <1>6 DEF Living

\* What the two are about is the history, the tasks and the abandoned.
LEMMA TruthElsewhere ==
  ASSUME Truthful, Living, UNCHANGED <<sessions, task, abandoned>>
  PROVE  Truthful' /\ Living'
BY DEF Truthful, Living, RunTrue, RowTrue

LEMMA TruthInit ==
  ASSUME Init  PROVE Truthful /\ Living
<1>1. sessions = Stored /\ abandoned = {} /\ \A t \in Task : task[t] = Rest
  BY DEF Init
<1>2. sessions \in Seq(Session)  BY <1>1, StoredAssumption
<1>3. \A i \in DOMAIN sessions : RowTrue(sessions[i])
  BY <1>1, StoredAssumption DEF RowTrue
<1> QED  BY <1>1, <1>2, <1>3, RestTrue DEF Truthful, Living

LEMMA TruthNext ==
  ASSUME Inv, Truthful, Living, Next  PROVE Truthful' /\ Living'
<1>1. CASE Start \/ Signal \/ Poll \/ Tick
  BY <1>1, TruthElsewhere DEF Start, Signal, Poll, Tick
<1>2. CASE Shutdown \/ DaemonDies
  BY <1>2, TruthDaemonEnds DEF Shutdown, DaemonDies
<1>3. ASSUME NEW t \in Task, NEW run \in Run, run.session = 0, run.whole = FALSE,
             run.previous = 0, Becomes(t, run), UNCHANGED <<sessions, abandoned>>
      PROVE  Truthful' /\ Living'
  <2>1. task' = [task EXCEPT ![t] = run]  BY <1>3 DEF Becomes
  <2>2. RunTrue(t, run, sessions)
    <3>1. 0 \in 0 .. Len(sessions)
      <4>1. sessions \in Seq(Session)  BY DEF Inv, TypeOK
      <4> QED  BY <4>1
    <3> QED  BY <1>3, <3>1 DEF RunTrue
  <2>3. abandoned' = abandoned /\ sessions' = sessions /\ run.session \in {0, task[t].session}
    BY <1>3
  <2> QED  BY <2>1, <2>2, <2>3, TruthOnly
<1> DEFINE created == [Rest EXCEPT !.pc = "create"]
<1>4. created \in Run /\ created.session = 0 /\ created.whole = FALSE /\ created.previous = 0
  BY RestType DEF Rest, Run, PC
<1> HIDE DEF created
<1>6. ASSUME NEW t \in Cron, CronTick(t) PROVE Truthful' /\ Living'
  <2>1. t \in Task  BY DEF Task, Runner
  <2>2. Becomes(t, created) /\ UNCHANGED <<sessions, abandoned>>
    BY <1>6 DEF CronTick, created
  <2> QED  BY <1>3, <1>4, <2>1, <2>2
<1>7. ASSUME NEW t \in Manual, RunOnce(t) PROVE Truthful' /\ Living'
  <2>1. t \in Task  BY DEF Task, Runner
  <2>2. Becomes(t, created) /\ UNCHANGED <<sessions, abandoned>>
    BY <1>7 DEF RunOnce, created
  <2> QED  BY <1>3, <1>4, <2>1, <2>2
<1>8. ASSUME NEW t \in Cli \cup Batch, CommandBegins(t) PROVE Truthful' /\ Living'
  <2>1. t \in Task  BY DEF Task
  <2>2. UNCHANGED <<sessions, abandoned>>  BY <1>8 DEF CommandBegins
  <2>3. PICK h \in Host :
          Becomes(t, [Rest EXCEPT !.pc = "scan", !.host = h, !.start = now])
    BY <1>8 DEF CommandBegins
  <2> DEFINE begun == [Rest EXCEPT !.pc = "scan", !.host = h, !.start = now]
  <2>4. "scan" \in PC /\ now \in Nat  BY DEF PC, Inv, TypeOK
  <2>5. begun \in Run /\ begun.session = 0  BY <2>4, BegunType
  <2>6. begun.whole = FALSE /\ begun.previous = 0  BY DEF Rest
  <2> HIDE DEF begun
  <2>7. Becomes(t, begun)  BY <2>3 DEF begun
  <2> QED  BY <1>3, <2>1, <2>2, <2>5, <2>6, <2>7
<1>9. ASSUME NEW t \in Task, RunStep(t) PROVE Truthful' /\ Living'
  BY <1>9, TruthRunStep
<1>10. ASSUME NEW t \in Task, Dies(t) PROVE Truthful' /\ Living'
  BY <1>10, TruthEnds DEF Dies
<1> QED  BY <1>1, <1>2, <1>6, <1>7, <1>8, <1>9, <1>10 DEF Next

LEMMA TruthInvariant == Spec => [](Inv /\ Truthful /\ Living)
<1>1. Inv /\ Truthful /\ Living /\ UNCHANGED vars => Truthful' /\ Living'
  BY TruthElsewhere DEF vars
<1>2. Inv /\ Truthful /\ Living /\ [Next]_vars => (Inv /\ Truthful /\ Living)'
  BY <1>1, TruthNext, InvNext, InvStutter
<1> QED  BY <1>2, InvInit, TruthInit, PTL DEF Spec

------------------------------------------------------------------------------
(* What a step may never do. *)

\* Counts that agree from the threshold up are compared alike: a run has none
\* below it, so what is decided there is never decided for the worse.
LEMMA ComparedAlike ==
  ASSUME NEW previous \in Tuple, NEW before \in SUBSET Finding, NEW truth \in SUBSET Finding,
         \A s \in Severity : s >= MinSeverity => previous[s] = Counts(before)[s]
  PROVE  IsWorse(AboveFloor(previous, Floor),
                 AboveFloor(Counts(AtLeast(truth, MinSeverity)), Floor))
           <=> IsWorse(Seen(before), Seen(truth))
<1> DEFINE P == AboveFloor(previous, Floor)
           C == AboveFloor(Counts(AtLeast(truth, MinSeverity)), Floor)
           B == Seen(before)
           T == Seen(truth)
<1>0. MinSeverity \in Severity /\ Floor \in Severity  BY DaemonAssumption
<1>1. ASSUME NEW found \in SUBSET Finding, NEW s \in Severity
      PROVE  Seen(found)[s] = IF s >= Floor /\ s >= MinSeverity THEN Counts(found)[s] ELSE 0
  <2>1. AtLeast(found, MinSeverity) \in SUBSET Finding  BY DEF AtLeast
  <2>2. Seen(found)[s] = IF s >= Floor THEN Counts(AtLeast(found, MinSeverity))[s] ELSE 0
    BY <1>0, <2>1, CountsAtLeast DEF Seen
  <2>3. Counts(AtLeast(found, MinSeverity))[s] = IF s >= MinSeverity THEN Counts(found)[s] ELSE 0
    BY <1>0, CountsAtLeast
  <2> QED  BY <2>2, <2>3
<1>2. ASSUME NEW s \in Severity
      PROVE  C[s] = IF s >= Floor /\ s >= MinSeverity THEN Counts(truth)[s] ELSE 0
  <2>1. Counts(AtLeast(truth, MinSeverity))[s] = IF s >= MinSeverity THEN Counts(truth)[s] ELSE 0
    BY <1>0, CountsAtLeast
  <2> QED  BY <2>1 DEF AboveFloor
<1>3. ASSUME NEW s \in Severity
      PROVE  P[s] = IF s >= Floor THEN previous[s] ELSE 0
  BY DEF AboveFloor
<1>4. ASSUME NEW s \in Severity
      PROVE  /\ P[s] \in Nat /\ C[s] \in Nat /\ B[s] \in Nat /\ C[s] = T[s]
             /\ s >= MinSeverity => P[s] = B[s]
             /\ ~(s >= MinSeverity) => C[s] = 0
  <2>1. Counts(truth)[s] \in Nat /\ Counts(before)[s] \in Nat /\ previous[s] \in Nat
    BY CountsType DEF Tuple
  <2>2. B[s] = IF s >= Floor /\ s >= MinSeverity THEN Counts(before)[s] ELSE 0  BY <1>1
  <2>3. T[s] = IF s >= Floor /\ s >= MinSeverity THEN Counts(truth)[s] ELSE 0  BY <1>1
  <2>4. C[s] = IF s >= Floor /\ s >= MinSeverity THEN Counts(truth)[s] ELSE 0  BY <1>2
  <2>5. P[s] = IF s >= Floor THEN previous[s] ELSE 0  BY <1>3
  <2> HIDE DEF P, C, B, T
  <2> QED  BY <2>1, <2>2, <2>3, <2>4, <2>5
<1> HIDE DEF P, C, B, T
<1>5. \A s, w \in Severity : w > s /\ s >= MinSeverity => w >= MinSeverity
  BY <1>0 DEF Severity
<1>6. IsWorse(P, C) => IsWorse(B, T)
  <2> SUFFICES ASSUME NEW s \in Severity, C[s] > P[s],
                      \A w \in Severity : w > s => C[w] = P[w]
               PROVE  IsWorse(B, T)
    BY DEF IsWorse
  <2>1. s >= MinSeverity  BY <1>4
  <2>2. T[s] > B[s]  BY <1>4, <2>1
  <2>3. \A w \in Severity : w > s => T[w] = B[w]  BY <1>4, <1>5, <2>1
  <2> QED  BY <2>2, <2>3 DEF IsWorse
<1>7. IsWorse(B, T) => IsWorse(P, C)
  <2> SUFFICES ASSUME NEW s \in Severity, T[s] > B[s],
                      \A w \in Severity : w > s => T[w] = B[w]
               PROVE  IsWorse(P, C)
    BY DEF IsWorse
  <2>1. s >= MinSeverity  BY <1>4
  <2>2. C[s] > P[s]  BY <1>4, <2>1
  <2>3. \A w \in Severity : w > s => C[w] = P[w]  BY <1>4, <1>5, <2>1
  <2> QED  BY <2>2, <2>3 DEF IsWorse
<1> QED  BY <1>6, <1>7 DEF P, C, B, T

\* A run whose dispatch is over, its session not abandoned, has dispatched.
LEMMA OnlyDispatch ==
  ASSUME Inv, Living, [Next]_vars, NEW t \in Runner, Dispatches(t)
  PROVE  Dispatch(t)
<1>1. t \in Task /\ task \in [Task -> Run] /\ task[t].pc = "dispatch" /\ abandoned' = abandoned
      /\ task'[t].pc = "idle"
  BY DEF Task, Inv, TypeOK, Dispatches
<1>2. task[t].session # 0 /\ task[t].session \notin abandoned  BY <1>1, HasSession DEF Living
<1>3. ASSUME task' = task PROVE FALSE  BY <1>1, <1>3
<1>4. ASSUME NEW u \in Task, u # t, NEW run, task' = [task EXCEPT ![u] = run] PROVE FALSE
  BY <1>1, <1>4
<1>5. CASE Start \/ Signal \/ Poll \/ Tick \/ UNCHANGED vars
  BY <1>3, <1>5 DEF Start, Signal, Poll, Tick, vars
<1>6. CASE Shutdown \/ DaemonDies
  <2>1. DaemonEnds  BY <1>6 DEF Shutdown, DaemonDies
  <2>2. t \notin Cron
    <3>1. ASSUME t \in Cron PROVE task[t].session \in abandoned'
      BY <2>1, <3>1, <1>2 DEF DaemonEnds
    <3> QED  BY <1>1, <1>2, <3>1
  <2>3. task'[t] = task[t]  BY <1>1, <2>1, <2>2 DEF DaemonEnds
  <2> QED  BY <1>1, <2>3
<1>7. CASE \/ \E u \in Cron : CronTick(u)
           \/ \E u \in Manual : RunOnce(u)
           \/ \E u \in Cli \cup Batch : CommandBegins(u)
  <2>1. PICK u, run : u \in Task /\ ~Busy(u) /\ task' = [task EXCEPT ![u] = run]
    BY <1>7 DEF CronTick, RunOnce, CommandBegins, Becomes, Task, Runner
  <2> QED  BY <1>1, <1>4, <2>1 DEF Busy
<1>8. ASSUME NEW u \in Task, Dies(u) PROVE FALSE
  <2>1. u = t  BY <1>4, <1>8 DEF Dies, Becomes
  <2> QED  BY <1>1, <1>2, <1>8, <2>1 DEF Dies
<1>9. ASSUME NEW u \in Task, RunStep(u) PROVE u = t
  <2>1. PICK run : task' = [task EXCEPT ![u] = run]
    BY <1>9 DEF RunStep, CreateSession, Scan, FailSession, Export, Complete, Insert,
       Inserted, Lookup, Dispatch, Falters, Abandons, Ends, Goto, Becomes
  <2> QED  BY <1>4, <2>1
<1>10. ASSUME RunStep(t) PROVE Dispatch(t)
  BY <1>1, <1>10 DEF RunStep, CreateSession, Scan, FailSession, Export, Complete, Insert,
     Inserted, Lookup
<1> QED  BY <1>5, <1>6, <1>7, <1>8, <1>9, <1>10 DEF Next

(***************************************************************************)
(* `regression` alerts only when a host got worse than its previous scan,   *)
(* and always when it did, where both scans covered it whole: whatever      *)
(* command wrote the previous one, and with whatever threshold, floor and   *)
(* mode but that of findings alone.                                         *)
(***************************************************************************)
THEOREM AlertsAreOfRegressions == Spec => RegressionIsReal
<1>1. ASSUME Inv, Truthful, Living, [Next]_vars, NEW t \in Runner, Dispatches(t),
             task[t].previous # 0, sessions[task[t].previous].whole, task[t].whole
      PROVE  sessions'[task[t].session].told = "regression" <=>
               /\ AlertMode # "findings"
               /\ IsWorse(Seen(sessions[task[t].previous].truth), Seen(task[t].truth))
  <2> DEFINE i == task[t].session
             before == sessions[task[t].previous]
  <2>1. Dispatch(t)  BY <1>1, OnlyDispatch
  <2>2. t \in Task  BY DEF Task
  <2>3. i \in DOMAIN sessions /\ sessions[i] \in Session
    BY <1>1, <2>1, <2>2, HasSession DEF Dispatch
  <2>4. task[t] \in Run /\ RunTrue(t, task[t], sessions) /\ sessions \in Seq(Session)
    BY <1>1, <2>2 DEF Inv, TypeOK, Truthful
  <2>5. task[t].previous \in DOMAIN sessions  BY <1>1, <2>4 DEF RunTrue
  <2>6. before \in Session /\ RowTrue(before)  BY <1>1, <2>4, <2>5 DEF Truthful
  <2>7. before.counts \in Tuple /\ before.truth \in SUBSET Finding  BY <2>6 DEF Session
  <2>8. task[t].found = AtLeast(task[t].truth, MinSeverity) /\ task[t].truth \in SUBSET Finding
    BY <1>1, <2>4, RunFields DEF RunTrue
  <2>9. sessions'[i].told = Verdict(t)
    <3>1. sessions' = [sessions EXCEPT ![i].told = Verdict(t)]  BY <2>1 DEF Dispatch
    <3> QED  BY <2>3, <2>4, <3>1 DEF Session
  <2>10. Verdict(t) = "regression" <=>
           Regressed(AlertMode, Floor, before.counts, Counts(task[t].found))
    BY <1>1 DEF Verdict
  <2>11. IsWorse(AboveFloor(before.counts, Floor), AboveFloor(Counts(task[t].found), Floor))
           <=> IsWorse(Seen(before.truth), Seen(task[t].truth))
    <3>1. \A s \in Severity : s >= MinSeverity => before.counts[s] = Counts(before.truth)[s]
      BY <1>1, <2>6 DEF RowTrue
    <3> HIDE DEF before
    <3> QED  BY <2>7, <2>8, <3>1, ComparedAlike
  <2>12. AlertMode \in {"regression", "both"} <=> AlertMode # "findings"
    BY DaemonAssumption DEF Mode
  <2> HIDE DEF before, i
  <2>13. sessions'[i].told = "regression" <=>
           /\ AlertMode # "findings"
           /\ IsWorse(Seen(before.truth), Seen(task[t].truth))
    BY <2>9, <2>10, <2>11, <2>12 DEF Regressed
  <2> QED  BY <2>13 DEF i, before
<1>2. Inv /\ Truthful /\ Living /\ [Next]_vars =>
        \A t \in Runner : Dispatches(t) =>
          LET run == task[t]
              previous == sessions[run.previous]
          IN  run.previous # 0 /\ previous.whole /\ run.whole =>
                ( sessions'[run.session].told = "regression" <=>
                    /\ AlertMode # "findings"
                    /\ IsWorse(Seen(previous.truth), Seen(run.truth)) )
  BY <1>1
<1> QED  BY <1>2, TruthInvariant, PTL DEF Spec, RegressionIsReal

\* A run whose lookup is over has looked back.
LEMMA OnlyLookup ==
  ASSUME Inv, [Next]_vars, NEW t \in Runner,
         task[t].pc = "lookup", task'[t].pc = "dispatch"
  PROVE  Lookup(t)
<1>1. t \in Task /\ task \in [Task -> Run]  BY DEF Task, Inv, TypeOK
<1>2. ASSUME NEW u \in Task, u # t, NEW run, task' = [task EXCEPT ![u] = run] PROVE FALSE
  BY <1>1, <1>2
<1>3. CASE Start \/ Signal \/ Poll \/ Tick \/ UNCHANGED vars
  BY <1>3 DEF Start, Signal, Poll, Tick, vars
<1>4. CASE Shutdown \/ DaemonDies
  <2>1. task'[t] \in {Rest, task[t]}
    BY <1>1, <1>4 DEF Shutdown, DaemonDies, DaemonEnds
  <2> QED  BY <2>1 DEF Rest
<1>5. CASE \/ \E u \in Cron : CronTick(u)
           \/ \E u \in Manual : RunOnce(u)
           \/ \E u \in Cli \cup Batch : CommandBegins(u)
  <2>1. PICK u, run : u \in Task /\ ~Busy(u) /\ task' = [task EXCEPT ![u] = run]
    BY <1>5 DEF CronTick, RunOnce, CommandBegins, Becomes, Task, Runner
  <2> QED  BY <1>2, <2>1 DEF Busy
<1>6. ASSUME NEW u \in Task, Dies(u) PROVE FALSE
  BY <1>1, <1>2, <1>6 DEF Dies, Becomes, Rest
<1>7. ASSUME NEW u \in Task, RunStep(u) PROVE u = t
  <2>1. PICK run : task' = [task EXCEPT ![u] = run]
    BY <1>7 DEF RunStep, CreateSession, Scan, FailSession, Export, Complete, Insert,
       Inserted, Lookup, Dispatch, Falters, Abandons, Ends, Goto, Becomes
  <2> QED  BY <1>2, <2>1
<1>8. ASSUME RunStep(t) PROVE Lookup(t)
  BY <1>8 DEF RunStep, CreateSession, Scan, FailSession, Export, Complete, Insert,
     Inserted, Dispatch
<1> QED  BY <1>3, <1>4, <1>5, <1>6, <1>7, <1>8 DEF Next

\* One row can be newer than the newest of the others, so that one is among
\* the two newest, and previous_completed_session finds it.
LEMMA PreviousIsNewest ==
  ASSUME NEW ss \in Seq(Session), NEW h, NEW exclude
  PROVE  LET p == PreviousCompleted(ss, h, exclude)
             others == Completed(ss, h) \ {exclude}
         IN  IF others = {} THEN p = 0
             ELSE p \in others /\ \A i \in others : i # p => Newer(ss, p, i)
<1> DEFINE others == Completed(ss, h) \ {exclude}
           two == NewestTwo(ss, h) \ {exclude}
           First(S, i) == \A j \in S : j = i \/ Newer(ss, i, j)
           p == PreviousCompleted(ss, h, exclude)
<1>1. others \in SUBSET (DOMAIN ss) /\ two \subseteq others
  BY DEF NewestTwo, Completed
<1>2. \A i \in DOMAIN ss : ss[i].start \in Nat /\ i \in Nat
  <2>1. \A i \in DOMAIN ss : ss[i] \in Session  OBVIOUS
  <2>2. DOMAIN ss = 1 .. Len(ss) /\ Len(ss) \in Nat  OBVIOUS
  <2> QED  BY <2>1, <2>2 DEF Session
<1>3. p = IF two = {} THEN 0 ELSE CHOOSE i \in two : First(two, i)
  BY DEF PreviousCompleted
<1>4. ASSUME others # {} PROVE p \in others /\ First(others, p)
  <2>1. PICK n \in others : First(others, n)
    <3> HIDE DEF others
    <3> QED  BY <1>1, <1>4, Newest
  <2>2. n \in two
    <3> DEFINE ahead == {j \in Completed(ss, h) : Newer(ss, j, n)}
    <3>1. ahead \subseteq {exclude}
      <4>1. ASSUME NEW j \in others, Newer(ss, j, n) PROVE FALSE
        BY <1>1, <1>2, <2>1, <4>1 DEF Newer
      <4> QED  BY <4>1
    <3>2. Cardinality(ahead) < 2
      <4>1. IsFiniteSet({exclude}) /\ Cardinality({exclude}) = 1  BY FS_Singleton
      <4>2. Cardinality(ahead) \in Nat /\ Cardinality(ahead) <= Cardinality({exclude})
        <5> HIDE DEF ahead
        <5>1. IsFiniteSet(ahead)  BY <3>1, <4>1, FS_Subset
        <5> QED  BY <3>1, <4>1, <5>1, FS_Subset, FS_CardinalityType
      <4> HIDE DEF ahead
      <4> QED  BY <4>1, <4>2
    <3> QED  BY <3>2 DEF NewestTwo
  <2>3. First(two, n)  BY <1>1, <2>1
  <2> HIDE DEF two, First
  <2>4. (CHOOSE i \in two : First(two, i)) \in two
        /\ First(two, CHOOSE i \in two : First(two, i))
    BY <2>2, <2>3
  <2>5. p \in two /\ First(two, p)
    <3> HIDE DEF p
    <3> QED  BY <1>3, <2>2, <2>4
  <2> HIDE DEF p, others
  <2>6. p = n
    BY <1>1, <1>2, <2>1, <2>2, <2>5 DEF First, Newer
  <2> QED  BY <2>1, <2>6
<1>5. ASSUME others = {} PROVE p = 0
  <2>1. two = {}  BY <1>1, <1>5
  <2> HIDE DEF two
  <2> QED  BY <1>3, <2>1
<1> QED  BY <1>4, <1>5

(***************************************************************************)
(* Asking for the two newest completed sessions and leaving out its own, a  *)
(* run finds the newest of the others whenever there is one: for any number *)
(* of writers of the history, starting and ending in any order.             *)
(***************************************************************************)
THEOREM LooksBackAtTheLast == Spec => ComparedWithTheLast
<1>1. ASSUME Inv, [Next]_vars, NEW t \in Runner,
             task[t].pc = "lookup", task'[t].pc = "dispatch"
      PROVE  LET answer == PreviousCompleted(sessions, task[t].host, task[t].session)
                 others == {i \in DOMAIN sessions \ {task[t].session} :
                              /\ sessions[i].host = task[t].host
                              /\ sessions[i].status = "completed"}
             IN  /\ task'[t].previous = answer \/ (Faults /\ task'[t].previous = 0)
                 /\ IF others = {} THEN answer = 0
                    ELSE /\ answer \in others
                         /\ \A i \in others : i # answer => Newer(sessions, answer, i)
  <2> DEFINE others == {i \in DOMAIN sessions \ {task[t].session} :
                              /\ sessions[i].host = task[t].host
                              /\ sessions[i].status = "completed"}
             answer == PreviousCompleted(sessions, task[t].host, task[t].session)
  <2>1. Lookup(t)  BY <1>1, OnlyLookup
  <2>2. task \in [Task -> Run] /\ task[t] \in Run /\ sessions \in Seq(Session) /\ t \in Task
    BY <1>1 DEF Inv, TypeOK, Task
  <2>3. PICK previous \in {answer} \cup (IF Faults THEN {0} ELSE {}) :
          Becomes(t, [task[t] EXCEPT !.pc = "dispatch", !.previous = previous])
    BY <2>1 DEF Lookup
  <2>4. task'[t].previous = previous  BY <2>2, <2>3 DEF Becomes, Run
  <2>5. others = Completed(sessions, task[t].host) \ {task[t].session}  BY DEF Completed
  <2>6. IF others = {} THEN answer = 0
        ELSE answer \in others /\ \A i \in others : i # answer => Newer(sessions, answer, i)
    <3> HIDE DEF others, answer
    <3> QED  BY <2>2, <2>5, PreviousIsNewest DEF answer
  <2>7. task'[t].previous = answer \/ (Faults /\ task'[t].previous = 0)
    BY <2>3, <2>4
  <2> QED  BY <2>6, <2>7
<1>2. Inv /\ [Next]_vars =>
        \A t \in Runner :
          task[t].pc = "lookup" /\ task'[t].pc = "dispatch" =>
            LET answer == PreviousCompleted(sessions, task[t].host, task[t].session)
                others == {i \in DOMAIN sessions \ {task[t].session} :
                             /\ sessions[i].host = task[t].host
                             /\ sessions[i].status = "completed"}
            IN  /\ task'[t].previous = answer \/ (Faults /\ task'[t].previous = 0)
                /\ IF others = {} THEN answer = 0
                   ELSE /\ answer \in others
                        /\ \A i \in others : i # answer => Newer(sessions, answer, i)
  BY <1>1
<1> QED  BY <1>2, Invariant, PTL DEF Spec, ComparedWithTheLast

==============================================================================
