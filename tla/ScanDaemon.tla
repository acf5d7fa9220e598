------------------------------ MODULE ScanDaemon ------------------------------
(***************************************************************************)
(* Scheduled scans: the Daemon (crates/hardener-scheduler/src/daemon.rs),   *)
(* the ScanRunner it runs (runner.rs), and the other writers of the same    *)
(* history: `daemon run-once`, `scan` and `batch scan`, each a process of   *)
(* its own.  The jobs of the cron scheduler are tasks of the daemon's       *)
(* process and share its scan_in_progress flag; nothing else is shared but  *)
(* the database.                                                            *)
(*                                                                          *)
(* Every await of a run is a step.  SQLite makes each statement atomic and  *)
(* no two of them: completing a session and inserting each of its findings  *)
(* are steps of their own.                                                  *)
(***************************************************************************)
EXTENDS ScanHistory

CONSTANTS
  Here,         \* the host the daemon runs on, and the only one it scans
  Plugin,
  PluginOf,     \* finding |-> the plugin that reports it
  Cron,         \* jobs the cron scheduler has spawned
  Manual,       \* `daemon run-once` processes
  Cli,          \* `scan` processes
  Batch,        \* the hosts of a `batch scan`
  MinSeverity,  \* min_severity: what a run records
  Floor,        \* notify_min_severity
  AlertMode,    \* notify_mode
  Faults,       \* whether plugins, exports and statements may fail
  Stored,       \* the sessions earlier runs left in the history
  MaxSessions,  \* bound: sessions of the history, those stored included
  MaxTime       \* bound: seconds that pass

Runner == Cron \cup Manual
Task == Runner \cup Cli \cup Batch

ASSUME DaemonAssumption ==
  /\ Here \in Host
  /\ PluginOf \in [Finding -> Plugin]
  /\ Runner \cap (Cli \cup Batch) = {} /\ Cron \cap Manual = {} /\ Cli \cap Batch = {}
  /\ MinSeverity \in Severity /\ Floor \in Severity
  /\ AlertMode \in Mode /\ Faults \in BOOLEAN
  /\ MaxSessions \in Nat /\ MaxTime \in Nat

\* A history to begin with: its sessions are settled, and one that covered its
\* whole host counts what was there, at least from this daemon's threshold up.
ASSUME StoredAssumption ==
  /\ Stored \in Seq(Session)
  /\ \A i \in DOMAIN Stored :
       /\ \/ Stored[i].status = "failed"
          \/ /\ Stored[i].status = "completed"
             /\ Stored[i].counts = Counts(Stored[i].rows)
       /\ Stored[i].whole => \A s \in Severity :
            s >= MinSeverity => Stored[i].counts[s] = Counts(Stored[i].truth)[s]

VARIABLES
  now,        \* the clock, in the seconds sessions are stamped with
  sessions,   \* the scan history, in rowid order
  flag,       \* daemon_scan_in_progress
  daemon,     \* where Daemon::start is
  task,       \* task |-> the run it is on
  abandoned   \* sessions whose writer died or met an error (history)

vars == <<now, sessions, flag, daemon, task, abandoned>>

PC == {"idle", "create", "scan", "fail", "export", "complete", "insert",
       "lookup", "dispatch"}

Run == [pc : PC,
        host : Host,
        session : Nat,              \* its number; 0 before it is created
        start : Nat,                \* when the scan began
        found : SUBSET Finding,     \* what it is to record
        left : SUBSET Finding,      \* the findings still to insert
        truth : SUBSET Finding,     \* the host as it was (history)
        whole : BOOLEAN,            \* whether every plugin reported (history)
        previous : Nat]             \* the session it is compared with

\* Every variable has its type.
TypeOK ==
  /\ now \in Nat
  /\ sessions \in Seq(Session)
  /\ flag \in BOOLEAN
  /\ daemon \in {"off", "running", "stopping", "idle"}
  /\ task \in [Task -> Run]
  /\ abandoned \subseteq Nat

Rest ==
  [pc |-> "idle", host |-> Here, session |-> 0, start |-> 0, found |-> {}, left |-> {},
   truth |-> {}, whole |-> FALSE, previous |-> 0]

Init ==
  /\ now = 0
  /\ sessions = Stored
  /\ flag = FALSE /\ daemon = "off"
  /\ task = [t \in Task |-> Rest]
  /\ abandoned = {}

------------------------------------------------------------------------------
Becomes(t, run) == task' = [task EXCEPT ![t] = run]

Goto(t, pc) == Becomes(t, [task[t] EXCEPT !.pc = pc])

\* A run returns, and a job of the daemon clears the flag, error or not.
Ends(t) ==
  /\ Becomes(t, Rest)
  /\ flag' = IF t \in Cron THEN FALSE ELSE flag

\* A run meets an error at a point where it only returns it.
Abandons(t) ==
  /\ Faults
  /\ Ends(t)
  /\ abandoned' = abandoned \cup ({task[t].session} \ {0})

Busy(t) == task[t].pc # "idle"

\* Room for one more session among those created and those to come.
Room == Len(sessions) + Cardinality({t \in Task : Busy(t) /\ task[t].session = 0})
          < MaxSessions

------------------------------------------------------------------------------
(* The daemon. *)

Start ==
  /\ daemon = "off"
  /\ daemon' = "running" /\ flag' = FALSE
  /\ UNCHANGED <<now, sessions, task, abandoned>>

\* Seeded fault: the flag is set, but was not looked at.
CronTickUnchecked(t) ==
  /\ daemon # "off" /\ ~Busy(t) /\ Room
  /\ flag' = TRUE
  /\ Becomes(t, [Rest EXCEPT !.pc = "create"])
  /\ UNCHANGED <<now, sessions, daemon, abandoned>>

\* execute_scan: a job fires while the scheduler lives, and is skipped (a step
\* that changes nothing) when a scan is in progress.
CronTick(t) ==
  /\ daemon # "off" /\ ~Busy(t) /\ Room
  /\ ~flag /\ flag' = TRUE
  /\ Becomes(t, [Rest EXCEPT !.pc = "create"])
  /\ UNCHANGED <<now, sessions, daemon, abandoned>>

\* The signal handler sends, and start goes on to shutdown_scheduler.
Signal ==
  /\ daemon = "running" /\ daemon' = "stopping"
  /\ UNCHANGED <<now, sessions, flag, task, abandoned>>

\* shutdown_scheduler polls until it has seen the flag down.
Poll ==
  /\ daemon = "stopping" /\ ~flag /\ daemon' = "idle"
  /\ UNCHANGED <<now, sessions, flag, task, abandoned>>

\* The daemon's process ends, and every job in it.
DaemonEnds ==
  /\ daemon' = "off" /\ flag' = FALSE
  /\ task' = [t \in Task |-> IF t \in Cron /\ Busy(t) THEN Rest ELSE task[t]]
  /\ abandoned' = abandoned \cup ({task[t].session : t \in Cron} \ {0})
  /\ UNCHANGED <<now, sessions>>

\* The scheduler is shut down and start returns.
Shutdown == daemon = "idle" /\ DaemonEnds

DaemonDies == daemon # "off" /\ DaemonEnds

------------------------------------------------------------------------------
(* ScanRunner::run, and what `scan` and `batch scan` do instead. *)

\* run_once, in a process of its own, whose flag no one else can have set.
RunOnce(t) ==
  /\ ~Busy(t) /\ Room
  /\ Becomes(t, [Rest EXCEPT !.pc = "create"])
  /\ UNCHANGED <<now, sessions, flag, daemon, abandoned>>

\* A command begins a scan, of any host and any of its plugins, and creates
\* its session only when it is done.
CommandBegins(t) ==
  /\ ~Busy(t) /\ Room
  /\ \E h \in Host :
       Becomes(t, [Rest EXCEPT !.pc = "scan", !.host = h, !.start = now])
  /\ UNCHANGED <<now, sessions, flag, daemon, abandoned>>

CreateSession(t) ==
  /\ task[t].pc = "create"
  /\ \/ LET start == IF t \in Runner THEN now ELSE task[t].start
        IN  /\ sessions' = Append(sessions, Created(task[t].host, start))
            /\ Becomes(t, [task[t] EXCEPT !.pc = IF t \in Runner THEN "scan" ELSE "complete",
                                          !.session = Len(sessions) + 1, !.start = start])
            /\ UNCHANGED <<flag, abandoned>>
     \/ Abandons(t) /\ UNCHANGED sessions
  /\ UNCHANGED <<now, daemon>>

\* A plugin that fails reports nothing and the scan goes on; a command may
\* have been told to run only some of them.
Covers(t) == IF Faults \/ t \notin Runner THEN SUBSET Plugin ELSE {Plugin}

\* Seeded fault: a run records what is below its threshold too.
RecordedUnfiltered(t, truth, covered) ==
  {f \in truth : PluginOf[f] \in covered}

\* execute_scan and process_findings: the runner drops what is below its
\* threshold, the commands record all of it.
Recorded(t, truth, covered) ==
  LET reported == {f \in truth : PluginOf[f] \in covered}
  IN  IF t \in Runner THEN AtLeast(reported, MinSeverity) ELSE reported

\* The host may be any way by the time it is scanned.
Scan(t) ==
  /\ task[t].pc = "scan"
  /\ \/ \E truth \in SUBSET Finding, covered \in Covers(t) :
          Becomes(t, [task[t] EXCEPT !.pc = IF t \in Runner THEN "export" ELSE "create",
                                     !.found = Recorded(t, truth, covered),
                                     !.truth = truth,
                                     !.whole = covered = Plugin])
     \/ Faults /\ t \in Runner /\ Goto(t, "fail")
  /\ UNCHANGED <<now, sessions, flag, daemon, abandoned>>

\* Seeded fault: the error is returned and the session left as it is.
FailSessionForgotten(t) ==
  /\ task[t].pc = "fail"
  /\ Ends(t)
  /\ UNCHANGED <<now, sessions, daemon, abandoned>>

\* fail_session, after a scan that failed, and by a batch of a session it could
\* not complete.
FailSession(t) ==
  /\ task[t].pc = "fail"
  /\ \/ /\ sessions' = [sessions EXCEPT ![task[t].session].status = "failed"]
        /\ Ends(t)
        /\ UNCHANGED abandoned
     \/ Abandons(t) /\ UNCHANGED sessions
  /\ UNCHANGED <<now, daemon>>

\* Seeded fault: a scan whose export failed is done over.
ExportRetried(t) ==
  /\ task[t].pc = "export"
  /\ \E pc \in IF Faults THEN {"complete", "scan"} ELSE {"complete"} : Goto(t, pc)
  /\ UNCHANGED <<now, sessions, flag, daemon, abandoned>>

\* The JSON file is written; a run whose export fails just returns.
Export(t) ==
  /\ task[t].pc = "export"
  /\ \/ Goto(t, "complete") /\ UNCHANGED <<flag, abandoned>>
     \/ Abandons(t)
  /\ UNCHANGED <<now, sessions, daemon>>

\* complete_session could not go on.
Falters(t) ==
  IF t \in Batch
  THEN Faults /\ Goto(t, "fail") /\ UNCHANGED <<flag, abandoned>>
  ELSE Abandons(t)

\* complete_session, its UPDATE: status and counts.
Complete(t) ==
  /\ task[t].pc = "complete"
  /\ \/ /\ sessions' = [sessions EXCEPT ![task[t].session] =
                          [sessions[task[t].session] EXCEPT
                             !.status = "completed", !.counts = Counts(task[t].found),
                             !.truth = task[t].truth, !.whole = task[t].whole]]
        /\ Becomes(t, [task[t] EXCEPT !.pc = "insert", !.left = task[t].found])
        /\ UNCHANGED <<flag, abandoned>>
     \/ Falters(t) /\ UNCHANGED sessions
  /\ UNCHANGED <<now, daemon>>

\* insert_finding, one at a time.
Insert(t) ==
  /\ task[t].pc = "insert"
  /\ \/ \E f \in task[t].left :
          /\ sessions' = [sessions EXCEPT ![task[t].session] =
                            [sessions[task[t].session] EXCEPT !.rows = @ \cup {f}]]
          /\ Becomes(t, [task[t] EXCEPT !.left = @ \ {f}])
          /\ UNCHANGED <<flag, abandoned>>
     \/ task[t].left # {} /\ Falters(t) /\ UNCHANGED sessions
  /\ UNCHANGED <<now, daemon>>

\* Every finding is in: the runner goes on to notify, a command is done.
Inserted(t) ==
  /\ task[t].pc = "insert" /\ task[t].left = {}
  /\ IF t \in Runner THEN Goto(t, "lookup") /\ UNCHANGED flag ELSE Ends(t)
  /\ UNCHANGED <<now, sessions, daemon, abandoned>>

\* previous_completed_session: a lookup that fails is "none".
Lookup(t) ==
  /\ task[t].pc = "lookup"
  /\ \E previous \in {PreviousCompleted(sessions, task[t].host, task[t].session)}
                       \cup (IF Faults THEN {0} ELSE {}) :
       Becomes(t, [task[t] EXCEPT !.pc = "dispatch", !.previous = previous])
  /\ UNCHANGED <<now, sessions, flag, daemon, abandoned>>

\* dispatch, on the summary of this very run.  Each channel is tried once, and
\* nothing is done about one that fails.
Verdict(t) ==
  LET current == Counts(task[t].found)
      previous == task[t].previous
  IN  IF previous # 0 /\ Regressed(AlertMode, Floor, sessions[previous].counts, current)
      THEN "regression"
      ELSE IF Absolute(AlertMode, Floor, current) THEN "findings" ELSE "none"

Dispatch(t) ==
  /\ task[t].pc = "dispatch"
  /\ sessions' = [sessions EXCEPT ![task[t].session].told = Verdict(t)]
  /\ Ends(t)
  /\ UNCHANGED <<now, daemon, abandoned>>

\* A process other than the daemon dies.
Dies(t) ==
  /\ t \notin Cron /\ Busy(t)
  /\ Becomes(t, Rest)
  /\ abandoned' = abandoned \cup ({task[t].session} \ {0})
  /\ UNCHANGED <<now, sessions, flag, daemon>>

------------------------------------------------------------------------------
Tick ==
  /\ now < MaxTime /\ now' = now + 1
  /\ UNCHANGED <<sessions, flag, daemon, task, abandoned>>

RunStep(t) ==
  \/ CreateSession(t) \/ Scan(t) \/ FailSession(t) \/ Export(t) \/ Complete(t)
  \/ Insert(t) \/ Inserted(t) \/ Lookup(t) \/ Dispatch(t)

Next ==
  \/ Start \/ Signal \/ Poll \/ Shutdown \/ DaemonDies
  \/ \E t \in Cron : CronTick(t)
  \/ \E t \in Manual : RunOnce(t)
  \/ \E t \in Cli \cup Batch : CommandBegins(t)
  \/ \E t \in Task : RunStep(t) \/ Dies(t)
  \/ Tick

Spec == Init /\ [][Next]_vars

\* A task that has begun is polled by its runtime to its end.
FairSpec == Spec /\ \A t \in Task : WF_vars(RunStep(t))

------------------------------------------------------------------------------
(***************************************************************************)
(* One scheduled scan at a time ("Atomic scan guard to prevent overlapping  *)
(* scans"), and the flag is up exactly as long as there is one: a flag left *)
(* up would stop every later scan and hold shutdown for ever.               *)
(***************************************************************************)
OneScanAtATime ==
  /\ \A t, u \in Cron : Busy(t) /\ Busy(u) => t = u
  /\ flag <=> \E t \in Cron : Busy(t)

\* The session a task is still to bring to its end.
Owned == {task[t].session : t \in Task}

(***************************************************************************)
(* A session whose writer neither died nor met an error is settled: failed, *)
(* or completed with every finding its counts speak of, so what `history`   *)
(* compares and what it lists agree.                                        *)
(***************************************************************************)
SessionsSettle ==
  \A i \in DOMAIN sessions \ (Owned \cup abandoned) :
    \/ sessions[i].status = "failed"
    \/ /\ sessions[i].status = "completed"
       /\ sessions[i].counts = Counts(sessions[i].rows)

\* What a host is like as a session of a run of this daemon would count it.
Seen(truth) == Counts(AtLeast(AtLeast(truth, MinSeverity), Floor))

Dispatches(t) ==
  task[t].pc = "dispatch" /\ task'[t].pc = "idle" /\ abandoned' = abandoned

(***************************************************************************)
(* A run that could look back, and both whose scan and the one it is        *)
(* compared with covered the whole host, alerts of a regression if and only *)
(* if the host really got worse in between: "`regression` alerts only when  *)
(* a host got worse than its previous scan".                                *)
(***************************************************************************)
RegressionIsReal ==
  [][\A t \in Runner : Dispatches(t) =>
       LET run == task[t]
           previous == sessions[run.previous]
       IN  run.previous # 0 /\ previous.whole /\ run.whole =>
             ( sessions'[run.session].told = "regression" <=>
                 /\ AlertMode # "findings"
                 /\ IsWorse(Seen(previous.truth), Seen(run.truth)) )]_vars

(***************************************************************************)
(* A run is compared with the newest completed session of its host but its  *)
(* own, and with none only where there is none: the two newest that         *)
(* previous_completed_session asks for, its own among them or not, are      *)
(* enough.  A lookup that fails goes without, and is the only one that may. *)
(***************************************************************************)
ComparedWithTheLast ==
  [][\A t \in Runner :
       task[t].pc = "lookup" /\ task'[t].pc = "dispatch" =>
         LET answer == PreviousCompleted(sessions, task[t].host, task[t].session)
             others == {i \in DOMAIN sessions \ {task[t].session} :
                          /\ sessions[i].host = task[t].host
                          /\ sessions[i].status = "completed"}
         IN  /\ task'[t].previous = answer \/ (Faults /\ task'[t].previous = 0)
             /\ IF others = {} THEN answer = 0
                ELSE /\ answer \in others
                     /\ \A i \in others : i # answer => Newer(sessions, answer, i)]_vars

\* A scan of the daemon's ends, and lets the next one begin.
NextScanCanBegin == flag ~> ~flag

\* Daemon::stop: "waits for any in-progress scan to complete before stopping
\* the scheduler".  From when the wait is over, none is in progress.
ShutdownWaits == daemon = "idle" => \A t \in Cron : ~Busy(t)

==============================================================================
