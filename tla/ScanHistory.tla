----------------------------- MODULE ScanHistory -----------------------------
(***************************************************************************)
(* The scan history (ScanHistoryManager,                                    *)
(* crates/hardener-scheduler/src/db.rs) and what a notification is decided  *)
(* from (notification/mod.rs): pure functions of the stored sessions.       *)
(*                                                                          *)
(* A session is its row; its number is its rowid.  What a scan finds is a   *)
(* set of findings, and a severity a number from Info, 1, to Critical, 5.   *)
(***************************************************************************)
EXTENDS Naturals, FiniteSets, Sequences

CONSTANTS
  Host,
  Finding,
  SeverityOf   \* finding |-> its severity

Severity == 1 .. 5

ASSUME FindingAssumption ==
  /\ IsFiniteSet(Finding)
  /\ SeverityOf \in [Finding -> Severity]

Tuple == [Severity -> Nat]

\* SeverityCounts::from_findings
Counts(found) ==
  [s \in Severity |-> Cardinality({f \in found : SeverityOf[f] = s})]

\* process_findings, and a floor on a set of findings: those at or above it.
AtLeast(found, floor) == {f \in found : SeverityOf[f] >= floor}

\* above_floor
AboveFloor(t, floor) == [s \in Severity |-> IF s >= floor THEN t[s] ELSE 0]

\* is_worse: the lexicographic order of the tuples, critical first.
IsWorse(previous, current) ==
  \E s \in Severity :
    /\ current[s] > previous[s]
    /\ \A worse \in Severity : worse > s => current[worse] = previous[worse]

\* meets_severity_threshold.  For Info the code asks for the total, the sum.
MeetsThreshold(current, floor) ==
  \E s \in Severity : s >= floor /\ current[s] > 0

Mode == {"findings", "regression", "both"}

\* alert_decision
Regressed(mode, floor, previous, current) ==
  /\ mode \in {"regression", "both"}
  /\ IsWorse(AboveFloor(previous, floor), AboveFloor(current, floor))

Absolute(mode, floor, current) ==
  mode \in {"findings", "both"} /\ MeetsThreshold(current, floor)

------------------------------------------------------------------------------
Status == {"running", "completed", "failed"}

\* What a run's notifications told (notification_log).
Told == {"none", "findings", "regression"}

\* A row of scan_sessions and its scan_findings.  `truth` and `whole` are not
\* stored: what the host really was like when it was scanned, and whether the
\* scan covered all of it.
Session == [host : Host, start : Nat, status : Status, counts : Tuple,
            rows : SUBSET Finding, told : Told, truth : SUBSET Finding, whole : BOOLEAN]

NoCounts == [s \in Severity |-> 0]

\* Seeded fault: a status the readers do not know.
CreatedOpen(host, start) ==
  [host |-> host, start |-> start, status |-> "open", counts |-> NoCounts,
   rows |-> {}, told |-> "none", truth |-> {}, whole |-> FALSE]

\* create_session_started_at
Created(host, start) ==
  [host |-> host, start |-> start, status |-> "running", counts |-> NoCounts,
   rows |-> {}, told |-> "none", truth |-> {}, whole |-> FALSE]

\* ORDER BY started_at DESC, rowid DESC
Newer(sessions, i, j) ==
  \/ sessions[i].start > sessions[j].start
  \/ sessions[i].start = sessions[j].start /\ i > j

Completed(sessions, host) ==
  {i \in DOMAIN sessions :
     sessions[i].host = host /\ sessions[i].status = "completed"}

\* Seeded fault: only the newest is asked for.
NewestOnly(sessions, host) ==
  LET completed == Completed(sessions, host)
  IN  {i \in completed :
         Cardinality({j \in completed : Newer(sessions, j, i)}) < 1}

\* list_sessions of the completed ones, LIMIT 2
NewestTwo(sessions, host) ==
  LET completed == Completed(sessions, host)
  IN  {i \in completed :
         Cardinality({j \in completed : Newer(sessions, j, i)}) < 2}

\* previous_completed_session: 0 is "none".
PreviousCompleted(sessions, host, exclude) ==
  LET others == NewestTwo(sessions, host) \ {exclude}
  IN  IF others = {} THEN 0
      ELSE CHOOSE i \in others : \A j \in others : j = i \/ Newer(sessions, i, j)

==============================================================================
