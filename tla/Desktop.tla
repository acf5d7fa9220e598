------------------------------- MODULE Desktop -------------------------------
(***************************************************************************)
(* The commands of the desktop application (src-tauri/src/commands): scans  *)
(* and the sessions they file, the privileged verbs run through pkexec      *)
(* under one guard, the two checkpoint databases, and the compliance report *)
(* made from the latest session.  The runtime runs commands concurrently.   *)
(*                                                                          *)
(* What a scan found of a plugin is read, failed or skipped; a checkpoint   *)
(* is its id and whether it is of this host.                                *)
(***************************************************************************)
EXTENDS Naturals, Sequences, FiniteSets

CONSTANTS
  Absent,
  Command,      \* the commands under way at once
  Plugin,
  Selections,   \* the plugins a scan may be asked for
  Books,        \* the databases and the configuration it may start with, and
                \* the commands it is asked for
  Id,           \* checkpoint ids
  Cooldown,     \* seconds between two privileged operations
  MaxScans, MaxTicks, MaxFaults

\* What a database is, and whether it could be looked at.
Database == [reach : {"read", "unreadable", "absent"}, rows : SUBSET [id : Id, here : BOOLEAN]]

DesktopAssumption ==
    /\ Cooldown \in Nat /\ MaxTicks \in Nat \ {0} /\ MaxFaults \in Nat
    /\ \A b \in Books :
         /\ b.off \subseteq Plugin
         /\ b.user \in Database /\ b.system \in Database
         /\ b.system.reach = "absent" => b.system.rows = {}

VARIABLES
  app,     \* the guard's statics, the clock, and when a prompt last ended
  call,    \* what each command is doing
  book     \* the sessions, the checkpoints and the configuration

vars == <<app, call, book>>

Privileged == {"deep", "apply", "preview", "rollback", "create", "delete"}

NoRows == <<>>
Nothing == <<>>
Idle(said) == [kind |-> "none", pc |-> "idle", saw |-> 0, session |-> 0, of |-> Absent, said |-> said]
Begun(kind, of, pc, saw, session) ==
    [kind |-> kind, pc |-> pc, saw |-> saw, session |-> session, of |-> of, said |-> Nothing]

\* What a run of the process starts with.
Fresh == [busy |-> FALSE, last |-> 0, now |-> 1, ended |-> 0]

Init ==
    /\ app = Fresh
    /\ call = [c \in Command |-> Idle(Nothing)]
    /\ book \in {[sessions |-> <<>>, user |-> b.user, system |-> b.system, off |-> b.off,
                  verbs |-> b.verbs, lost |-> {}, faults |-> 0] : b \in Books}

Asks(c) == call[c] = Idle(Nothing)
Answer(c, said) == call' = [call EXCEPT ![c] = Idle(said)]
To(c, pc) == call' = [call EXCEPT ![c].pc = pc]

(***************************************************************************)
(* What a scan finds, and the session it is filed in.                      *)
(***************************************************************************)

\* recorded_scan: an error is a result like another.
Recorded == {"read", "failed"}

\* collect_findings: a plugin the configuration disables brings nothing.
Collected(b) == [Plugin \ b.off -> Recorded]

\* Seeded fault: a scan of disabled plugins alone is filed like another.
RefusesNothing(selected, b) == FALSE

\* scan_selection_refusal: nothing ran, and the configuration is why.
Refused(selected, b) == selected \subseteq b.off

\* run_scan: the plugins that ran, and a marker for each that was passed over.
Results(selected, b) ==
    IF Refused(selected, b) THEN {}
    ELSE {r \in [selected -> Recorded \cup {"skipped"}] :
            \A p \in selected : (r[p] = "skipped") <=> p \in b.off}

\* start_session.  `truth`, what the scan found, is not stored.
StartSession(b, now) ==
    [b EXCEPT !.sessions = Append(@, [at |-> now, status |-> "running", rows |-> NoRows, truth |-> NoRows])]

\* Seeded fault: the rows are inserted one by one, outside a transaction.
HalfStored(b, i, results, fails) ==
    [b EXCEPT !.sessions[i].rows =
        IF fails THEN [p \in {CHOOSE p \in DOMAIN results : TRUE} |-> results[p]] ELSE results,
              !.sessions[i].truth = results, !.faults = @ + IF fails THEN 1 ELSE 0]

\* store_results, one transaction.
StoreResults(b, i, results, fails) ==
    [b EXCEPT !.sessions[i].rows = IF fails THEN NoRows ELSE results,
              !.sessions[i].truth = results, !.faults = @ + IF fails THEN 1 ELSE 0]

\* complete_session.  A write that fails is logged, and the row is left as it was.
CompleteSession(b, i, status, fails) ==
    IF fails THEN [b EXCEPT !.lost = @ \cup {i}, !.faults = @ + 1]
    ELSE [b EXCEPT !.sessions[i].status = status]

\* fail_session
FailSession(b, i, fails) == CompleteSession(b, i, "failed", fails)

MayFail(b) == IF b.faults < MaxFaults THEN BOOLEAN ELSE {FALSE}

(***************************************************************************)
(* The guard of the privileged commands.                                   *)
(***************************************************************************)

\* Seeded fault: the cooldown begins with a run that raised no prompt.
PacesEveryDrop(a) == [a EXCEPT !.busy = FALSE, !.last = a.now]

\* PrivilegedOpGuard::drop: the mutual exclusion alone.
Drop(a) == [a EXCEPT !.busy = FALSE]

\* What is left of a command that ends: the guard, if it held it, is dropped.
Leave(c, said) ==
    /\ Answer(c, said)
    /\ app' = IF call[c].kind \in Privileged THEN Drop(app) ELSE app

\* mark_privileged_operation_completed
Marked(a) == [a EXCEPT !.last = a.now, !.ended = a.now]

\* PrivilegedOpGuard::acquire: the cooldown is read first ...
Acquire(c, kind, of) ==
    /\ Asks(c)
    /\ IF app.last > 0 /\ app.now - app.last < Cooldown
       THEN Answer(c, <<"cooldown">>)
       ELSE call' = [call EXCEPT ![c] = Begun(kind, of, "paced", app.last, 0)]
    /\ UNCHANGED <<app, book>>

\* Seeded fault: the flag is read, and set later.
SwapsWithoutLooking(c) ==
    /\ call[c].pc = "paced"
    /\ To(c, "held") /\ app' = [app EXCEPT !.busy = TRUE]
    /\ UNCHANGED book

\* ... and the flag is taken after it.
Swap(c) ==
    /\ call[c].pc = "paced"
    /\ IF app.busy THEN Answer(c, Nothing) /\ UNCHANGED app
       ELSE To(c, "held") /\ app' = [app EXCEPT !.busy = TRUE]
    /\ UNCHANGED book

(***************************************************************************)
(* The checkpoints, in a database of the user and one of root.             *)
(***************************************************************************)

Opens(db) == db.reach = "read"

\* collect_checkpoints
Collect(db) == IF Opens(db) THEN db.rows ELSE {}

\* restorable_here
RestorableHere(rows) == {r \in rows : r.here}

\* get_checkpoints: those of this host, whether the system's could not be read,
\* and whether there are others.
GetCheckpoints(c) ==
    LET rows == Collect(book.user) \cup Collect(book.system)
    IN /\ Asks(c)
       /\ Answer(c, <<"listed", RestorableHere(rows), book.system.reach = "unreadable",
                      rows # RestorableHere(rows)>>)
       /\ UNCHANGED <<app, book>>

\* Seeded fault: a database that may not be looked at is taken for absent.
DeniesUnasked(db, id) == \A r \in Collect(db) : r.id # id

\* system_database_denies: absent, or read and without the row.
SystemDatabaseDenies(db, id) ==
    \/ db.reach = "absent"
    \/ Opens(db) /\ \A r \in db.rows : r.id # id

\* CheckpointManager::delete_checkpoint
Without(rows, id) == {r \in rows : r.id # id}

\* resolve_delete, under the guard: removed, not found, or a prompt.
ResolveDelete(c) ==
    LET id == call[c].of
        mine == Opens(book.user) /\ \E r \in book.user.rows : r.id = id
    IN \/ /\ mine
          /\ book' = [book EXCEPT !.user.rows = Without(@, id)]
          /\ Leave(c, Nothing)
       \/ /\ ~mine \/ book.faults < MaxFaults
          /\ book' = IF mine THEN [book EXCEPT !.faults = @ + 1] ELSE book
          /\ IF SystemDatabaseDenies(book.system, id) THEN Leave(c, <<"unknown", id, mine>>)
             ELSE To(c, "armed") /\ UNCHANGED app

(***************************************************************************)
(* The commands.                                                           *)
(***************************************************************************)

\* run_scan: a session is filed before anything is looked at.
BeginScan(c) ==
    /\ Asks(c) /\ Len(book.sessions) < MaxScans
    /\ \E selected \in Selections :
         call' = [call EXCEPT ![c] = Begun("scan", selected, "scanning", 0, Len(book.sessions) + 1)]
    /\ book' = StartSession(book, app.now)
    /\ UNCHANGED app

\* A privileged command refuses its arguments, or cannot file a session.
Refuses(c) == call[c].pc = "held" /\ Leave(c, Nothing) /\ UNCHANGED book

\* run_deep_scan files its session under the guard, before the prompt.
Prepare(c) ==
    /\ call[c].pc = "held"
    /\ IF call[c].kind = "delete" THEN ResolveDelete(c)
       ELSE IF call[c].kind = "deep"
       THEN /\ Len(book.sessions) < MaxScans
            /\ book' = StartSession(book, app.now)
            /\ call' = [call EXCEPT ![c] = Begun("deep", call[c].of, "armed", call[c].saw,
                                               Len(book.sessions) + 1)]
            /\ UNCHANGED app
       ELSE To(c, "armed") /\ UNCHANGED <<app, book>>

\* Command::output of pkexec: the prompt is up, until the child ends.
Prompt(c) == call[c].pc = "armed" /\ To(c, "prompt") /\ UNCHANGED <<app, book>>

\* Seeded fault: a scan that did not come to an end is left as it is.
LeavesItRunning(c, fails) == UNCHANGED book

\* fail_session_on_err
FailSessionOnErr(c, fails) ==
    book' = IF call[c].session = 0 THEN book ELSE FailSession(book, call[c].session, fails)

\* A scan is given up: an unreadable configuration, every plugin disabled, pkexec
\* that cannot be started.
Abort(c) ==
    /\ call[c].pc \in {"armed", "scanning"}
    /\ \E fails \in MayFail(book) : FailSessionOnErr(c, fails)
    /\ Leave(c, Nothing)

\* persist_scan_results: stored, then completed whether it was stored or not.
PersistScanResults(b, i, results, first, then) ==
    CompleteSession(StoreResults(b, i, results, first), i, "completed", then)

\* A scan comes to its end.  The two writes are two transactions: a report reads
\* completed sessions alone, which this one becomes with the second, and an end of
\* the application between them is a second write that failed.
EndScan(c, results) ==
    \E first \in MayFail(book) :
      \E then \in MayFail([book EXCEPT !.faults = @ + IF first THEN 1 ELSE 0]) :
        book' = PersistScanResults(book, call[c].session, results, first, then)

Scanned(c) ==
    /\ call[c].pc = "scanning"
    /\ \E results \in Results(call[c].of, book) : EndScan(c, results)
    /\ Leave(c, Nothing)

\* run_privileged: an exit code, and whether the output parses.
Exits == {[code |-> 0, parses |-> TRUE], [code |-> 1, parses |-> TRUE],
          [code |-> 1, parses |-> FALSE], [code |-> 126, parses |-> FALSE]}

\* exit_code_may_carry_json
MayCarryJson(exit) == exit.code \in {0, 1}

\* accept_json_output
AcceptJson(exit) == MayCarryJson(exit) /\ exit.parses

\* run_privileged_command: no payload is worth keeping of another exit.
AcceptPlain(exit) == exit.code = 0

\* The rows a child running as root adds; a database it creates may be closed to
\* the desktop.
Captured(b) ==
    {[b EXCEPT !.system = [reach |-> reach, rows |-> @.rows \cup {[id |-> id, here |-> TRUE]}]] :
        id \in Id \ {r.id : r \in b.user.rows \cup b.system.rows},
        reach \in IF b.system.reach = "absent" THEN {"read", "unreadable"} ELSE {b.system.reach}}

\* run_apply: every plugin's checkpoint first, whatever becomes of its apply.
Applied(b, exit) == IF exit.code = 126 THEN {b} ELSE {b} \cup Captured(b)

\* run_apply_dry_run writes nothing.
Previewed(b, exit) == {b}

\* run_rollback: the state before it is captured.
RolledBack(b, exit) == IF exit.code = 126 THEN {b} ELSE {b} \cup Captured(b)

\* create_checkpoint
Created(b, exit) == IF AcceptPlain(exit) THEN Captured(b) ELSE {b}

\* delete_checkpoint, what is left of it to the privileged run.
Deleted(b, exit, id) ==
    IF AcceptPlain(exit) THEN {[b EXCEPT !.system.rows = Without(@, id)]} ELSE {b}

\* The child ends and the cooldown begins; what it printed is read, and the guard
\* dropped.
ChildEnds(c) ==
    LET marked == Marked(app)
        kind == call[c].kind
    IN /\ call[c].pc = "prompt"
       /\ \E exit \in Exits :
            \/ /\ kind = "deep"
               /\ IF AcceptJson(exit)
                  THEN \E results \in Results(call[c].of, book) : EndScan(c, results)
                  ELSE \E fails \in MayFail(book) : FailSessionOnErr(c, fails)
            \/ kind = "apply" /\ book' \in Applied(book, exit)
            \/ kind = "preview" /\ book' \in Previewed(book, exit)
            \/ kind = "rollback" /\ book' \in RolledBack(book, exit)
            \/ kind = "create" /\ book' \in Created(book, exit)
            \/ /\ kind = "delete"
               /\ AcceptPlain(exit) => \E r \in book.system.rows : r.id = call[c].of
               /\ book' \in Deleted(book, exit, call[c].of)
       /\ Answer(c, Nothing)
       /\ app' = Drop(marked)

(***************************************************************************)
(* The compliance report.                                                  *)
(***************************************************************************)

\* ORDER BY started_at DESC, rowid DESC
Newer(sessions, i, j) ==
    sessions[i].at > sessions[j].at \/ (sessions[i].at = sessions[j].at /\ i > j)

\* get_latest_scan, of the completed ones.
LatestScan(sessions) ==
    LET completed == {i \in DOMAIN sessions : sessions[i].status = "completed"}
    IN {i \in completed : \A j \in completed : j = i \/ Newer(sessions, i, j)}

\* Seeded fault: a session without results stands.
AnySource(b) == {b.sessions[i].rows : i \in LatestScan(b.sessions)}

\* persisted_scan_source: a session without results is no source.
PersistedSource(b) == {b.sessions[i].rows : i \in LatestScan(b.sessions)} \ {NoRows}

\* latest_or_fresh_findings, with the history or without it.
Sourced(b, read) ==
    IF read /\ PersistedSource(b) # {} THEN PersistedSource(b) ELSE Collected(b)

\* generate_compliance_report
GenerateReport(c) ==
    /\ Asks(c)
    /\ \E read \in BOOLEAN, rows \in UNION {Sourced(book, r) : r \in BOOLEAN} :
         /\ ~read => book.faults < MaxFaults
         /\ rows \in Sourced(book, read)
         /\ Answer(c, <<"report", rows>>)
         /\ book' = IF read THEN book ELSE [book EXCEPT !.faults = @ + 1]
    /\ UNCHANGED app

\* The front end shows the answer.
Show(c) == call[c].pc = "idle" /\ ~Asks(c) /\ Answer(c, Nothing) /\ UNCHANGED <<app, book>>

Tick == app.now < MaxTicks /\ app' = [app EXCEPT !.now = @ + 1] /\ UNCHANGED <<call, book>>

\* The application is closed and started again; sessions under way stay as they are.
Restart ==
    /\ book.faults < MaxFaults
    /\ app' = [Fresh EXCEPT !.now = app.now]
    /\ call' = [c \in Command |-> Idle(Nothing)]
    /\ book' = [book EXCEPT !.faults = @ + 1, !.lost = @ \cup {call[c].session : c \in Command}]

Step(c) ==
    \/ \E kind \in (Privileged \cap book.verbs) \ {"deep", "delete"} : Acquire(c, kind, Absent)
    \/ \E selected \in Selections : "deep" \in book.verbs /\ Acquire(c, "deep", selected)
    \/ \E id \in Id : "delete" \in book.verbs /\ Acquire(c, "delete", id)
    \/ Swap(c) \/ Refuses(c) \/ Prepare(c) \/ Prompt(c) \/ ChildEnds(c)
    \/ "scan" \in book.verbs /\ BeginScan(c)
    \/ Scanned(c) \/ Abort(c)
    \/ "list" \in book.verbs /\ GetCheckpoints(c)
    \/ "report" \in book.verbs /\ GenerateReport(c)
    \/ Show(c)

Next == Tick \/ Restart \/ \E c \in Command : Step(c)

Spec == Init /\ [][Next]_vars

------------------------------------------------------------------------------
TypeOK ==
    /\ app \in [busy : BOOLEAN, last : 0 .. MaxTicks, now : 1 .. MaxTicks, ended : 0 .. MaxTicks]
    /\ \A c \in Command :
         call[c].pc \in {"idle", "paced", "held", "armed", "prompt", "scanning"}
    /\ \A i \in DOMAIN book.sessions :
         book.sessions[i].status \in {"running", "completed", "failed"}
    /\ book.faults \in 0 .. MaxFaults

\* No two prompts at once, and none within the cooldown of the last, unless it
\* ended after this command had read when (mod.rs: "Only one pkexec subprocess
\* may run at a time").
PromptIsAlone ==
    \A c \in Command :
      (call[c].pc # "prompt" /\ call'[c].pc = "prompt") =>
        /\ \A d \in Command : call[d].pc # "prompt"
        /\ \/ app.ended = 0
           \/ app.now - app.ended >= Cooldown
           \/ call[c].saw # app.last

\* A session is left running by nothing but a failure of the database or the end
\* of the application.
SessionsSettle ==
    \A i \in DOMAIN book'.sessions :
      book'.sessions[i].status = "running" =>
        i \in book'.lost \/ \E c \in Command : call'[c].session = i

\* What is answered is so.  A refusal to wait follows a prompt that was raised; a
\* checkpoint said to be in neither database is not in one that could be asked;
\* a list leaves out no checkpoint of this host without a word; and a report
\* rests on all that the newest completed scan found, or on a scan of its own,
\* and on silence only when every plugin is disabled.
IsSo(said) ==
    CASE said[1] = "cooldown" -> app.ended > 0 /\ app.now - app.ended < Cooldown
      [] said[1] = "unknown" -> \A r \in Collect(book.user) \cup book.system.rows :
                                  r.id # said[2] \/ said[3]
      [] said[1] = "listed" ->
           \A r \in Collect(book.user) \cup book.system.rows :
             r.here => r \in said[2] \/ said[3]
      [] said[1] = "report" ->
           /\ \/ DOMAIN said[2] = Plugin \ book.off
              \/ \E i \in DOMAIN book.sessions :
                   /\ book.sessions[i].status = "completed" /\ said[2] = book.sessions[i].truth
                   /\ \A j \in DOMAIN book.sessions :
                        book.sessions[j].status = "completed" => j = i \/ Newer(book.sessions, i, j)
           /\ (\E p \in DOMAIN said[2] : said[2][p] # "skipped") \/ book.off = Plugin

AnswersAreTrue ==
    \A c \in Command :
      (call'[c].said # Nothing /\ call[c].said = Nothing) => IsSo(call'[c].said)

KeepsItsWord == PromptIsAlone /\ SessionsSettle /\ AnswersAreTrue
==============================================================================
