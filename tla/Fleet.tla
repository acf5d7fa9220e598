------------------------------- MODULE Fleet -------------------------------
(***************************************************************************)
(* The fleet commands (crates/hardener-cli/src/commands/batch.rs): one     *)
(* task per selected host, a bounded number of them at a time, each over   *)
(* its own ssh session, and all of them filing checkpoints in the one      *)
(* database of the controller.                                             *)
(*                                                                         *)
(* A profile names a machine and perhaps an account; where it names none,  *)
(* ssh resolves it (SshUser).  Checkpoints are filed under the account and *)
(* the machine.  What a plugin manages on a machine is "bare" or "hard";   *)
(* what it does there is the business of its own module, and all that is   *)
(* kept of it is how its apply can end.  The audit entries a run files are *)
(* in AuditLog, the rows of a checkpoint in Checkpoint.                    *)
(***************************************************************************)
EXTENDS Integers, Sequences, FiniteSets, SequencesExt

CONSTANTS Machine, Account, AssumedUser, Absent,
          SshUser,      \* what `ssh -G` says of a machine
          Requests,     \* what an operator may ask for: hosts of the inventory,
                        \* targets beside them, and plugins
          Stored,       \* checkpoints of earlier runs, and of an earlier release
          Registry,     \* the plugins, in the order the registry lists them
          Concurrency, MaxRuns, MaxTicks

VARIABLES host,    \* machine -> plugin -> "bare" or "hard"
          db,      \* the checkpoints, in the order they were stored
          clock,   \* seconds, in which checkpoints are stamped
          run,     \* the invocation: what was asked, and the exit code
          task,    \* one per selected profile
          last     \* of the last apply: the hosts before it, what it captured, and
                   \* whether it had its second and the hosts to itself

vars == <<host, db, clock, run, task, last>>

Plugin == {Registry[i] : i \in DOMAIN Registry}
Profile == [machine : Machine, user : Account \cup {Absent}]
HostKey == (Account \cup {AssumedUser}) \X Machine
Point == [key : HostKey, name : Plugin, stamp : Nat, found : {"bare", "hard"}]

\* checkpoint_host_key; target() keeps the user out where none is named.
Key(p) == <<IF p.user = Absent THEN SshUser[p.machine] ELSE p.user, p.machine>>

\* host_keys_for: an earlier release filed a bare target under root.
Keys(p) == {Key(p)} \cup (IF p.user = Absent THEN {<<AssumedUser, p.machine>>} ELSE {})

\* resolve_hosts: the inventory hosts asked for, then each ad-hoc target that
\* is not among them, once.
Resolved(names, inline) ==
    names \o SetToSeq({p \in inline : \A i \in DOMAIN names : names[i] # p})

\* resolve_plugin_ids: an empty filter is every plugin.
Filtered(plugins) == IF plugins = <<>> THEN Registry ELSE plugins

\* A request names plugins the registry has, each once (expand would keep one
\* that is named twice, and apply it twice), and the checkpoints that are there
\* are not of the future.
FleetAssumption ==
    /\ SshUser \in [Machine -> Account]
    /\ Registry \in Seq(Plugin) /\ Registry # <<>>
    /\ \A r \in Requests :
          /\ r.names \in Seq(Profile) /\ r.plugins \in Seq(Plugin)
          /\ r.inline \subseteq Profile /\ IsFiniteSet(r.inline)
          /\ IsInjective(Filtered(r.plugins))
    /\ Stored \in Seq(Point) /\ \A k \in DOMAIN Stored : Stored[k].stamp <= 1
    /\ MaxRuns \in Nat

\* colliding_host_key
Colliding(profiles) ==
    \E i, j \in DOMAIN profiles : i < j /\ Key(profiles[i]) = Key(profiles[j])

Verb == {"scan", "validate", "apply", "preview", "rollback"}
Executes(verb) == verb \in {"apply", "rollback"}

Waiting == [pc |-> "waiting", at |-> 1, ok |-> 0, failed |-> 0, erred |-> FALSE,
            skipped |-> FALSE, todo |-> {}, status |-> "none"]

NoRun(disabled) == [verb |-> "none", profiles |-> <<>>, plugins |-> <<>>, disabled |-> disabled,
                    code |-> 0, open |-> FALSE, left |-> MaxRuns]

Init ==
    /\ \E found \in {"bare", "hard"} : host = [m \in Machine |-> [p \in Plugin |-> found]]
    /\ db \in {<<>>, Stored}
    /\ clock = 1
    /\ run \in {NoRun({}), NoRun({Registry[Len(Registry)]})}
    /\ task = <<>>
    /\ last = [host |-> host, taken |-> {}, quiet |-> FALSE]

-----------------------------------------------------------------------------
(* One invocation.                                                         *)

\* A writing run whose hosts cannot be told apart is refused before it
\* connects to any.  One that writes nothing is taken to be the last: the next
\* would find what it found.
Begin ==
    /\ ~run.open /\ run.left > 0
    /\ \E verb \in Verb, request \in Requests :
       LET profiles == Resolved(request.names, request.inline)
           asked == [run EXCEPT !.verb = verb, !.profiles = profiles,
                       !.plugins = Filtered(request.plugins),
                       !.left = IF Executes(verb) THEN @ - 1 ELSE 0]
       IN
       IF Executes(verb) /\ Colliding(profiles)
       THEN /\ run' = [asked EXCEPT !.code = 2]
            /\ task' = <<>>
            /\ UNCHANGED last
       ELSE /\ run' = [asked EXCEPT !.open = TRUE, !.code = 0]
            /\ task' = [i \in DOMAIN profiles |-> Waiting]
            /\ last' = IF verb = "apply"
                       THEN [host |-> host, taken |-> {},
                                  quiet |-> \A k \in DOMAIN db : db[k].stamp # clock]
                       ELSE last
    /\ UNCHANGED <<host, db, clock>>

Active(i) == run.open /\ task[i].pc \notin {"waiting", "done", "gone"}
At(i, pc) == run.open /\ task[i].pc = pc

Done(i, t, status) == task' = [task EXCEPT ![i] = [t EXCEPT !.pc = "done", !.status = status]]

\* run_on_all: a task waits for one of max(1, concurrency) permits, and opens
\* its session, which may fail or not be allowed to write.
Connect(i) ==
    /\ At(i, "waiting")
    /\ LET active == {j \in DOMAIN task : Active(j)}
       IN active = {} \/ Cardinality(active) < Concurrency
    /\ \/ Done(i, task[i], "failed")
       \/ task' = [task EXCEPT ![i].pc =
                     CASE run.verb = "scan" -> "scan"
                       [] run.verb \in {"validate", "apply"} -> "plugin"
                       [] OTHER -> "select"]
    /\ UNCHANGED <<host, db, clock, run, last>>

\* JoinSet reports a panic as an error, which join_next's loop passes over.
Panic(i) ==
    /\ Active(i)
    /\ task' = [task EXCEPT ![i] = [Waiting EXCEPT !.pc = "gone"]]
    /\ UNCHANGED <<host, db, clock, run, last>>

\* scan_with_executor: what could not be checked counts for nothing.
Scan(i) ==
    /\ At(i, "scan")
    /\ \/ Done(i, task[i], "failed")
       \/ \E read \in SUBSET Plugin :
            LET found == {p \in read : host[run.profiles[i].machine][p] = "bare"} IN
            Done(i, [task[i] EXCEPT !.failed = Cardinality(found)], "scanned")
    /\ UNCHANGED <<host, db, clock, run, last>>

-----------------------------------------------------------------------------
(* apply_host, over one session.                                           *)

Next1(t) == [t EXCEPT !.pc = "plugin", !.at = @ + 1]
Ok(t) == [Next1(t) EXCEPT !.ok = @ + 1]
Failed(t) == [Next1(t) EXCEPT !.failed = @ + 1]
Erred(t) == [Next1(t) EXCEPT !.erred = TRUE]

Current(i) == run.plugins[task[i].at]
HasPlugin(i) == At(i, "plugin") /\ task[i].at \in DOMAIN run.plugins

SkipPlugin(i) ==
    /\ HasPlugin(i) /\ Current(i) \in run.disabled
    /\ task' = [task EXCEPT ![i] = [Next1(@) EXCEPT !.skipped = TRUE]]
    /\ UNCHANGED <<host, db, clock, run, last>>

\* A dry run reports, blocks or errors.
ValidatePlugin(i) ==
    /\ HasPlugin(i) /\ Current(i) \notin run.disabled /\ run.verb = "validate"
    /\ \E t \in {Ok(task[i]), Failed(task[i]), Erred(task[i])} : task' = [task EXCEPT ![i] = t]
    /\ UNCHANGED <<host, db, clock, run, last>>

\* A plugin with nothing to do takes no checkpoint; one that cannot take it
\* errs, and produces no result.
CapturePlugin(i) ==
    /\ HasPlugin(i) /\ Current(i) \notin run.disabled /\ run.verb = "apply"
    /\ LET p == run.profiles[i]
           found == host[p.machine][Current(i)]
       IN
       \/ task' = [task EXCEPT ![i] = Erred(@)] /\ UNCHANGED <<db, last>>
       \/ found = "hard" /\ task' = [task EXCEPT ![i] = Ok(@)] /\ UNCHANGED <<db, last>>
       \/ /\ db' = Append(db, [key |-> Key(p), name |-> Current(i), stamp |-> clock,
                               found |-> found])
          /\ task' = [task EXCEPT ![i].pc = "write"]
          /\ last' = [last EXCEPT !.taken = @ \cup {<<Key(p), Current(i)>>}]
    /\ UNCHANGED <<host, clock, run>>

\* The writes may succeed, fail or err, and may have been made either way.
WritePlugin(i) ==
    /\ At(i, "write")
    /\ LET m == run.profiles[i].machine
           written == [host EXCEPT ![m][Current(i)] = "hard"]
       IN
       \/ host' = written /\ task' = [task EXCEPT ![i] = Ok(@)]
       \/ /\ host' \in {host, written}
          /\ \E t \in {Failed(task[i]), Erred(task[i])} : task' = [task EXCEPT ![i] = t]
    /\ UNCHANGED <<db, clock, run, last>>

\* Seeded fault: an apply that left no result is an apply of nothing.
StatusOfAny(t) == IF run.verb = "apply" THEN "applied" ELSE "validated"

\* status_from_result: of a plugin that erred beside one that did not, neither
\* counter says anything.
StatusOf(t) ==
    CASE t.skipped /\ t.ok + t.failed = 0 /\ ~t.erred -> "failed"
      [] run.verb = "apply" /\ t.ok + t.failed = 0 /\ t.erred -> "failed"
      [] OTHER -> IF run.verb = "apply" THEN "applied" ELSE "validated"

PluginsDone(i) ==
    /\ At(i, "plugin") /\ task[i].at \notin DOMAIN run.plugins
    /\ Done(i, task[i], StatusOf(task[i]))
    /\ UNCHANGED <<host, db, clock, run, last>>

-----------------------------------------------------------------------------
(* rollback_one.                                                           *)

Named(keys, name) == {k \in DOMAIN db : db[k].key \in keys /\ db[k].name = name}

\* Seeded fault: the first that was stored is taken.
LatestFirst(keys, name) == CHOOSE k \in Named(keys, name) : \A j \in Named(keys, name) : k <= j

\* select_latest_named: max_by_key takes the last of the newest, of a list that
\* SQLite reads backwards off the index on the timestamp: of those stored in one
\* second, the one that was stored first.
Latest(keys, name) ==
    CHOOSE k \in Named(keys, name) :
        \A j \in Named(keys, name) :
            db[j].stamp < db[k].stamp \/ (db[j].stamp = db[k].stamp /\ k <= j)

\* pre_apply_names: of each plugin that has any its latest checkpoint, with the
\* plugin's place, in the order of which they are restored.
Selected(p) ==
    {<<n, Latest(Keys(p), run.plugins[n])>> :
        n \in {n \in DOMAIN run.plugins : Named(Keys(p), run.plugins[n]) # {}}}

Select(i) ==
    /\ At(i, "select")
    /\ LET points == Selected(run.profiles[i]) IN
       \/ Done(i, task[i], "failed")
       \/ points = {} /\ Done(i, task[i], "nothing")
       \/ points # {} /\ run.verb = "preview" /\ Done(i, task[i], "previewed")
       \/ /\ points # {} /\ run.verb = "rollback"
          /\ task' = [task EXCEPT ![i].pc = "restore", ![i].todo = points]
    /\ UNCHANGED <<host, db, clock, run, last>>

\* CheckpointManager::rollback refuses a key that is not this session's, then
\* restores, in part or in full; the reload of what came back may fail.
Restore(i) ==
    /\ At(i, "restore")
    /\ \E point \in task[i].todo :
       /\ \A other \in task[i].todo : point[1] <= other[1]
       /\ LET p == run.profiles[i]
              c == db[point[2]]
              restored == [host EXCEPT ![p.machine][c.name] = c.found]
              rest == [task[i] EXCEPT !.todo = @ \ {point}]
              failing == [task EXCEPT ![i] = [rest EXCEPT !.failed = @ + 1]]
          IN
          \/ c.key # Key(p) /\ task' = failing /\ UNCHANGED host
          \/ c.key = Key(p) /\ task' = failing /\ host' \in {host, restored}
          \/ /\ c.key = Key(p)
             /\ task' = [task EXCEPT ![i] = [rest EXCEPT !.ok = @ + 1]]
             /\ host' = restored
    /\ UNCHANGED <<db, clock, run, last>>

RestoresDone(i) ==
    /\ At(i, "restore") /\ task[i].todo = {}
    /\ Done(i, task[i], "rolled_back")
    /\ UNCHANGED <<host, db, clock, run, last>>

-----------------------------------------------------------------------------
(* The outcomes and the exit code.                                         *)

\* Seeded fault: a task that never reported has no outcome.
AssembledWithoutPrefill ==
    LET reported == {i \in DOMAIN task : task[i].pc = "done"}
    IN [i \in reported |-> task[i].status]

\* assemble_ordered: a task that never reported keeps its placeholder.
Assembled == [i \in DOMAIN task |-> IF task[i].pc = "done" THEN task[i].status ELSE "failed"]

Greatest(S) == CHOOSE x \in S : \A y \in S : y <= x

\* exit_code, apply_exit_code and rollback_exit_code: 2 > 1 > 0.
ExitCode(status) ==
    Greatest({0} \cup {IF status[i] = "failed" THEN 2
                       ELSE IF task[i].failed > 0 THEN 1 ELSE 0 : i \in DOMAIN status})

Report ==
    /\ run.open /\ \A i \in DOMAIN task : task[i].pc \in {"done", "gone"}
    /\ run' = [run EXCEPT !.open = FALSE, !.code = ExitCode(Assembled)]
    /\ UNCHANGED <<host, db, clock, task, last>>

\* A second passes, in which another may change one of the machines.
Others ==
    /\ clock < MaxTicks
    /\ clock' = clock + 1
    /\ \/ UNCHANGED <<host, last>>
       \/ \E m \in Machine, p \in Plugin, v \in {"bare", "hard"} :
             /\ host' = [host EXCEPT ![m][p] = v]
             /\ last' = [last EXCEPT !.quiet = FALSE]
    /\ UNCHANGED <<db, run, task>>

Task(i) ==
    \/ Connect(i) \/ Panic(i) \/ Scan(i)
    \/ SkipPlugin(i) \/ ValidatePlugin(i) \/ CapturePlugin(i) \/ WritePlugin(i)
    \/ PluginsDone(i) \/ Select(i) \/ Restore(i) \/ RestoresDone(i)

Next == Begin \/ Report \/ Others \/ \E i \in DOMAIN task : Task(i)

Spec == Init /\ [][Next]_vars

-----------------------------------------------------------------------------
(* Properties.                                                             *)

Hosts == [Machine -> [Plugin -> {"bare", "hard"}]]
Run == [verb : Verb \cup {"none"}, profiles : Seq(Profile), plugins : Seq(Plugin),
        disabled : SUBSET Plugin, code : 0 .. 2, open : BOOLEAN, left : Nat]
Choice == Nat \X Nat   \* a plugin's place and a checkpoint's
Job == [pc : {"waiting", "scan", "plugin", "write", "select", "restore", "done", "gone"},
        at : Nat, ok : Nat, failed : Nat, erred : BOOLEAN, skipped : BOOLEAN,
        todo : SUBSET Choice,
        status : {"none", "failed", "scanned", "applied", "validated", "nothing",
                  "previewed", "rolled_back"}]

\* The variables have their shape, and what is to be restored is a plugin that
\* was asked for and a checkpoint that is there.
TypeOK ==
    /\ host \in Hosts /\ db \in Seq(Point) /\ clock \in Nat
    /\ run \in Run /\ task \in Seq(Job)
    /\ last \in [host : Hosts, taken : SUBSET (HostKey \X Plugin), quiet : BOOLEAN]
    /\ \A i \in DOMAIN task :
          task[i].todo \subseteq (DOMAIN run.plugins) \X (DOMAIN db)

Ended(verbs) == ~run.open /\ task # <<>> /\ run.verb \in verbs

\* The exit code of a fleet run covers every host that was selected, in the
\* order 2 > 1 > 0: below 2 each of them was reached and its task came to its
\* end, and at 0 none of them reported a failure, nor was left without a single
\* plugin that ran.
CodeCoversEveryHost ==
    Ended(Verb) =>
        /\ run.code < 2 => \A i \in DOMAIN run.profiles :
                              task[i].pc = "done" /\ task[i].status # "failed"
        /\ run.code = 0 => \A i \in DOMAIN run.profiles :
                              /\ task[i].failed = 0
                              /\ run.verb = "apply" => task[i].ok > 0

\* batch.rs: "0 = all clean, 1 = an apply/validation failure".
ZeroMeansAllClean ==
    (Ended({"apply", "validate"}) /\ run.code = 0) =>
        \A i \in DOMAIN task : ~task[i].erred

\* The profiles that reach one machine all reach it by one key.
Alone(m) ==
    \A i, j \in DOMAIN run.profiles :
        (run.profiles[i].machine = m /\ run.profiles[j].machine = m) =>
            Key(run.profiles[i]) = Key(run.profiles[j])

\* A fleet rollback that reports a host rolled back has taken the last apply of
\* the fleet back there: each plugin that apply captured under this host's key
\* holds what the apply found, whatever earlier runs, other keys and legacy
\* checkpoints the database holds of the machine; but not where two runs captured
\* in one second, of which the first is undone.
UndoRestoresTheFleet ==
    (Ended({"rollback"}) /\ last.quiet) =>
        \A i \in DOMAIN task :
            LET p == run.profiles[i] IN
            (task[i].status = "rolled_back" /\ task[i].failed = 0 /\ Alone(p.machine)
               /\ {k \in last.taken : k[1][2] = p.machine /\ k[1] # Key(p)} = {}) =>
                \A n \in DOMAIN run.plugins : <<Key(p), run.plugins[n]>> \in last.taken =>
                    host[p.machine][run.plugins[n]] = last.host[p.machine][run.plugins[n]]
=============================================================================
