------------------------------ MODULE Checkpoint ------------------------------
(***************************************************************************)
(* CheckpointManager (crates/hardener-state/src/manager.rs): capture of     *)
(* the declared paths of a host into a signed checkpoint, and the rollback  *)
(* of a host to one.  Operators are the processes that call the manager     *)
(* (a CLI run, the desktop backend); nothing serialises them but SQLite.    *)
(*                                                                          *)
(* Every call to an executor is awaited, so each row is a step of its own   *)
(* and, in the restore loop, so are the three things done to a row: the     *)
(* check that it may be written, the write of the entry, and the chmod and  *)
(* chown.  A SQLite transaction is one step.  A process may die at any      *)
(* step; what it had already done to the host stays.                        *)
(***************************************************************************)
EXTENDS HostFiles

CONSTANTS
  Host,
  Remote,          \* the hosts reached over SSH
  Operator,
  Allowed,         \* the paths under DEFAULT_ROLLBACK_PREFIXES
  Undeletable,     \* UNDELETABLE_ROLLBACK_PATHS
  Account,         \* the account databases: captured metadata-only, never read
  Plans,           \* the captures callers ask for: [paths, full]
  InitialFiles,    \* what a host may hold at the start
  HostStates,      \* the entries a path may be given by anything else
  RacePC,          \* where a call may be when its host is changed under it
  MaxCheckpoints   \* bound: checkpoints ever stored

ASSUME CheckpointAssumption ==
  /\ Remote \subseteq Host
  /\ Allowed \subseteq Path /\ Undeletable \subseteq Path
  /\ Account \subseteq Path
  /\ Plans \subseteq [paths : SUBSET Path, full : BOOLEAN]
  /\ InitialFiles \subseteq Files
  /\ HostStates \in [Path -> SUBSET Entry]
  /\ MaxCheckpoints \in Nat

\* Account databases are only ever asked for metadata-only (the permissions
\* plugin), and none sits in a directory another caller captures in full.
ASSUME AccountAssumption ==
  \A plan \in Plans : plan.full =>
    \A p \in plan.paths : p \notin Account /\ Children(p) \cap Account = {}

VARIABLES
  files,    \* host |-> what is on it
  db,       \* the stored checkpoints
  issued,   \* how many checkpoints were ever stored
  op,       \* operator |-> the call it is running
  last      \* host |-> the last rollback that began to write it, forgotten
            \* once anything else has touched the host (history)

vars == <<files, db, issued, op, last>>

Absence == {"none", "by_design", "read_failed"}

(***************************************************************************)
(* FileState.  `typ` is the type half of file_permissions, "absent" its     *)
(* zero, which is also what says nothing stood at the path.  `seen` and     *)
(* `from` are not stored: they are the entry that really was at the path    *)
(* when the row was captured, and the host it was on, for the properties.   *)
(***************************************************************************)
Row == [path : Path, content : Content \cup {NoContent}, typ : Kind,
        mode : Mode \cup {NoMode}, owner : Owner \cup {NoOwner},
        link : LinkTarget \cup {0}, absence : Absence,
        seen : Entry, from : Host]

CheckpointRec == [id : Nat, host : Host, rows : SUBSET Row, valid : BOOLEAN]

PC == {"idle", "capture", "store", "load", "sort", "snapshot", "persist",
       "check", "entry", "meta"}

OpRec == [pc : PC,
          host : Host,
          id : Nat,              \* the checkpoint being loaded
          full : BOOLEAN,        \* create_checkpoint, not ..._metadata_only
          todo : SUBSET Path,    \* the paths the current loop has left
          inside : SUBSET Path,  \* of those, children of a captured directory
          plan : SUBSET Row,     \* the rows being restored
          taken : SUBSET Row,    \* the rows captured so far
          undo : Nat,            \* the pre-rollback snapshot, once stored
          bad : SUBSET Path,     \* the paths reported as not restored
          outcome : {"none", "error", "partial", "success"}]

\* The snapshot a rollback stored, the host as it then was, and the rows it
\* went on to restore.  An undo of 0 is "no such rollback".
LastRec == [undo : Nat, before : Files, plan : SUBSET Row]

\* Every variable has its type.
TypeOK ==
  /\ files \in [Host -> Files]
  /\ db \subseteq CheckpointRec
  /\ issued \in Nat
  /\ op \in [Operator -> OpRec]
  /\ last \in [Host -> LastRec]

Untouched == [undo |-> 0, before |-> [p \in Path |-> Absent], plan |-> {}]

IdleOn(h, outcome) ==
  [pc |-> "idle", host |-> h, id |-> 0, full |-> FALSE, todo |-> {}, inside |-> {},
   plan |-> {}, taken |-> {}, undo |-> 0, bad |-> {}, outcome |-> outcome]

Init ==
  /\ files \in [Host -> InitialFiles]
  /\ db = {}
  /\ issued = 0
  /\ \E h \in Host : op = [o \in Operator |-> IdleOn(h, "none")]
  /\ last = [h \in Host |-> Untouched]

------------------------------------------------------------------------------
(* The rows a capture produces. *)

\* What file_metadata answers for a path of a host.
MetaOf(h, p) == Metadata(files[h], h \in Remote, p)

RowOf(h, p, content, typ, link, absence) ==
  [path |-> p, content |-> content, typ |-> typ,
   mode |-> IF typ = "link" THEN NoMode ELSE MetaOf(h, p).mode,
   owner |-> MetaOf(h, p).owner, link |-> link, absence |-> absence,
   seen |-> files[h][p], from |-> h]

AbsentRow(h, p) == RowOf(h, p, NoContent, "absent", 0, "none")

\* Seeded fault: a metadata-only capture that reads the file all the same.
MetadataRowReading(h, p) ==
  RowOf(h, p, MetaOf(h, p).content, MetaOf(h, p).kind, 0, "by_design")

\* capture_directory_entry: metadata alone, whatever stands at the path.  A
\* link's own `stat` line is not a directory's, so it gets a file's type bit.
MetadataRow(h, p) ==
  LET kind == MetaOf(h, p).kind
  IN  IF kind = "absent" THEN AbsentRow(h, p)
      ELSE RowOf(h, p, NoContent, IF kind = "link" THEN "file" ELSE kind,
                 LinkTargetOf(files[h], p), "by_design")

\* A symbolic link, stored as one, under SYMLINK_MODE.
LinkRow(h, p) ==
  RowOf(h, p, NoContent, "link", LinkTargetOf(files[h], p), "none")

ContentRow(h, p) == RowOf(h, p, files[h][p].content, "file", 0, "none")

\* ContentPolicy::BestEffort over a file that could not be read.
UnreadRow(h, p) == RowOf(h, p, NoContent, "file", 0, "read_failed")

(***************************************************************************)
(* capture_file_state and capture_single_file.  A declared path whose       *)
(* content cannot be read fails the whole capture (the Fails action below); *)
(* a child of a captured directory is salvaged without it.                  *)
(***************************************************************************)
CapturedRows(h, p, declared) ==
  LET kind == MetaOf(h, p).kind
  IN  IF kind = "absent" THEN {AbsentRow(h, p)}
      ELSE IF ~declared /\ kind = "dir" THEN {MetadataRow(h, p)}
      ELSE IF files[h][p].kind = "link" THEN {LinkRow(h, p)}
      ELSE IF kind = "dir" THEN {MetadataRow(h, p)}
      ELSE {ContentRow(h, p)}
             \cup (IF Faults /\ ~declared THEN {UnreadRow(h, p)} ELSE {})

\* Seeded faults: a snapshot without bytes, and one of the checkpoint itself.
SnapshotRowBare(h, ref) == MetadataRow(h, ref.path)
SnapshotRowStale(h, ref) == ref

(***************************************************************************)
(* snapshot_current_state: each path in the modality of the row about to    *)
(* be restored over it.  Only a row that carries content has the current    *)
(* content read, and only where a regular file (or, locally, a link to      *)
(* one) stands now.                                                         *)
(***************************************************************************)
SnapshotRow(h, ref) ==
  LET p == ref.path
  IN  IF ref.content = NoContent \/ MetaOf(h, p).kind # "file"
      THEN MetadataRow(h, p)
      ELSE IF files[h][p].kind = "link" THEN LinkRow(h, p)
      ELSE ContentRow(h, p)

RowsPaths(rows) == {r.path : r \in rows}

\* The path a loop over rows or directory contents takes next.
Least(p, S) == p \in S /\ \A q \in S : p <= q

------------------------------------------------------------------------------
(* What a rollback may write, and how it restores a row. *)

RecordedAbsent(r) == r.content = NoContent /\ r.typ = "absent"

\* rollback_target_refusal: the answers the guard may give for a row.  Only
\* the probe of the target may fail, and a probe without an answer refuses.
Refusals(fs, r) ==
  IF r.path \notin Allowed THEN {TRUE}
  ELSE IF r.link # 0 \/ RecordedAbsent(r) THEN {FALSE}
  ELSE {\/ ~ProbeAnswers(fs, r.path)
        \/ /\ WriterTarget(fs, r.path) # 0
           /\ WriterTarget(fs, r.path) \notin Allowed}
         \cup (IF Faults THEN {TRUE} ELSE {})

\* Seeded fault: a row that says "absent" is an instruction to delete.
RemoveAlways(fs, p) == Remove(fs, p)

\* remove_or_refuse: a path this tool never creates is not deleted, and is
\* only reported restored where it is confirmed still absent.
RemoveOrRefuse(fs, p) ==
  IF p \notin Undeletable THEN Remove(fs, p)
  ELSE Outcomes(fs, ~PathExists(fs, p), fs)

RestoreLink(fs, r) ==
  UNION {IF x.ok THEN Symlink(x.files, r.path, r.link) ELSE {x} :
           x \in EnsureDirectory(fs, Parent[r.path])}

\* Seeded fault: content is only put back where nothing stands.
RestoreEntryIfMissing(fs, remote, r) ==
  IF r.content # NoContent
  THEN IF PathExists(fs, r.path) THEN {Done(fs)}
       ELSE Write(fs, remote, r.path, r.content)
  ELSE IF RecordedAbsent(r) THEN RemoveOrRefuse(fs, r.path) ELSE {Done(fs)}

\* restore_file_state_tracked, up to the chmod.
RestoreEntry(fs, remote, r) ==
  IF r.link # 0 THEN RestoreLink(fs, r)
  ELSE IF RecordedAbsent(r) THEN RemoveOrRefuse(fs, r.path)
  ELSE IF r.typ = "dir" THEN EnsureDirectory(fs, r.path)
  ELSE IF r.content # NoContent THEN Write(fs, remote, r.path, r.content)
  ELSE {Done(fs)}

\* Seeded fault: a row with content is done once its bytes are written.
HasMetadataOnly(r) == r.link = 0 /\ r.content = NoContent /\ r.typ # "absent"

\* Whether a row is one the chmod and chown are issued for.
HasMetadata(r) == r.link = 0 /\ ~RecordedAbsent(r)

\* Seeded faults: the arguments swapped; a refused chmod or chown ignored; a
\* row without the bytes it should have counted as done.
RestoreMetadataSwapped(fs, r) ==
  UNION {Chown(moded.files, r.path, r.mode) :
           moded \in Chmod(fs, r.path, r.owner)}
RestoreMetadataUnchecked(fs, r) ==
  UNION {{Done(owned.files) : owned \in Chown(moded.files, r.path, r.owner)} :
           moded \in Chmod(fs, r.path, r.mode)}
RestoreMetadataUnread(fs, r) ==
  UNION {{[files |-> owned.files, ok |-> moded.ok /\ owned.ok] :
            owned \in Chown(moded.files, r.path, r.owner)} :
           moded \in Chmod(fs, r.path, r.mode)}

\* chmod, then chown whether or not the chmod was refused; a row whose bytes
\* the capture could not read is never reported as restored.
RestoreMetadata(fs, r) ==
  UNION {{[files |-> owned.files,
           ok |-> moded.ok /\ owned.ok /\ r.absence # "read_failed"] :
            owned \in Chown(moded.files, r.path, r.owner)} :
           moded \in Chmod(fs, r.path, r.mode)}

------------------------------------------------------------------------------
Becomes(o, call) == op' = [op EXCEPT ![o] = call]

Goto(o, pc) == Becomes(o, [op[o] EXCEPT !.pc = pc])

End(o, outcome) == Becomes(o, IdleOn(op[o].host, outcome))

Fs(o) == files[op[o].host]

Far(o) == op[o].host \in Remote

(* create_checkpoint and create_checkpoint_metadata_only *)

BeginCreate(o) ==
  /\ op[o].pc = "idle"
  /\ issued < MaxCheckpoints
  /\ \E h \in Host, plan \in Plans :
       Becomes(o, [IdleOn(h, "none") EXCEPT
                !.pc = "capture", !.full = plan.full, !.todo = plan.paths])
  /\ UNCHANGED <<files, db, issued, last>>

\* Seeded fault: a directory is captured, and not what is in it.
BelowNothing(o, p, row) == {{}}

\* What a captured path adds to a capture in full: the children of a
\* directory, whose own row is metadata-only.
Below(o, p, row) ==
  IF op[o].full /\ row.typ = "dir" /\ Fs(o)[p].kind = "dir"
  THEN Listings(Fs(o), Far(o), p) ELSE {{}}

RowsFor(o, p) ==
  IF op[o].full
  THEN CapturedRows(op[o].host, p, p \notin op[o].inside)
  ELSE {MetadataRow(op[o].host, p)}

\* One path of the list, or of a directory the list led to.
CapturePath(o) ==
  /\ op[o].pc = "capture"
  /\ \E p \in op[o].todo :
       /\ Least(p, op[o].todo)
       /\ \E row \in RowsFor(o, p) : \E more \in Below(o, p, row) :
            Becomes(o, [op[o] EXCEPT !.todo = (@ \ {p}) \cup more,
                                     !.inside = @ \cup more,
                                     !.taken = @ \cup {row}])
  /\ UNCHANGED <<files, db, issued, last>>

CaptureDone(o) ==
  /\ op[o].pc = "capture" /\ op[o].todo = {}
  /\ Goto(o, "store")
  /\ UNCHANGED <<files, db, issued, last>>

Stored(h, rows) == [id |-> issued + 1, host |-> h, rows |-> rows, valid |-> TRUE]

\* persist_signed_checkpoint and store_checkpoint: one transaction.
Store(o) ==
  /\ op[o].pc = "store" /\ issued < MaxCheckpoints
  /\ db' = db \cup {Stored(op[o].host, op[o].taken)}
  /\ issued' = issued + 1
  /\ End(o, "success")
  /\ UNCHANGED <<files, last>>

(* rollback *)

\* get_checkpoint, in two queries, the header first; then the cross-host
\* guard and the signature, before anything is asked of the host.
BeginRollback(o) ==
  /\ op[o].pc = "idle"
  /\ \E h \in Host, c \in db :
       Becomes(o, [IdleOn(h, "none") EXCEPT !.pc = "load", !.id = c.id])
  /\ UNCHANGED <<files, db, issued, last>>

\* Seeded fault: the checkpoint of any host will do.
LoadableAnywhere(o) == {c \in db : c.id = op[o].id /\ c.valid}

\* A checkpoint deleted since has no rows left, and does not verify.
Loadable(o) ==
  {c \in db : c.id = op[o].id /\ c.host = op[o].host /\ c.valid}

Load(o) ==
  /\ op[o].pc = "load"
  /\ \/ \E c \in Loadable(o) :
          Becomes(o, [op[o] EXCEPT !.pc = "sort", !.todo = RowsPaths(c.rows),
                                   !.plan = c.rows])
     \/ Loadable(o) = {} /\ End(o, "error")
  /\ UNCHANGED <<files, db, issued, last>>

\* Phase 1: a refused row leaves the plan and is reported as skipped.
SortRow(o) ==
  /\ op[o].pc = "sort"
  /\ \E r \in op[o].plan :
       /\ Least(r.path, op[o].todo)
       /\ \E refused \in Refusals(Fs(o), r) :
            Becomes(o, [op[o] EXCEPT
                          !.todo = @ \ {r.path},
                          !.plan = IF refused THEN @ \ {r} ELSE @,
                          !.bad = IF refused THEN @ \cup {r.path} ELSE @])
  /\ UNCHANGED <<files, db, issued, last>>

SortDone(o) ==
  /\ op[o].pc = "sort" /\ op[o].todo = {}
  /\ IF op[o].plan = {}
     THEN End(o, "error")
     ELSE Becomes(o, [op[o] EXCEPT !.pc = "snapshot",
                                   !.todo = RowsPaths(op[o].plan)])
  /\ UNCHANGED <<files, db, issued, last>>

SnapshotPath(o) ==
  /\ op[o].pc = "snapshot"
  /\ \E r \in op[o].plan :
       /\ Least(r.path, op[o].todo)
       /\ Becomes(o, [op[o] EXCEPT !.todo = @ \ {r.path},
                                !.taken = @ \cup {SnapshotRow(op[o].host, r)}])
  /\ UNCHANGED <<files, db, issued, last>>

SnapshotDone(o) ==
  /\ op[o].pc = "snapshot" /\ op[o].todo = {}
  /\ Goto(o, "persist")
  /\ UNCHANGED <<files, db, issued, last>>

Persist(o) ==
  /\ op[o].pc = "persist" /\ issued < MaxCheckpoints
  /\ db' = db \cup {Stored(op[o].host, op[o].taken)}
  /\ issued' = issued + 1
  /\ Becomes(o, [op[o] EXCEPT !.pc = "check", !.undo = issued + 1,
                              !.todo = RowsPaths(op[o].plan)])
  /\ last' = [last EXCEPT ![op[o].host] =
                [undo |-> issued + 1, before |-> Fs(o), plan |-> op[o].plan]]
  /\ UNCHANGED files

\* Any failure before the snapshot is stored ends the call: nothing was
\* written to the host.
Fails(o) ==
  /\ Faults
  /\ op[o].pc \in {"capture", "store", "load", "snapshot", "persist"}
  /\ End(o, "error")
  /\ UNCHANGED <<files, db, issued, last>>

\* At the bound on checkpoints the database is full: the insert fails.
DatabaseFull(o) ==
  /\ op[o].pc \in {"store", "persist"} /\ issued = MaxCheckpoints
  /\ End(o, "error")
  /\ UNCHANGED <<files, db, issued, last>>

\* Seeded fault: a row that failed is tried again, for ever.
RowRetried(o, p, ok, pc) ==
  Becomes(o, [op[o] EXCEPT !.pc = pc, !.todo = IF ok THEN @ \ {p} ELSE @])

RowDone(o, p, ok, pc) ==
  Becomes(o, [op[o] EXCEPT !.pc = pc, !.todo = @ \ {p},
                           !.bad = IF ok THEN @ ELSE @ \cup {p}])

\* Seeded fault: the guard of Phase 1 is taken to hold still.
CheckRowTrusting(o) ==
  /\ op[o].pc = "check" /\ op[o].todo # {}
  /\ Goto(o, "entry")
  /\ UNCHANGED <<files, db, issued, last>>

\* Phase 2, for each admitted row: the guard is asked again first.
CheckRow(o) ==
  /\ op[o].pc = "check"
  /\ \E r \in op[o].plan :
       /\ Least(r.path, op[o].todo)
       /\ \E refused \in Refusals(Fs(o), r) :
            IF refused THEN RowDone(o, r.path, FALSE, "check")
                       ELSE Goto(o, "entry")
  /\ UNCHANGED <<files, db, issued, last>>

WriteEntry(o) ==
  /\ op[o].pc = "entry"
  /\ \E r \in op[o].plan :
       /\ Least(r.path, op[o].todo)
       /\ \E x \in RestoreEntry(Fs(o), Far(o), r) :
            /\ files' = [files EXCEPT ![op[o].host] = x.files]
            /\ IF x.ok /\ HasMetadata(r)
               THEN Goto(o, "meta")
               ELSE RowDone(o, r.path, x.ok, "check")
  /\ UNCHANGED <<db, issued, last>>

WriteMetadata(o) ==
  /\ op[o].pc = "meta"
  /\ \E r \in op[o].plan :
       /\ Least(r.path, op[o].todo)
       /\ \E x \in RestoreMetadata(Fs(o), r) :
            /\ files' = [files EXCEPT ![op[o].host] = x.files]
            /\ RowDone(o, r.path, x.ok, "check")
  /\ UNCHANGED <<db, issued, last>>

Finish(o) ==
  /\ op[o].pc = "check" /\ op[o].todo = {}
  /\ End(o, IF op[o].bad = {} THEN "success" ELSE "partial")
  /\ UNCHANGED <<files, db, issued, last>>

(* delete_checkpoint: one transaction, which errors when no row matched. *)
Delete(o) ==
  /\ op[o].pc = "idle"
  /\ \E c \in db : db' = db \ {c}
  /\ UNCHANGED <<files, issued, op, last>>

------------------------------------------------------------------------------
(* The process dies; the database edited from outside; the rest of the host. *)

Crash(o) ==
  /\ op[o].pc # "idle"
  /\ End(o, "none")
  /\ UNCHANGED <<files, db, issued, last>>

Tamper ==
  /\ \E c \in db : \E r \in c.rows, x \in Content :
       /\ r.content \notin {NoContent, x}
       /\ db' = (db \ {c}) \cup
                  {[c EXCEPT !.rows = (@ \ {r}) \cup {[r EXCEPT !.content = x]},
                             !.valid = FALSE]}
  /\ UNCHANGED <<files, issued, op, last>>

\* An apply, a package manager or an administrator changes one path.
HostChanges ==
  /\ \E h \in Host, p \in Path :
       /\ \A o \in Operator : op[o].host = h => op[o].pc \in RacePC \cup {"idle"}
       /\ \E e \in HostStates[p] :
            /\ e # files[h][p]
            /\ Coherent([files[h] EXCEPT ![p] = e])
            /\ files' = [files EXCEPT ![h][p] = e]
       /\ last' = [last EXCEPT ![h] = Untouched]
  /\ UNCHANGED <<db, issued, op>>

CallStep(o) ==
  \/ CapturePath(o) \/ CaptureDone(o) \/ Store(o)
  \/ Load(o) \/ SortRow(o) \/ SortDone(o) \/ SnapshotPath(o) \/ SnapshotDone(o)
  \/ Persist(o) \/ DatabaseFull(o)
  \/ CheckRow(o) \/ WriteEntry(o) \/ WriteMetadata(o) \/ Finish(o)

Next ==
  \/ \E o \in Operator :
       \/ BeginCreate(o) \/ BeginRollback(o) \/ Delete(o)
       \/ CallStep(o) \/ Fails(o) \/ Crash(o)
  \/ Tamper
  \/ HostChanges

Spec == Init /\ [][Next]_vars

\* The manager's futures are awaited to their end: a call that can take its
\* next step takes it, as long as its process lives.
FairSpec == Spec /\ \A o \in Operator : WF_vars(CallStep(o))

------------------------------------------------------------------------------
(* What a rollback of some rows does when no command fails. *)

Best(outcomes, fs) ==
  IF \E x \in outcomes : x.ok THEN (CHOOSE x \in outcomes : x.ok).files ELSE fs

RowRestored(fs, remote, r) ==
  LET entry == Best(RestoreEntry(fs, remote, r), fs)
  IN  IF ~HasMetadata(r) THEN entry
      ELSE LET moded == Best(Chmod(entry, r.path, r.mode), entry)
           IN  Best(Chown(moded, r.path, r.owner), moded)

\* A row the guard admits, whatever its probe may also have answered.
Admitted(fs, r) == FALSE \in Refusals(fs, r)

LastPath == CHOOSE p \in Path : \A q \in Path : q <= p

\* The row of path n restored, if there is one that the guard admits, first
\* of the host `fs` and then of the host as the rows before it left it.
ReplayPath(fs, remote, rows, now, n) ==
  IF \E r \in rows : r.path = n
  THEN LET r == CHOOSE r \in rows : r.path = n
       IN  IF Admitted(fs, r) /\ Admitted(now, r)
           THEN RowRestored(now, remote, r) ELSE now
  ELSE now

\* The rows restored in path order, those the guard admits at that moment.
Replay(fs, remote, rows) ==
  LET upTo[n \in 0 .. LastPath] ==
        IF n = 0 THEN fs ELSE ReplayPath(fs, remote, rows, upTo[n - 1], n)
  IN  upTo[LastPath]

\* A path is as the checkpoint found it, as far as its row was meant to tell.
AsCaptured(fs, r) ==
  LET e == fs[r.path]
  IN  IF r.absence = "by_design"
      THEN [e EXCEPT !.content = NoContent] = [r.seen EXCEPT !.content = NoContent]
      ELSE e = r.seen

(***************************************************************************)
(* A path a rollback reports as restored really is as it was captured:      *)
(* content, mode, owner and link target, or gone.  This is what             *)
(* restore_success and rollback_success promise the operator, across a row  *)
(* whose bytes could not be read, a chmod the host refused, a file that     *)
(* became a link, and a directory that went away under its files.  (Of a    *)
(* host that nothing else changed since the snapshot was stored.)           *)
(***************************************************************************)
Finishing(o) ==
  /\ op[o].pc = "check" /\ op'[o].outcome \in {"partial", "success"}
  /\ last[op[o].host] # Untouched

HonestReport ==
  [][\A o \in Operator : Finishing(o) =>
       \A r \in op[o].plan : r.path \notin op[o].bad => AsCaptured(Fs(o), r)]_vars

\* What a snapshot cannot bring back, of a path about to be restored from r:
\* the bytes of a file that is removed or replaced by a link, which it never
\* read, and the absence of a directory or of a path that is not deleted.
BeyondUndo(entry, r) ==
  \/ entry.kind = "file" /\ (r.link # 0 \/ RecordedAbsent(r))
  \/ entry.kind = "absent" /\ (r.typ = "dir" \/ r.path \in Undeletable)

UndoneAsBefore(h, c, r) ==
  Replay(files[h], h \in Remote, c.rows)[r.path] = last[h].before[r.path]

(***************************************************************************)
(* A rollback can be undone from the snapshot it stored, from any point it  *)
(* got to: finished, failed half way, or cut off by a crash.  This is the   *)
(* "reversible-rollback guarantee" of CheckpointManager::rollback, short of *)
(* what BeyondUndo names.                                                   *)
(***************************************************************************)
UndoRestores ==
  \A h \in Host : \A c \in db :
    c.valid /\ last[h].undo = c.id =>
      \A r \in last[h].plan :
        BeyondUndo(last[h].before[r.path], r) \/ UndoneAsBefore(h, c, r)

(***************************************************************************)
(* A rollback that failed part way or died is finished by running it again: *)
(* the second run ends where an undisturbed first one would have, whatever  *)
(* a half-done write left behind.                                           *)
(***************************************************************************)
RetryConverges ==
  \A h \in Host :
    LET again == Replay(files[h], h \in Remote, last[h].plan)
        once == Replay(last[h].before, h \in Remote, last[h].plan)
    IN  \A r \in last[h].plan : again[r.path] = once[r.path]

(***************************************************************************)
(* No call changes a path outside DEFAULT_ROLLBACK_PREFIXES, through a      *)
(* symbolic link or otherwise.                                              *)
(***************************************************************************)
OperatorSteps == op' # op

Confined ==
  [][OperatorSteps =>
       \A h \in Host, p \in Path \ Allowed : files'[h][p] = files[h][p]]_vars

\* A path this tool never creates is never removed by a call, whatever a row
\* says stood there (UNDELETABLE_ROLLBACK_PATHS).
KeepsProtected ==
  [][OperatorSteps =>
       \A h \in Host, p \in Undeletable :
         files[h][p].kind # "absent" => files'[h][p].kind # "absent"]_vars

\* What a rollback restores is what was captured: of this very host, and
\* unaltered, whoever edits or deletes the checkpoint meanwhile.
PlanIsGenuine ==
  \A o \in Operator : \A r \in op[o].plan :
    /\ r.from = op[o].host
    /\ r.content # NoContent => r.content = r.seen.content

\* No password-file content ever enters the checkpoint database: not by a
\* capture, nor by the snapshot of a rollback, nor by an undo of one.
NoAccountContent ==
  \A c \in db : \A r \in c.rows : r.path \in Account => r.content = NoContent

(***************************************************************************)
(* A checkpoint in full of a directory has a row for everything in it       *)
(* ("recursively captures all files within it"): what it has no row for, no *)
(* rollback to it brings back.                                              *)
(***************************************************************************)
CaptureComplete ==
  [][\A o \in Operator : op[o].pc = "store" /\ op'[o].outcome = "success" =>
       \A r \in op[o].taken : op[o].full /\ r.seen.kind = "dir" =>
         \A p \in Children(r.path) :
           Fs(o)[p].kind # "absent" => p \in RowsPaths(op[o].taken)]_vars

\* A path is recorded absent only when nothing stood there: it is what a
\* rollback removes (recorded_absent, and file_metadata's contract).
RecordedAbsentIsAbsent ==
  \A c \in db : \A r \in c.rows : RecordedAbsent(r) => r.seen.kind = "absent"

\* A call on a checkpoint manager returns.
CallReturns == \A o \in Operator : op[o].pc # "idle" ~> op[o].pc = "idle"

==============================================================================
