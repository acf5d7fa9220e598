--------------------------- MODULE CheckpointProofs ---------------------------
(***************************************************************************)
(* What holds of Checkpoint for every host, path, plan and interleaving of  *)
(* operators: type correctness, the deletion guard, and what the database   *)
(* and a running rollback hold.  And what holds while calls on one host     *)
(* come one after the other (Apart) and nothing else changes it under them: *)
(* a rollback writes where it may, and a capture leaves nothing out; and,   *)
(* where no link leads to what a rollback writes (Settled), what a rollback *)
(* reports is true, it can be undone, and run again it ends the same.       *)
(***************************************************************************)
EXTENDS Checkpoint, WellFoundedInduction, TLAPS

Outcome == [files : Files, ok : BOOLEAN]

------------------------------------------------------------------------------
(* The operations on a host yield hosts. *)

\* What a command leaves behind is a host, if both of its ends are.
LEMMA OutcomesType ==
  ASSUME NEW fs \in Files, NEW after \in Files,
         NEW can
  PROVE  Outcomes(fs, can, after) \subseteq Outcome
<1>1. Done(after) \in Outcome
  BY DEF Done, Outcome
<1>2. Failed(fs) \in Outcome
  BY DEF Failed, Outcome
<1>3. CASE can
  BY <1>1, <1>2, <1>3, Zenon DEF Outcomes
<1>4. CASE ~can
  BY <1>1, <1>2, <1>4, Zenon DEF Outcomes
<1>5. QED
  BY <1>3, <1>4

\* A link leads to a path, so what is reached through it is one.
LEMMA FinalType ==
  ASSUME NEW fs \in Files, NEW p \in Path
  PROVE  Final(fs, p) \in Path
BY PathAssumption DEF Final, Files, Entry

\* file_metadata answers with an entry.
LEMMA MetadataType ==
  ASSUME NEW fs \in Files, NEW remote, NEW p \in Path
  PROVE  Metadata(fs, remote, p) \in Entry
BY FinalType DEF Metadata, Files

\* The entries the operations make are entries.
LEMMA MadeEntries ==
  /\ Absent \in Entry
  /\ \A m \in Mode, o \in Owner : Dir(m, o) \in Entry
  /\ \A t \in LinkTarget : Link(t) \in Entry
  /\ \A c \in Content, m \in Mode \cup {NoMode}, o \in Owner \cup {NoOwner} :
       File(c, m, o) \in Entry
<1>1. \A t \in LinkTarget : t # 0
  BY PathAssumption
<1>2. QED
  BY <1>1, ValueAssumption DEF Absent, Dir, Link, File, Entry, Kind

\* A write leaves a file under the path or under what it leads to.
LEMMA WrittenType ==
  ASSUME NEW fs \in Files, NEW remote, NEW p \in Path,
         NEW c \in Content
  PROVE  /\ Written(fs, remote, p, c) \in Files
         /\ HalfWritten(fs, remote, p, c) \in Files
<1>1. ASSUME NEW d \in Content
      PROVE  Written(fs, remote, p, d) \in Files
  <2> DEFINE old == fs[Final(fs, p)]
             mode == IF old.kind = "absent" THEN CreatedMode ELSE old.mode
             owner == IF remote /\ old.kind = "file" THEN old.owner ELSE Root
             q == IF remote THEN Final(fs, p) ELSE p
  <2>1. q \in Path /\ old \in Entry
    BY FinalType DEF Files
  <2>2. mode \in Mode \cup {NoMode} /\ owner \in Owner \cup {NoOwner}
    BY <2>1, ValueAssumption DEF Entry
  <2>3. File(d, mode, owner) \in Entry
    BY <2>2, MadeEntries
  <2>4. [fs EXCEPT ![q] = File(d, mode, owner)] \in Files
    BY <2>1, <2>3 DEF Files
  <2>5. QED
    BY <2>4 DEF Written
<1>2. [fs EXCEPT ![p] = File(c, TempMode, Root)] \in Files
  <2>1. File(c, TempMode, Root) \in Entry
    BY MadeEntries, ValueAssumption
  <2>2. QED
    BY <2>1 DEF Files
<1>3. QED
  BY <1>1, <1>2, ValueAssumption DEF HalfWritten

\* Each operation's outcomes are outcomes.
LEMMA WriteType ==
  ASSUME NEW fs \in Files, NEW remote, NEW p \in Path,
         NEW c \in Content
  PROVE  Write(fs, remote, p, c) \subseteq Outcome
<1>1. Outcomes(fs, CanWrite(fs, remote, p), Written(fs, remote, p, c))
        \subseteq Outcome
  BY WrittenType, OutcomesType
<1>2. Failed(HalfWritten(fs, remote, p, c)) \in Outcome
  BY WrittenType DEF Failed, Outcome
<1>3. QED
  BY <1>1, <1>2, Zenon DEF Write

\* A chmod leaves a host behind (`chmod` of restore_file_state_tracked).
LEMMA ChmodType ==
  ASSUME NEW fs \in Files, NEW p \in Path, NEW m \in Mode \cup {NoMode}
  PROVE  Chmod(fs, p, m) \subseteq Outcome
<1>1. [fs EXCEPT ![Final(fs, p)].mode = m] \in Files
  BY FinalType DEF Files, Entry
<1>2. QED
  BY <1>1, OutcomesType DEF Chmod

\* A chown leaves a host behind (`chown` of restore_file_state_tracked).
LEMMA ChownType ==
  ASSUME NEW fs \in Files, NEW p \in Path, NEW o \in Owner \cup {NoOwner}
  PROVE  Chown(fs, p, o) \subseteq Outcome
<1>1. [fs EXCEPT ![Final(fs, p)].owner = o] \in Files
  BY FinalType DEF Files, Entry
<1>2. QED
  BY <1>1, OutcomesType DEF Chown

\* An `rm -f` leaves a host behind (remove_or_refuse).
LEMMA RemoveType ==
  ASSUME NEW fs \in Files, NEW p \in Path
  PROVE  Remove(fs, p) \subseteq Outcome
<1>1. [fs EXCEPT ![p] = Absent] \in Files
  BY MadeEntries DEF Files
<1>2. QED
  BY <1>1, OutcomesType DEF Remove

\* An `ln -sfn` leaves a host behind (the symlink branch of a restore).
LEMMA SymlinkType ==
  ASSUME NEW fs \in Files, NEW p \in Path, NEW t \in LinkTarget
  PROVE  Symlink(fs, p, t) \subseteq Outcome
<1>1. [fs EXCEPT ![p] = Link(t)] \in Files
  BY MadeEntries DEF Files
<1>2. QED
  BY <1>1, OutcomesType DEF Symlink

\* A `mkdir -p` leaves a host behind (ensure_directory).
LEMMA EnsureDirectoryType ==
  ASSUME NEW fs \in Files, NEW d \in Path \cup {0}
  PROVE  EnsureDirectory(fs, d) \subseteq Outcome
<1>1. CASE d = 0
  BY <1>1 DEF EnsureDirectory, Done, Outcome
<1>2. CASE d # 0
  <2>1. [p \in Path |-> IF p \in Lineage(d) /\ fs[p].kind = "absent"
                        THEN Dir(CreatedMode, Root) ELSE fs[p]] \in Files
    BY MadeEntries, ValueAssumption DEF Files
  <2>2. MakeDirectory(fs, d) \subseteq Outcome
    BY <2>1, OutcomesType DEF MakeDirectory
  <2>3. Done(fs) \in Outcome
    BY DEF Done, Outcome
  <2>4. QED
    BY <1>2, <2>2, <2>3, Zenon DEF EnsureDirectory
<1>3. QED
  BY <1>1, <1>2

\* Restoring a row leaves a host behind.
LEMMA RestoreEntryType ==
  ASSUME NEW fs \in Files, NEW remote, NEW r \in Row
  PROVE  RestoreEntry(fs, remote, r) \subseteq Outcome
<1>1. r.path \in Path /\ Parent[r.path] \in Path \cup {0}
  BY PathAssumption DEF Row
<1>2. RestoreLink(fs, r) \subseteq Outcome \/ r.link = 0
  <2>1. SUFFICES ASSUME r.link # 0, NEW x \in EnsureDirectory(fs, Parent[r.path])
                 PROVE  Symlink(x.files, r.path, r.link) \subseteq Outcome
                        /\ x \in Outcome
    BY DEF RestoreLink
  <2>2. x \in Outcome
    BY <2>1, <1>1, EnsureDirectoryType
  <2>3. r.link \in LinkTarget
    BY <2>1 DEF Row
  <2>4. QED
    BY <2>2, <2>3, <1>1, SymlinkType DEF Outcome
<1>3. RemoveOrRefuse(fs, r.path) \subseteq Outcome
  BY <1>1, RemoveType, OutcomesType DEF RemoveOrRefuse
<1>4. EnsureDirectory(fs, r.path) \subseteq Outcome
  BY <1>1, EnsureDirectoryType
<1>5. r.content # NoContent => Write(fs, remote, r.path, r.content) \subseteq Outcome
  BY <1>1, WriteType DEF Row
<1>6. Done(fs) \in Outcome
  BY DEF Done, Outcome
<1>7. QED
  BY <1>2, <1>3, <1>4, <1>5, <1>6, Zenon DEF RestoreEntry

\* The chmod and the chown of a row, one after the other.
LEMMA RestoreMetadataParts ==
  ASSUME NEW fs, NEW r, NEW x \in RestoreMetadata(fs, r)
  PROVE  \E moded \in Chmod(fs, r.path, r.mode) :
           \E owned \in Chown(moded.files, r.path, r.owner) :
             x = [files |-> owned.files,
                  ok |-> moded.ok /\ owned.ok /\ r.absence # "read_failed"]
BY Zenon DEF RestoreMetadata

\* The second half of restoring a row leaves a host behind.
LEMMA RestoreMetadataType ==
  ASSUME NEW fs \in Files, NEW r \in Row, NEW x \in RestoreMetadata(fs, r)
  PROVE  x \in Outcome
<1>1. PICK z \in Chmod(fs, r.path, r.mode) :
        \E y \in Chown(z.files, r.path, r.owner) :
          x = [files |-> y.files, ok |-> z.ok /\ y.ok /\ r.absence # "read_failed"]
  BY RestoreMetadataParts
<1>2. PICK y \in Chown(z.files, r.path, r.owner) :
        x = [files |-> y.files, ok |-> z.ok /\ y.ok /\ r.absence # "read_failed"]
  BY <1>1
<1>3. z \in Outcome
  BY ChmodType DEF Row
<1>4. y \in Outcome
  BY <1>3, ChownType DEF Row, Outcome
<1>5. QED
  BY <1>2, <1>4 DEF Outcome

------------------------------------------------------------------------------
(* The rows a capture or a snapshot produces are rows. *)

\* A row built from a path of a host is a FileState row.
LEMMA RowType ==
  ASSUME TypeOK, NEW h \in Host, NEW p \in Path
  PROVE  /\ AbsentRow(h, p) \in Row
         /\ MetadataRow(h, p) \in Row
         /\ LinkRow(h, p) \in Row
         /\ ContentRow(h, p) \in Row /\ UnreadRow(h, p) \in Row
<1>1. files[h] \in Files /\ files[h][p] \in Entry
  BY DEF TypeOK, Files
<1>2. MetaOf(h, p) \in Entry
  BY <1>1, MetadataType, Zenon DEF MetaOf
<1>3. ASSUME NEW content \in Content \cup {NoContent}, NEW typ \in Kind,
             NEW link \in LinkTarget \cup {0}, NEW absence \in Absence
      PROVE  RowOf(h, p, content, typ, link, absence) \in Row
  <2>1. MetaOf(h, p).mode \in Mode \cup {NoMode}
        /\ MetaOf(h, p).owner \in Owner \cup {NoOwner}
    BY <1>2 DEF Entry
  <2>2. QED
    BY <1>1, <1>3, <2>1 DEF RowOf, Row
<1>4. LinkTargetOf(files[h], p) \in LinkTarget \cup {0}
  BY <1>1 DEF LinkTargetOf, Entry
<1>5. AbsentRow(h, p) \in Row
  BY <1>3 DEF AbsentRow, Kind, Absence
<1>6. MetadataRow(h, p) \in Row
  <2> DEFINE kind == MetaOf(h, p).kind
             typ == IF kind = "link" THEN "file" ELSE kind
  <2>1. typ \in Kind
    BY <1>2 DEF Entry, Kind
  <2>2. RowOf(h, p, NoContent, typ, LinkTargetOf(files[h], p), "by_design") \in Row
    BY <1>3, <1>4, <2>1 DEF Absence
  <2>3. QED
    BY <1>5, <2>2, Zenon DEF MetadataRow
<1>7. LinkRow(h, p) \in Row
  BY <1>3, <1>4 DEF LinkRow, Kind, Absence
<1>8. ContentRow(h, p) \in Row /\ UnreadRow(h, p) \in Row
  <2>1. files[h][p].content \in Content \cup {NoContent}
    BY <1>1 DEF Entry
  <2>2. QED
    BY <2>1, <1>3 DEF ContentRow, UnreadRow, Kind, Absence
<1>9. QED
  BY <1>5, <1>6, <1>7, <1>8

\* A row of a path, by whichever capture: taken from the host it says it is
\* from, with the content that is there or none.
Faithful(r, h, p) ==
  /\ r \in Row
  /\ r.path = p /\ r.from = h
  /\ r.content # NoContent => r.content = r.seen.content

\* Every way of taking a row is faithful, and only a content row has content.
LEMMA RowFacts ==
  ASSUME TypeOK, NEW h \in Host, NEW p \in Path
  PROVE  /\ Faithful(AbsentRow(h, p), h, p)
         /\ Faithful(MetadataRow(h, p), h, p)
         /\ Faithful(LinkRow(h, p), h, p)
         /\ Faithful(ContentRow(h, p), h, p)
         /\ Faithful(UnreadRow(h, p), h, p)
         /\ MetadataRow(h, p).content = NoContent
<1>1. Faithful(AbsentRow(h, p), h, p) /\ AbsentRow(h, p).content = NoContent
  BY RowType DEF Faithful, AbsentRow, RowOf
<1>2. Faithful(MetadataRow(h, p), h, p) /\ MetadataRow(h, p).content = NoContent
  <2>1. CASE MetaOf(h, p).kind = "absent"
    BY <2>1, <1>1 DEF MetadataRow
  <2>2. CASE MetaOf(h, p).kind # "absent"
    BY <2>2, RowType DEF Faithful, MetadataRow, RowOf
  <2>3. QED
    BY <2>1, <2>2
<1>3. Faithful(LinkRow(h, p), h, p)
  BY RowType DEF Faithful, LinkRow, RowOf
<1>4. Faithful(ContentRow(h, p), h, p) /\ Faithful(UnreadRow(h, p), h, p)
  BY RowType DEF Faithful, ContentRow, UnreadRow, RowOf
<1>5. QED
  BY <1>1, <1>2, <1>3, <1>4

\* A row recorded absent is of a path where nothing was, or where a local
\* host has a link to nothing, which stat(2) follows.
Vacant(r) ==
  RecordedAbsent(r) =>
    r.seen.kind = "absent" \/ (r.seen.kind = "link" /\ r.from \notin Remote)

\* Only a row of a path that file_metadata says is absent is recorded absent.
LEMMA VacantRows ==
  ASSUME TypeOK, NEW h \in Host, NEW p \in Path
  PROVE  /\ MetaOf(h, p).kind = "absent" => Vacant(AbsentRow(h, p))
         /\ Vacant(MetadataRow(h, p)) /\ Vacant(LinkRow(h, p))
         /\ Vacant(ContentRow(h, p)) /\ Vacant(UnreadRow(h, p))
<1>1. ASSUME MetaOf(h, p).kind = "absent"
      PROVE  Vacant(AbsentRow(h, p))
  <2>1. AbsentRow(h, p).seen = files[h][p] /\ AbsentRow(h, p).from = h
    BY DEF AbsentRow, RowOf
  <2>2. files[h][p].kind = "absent" \/ (files[h][p].kind = "link" /\ h \notin Remote)
    BY <1>1 DEF MetaOf, Metadata, Final
  <2>3. QED
    BY <2>1, <2>2 DEF Vacant
<1>2. ASSUME NEW content, NEW typ, NEW link, NEW absence, typ # "absent"
      PROVE  Vacant(RowOf(h, p, content, typ, link, absence))
  BY <1>2 DEF Vacant, RecordedAbsent, RowOf
<1>3. Vacant(MetadataRow(h, p))
  <2>1. CASE MetaOf(h, p).kind = "absent"
    BY <2>1, <1>1 DEF MetadataRow
  <2>2. CASE MetaOf(h, p).kind # "absent"
    <3> DEFINE typ == IF MetaOf(h, p).kind = "link" THEN "file" ELSE MetaOf(h, p).kind
    <3>1. typ # "absent"
      BY <2>2
    <3>2. MetadataRow(h, p) =
            RowOf(h, p, NoContent, typ, LinkTargetOf(files[h], p), "by_design")
      BY <2>2, Zenon DEF MetadataRow
    <3> HIDE DEF typ
    <3>3. QED
      BY <3>1, <3>2, <1>2
  <2>3. QED
    BY <2>1, <2>2
<1>4. Vacant(LinkRow(h, p)) /\ Vacant(ContentRow(h, p)) /\ Vacant(UnreadRow(h, p))
  BY <1>2 DEF LinkRow, ContentRow, UnreadRow
<1>5. QED
  BY <1>1, <1>3, <1>4

\* What capture_file_state returns for a path.
LEMMA CapturedFacts ==
  ASSUME TypeOK, NEW h \in Host, NEW p \in Path, NEW declared,
         NEW r \in CapturedRows(h, p, declared)
  PROVE  Faithful(r, h, p) /\ Vacant(r)
<1>1. \/ r = AbsentRow(h, p) /\ MetaOf(h, p).kind = "absent"
      \/ r \in {MetadataRow(h, p), LinkRow(h, p), ContentRow(h, p), UnreadRow(h, p)}
  BY Zenon DEF CapturedRows
<1>2. QED
  BY <1>1, RowFacts, VacantRows, Zenon

\* What snapshot_current_state returns for a row: no content for one that
\* has none.
LEMMA SnapshotFacts ==
  ASSUME TypeOK, NEW h \in Host, NEW ref \in Row
  PROVE  /\ Faithful(SnapshotRow(h, ref), h, ref.path)
         /\ Vacant(SnapshotRow(h, ref))
         /\ ref.content = NoContent => SnapshotRow(h, ref).content = NoContent
<1>1. ref.path \in Path
  BY DEF Row
<1>2. CASE ref.content = NoContent
  <2>1. SnapshotRow(h, ref) = MetadataRow(h, ref.path)
    BY <1>2, Zenon DEF SnapshotRow
  <2>2. QED
    BY <2>1, <1>1, RowFacts, VacantRows, Zenon
<1>3. CASE ref.content # NoContent
  <2>1. SnapshotRow(h, ref) \in {MetadataRow(h, ref.path), LinkRow(h, ref.path),
                                 ContentRow(h, ref.path)}
    BY Zenon DEF SnapshotRow
  <2>2. QED
    BY <2>1, <1>1, <1>3, RowFacts, VacantRows, Zenon
<1>4. QED
  BY <1>2, <1>3

------------------------------------------------------------------------------
(* Type correctness. *)

\* A call that has ended is a call.
LEMMA IdleType ==
  ASSUME NEW h \in Host, NEW outcome \in {"none", "error", "partial", "success"}
  PROVE  IdleOn(h, outcome) \in OpRec
BY DEF IdleOn, OpRec, PC

\* Giving one operator another call leaves every call typed.
LEMMA BecomesType ==
  ASSUME TypeOK, NEW o \in Operator, NEW call \in OpRec, Becomes(o, call)
  PROVE  op' \in [Operator -> OpRec]
BY DEF Becomes, TypeOK

\* A call that returns leaves every call typed.
LEMMA EndType ==
  ASSUME TypeOK, NEW o \in Operator,
         NEW outcome \in {"none", "error", "partial", "success"},
         End(o, outcome)
  PROVE  op' \in [Operator -> OpRec]
BY IdleType, BecomesType DEF End, TypeOK, OpRec

\* A row that is over, restored or not, leaves every call typed.
LEMMA RowDoneType ==
  ASSUME TypeOK, NEW o \in Operator, NEW p \in Path, NEW ok \in BOOLEAN,
         NEW pc \in PC, RowDone(o, p, ok, pc)
  PROVE  op' \in [Operator -> OpRec]
<1> DEFINE bad == IF ok THEN op[o].bad ELSE op[o].bad \cup {p}
<1>1. op[o] \in OpRec /\ bad \in SUBSET Path
  BY DEF TypeOK, OpRec
<1>2. [op[o] EXCEPT !.pc = pc, !.todo = @ \ {p}, !.bad = bad] \in OpRec
  BY <1>1 DEF OpRec
<1>3. QED
  BY <1>2, BecomesType DEF RowDone

\* The guard's answers are yes and no.
LEMMA RefusalsType ==
  ASSUME NEW fs, NEW r
  PROVE  Refusals(fs, r) \subseteq BOOLEAN
BY Zenon DEF Refusals

\* A call that moves to its next stage leaves every call typed.
LEMMA GotoType ==
  ASSUME TypeOK, NEW o \in Operator, NEW pc \in PC, Goto(o, pc)
  PROVE  op' \in [Operator -> OpRec]
<1>1. [op[o] EXCEPT !.pc = pc] \in OpRec
  BY DEF TypeOK, OpRec
<1>2. QED
  BY <1>1, BecomesType DEF Goto

\* A checkpoint that is stored is one.
LEMMA StoredType ==
  ASSUME TypeOK, NEW h \in Host, NEW rows \in SUBSET Row
  PROVE  Stored(h, rows) \in CheckpointRec
BY DEF Stored, CheckpointRec, TypeOK

\* The rows of a path are its own, without content if asked for metadata.
LEMMA RowsForFacts ==
  ASSUME TypeOK, NEW o \in Operator, NEW p \in Path, NEW row \in RowsFor(o, p)
  PROVE  /\ Faithful(row, op[o].host, p) /\ Vacant(row)
         /\ ~op[o].full => row.content = NoContent
<1>1. op[o].host \in Host
  BY DEF TypeOK, OpRec
<1>2. CASE op[o].full
  BY <1>1, <1>2, CapturedFacts DEF RowsFor
<1>3. CASE ~op[o].full
  BY <1>1, <1>3, RowFacts, VacantRows DEF RowsFor
<1>4. QED
  BY <1>2, <1>3

\* What a path adds to a capture is in it.
LEMMA BelowFacts ==
  ASSUME NEW o, NEW p, NEW row, NEW more \in Below(o, p, row)
  PROVE  more \subseteq Children(p)
BY Zenon DEF Below, Listings

\* The steps of a capture.
LEMMA CaptureSteps ==
  ASSUME TypeOK, NEW o \in Operator,
         BeginCreate(o) \/ CapturePath(o) \/ CaptureDone(o) \/ Store(o)
  PROVE  TypeOK'
<1>1. op[o] \in OpRec /\ op[o].host \in Host
  BY DEF TypeOK, OpRec
<1>2. CASE BeginCreate(o)
  <2>1. PICK h \in Host, plan \in Plans :
          Becomes(o, [IdleOn(h, "none") EXCEPT
                   !.pc = "capture", !.full = plan.full, !.todo = plan.paths])
    BY <1>2 DEF BeginCreate
  <2>2. [IdleOn(h, "none") EXCEPT !.pc = "capture", !.full = plan.full,
                                 !.todo = plan.paths] \in OpRec
    BY CheckpointAssumption DEF IdleOn, OpRec, PC
  <2>3. op' \in [Operator -> OpRec]
    BY <2>1, <2>2, BecomesType
  <2>4. QED
    BY <1>2, <2>3 DEF BeginCreate, TypeOK
<1>3. CASE CapturePath(o)
  <2> DEFINE Moved(p, row, more) ==
        [op[o] EXCEPT !.todo = (@ \ {p}) \cup more, !.inside = @ \cup more,
                      !.taken = @ \cup {row}]
  <2>1. PICK p \in op[o].todo : \E row \in RowsFor(o, p) :
          \E more \in Below(o, p, row) : Becomes(o, Moved(p, row, more))
    BY <1>3, Zenon DEF CapturePath
  <2>2. PICK row \in RowsFor(o, p) :
          \E more \in Below(o, p, row) : Becomes(o, Moved(p, row, more))
    BY <2>1
  <2>6. PICK more \in Below(o, p, row) : Becomes(o, Moved(p, row, more))
    BY <2>2
  <2>3. p \in Path /\ row \in Row /\ more \in SUBSET Path
    <3>1. p \in Path
      BY <1>1 DEF OpRec
    <3>2. QED
      BY <3>1, <1>1, RowsForFacts, BelowFacts DEF Faithful, Children
  <2>4. Moved(p, row, more) \in OpRec
    BY <1>1, <2>3 DEF OpRec
  <2>5. QED
    BY <1>3, <2>6, <2>4, BecomesType DEF CapturePath, TypeOK
<1>4. CASE CaptureDone(o)
  BY <1>4, GotoType DEF CaptureDone, TypeOK, PC
<1>5. CASE Store(o)
  <2>1. Stored(op[o].host, op[o].taken) \in CheckpointRec
    BY <1>1, StoredType DEF OpRec
  <2>2. op' \in [Operator -> OpRec]
    BY <1>5, EndType DEF Store
  <2>3. QED
    BY <1>5, <2>1, <2>2 DEF Store, TypeOK
<1>6. QED
  BY <1>2, <1>3, <1>4, <1>5

\* The steps of a rollback up to the stored snapshot.
LEMMA PrepareSteps ==
  ASSUME TypeOK, NEW o \in Operator,
         \/ BeginRollback(o) \/ Load(o) \/ SortRow(o) \/ SortDone(o)
         \/ SnapshotPath(o) \/ SnapshotDone(o) \/ Persist(o)
  PROVE  TypeOK'
<1>1. op[o] \in OpRec /\ op[o].host \in Host
  BY DEF TypeOK, OpRec
<1>2. CASE BeginRollback(o)
  <2>1. PICK h \in Host, c \in db :
          Becomes(o, [IdleOn(h, "none") EXCEPT !.pc = "load", !.id = c.id])
    BY <1>2 DEF BeginRollback
  <2>2. [IdleOn(h, "none") EXCEPT !.pc = "load", !.id = c.id] \in OpRec
    BY DEF IdleOn, OpRec, PC, TypeOK, CheckpointRec
  <2>3. op' \in [Operator -> OpRec]
    BY <2>1, <2>2, BecomesType
  <2>4. QED
    BY <1>2, <2>3 DEF BeginRollback, TypeOK
<1>3. CASE Load(o)
  <2>1. CASE End(o, "error")
    BY <1>3, <2>1, EndType DEF Load, TypeOK
  <2>2. CASE ~End(o, "error")
    <3> DEFINE Next1(c) == [op[o] EXCEPT !.pc = "sort", !.todo = RowsPaths(c.rows),
                                        !.plan = c.rows]
    <3>1. PICK c \in db : Becomes(o, Next1(c))
      BY <1>3, <2>2, Zenon DEF Load, Loadable
    <3>2. c.rows \in SUBSET Row /\ RowsPaths(c.rows) \in SUBSET Path
      BY DEF TypeOK, CheckpointRec, RowsPaths, Row
    <3>3. Next1(c) \in OpRec
      BY <1>1, <3>2 DEF OpRec, PC
    <3>4. QED
      BY <1>3, <3>1, <3>3, BecomesType DEF Load, TypeOK
  <2>3. QED
    BY <2>1, <2>2
<1>4. CASE SortRow(o)
  <2> DEFINE Next1(r, refused) ==
        [op[o] EXCEPT !.todo = @ \ {r.path},
                      !.plan = IF refused THEN @ \ {r} ELSE @,
                      !.bad = IF refused THEN @ \cup {r.path} ELSE @]
  <2>0. PICK r \in op[o].plan : \E refused \in Refusals(Fs(o), r) :
          Becomes(o, Next1(r, refused))
    BY <1>4, Zenon DEF SortRow
  <2>1. PICK refused \in BOOLEAN : Becomes(o, Next1(r, refused))
    BY <2>0, RefusalsType, Zenon
  <2>2. r.path \in Path
    BY <1>1 DEF OpRec, Row
  <2>3. Next1(r, refused) \in OpRec
    BY <1>1, <2>2 DEF OpRec
  <2>4. QED
    BY <1>4, <2>1, <2>3, BecomesType DEF SortRow, TypeOK
<1>5. CASE SortDone(o)
  <2>1. CASE op[o].plan = {}
    BY <1>5, <2>1, EndType DEF SortDone, TypeOK
  <2>2. CASE op[o].plan # {}
    <3>1. RowsPaths(op[o].plan) \in SUBSET Path
      BY <1>1 DEF OpRec, RowsPaths, Row
    <3>2. [op[o] EXCEPT !.pc = "snapshot", !.todo = RowsPaths(op[o].plan)] \in OpRec
      BY <1>1, <3>1 DEF OpRec, PC
    <3>3. QED
      BY <1>5, <2>2, <3>2, BecomesType DEF SortDone, TypeOK
  <2>3. QED
    BY <2>1, <2>2
<1>6. CASE SnapshotPath(o)
  <2> DEFINE Next1(r) ==
        [op[o] EXCEPT !.todo = @ \ {r.path},
                      !.taken = @ \cup {SnapshotRow(op[o].host, r)}]
  <2>1. PICK r \in op[o].plan : Becomes(o, Next1(r))
    BY <1>6, Zenon DEF SnapshotPath
  <2>2. r \in Row /\ SnapshotRow(op[o].host, r) \in Row
    BY <1>1, SnapshotFacts DEF OpRec, Faithful
  <2>3. Next1(r) \in OpRec
    BY <1>1, <2>2 DEF OpRec, Row
  <2>4. QED
    BY <1>6, <2>1, <2>3, BecomesType DEF SnapshotPath, TypeOK
<1>7. CASE SnapshotDone(o)
  BY <1>7, GotoType DEF SnapshotDone, TypeOK, PC
<1>8. CASE Persist(o)
  <2>1. Stored(op[o].host, op[o].taken) \in CheckpointRec
    BY <1>1, StoredType DEF OpRec
  <2>2. RowsPaths(op[o].plan) \in SUBSET Path /\ op[o].plan \in SUBSET Row
    BY <1>1 DEF OpRec, RowsPaths, Row
  <2>3. op' \in [Operator -> OpRec]
    <3>1. [op[o] EXCEPT !.pc = "check", !.undo = issued + 1,
                        !.todo = RowsPaths(op[o].plan)] \in OpRec
      <4>1. issued + 1 \in Nat
        BY DEF TypeOK
      <4>2. QED
        BY <1>1, <2>2, <4>1 DEF OpRec, PC
    <3>2. QED
      BY <1>8, <3>1, BecomesType DEF Persist, TypeOK
  <2>4. last' \in [Host -> LastRec]
    BY <1>8, <1>1, <2>2 DEF Persist, TypeOK, LastRec, Fs
  <2>5. QED
    BY <1>8, <2>1, <2>3, <2>4 DEF Persist, TypeOK
<1>9. QED
  BY <1>2, <1>3, <1>4, <1>5, <1>6, <1>7, <1>8

\* The steps of the restore loop.
LEMMA RestoreSteps ==
  ASSUME TypeOK, NEW o \in Operator,
         CheckRow(o) \/ WriteEntry(o) \/ WriteMetadata(o) \/ Finish(o)
  PROVE  TypeOK'
<1>1. op[o] \in OpRec /\ op[o].host \in Host /\ Fs(o) \in Files
  BY DEF TypeOK, OpRec, Fs
<1>2. ASSUME NEW r \in op[o].plan
      PROVE  r \in Row /\ r.path \in Path
  BY <1>1 DEF OpRec, Row
<1>3. CASE CheckRow(o)
  <2>1. PICK r \in op[o].plan :
          RowDone(o, r.path, FALSE, "check") \/ Goto(o, "entry")
    BY <1>3, Zenon DEF CheckRow
  <2>2. op' \in [Operator -> OpRec]
    <3>1. "check" \in PC /\ "entry" \in PC
      BY DEF PC
    <3>2. QED
      BY <2>1, <1>2, <3>1, RowDoneType, GotoType
  <2>3. QED
    BY <1>3, <2>2 DEF CheckRow, TypeOK
<1>4. CASE WriteEntry(o)
  <2>1. PICK r \in op[o].plan : \E x \in RestoreEntry(Fs(o), Far(o), r) :
          /\ files' = [files EXCEPT ![op[o].host] = x.files]
          /\ Goto(o, "meta") \/ RowDone(o, r.path, x.ok, "check")
    BY <1>4, Zenon DEF WriteEntry
  <2>2. PICK x \in Outcome :
          /\ files' = [files EXCEPT ![op[o].host] = x.files]
          /\ Goto(o, "meta") \/ RowDone(o, r.path, x.ok, "check")
    BY <1>1, <1>2, <2>1, RestoreEntryType
  <2>3. op' \in [Operator -> OpRec]
    <3>1. "check" \in PC /\ "meta" \in PC
      BY DEF PC
    <3>2. QED
      BY <2>2, <1>2, <3>1, RowDoneType, GotoType DEF Outcome
  <2>4. files' \in [Host -> Files]
    BY <2>2 DEF TypeOK, Outcome
  <2>5. QED
    BY <1>4, <2>3, <2>4 DEF WriteEntry, TypeOK
<1>5. CASE WriteMetadata(o)
  <2>1. PICK r \in op[o].plan : \E x \in RestoreMetadata(Fs(o), r) :
          /\ files' = [files EXCEPT ![op[o].host] = x.files]
          /\ RowDone(o, r.path, x.ok, "check")
    BY <1>5, Zenon DEF WriteMetadata
  <2>2. PICK x \in Outcome :
          /\ files' = [files EXCEPT ![op[o].host] = x.files]
          /\ RowDone(o, r.path, x.ok, "check")
    BY <1>1, <1>2, <2>1, RestoreMetadataType
  <2>3. op' \in [Operator -> OpRec]
    <3>1. "check" \in PC
      BY DEF PC
    <3>2. QED
      BY <2>2, <1>2, <3>1, RowDoneType DEF Outcome
  <2>4. files' \in [Host -> Files]
    BY <2>2 DEF TypeOK, Outcome
  <2>5. QED
    BY <1>5, <2>3, <2>4 DEF WriteMetadata, TypeOK
<1>6. CASE Finish(o)
  BY <1>6, EndType DEF Finish, TypeOK
<1>7. QED
  BY <1>3, <1>4, <1>5, <1>6

\* The ways a call ends early, and the steps that are no call's.
LEMMA OtherSteps ==
  ASSUME TypeOK,
         \/ \E o \in Operator : Fails(o) \/ DatabaseFull(o) \/ Crash(o) \/ Delete(o)
         \/ Tamper
         \/ HostChanges
  PROVE  TypeOK'
<1>1. ASSUME NEW o \in Operator, Fails(o) \/ DatabaseFull(o) \/ Crash(o)
      PROVE  TypeOK'
  <2>1. op' \in [Operator -> OpRec]
    BY <1>1, EndType DEF Fails, DatabaseFull, Crash
  <2>2. QED
    BY <1>1, <2>1 DEF Fails, DatabaseFull, Crash, TypeOK
<1>2. ASSUME NEW o \in Operator, Delete(o)
      PROVE  TypeOK'
  BY <1>2 DEF Delete, TypeOK
<1>3. CASE Tamper
  <2>1. PICK c \in db : \E r \in c.rows, x \in Content :
          db' = (db \ {c}) \cup
                  {[c EXCEPT !.rows = (@ \ {r}) \cup {[r EXCEPT !.content = x]},
                             !.valid = FALSE]}
    BY <1>3 DEF Tamper
  <2>2. PICK r \in c.rows, x \in Content :
          db' = (db \ {c}) \cup
                  {[c EXCEPT !.rows = (@ \ {r}) \cup {[r EXCEPT !.content = x]},
                             !.valid = FALSE]}
    BY <2>1
  <2>3. r \in Row /\ [r EXCEPT !.content = x] \in Row
    BY DEF TypeOK, CheckpointRec, Row
  <2>4. [c EXCEPT !.rows = (@ \ {r}) \cup {[r EXCEPT !.content = x]},
                  !.valid = FALSE] \in CheckpointRec
    BY <2>3 DEF TypeOK, CheckpointRec
  <2>5. QED
    BY <1>3, <2>2, <2>4 DEF Tamper, TypeOK
<1>4. CASE HostChanges
  <2>1. PICK h \in Host, p \in Path : \E e \in HostStates[p] :
          /\ files' = [files EXCEPT ![h][p] = e]
          /\ last' = [last EXCEPT ![h] = Untouched]
    BY <1>4 DEF HostChanges
  <2>2. PICK e \in HostStates[p] :
          /\ files' = [files EXCEPT ![h][p] = e]
          /\ last' = [last EXCEPT ![h] = Untouched]
    BY <2>1
  <2>3. e \in Entry /\ Untouched \in LastRec
    BY CheckpointAssumption, MadeEntries DEF Untouched, LastRec, Files
  <2>4. files' \in [Host -> Files]
    BY <2>2, <2>3 DEF TypeOK, Files
  <2>5. QED
    BY <1>4, <2>2, <2>3, <2>4 DEF HostChanges, TypeOK
<1>5. QED
  BY <1>1, <1>2, <1>3, <1>4

\* Every variable has its type in every reachable state.
THEOREM TypeCorrect == Spec => []TypeOK
<1>1. Init => TypeOK
  <2>1. SUFFICES ASSUME Init PROVE TypeOK
    OBVIOUS
  <2>2. PICK h \in Host : op = [o \in Operator |-> IdleOn(h, "none")]
    BY <2>1 DEF Init
  <2>3. op \in [Operator -> OpRec]
    BY <2>2, IdleType
  <2>4. Untouched \in LastRec
    BY MadeEntries DEF Untouched, LastRec, Files
  <2>5. QED
    BY <2>1, <2>3, <2>4, CheckpointAssumption DEF Init, TypeOK
<1>2. TypeOK /\ [Next]_vars => TypeOK'
  <2>1. ASSUME TypeOK, Next
        PROVE  TypeOK'
    BY <2>1, CaptureSteps, PrepareSteps, RestoreSteps, OtherSteps, Zenon
       DEF Next, CallStep
  <2>2. TypeOK /\ UNCHANGED vars => TypeOK'
    BY DEF TypeOK, vars
  <2>3. QED
    BY <2>1, <2>2
<1>3. QED
  BY <1>1, <1>2, PTL DEF Spec

------------------------------------------------------------------------------
(* Nothing protected goes away. *)

\* What an operation of a rollback may do to the protected paths of a host.
Keeps(before, after) ==
  \A p \in Undeletable : before[p].kind # "absent" => after[p].kind # "absent"

\* Every command but `rm` leaves what it touches standing, and `rm` is not
\* run on a protected path.
LEMMA RestoreEntryKeeps ==
  ASSUME NEW fs \in Files, NEW remote, NEW r \in Row,
         NEW x \in RestoreEntry(fs, remote, r)
  PROVE  Keeps(fs, x.files)
<1>1. r.path \in Path /\ Undeletable \subseteq Path
  BY CheckpointAssumption DEF Row
<1>2. ASSUME NEW gs \in Files, NEW d, NEW y \in EnsureDirectory(gs, d)
      PROVE  Keeps(gs, y.files) /\ y.files \in {gs, [p \in Path |->
               IF p \in Lineage(d) /\ gs[p].kind = "absent"
               THEN Dir(CreatedMode, Root) ELSE gs[p]]}
  <2> DEFINE made == [p \in Path |-> IF p \in Lineage(d) /\ gs[p].kind = "absent"
                                     THEN Dir(CreatedMode, Root) ELSE gs[p]]
  <2>1. y \in {Done(gs), Failed(gs), Done(made)}
    BY <1>2, Zenon DEF EnsureDirectory, MakeDirectory, Outcomes
  <2>2. Keeps(gs, gs) /\ Keeps(gs, made)
    BY <1>1 DEF Keeps, Dir
  <2>3. y.files \in {gs, made}
    BY <2>1 DEF Done, Failed
  <2>4. QED
    BY <2>2, <2>3
<1>3. ASSUME NEW gs \in Files, NEW t, NEW y \in Symlink(gs, r.path, t)
      PROVE  Keeps(gs, y.files)
  <2>1. y \in {Done(gs), Failed(gs), Done([gs EXCEPT ![r.path] = Link(t)])}
    BY <1>3, Zenon DEF Symlink, Outcomes
  <2>2. y.files \in {gs, [gs EXCEPT ![r.path] = Link(t)]}
    BY <2>1 DEF Done, Failed
  <2>3. Keeps(gs, [gs EXCEPT ![r.path] = Link(t)])
    BY <1>1 DEF Keeps, Link, Files
  <2>4. QED
    BY <2>2, <2>3 DEF Keeps
<1>4. CASE r.link # 0
  <2>1. x \in RestoreLink(fs, r)
    BY <1>4, Zenon DEF RestoreEntry
  <2>2. PICK y \in EnsureDirectory(fs, Parent[r.path]) :
          x = y \/ x \in Symlink(y.files, r.path, r.link)
    BY <2>1, Zenon DEF RestoreLink
  <2>3. Keeps(fs, y.files) /\ y.files \in Files
    BY <1>1, <1>2, PathAssumption, EnsureDirectoryType DEF Outcome
  <2>4. Keeps(y.files, x.files) \/ x = y
    BY <2>2, <2>3, <1>3
  <2>5. QED
    BY <2>3, <2>4 DEF Keeps
<1>5. CASE r.link = 0 /\ RecordedAbsent(r)
  <2>1. x \in RemoveOrRefuse(fs, r.path)
    BY <1>5, Zenon DEF RestoreEntry
  <2>2. CASE r.path \in Undeletable
    <3>1. x \in {Done(fs), Failed(fs)}
      BY <2>1, <2>2, Zenon DEF RemoveOrRefuse, Outcomes
    <3>2. QED
      BY <3>1 DEF Done, Failed, Keeps
  <2>3. CASE r.path \notin Undeletable
    <3>1. x \in {Failed(fs), Done([fs EXCEPT ![r.path] = Absent])}
      BY <2>1, <2>3, Zenon DEF RemoveOrRefuse, Remove, Outcomes
    <3>2. x.files \in {fs, [fs EXCEPT ![r.path] = Absent]}
      BY <3>1 DEF Done, Failed
    <3>3. QED
      BY <3>2, <2>3, <1>1 DEF Keeps, Files
  <2>4. QED
    BY <2>2, <2>3
<1>6. CASE r.link = 0 /\ ~RecordedAbsent(r) /\ r.typ = "dir"
  BY <1>6, <1>2, Zenon DEF RestoreEntry
<1>7. CASE r.link = 0 /\ ~RecordedAbsent(r) /\ r.typ # "dir" /\ r.content # NoContent
  <2>1. x \in Write(fs, remote, r.path, r.content)
    BY <1>7, Zenon DEF RestoreEntry
  <2>2. ASSUME NEW c, NEW m, NEW o, NEW q \in Path
        PROVE  Keeps(fs, [fs EXCEPT ![q] = File(c, m, o)])
    BY <1>1 DEF Keeps, File, Files
  <2>3. ASSUME NEW c PROVE Keeps(fs, Written(fs, remote, r.path, c))
    BY <2>2, <1>1, FinalType DEF Written
  <2>4. Keeps(fs, HalfWritten(fs, remote, r.path, r.content))
    BY <2>2, <2>3, <1>1 DEF HalfWritten
  <2>5. x \in {Done(Written(fs, remote, r.path, r.content)), Failed(fs),
               Failed(HalfWritten(fs, remote, r.path, r.content))}
    BY <2>1, Zenon DEF Write, Outcomes
  <2>6. QED
    BY <2>3, <2>4, <2>5 DEF Done, Failed, Keeps
<1>8. CASE r.link = 0 /\ ~RecordedAbsent(r) /\ r.typ # "dir" /\ r.content = NoContent
  <2>1. x = Done(fs)
    BY <1>8, Zenon DEF RestoreEntry
  <2>2. QED
    BY <2>1 DEF Done, Keeps
<1>9. QED
  BY <1>4, <1>5, <1>6, <1>7, <1>8

\* chmod and chown remove nothing.
LEMMA RestoreMetadataKeeps ==
  ASSUME NEW fs \in Files, NEW r \in Row, NEW x \in RestoreMetadata(fs, r)
  PROVE  Keeps(fs, x.files)
<1>1. r.path \in Path /\ Undeletable \subseteq Path
  BY CheckpointAssumption DEF Row
<1>2. ASSUME NEW gs \in Files, NEW m, NEW y \in Chmod(gs, r.path, m)
      PROVE  Keeps(gs, y.files)
  <2> DEFINE after == [gs EXCEPT ![Final(gs, r.path)].mode = m]
  <2>1. y \in {Failed(gs), Done(after)}
    BY <1>2, Zenon DEF Chmod, Outcomes
  <2>2. Keeps(gs, after) /\ Keeps(gs, gs)
    BY <1>1, FinalType DEF Keeps, Files, Entry
  <2> HIDE DEF after
  <2>3. y.files = gs \/ y.files = after
    BY <2>1 DEF Done, Failed
  <2>4. QED
    BY <2>2, <2>3
<1>3. ASSUME NEW gs \in Files, NEW m, NEW y \in Chown(gs, r.path, m)
      PROVE  Keeps(gs, y.files)
  <2> DEFINE after == [gs EXCEPT ![Final(gs, r.path)].owner = m]
  <2>1. y \in {Failed(gs), Done(after)}
    BY <1>3, Zenon DEF Chown, Outcomes
  <2>2. Keeps(gs, after) /\ Keeps(gs, gs)
    BY <1>1, FinalType DEF Keeps, Files, Entry
  <2> HIDE DEF after
  <2>3. y.files = gs \/ y.files = after
    BY <2>1 DEF Done, Failed
  <2>4. QED
    BY <2>2, <2>3
<1>4. PICK z \in Chmod(fs, r.path, r.mode) :
        \E y \in Chown(z.files, r.path, r.owner) : x.files = y.files
  BY RestoreMetadataParts
<1>5. PICK y \in Chown(z.files, r.path, r.owner) : x.files = y.files
  BY <1>4
<1>6. z.files \in Files
  BY ChmodType DEF Row, Outcome
<1>7. Keeps(fs, z.files) /\ Keeps(z.files, x.files)
  BY <1>2, <1>3, <1>5, <1>6
<1>8. QED
  BY <1>7 DEF Keeps

\* A path this tool never creates is never removed by a call, whatever a row
\* says stood there, whatever else happens on the host meanwhile.
THEOREM ProtectedKept == Spec => KeepsProtected
<1> DEFINE Kept == op' # op =>
                     \A h \in Host, p \in Undeletable :
                       files[h][p].kind # "absent" => files'[h][p].kind # "absent"
<1>1. TypeOK /\ [Next]_vars => [Kept]_vars
  <2>1. SUFFICES ASSUME TypeOK, Next, op' # op
                 PROVE  \A h \in Host : Keeps(files[h], files'[h])
    BY DEF Keeps, vars
  <2>2. ASSUME NEW o \in Operator, NEW x,
               files' = [files EXCEPT ![op[o].host] = x.files],
               Keeps(Fs(o), x.files)
        PROVE  \A h \in Host : Keeps(files[h], files'[h])
    BY <2>1, <2>2 DEF TypeOK, Keeps, Fs
  <2>3. ASSUME NEW o \in Operator
        PROVE  Fs(o) \in Files /\ op[o].plan \subseteq Row
    BY <2>1 DEF TypeOK, OpRec, Fs
  <2>4. ASSUME NEW o \in Operator, WriteEntry(o)
        PROVE  \A h \in Host : Keeps(files[h], files'[h])
    <3>1. PICK r \in op[o].plan : \E x \in RestoreEntry(Fs(o), Far(o), r) :
            files' = [files EXCEPT ![op[o].host] = x.files]
      BY <2>4, Zenon DEF WriteEntry
    <3>2. QED
      BY <2>2, <2>3, <3>1, RestoreEntryKeeps
  <2>5. ASSUME NEW o \in Operator, WriteMetadata(o)
        PROVE  \A h \in Host : Keeps(files[h], files'[h])
    <3>1. PICK r \in op[o].plan : \E x \in RestoreMetadata(Fs(o), r) :
            files' = [files EXCEPT ![op[o].host] = x.files]
      BY <2>5, Zenon DEF WriteMetadata
    <3>2. QED
      BY <2>2, <2>3, <3>1, RestoreMetadataKeeps
  <2>6. CASE UNCHANGED files
    BY <2>6 DEF Keeps
  <2>7. \/ UNCHANGED files
        \/ \E o \in Operator : WriteEntry(o) \/ WriteMetadata(o)
    BY <2>1, Zenon DEF Next, CallStep, BeginCreate, CapturePath, CaptureDone, Store,
      BeginRollback, Load, SortRow, SortDone, SnapshotPath, SnapshotDone,
      Persist, Fails, DatabaseFull, CheckRow, Finish, Delete, Crash, Tamper,
      HostChanges
  <2>8. QED
    BY <2>4, <2>5, <2>6, <2>7
<1>2. QED
  BY <1>1, TypeCorrect, PTL DEF Spec, KeepsProtected, OperatorSteps

------------------------------------------------------------------------------
(* What the database holds and what a rollback is about to restore.         *)
(*                                                                          *)
(* Neither property is inductive: both say nothing of the rows a capture or *)
(* a snapshot has gathered and not yet stored, nor of the directory a       *)
(* capture is about to walk into.                                           *)

\* A row as it was taken: on that host, with what was there, and without
\* content if it is of an account database.
Secret(r) == r.path \in Account => r.content = NoContent

Told(r) == Secret(r) /\ Vacant(r)

Genuine(r, h) ==
  /\ r.from = h
  /\ r.content # NoContent => r.content = r.seen.content

StoredRowsInv ==
  \A c \in db : \A r \in c.rows : Told(r) /\ (c.valid => Genuine(r, c.host))

HeldRows(call) ==
  \A r \in call.taken \cup call.plan : Told(r) /\ Genuine(r, call.host)

\* A capture in full is never asked for, and never comes to, an account
\* database.
KeepsOut(call) ==
  call.pc = "capture" /\ call.full =>
    \A p \in call.todo : p \notin Account /\ Children(p) \cap Account = {}

CallsInv == \A o \in Operator : HeldRows(op[o]) /\ KeepsOut(op[o])

RowsInv == TypeOK /\ StoredRowsInv /\ CallsInv

\* Directories nest one deep, so a captured child has no children.
LEMMA ChildrenAreLeaves ==
  ASSUME NEW p \in Path, NEW q \in Children(p)
  PROVE  Children(q) = {}
<1>1. ASSUME NEW x \in Children(q)
      PROVE  FALSE
  <2>1. x \in Path /\ q \in Path /\ Parent[x] = q /\ Parent[q] = p
    BY <1>1 DEF Children
  <2>2. q # 0 /\ p # 0
    BY <2>1, PathAssumption
  <2>3. QED
    BY <2>1, <2>2, PathAssumption
<1>2. QED
  BY <1>1

\* A call whose rows are in order keeps every call's in order.
LEMMA BecomesKeeps ==
  ASSUME TypeOK, CallsInv, NEW o \in Operator, NEW call,
         Becomes(o, call), HeldRows(call), KeepsOut(call)
  PROVE  CallsInv'
<1>1. \A q \in Operator : op'[q] = IF q = o THEN call ELSE op[q]
  BY DEF Becomes, TypeOK
<1>2. ASSUME NEW q \in Operator
      PROVE  HeldRows(op'[q]) /\ KeepsOut(op'[q])
  BY <1>1 DEF CallsInv
<1>3. QED
  BY <1>2 DEF CallsInv, HeldRows, KeepsOut

\* A call that has ended holds nothing.
LEMMA EndKeeps ==
  ASSUME TypeOK, CallsInv, NEW o \in Operator, NEW outcome, End(o, outcome)
  PROVE  CallsInv'
<1>1. HeldRows(IdleOn(op[o].host, outcome)) /\ KeepsOut(IdleOn(op[o].host, outcome))
  BY DEF IdleOn, HeldRows, KeepsOut
<1>2. QED
  BY <1>1, BecomesKeeps DEF End

\* A call that only moves on within rows it held still holds rows in order.
LEMMA HeldRowsShrink ==
  ASSUME NEW call, NEW next, HeldRows(call), next.host = call.host,
         next.taken \subseteq call.taken, next.plan \subseteq call.plan
  PROVE  HeldRows(next)
BY DEF HeldRows

\* The capture of one path: the only step that reads content for a capture.
LEMMA CapturePathKeeps ==
  ASSUME RowsInv, NEW o \in Operator, CapturePath(o)
  PROVE  CallsInv'
<1> DEFINE Moved(p, row, more) ==
             [op[o] EXCEPT !.todo = (@ \ {p}) \cup more, !.inside = @ \cup more,
                           !.taken = @ \cup {row}]
<1>1. PICK p \in op[o].todo : \E row \in RowsFor(o, p) :
        \E more \in Below(o, p, row) : Becomes(o, Moved(p, row, more))
  BY Zenon DEF CapturePath
<1>2. PICK row \in RowsFor(o, p) :
        \E more \in Below(o, p, row) : Becomes(o, Moved(p, row, more))
  BY <1>1
<1>3. PICK more \in Below(o, p, row) : Becomes(o, Moved(p, row, more))
  BY <1>2
<1>4. op[o] \in OpRec /\ op[o].host \in Host /\ p \in Path
      /\ op[o].pc = "capture" /\ HeldRows(op[o]) /\ KeepsOut(op[o]) /\ TypeOK
  BY DEF RowsInv, TypeOK, OpRec, CallsInv, CapturePath
<1>5. HeldRows(Moved(p, row, more))
  <2>1. /\ Moved(p, row, more).taken = op[o].taken \cup {row}
        /\ Moved(p, row, more).plan = op[o].plan
        /\ Moved(p, row, more).host = op[o].host
    BY <1>4 DEF OpRec
  <2>2. Told(row) /\ Genuine(row, op[o].host)
    BY <1>4, RowsForFacts DEF KeepsOut, Faithful, Told, Secret, Genuine
  <2>3. QED
    BY <2>1, <2>2, <1>4 DEF HeldRows
<1>6. KeepsOut(Moved(p, row, more))
  <2>1. /\ Moved(p, row, more).todo \subseteq op[o].todo \cup more
        /\ Moved(p, row, more).full = op[o].full
    BY <1>4 DEF OpRec
  <2>2. ASSUME op[o].full, NEW q \in more
        PROVE  q \notin Account /\ Children(q) \cap Account = {}
    <3>1. q \in Children(p)
      BY BelowFacts
    <3>2. QED
      BY <2>2, <3>1, <1>4, ChildrenAreLeaves DEF KeepsOut
  <2>3. QED
    BY <2>1, <2>2, <1>4 DEF KeepsOut
<1>7. QED
  BY <1>3, <1>4, <1>5, <1>6, BecomesKeeps DEF RowsInv

\* The snapshot of one path: in the modality of the row it is taken for.
LEMMA SnapshotPathKeeps ==
  ASSUME RowsInv, NEW o \in Operator, SnapshotPath(o)
  PROVE  CallsInv'
<1> DEFINE Moved(r) ==
             [op[o] EXCEPT !.todo = @ \ {r.path},
                           !.taken = @ \cup {SnapshotRow(op[o].host, r)}]
<1>1. PICK r \in op[o].plan : Becomes(o, Moved(r))
  BY Zenon DEF SnapshotPath
<1>2. op[o] \in OpRec /\ op[o].host \in Host /\ r \in Row
      /\ op[o].pc = "snapshot" /\ HeldRows(op[o]) /\ TypeOK
  BY DEF RowsInv, TypeOK, OpRec, CallsInv, SnapshotPath
<1> DEFINE row == SnapshotRow(op[o].host, r)
<1>3. Faithful(row, op[o].host, r.path) /\ Vacant(row) /\ Told(r)
      /\ (r.content = NoContent => row.content = NoContent)
  BY <1>2, SnapshotFacts DEF HeldRows
<1>4. Told(row) /\ Genuine(row, op[o].host)
  BY <1>3 DEF Told, Secret, Genuine, Faithful
<1>5. /\ Moved(r).taken = op[o].taken \cup {row}
      /\ Moved(r).plan = op[o].plan
      /\ Moved(r).host = op[o].host
      /\ Moved(r).pc = "snapshot"
  BY <1>2 DEF OpRec
<1>6. HeldRows(Moved(r)) /\ KeepsOut(Moved(r))
  BY <1>2, <1>4, <1>5 DEF HeldRows, KeepsOut
<1>7. QED
  BY <1>1, <1>6, BecomesKeeps DEF RowsInv

\* Every other step of a call moves on within the rows it has, or takes them
\* from a checkpoint that verified.
LEMMA CallKeeps ==
  ASSUME RowsInv, NEW o \in Operator,
         \/ BeginCreate(o) \/ BeginRollback(o) \/ CallStep(o)
         \/ Fails(o) \/ Crash(o)
  PROVE  CallsInv'
<1>1. op[o] \in OpRec /\ HeldRows(op[o]) /\ KeepsOut(op[o]) /\ TypeOK /\ CallsInv
  BY DEF RowsInv, TypeOK, CallsInv
<1>2. ASSUME NEW call \in OpRec, Becomes(o, call), call.pc # "capture",
             call.host = op[o].host, call.taken \subseteq op[o].taken,
             call.plan \subseteq op[o].plan
      PROVE  CallsInv'
  BY <1>1, <1>2, HeldRowsShrink, BecomesKeeps DEF KeepsOut
<1>3. ASSUME NEW pc \in PC \ {"capture"}, Goto(o, pc)
      PROVE  CallsInv'
  <2>1. /\ [op[o] EXCEPT !.pc = pc] \in OpRec
        /\ [op[o] EXCEPT !.pc = pc].pc = pc
        /\ [op[o] EXCEPT !.pc = pc].host = op[o].host
        /\ [op[o] EXCEPT !.pc = pc].taken = op[o].taken
        /\ [op[o] EXCEPT !.pc = pc].plan = op[o].plan
    BY <1>1, <1>3 DEF OpRec
  <2>2. QED
    BY <2>1, <1>2, <1>3 DEF Goto
<1>4. ASSUME NEW r \in op[o].plan, NEW ok \in BOOLEAN, RowDone(o, r.path, ok, "check")
      PROVE  CallsInv'
  <2> DEFINE call == [op[o] EXCEPT !.pc = "check", !.todo = @ \ {r.path},
                                   !.bad = IF ok THEN @ ELSE @ \cup {r.path}]
  <2> DEFINE bad == IF ok THEN op[o].bad ELSE op[o].bad \cup {r.path}
  <2>a. r.path \in Path /\ op[o].bad \in SUBSET Path
    BY <1>1 DEF OpRec, Row
  <2>b. bad \in SUBSET Path
    BY <2>a
  <2>c. call = [op[o] EXCEPT !.pc = "check", !.todo = @ \ {r.path}, !.bad = bad]
    OBVIOUS
  <2> HIDE DEF bad
  <2>1. /\ call \in OpRec /\ call.pc = "check" /\ call.host = op[o].host
        /\ call.taken = op[o].taken /\ call.plan = op[o].plan
    BY <2>b, <2>c, <1>1 DEF OpRec, PC
  <2>2. Becomes(o, call)
    BY <1>4 DEF RowDone
  <2> HIDE DEF call
  <2>3. QED
    BY <2>1, <2>2, <1>2
<1>5. CASE BeginCreate(o)
  <2>1. PICK h \in Host, plan \in Plans :
          Becomes(o, [IdleOn(h, "none") EXCEPT
                   !.pc = "capture", !.full = plan.full, !.todo = plan.paths])
    BY <1>5 DEF BeginCreate
  <2> DEFINE call == [IdleOn(h, "none") EXCEPT !.pc = "capture",
                        !.full = plan.full, !.todo = plan.paths]
  <2>2. /\ call.taken = {} /\ call.plan = {} /\ call.full = plan.full
        /\ call.todo = plan.paths
    BY DEF IdleOn
  <2>3. HeldRows(call) /\ KeepsOut(call)
    BY <2>2, AccountAssumption DEF HeldRows, KeepsOut
  <2>4. QED
    BY <2>1, <2>3, <1>1, BecomesKeeps
<1>6. CASE CapturePath(o)
  BY <1>6, CapturePathKeeps
<1>7. CASE SnapshotPath(o)
  BY <1>7, SnapshotPathKeeps
<1>8. CASE BeginRollback(o)
  <2>1. PICK h \in Host, c \in db :
          Becomes(o, [IdleOn(h, "none") EXCEPT !.pc = "load", !.id = c.id])
    BY <1>8 DEF BeginRollback
  <2>2. /\ HeldRows([IdleOn(h, "none") EXCEPT !.pc = "load", !.id = c.id])
        /\ KeepsOut([IdleOn(h, "none") EXCEPT !.pc = "load", !.id = c.id])
    BY DEF IdleOn, HeldRows, KeepsOut
  <2>3. QED
    BY <2>1, <2>2, <1>1, BecomesKeeps
<1>9. CASE Load(o)
  <2>1. CASE End(o, "error")
    BY <2>1, <1>1, EndKeeps
  <2>2. CASE ~End(o, "error")
    <3> DEFINE call(c) == [op[o] EXCEPT !.pc = "sort", !.todo = RowsPaths(c.rows),
                                        !.plan = c.rows]
    <3>1. PICK c \in Loadable(o) : Becomes(o, call(c))
      BY <1>9, <2>2, Zenon DEF Load
    <3>2. c \in db /\ c.host = op[o].host /\ c.valid
      BY DEF Loadable
    <3>3. \A r \in c.rows : Told(r) /\ Genuine(r, op[o].host)
      BY <3>2 DEF RowsInv, StoredRowsInv
    <3>4. /\ call(c).taken = op[o].taken /\ call(c).plan = c.rows
          /\ call(c).host = op[o].host /\ call(c).pc = "sort"
      BY <1>1 DEF OpRec
    <3>5. HeldRows(call(c)) /\ KeepsOut(call(c))
      BY <3>3, <3>4, <1>1 DEF HeldRows, KeepsOut
    <3>6. QED
      BY <3>1, <3>5, <1>1, BecomesKeeps
  <2>3. QED
    BY <2>1, <2>2
<1>10. CASE SortRow(o)
  <2> DEFINE call(r, refused) ==
        [op[o] EXCEPT !.todo = @ \ {r.path},
                      !.plan = IF refused THEN @ \ {r} ELSE @,
                      !.bad = IF refused THEN @ \cup {r.path} ELSE @]
  <2>1. PICK r \in op[o].plan : \E refused \in Refusals(Fs(o), r) :
          Becomes(o, call(r, refused))
    BY <1>10, Zenon DEF SortRow
  <2>2. PICK refused \in BOOLEAN : Becomes(o, call(r, refused))
    BY <2>1, RefusalsType, Zenon
  <2>a. /\ r.path \in Path
        /\ op[o].plan \in SUBSET Row
        /\ op[o].bad \in SUBSET Path
        /\ op[o].todo \in SUBSET Path
    BY <1>1 DEF OpRec, Row
  <2> DEFINE todo == op[o].todo \ {r.path}
             plan == IF refused THEN op[o].plan \ {r} ELSE op[o].plan
             bad == IF refused THEN op[o].bad \cup {r.path} ELSE op[o].bad
  <2>b. /\ todo \in SUBSET Path
        /\ plan \in SUBSET Row
        /\ plan \subseteq op[o].plan
        /\ bad \in SUBSET Path
    BY <2>a
  <2>c. call(r, refused)
          = [op[o] EXCEPT !.todo = todo, !.plan = plan, !.bad = bad]
    OBVIOUS
  <2> HIDE DEF todo, plan, bad
  <2>d. [op[o] EXCEPT !.todo = todo, !.plan = plan, !.bad = bad] \in OpRec
    BY <1>1, <2>b DEF OpRec
  <2>3. /\ call(r, refused) \in OpRec
        /\ call(r, refused).pc = op[o].pc
        /\ call(r, refused).host = op[o].host
        /\ call(r, refused).taken = op[o].taken
        /\ call(r, refused).plan \subseteq op[o].plan
    BY <2>b, <2>c, <2>d, <1>1 DEF OpRec
  <2>4. op[o].pc = "sort"
    BY <1>10 DEF SortRow
  <2>5. QED
    BY <1>2, <2>2, <2>3, <2>4
<1>11. CASE SortDone(o)
  <2>1. CASE op[o].plan = {}
    BY <1>11, <2>1, <1>1, EndKeeps DEF SortDone
  <2>2. CASE op[o].plan # {}
    <3> DEFINE call == [op[o] EXCEPT !.pc = "snapshot",
                                     !.todo = RowsPaths(op[o].plan)]
    <3>0. RowsPaths(op[o].plan) \in SUBSET Path
      BY <1>1 DEF OpRec, RowsPaths, Row
    <3>1. /\ call \in OpRec /\ call.pc = "snapshot" /\ call.host = op[o].host
          /\ call.taken = op[o].taken /\ call.plan = op[o].plan
      BY <1>1, <3>0 DEF OpRec, PC
    <3>2. Becomes(o, call)
      BY <1>11, <2>2 DEF SortDone
    <3> HIDE DEF call
    <3>3. QED
      BY <3>1, <3>2, <1>2
  <2>3. QED
    BY <2>1, <2>2
<1>12. CASE Persist(o)
  <2> DEFINE call == [op[o] EXCEPT !.pc = "check", !.undo = issued + 1,
                                   !.todo = RowsPaths(op[o].plan)]
  <2>1. issued + 1 \in Nat /\ RowsPaths(op[o].plan) \in SUBSET Path
    BY <1>1 DEF TypeOK, OpRec, RowsPaths, Row
  <2>2. /\ call \in OpRec /\ call.pc = "check" /\ call.host = op[o].host
        /\ call.taken = op[o].taken /\ call.plan = op[o].plan
    BY <1>1, <2>1 DEF OpRec, PC
  <2>3. Becomes(o, call)
    BY <1>12 DEF Persist
  <2> HIDE DEF call
  <2>4. QED
    BY <2>2, <2>3, <1>2
<1>13. CASE CaptureDone(o) \/ SnapshotDone(o)
  BY <1>13, <1>3 DEF CaptureDone, SnapshotDone, PC
<1>14. CASE Store(o) \/ DatabaseFull(o) \/ Fails(o) \/ Crash(o) \/ Finish(o)
  BY <1>14, <1>1, EndKeeps DEF Store, DatabaseFull, Fails, Crash, Finish
<1>15. CASE CheckRow(o)
  <2>1. PICK r \in op[o].plan :
          RowDone(o, r.path, FALSE, "check") \/ Goto(o, "entry")
    BY <1>15, Zenon DEF CheckRow
  <2>2. QED
    BY <2>1, <1>3, <1>4 DEF PC
<1>16. CASE WriteEntry(o)
  <2>1. PICK r \in op[o].plan : \E x \in RestoreEntry(Fs(o), Far(o), r) :
          Goto(o, "meta") \/ RowDone(o, r.path, x.ok, "check")
    BY <1>16, Zenon DEF WriteEntry
  <2>2. PICK x \in Outcome : Goto(o, "meta") \/ RowDone(o, r.path, x.ok, "check")
    BY <2>1, <1>1, RestoreEntryType DEF OpRec, TypeOK, Fs
  <2>3. QED
    BY <2>2, <1>3, <1>4 DEF PC, Outcome
<1>17. CASE WriteMetadata(o)
  <2>1. PICK r \in op[o].plan : \E x \in RestoreMetadata(Fs(o), r) :
          RowDone(o, r.path, x.ok, "check")
    BY <1>17, Zenon DEF WriteMetadata
  <2>2. PICK x \in Outcome : RowDone(o, r.path, x.ok, "check")
    BY <2>1, <1>1, RestoreMetadataType DEF OpRec, TypeOK, Fs
  <2>3. QED
    BY <2>2, <1>4 DEF Outcome
<1>18. QED
  BY <1>5, <1>6, <1>7, <1>8, <1>9, <1>10, <1>11, <1>12, <1>13, <1>14, <1>15,
     <1>16, <1>17 DEF CallStep

\* The rows of a checkpoint are a finished call's, or were there before.
LEMMA StoredRowsKeep ==
  ASSUME RowsInv, Next
  PROVE  StoredRowsInv'
<1>1. ASSUME NEW o \in Operator,
             db' = db \cup {Stored(op[o].host, op[o].taken)}
      PROVE  StoredRowsInv'
  <2>1. \A r \in op[o].taken : Told(r) /\ Genuine(r, op[o].host)
    BY DEF RowsInv, CallsInv, HeldRows
  <2>2. /\ Stored(op[o].host, op[o].taken).rows = op[o].taken
        /\ Stored(op[o].host, op[o].taken).host = op[o].host
    BY DEF Stored
  <2>3. ASSUME NEW c \in db', NEW r \in c.rows
        PROVE  Told(r) /\ (c.valid => Genuine(r, c.host))
    BY <1>1, <2>1, <2>2, <2>3 DEF RowsInv, StoredRowsInv
  <2>4. QED
    BY <2>3 DEF StoredRowsInv
<1>2. CASE Tamper
  <2>1. PICK c \in db : \E r \in c.rows, x \in Content :
          /\ r.content \notin {NoContent, x}
          /\ db' = (db \ {c}) \cup
                     {[c EXCEPT !.rows = (@ \ {r}) \cup {[r EXCEPT !.content = x]},
                                !.valid = FALSE]}
    BY <1>2, Zenon DEF Tamper
  <2>2. PICK r \in c.rows, x \in Content :
          /\ r.content \notin {NoContent, x}
          /\ db' = (db \ {c}) \cup
                     {[c EXCEPT !.rows = (@ \ {r}) \cup {[r EXCEPT !.content = x]},
                                !.valid = FALSE]}
    BY <2>1
  <2> DEFINE edited == [r EXCEPT !.content = x]
             forged == [c EXCEPT !.rows = (@ \ {r}) \cup {edited}, !.valid = FALSE]
  <2>3. c \in CheckpointRec /\ r \in Row
    BY DEF RowsInv, TypeOK, CheckpointRec
  <2>4. Told(edited)
    <3>1. edited.path = r.path /\ edited.content = x /\ x # NoContent
      BY <2>2, <2>3, ValueAssumption DEF Row
    <3>2. r.path \notin Account
      BY <2>2 DEF RowsInv, StoredRowsInv, Told, Secret
    <3>3. QED
      BY <3>1, <3>2 DEF Told, Secret, Vacant, RecordedAbsent
  <2>5. forged.rows \subseteq c.rows \cup {edited} /\ forged.valid = FALSE
    BY <2>3 DEF CheckpointRec
  <2>6. db' = (db \ {c}) \cup {forged}
    BY <2>2
  <2> HIDE DEF forged, edited
  <2>7. ASSUME NEW d \in db', NEW s \in d.rows
        PROVE  Told(s) /\ (d.valid => Genuine(s, d.host))
    BY <2>4, <2>5, <2>6 DEF RowsInv, StoredRowsInv
  <2>8. QED
    BY <2>7 DEF StoredRowsInv
<1>3. CASE db' \subseteq db
  BY <1>3 DEF RowsInv, StoredRowsInv
<1>4. \/ \E o \in Operator : db' = db \cup {Stored(op[o].host, op[o].taken)}
      \/ Tamper
      \/ UNCHANGED db
      \/ \E c \in db : db' = db \ {c}
  BY Zenon DEF Next, CallStep, BeginCreate, CapturePath, CaptureDone, Store,
    BeginRollback, Load, SortRow, SortDone, SnapshotPath, SnapshotDone, Persist,
    Fails, DatabaseFull, CheckRow, WriteEntry, WriteMetadata, Finish, Delete,
    Crash, HostChanges
<1>5. QED
  BY <1>1, <1>2, <1>3, <1>4

\* The strengthened invariant holds in every reachable state.
LEMMA RowsInvariant == Spec => []RowsInv
<1>1. Init => StoredRowsInv /\ CallsInv
  BY DEF Init, StoredRowsInv, CallsInv, HeldRows, KeepsOut, IdleOn
<1>2. RowsInv /\ [Next]_vars => (StoredRowsInv /\ CallsInv)'
  <2>1. ASSUME RowsInv, Next
        PROVE  StoredRowsInv' /\ CallsInv'
    <3>1. CASE UNCHANGED op
      BY <2>1, <3>1, StoredRowsKeep DEF RowsInv, CallsInv
    <3>2. CASE \E o \in Operator : \/ BeginCreate(o) \/ BeginRollback(o)
                                   \/ CallStep(o) \/ Fails(o) \/ Crash(o)
      BY <2>1, <3>2, StoredRowsKeep, CallKeeps
    <3>3. QED
      BY <2>1, <3>1, <3>2, Zenon DEF Next, Delete, Tamper, HostChanges
  <2>2. RowsInv /\ UNCHANGED vars => (StoredRowsInv /\ CallsInv)'
    BY DEF RowsInv, StoredRowsInv, CallsInv, vars
  <2>3. QED
    BY <2>1, <2>2
<1>3. QED
  BY <1>1, <1>2, TypeCorrect, PTL DEF Spec, RowsInv

\* No password-file content ever enters the checkpoint database.
THEOREM AccountsKeptOut == Spec => []NoAccountContent
<1>1. RowsInv => NoAccountContent
  BY DEF RowsInv, StoredRowsInv, Told, Secret, NoAccountContent
<1>2. QED
  BY <1>1, RowsInvariant, PTL

\* What a rollback restores is what was captured, of this very host.
THEOREM PlansAreGenuine == Spec => []PlanIsGenuine
<1>1. RowsInv => PlanIsGenuine
  BY DEF RowsInv, CallsInv, HeldRows, Genuine, PlanIsGenuine
<1>2. QED
  BY <1>1, RowsInvariant, PTL

\* A path is recorded absent only when nothing stood there, on the hosts
\* reached over SSH: file_metadata keeps its contract where it does not follow
\* links (the run ck_dangling is of a local host, where it does).
THEOREM AbsenceIsSeenRemotely ==
  ASSUME Remote = Host
  PROVE  Spec => []RecordedAbsentIsAbsent
<1>1. RowsInv => RecordedAbsentIsAbsent
  BY DEF RowsInv, StoredRowsInv, Told, Vacant, TypeOK, CheckpointRec, Row,
    RecordedAbsentIsAbsent
<1>2. QED
  BY <1>1, RowsInvariant, PTL

------------------------------------------------------------------------------
(* A row is of one path: the rows of a call and of a checkpoint are of      *)
(* different ones, since a loop takes its paths in order and a directory    *)
(* comes before what is in it.                                              *)

Unique(rows) == \A r, s \in rows : r.path = s.path => r = s

Ahead(rows, paths) == \A r \in rows : \A p \in paths : r.path < p

InOrder(call) ==
  /\ Unique(call.taken) /\ Unique(call.plan)
  /\ call.pc \in {"load", "sort"} => call.taken = {}
  /\ call.pc \in {"capture", "snapshot"} => Ahead(call.taken, call.todo)

OrderInv ==
  /\ \A o \in Operator : InOrder(op[o])
  /\ \A c \in db : Unique(c.rows)

\* A call whose rows are in order keeps every call's in order.
LEMMA BecomesInOrder ==
  ASSUME TypeOK, \A o \in Operator : InOrder(op[o]), NEW o \in Operator, NEW call,
         Becomes(o, call), InOrder(call)
  PROVE  \A q \in Operator : InOrder(op'[q])
<1>1. \A q \in Operator : op'[q] = IF q = o THEN call ELSE op[q]
  BY DEF Becomes, TypeOK
<1>2. QED
  BY <1>1

\* A call that has ended has no rows.
LEMMA EndInOrder ==
  ASSUME TypeOK, \A o \in Operator : InOrder(op[o]), NEW o \in Operator, NEW outcome,
         End(o, outcome)
  PROVE  \A q \in Operator : InOrder(op'[q])
<1>1. InOrder(IdleOn(op[o].host, outcome))
  BY DEF IdleOn, InOrder, Unique
<1>2. QED
  BY <1>1, BecomesInOrder DEF End

\* A row of the path at hand, after rows of earlier paths only.
LEMMA NextInOrder ==
  ASSUME NEW taken \in SUBSET Row, NEW todo \in SUBSET Path, NEW p \in todo, NEW row \in Row,
         Unique(taken), Ahead(taken, todo),
         Least(p, todo), row.path = p, NEW more \in SUBSET Children(p)
  PROVE  /\ Unique(taken \cup {row})
         /\ Ahead(taken \cup {row}, (todo \ {p}) \cup more)
<1>1. /\ \A q \in Path : q \in Nat
      /\ \A q \in more : q \in Path /\ p < q
  BY PathAssumption DEF Children
<1>2. p \in Nat /\ \A r \in taken : r.path \in Nat /\ r.path < p
  BY <1>1 DEF Row, Ahead
<1>3. Unique(taken \cup {row})
  <2>1. \A r \in taken : r.path # row.path
    BY <1>2
  <2>2. QED
    BY <2>1 DEF Unique
<1>4. ASSUME NEW q \in (todo \ {p}) \cup more
      PROVE  q \in Nat /\ p < q
  <2>1. q \in Nat
    BY <1>1
  <2>2. q \notin more => p <= q /\ p # q
    BY DEF Least
  <2>3. QED
    BY <1>1, <1>2, <2>1, <2>2
<1>5. ASSUME NEW r \in taken \cup {row}, NEW q \in (todo \ {p}) \cup more
      PROVE  r.path < q
  <2>1. q \in Nat /\ p < q
    BY <1>4
  <2>2. r.path = p \/ (r.path \in Nat /\ r.path < p)
    BY <1>2
  <2> DEFINE n == r.path
  <2> HIDE DEF n
  <2>3. n < q
    BY <1>2, <2>1, <2>2 DEF n
  <2>4. QED
    BY <2>3 DEF n
<1>6. QED
  BY <1>3, <1>5, Zenon DEF Ahead

\* One step of a call.
LEMMA CallInOrder ==
  ASSUME TypeOK, OrderInv, NEW o \in Operator,
         \/ BeginCreate(o) \/ BeginRollback(o) \/ CallStep(o)
         \/ Fails(o) \/ Crash(o)
  PROVE  \A q \in Operator : InOrder(op'[q])
<1>1. op[o] \in OpRec /\ InOrder(op[o]) /\ \A q \in Operator : InOrder(op[q])
  BY DEF TypeOK, OrderInv
<1>2. ASSUME NEW call, Becomes(o, call), call.pc \notin {"capture", "snapshot", "load", "sort"},
             call.taken = op[o].taken, call.plan = op[o].plan
      PROVE  \A q \in Operator : InOrder(op'[q])
  <2>1. InOrder(call)
    BY <1>1, <1>2 DEF InOrder
  <2>2. QED
    BY <1>1, <1>2, <2>1, BecomesInOrder
<1>3. ASSUME NEW pc, pc \notin {"capture", "snapshot", "load", "sort"}, Goto(o, pc)
      PROVE  \A q \in Operator : InOrder(op'[q])
  <2>1. /\ [op[o] EXCEPT !.pc = pc].pc = pc
        /\ [op[o] EXCEPT !.pc = pc].taken = op[o].taken
        /\ [op[o] EXCEPT !.pc = pc].plan = op[o].plan
    BY <1>1 DEF OpRec
  <2>2. QED
    BY <2>1, <1>2, <1>3 DEF Goto
<1>4. ASSUME NEW p, NEW ok, RowDone(o, p, ok, "check")
      PROVE  \A q \in Operator : InOrder(op'[q])
  <2> DEFINE bad == IF ok THEN op[o].bad ELSE op[o].bad \cup {p}
             call == [op[o] EXCEPT !.pc = "check", !.todo = @ \ {p}, !.bad = bad]
  <2>1. Becomes(o, call)
    BY <1>4 DEF RowDone
  <2> HIDE DEF bad
  <2>2. call.pc = "check" /\ call.taken = op[o].taken /\ call.plan = op[o].plan
    BY <1>1 DEF OpRec
  <2> HIDE DEF call
  <2>3. QED
    BY <2>1, <2>2, <1>2
<1>5. CASE BeginCreate(o)
  <2>1. PICK h \in Host, plan \in Plans :
          Becomes(o, [IdleOn(h, "none") EXCEPT
                   !.pc = "capture", !.full = plan.full, !.todo = plan.paths])
    BY <1>5 DEF BeginCreate
  <2> DEFINE call == [IdleOn(h, "none") EXCEPT !.pc = "capture",
                        !.full = plan.full, !.todo = plan.paths]
  <2>2. call.taken = {} /\ call.plan = {} /\ call.pc = "capture"
    BY DEF IdleOn
  <2>3. InOrder(call)
    BY <2>2 DEF InOrder, Unique, Ahead
  <2>4. QED
    BY <2>1, <2>3, <1>1, BecomesInOrder
<1>6. CASE CapturePath(o)
  <2> DEFINE Moved(p, row, more) ==
               [op[o] EXCEPT !.todo = (@ \ {p}) \cup more, !.inside = @ \cup more,
                             !.taken = @ \cup {row}]
  <2>1. PICK p \in op[o].todo : /\ Least(p, op[o].todo)
                                /\ \E row \in RowsFor(o, p) : \E more \in Below(o, p, row) :
                                     Becomes(o, Moved(p, row, more))
    BY <1>6, Zenon DEF CapturePath
  <2>2. PICK row \in RowsFor(o, p) :
          \E more \in Below(o, p, row) : Becomes(o, Moved(p, row, more))
    BY <2>1
  <2>3. PICK more \in Below(o, p, row) : Becomes(o, Moved(p, row, more))
    BY <2>2
  <2>4. p \in Path /\ row \in Row /\ row.path = p /\ more \in SUBSET Children(p)
        /\ op[o].pc = "capture"
    <3>1. p \in Path /\ op[o].pc = "capture"
      BY <1>1, <1>6 DEF OpRec, CapturePath
    <3>2. QED
      BY <3>1, RowsForFacts, BelowFacts DEF Faithful
  <2>5. /\ Moved(p, row, more).pc = "capture"
        /\ Moved(p, row, more).todo = (op[o].todo \ {p}) \cup more
        /\ Moved(p, row, more).taken = op[o].taken \cup {row}
        /\ Moved(p, row, more).plan = op[o].plan
    BY <1>1, <2>4 DEF OpRec
  <2>6. /\ op[o].taken \in SUBSET Row /\ op[o].todo \in SUBSET Path
        /\ Unique(op[o].taken) /\ Unique(op[o].plan)
        /\ Ahead(op[o].taken, op[o].todo)
    BY <1>1, <2>4 DEF OpRec, InOrder
  <2>7. /\ Unique(op[o].taken \cup {row})
        /\ Ahead(op[o].taken \cup {row}, (op[o].todo \ {p}) \cup more)
    BY <2>1, <2>4, <2>6, NextInOrder
  <2>8. InOrder(Moved(p, row, more))
    BY <2>5, <2>6, <2>7 DEF InOrder
  <2>9. QED
    BY <2>3, <2>8, <1>1, BecomesInOrder
<1>7. CASE SnapshotPath(o)
  <2> DEFINE row(r) == SnapshotRow(op[o].host, r)
             Moved(r) == [op[o] EXCEPT !.todo = @ \ {r.path}, !.taken = @ \cup {row(r)}]
  <2>1. PICK r \in op[o].plan : Least(r.path, op[o].todo) /\ Becomes(o, Moved(r))
    BY <1>7, Zenon DEF SnapshotPath
  <2>2. r \in Row /\ r.path \in op[o].todo /\ op[o].pc = "snapshot" /\ op[o].host \in Host
    BY <1>1, <1>7, <2>1 DEF OpRec, Least, SnapshotPath
  <2>3. row(r) \in Row /\ row(r).path = r.path
    BY <2>2, SnapshotFacts DEF Faithful
  <2>4. /\ op[o].taken \in SUBSET Row /\ op[o].todo \in SUBSET Path
        /\ Unique(op[o].taken) /\ Unique(op[o].plan)
        /\ Ahead(op[o].taken, op[o].todo)
    BY <1>1, <2>2 DEF OpRec, InOrder
  <2> HIDE DEF row
  <2>5. /\ Unique(op[o].taken \cup {row(r)})
        /\ Ahead(op[o].taken \cup {row(r)}, op[o].todo \ {r.path})
    <3>1. /\ Unique(op[o].taken \cup {row(r)})
          /\ Ahead(op[o].taken \cup {row(r)}, (op[o].todo \ {r.path}) \cup {})
      BY <2>1, <2>2, <2>3, <2>4, NextInOrder
    <3>2. (op[o].todo \ {r.path}) \cup {} = op[o].todo \ {r.path}
      OBVIOUS
    <3>3. QED
      BY <3>1, <3>2
  <2>6. /\ Moved(r).pc = "snapshot" /\ Moved(r).plan = op[o].plan
        /\ Moved(r).todo = op[o].todo \ {r.path}
        /\ Moved(r).taken = op[o].taken \cup {row(r)}
    BY <1>1, <2>2 DEF OpRec
  <2>7. InOrder(Moved(r))
    BY <2>4, <2>5, <2>6 DEF InOrder
  <2>8. QED
    BY <2>1, <2>7, <1>1, BecomesInOrder
<1>8. CASE BeginRollback(o)
  <2>1. PICK h \in Host, c \in db :
          Becomes(o, [IdleOn(h, "none") EXCEPT !.pc = "load", !.id = c.id])
    BY <1>8 DEF BeginRollback
  <2>2. InOrder([IdleOn(h, "none") EXCEPT !.pc = "load", !.id = c.id])
    BY DEF IdleOn, InOrder, Unique
  <2>3. QED
    BY <2>1, <2>2, <1>1, BecomesInOrder
<1>9. CASE Load(o)
  <2>1. CASE End(o, "error")
    BY <2>1, <1>1, EndInOrder
  <2>2. CASE ~End(o, "error")
    <3> DEFINE call(c) == [op[o] EXCEPT !.pc = "sort", !.todo = RowsPaths(c.rows),
                                        !.plan = c.rows]
    <3>1. PICK c \in db : Becomes(o, call(c))
      BY <1>9, <2>2, Zenon DEF Load, Loadable
    <3>2. op[o].pc = "load"
      BY <1>9 DEF Load
    <3>3. call(c).taken = op[o].taken /\ call(c).plan = c.rows /\ call(c).pc = "sort"
      BY <1>1 DEF OpRec
    <3>4. InOrder(call(c))
      BY <3>2, <3>3, <1>1 DEF InOrder, OrderInv
    <3>5. QED
      BY <3>1, <3>4, <1>1, BecomesInOrder
  <2>3. QED
    BY <2>1, <2>2
<1>10. CASE SortRow(o)
  <2>1. PICK r, refused :
          /\ r \in op[o].plan
          /\ Becomes(o, [op[o] EXCEPT !.todo = @ \ {r.path},
                                      !.plan = IF refused THEN @ \ {r} ELSE @,
                                      !.bad = IF refused THEN @ \cup {r.path} ELSE @])
    BY <1>10, Zenon DEF SortRow
  <2> DEFINE todo == op[o].todo \ {r.path}
             plan == IF refused THEN op[o].plan \ {r} ELSE op[o].plan
             bad == IF refused THEN op[o].bad \cup {r.path} ELSE op[o].bad
             call == [op[o] EXCEPT !.todo = todo, !.plan = plan, !.bad = bad]
  <2>2. Becomes(o, call)
    BY <2>1
  <2>3. plan \subseteq op[o].plan /\ op[o].pc = "sort"
    BY <1>10 DEF SortRow
  <2> HIDE DEF todo, plan, bad
  <2>4. call.pc = "sort" /\ call.plan = plan /\ call.taken = op[o].taken
    BY <1>1, <2>3 DEF OpRec
  <2> HIDE DEF call
  <2>5. InOrder(call)
    BY <1>1, <2>3, <2>4 DEF InOrder, Unique
  <2>6. QED
    BY <1>1, <2>2, <2>5, BecomesInOrder
<1>11. CASE SortDone(o)
  <2>1. CASE op[o].plan = {}
    BY <1>11, <2>1, <1>1, EndInOrder DEF SortDone
  <2>2. CASE op[o].plan # {}
    <3> DEFINE call == [op[o] EXCEPT !.pc = "snapshot", !.todo = RowsPaths(op[o].plan)]
    <3>1. call.pc = "snapshot" /\ call.taken = op[o].taken /\ call.plan = op[o].plan
      BY <1>1 DEF OpRec
    <3>2. Becomes(o, call) /\ op[o].pc = "sort"
      BY <1>11, <2>2 DEF SortDone
    <3> HIDE DEF call
    <3>3. InOrder(call)
      BY <1>1, <3>1, <3>2 DEF InOrder, Ahead
    <3>4. QED
      BY <1>1, <3>2, <3>3, BecomesInOrder
  <2>3. QED
    BY <2>1, <2>2
<1>12. CASE Persist(o)
  <2> DEFINE call == [op[o] EXCEPT !.pc = "check", !.undo = issued + 1,
                                   !.todo = RowsPaths(op[o].plan)]
  <2>1. call.pc = "check" /\ call.taken = op[o].taken /\ call.plan = op[o].plan
    BY <1>1 DEF OpRec
  <2>2. Becomes(o, call)
    BY <1>12 DEF Persist
  <2> HIDE DEF call
  <2>3. QED
    BY <2>1, <2>2, <1>2
<1>13. CASE CaptureDone(o) \/ SnapshotDone(o)
  BY <1>13, <1>3 DEF CaptureDone, SnapshotDone
<1>14. CASE Store(o) \/ DatabaseFull(o) \/ Fails(o) \/ Crash(o) \/ Finish(o)
  BY <1>14, <1>1, EndInOrder DEF Store, DatabaseFull, Fails, Crash, Finish
<1>15. CASE CheckRow(o)
  <2>1. PICK r \in op[o].plan : RowDone(o, r.path, FALSE, "check") \/ Goto(o, "entry")
    BY <1>15, Zenon DEF CheckRow
  <2>2. QED
    BY <2>1, <1>3, <1>4
<1>16. CASE WriteEntry(o)
  <2>1. PICK r, ok : r \in op[o].plan /\ (Goto(o, "meta") \/ RowDone(o, r.path, ok, "check"))
    BY <1>16, Zenon DEF WriteEntry
  <2>2. QED
    BY <2>1, <1>3, <1>4
<1>17. CASE WriteMetadata(o)
  <2>1. PICK r, ok : r \in op[o].plan /\ RowDone(o, r.path, ok, "check")
    BY <1>17, Zenon DEF WriteMetadata
  <2>2. QED
    BY <2>1, <1>4
<1>18. QED
  BY <1>5, <1>6, <1>7, <1>8, <1>9, <1>10, <1>11, <1>12, <1>13, <1>14, <1>15,
     <1>16, <1>17 DEF CallStep

\* A checkpoint's rows are a call's, in order, and an edit keeps their paths.
LEMMA StoredInOrder ==
  ASSUME TypeOK, OrderInv, Next
  PROVE  \A c \in db' : Unique(c.rows)
<1>1. ASSUME NEW o \in Operator, db' = db \cup {Stored(op[o].host, op[o].taken)}
      PROVE  \A c \in db' : Unique(c.rows)
  BY <1>1 DEF OrderInv, InOrder, Stored
<1>2. CASE Tamper
  <2>1. PICK c \in db : \E r \in c.rows, x \in Content :
          db' = (db \ {c}) \cup
                  {[c EXCEPT !.rows = (@ \ {r}) \cup {[r EXCEPT !.content = x]},
                             !.valid = FALSE]}
    BY <1>2, Zenon DEF Tamper
  <2>2. PICK r \in c.rows, x \in Content :
          db' = (db \ {c}) \cup
                  {[c EXCEPT !.rows = (@ \ {r}) \cup {[r EXCEPT !.content = x]},
                             !.valid = FALSE]}
    BY <2>1
  <2> DEFINE edited == [r EXCEPT !.content = x]
             rows == (c.rows \ {r}) \cup {edited}
             forged == [c EXCEPT !.rows = rows, !.valid = FALSE]
  <2>3. c \in CheckpointRec /\ r \in Row /\ Unique(c.rows)
    BY DEF TypeOK, CheckpointRec, OrderInv
  <2>4. edited.path = r.path
    BY <2>3 DEF Row
  <2>5. db' = (db \ {c}) \cup {forged}
    BY <2>2
  <2> HIDE DEF edited
  <2>6. Unique(rows)
    BY <2>3, <2>4 DEF Unique
  <2> HIDE DEF rows
  <2>7. forged.rows = rows
    BY <2>3 DEF CheckpointRec
  <2> HIDE DEF forged
  <2>8. QED
    BY <2>5, <2>6, <2>7 DEF OrderInv
<1>3. CASE db' \subseteq db
  BY <1>3 DEF OrderInv
<1>4. \/ \E o \in Operator : db' = db \cup {Stored(op[o].host, op[o].taken)}
      \/ Tamper
      \/ UNCHANGED db
      \/ \E c \in db : db' = db \ {c}
  BY Zenon DEF Next, CallStep, BeginCreate, CapturePath, CaptureDone, Store,
    BeginRollback, Load, SortRow, SortDone, SnapshotPath, SnapshotDone, Persist,
    Fails, DatabaseFull, CheckRow, WriteEntry, WriteMetadata, Finish, Delete,
    Crash, HostChanges
<1>5. QED
  BY <1>1, <1>2, <1>3, <1>4

\* No call ever has, and no checkpoint ever holds, two rows of one path.
LEMMA OrderInvariant == Spec => []OrderInv
<1>1. Init => OrderInv
  BY DEF Init, OrderInv, InOrder, Unique, IdleOn
<1>2. TypeOK /\ OrderInv /\ [Next]_vars => OrderInv'
  <2>1. ASSUME TypeOK, OrderInv, Next
        PROVE  OrderInv'
    <3>1. \A c \in db' : Unique(c.rows)
      BY <2>1, StoredInOrder
    <3>2. CASE UNCHANGED op
      BY <2>1, <3>1, <3>2 DEF OrderInv
    <3>3. CASE \E o \in Operator : \/ BeginCreate(o) \/ BeginRollback(o)
                                   \/ CallStep(o) \/ Fails(o) \/ Crash(o)
      BY <2>1, <3>1, <3>3, CallInOrder DEF OrderInv
    <3>4. QED
      BY <2>1, <3>2, <3>3, Zenon DEF Next, Delete, Tamper, HostChanges
  <2>2. OrderInv /\ UNCHANGED vars => OrderInv'
    BY DEF OrderInv, vars
  <2>3. QED
    BY <2>1, <2>2
<1>3. QED
  BY <1>1, <1>2, TypeCorrect, PTL DEF Spec

------------------------------------------------------------------------------
(* What a rollback writes to.                                               *)
(*                                                                          *)
(* Confined is not inductive: a step writes the row it was admitted to, so  *)
(* the invariant keeps, from the check of a row to its chmod and chown,     *)
(* that what a write to its path reaches is allowed.  It is lost when the   *)
(* host changes in between, under the call (RacePC) or by another call on   *)
(* the same host, which may restore a link there.                           *)

\* No two calls are at one host at a time.
Apart ==
  \A o, q \in Operator :
    o # q /\ op[o].host = op[q].host => op[o].pc = "idle" \/ op[q].pc = "idle"

\* A directory that holds a path a rollback may write is one it may make, or
\* one that is always there: what restore_file_state_tracked relies on where
\* it makes the parent of a link without asking the guard about it.
Enclosed == \A p \in Allowed : Parent[p] \in Allowed \cup {0}

\* Where a write of the row arrives.
Aim(fs, r) ==
  /\ r.path \in Allowed
  /\ HasMetadata(r) => fs[r.path].target \in Allowed \cup {0}

\* What an operation may do to the paths of a host.
Within(before, after) == \A p \in Path \ Allowed : after[p] = before[p]

OnTarget(call, fs) ==
  call.pc \in {"entry", "meta"} =>
    \A r \in call.plan : Least(r.path, call.todo) =>
      Aim(fs, r) /\ (call.pc = "meta" => HasMetadata(r))

TargetInv == \A o \in Operator : OnTarget(op[o], Fs(o))

\* `mkdir -p` of an allowed directory makes allowed directories, and a path
\* is the link it was.
LEMMA EnsureDirectoryWithin ==
  ASSUME Enclosed, NEW fs \in Files, NEW d \in Allowed \cup {0},
         NEW x \in EnsureDirectory(fs, d)
  PROVE  /\ Within(fs, x.files)
         /\ \A p \in Path : x.files[p].target \in {fs[p].target, 0}
<1> DEFINE made == [p \in Path |-> IF p \in Lineage(d) /\ fs[p].kind = "absent"
                                   THEN Dir(CreatedMode, Root) ELSE fs[p]]
<1>1. x \in {Done(fs), Failed(fs), Done(made)}
  BY Zenon DEF EnsureDirectory, MakeDirectory, Outcomes
<1>2. d # 0 => Lineage(d) \subseteq Allowed
  BY DEF Enclosed, Lineage
<1>3. \A p \in Path : Dir(CreatedMode, Root).target = 0
  BY DEF Dir
<1>4. d # 0 => /\ Within(fs, made)
               /\ \A p \in Path : made[p].target \in {fs[p].target, 0}
  BY <1>2, <1>3 DEF Within
<1>5. Within(fs, fs) /\ \A p \in Path : fs[p].target \in {fs[p].target, 0}
  BY DEF Within
<1> HIDE DEF made
<1>6. x.files \in {fs, made}
  BY <1>1 DEF Done, Failed
<1>7. d = 0 => x = Done(fs)
  BY Zenon DEF EnsureDirectory
<1>8. d = 0 => x.files = fs
  BY <1>7 DEF Done
<1>9. QED
  BY <1>4, <1>5, <1>6, <1>8

\* A write that arrives at an allowed path leaves the others alone, and the
\* path the link it was, or none.
LEMMA WriteWithin ==
  ASSUME NEW fs \in Files, NEW remote, NEW p \in Allowed,
         fs[p].target \in Allowed \cup {0}, NEW c, NEW x \in Write(fs, remote, p, c)
  PROVE  /\ Within(fs, x.files)
         /\ x.files[p].target \in Allowed \cup {0}
<1> DEFINE Good(gs) == Within(fs, gs) /\ gs[p].target \in Allowed \cup {0}
<1>1. p \in Path /\ Final(fs, p) \in Allowed
  BY CheckpointAssumption DEF Final, Files, Entry
<1>2. ASSUME NEW e, NEW m, NEW o, NEW q \in Allowed
      PROVE  Good([fs EXCEPT ![q] = File(e, m, o)])
  <2>1. File(e, m, o).target = 0
    BY DEF File
  <2>2. q \in Path
    BY CheckpointAssumption
  <2> HIDE DEF File
  <2>3. QED
    BY <1>1, <2>1, <2>2 DEF Within, Files
<1>3. ASSUME NEW e PROVE Good(Written(fs, remote, p, e))
  BY <1>1, <1>2 DEF Written
<1>4. Good(HalfWritten(fs, remote, p, c))
  BY <1>2, <1>3 DEF HalfWritten
<1>5. Good(fs)
  BY DEF Within
<1> HIDE DEF Good
<1>6. x \in {Done(Written(fs, remote, p, c)), Failed(fs),
             Failed(HalfWritten(fs, remote, p, c))}
  BY Zenon DEF Write, Outcomes
<1>7. Good(x.files)
  BY <1>3, <1>4, <1>5, <1>6 DEF Done, Failed
<1>8. QED
  BY <1>7 DEF Good

\* The entry of an admitted row is written where it was admitted, and so is
\* what chmod and chown follow.
LEMMA EntryWithin ==
  ASSUME Enclosed, NEW fs \in Files, NEW remote, NEW r \in Row, Aim(fs, r),
         NEW x \in RestoreEntry(fs, remote, r)
  PROVE  Within(fs, x.files) /\ Aim(x.files, r)
<1>1. r.path \in Allowed /\ r.path \in Path /\ Parent[r.path] \in Allowed \cup {0}
  BY CheckpointAssumption DEF Aim, Enclosed
<1>2. Parent[r.path] \in Path \cup {0}
  BY <1>1, CheckpointAssumption
<1>3. CASE r.link # 0
  <2>1. x \in RestoreLink(fs, r) /\ ~HasMetadata(r)
    BY <1>3, Zenon DEF RestoreEntry, HasMetadata
  <2>2. PICK y \in EnsureDirectory(fs, Parent[r.path]) :
          x = y \/ x \in Symlink(y.files, r.path, r.link)
    BY <2>1, Zenon DEF RestoreLink
  <2>3. Within(fs, y.files) /\ y.files \in Files
    BY <1>1, <1>2, <2>2, EnsureDirectoryWithin, EnsureDirectoryType DEF Outcome
  <2>4. ASSUME x \in Symlink(y.files, r.path, r.link)
        PROVE  Within(y.files, x.files)
    <3> DEFINE linked == [y.files EXCEPT ![r.path] = Link(r.link)]
    <3>1. x \in {Done(y.files), Failed(y.files), Done(linked)}
      BY <2>4, Zenon DEF Symlink, Outcomes
    <3>2. Within(y.files, linked) /\ Within(y.files, y.files)
      BY <1>1, <2>3 DEF Within, Files
    <3> HIDE DEF linked
    <3>3. x.files \in {y.files, linked}
      BY <3>1 DEF Done, Failed
    <3>4. QED
      BY <3>2, <3>3
  <2>5. Within(fs, x.files)
    BY <2>2, <2>3, <2>4 DEF Within
  <2>6. QED
    BY <2>1, <2>5, <1>1 DEF Aim
<1>4. CASE r.link = 0 /\ RecordedAbsent(r)
  <2>1. x \in RemoveOrRefuse(fs, r.path) /\ ~HasMetadata(r)
    BY <1>4, Zenon DEF RestoreEntry, HasMetadata
  <2> DEFINE gone == [fs EXCEPT ![r.path] = Absent]
  <2>2. x \in {Done(fs), Failed(fs), Done(gone)}
    BY <2>1, Zenon DEF RemoveOrRefuse, Remove, Outcomes
  <2>3. Within(fs, gone) /\ Within(fs, fs)
    BY <1>1 DEF Within, Files
  <2> HIDE DEF gone
  <2>4. x.files \in {fs, gone}
    BY <2>2 DEF Done, Failed
  <2>5. QED
    BY <2>1, <2>3, <2>4, <1>1 DEF Aim
<1>5. CASE HasMetadata(r)
  <2>1. fs[r.path].target \in Allowed \cup {0}
    BY <1>5 DEF Aim
  <2>2. \/ x \in EnsureDirectory(fs, r.path)
        \/ x \in Write(fs, remote, r.path, r.content)
        \/ x = Done(fs)
    BY <1>5, Zenon DEF RestoreEntry, HasMetadata
  <2>3. CASE x \in EnsureDirectory(fs, r.path)
    BY <1>1, <2>1, <2>3, EnsureDirectoryWithin DEF Aim
  <2>4. CASE x \in Write(fs, remote, r.path, r.content)
    BY <1>1, <2>1, <2>4, WriteWithin DEF Aim
  <2>5. CASE x = Done(fs)
    BY <1>1, <2>1, <2>5 DEF Aim, Within, Done
  <2>6. QED
    BY <2>2, <2>3, <2>4, <2>5
<1>6. QED
  BY <1>3, <1>4, <1>5 DEF HasMetadata

\* chmod and chown follow the link the check followed.
LEMMA MetadataWithin ==
  ASSUME NEW fs \in Files, NEW r \in Row, HasMetadata(r), Aim(fs, r),
         NEW x \in RestoreMetadata(fs, r)
  PROVE  Within(fs, x.files)
<1>1. r.path \in Allowed /\ r.path \in Path
  BY CheckpointAssumption DEF Aim
<1>2. ASSUME NEW gs \in Files, Aim(gs, r)
      PROVE  Final(gs, r.path) \in Allowed /\ Final(gs, r.path) \in Path
  BY <1>1, <1>2, CheckpointAssumption DEF Aim, Final, Files, Entry
<1>3. ASSUME NEW m, NEW z \in Chmod(fs, r.path, m)
      PROVE  Within(fs, z.files) /\ Aim(z.files, r)
  <2> DEFINE after == [fs EXCEPT ![Final(fs, r.path)].mode = m]
  <2>1. z \in {Failed(fs), Done(after)}
    BY <1>3, Zenon DEF Chmod, Outcomes
  <2>2. after[r.path].target = fs[r.path].target /\ Within(fs, after)
    BY <1>1, <1>2 DEF Within, Files, Entry
  <2>3. Within(fs, fs) /\ (Aim(fs, r) => Aim(after, r))
    BY <2>2 DEF Within, Aim
  <2> HIDE DEF after
  <2>4. z.files = fs \/ z.files = after
    BY <2>1 DEF Done, Failed
  <2>5. QED
    BY <2>2, <2>3, <2>4
<1>4. ASSUME NEW gs \in Files, Aim(gs, r), NEW m, NEW y \in Chown(gs, r.path, m)
      PROVE  Within(gs, y.files)
  <2> DEFINE after == [gs EXCEPT ![Final(gs, r.path)].owner = m]
  <2>1. y \in {Failed(gs), Done(after)}
    BY <1>4, Zenon DEF Chown, Outcomes
  <2>2. Within(gs, after) /\ Within(gs, gs)
    BY <1>1, <1>2, <1>4 DEF Within, Files
  <2> HIDE DEF after
  <2>3. y.files = gs \/ y.files = after
    BY <2>1 DEF Done, Failed
  <2>4. QED
    BY <2>2, <2>3
<1>5. PICK z \in Chmod(fs, r.path, r.mode) :
        \E y \in Chown(z.files, r.path, r.owner) : x.files = y.files
  BY RestoreMetadataParts
<1>6. PICK y \in Chown(z.files, r.path, r.owner) : x.files = y.files
  BY <1>5
<1>7. z.files \in Files
  BY <1>1, ChmodType DEF Row, Outcome
<1>8. Within(fs, z.files) /\ Within(z.files, y.files)
  BY <1>3, <1>4, <1>7
<1>9. QED
  BY <1>6, <1>8 DEF Within

\* The guard admits a row only where a write of it arrives at an allowed path.
LEMMA AdmittedIsAimed ==
  ASSUME NEW fs \in Files, NEW r \in Row, FALSE \in Refusals(fs, r)
  PROVE  Aim(fs, r)
<1>1. r.path \in Allowed
  BY Zenon DEF Refusals
<1>2. CASE r.link # 0 \/ RecordedAbsent(r)
  BY <1>1, <1>2 DEF Aim, HasMetadata
<1>3. CASE ~(r.link # 0 \/ RecordedAbsent(r))
  <2> DEFINE refused == \/ ~ProbeAnswers(fs, r.path)
                        \/ /\ WriterTarget(fs, r.path) # 0
                           /\ WriterTarget(fs, r.path) \notin Allowed
  <2>1. FALSE \in {refused} \cup (IF Faults THEN {TRUE} ELSE {})
    BY <1>1, <1>3, Zenon DEF Refusals
  <2>2. ~refused
    <3> HIDE DEF refused
    <3>1. QED
      BY <2>1, Zenon
  <2>3. QED
    BY <1>1, <2>2 DEF Aim, WriterTarget
<1>4. QED
  BY <1>2, <1>3

\* One path is the next of a loop.
LEMMA LeastIsOne ==
  ASSUME NEW S \in SUBSET Path, NEW p, NEW q, Least(p, S), Least(q, S)
  PROVE  p = q
<1>1. p \in Nat /\ q \in Nat /\ p <= q /\ q <= p
  BY PathAssumption DEF Least
<1>2. QED
  BY <1>1

\* Which steps lead a call into its capture, and which to a row's writes.
LEMMA Stages ==
  ASSUME TypeOK, NEW o \in Operator,
         \/ BeginCreate(o) \/ BeginRollback(o) \/ CallStep(o)
         \/ Fails(o) \/ Crash(o)
  PROVE  /\ op'[o].pc \in {"capture", "store"} =>
              BeginCreate(o) \/ CapturePath(o) \/ CaptureDone(o)
         /\ op'[o].pc \in {"entry", "meta"} => CheckRow(o) \/ WriteEntry(o)
<1> DEFINE Elsewhere == op'[o].pc \notin {"capture", "store", "entry", "meta"}
<1>1. op[o] \in OpRec
  BY DEF TypeOK
<1>2. ASSUME NEW call, Becomes(o, call), call.pc \notin {"capture", "store", "entry", "meta"}
      PROVE  Elsewhere
  <2>1. op'[o] = call
    BY <1>2 DEF Becomes, TypeOK
  <2>2. QED
    BY <1>2, <2>1
<1>3. ASSUME NEW pc, pc \notin {"capture", "store", "entry", "meta"}, Goto(o, pc)
      PROVE  Elsewhere
  <2>1. [op[o] EXCEPT !.pc = pc].pc = pc
    BY <1>1 DEF OpRec
  <2>2. QED
    BY <2>1, <1>2, <1>3 DEF Goto
<1>4. ASSUME NEW p, NEW ok, RowDone(o, p, ok, "check")
      PROVE  Elsewhere
  <2> DEFINE bad == IF ok THEN op[o].bad ELSE op[o].bad \cup {p}
             call == [op[o] EXCEPT !.pc = "check", !.todo = @ \ {p}, !.bad = bad]
  <2>1. Becomes(o, call)
    BY <1>4 DEF RowDone
  <2> HIDE DEF bad
  <2>2. call.pc = "check"
    BY <1>1 DEF OpRec
  <2> HIDE DEF call
  <2>3. QED
    BY <2>1, <2>2, <1>2
<1>5. ASSUME NEW outcome, End(o, outcome)
      PROVE  Elsewhere
  <2>1. IdleOn(op[o].host, outcome).pc = "idle"
    BY DEF IdleOn
  <2>2. QED
    BY <2>1, <1>2, <1>5 DEF End
<1>6. ASSUME WriteMetadata(o) PROVE Elsewhere
  <2>1. PICK r, ok : r \in op[o].plan /\ RowDone(o, r.path, ok, "check")
    BY <1>6, Zenon DEF WriteMetadata
  <2>2. QED
    BY <2>1, <1>4
<1>7. ASSUME BeginRollback(o) PROVE Elsewhere
  <2>1. PICK h \in Host, c \in db :
          Becomes(o, [IdleOn(h, "none") EXCEPT !.pc = "load", !.id = c.id])
    BY <1>7 DEF BeginRollback
  <2>2. [IdleOn(h, "none") EXCEPT !.pc = "load", !.id = c.id].pc = "load"
    BY DEF IdleOn
  <2>3. QED
    BY <2>1, <2>2, <1>2
<1>8. ASSUME SnapshotPath(o) PROVE Elsewhere
  <2>1. PICK r \in op[o].plan :
          Becomes(o, [op[o] EXCEPT !.todo = @ \ {r.path},
                                   !.taken = @ \cup {SnapshotRow(op[o].host, r)}])
    BY <1>8, Zenon DEF SnapshotPath
  <2>2. [op[o] EXCEPT !.todo = @ \ {r.path},
                      !.taken = @ \cup {SnapshotRow(op[o].host, r)}].pc = "snapshot"
    BY <1>1, <1>8 DEF OpRec, SnapshotPath
  <2>3. QED
    BY <2>1, <2>2, <1>2
<1>9. ASSUME Load(o) PROVE Elsewhere
  <2>1. CASE End(o, "error")
    BY <2>1, <1>5
  <2>2. CASE ~End(o, "error")
    <3>1. PICK c \in db : Becomes(o, [op[o] EXCEPT !.pc = "sort", !.todo = RowsPaths(c.rows),
                                                   !.plan = c.rows])
      BY <1>9, <2>2, Zenon DEF Load, Loadable
    <3>2. [op[o] EXCEPT !.pc = "sort", !.todo = RowsPaths(c.rows),
                        !.plan = c.rows].pc = "sort"
      BY <1>1 DEF OpRec
    <3>3. QED
      BY <3>1, <3>2, <1>2
  <2>3. QED
    BY <2>1, <2>2
<1>10. ASSUME SortRow(o) PROVE Elsewhere
  <2>1. PICK r, refused :
          /\ r \in op[o].plan
          /\ Becomes(o, [op[o] EXCEPT !.todo = @ \ {r.path},
                                      !.plan = IF refused THEN @ \ {r} ELSE @,
                                      !.bad = IF refused THEN @ \cup {r.path} ELSE @])
    BY <1>10, Zenon DEF SortRow
  <2> DEFINE plan == IF refused THEN op[o].plan \ {r} ELSE op[o].plan
             bad == IF refused THEN op[o].bad \cup {r.path} ELSE op[o].bad
             call == [op[o] EXCEPT !.todo = @ \ {r.path}, !.plan = plan, !.bad = bad]
  <2>2. Becomes(o, call)
    BY <2>1
  <2> HIDE DEF plan, bad
  <2>3. call.pc = "sort"
    BY <1>1, <1>10 DEF OpRec, SortRow
  <2> HIDE DEF call
  <2>4. QED
    BY <2>2, <2>3, <1>2
<1>11. ASSUME SortDone(o) PROVE Elsewhere
  <2>1. [op[o] EXCEPT !.pc = "snapshot", !.todo = RowsPaths(op[o].plan)].pc = "snapshot"
    BY <1>1 DEF OpRec
  <2>2. QED
    BY <1>11, <2>1, <1>2, <1>5 DEF SortDone
<1>12. ASSUME Persist(o) PROVE Elsewhere
  <2>1. [op[o] EXCEPT !.pc = "check", !.undo = issued + 1,
                      !.todo = RowsPaths(op[o].plan)].pc = "check"
    BY <1>1 DEF OpRec
  <2>2. QED
    BY <1>12, <2>1, <1>2 DEF Persist
<1>13. ASSUME SnapshotDone(o) PROVE Elsewhere
  BY <1>13, <1>3 DEF SnapshotDone
<1>14. ASSUME Store(o) \/ DatabaseFull(o) \/ Fails(o) \/ Crash(o) \/ Finish(o) PROVE Elsewhere
  BY <1>14, <1>5 DEF Store, DatabaseFull, Fails, Crash, Finish
<1>15. ASSUME BeginCreate(o) \/ CapturePath(o) PROVE op'[o].pc = "capture"
  <2>1. CASE BeginCreate(o)
    <3>1. PICK h \in Host, plan \in Plans :
            Becomes(o, [IdleOn(h, "none") EXCEPT
                     !.pc = "capture", !.full = plan.full, !.todo = plan.paths])
      BY <2>1 DEF BeginCreate
    <3>2. QED
      BY <3>1 DEF Becomes, TypeOK, IdleOn
  <2>2. CASE CapturePath(o)
    <3>1. PICK p, more, row :
            Becomes(o, [op[o] EXCEPT !.todo = (@ \ {p}) \cup more, !.inside = @ \cup more,
                                     !.taken = @ \cup {row}])
      BY <2>2, Zenon DEF CapturePath
    <3>2. QED
      BY <1>1, <2>2, <3>1 DEF Becomes, TypeOK, OpRec, CapturePath
  <2>3. QED
    BY <1>15, <2>1, <2>2
<1>16. ASSUME CaptureDone(o) PROVE op'[o].pc = "store"
  BY <1>1, <1>16 DEF CaptureDone, Goto, Becomes, TypeOK, OpRec
<1>17. ASSUME CheckRow(o) PROVE op'[o].pc \in {"check", "entry"}
  <2>1. Goto(o, "entry") \/ \E p : RowDone(o, p, FALSE, "check")
    BY <1>17, Zenon DEF CheckRow
  <2>2. Goto(o, "entry") => op'[o].pc = "entry"
    BY <1>1 DEF Goto, Becomes, TypeOK, OpRec
  <2>3. (\E p : RowDone(o, p, FALSE, "check")) => op'[o].pc = "check"
    BY <1>1 DEF RowDone, Becomes, TypeOK, OpRec
  <2>4. QED
    BY <2>1, <2>2, <2>3
<1>18. ASSUME WriteEntry(o) PROVE op'[o].pc \in {"check", "meta"}
  <2>1. Goto(o, "meta") \/ \E p, ok : RowDone(o, p, ok, "check")
    BY <1>18, Zenon DEF WriteEntry
  <2>2. Goto(o, "meta") => op'[o].pc = "meta"
    BY <1>1 DEF Goto, Becomes, TypeOK, OpRec
  <2>3. (\E p, ok : RowDone(o, p, ok, "check")) => op'[o].pc = "check"
    BY <1>1 DEF RowDone, Becomes, TypeOK, OpRec
  <2>4. QED
    BY <2>1, <2>2, <2>3
<1>19. QED
  BY <1>6, <1>7, <1>8, <1>9, <1>10, <1>11, <1>12, <1>13, <1>14, <1>15, <1>16, <1>17, <1>18
     DEF CallStep

\* A step of the call itself keeps it on target.
LEMMA CallOnTarget ==
  ASSUME Enclosed, TypeOK, OrderInv, TargetInv, NEW o \in Operator,
         \/ BeginCreate(o) \/ BeginRollback(o) \/ CallStep(o)
         \/ Fails(o) \/ Crash(o)
  PROVE  OnTarget(op'[o], files'[op'[o].host])
<1>1. op[o] \in OpRec /\ Unique(op[o].plan) /\ OnTarget(op[o], Fs(o)) /\ Fs(o) \in Files
  BY DEF TypeOK, OrderInv, InOrder, TargetInv, Fs, OpRec
<1>2. CASE op'[o].pc \notin {"entry", "meta"}
  BY <1>2 DEF OnTarget
<1>3. ASSUME NEW p, NEW ok, RowDone(o, p, ok, "check")
      PROVE  OnTarget(op'[o], files'[op'[o].host])
  <2>1. op'[o].pc = "check"
    BY <1>1, <1>3 DEF RowDone, Becomes, TypeOK, OpRec
  <2>2. QED
    BY <2>1 DEF OnTarget
<1>4. ASSUME NEW pc \in {"entry", "meta"}, Goto(o, pc), NEW r \in op[o].plan,
             Least(r.path, op[o].todo), Aim(files'[op[o].host], r),
             pc = "meta" => HasMetadata(r)
      PROVE  OnTarget(op'[o], files'[op'[o].host])
  <2> DEFINE call == [op[o] EXCEPT !.pc = pc]
  <2>1. op'[o] = call
    BY <1>4 DEF Goto, Becomes, TypeOK
  <2>2. /\ call.pc = pc /\ call.plan = op[o].plan /\ call.todo = op[o].todo
        /\ call.host = op[o].host /\ op[o].todo \in SUBSET Path
    BY <1>1 DEF OpRec
  <2> HIDE DEF call
  <2>3. ASSUME NEW s \in op[o].plan, Least(s.path, op[o].todo)
        PROVE  s = r
    BY <1>1, <1>4, <2>2, <2>3, LeastIsOne DEF Unique
  <2>4. QED
    BY <1>4, <2>1, <2>2, <2>3 DEF OnTarget
<1>5. CASE CheckRow(o)
  <2>1. PICK r \in op[o].plan :
          /\ Least(r.path, op[o].todo)
          /\ \E refused \in Refusals(Fs(o), r) :
               IF refused THEN RowDone(o, r.path, FALSE, "check") ELSE Goto(o, "entry")
    BY <1>5, Zenon DEF CheckRow
  <2>2. PICK refused \in Refusals(Fs(o), r) :
          IF refused THEN RowDone(o, r.path, FALSE, "check") ELSE Goto(o, "entry")
    BY <2>1
  <2>3. CASE RowDone(o, r.path, FALSE, "check")
    BY <2>3, <1>3
  <2>4. CASE ~refused /\ Goto(o, "entry")
    <3>1. r \in Row /\ files' = files
      BY <1>1, <1>5 DEF OpRec, CheckRow
    <3>2. refused = FALSE
      <4>1. refused \in BOOLEAN
        BY Zenon DEF Refusals
      <4>2. QED
        BY <2>4, <4>1, Zenon
    <3>3. Aim(Fs(o), r)
      BY <1>1, <2>2, <3>1, <3>2, AdmittedIsAimed
    <3>4. Aim(files'[op[o].host], r)
      BY <3>1, <3>3 DEF Fs
    <3>5. QED
      BY <2>1, <2>4, <3>4, <1>4
  <2>5. QED
    BY <2>2, <2>3, <2>4, Zenon
<1>6. CASE WriteEntry(o)
  <2>1. PICK r \in op[o].plan :
          /\ Least(r.path, op[o].todo)
          /\ \E x \in RestoreEntry(Fs(o), Far(o), r) :
               /\ files' = [files EXCEPT ![op[o].host] = x.files]
               /\ IF x.ok /\ HasMetadata(r)
                  THEN Goto(o, "meta") ELSE RowDone(o, r.path, x.ok, "check")
    BY <1>6, Zenon DEF WriteEntry
  <2>2. PICK x \in RestoreEntry(Fs(o), Far(o), r) :
          /\ files' = [files EXCEPT ![op[o].host] = x.files]
          /\ IF x.ok /\ HasMetadata(r)
             THEN Goto(o, "meta") ELSE RowDone(o, r.path, x.ok, "check")
    BY <2>1
  <2>3. CASE RowDone(o, r.path, x.ok, "check")
    BY <2>3, <1>3
  <2>4. CASE HasMetadata(r) /\ Goto(o, "meta")
    <3>1. r \in Row /\ op[o].pc = "entry" /\ op[o].host \in Host
      BY <1>1, <1>6 DEF OpRec, WriteEntry
    <3>2. Aim(Fs(o), r)
      BY <1>1, <2>1, <3>1 DEF OnTarget
    <3>3. Aim(x.files, r)
      BY <1>1, <3>1, <3>2, EntryWithin
    <3>4. files'[op[o].host] = x.files
      BY <2>2, <3>1 DEF TypeOK
    <3>5. QED
      BY <2>1, <2>4, <3>3, <3>4, <1>4
  <2>5. QED
    BY <2>2, <2>3, <2>4, Zenon
<1>7. QED
  BY <1>2, <1>5, <1>6, Stages

\* What a call does to hosts is to its own alone.
LEMMA WritesItsOwnHost ==
  ASSUME TypeOK, NEW o \in Operator,
         \/ BeginCreate(o) \/ BeginRollback(o) \/ Delete(o) \/ CallStep(o)
         \/ Fails(o) \/ Crash(o)
  PROVE  /\ \A q \in Operator \ {o} : op'[q] = op[q]
         /\ \A h \in Host : h # op[o].host => files'[h] = files[h]
         /\ UNCHANGED files \/ op[o].pc \in {"entry", "meta"}
<1>1. op' = op \/ \E call : Becomes(o, call)
  BY Zenon DEF CallStep, BeginCreate, CapturePath, CaptureDone, Store,
    BeginRollback, Load, SortRow, SortDone, SnapshotPath, SnapshotDone, Persist,
    Fails, DatabaseFull, CheckRow, WriteEntry, WriteMetadata, Finish, Delete,
    Crash, Goto, End, RowDone
<1>2. \/ UNCHANGED files
      \/ /\ op[o].pc \in {"entry", "meta"}
         /\ \E fs : files' = [files EXCEPT ![op[o].host] = fs]
  BY Zenon DEF CallStep, BeginCreate, CapturePath, CaptureDone, Store,
    BeginRollback, Load, SortRow, SortDone, SnapshotPath, SnapshotDone, Persist,
    Fails, DatabaseFull, CheckRow, WriteEntry, WriteMetadata, Finish, Delete,
    Crash
<1>3. \A q \in Operator \ {o} : op'[q] = op[q]
  BY <1>1 DEF Becomes, TypeOK
<1>4. \A h \in Host : h # op[o].host => files'[h] = files[h]
  BY <1>2 DEF TypeOK
<1>5. QED
  BY <1>2, <1>3, <1>4

\* What a call at work finds on its host is what it left there: the other
\* calls are elsewhere, and nothing else changes a host but where RacePC says.
LEMMA HostIsKept ==
  ASSUME TypeOK, Apart, Next, NEW q \in Operator,
         op[q].pc # "idle", op[q].pc \notin RacePC
  PROVE  \/ \/ BeginCreate(q) \/ BeginRollback(q) \/ CallStep(q)
            \/ Fails(q) \/ Crash(q)
         \/ op'[q] = op[q] /\ files'[op[q].host] = files[op[q].host]
<1>1. op[q].host \in Host /\ op[q].pc \in PC
  BY DEF TypeOK, OpRec
<1>2. CASE \E o \in Operator :
             \/ BeginCreate(o) \/ BeginRollback(o) \/ Delete(o) \/ CallStep(o)
             \/ Fails(o) \/ Crash(o)
  <2>1. PICK o \in Operator :
             \/ BeginCreate(o) \/ BeginRollback(o) \/ Delete(o) \/ CallStep(o)
             \/ Fails(o) \/ Crash(o)
    BY <1>2
  <2>2. CASE o = q
    <3>1. ~Delete(o)
      BY <2>2 DEF Delete
    <3>2. QED
      BY <2>1, <2>2, <3>1, Zenon
  <2>3. CASE o # q
    <3>1. /\ op'[q] = op[q]
          /\ \A h \in Host : h # op[o].host => files'[h] = files[h]
          /\ UNCHANGED files \/ op[o].pc \in {"entry", "meta"}
      BY <2>1, <2>3, WritesItsOwnHost
    <3>2. op[o].pc \in {"entry", "meta"} => op[o].host # op[q].host
      BY <2>3 DEF Apart
    <3>3. QED
      BY <1>1, <3>1, <3>2
  <2>4. QED
    BY <2>2, <2>3
<1>3. CASE Tamper
  BY <1>3 DEF Tamper
<1>4. CASE HostChanges
  <2>1. PICK h \in Host, p \in Path :
          /\ \A o \in Operator : op[o].host = h => op[o].pc \in RacePC \cup {"idle"}
          /\ \E e \in HostStates[p] : files' = [files EXCEPT ![h][p] = e]
    BY <1>4, Zenon DEF HostChanges
  <2>2. h # op[q].host /\ UNCHANGED op
    BY <1>4, <2>1 DEF HostChanges
  <2>3. files'[op[q].host] = files[op[q].host]
    BY <1>1, <2>1, <2>2 DEF TypeOK
  <2>4. QED
    BY <2>2, <2>3
<1>5. QED
  BY <1>2, <1>3, <1>4, Zenon DEF Next

\* A call moves by its own steps only.
LEMMA OnlyItsOwnStep ==
  ASSUME TypeOK, Next, NEW q \in Operator, op'[q] # op[q]
  PROVE  \/ BeginCreate(q) \/ BeginRollback(q) \/ CallStep(q)
         \/ Fails(q) \/ Crash(q)
<1>1. \/ \E o \in Operator :
           \/ BeginCreate(o) \/ BeginRollback(o) \/ Delete(o) \/ CallStep(o)
           \/ Fails(o) \/ Crash(o)
      \/ UNCHANGED op
  BY Zenon DEF Next, Tamper, HostChanges
<1>2. PICK o \in Operator :
           \/ BeginCreate(o) \/ BeginRollback(o) \/ Delete(o) \/ CallStep(o)
           \/ Fails(o) \/ Crash(o)
  BY <1>1
<1>3. o = q
  BY <1>2, WritesItsOwnHost
<1>4. ~Delete(q)
  BY DEF Delete
<1>5. QED
  BY <1>2, <1>3, <1>4

\* From the check of a row to its chmod and chown, a write to its path arrives
\* where the check found it would.
LEMMA TargetInvariant ==
  ASSUME Enclosed, RacePC \cap {"entry", "meta"} = {}
  PROVE  Spec /\ []Apart => []TargetInv
<1>1. Init => TargetInv
  BY DEF Init, TargetInv, OnTarget, IdleOn
<1>2. TypeOK /\ OrderInv /\ Apart /\ TargetInv /\ [Next]_vars => TargetInv'
  <2>1. ASSUME TypeOK, OrderInv, Apart, TargetInv, Next, NEW q \in Operator
        PROVE  OnTarget(op'[q], files'[op'[q].host])
    <3>1. CASE op[q].pc \in {"entry", "meta"}
      <4>1. op[q].pc # "idle" /\ op[q].pc \notin RacePC
        BY <3>1
      <4>2. CASE op'[q] = op[q] /\ files'[op[q].host] = files[op[q].host]
        BY <2>1, <4>2 DEF TargetInv, Fs
      <4>3. QED
        BY <2>1, <4>1, <4>2, HostIsKept, CallOnTarget
    <3>2. CASE op[q].pc \notin {"entry", "meta"}
      <4>1. CASE op'[q] = op[q]
        BY <3>2, <4>1 DEF OnTarget
      <4>2. CASE op'[q] # op[q]
        BY <2>1, <4>2, OnlyItsOwnStep, CallOnTarget
      <4>3. QED
        BY <4>1, <4>2
    <3>3. QED
      BY <3>1, <3>2
  <2>2. TypeOK /\ OrderInv /\ Apart /\ TargetInv /\ Next => TargetInv'
    BY <2>1 DEF TargetInv, Fs
  <2>3. TargetInv /\ UNCHANGED vars => TargetInv'
    BY DEF TargetInv, Fs, vars
  <2>4. QED
    BY <2>2, <2>3
<1>3. QED
  BY <1>1, <1>2, TypeCorrect, OrderInvariant, PTL DEF Spec

\* No call changes a path outside DEFAULT_ROLLBACK_PREFIXES, through a link or
\* otherwise, while calls on one host come one after the other, nothing else
\* changes the host between the check of a row and its chmod, and the
\* directories that hold the prefixes are there.
THEOREM RollbackIsConfined ==
  ASSUME Enclosed, RacePC \cap {"entry", "meta"} = {}
  PROVE  Spec /\ []Apart => Confined
<1> DEFINE Step == op' # op =>
                     \A h \in Host, p \in Path \ Allowed : files'[h][p] = files[h][p]
<1>1. TypeOK /\ TargetInv /\ [Next]_vars => [Step]_vars
  <2>1. SUFFICES ASSUME TypeOK, TargetInv, Next, op' # op
                 PROVE  \A h \in Host : Within(files[h], files'[h])
    BY DEF Within, vars
  <2>2. ASSUME NEW o \in Operator, NEW x,
               files' = [files EXCEPT ![op[o].host] = x.files],
               Within(Fs(o), x.files)
        PROVE  \A h \in Host : Within(files[h], files'[h])
    BY <2>1, <2>2 DEF TypeOK, Within, Fs
  <2>3. ASSUME NEW o \in Operator
        PROVE  Fs(o) \in Files /\ op[o].plan \subseteq Row /\ OnTarget(op[o], Fs(o))
    BY <2>1 DEF TypeOK, OpRec, Fs, TargetInv
  <2>4. ASSUME NEW o \in Operator, WriteEntry(o)
        PROVE  \A h \in Host : Within(files[h], files'[h])
    <3>1. PICK r \in op[o].plan :
            /\ Least(r.path, op[o].todo)
            /\ \E x \in RestoreEntry(Fs(o), Far(o), r) :
                 files' = [files EXCEPT ![op[o].host] = x.files]
      BY <2>4, Zenon DEF WriteEntry
    <3>2. op[o].pc = "entry"
      BY <2>4 DEF WriteEntry
    <3>3. Aim(Fs(o), r)
      BY <2>3, <3>1, <3>2 DEF OnTarget
    <3>4. QED
      BY <2>2, <2>3, <3>1, <3>3, EntryWithin
  <2>5. ASSUME NEW o \in Operator, WriteMetadata(o)
        PROVE  \A h \in Host : Within(files[h], files'[h])
    <3>1. PICK r \in op[o].plan :
            /\ Least(r.path, op[o].todo)
            /\ \E x \in RestoreMetadata(Fs(o), r) :
                 files' = [files EXCEPT ![op[o].host] = x.files]
      BY <2>5, Zenon DEF WriteMetadata
    <3>2. op[o].pc = "meta"
      BY <2>5 DEF WriteMetadata
    <3>3. Aim(Fs(o), r) /\ HasMetadata(r)
      BY <2>3, <3>1, <3>2 DEF OnTarget
    <3>4. QED
      BY <2>2, <2>3, <3>1, <3>3, MetadataWithin
  <2>6. CASE UNCHANGED files
    BY <2>6 DEF Within
  <2>7. \/ UNCHANGED files
        \/ \E o \in Operator : WriteEntry(o) \/ WriteMetadata(o)
    BY <2>1, Zenon DEF Next, CallStep, BeginCreate, CapturePath, CaptureDone, Store,
      BeginRollback, Load, SortRow, SortDone, SnapshotPath, SnapshotDone,
      Persist, Fails, DatabaseFull, CheckRow, Finish, Delete, Crash, Tamper,
      HostChanges
  <2>8. QED
    BY <2>4, <2>5, <2>6, <2>7
<1>2. QED
  BY <1>1, TypeCorrect, TargetInvariant, PTL DEF Spec, Confined, OperatorSteps

------------------------------------------------------------------------------
(* What a capture leaves out.                                               *)
(*                                                                          *)
(* CaptureComplete speaks of the moment a checkpoint is stored; before it,  *)
(* what a captured directory holds has a row or is still to get one.        *)

\* A listing shows what is there: the remote one is empty when it fails.
ListingsTell == Faults => Remote = {}

Gathers(call, fs) ==
  /\ call.pc = "store" => call.todo = {}
  /\ call.pc \in {"capture", "store"} /\ call.full =>
       \A r \in call.taken : r.seen.kind = "dir" =>
         \A p \in Children(r.path) :
           fs[p].kind # "absent" => p \in RowsPaths(call.taken) \cup call.todo

CaptureInv == \A o \in Operator : Gathers(op[o], Fs(o))

\* A directory is captured as one, in full only with all that is in it.
LEMMA DirectoryWalked ==
  ASSUME ListingsTell, TypeOK, NEW o \in Operator, NEW p \in Path, op[o].full,
         NEW row \in RowsFor(o, p), NEW more \in Below(o, p, row),
         row.seen.kind = "dir"
  PROVE  \A c \in Children(p) : Fs(o)[c].kind # "absent" => c \in more
<1> DEFINE h == op[o].host
<1>1. h \in Host /\ row \in CapturedRows(h, p, p \notin op[o].inside)
  BY DEF TypeOK, OpRec, RowsFor
<1>2. \A link, typ, content, absence :
        RowOf(h, p, content, typ, link, absence).seen = files[h][p]
  BY DEF RowOf
<1>3. row.seen = files[h][p]
  <2>1. row \in {AbsentRow(h, p), MetadataRow(h, p), LinkRow(h, p),
                 ContentRow(h, p), UnreadRow(h, p)}
    BY <1>1, Zenon DEF CapturedRows
  <2>2. MetadataRow(h, p).seen = files[h][p]
    BY <1>2, Zenon DEF MetadataRow, AbsentRow
  <2>3. QED
    BY <1>2, <2>1, <2>2 DEF AbsentRow, LinkRow, ContentRow, UnreadRow
<1>4. files[h][p].kind = "dir" /\ MetaOf(h, p).kind = "dir"
  BY <1>3 DEF MetaOf, Metadata, Final
<1>5. row = MetadataRow(h, p)
  BY <1>1, <1>4, Zenon DEF CapturedRows
<1>6. row.typ = "dir"
  <2>1. row = RowOf(h, p, NoContent, "dir", LinkTargetOf(files[h], p), "by_design")
    BY <1>4, <1>5, Zenon DEF MetadataRow
  <2>2. QED
    BY <2>1 DEF RowOf
<1>7. more \in Listings(Fs(o), Far(o), p)
  BY <1>4, <1>6, Zenon DEF Below, Fs
<1>8. ~(Far(o) /\ Faults)
  BY DEF ListingsTell, Far
<1>9. more = {c \in Children(p) : Fs(o)[c].kind # "absent"}
  BY <1>7, <1>8, Zenon DEF Listings
<1>10. QED
  BY <1>9

\* A step of the capture itself gathers on.
LEMMA CallGathers ==
  ASSUME ListingsTell, TypeOK, NEW o \in Operator, Gathers(op[o], Fs(o)),
         \/ BeginCreate(o) \/ BeginRollback(o) \/ CallStep(o)
         \/ Fails(o) \/ Crash(o)
  PROVE  Gathers(op'[o], files'[op'[o].host])
<1>1. op[o] \in OpRec /\ op[o].host \in Host
  BY DEF TypeOK, OpRec
<1>2. CASE op'[o].pc \notin {"capture", "store"}
  BY <1>2 DEF Gathers
<1>3. CASE BeginCreate(o)
  <2>1. PICK h \in Host, plan \in Plans :
          Becomes(o, [IdleOn(h, "none") EXCEPT
                   !.pc = "capture", !.full = plan.full, !.todo = plan.paths])
    BY <1>3 DEF BeginCreate
  <2>2. op'[o].pc = "capture" /\ op'[o].taken = {}
    BY <2>1 DEF Becomes, TypeOK, IdleOn
  <2>3. QED
    BY <2>2 DEF Gathers
<1>4. CASE CapturePath(o)
  <2> DEFINE Moved(p, row, more) ==
               [op[o] EXCEPT !.todo = (@ \ {p}) \cup more, !.inside = @ \cup more,
                             !.taken = @ \cup {row}]
  <2>1. PICK p \in op[o].todo : \E row \in RowsFor(o, p) :
          \E more \in Below(o, p, row) : Becomes(o, Moved(p, row, more))
    BY <1>4, Zenon DEF CapturePath
  <2>2. PICK row \in RowsFor(o, p) :
          \E more \in Below(o, p, row) : Becomes(o, Moved(p, row, more))
    BY <2>1
  <2>3. PICK more \in Below(o, p, row) : Becomes(o, Moved(p, row, more))
    BY <2>2
  <2>4. op'[o] = Moved(p, row, more)
    BY <2>3 DEF Becomes, TypeOK
  <2>5. /\ op'[o].pc = "capture" /\ op'[o].full = op[o].full
        /\ op'[o].host = op[o].host
        /\ op'[o].todo = (op[o].todo \ {p}) \cup more
        /\ op'[o].taken = op[o].taken \cup {row}
    BY <1>1, <1>4, <2>4 DEF OpRec, CapturePath
  <2>6. p \in Path /\ row.path = p /\ files'[op'[o].host] = Fs(o) /\ op[o].pc = "capture"
    <3>1. p \in Path
      BY <1>1 DEF OpRec
    <3>2. row.path = p
      BY <3>1, RowsForFacts DEF Faithful
    <3>3. QED
      BY <1>4, <2>5, <3>1, <3>2 DEF CapturePath, Fs
  <2>7. ASSUME op[o].full, NEW r \in op[o].taken \cup {row}, r.seen.kind = "dir",
               NEW c \in Children(r.path), Fs(o)[c].kind # "absent"
        PROVE  c \in RowsPaths(op[o].taken \cup {row}) \cup ((op[o].todo \ {p}) \cup more)
    <3>1. CASE r = row
      BY <2>6, <2>7, <3>1, DirectoryWalked
    <3>2. CASE r \in op[o].taken
      <4>1. c \in RowsPaths(op[o].taken) \cup op[o].todo
        BY <2>6, <2>7, <3>2 DEF Gathers
      <4>2. p \in RowsPaths(op[o].taken \cup {row})
        BY <2>6 DEF RowsPaths
      <4>3. RowsPaths(op[o].taken) \subseteq RowsPaths(op[o].taken \cup {row})
        BY DEF RowsPaths
      <4>4. QED
        BY <4>1, <4>2, <4>3
    <3>3. QED
      BY <2>7, <3>1, <3>2
  <2>8. QED
    BY <2>5, <2>6, <2>7 DEF Gathers
<1>5. CASE CaptureDone(o)
  <2>1. op'[o] = [op[o] EXCEPT !.pc = "store"]
    BY <1>5 DEF CaptureDone, Goto, Becomes, TypeOK
  <2>2. /\ op'[o].pc = "store" /\ op'[o].full = op[o].full
        /\ op'[o].host = op[o].host /\ op'[o].todo = op[o].todo
        /\ op'[o].taken = op[o].taken
    BY <1>1, <2>1 DEF OpRec
  <2>3. op[o].pc = "capture" /\ op[o].todo = {} /\ files'[op'[o].host] = Fs(o)
    BY <1>5, <2>2 DEF CaptureDone, Fs
  <2>4. QED
    BY <2>2, <2>3 DEF Gathers
<1>6. QED
  BY <1>2, <1>3, <1>4, <1>5, Stages

\* While a capture runs, a directory it has a row for holds nothing that has
\* no row and is not about to get one.
LEMMA CaptureInvariant ==
  ASSUME ListingsTell, RacePC \cap {"capture", "store"} = {}
  PROVE  Spec /\ []Apart => []CaptureInv
<1>1. Init => CaptureInv
  BY DEF Init, CaptureInv, Gathers, IdleOn
<1>2. TypeOK /\ Apart /\ CaptureInv /\ [Next]_vars => CaptureInv'
  <2>1. ASSUME TypeOK, Apart, CaptureInv, Next, NEW q \in Operator
        PROVE  Gathers(op'[q], files'[op'[q].host])
    <3>1. Gathers(op[q], Fs(q))
      BY <2>1 DEF CaptureInv
    <3>2. CASE op[q].pc \in {"capture", "store"}
      <4>1. op[q].pc # "idle" /\ op[q].pc \notin RacePC
        BY <3>2
      <4>2. CASE op'[q] = op[q] /\ files'[op[q].host] = files[op[q].host]
        BY <3>1, <4>2 DEF Fs
      <4>3. QED
        BY <2>1, <3>1, <4>1, <4>2, HostIsKept, CallGathers
    <3>3. CASE op[q].pc \notin {"capture", "store"}
      <4>1. CASE op'[q] = op[q]
        BY <3>3, <4>1 DEF Gathers
      <4>2. CASE op'[q] # op[q]
        BY <2>1, <3>1, <4>2, OnlyItsOwnStep, CallGathers
      <4>3. QED
        BY <4>1, <4>2
    <3>4. QED
      BY <3>2, <3>3
  <2>2. TypeOK /\ Apart /\ CaptureInv /\ Next => CaptureInv'
    BY <2>1 DEF CaptureInv, Fs
  <2>3. CaptureInv /\ UNCHANGED vars => CaptureInv'
    BY DEF CaptureInv, Fs, vars
  <2>4. QED
    BY <2>2, <2>3
<1>3. QED
  BY <1>1, <1>2, TypeCorrect, PTL DEF Spec

\* A checkpoint in full of a directory has a row for everything in it, while
\* calls on one host come one after the other, nothing else changes the host
\* under a capture, and a remote listing does not fail unnoticed.
THEOREM CapturesAreComplete ==
  ASSUME ListingsTell, RacePC \cap {"capture", "store"} = {}
  PROVE  Spec /\ []Apart => CaptureComplete
<1> DEFINE Complete ==
             \A o \in Operator : op[o].pc = "store" /\ op'[o].outcome = "success" =>
               \A r \in op[o].taken : op[o].full /\ r.seen.kind = "dir" =>
                 \A p \in Children(r.path) :
                   Fs(o)[p].kind # "absent" => p \in RowsPaths(op[o].taken)
<1>1. CaptureInv /\ [Next]_vars => [Complete]_vars
  BY DEF CaptureInv, Gathers
<1>2. QED
  BY <1>1, CaptureInvariant, PTL DEF Spec, CaptureComplete

------------------------------------------------------------------------------
(* What a rollback reports.                                                 *)
(*                                                                          *)
(* That a row reported as restored is as it was captured needs more than    *)
(* the row's own writes: what the row recorded has to be what stood there,  *)
(* and the rows after it have to leave it alone.  A link that leads to a    *)
(* path a rollback may write, a path that turns from a file into a          *)
(* directory, and a link to nothing are where the code itself does not      *)
(* keep the promise; Settled rules them out of what a host may hold.        *)

\* The paths that are directories where they are there.
Dirs ==
  {p \in Path : \/ \E q \in Path : Parent[q] = p
                \/ \E fs \in InitialFiles : fs[p].kind = "dir"
                \/ \E e \in HostStates[p] : e.kind = "dir"}

\* What may stand at a path: a link is root's, as `ln` makes it.
Plain(p) ==
  {Absent} \cup
    IF p \in Dirs THEN {Dir(m, o) : m \in Mode, o \in Owner}
    ELSE {File(c, m, o) : c \in Content, m \in Mode, o \in Owner}
           \cup {Link(t) : t \in LinkTarget}

\* A host on which every entry is in a directory and no link leads nowhere.
Sound(fs) ==
  /\ \A p \in Path : fs[p] \in Plain(p)
  /\ Coherent(fs)
  /\ \A t \in LinkTarget : fs[t].kind # "absent"

Settled ==
  /\ LinkTarget \cap Allowed = {}
  /\ \A fs \in InitialFiles : Sound(fs)
  /\ \A p \in Path : HostStates[p] \subseteq Plain(p)
  /\ \A t \in LinkTarget : Absent \notin HostStates[t]

\* A row tells what was seen, but for the bytes it left out by design or
\* could not read.
Records(r) ==
  /\ r.seen \in Plain(r.path)
  /\ r.link # 0 => r.seen = Link(r.link)
  /\ r.link = 0 /\ RecordedAbsent(r) => r.seen = Absent
  /\ HasMetadata(r) =>
       /\ r.typ \in {"file", "dir"} /\ r.typ = r.seen.kind
       /\ r.mode = r.seen.mode /\ r.owner = r.seen.owner
       /\ r.content # NoContent => r.typ = "file" /\ r.content = r.seen.content
       /\ r.absence = "none" => r.content # NoContent
       /\ r.absence = "by_design" => r.content = NoContent

\* Rows of one moment: what was seen was seen in a directory.
Whole(rows) ==
  \A r, s \in rows :
    r.path = Parent[s.path] /\ r.seen.kind = "absent" => s.seen.kind = "absent"

\* A path written and not yet given its mode and owner.
Ready(fs, r) ==
  fs[r.path].kind # "absent" =>
    /\ fs[r.path].kind = r.typ
    /\ r.content # NoContent => fs[r.path].content = r.content

\* A call at its host, and the rollback that last began to write it.
Honest(call, fs, at) ==
  /\ call.pc # "idle" => call.outcome = "none"
  /\ \A r \in call.taken \cup call.plan : Records(r)
  /\ Whole(call.plan)
  /\ call.pc \in {"capture", "store", "snapshot", "persist"} =>
       \A r \in call.taken : r.seen = fs[r.path]
  /\ call.pc = "meta" =>
       \A r \in call.plan : Least(r.path, call.todo) => Ready(fs, r)
  /\ call.pc \in {"check", "entry", "meta"} /\ at # Untouched =>
       \A r \in call.plan :
         r.path \notin call.todo \cup call.bad => AsCaptured(fs, r)

CallsHonest == \A o \in Operator : Honest(op[o], Fs(o), last[op[o].host])

HostsSound == \A h \in Host : Sound(files[h])

StoredWhole ==
  \A c \in db : c.valid => Whole(c.rows) /\ \A r \in c.rows : Records(r)

HonestInv == CallsHonest /\ HostsSound /\ StoredWhole

\* What each kind of entry is.
LEMMA PlainKinds ==
  ASSUME NEW p \in Path, NEW e \in Plain(p)
  PROVE  /\ e \in Entry
         /\ e.kind = "absent" => e = Absent
         /\ e.kind = "link" => p \notin Dirs /\ e.target \in LinkTarget /\ e = Link(e.target)
         /\ e.kind # "link" => e.target = 0
         /\ e.kind = "file" => /\ p \notin Dirs /\ e = File(e.content, e.mode, e.owner)
                               /\ e.content \in Content /\ e.mode \in Mode /\ e.owner \in Owner
         /\ e.kind = "dir" => /\ p \in Dirs /\ e = Dir(e.mode, e.owner)
                              /\ e.mode \in Mode /\ e.owner \in Owner
<1>1. CASE e = Absent
  BY <1>1, MadeEntries DEF Absent
<1>2. CASE e # Absent /\ p \in Dirs
  <2>1. PICK m \in Mode, o \in Owner : e = Dir(m, o)
    BY <1>2 DEF Plain
  <2>2. QED
    BY <1>2, <2>1, MadeEntries DEF Dir
<1>3. CASE e # Absent /\ p \notin Dirs
  <2>1. \/ \E c \in Content, m \in Mode, o \in Owner : e = File(c, m, o)
        \/ \E t \in LinkTarget : e = Link(t)
    BY <1>3 DEF Plain
  <2>2. ASSUME NEW c \in Content, NEW m \in Mode, NEW o \in Owner, e = File(c, m, o)
        PROVE  /\ e \in Entry /\ e.kind = "file" /\ e.target = 0
               /\ e = File(e.content, e.mode, e.owner)
               /\ e.content \in Content /\ e.mode \in Mode /\ e.owner \in Owner
    BY <2>2, MadeEntries DEF File
  <2>3. ASSUME NEW t \in LinkTarget, e = Link(t)
        PROVE  e \in Entry /\ e.kind = "link" /\ e.target \in LinkTarget /\ e = Link(e.target)
    BY <2>3, MadeEntries DEF Link
  <2>4. QED
    BY <1>3, <2>1, <2>2, <2>3
<1>4. QED
  BY <1>1, <1>2, <1>3

\* The entries a restore makes are plain where it makes them.
LEMMA PlainMade ==
  ASSUME NEW p \in Path
  PROVE  /\ Absent \in Plain(p)
         /\ p \in Dirs => \A m \in Mode, o \in Owner : Dir(m, o) \in Plain(p)
         /\ p \notin Dirs => \A t \in LinkTarget : Link(t) \in Plain(p)
         /\ p \notin Dirs =>
              \A c \in Content, m \in Mode, o \in Owner : File(c, m, o) \in Plain(p)
BY DEF Plain

\* The directory of a path is one.
LEMMA ParentsAreDirs ==
  ASSUME NEW p \in Path
  PROVE  Parent[p] \in Dirs \cup {0} /\ Parent[p] # p /\ Parent[p] \in Path \cup {0}
<1>1. Parent[p] \in Path \cup {0} /\ p \in Nat /\ Parent[p] < p
  BY PathAssumption
<1>2. QED
  BY <1>1 DEF Dirs

\* A host stays sound when one entry changes that holds nothing, and stands
\* in a directory.
LEMMA SoundPut ==
  ASSUME NEW fs \in Files, Sound(fs), NEW p \in Path, NEW e \in Plain(p),
         fs[p].kind = "dir" => e.kind = "dir",
         e.kind # "absent" => DirThere(fs, Parent[p]),
         p \in LinkTarget => e.kind # "absent"
  PROVE  Sound([fs EXCEPT ![p] = e])
<1> DEFINE gs == [fs EXCEPT ![p] = e]
<1>1. \A q \in Path : gs[q] = IF q = p THEN e ELSE fs[q]
  BY DEF Files
<1> HIDE DEF gs
<1>2. \A q \in Path : gs[q] \in Plain(q)
  BY <1>1 DEF Sound
<1>3. \A t \in LinkTarget : gs[t].kind # "absent"
  BY <1>1, PathAssumption DEF Sound
<1>4. ASSUME NEW q \in Path, gs[q].kind # "absent"
      PROVE  DirThere(gs, Parent[q])
  <2>1. DirThere(fs, Parent[q])
    BY <1>1, <1>4 DEF Sound, Coherent
  <2>2. Parent[q] # q /\ Parent[q] \in Path \cup {0}
    BY ParentsAreDirs
  <2>3. CASE Parent[q] = p
    BY <1>1, <2>1, <2>2, <2>3 DEF DirThere
  <2>4. CASE Parent[q] # p
    BY <1>1, <2>1, <2>2, <2>4 DEF DirThere
  <2>5. QED
    BY <2>3, <2>4
<1>5. QED
  BY <1>2, <1>3, <1>4 DEF gs, Sound, Coherent

\* ensure_directory leaves a sound host sound, makes nothing but the
\* directories down to the one it ensures, and that one is there when it
\* succeeds.
LEMMA EnsureDirectoryEffect ==
  ASSUME NEW fs \in Files, Sound(fs), NEW d \in Dirs \cup {0}, NEW x \in EnsureDirectory(fs, d)
  PROVE  /\ x.files \in Files /\ Sound(x.files)
         /\ \A q \in Path : \/ x.files[q] = fs[q]
                            \/ /\ fs[q].kind = "absent" /\ d # 0 /\ q \in Lineage(d)
                               /\ x.files[q].kind = "dir"
         /\ x.ok => DirThere(x.files, d)
<1> DEFINE made == [p \in Path |-> IF p \in Lineage(d) /\ fs[p].kind = "absent"
                                   THEN Dir(CreatedMode, Root) ELSE fs[p]]
<1>1. CASE d = 0
  <2>1. x = Done(fs)
    BY <1>1, Zenon DEF EnsureDirectory
  <2>2. QED
    BY <1>1, <2>1 DEF Done, DirThere
<1>2. CASE d # 0
  <2>1. d \in Path /\ d \in Dirs
    BY <1>2 DEF Dirs
  <2>2. \/ x = Done(fs) /\ PathExists(fs, d)
        \/ x = Failed(fs)
        \/ x = Done(made) /\ \A a \in Lineage(d) : fs[a].kind \in {"absent", "dir"}
    BY <1>2, Zenon DEF EnsureDirectory, MakeDirectory, Outcomes
  <2>3. fs[d] \in Plain(d)
    BY <2>1 DEF Sound
  <2>4. CASE x = Done(fs) /\ PathExists(fs, d)
    <3>1. fs[d].kind # "link" /\ fs[d].kind # "file"
      BY <2>1, <2>3, PlainKinds
    <3>2. fs[d].kind = "dir"
      BY <2>1, <2>3, <2>4, <3>1 DEF PathExists, Final, Files, Entry, Kind
    <3>3. QED
      BY <1>2, <2>4, <3>2 DEF Done, DirThere
  <2>5. CASE x = Failed(fs)
    BY <2>5 DEF Failed
  <2>6. CASE x = Done(made) /\ \A a \in Lineage(d) : fs[a].kind \in {"absent", "dir"}
    <3>1. /\ Dir(CreatedMode, Root) \in Entry /\ Dir(CreatedMode, Root).kind = "dir"
          /\ CreatedMode \in Mode /\ Root \in Owner
      BY MadeEntries, ValueAssumption DEF Dir
    <3>2. made \in Files
      BY <3>1 DEF Files
    <3>3. \A q \in Path : made[q] = IF q \in Lineage(d) /\ fs[q].kind = "absent"
                                    THEN Dir(CreatedMode, Root) ELSE fs[q]
      OBVIOUS
    <3>4. x.files = made /\ x.ok
      BY <2>6 DEF Done
    <3> HIDE DEF made
    <3>5. Lineage(d) \subseteq Dirs /\ d \in Lineage(d) /\ Parent[d] \in Lineage(d) \cup {0}
      BY <1>2, <2>1, ParentsAreDirs DEF Lineage
    <3>6. \A q \in Lineage(d) : q \in Path /\ made[q].kind = "dir"
      BY <2>6, <3>1, <3>3, <3>5 DEF Dirs
    <3>7. \A q \in Path : made[q] \in Plain(q)
      BY <3>1, <3>3, <3>5, PlainMade DEF Sound
    <3>8. ASSUME NEW q \in Path, made[q].kind # "absent"
          PROVE  DirThere(made, Parent[q])
      <4>1. CASE q \in Lineage(d)
        <5>1. Parent[q] \in Lineage(d) \cup {0}
          BY <2>1, <3>5, <4>1, PathAssumption DEF Lineage
        <5>2. QED
          BY <3>6, <5>1 DEF DirThere
      <4>2. CASE q \notin Lineage(d)
        <5>1. DirThere(fs, Parent[q])
          BY <3>3, <3>8, <4>2 DEF Sound, Coherent
        <5>2. Parent[q] \in Path \cup {0}
          BY PathAssumption
        <5>3. QED
          BY <3>3, <5>1, <5>2 DEF DirThere
      <4>3. QED
        BY <4>1, <4>2
    <3>9. \A t \in LinkTarget : made[t].kind # "absent"
      BY <3>1, <3>3, PathAssumption DEF Sound
    <3>10. Sound(made)
      BY <3>7, <3>8, <3>9 DEF Sound, Coherent
    <3>11. DirThere(made, d)
      BY <3>5, <3>6 DEF DirThere
    <3>12. QED
      BY <1>2, <3>1, <3>2, <3>3, <3>4, <3>10, <3>11
  <2>7. QED
    BY <2>2, <2>4, <2>5, <2>6
<1>3. QED
  BY <1>1, <1>2

\* Where a write of an admitted row with metadata arrives is its own path.
LEMMA NoLinkThere ==
  ASSUME Settled, NEW fs \in Files, Sound(fs), NEW r \in Row, HasMetadata(r), Aim(fs, r)
  PROVE  r.path \in Path /\ fs[r.path].kind # "link" /\ Final(fs, r.path) = r.path
<1>1. r.path \in Path /\ fs[r.path] \in Plain(r.path)
  BY DEF Row, Sound
<1>2. fs[r.path].target \in LinkTarget => fs[r.path].target \notin Allowed \cup {0}
  BY PathAssumption DEF Settled
<1>3. fs[r.path].kind # "link"
  BY <1>1, <1>2, PlainKinds DEF Aim
<1>4. QED
  BY <1>1, <1>3 DEF Final

\* The rows a capture takes of a path record what stands there.
LEMMA RowRecords ==
  ASSUME TypeOK, NEW h \in Host, Sound(files[h]), NEW p \in Path
  PROVE  /\ MetaOf(h, p).kind = "absent" => Records(AbsentRow(h, p))
         /\ Records(MetadataRow(h, p))
         /\ files[h][p].kind = "link" => Records(LinkRow(h, p))
         /\ files[h][p].kind = "file" => Records(ContentRow(h, p)) /\ Records(UnreadRow(h, p))
         /\ \A r \in {AbsentRow(h, p), MetadataRow(h, p), LinkRow(h, p),
                      ContentRow(h, p), UnreadRow(h, p)} :
              r.path = p /\ r.seen = files[h][p]
<1> DEFINE e == files[h][p]
<1>1. e \in Plain(p) /\ e \in Entry
  BY PlainKinds DEF Sound
<1>2. e.kind # "link" => MetaOf(h, p) = e
  BY DEF MetaOf, Metadata, Final
<1>3. e.kind = "link" => MetaOf(h, p).kind # "absent"
  <2>1. e.kind = "link" => e.target \in LinkTarget
    BY <1>1, PlainKinds
  <2>2. QED
    BY <2>1 DEF MetaOf, Metadata, Final, Sound
<1>4. \A content, typ, link, absence :
        LET r == RowOf(h, p, content, typ, link, absence)
        IN  /\ r.path = p /\ r.seen = e /\ r.link = link /\ r.typ = typ
            /\ r.content = content /\ r.absence = absence
            /\ typ # "link" => r.mode = MetaOf(h, p).mode
            /\ r.owner = MetaOf(h, p).owner
  BY DEF RowOf
<1>5. MetaOf(h, p).kind = "absent" => Records(AbsentRow(h, p))
  <2>1. MetaOf(h, p).kind = "absent" => e = Absent
    BY <1>1, <1>2, <1>3, PlainKinds
  <2>2. QED
    BY <1>1, <1>4, <2>1 DEF AbsentRow, Records, RecordedAbsent, HasMetadata
<1>6. e.kind = "link" => Records(LinkRow(h, p))
  <2>1. e.kind = "link" => e = Link(e.target) /\ e.target # 0
    BY <1>1, PlainKinds, PathAssumption
  <2>2. QED
    BY <1>1, <1>4, <2>1 DEF LinkRow, LinkTargetOf, Records, RecordedAbsent, HasMetadata
<1>7. e.kind = "file" => Records(ContentRow(h, p)) /\ Records(UnreadRow(h, p))
  <2>1. e.kind = "file" => e.content \in Content
    BY <1>1, PlainKinds
  <2>2. QED
    BY <1>1, <1>2, <1>4, <2>1, ValueAssumption
    DEF ContentRow, UnreadRow, Records, RecordedAbsent, HasMetadata
<1>8. Records(MetadataRow(h, p))
  <2> DEFINE kind == MetaOf(h, p).kind
             typ == IF kind = "link" THEN "file" ELSE kind
  <2>1. CASE kind = "absent"
    BY <1>5, <2>1 DEF MetadataRow
  <2>2. CASE kind # "absent" /\ e.kind = "link"
    <3>1. MetadataRow(h, p) = RowOf(h, p, NoContent, typ, e.target, "by_design")
      BY <2>2, Zenon DEF MetadataRow, LinkTargetOf
    <3>2. e = Link(e.target) /\ e.target # 0
      BY <2>2, <1>1, PlainKinds, PathAssumption
    <3> HIDE DEF typ
    <3>3. QED
      BY <1>1, <1>4, <3>1, <3>2 DEF Records, RecordedAbsent, HasMetadata
  <2>3. CASE kind # "absent" /\ e.kind # "link"
    <3>1. MetadataRow(h, p) = RowOf(h, p, NoContent, typ, e.target, "by_design")
      BY <2>3, Zenon DEF MetadataRow, LinkTargetOf
    <3>2. e.target = 0 /\ MetaOf(h, p) = e /\ typ = e.kind /\ e.kind \in {"file", "dir"}
      BY <2>3, <1>1, <1>2, PlainKinds DEF Entry, Kind
    <3> HIDE DEF typ
    <3>3. QED
      BY <1>1, <1>4, <3>1, <3>2 DEF Records, RecordedAbsent, HasMetadata
  <2>4. QED
    BY <2>1, <2>2, <2>3
<1>9. ASSUME NEW r \in {AbsentRow(h, p), MetadataRow(h, p), LinkRow(h, p),
                        ContentRow(h, p), UnreadRow(h, p)}
      PROVE  r.path = p /\ r.seen = e
  <2>1. AbsentRow(h, p).path = p /\ AbsentRow(h, p).seen = e
    BY <1>4 DEF AbsentRow
  <2>2. \/ MetadataRow(h, p) = AbsentRow(h, p)
        \/ \E typ : MetadataRow(h, p) =
                     RowOf(h, p, NoContent, typ, LinkTargetOf(files[h], p), "by_design")
    BY Zenon DEF MetadataRow
  <2>3. MetadataRow(h, p).path = p /\ MetadataRow(h, p).seen = e
    BY <1>4, <2>1, <2>2
  <2>4. QED
    BY <1>4, <1>9, <2>1, <2>3 DEF LinkRow, ContentRow, UnreadRow
<1>10. QED
  BY <1>5, <1>6, <1>7, <1>8, <1>9

\* So do those of capture_file_state and of a metadata-only capture.
LEMMA RowsForRecords ==
  ASSUME TypeOK, NEW o \in Operator, Sound(Fs(o)), NEW p \in Path, NEW r \in RowsFor(o, p)
  PROVE  Records(r) /\ r.path = p /\ r.seen = Fs(o)[p]
<1> DEFINE h == op[o].host
<1>1. h \in Host /\ files[h] = Fs(o)
  BY DEF TypeOK, OpRec, Fs
<1>2. CASE ~op[o].full
  <2>1. r = MetadataRow(h, p)
    BY <1>2, Zenon DEF RowsFor
  <2>2. QED
    BY <1>1, <2>1, RowRecords
<1>3. CASE op[o].full
  <2>1. r \in CapturedRows(h, p, p \notin op[o].inside)
    BY <1>3, Zenon DEF RowsFor
  <2>2. \/ r = AbsentRow(h, p) /\ MetaOf(h, p).kind = "absent"
        \/ r = MetadataRow(h, p)
        \/ r = LinkRow(h, p) /\ files[h][p].kind = "link"
        \/ /\ r \in {ContentRow(h, p), UnreadRow(h, p)}
           /\ MetaOf(h, p).kind # "absent" /\ files[h][p].kind # "link"
           /\ MetaOf(h, p).kind # "dir"
    BY <2>1, Zenon DEF CapturedRows
  <2>3. MetaOf(h, p).kind # "absent" /\ files[h][p].kind # "link" /\ MetaOf(h, p).kind # "dir"
          => files[h][p].kind = "file"
    <3>1. files[h][p] \in Entry
      BY <1>1, PlainKinds DEF Sound
    <3>2. QED
      BY <3>1 DEF MetaOf, Metadata, Final, Entry, Kind
  <2>4. QED
    BY <1>1, <2>2, <2>3, RowRecords
<1>4. QED
  BY <1>2, <1>3

\* And those of a snapshot.
LEMMA SnapshotRecords ==
  ASSUME TypeOK, NEW o \in Operator, Sound(Fs(o)), NEW ref \in Row
  PROVE  LET r == SnapshotRow(op[o].host, ref)
         IN  Records(r) /\ r.path = ref.path /\ r.seen = Fs(o)[ref.path]
<1> DEFINE h == op[o].host
           p == ref.path
           r == SnapshotRow(h, ref)
<1>1. h \in Host /\ files[h] = Fs(o) /\ p \in Path
  BY DEF TypeOK, OpRec, Fs, Row
<1>2. \/ r = MetadataRow(h, p)
      \/ r = LinkRow(h, p) /\ files[h][p].kind = "link"
      \/ r = ContentRow(h, p) /\ files[h][p].kind # "link" /\ MetaOf(h, p).kind = "file"
  BY Zenon DEF SnapshotRow
<1>3. files[h][p].kind # "link" /\ MetaOf(h, p).kind = "file" => files[h][p].kind = "file"
  BY DEF MetaOf, Metadata, Final
<1> HIDE DEF r
<1>4. Records(r) /\ r.path = p /\ r.seen = files[h][p]
  BY <1>1, <1>2, <1>3, RowRecords
<1>5. QED
  BY <1>1, <1>4 DEF r

\* A write of a path that is no link leaves a file there, or nothing changed.
LEMMA WriteEffect ==
  ASSUME NEW fs \in Files, Sound(fs), NEW remote, NEW p \in Path \ Dirs,
         fs[p].kind # "link", NEW c \in Content, NEW x \in Write(fs, remote, p, c)
  PROVE  /\ Sound(x.files)
         /\ \A q \in Path : q # p => x.files[q] = fs[q]
         /\ x.files[p] = fs[p] \/ x.files[p].kind = "file"
         /\ x.ok => x.files[p].kind = "file" /\ x.files[p].content = c
<1> DEFINE put(d, m, o) == [fs EXCEPT ![p] = File(d, m, o)]
<1>1. Final(fs, p) = p /\ (IF remote THEN Final(fs, p) ELSE p) = p
  BY DEF Final
<1>2. fs[p] \in Plain(p)
  BY DEF Sound
<1>3. ASSUME NEW d \in Content
      PROVE  \E m \in Mode, o \in Owner : Written(fs, remote, p, d) = put(d, m, o)
  <2> DEFINE m == IF fs[p].kind = "absent" THEN CreatedMode ELSE fs[p].mode
             o == IF remote /\ fs[p].kind = "file" THEN fs[p].owner ELSE Root
  <2>1. fs[p].kind # "absent" => fs[p].kind = "file" /\ fs[p].mode \in Mode /\ fs[p].owner \in Owner
    BY <1>2, PlainKinds DEF Entry, Kind
  <2>2. m \in Mode /\ o \in Owner
    BY <2>1, ValueAssumption
  <2>3. Written(fs, remote, p, d) = put(d, m, o)
    BY <1>1 DEF Written
  <2> HIDE DEF m, o
  <2>4. QED
    BY <2>2, <2>3
<1>4. \E d \in Content, m \in Mode, o \in Owner : HalfWritten(fs, remote, p, c) = put(d, m, o)
  <2>1. CASE remote
    <3>1. Torn \in Content /\ HalfWritten(fs, remote, p, c) = Written(fs, remote, p, Torn)
      BY <2>1, ValueAssumption, Zenon DEF HalfWritten
    <3>2. QED
      BY <1>3, <3>1
  <2>2. CASE ~remote
    BY <2>2, ValueAssumption, Zenon DEF HalfWritten
  <2>3. QED
    BY <2>1, <2>2
<1>5. \/ x = Failed(fs)
      \/ CanWrite(fs, remote, p) /\ x = Done(Written(fs, remote, p, c))
      \/ CanWrite(fs, remote, p) /\ x = Failed(HalfWritten(fs, remote, p, c))
  BY Zenon DEF Write, Outcomes
<1>6. ASSUME CanWrite(fs, remote, p), NEW d \in Content, NEW m \in Mode, NEW o \in Owner
      PROVE  /\ Sound(put(d, m, o))
             /\ \A q \in Path : q # p => put(d, m, o)[q] = fs[q]
             /\ put(d, m, o)[p].kind = "file" /\ put(d, m, o)[p].content = d
  <2>1. File(d, m, o) \in Plain(p) /\ File(d, m, o).kind = "file" /\ File(d, m, o).content = d
    BY PlainMade DEF File
  <2>2. DirThere(fs, Parent[p]) /\ fs[p].kind # "dir"
    BY <1>1, <1>6 DEF CanWrite
  <2>3. QED
    BY <2>1, <2>2, SoundPut DEF Files
<1> HIDE DEF put
<1>7. CASE x = Failed(fs)
  BY <1>7 DEF Failed
<1>8. CASE CanWrite(fs, remote, p) /\ x = Done(Written(fs, remote, p, c))
  BY <1>3, <1>6, <1>8 DEF Done
<1>9. CASE CanWrite(fs, remote, p) /\ x = Failed(HalfWritten(fs, remote, p, c))
  BY <1>4, <1>6, <1>9 DEF Failed
<1>10. QED
  BY <1>5, <1>7, <1>8, <1>9

\* What is left alone when a row is written: every other path, but for the
\* directory it is in, when that is made.
Spared(fs, gs, r) ==
  \A q \in Path : q # r.path =>
    \/ gs[q] = fs[q]
    \/ q = Parent[r.path] /\ fs[q].kind = "absent" /\ r.seen.kind # "absent"

\* No directory is removed.
DirsStay(before, fs) ==
  \A p \in Path : before[p].kind = "dir" => fs[p].kind = "dir"

\* What the writes of a row leave of the entry at its path.
Left(before, fs, r) ==
  LET was == before[r.path]
      is == fs[r.path]
  IN  /\ HasMetadata(r) => (is.kind = "link" <=> was.kind = "link")
      /\ HasMetadata(r) /\ r.typ = "file" /\ r.content = NoContent =>
           is.kind = was.kind /\ is.content = was.content
      /\ r.link = 0 /\ RecordedAbsent(r) =>
           IF was.kind = "dir" \/ r.path \in Undeletable
           THEN is = was ELSE is.kind # "dir"

\* The symbolic link branch of a restore.
LEMMA RestoreLinkEffect ==
  ASSUME Settled, NEW fs \in Files, Sound(fs), NEW r \in Row, Records(r), r.link # 0,
         NEW x \in RestoreLink(fs, r)
  PROVE  Sound(x.files) /\ Spared(fs, x.files, r) /\ (x.ok => x.files[r.path] = r.seen)
<1> DEFINE p == r.path
<1>1. p \in Path /\ r.link \in LinkTarget /\ r.seen = Link(r.link) /\ r.seen \in Plain(p)
  BY DEF Row, Records
<1>2. r.seen.kind = "link" /\ p \notin Dirs
  <2>1. r.seen.kind = "link"
    BY <1>1 DEF Link
  <2>2. QED
    BY <1>1, <2>1, PlainKinds
<1>3. Parent[p] \in Dirs \cup {0} /\ Parent[p] # p /\ Parent[p] \in Path \cup {0}
  BY <1>1, ParentsAreDirs
<1>4. PICK y \in EnsureDirectory(fs, Parent[p]) :
        \/ x = y /\ ~y.ok
        \/ y.ok /\ x \in Symlink(y.files, p, r.link)
  BY Zenon DEF RestoreLink
<1>5. /\ y.files \in Files /\ Sound(y.files)
      /\ \A q \in Path : \/ y.files[q] = fs[q]
                         \/ /\ fs[q].kind = "absent" /\ Parent[p] # 0
                            /\ q \in Lineage(Parent[p])
  BY <1>3, EnsureDirectoryEffect
<1>6. Parent[p] # 0 => Lineage(Parent[p]) = {Parent[p]}
  BY <1>1, PathAssumption DEF Lineage
<1>7. Spared(fs, y.files, r)
  BY <1>2, <1>5, <1>6 DEF Spared
<1>8. CASE x = y /\ ~y.ok
  BY <1>5, <1>7, <1>8
<1>9. CASE x \in Symlink(y.files, p, r.link)
  <2> DEFINE put == [y.files EXCEPT ![p] = Link(r.link)]
  <2>1. y.files[p].kind # "dir"
    BY <1>1, <1>2, <1>5, PlainKinds DEF Sound
  <2>2. x = Failed(y.files) \/ (x = Done(put) /\ DirThere(y.files, Parent[p]))
    BY <1>9, <2>1, Zenon DEF Symlink, Outcomes
  <2>3. CASE x = Failed(y.files)
    BY <1>5, <1>7, <2>3 DEF Failed
  <2>4. CASE x = Done(put) /\ DirThere(y.files, Parent[p])
    <3>1. Sound(put)
      BY <1>1, <1>2, <1>5, <2>1, <2>4, SoundPut
    <3>2. put[p] = r.seen /\ \A q \in Path : q # p => put[q] = y.files[q]
      BY <1>1, <1>5 DEF Files
    <3> HIDE DEF put
    <3>3. x.files = put
      BY <2>4 DEF Done
    <3>4. QED
      BY <1>7, <3>1, <3>2, <3>3 DEF Spared
  <2>5. QED
    BY <2>2, <2>3, <2>4
<1>10. QED
  BY <1>4, <1>8, <1>9

\* The removal of what was recorded absent.
LEMMA RemoveEffect ==
  ASSUME Settled, NEW fs \in Files, Sound(fs), NEW r \in Row, Aim(fs, r),
         NEW x \in RemoveOrRefuse(fs, r.path)
  PROVE  Sound(x.files) /\ Spared(fs, x.files, r) /\ (x.ok => x.files[r.path] = Absent)
<1> DEFINE p == r.path
           gone == [fs EXCEPT ![p] = Absent]
<1>1. p \in Path /\ p \notin LinkTarget /\ fs[p] \in Plain(p)
  BY DEF Row, Aim, Settled, Sound
<1>2. \/ x = Failed(fs)
      \/ x = Done(gone) /\ fs[p].kind # "dir"
      \/ x = Done(fs) /\ ~PathExists(fs, p)
  BY Zenon DEF RemoveOrRefuse, Remove, Outcomes
<1>3. CASE x = Failed(fs)
  BY <1>3 DEF Failed, Spared
<1>4. CASE x = Done(gone) /\ fs[p].kind # "dir"
  <2>1. Absent \in Plain(p) /\ Absent.kind = "absent"
    BY <1>1, PlainMade DEF Absent
  <2>2. Sound(gone)
    BY <1>1, <1>4, <2>1, SoundPut
  <2>3. gone[p] = Absent /\ \A q \in Path : q # p => gone[q] = fs[q]
    BY <1>1 DEF Files
  <2> HIDE DEF gone
  <2>4. x.files = gone
    BY <1>4 DEF Done
  <2>5. QED
    BY <2>2, <2>3, <2>4 DEF Spared
<1>5. CASE x = Done(fs) /\ ~PathExists(fs, p)
  <2>1. fs[p].kind = "link" => fs[p].target \in LinkTarget /\ fs[fs[p].target].kind # "absent"
    BY <1>1, PlainKinds DEF Sound
  <2>2. fs[p].kind = "absent"
    BY <1>5, <2>1 DEF PathExists, Final
  <2>3. fs[p] = Absent
    BY <1>1, <2>2, PlainKinds
  <2>4. QED
    BY <1>5, <2>3 DEF Done, Spared
<1>6. QED
  BY <1>2, <1>3, <1>4, <1>5

\* A row with metadata, up to the chmod.
LEMMA ContentEffect ==
  ASSUME Settled, NEW fs \in Files, Sound(fs), NEW remote, NEW r \in Row, Records(r),
         HasMetadata(r), Aim(fs, r), NEW x \in RestoreEntry(fs, remote, r)
  PROVE  Sound(x.files) /\ Spared(fs, x.files, r) /\ (x.ok => Ready(x.files, r))
<1> DEFINE p == r.path
<1>1. p \in Path /\ fs[p].kind # "link" /\ fs[p] \in Plain(p)
  BY NoLinkThere DEF Sound
<1>2. /\ r.typ \in {"file", "dir"} /\ r.typ = r.seen.kind /\ r.seen \in Plain(p)
      /\ r.content # NoContent => r.typ = "file" /\ r.content \in Content
  BY DEF Records, Row
<1>3. (r.typ = "dir" <=> p \in Dirs) /\ r.seen.kind # "absent"
  BY <1>1, <1>2, PlainKinds
<1>4. \/ r.typ = "dir" /\ x \in EnsureDirectory(fs, p)
      \/ r.typ = "file" /\ r.content # NoContent /\ x \in Write(fs, remote, p, r.content)
      \/ r.typ = "file" /\ r.content = NoContent /\ x = Done(fs)
  BY <1>2, Zenon DEF RestoreEntry, HasMetadata
<1>5. CASE r.typ = "dir" /\ x \in EnsureDirectory(fs, p)
  <2>1. /\ Sound(x.files)
        /\ \A q \in Path : \/ x.files[q] = fs[q]
                           \/ fs[q].kind = "absent" /\ q \in Lineage(p)
        /\ x.ok => DirThere(x.files, p)
    BY <1>1, <1>3, <1>5, EnsureDirectoryEffect
  <2>2. p # 0
    BY <1>1, PathAssumption
  <2>3. QED
    BY <1>2, <1>3, <1>5, <2>1, <2>2 DEF Spared, Lineage, DirThere, Ready
<1>6. CASE r.typ = "file" /\ r.content # NoContent /\ x \in Write(fs, remote, p, r.content)
  <2>1. p \in Path \ Dirs /\ r.content \in Content
    BY <1>1, <1>2, <1>3, <1>6
  <2>2. QED
    BY <1>1, <1>6, <2>1, WriteEffect DEF Spared, Ready
<1>7. CASE r.typ = "file" /\ r.content = NoContent /\ x = Done(fs)
  <2>1. fs[p].kind \in {"absent", "file"}
    BY <1>1, <1>3, <1>7, PlainKinds DEF Entry, Kind
  <2>2. QED
    BY <1>7, <2>1 DEF Done, Spared, Ready
<1>8. QED
  BY <1>4, <1>5, <1>6, <1>7

\* A row as it is written: restored, when there is no more to do.
LEMMA EntryEffect ==
  ASSUME Settled, NEW fs \in Files, Sound(fs), NEW remote, NEW r \in Row, Records(r),
         Aim(fs, r), NEW x \in RestoreEntry(fs, remote, r)
  PROVE  /\ Sound(x.files) /\ Spared(fs, x.files, r)
         /\ x.ok => IF HasMetadata(r) THEN Ready(x.files, r) ELSE AsCaptured(x.files, r)
<1>1. CASE HasMetadata(r)
  BY <1>1, ContentEffect
<1>2. CASE r.link # 0
  <2>1. x \in RestoreLink(fs, r) /\ ~HasMetadata(r)
    BY <1>2, Zenon DEF RestoreEntry, HasMetadata
  <2>2. QED
    BY <1>2, <2>1, RestoreLinkEffect DEF AsCaptured
<1>3. CASE r.link = 0 /\ RecordedAbsent(r)
  <2>1. x \in RemoveOrRefuse(fs, r.path) /\ ~HasMetadata(r) /\ r.seen = Absent
    BY <1>3, Zenon DEF RestoreEntry, HasMetadata, Records
  <2>2. QED
    BY <2>1, RemoveEffect DEF AsCaptured
<1>4. QED
  BY <1>1, <1>2, <1>3 DEF HasMetadata

\* An entry that a chmod or chown changes is still the entry.
LEMMA PlainGiven ==
  ASSUME NEW p \in Path, NEW e \in Plain(p), e.kind \in {"file", "dir"},
         NEW m \in Mode, NEW o \in Owner
  PROVE  /\ [e EXCEPT !.mode = m] \in Plain(p)
         /\ [e EXCEPT !.owner = o] \in Plain(p)
<1>1. CASE e.kind = "file"
  <2>1. /\ p \notin Dirs /\ e = File(e.content, e.mode, e.owner)
        /\ e.content \in Content /\ e.mode \in Mode /\ e.owner \in Owner
    BY <1>1, PlainKinds
  <2>2. /\ [e EXCEPT !.mode = m] = File(e.content, m, e.owner)
        /\ [e EXCEPT !.owner = o] = File(e.content, e.mode, o)
    BY <2>1 DEF File
  <2>3. QED
    BY <2>1, <2>2, PlainMade
<1>2. CASE e.kind = "dir"
  <2>1. p \in Dirs /\ e = Dir(e.mode, e.owner) /\ e.mode \in Mode /\ e.owner \in Owner
    BY <1>2, PlainKinds
  <2>2. [e EXCEPT !.mode = m] = Dir(m, e.owner) /\ [e EXCEPT !.owner = o] = Dir(e.mode, o)
    BY <2>1 DEF Dir
  <2>3. QED
    BY <2>1, <2>2, PlainMade
<1>3. QED
  BY <1>1, <1>2

\* The chmod and chown of a row: restored, when both went through.
LEMMA MetadataEffect ==
  ASSUME Settled, NEW fs \in Files, Sound(fs), NEW r \in Row, Records(r), HasMetadata(r),
         Aim(fs, r), Ready(fs, r), NEW x \in RestoreMetadata(fs, r)
  PROVE  Sound(x.files) /\ Spared(fs, x.files, r) /\ (x.ok => AsCaptured(x.files, r))
<1> DEFINE p == r.path
           e == fs[p]
           moded == [fs EXCEPT ![p].mode = r.mode]
<1>1. p \in Path /\ e \in Plain(p) /\ Final(fs, p) = p /\ e.kind # "link"
  BY NoLinkThere DEF Sound
<1>2. /\ r.seen \in Plain(p) /\ r.typ = r.seen.kind /\ r.typ \in {"file", "dir"}
      /\ r.mode = r.seen.mode /\ r.owner = r.seen.owner
  BY DEF Records
<1>3. r.mode \in Mode /\ r.owner \in Owner
  BY <1>1, <1>2, PlainKinds
<1>4. PICK z \in Chmod(fs, p, r.mode) :
        \E y \in Chown(z.files, p, r.owner) :
          x = [files |-> y.files, ok |-> z.ok /\ y.ok /\ r.absence # "read_failed"]
  BY RestoreMetadataParts
<1>5. PICK y \in Chown(z.files, p, r.owner) :
        x = [files |-> y.files, ok |-> z.ok /\ y.ok /\ r.absence # "read_failed"]
  BY <1>4
<1>6. x.files = y.files /\ (x.ok => z.ok /\ y.ok /\ r.absence # "read_failed")
  BY <1>5
<1>7. ASSUME NEW gs \in Files, Sound(gs), gs[p].kind = r.typ, NEW f \in Plain(p), f.kind = r.typ
      PROVE  Sound([gs EXCEPT ![p] = f])
  <2>1. DirThere(gs, Parent[p])
    BY <1>1, <1>2, <1>7 DEF Sound, Coherent
  <2>2. QED
    BY <1>1, <1>2, <1>7, <2>1, SoundPut
<1>8. CASE e.kind = "absent"
  <2>1. z = Failed(fs)
    BY <1>1, <1>8, Zenon DEF Chmod, Outcomes, PathExists
  <2>2. z.files = fs /\ ~z.ok
    BY <2>1 DEF Failed
  <2>3. y = Failed(fs)
    BY <1>1, <1>8, <2>2, Zenon DEF Chown, Outcomes, PathExists
  <2>4. QED
    BY <1>6, <2>2, <2>3 DEF Failed, Spared
<1>9. CASE e.kind = r.typ
  <2> DEFINE f == [e EXCEPT !.mode = r.mode]
             owned(gs) == [gs EXCEPT ![p].owner = r.owner]
  <2>1. e \in Entry
    BY <1>1, PlainKinds
  <2>2. /\ f \in Plain(p) /\ f.kind = r.typ /\ f.mode = r.mode /\ f.owner = e.owner
        /\ f.content = e.content /\ f.target = e.target
    BY <1>1, <1>2, <1>3, <1>9, <2>1, PlainGiven DEF Entry
  <2>3. moded = [fs EXCEPT ![p] = f]
    BY <1>1 DEF Files
  <2>4. moded \in Files /\ Sound(moded) /\ moded[p] = f /\ \A q \in Path : q # p => moded[q] = fs[q]
    <3>1. f \in Entry
      BY <1>1, <2>2, PlainKinds
    <3>2. QED
      BY <1>1, <1>7, <1>9, <2>2, <2>3, <3>1 DEF Files
  <2>5. z = Failed(fs) \/ z = Done(moded)
    BY <1>1, Zenon DEF Chmod, Outcomes
  <2> HIDE DEF moded
  <2>6. /\ z.files \in Files /\ Sound(z.files) /\ z.files[p] \in {e, f}
        /\ \A q \in Path : q # p => z.files[q] = fs[q]
        /\ z.ok => z.files[p] = f
    BY <2>4, <2>5 DEF Done, Failed
  <2> DEFINE d == z.files[p]
             g == [d EXCEPT !.owner = r.owner]
             gs == [z.files EXCEPT ![p] = g]
  <2>7. /\ d \in Plain(p) /\ d \in Entry /\ d.kind = r.typ /\ d.content = e.content
        /\ d.target = e.target
    BY <1>1, <1>9, <2>1, <2>2, <2>6, PlainKinds
  <2>8. /\ g \in Plain(p) /\ g.kind = r.typ /\ g.mode = d.mode /\ g.owner = r.owner
        /\ g.content = e.content /\ g.target = e.target
    BY <1>1, <1>2, <1>3, <2>7, PlainGiven DEF Entry
  <2>9. Final(z.files, p) = p
    BY <1>2, <2>7 DEF Final
  <2>10. owned(z.files) = gs
    BY <1>1, <2>6 DEF Files
  <2>11. y = Failed(z.files) \/ y = Done(gs)
    BY <2>9, <2>10, Zenon DEF Chown, Outcomes
  <2>12. Sound(gs) /\ gs[p] = g /\ \A q \in Path : q # p => gs[q] = z.files[q]
    BY <1>1, <1>7, <2>6, <2>7, <2>8 DEF Files
  <2> HIDE DEF gs, g, d
  <2>13. Sound(y.files) /\ \A q \in Path : q # p => y.files[q] = fs[q]
    BY <2>6, <2>11, <2>12 DEF Done, Failed
  <2>14. ASSUME x.ok
         PROVE  AsCaptured(x.files, r)
    <3>1. y.files[p] = g /\ z.ok /\ d = f /\ r.absence # "read_failed"
      BY <1>6, <2>6, <2>11, <2>12, <2>14 DEF Done, Failed, d
    <3>2. g.kind = r.seen.kind /\ g.mode = r.seen.mode /\ g.owner = r.seen.owner
          /\ g.content = e.content /\ g \in Plain(p)
      BY <1>2, <2>2, <2>8, <3>1
    <3>3. CASE r.typ = "dir"
      <4>1. g = r.seen
        BY <1>1, <1>2, <3>2, <3>3, PlainKinds
      <4>2. QED
        BY <1>6, <3>1, <4>1 DEF AsCaptured
    <3>4. CASE r.typ = "file"
      <4>1. g = File(e.content, r.mode, r.owner) /\ r.seen = File(r.seen.content, r.mode, r.owner)
        <5>1. g.kind = "file" /\ r.seen.kind = "file"
          BY <1>2, <3>2, <3>4
        <5>2. g = File(g.content, g.mode, g.owner)
          BY <1>1, <3>2, <5>1, PlainKinds
        <5>3. r.seen = File(r.seen.content, r.seen.mode, r.seen.owner)
          BY <1>1, <1>2, <5>1, PlainKinds
        <5>4. QED
          BY <1>2, <3>2, <5>2, <5>3
      <4>2. CASE r.absence = "by_design"
        <5>1. [g EXCEPT !.content = NoContent] = [r.seen EXCEPT !.content = NoContent]
          BY <4>1 DEF File
        <5>2. QED
          BY <1>6, <3>1, <4>2, <5>1 DEF AsCaptured
      <4>3. CASE r.absence # "by_design"
        <5>1. r.absence = "none"
          BY <3>1, <4>3 DEF Row, Absence
        <5>2. r.content # NoContent /\ r.content = r.seen.content
          BY <5>1 DEF Records
        <5>3. e.content = r.content
          BY <1>2, <1>9, <5>2 DEF Ready
        <5>4. QED
          BY <1>6, <3>1, <4>1, <4>3, <5>2, <5>3 DEF AsCaptured
      <4>4. QED
        BY <4>2, <4>3
    <3>5. QED
      BY <1>2, <3>3, <3>4
  <2>15. QED
    BY <1>6, <2>13, <2>14 DEF Spared
<1>10. QED
  BY <1>8, <1>9 DEF Ready

\* What a row is restored as lasts while the rows after it are written: they
\* make no directory where it recorded that there was none.
LEMMA SparedKeeps ==
  ASSUME NEW fs \in Files, NEW gs, NEW rows \in SUBSET Row, Whole(rows),
         NEW r \in rows, Spared(fs, gs, r), NEW s \in rows, s.path # r.path, AsCaptured(fs, s)
  PROVE  AsCaptured(gs, s)
<1>1. s.path \in Path /\ fs[s.path] \in Entry /\ s.seen \in Entry
  BY DEF Files, Row
<1>2. s.seen.kind = fs[s.path].kind
  <2>1. CASE s.absence = "by_design"
    <3>1. [fs[s.path] EXCEPT !.content = NoContent] = [s.seen EXCEPT !.content = NoContent]
      BY <2>1 DEF AsCaptured
    <3>2. /\ [fs[s.path] EXCEPT !.content = NoContent].kind = fs[s.path].kind
          /\ [s.seen EXCEPT !.content = NoContent].kind = s.seen.kind
      BY <1>1 DEF Entry
    <3>3. QED
      BY <3>1, <3>2
  <2>2. CASE s.absence # "by_design"
    BY <2>2 DEF AsCaptured
  <2>3. QED
    BY <2>1, <2>2
<1>3. gs[s.path] = fs[s.path]
  BY <1>1, <1>2 DEF Spared, Whole
<1>4. QED
  BY <1>3 DEF AsCaptured

\* A call that has ended, and one that begins, reports nothing.
LEMMA IdleHonest ==
  ASSUME NEW h, NEW outcome, NEW fs, NEW at
  PROVE  Honest(IdleOn(h, outcome), fs, at)
BY DEF Honest, IdleOn, Whole

\* The row at hand is over: restored, or reported as not.
LEMMA RowDoneHonest ==
  ASSUME TypeOK, NEW o \in Operator, Honest(op[o], Fs(o), last[op[o].host]),
         op[o].pc \in {"check", "entry", "meta"}, NEW r \in op[o].plan,
         Least(r.path, op[o].todo), Unique(op[o].plan), NEW ok \in BOOLEAN,
         RowDone(o, r.path, ok, "check"), UNCHANGED last,
         Spared(Fs(o), files'[op[o].host], r),
         ok => AsCaptured(files'[op[o].host], r)
  PROVE  Honest(op'[o], files'[op'[o].host], last'[op'[o].host])
<1> DEFINE bad == IF ok THEN op[o].bad ELSE op[o].bad \cup {r.path}
           call == [op[o] EXCEPT !.pc = "check", !.todo = @ \ {r.path}, !.bad = bad]
<1>1. op[o] \in OpRec /\ Fs(o) \in Files /\ op[o].plan \in SUBSET Row
  BY DEF TypeOK, OpRec, Fs
<1>2. op'[o] = call
  BY DEF RowDone, Becomes, TypeOK
<1>3. /\ bad \subseteq op[o].bad \cup {r.path} /\ op[o].bad \subseteq bad
      /\ ~ok => r.path \in bad
  OBVIOUS
<1> HIDE DEF bad
<1>4. /\ call.pc = "check" /\ call.todo = op[o].todo \ {r.path} /\ call.bad = bad
      /\ call.host = op[o].host /\ call.plan = op[o].plan /\ call.taken = op[o].taken
      /\ call.outcome = op[o].outcome
  BY <1>1 DEF OpRec
<1> HIDE DEF call
<1>5. ASSUME last[op[o].host] # Untouched, NEW s \in op[o].plan,
             s.path \notin (op[o].todo \ {r.path}) \cup bad
      PROVE  AsCaptured(files'[op[o].host], s)
  <2>1. CASE s = r
    BY <1>3, <1>5, <2>1
  <2>2. CASE s # r
    <3>1. s.path # r.path
      BY <2>2 DEF Unique
    <3>2. AsCaptured(Fs(o), s)
      BY <1>3, <1>5, <3>1 DEF Honest
    <3>3. QED
      BY <1>1, <3>1, <3>2, SparedKeeps DEF Honest
  <2>3. QED
    BY <2>1, <2>2
<1>6. QED
  BY <1>2, <1>4, <1>5 DEF Honest

\* The row at hand goes on to its write, or to its chmod.
LEMMA GotoHonest ==
  ASSUME TypeOK, NEW o \in Operator, Honest(op[o], Fs(o), last[op[o].host]),
         op[o].pc \in {"check", "entry"}, NEW r \in op[o].plan,
         Least(r.path, op[o].todo), Unique(op[o].plan), NEW pc \in {"entry", "meta"},
         Goto(o, pc), UNCHANGED last, Spared(Fs(o), files'[op[o].host], r),
         pc = "meta" => Ready(files'[op[o].host], r)
  PROVE  Honest(op'[o], files'[op'[o].host], last'[op'[o].host])
<1> DEFINE call == [op[o] EXCEPT !.pc = pc]
<1>1. /\ op[o] \in OpRec /\ Fs(o) \in Files /\ op[o].plan \in SUBSET Row
      /\ op[o].todo \in SUBSET Path
  BY DEF TypeOK, OpRec, Fs
<1>2. op'[o] = call
  BY DEF Goto, Becomes, TypeOK
<1>3. /\ call.pc = pc /\ call.todo = op[o].todo /\ call.bad = op[o].bad
      /\ call.host = op[o].host /\ call.plan = op[o].plan /\ call.taken = op[o].taken
      /\ call.outcome = op[o].outcome
  BY <1>1 DEF OpRec
<1> HIDE DEF call
<1>4. ASSUME last[op[o].host] # Untouched, NEW s \in op[o].plan,
             s.path \notin op[o].todo \cup op[o].bad
      PROVE  AsCaptured(files'[op[o].host], s)
  <2>1. s.path # r.path
    BY <1>4 DEF Least
  <2>2. AsCaptured(Fs(o), s)
    BY <1>4 DEF Honest
  <2>3. QED
    BY <1>1, <2>1, <2>2, SparedKeeps DEF Honest
<1>5. ASSUME NEW s \in op[o].plan, Least(s.path, op[o].todo)
      PROVE  s = r
  BY <1>1, <1>5, LeastIsOne DEF Unique
<1>6. QED
  BY <1>2, <1>3, <1>4, <1>5 DEF Honest

\* A call still gathering rows, or choosing among those it loaded.
LEMMA BecomesHonest ==
  ASSUME TypeOK, NEW o \in Operator, NEW call, Becomes(o, call), call.host = op[o].host,
         UNCHANGED files, call.pc \notin {"check", "entry", "meta"}, call.outcome = "none",
         \A r \in call.taken : Records(r) /\ r.seen = Fs(o)[r.path],
         \A r \in call.plan : Records(r), Whole(call.plan)
  PROVE  Honest(op'[o], files'[op'[o].host], last'[op'[o].host])
<1>1. op'[o] = call /\ files'[call.host] = Fs(o)
  BY DEF Becomes, TypeOK, Fs
<1>2. QED
  BY <1>1 DEF Honest

\* One step of a call keeps its report honest.
LEMMA CallHonest ==
  ASSUME Settled, Enclosed, TypeOK, OrderInv, TargetInv, HonestInv, NEW o \in Operator,
         \/ BeginCreate(o) \/ BeginRollback(o) \/ CallStep(o)
         \/ Fails(o) \/ Crash(o)
  PROVE  Honest(op'[o], files'[op'[o].host], last'[op'[o].host])
<1> DEFINE Goal == Honest(op'[o], files'[op'[o].host], last'[op'[o].host])
           h == op[o].host
<1>1. /\ op[o] \in OpRec /\ h \in Host /\ Fs(o) \in Files /\ Sound(Fs(o))
      /\ Honest(op[o], Fs(o), last[h]) /\ Unique(op[o].plan)
      /\ op[o].plan \in SUBSET Row /\ op[o].todo \in SUBSET Path
  BY DEF TypeOK, OpRec, Fs, HonestInv, HostsSound, CallsHonest, OrderInv, InOrder
<1>2. /\ op[o].pc # "idle" => op[o].outcome = "none"
      /\ \A r \in op[o].taken \cup op[o].plan : Records(r)
      /\ Whole(op[o].plan)
      /\ op[o].pc \in {"capture", "store", "snapshot", "persist"} =>
           \A r \in op[o].taken : r.seen = Fs(o)[r.path]
      /\ op[o].pc \in {"load", "sort"} => op[o].taken = {}
  BY <1>1 DEF Honest, OrderInv, InOrder
<1>3. ASSUME NEW outcome, End(o, outcome) PROVE Goal
  <2>1. op'[o] = IdleOn(h, outcome)
    BY <1>3 DEF End, Becomes, TypeOK
  <2>2. QED
    BY <2>1, IdleHonest
<1>4. CASE BeginCreate(o)
  <2>1. PICK g \in Host, plan \in Plans :
          Becomes(o, [IdleOn(g, "none") EXCEPT
                   !.pc = "capture", !.full = plan.full, !.todo = plan.paths])
    BY <1>4 DEF BeginCreate
  <2>2. op'[o].pc = "capture" /\ op'[o].taken = {} /\ op'[o].plan = {} /\ op'[o].outcome = "none"
    BY <2>1 DEF Becomes, TypeOK, IdleOn
  <2>3. QED
    BY <2>2 DEF Honest, Whole
<1>5. CASE BeginRollback(o)
  <2>1. PICK g \in Host, c \in db :
          Becomes(o, [IdleOn(g, "none") EXCEPT !.pc = "load", !.id = c.id])
    BY <1>5 DEF BeginRollback
  <2>2. op'[o].pc = "load" /\ op'[o].taken = {} /\ op'[o].plan = {} /\ op'[o].outcome = "none"
    BY <2>1 DEF Becomes, TypeOK, IdleOn
  <2>3. QED
    BY <2>2 DEF Honest, Whole
<1>6. CASE CapturePath(o)
  <2>1. PICK p, row, more :
          /\ p \in op[o].todo /\ row \in RowsFor(o, p)
          /\ Becomes(o, [op[o] EXCEPT !.todo = (@ \ {p}) \cup more, !.inside = @ \cup more,
                                      !.taken = @ \cup {row}])
    BY <1>6, Zenon DEF CapturePath
  <2> DEFINE call == [op[o] EXCEPT !.todo = (@ \ {p}) \cup more, !.inside = @ \cup more,
                                   !.taken = @ \cup {row}]
  <2>2. /\ call.pc = "capture" /\ call.taken = op[o].taken \cup {row}
        /\ call.host = h /\ call.plan = op[o].plan /\ call.outcome = op[o].outcome
        /\ op[o].pc = "capture" /\ UNCHANGED files
    BY <1>1, <1>6 DEF OpRec, CapturePath
  <2>3. Records(row) /\ row.path = p /\ row.seen = Fs(o)[p]
    <3>1. p \in Path
      BY <1>1, <2>1
    <3>2. QED
      BY <1>1, <2>1, <3>1, RowsForRecords
  <2>4. Becomes(o, call)
    BY <2>1
  <2> HIDE DEF call
  <2>5. QED
    BY <1>2, <2>2, <2>3, <2>4, BecomesHonest
<1>7. ASSUME NEW pc \in {"store", "persist"}, Goto(o, pc), UNCHANGED files,
             op[o].pc \in {"capture", "snapshot"}
      PROVE  Goal
  <2> DEFINE call == [op[o] EXCEPT !.pc = pc]
  <2>1. /\ call.pc = pc /\ call.taken = op[o].taken /\ call.host = h
        /\ call.plan = op[o].plan /\ call.outcome = op[o].outcome /\ Becomes(o, call)
    BY <1>1, <1>7 DEF OpRec, Goto
  <2> HIDE DEF call
  <2>2. QED
    BY <1>2, <1>7, <2>1, BecomesHonest
<1>8. CASE CaptureDone(o) \/ SnapshotDone(o)
  BY <1>7, <1>8 DEF CaptureDone, SnapshotDone
<1>9. CASE Load(o)
  <2>1. CASE End(o, "error")
    BY <2>1, <1>3
  <2>2. CASE ~End(o, "error")
    <3>1. PICK c \in Loadable(o) :
            Becomes(o, [op[o] EXCEPT !.pc = "sort", !.todo = RowsPaths(c.rows),
                                     !.plan = c.rows])
      BY <1>9, <2>2, Zenon DEF Load
    <3> DEFINE call == [op[o] EXCEPT !.pc = "sort", !.todo = RowsPaths(c.rows),
                                     !.plan = c.rows]
    <3>2. /\ call.pc = "sort" /\ call.taken = op[o].taken /\ call.host = h
          /\ call.plan = c.rows /\ call.outcome = op[o].outcome
          /\ op[o].pc = "load" /\ UNCHANGED files
      BY <1>1, <1>9 DEF OpRec, Load
    <3>3. Whole(c.rows) /\ \A r \in c.rows : Records(r)
      BY <3>1 DEF Loadable, HonestInv, StoredWhole
    <3>4. Becomes(o, call)
      BY <3>1
    <3> HIDE DEF call
    <3>5. QED
      BY <1>2, <3>2, <3>3, <3>4, BecomesHonest
  <2>3. QED
    BY <2>1, <2>2
<1>10. CASE SortRow(o)
  <2>1. PICK r, refused :
          Becomes(o, [op[o] EXCEPT !.todo = @ \ {r.path},
                                   !.plan = IF refused THEN @ \ {r} ELSE @,
                                   !.bad = IF refused THEN @ \cup {r.path} ELSE @])
    BY <1>10, Zenon DEF SortRow
  <2> DEFINE plan == IF refused THEN op[o].plan \ {r} ELSE op[o].plan
             bad == IF refused THEN op[o].bad \cup {r.path} ELSE op[o].bad
             call == [op[o] EXCEPT !.todo = @ \ {r.path}, !.plan = plan, !.bad = bad]
  <2>2. Becomes(o, call) /\ plan \subseteq op[o].plan
    BY <2>1
  <2> HIDE DEF plan, bad
  <2>3. /\ call.pc = "sort" /\ call.taken = op[o].taken /\ call.host = h
        /\ call.plan = plan /\ call.outcome = op[o].outcome
        /\ op[o].pc = "sort" /\ UNCHANGED files
    BY <1>1, <1>10 DEF OpRec, SortRow
  <2> HIDE DEF call
  <2>4. Whole(plan)
    BY <1>2, <2>2 DEF Whole
  <2>5. QED
    BY <1>2, <2>2, <2>3, <2>4, BecomesHonest
<1>11. CASE SortDone(o)
  <2>1. CASE End(o, "error")
    BY <2>1, <1>3
  <2>2. CASE ~End(o, "error")
    <3> DEFINE call == [op[o] EXCEPT !.pc = "snapshot", !.todo = RowsPaths(op[o].plan)]
    <3>1. Becomes(o, call)
      BY <1>11, <2>2 DEF SortDone
    <3>2. /\ call.pc = "snapshot" /\ call.taken = op[o].taken /\ call.host = h
          /\ call.plan = op[o].plan /\ call.outcome = op[o].outcome
          /\ op[o].pc = "sort" /\ UNCHANGED files
      BY <1>1, <1>11 DEF OpRec, SortDone
    <3> HIDE DEF call
    <3>3. QED
      BY <1>2, <3>1, <3>2, BecomesHonest
  <2>3. QED
    BY <2>1, <2>2
<1>12. CASE SnapshotPath(o)
  <2>1. PICK r \in op[o].plan :
          Becomes(o, [op[o] EXCEPT !.todo = @ \ {r.path},
                                   !.taken = @ \cup {SnapshotRow(h, r)}])
    BY <1>12, Zenon DEF SnapshotPath
  <2> DEFINE row == SnapshotRow(h, r)
             call == [op[o] EXCEPT !.todo = @ \ {r.path}, !.taken = @ \cup {row}]
  <2>2. Records(row) /\ row.path = r.path /\ row.seen = Fs(o)[r.path]
    <3>1. r \in Row
      BY <1>1
    <3>2. QED
      BY <1>1, <3>1, SnapshotRecords
  <2>3. Becomes(o, call)
    BY <2>1
  <2> HIDE DEF row
  <2>4. /\ call.pc = "snapshot" /\ call.taken = op[o].taken \cup {row} /\ call.host = h
        /\ call.plan = op[o].plan /\ call.outcome = op[o].outcome
        /\ op[o].pc = "snapshot" /\ UNCHANGED files
    BY <1>1, <1>12 DEF OpRec, SnapshotPath
  <2> HIDE DEF call
  <2>5. QED
    BY <1>2, <2>2, <2>3, <2>4, BecomesHonest
<1>13. CASE Persist(o)
  <2> DEFINE call == [op[o] EXCEPT !.pc = "check", !.undo = issued + 1,
                                   !.todo = RowsPaths(op[o].plan)]
  <2>1. op'[o] = call
    BY <1>13 DEF Persist, Becomes, TypeOK
  <2>2. /\ call.pc = "check" /\ call.taken = op[o].taken /\ call.todo = RowsPaths(op[o].plan)
        /\ call.plan = op[o].plan /\ call.outcome = op[o].outcome /\ op[o].pc = "persist"
    BY <1>1, <1>13 DEF OpRec, Persist
  <2> HIDE DEF call
  <2>3. QED
    BY <1>2, <2>1, <2>2 DEF Honest, RowsPaths
<1>14. CASE CheckRow(o)
  <2>1. PICK r \in op[o].plan :
          /\ Least(r.path, op[o].todo)
          /\ RowDone(o, r.path, FALSE, "check") \/ Goto(o, "entry")
    BY <1>14, Zenon DEF CheckRow
  <2>2. /\ op[o].pc = "check" /\ UNCHANGED last /\ files'[h] = Fs(o)
        /\ Spared(Fs(o), files'[h], r)
    BY <1>14 DEF CheckRow, Fs, Spared
  <2>3. QED
    BY <1>1, <2>1, <2>2, RowDoneHonest, GotoHonest
<1>15. CASE WriteEntry(o)
  <2>1. PICK r \in op[o].plan :
          /\ Least(r.path, op[o].todo)
          /\ \E x \in RestoreEntry(Fs(o), Far(o), r) :
               /\ files' = [files EXCEPT ![h] = x.files]
               /\ IF x.ok /\ HasMetadata(r)
                  THEN Goto(o, "meta") ELSE RowDone(o, r.path, x.ok, "check")
    BY <1>15, Zenon DEF WriteEntry
  <2>2. PICK x \in RestoreEntry(Fs(o), Far(o), r) :
          /\ files' = [files EXCEPT ![h] = x.files]
          /\ IF x.ok /\ HasMetadata(r)
             THEN Goto(o, "meta") ELSE RowDone(o, r.path, x.ok, "check")
    BY <2>1
  <2>3. op[o].pc = "entry" /\ UNCHANGED last /\ r \in Row /\ files'[h] = x.files
    BY <1>1, <1>15, <2>2 DEF WriteEntry, TypeOK
  <2>4. Aim(Fs(o), r) /\ Records(r)
    BY <1>2, <2>1, <2>3 DEF TargetInv, OnTarget
  <2>5. /\ Spared(Fs(o), x.files, r)
        /\ x.ok => IF HasMetadata(r) THEN Ready(x.files, r) ELSE AsCaptured(x.files, r)
    BY <1>1, <2>3, <2>4, EntryEffect
  <2>6. x.ok \in BOOLEAN
    BY <1>1, <2>3, RestoreEntryType DEF Outcome
  <2>7. CASE x.ok /\ HasMetadata(r)
    BY <1>1, <2>1, <2>2, <2>3, <2>5, <2>7, GotoHonest
  <2>8. CASE ~(x.ok /\ HasMetadata(r))
    <3>1. RowDone(o, r.path, x.ok, "check") /\ (x.ok => AsCaptured(x.files, r))
      BY <2>2, <2>5, <2>8
    <3>2. QED
      BY <1>1, <2>1, <2>3, <2>5, <2>6, <3>1, RowDoneHonest
  <2>9. QED
    BY <2>7, <2>8
<1>16. CASE WriteMetadata(o)
  <2>1. PICK r \in op[o].plan :
          /\ Least(r.path, op[o].todo)
          /\ \E x \in RestoreMetadata(Fs(o), r) :
               /\ files' = [files EXCEPT ![h] = x.files]
               /\ RowDone(o, r.path, x.ok, "check")
    BY <1>16, Zenon DEF WriteMetadata
  <2>2. PICK x \in RestoreMetadata(Fs(o), r) :
          files' = [files EXCEPT ![h] = x.files] /\ RowDone(o, r.path, x.ok, "check")
    BY <2>1
  <2>3. op[o].pc = "meta" /\ UNCHANGED last /\ r \in Row /\ files'[h] = x.files
    BY <1>1, <1>16, <2>2 DEF WriteMetadata, TypeOK
  <2>4. Aim(Fs(o), r) /\ HasMetadata(r) /\ Records(r) /\ Ready(Fs(o), r)
    BY <1>1, <1>2, <2>1, <2>3 DEF TargetInv, OnTarget, Honest
  <2>5. Spared(Fs(o), x.files, r) /\ (x.ok => AsCaptured(x.files, r))
    BY <1>1, <2>3, <2>4, MetadataEffect
  <2>6. x.ok \in BOOLEAN
    BY <1>1, <2>3, RestoreMetadataType DEF Outcome
  <2>7. QED
    BY <1>1, <2>1, <2>2, <2>3, <2>5, <2>6, RowDoneHonest
<1>17. CASE Store(o) \/ DatabaseFull(o) \/ Fails(o) \/ Crash(o) \/ Finish(o)
  BY <1>3, <1>17 DEF Store, DatabaseFull, Fails, Crash, Finish
<1>18. QED
  BY <1>4, <1>5, <1>6, <1>8, <1>9, <1>10, <1>11, <1>12, <1>13, <1>14, <1>15, <1>16, <1>17
     DEF CallStep

\* Where a call reads, writes and reports, only it changes its host.
Unraced ==
  RacePC \cap {"capture", "store", "snapshot", "persist", "entry", "meta"} = {}

\* What the other calls and the rest of the host do leaves a report honest:
\* of a host that something else has touched, nothing is claimed.
LEMMA OthersHonest ==
  ASSUME Unraced, TypeOK, Apart, CallsHonest, Next, NEW q \in Operator, op'[q] = op[q],
         ~(\/ BeginCreate(q) \/ BeginRollback(q) \/ CallStep(q) \/ Fails(q) \/ Crash(q))
  PROVE  Honest(op'[q], files'[op'[q].host], last'[op'[q].host])
<1> DEFINE h == op[q].host
<1>1. h \in Host /\ Honest(op[q], files[h], last[h])
  BY DEF TypeOK, OpRec, CallsHonest, Fs
<1>2. CASE op[q].pc = "idle"
  BY <1>1, <1>2 DEF Honest
<1>3. CASE files'[h] = files[h] /\ last'[h] = last[h]
  BY <1>1, <1>3
<1>4. ASSUME op[q].pc # "idle", NEW o \in Operator,
             \/ BeginCreate(o) \/ BeginRollback(o) \/ Delete(o) \/ CallStep(o)
             \/ Fails(o) \/ Crash(o)
      PROVE  files'[h] = files[h] /\ last'[h] = last[h]
  <2>1. \/ UNCHANGED last
        \/ op[o].pc = "persist" /\ \E v : last' = [last EXCEPT ![op[o].host] = v]
    BY <1>4, Zenon DEF CallStep, BeginCreate, CapturePath, CaptureDone, Store,
      BeginRollback, Load, SortRow, SortDone, SnapshotPath, SnapshotDone, Persist,
      Fails, DatabaseFull, CheckRow, WriteEntry, WriteMetadata, Finish, Delete,
      Crash
  <2>2. /\ \A g \in Host : g # op[o].host => files'[g] = files[g]
        /\ UNCHANGED files \/ op[o].pc \in {"entry", "meta"}
    BY <1>4, WritesItsOwnHost
  <2>3. CASE o = q
    BY <1>4, <2>3 DEF Delete
  <2>4. CASE o # q
    <3>1. op[o].pc # "idle" => op[o].host # h
      BY <1>4, <2>4 DEF Apart
    <3>2. files'[h] = files[h]
      BY <1>1, <2>2, <3>1
    <3>3. last'[h] = last[h]
      BY <1>1, <2>1, <3>1 DEF TypeOK
    <3>4. QED
      BY <3>2, <3>3
  <2>5. QED
    BY <2>3, <2>4
<1>5. CASE HostChanges
  <2>1. PICK g \in Host, p \in Path :
          /\ \A o \in Operator : op[o].host = g => op[o].pc \in RacePC \cup {"idle"}
          /\ \E e \in HostStates[p] : files' = [files EXCEPT ![g][p] = e]
          /\ last' = [last EXCEPT ![g] = Untouched]
    BY <1>5, Zenon DEF HostChanges
  <2>2. CASE g # h
    <3>1. files'[h] = files[h] /\ last'[h] = last[h]
      BY <1>1, <2>1, <2>2 DEF TypeOK
    <3>2. QED
      BY <3>1, <1>3
  <2>3. CASE g = h
    <3>1. last'[h] = Untouched /\ op[q].pc \in RacePC \cup {"idle"}
      BY <2>1, <2>3 DEF TypeOK
    <3>2. QED
      BY <1>1, <1>2, <3>1 DEF Unraced, Honest
  <2>4. QED
    BY <2>2, <2>3
<1>6. CASE Tamper
  BY <1>3, <1>6 DEF Tamper
<1>7. QED
  BY <1>2, <1>3, <1>4, <1>5, <1>6, Zenon DEF Next

\* Whatever happens to a host leaves it sound.
LEMMA HostsStaySound ==
  ASSUME Settled, TypeOK, TargetInv, HonestInv, Next
  PROVE  HostsSound'
<1>1. \A h \in Host : Sound(files[h]) /\ files[h] \in Files
  BY DEF HonestInv, HostsSound, TypeOK
<1>2. ASSUME NEW o \in Operator, NEW fs, Sound(fs),
             files' = [files EXCEPT ![op[o].host] = fs]
      PROVE  HostsSound'
  BY <1>1, <1>2 DEF HostsSound, TypeOK
<1>3. ASSUME NEW o \in Operator
      PROVE  /\ op[o].host \in Host /\ op[o].plan \in SUBSET Row
             /\ \A r \in op[o].plan : Records(r)
             /\ Honest(op[o], Fs(o), last[op[o].host]) /\ OnTarget(op[o], Fs(o))
  BY DEF HonestInv, CallsHonest, Honest, TypeOK, OpRec, TargetInv
<1>4. ASSUME NEW o \in Operator, WriteEntry(o)
      PROVE  HostsSound'
  <2>1. PICK r, x :
          /\ r \in op[o].plan /\ Least(r.path, op[o].todo) /\ x \in RestoreEntry(Fs(o), Far(o), r)
          /\ files' = [files EXCEPT ![op[o].host] = x.files]
    BY <1>4, Zenon DEF WriteEntry
  <2>2. Aim(Fs(o), r) /\ Records(r) /\ r \in Row
    BY <1>3, <1>4, <2>1 DEF WriteEntry, OnTarget
  <2>3. Sound(x.files)
    BY <1>1, <1>3, <2>1, <2>2, EntryEffect DEF Fs
  <2>4. QED
    BY <1>2, <2>1, <2>3
<1>5. ASSUME NEW o \in Operator, WriteMetadata(o)
      PROVE  HostsSound'
  <2>1. PICK r, x :
          /\ r \in op[o].plan /\ Least(r.path, op[o].todo) /\ x \in RestoreMetadata(Fs(o), r)
          /\ files' = [files EXCEPT ![op[o].host] = x.files]
    BY <1>5, Zenon DEF WriteMetadata
  <2>2. Aim(Fs(o), r) /\ HasMetadata(r) /\ Ready(Fs(o), r) /\ Records(r) /\ r \in Row
    BY <1>3, <1>5, <2>1 DEF WriteMetadata, OnTarget, Honest
  <2>3. Sound(x.files)
    BY <1>1, <1>3, <2>1, <2>2, MetadataEffect DEF Fs
  <2>4. QED
    BY <1>2, <2>1, <2>3
<1>6. CASE HostChanges
  <2>1. PICK h, p, e :
          /\ h \in Host /\ p \in Path /\ e \in HostStates[p]
          /\ Coherent([files[h] EXCEPT ![p] = e])
          /\ files' = [files EXCEPT ![h][p] = e]
    BY <1>6, Zenon DEF HostChanges
  <2> DEFINE gs == [files[h] EXCEPT ![p] = e]
  <2>2. \A q \in Path : gs[q] = IF q = p THEN e ELSE files[h][q]
    BY <1>1, <2>1 DEF Files
  <2>3. \A g \in Host : files'[g] = IF g = h THEN gs ELSE files[g]
    BY <2>1 DEF TypeOK
  <2>4. Coherent(gs)
    BY <2>1
  <2> HIDE DEF gs
  <2>5. e \in Plain(p) /\ (p \in LinkTarget => e.kind # "absent")
    BY <2>1, PlainKinds DEF Settled
  <2>6. Sound(gs)
    BY <1>1, <2>1, <2>2, <2>4, <2>5, PathAssumption DEF Sound
  <2>7. QED
    BY <1>1, <2>3, <2>6 DEF HostsSound
<1>7. CASE UNCHANGED files
  BY <1>1, <1>7 DEF HostsSound
<1>8. \/ UNCHANGED files \/ HostChanges
      \/ \E o \in Operator : WriteEntry(o) \/ WriteMetadata(o)
  BY Zenon DEF Next, CallStep, BeginCreate, CapturePath, CaptureDone, Store,
    BeginRollback, Load, SortRow, SortDone, SnapshotPath, SnapshotDone,
    Persist, Fails, DatabaseFull, CheckRow, Finish, Delete, Crash, Tamper
<1>9. QED
  BY <1>4, <1>5, <1>6, <1>7, <1>8

\* What is stored was captured at one moment; what is edited no longer counts.
LEMMA StoredStaysWhole ==
  ASSUME TypeOK, HonestInv, Next
  PROVE  StoredWhole'
<1>1. \A c \in db : c.valid => Whole(c.rows) /\ \A r \in c.rows : Records(r)
  BY DEF HonestInv, StoredWhole
<1>2. ASSUME NEW o \in Operator, op[o].pc \in {"store", "persist"},
             db' = db \cup {Stored(op[o].host, op[o].taken)}
      PROVE  StoredWhole'
  <2>1. /\ \A r \in op[o].taken : Records(r) /\ r.seen = Fs(o)[r.path] /\ r.path \in Path
        /\ Coherent(Fs(o))
    BY <1>2 DEF HonestInv, CallsHonest, Honest, HostsSound, Sound, Fs, TypeOK, OpRec, Row
  <2>2. ASSUME NEW r \in op[o].taken, NEW s \in op[o].taken, r.path = Parent[s.path],
               s.seen.kind # "absent"
        PROVE  r.seen.kind # "absent"
    <3>1. DirThere(Fs(o), Parent[s.path])
      BY <2>1, <2>2 DEF Coherent
    <3>2. Parent[s.path] # 0
      BY <2>1, <2>2, PathAssumption
    <3>3. QED
      BY <2>1, <2>2, <3>1, <3>2 DEF DirThere
  <2>3. Whole(op[o].taken)
    BY <2>2 DEF Whole
  <2>4. Stored(op[o].host, op[o].taken).rows = op[o].taken
    BY DEF Stored
  <2>5. QED
    BY <1>1, <1>2, <2>1, <2>3, <2>4 DEF StoredWhole
<1>3. CASE \E o \in Operator : Store(o) \/ Persist(o)
  BY <1>2, <1>3 DEF Store, Persist
<1>4. CASE \E o \in Operator : Delete(o)
  BY <1>1, <1>4 DEF Delete, StoredWhole
<1>5. CASE Tamper
  <2>1. PICK c, rows :
          /\ c \in db
          /\ db' = (db \ {c}) \cup {[c EXCEPT !.rows = rows, !.valid = FALSE]}
    BY <1>5, Zenon DEF Tamper
  <2> DEFINE edited == [c EXCEPT !.rows = rows, !.valid = FALSE]
  <2>2. ~edited.valid
    BY DEF TypeOK, CheckpointRec
  <2> HIDE DEF edited
  <2>3. QED
    BY <1>1, <2>1, <2>2 DEF StoredWhole, edited
<1>6. CASE UNCHANGED db
  BY <1>1, <1>6 DEF StoredWhole
<1>7. QED
  BY <1>3, <1>4, <1>5, <1>6, Zenon DEF Next, CallStep, BeginCreate, CapturePath, CaptureDone,
    BeginRollback, Load, SortRow, SortDone, SnapshotPath, SnapshotDone,
    Fails, DatabaseFull, CheckRow, WriteEntry, WriteMetadata, Finish, Crash, HostChanges

\* A row that a rollback is done with, and does not report, is as captured.
LEMMA HonestInvariant ==
  ASSUME Settled, Enclosed, Unraced
  PROVE  Spec /\ []Apart => []HonestInv
<1>1. Init => HonestInv
  <2>1. SUFFICES ASSUME Init PROVE HonestInv
    OBVIOUS
  <2>2. CallsHonest
    <3>1. PICK h \in Host : op = [o \in Operator |-> IdleOn(h, "none")]
      BY <2>1 DEF Init
    <3>2. QED
      BY <3>1, IdleHonest DEF CallsHonest
  <2>3. HostsSound
    BY <2>1 DEF Init, HostsSound, Settled
  <2>4. StoredWhole
    BY <2>1 DEF Init, StoredWhole
  <2>5. QED
    BY <2>2, <2>3, <2>4 DEF HonestInv
<1>2. TypeOK /\ OrderInv /\ TargetInv /\ Apart /\ HonestInv /\ [Next]_vars => HonestInv'
  <2>1. ASSUME TypeOK, OrderInv, TargetInv, Apart, HonestInv, Next
        PROVE  HonestInv'
    <3>1. ASSUME NEW q \in Operator
          PROVE  Honest(op'[q], files'[op'[q].host], last'[op'[q].host])
      <4>1. CASE \/ BeginCreate(q) \/ BeginRollback(q) \/ CallStep(q)
                 \/ Fails(q) \/ Crash(q)
        BY <2>1, <4>1, CallHonest
      <4>2. CASE ~(\/ BeginCreate(q) \/ BeginRollback(q) \/ CallStep(q)
                   \/ Fails(q) \/ Crash(q))
        <5>1. op'[q] = op[q]
          BY <2>1, <4>2, OnlyItsOwnStep
        <5>2. QED
          BY <2>1, <4>2, <5>1, OthersHonest DEF HonestInv
      <4>3. QED
        BY <4>1, <4>2
    <3>2. CallsHonest'
      BY <3>1 DEF CallsHonest, Fs
    <3>3. QED
      BY <2>1, <3>2, HostsStaySound, StoredStaysWhole DEF HonestInv
  <2>2. HonestInv /\ UNCHANGED vars => HonestInv'
    BY DEF HonestInv, CallsHonest, HostsSound, StoredWhole, Fs, vars
  <2>3. QED
    BY <2>1, <2>2
<1>3. RacePC \cap {"entry", "meta"} = {}
  BY DEF Unraced
<1>4. Spec /\ []Apart => []TargetInv
  BY <1>3, TargetInvariant
<1>5. QED
  BY <1>1, <1>2, <1>4, TypeCorrect, OrderInvariant, PTL DEF Spec

\* Only a rollback that has been through its rows says how it went.
LEMMA FinishReports ==
  ASSUME TypeOK, CallsHonest, Next, NEW o \in Operator, Finishing(o)
  PROVE  op[o].todo = {}
<1>1. op[o] \in OpRec /\ op[o].pc = "check" /\ op[o].outcome = "none"
      /\ op'[o].outcome \in {"partial", "success"}
  BY DEF TypeOK, CallsHonest, Honest, Finishing
<1>2. op'[o] # op[o]
  BY <1>1
<1>3. CheckRow(o) \/ Finish(o) \/ Crash(o)
  <2>1. \/ BeginCreate(o) \/ BeginRollback(o) \/ CallStep(o) \/ Fails(o) \/ Crash(o)
    BY <1>2, OnlyItsOwnStep
  <2>2. QED
    BY <1>1, <2>1 DEF BeginCreate, BeginRollback, CallStep, CapturePath, CaptureDone,
      Store, Load, SortRow, SortDone, SnapshotPath, SnapshotDone, Persist,
      DatabaseFull, WriteEntry, WriteMetadata, Fails
<1>4. ~Crash(o)
  BY <1>1 DEF Crash, End, Becomes, IdleOn, TypeOK
<1>5. ~CheckRow(o)
  <2>1. ASSUME NEW p, RowDone(o, p, FALSE, "check") PROVE op'[o].outcome = op[o].outcome
    BY <1>1, <2>1 DEF RowDone, Becomes, TypeOK, OpRec
  <2>2. ASSUME Goto(o, "entry") PROVE op'[o].outcome = op[o].outcome
    BY <1>1, <2>2 DEF Goto, Becomes, TypeOK, OpRec
  <2>3. CheckRow(o) => Goto(o, "entry") \/ \E p : RowDone(o, p, FALSE, "check")
    BY Zenon DEF CheckRow
  <2>4. QED
    BY <1>1, <2>1, <2>2, <2>3
<1>6. QED
  BY <1>3, <1>4, <1>5 DEF Finish

\* A path a rollback reports as restored is as it was captured, whichever
\* commands and probes fail, and whenever the host changes between two rows:
\* on hosts where a path stays a file or a directory and no link leads to
\* nothing or to a path that a rollback writes (Settled), while calls on one
\* host come one after the other and the host changes under none that reads
\* or writes it.
THEOREM ReportsAreHonest ==
  ASSUME Settled, Enclosed, Unraced
  PROVE  Spec /\ []Apart => HonestReport
<1> DEFINE Borne == \A o \in Operator : Finishing(o) =>
             \A r \in op[o].plan : r.path \notin op[o].bad => AsCaptured(Fs(o), r)
<1>1. TypeOK /\ HonestInv /\ [Next]_vars => [Borne]_vars
  <2>1. ASSUME TypeOK, HonestInv, Next, NEW o \in Operator, Finishing(o),
               NEW r \in op[o].plan, r.path \notin op[o].bad
        PROVE  AsCaptured(Fs(o), r)
    <3>1. op[o].todo = {}
      BY <2>1, FinishReports DEF HonestInv
    <3>2. QED
      BY <2>1, <3>1 DEF HonestInv, CallsHonest, Honest, Finishing
  <2>2. QED
    BY <2>1
<1>2. QED
  BY <1>1, HonestInvariant, TypeCorrect, PTL DEF Spec, HonestReport

------------------------------------------------------------------------------
(* What a rollback can be brought back to.                                  *)
(*                                                                          *)
(* A rollback replayed in one piece leaves at the path of a row what the    *)
(* row and the entry now there say (Target), in whatever order: so the      *)
(* invariant keeps of each path only what its Target is told from, that     *)
(* it is as it was before the rollback, and of the snapshot that it has a   *)
(* row for each row of the plan that tells what stood there.                *)

\* What a restore that no command fails makes of an entry.
Target(r, e) ==
  IF r.link # 0 THEN Link(r.link)
  ELSE IF RecordedAbsent(r)
       THEN IF e.kind = "dir" \/ r.path \in Undeletable THEN e ELSE Absent
  ELSE IF r.typ = "dir" THEN Dir(r.mode, r.owner)
  ELSE IF r.content # NoContent THEN File(r.content, r.mode, r.owner)
  ELSE IF e.kind = "absent" THEN e ELSE File(e.content, r.mode, r.owner)

\* A row the guard can admit: its probe answers, and finds no link.
Fit(fs, r) ==
  HasMetadata(r) => DirThere(fs, Parent[r.path]) /\ fs[r.path].kind # "link"

\* A row of a snapshot: read, but for the bytes its reference does not ask for.
Snaps(s, fs, r) ==
  /\ s.path = r.path /\ s.seen = fs[r.path]
  /\ HasMetadata(s) /\ s.typ = "file" /\ s.content = NoContent => r.content = NoContent

\* Rows a rollback goes on to restore.
Restorable(rows) ==
  /\ rows \subseteq Row /\ Unique(rows) /\ Whole(rows)
  /\ \A r \in rows : Records(r) /\ r.path \in Allowed

\* The last rollback that began to write a host, and the host since.
Past(at, fs) ==
  /\ at.before \in Files /\ Sound(at.before) /\ Restorable(at.plan)
  /\ DirsStay(at.before, fs)
  /\ \A r \in at.plan :
       Left(at.before, fs, r) /\ ("sort" \notin RacePC => Fit(at.before, r))

PastInv == \A h \in Host : last[h] # Untouched => Past(last[h], files[h])

\* A rollback under way: guarded, then snapshotted row by row, then written.
Underway(call, fs, at) ==
  /\ call.pc = "sort" =>
       \A r \in call.plan : r.path \in call.todo \/
         (r.path \in Allowed /\ ("sort" \notin RacePC => Fit(fs, r)))
  /\ call.pc \in {"snapshot", "persist"} =>
       /\ \A r \in call.plan :
            /\ r.path \in Allowed
            /\ "sort" \notin RacePC => Fit(fs, r)
            /\ \/ call.pc = "snapshot" /\ r.path \in call.todo
               \/ \E s \in call.taken : Snaps(s, fs, r)
       /\ RowsPaths(call.taken) \subseteq RowsPaths(call.plan)
  /\ call.pc \in {"check", "entry", "meta"} /\ at # Untouched => at.plan = call.plan

UnderwayInv == \A o \in Operator : Underway(op[o], Fs(o), last[op[o].host])

\* The snapshot of that rollback, while it is stored and verifies.
SnapshotInv ==
  /\ \A c \in db : c.id \in 1 .. issued
  /\ \A h \in Host : last[h].undo <= issued /\ (last[h] # Untouched => last[h].undo # 0)
  /\ \A h \in Host : \A c \in db : c.valid /\ c.id = last[h].undo =>
       /\ RowsPaths(c.rows) \subseteq RowsPaths(last[h].plan)
       /\ \A r \in last[h].plan : \E s \in c.rows : Snaps(s, last[h].before, r)

UndoInv == PastInv /\ UnderwayInv /\ SnapshotInv

\* There is a last path: the host has finitely many.
Bounded == \E p \in Path : \A q \in Path : q <= p

------------------------------------------------------------------------------
(* A rollback replayed in one piece. *)

\* Induction over the paths of a replay, as a fact about sets of numbers.
LEMMA UpTo ==
  ASSUME NEW L \in Nat, NEW T, 0 \in T, \A n \in 1 .. L : n - 1 \in T => n \in T
  PROVE  0 .. L \subseteq T
<1> DEFINE U == (0 .. L) \ T
           R == OpToRel(<, Nat)
<1>1. SUFFICES ASSUME U # {} PROVE FALSE
  OBVIOUS
<1>2. U \subseteq Nat
  OBVIOUS
<1>3. PICK x \in U : \A y \in U : <<y, x>> \notin R
  <2> HIDE DEF U, R
  <2>1. IsWellFoundedOn(R, Nat)
    BY NatLessThanWellFounded DEF R
  <2>2. QED
    BY <1>1, <1>2, <2>1, WFMin
<1>4. x \in 1 .. L /\ x - 1 \in 0 .. L /\ x - 1 < x
  OBVIOUS
<1>5. x - 1 \in U
  BY <1>4
<1>6. <<x - 1, x>> \in R
  BY <1>4, <1>5, <1>2 DEF OpToRel
<1>7. QED
  BY <1>3, <1>5, <1>6

\* A function that is given its first value, and each next one by the last.
Iterates(u, L, S, a, g) ==
  u \in [0 .. L -> S] /\ u[0] = a /\ \A n \in 1 .. L : u[n] = g[<<n, u[n - 1]>>]

LEMMA StepsExist ==
  ASSUME NEW L \in Nat, NEW S, NEW a \in S, NEW g \in [(1 .. L) \X S -> S]
  PROVE  \E u : Iterates(u, L, S, a, g)
<1> DEFINE Runs(u, k) == u[0] = a /\ \A n \in 1 .. k : u[n] = g[<<n, u[n - 1]>>]
           T == {k \in 0 .. L : \E u \in [0 .. k -> S] : Runs(u, k)}
<1>1. 0 \in T
  <2>1. [i \in 0 .. 0 |-> a] \in [0 .. 0 -> S]
    OBVIOUS
  <2>2. Runs([i \in 0 .. 0 |-> a], 0)
    OBVIOUS
  <2> HIDE DEF Runs
  <2>3. QED
    BY <2>1, <2>2
<1>2. ASSUME NEW k \in 1 .. L, k - 1 \in T
      PROVE  k \in T
  <2>1. PICK u \in [0 .. k - 1 -> S] : Runs(u, k - 1)
    BY <1>2
  <2> DEFINE w == g[<<k, u[k - 1]>>]
             v == [i \in 0 .. k |-> IF i = k THEN w ELSE u[i]]
  <2>2. u[k - 1] \in S /\ <<k, u[k - 1]>> \in (1 .. L) \X S
    OBVIOUS
  <2>3. w \in S
    BY <2>2
  <2> HIDE DEF w
  <2>4. v \in [0 .. k -> S] /\ \A i \in 0 .. k : v[i] = IF i = k THEN w ELSE u[i]
    <3>1. \A i \in 0 .. k : i # k => i \in 0 .. k - 1
      OBVIOUS
    <3>2. QED
      BY <2>3, <3>1
  <2> HIDE DEF v
  <2>5. v[0] = a
    <3>1. 0 \in 0 .. k /\ 0 # k
      OBVIOUS
    <3>2. QED
      BY <2>1, <2>4, <3>1
  <2>6. ASSUME NEW n \in 1 .. k PROVE v[n] = g[<<n, v[n - 1]>>]
    <3>1. n \in 0 .. k /\ n - 1 \in 0 .. k /\ n - 1 # k
      OBVIOUS
    <3>2. v[n - 1] = u[n - 1]
      BY <2>4, <3>1
    <3>3. CASE n = k
      BY <2>4, <3>1, <3>2, <3>3 DEF w
    <3>4. CASE n # k
      <4>1. n \in 1 .. k - 1 /\ v[n] = u[n]
        BY <2>4, <3>1, <3>4
      <4>2. QED
        BY <2>1, <3>2, <4>1
    <3>5. QED
      BY <3>3, <3>4
  <2>7. Runs(v, k)
    BY <2>5, <2>6
  <2> HIDE DEF Runs
  <2>8. QED
    BY <2>4, <2>7
<1>3. 0 .. L \subseteq T
  <2> HIDE DEF T
  <2>1. QED
    BY <1>1, <1>2, UpTo
<1>4. L \in T
  <2>1. L \in 0 .. L
    OBVIOUS
  <2> HIDE DEF T
  <2>2. QED
    BY <1>3, <2>1
<1>5. QED
  BY <1>4 DEF Iterates

\* The writes of a row leave of its own entry what they do not replace, and
\* remove no directory.
LEMMA EntryLeaves ==
  ASSUME Settled, NEW fs \in Files, Sound(fs), NEW remote, NEW r \in Row, Records(r),
         Aim(fs, r), NEW x \in RestoreEntry(fs, remote, r)
  PROVE  Left(fs, x.files, r) /\ DirsStay(fs, x.files)
<1> DEFINE p == r.path
<1>1. p \in Path /\ fs[p] \in Plain(p) /\ Spared(fs, x.files, r)
  BY EntryEffect DEF Row, Sound
<1>2. ASSUME fs[p].kind = "dir" => x.files[p].kind = "dir"
      PROVE  DirsStay(fs, x.files)
  BY <1>1, <1>2 DEF Spared, DirsStay
<1>3. CASE HasMetadata(r)
  <2>1. fs[p].kind # "link"
    BY <1>3, NoLinkThere
  <2>2. /\ r.typ \in {"file", "dir"} /\ r.typ = r.seen.kind /\ r.seen \in Plain(p)
        /\ r.content # NoContent => r.typ = "file" /\ r.content \in Content
    BY <1>3 DEF Records, Row
  <2>3. r.typ = "dir" <=> p \in Dirs
    BY <1>1, <2>2, PlainKinds
  <2>4. r.link = 0 => ~RecordedAbsent(r)
    BY <1>3 DEF HasMetadata
  <2>5. \/ r.typ = "dir" /\ x \in EnsureDirectory(fs, p)
        \/ r.typ = "file" /\ r.content # NoContent /\ x \in Write(fs, remote, p, r.content)
        \/ r.typ = "file" /\ r.content = NoContent /\ x = Done(fs)
    BY <1>3, <2>2, Zenon DEF RestoreEntry, HasMetadata
  <2>6. CASE r.typ = "dir" /\ x \in EnsureDirectory(fs, p)
    <3>1. x.files[p] = fs[p] \/ x.files[p].kind = "dir"
      BY <1>1, <2>3, <2>6, EnsureDirectoryEffect
    <3>2. QED
      BY <1>2, <2>1, <2>4, <2>6, <3>1 DEF Left
  <2>7. CASE r.typ = "file" /\ r.content # NoContent /\ x \in Write(fs, remote, p, r.content)
    <3>1. p \in Path \ Dirs /\ r.content \in Content /\ fs[p].kind # "dir"
      BY <1>1, <2>2, <2>3, <2>7, PlainKinds
    <3>2. x.files[p] = fs[p] \/ x.files[p].kind = "file"
      BY <2>1, <2>7, <3>1, WriteEffect
    <3>3. QED
      BY <1>2, <2>1, <2>4, <2>7, <3>1, <3>2 DEF Left
  <2>8. CASE r.typ = "file" /\ r.content = NoContent /\ x = Done(fs)
    BY <2>4, <2>8, <1>2 DEF Done, Left
  <2>9. QED
    BY <2>5, <2>6, <2>7, <2>8
<1>4. CASE r.link # 0
  <2>1. r.seen \in Plain(p) /\ r.seen.kind = "link"
    BY <1>4 DEF Records, Link
  <2>2. fs[p].kind # "dir"
    BY <1>1, <2>1, PlainKinds
  <2>3. QED
    BY <1>2, <1>4, <2>2 DEF Left, HasMetadata
<1>5. CASE r.link = 0 /\ RecordedAbsent(r)
  <2>1. x \in RemoveOrRefuse(fs, p) /\ ~HasMetadata(r)
    BY <1>5, Zenon DEF RestoreEntry, HasMetadata
  <2> DEFINE gone == [fs EXCEPT ![p] = Absent]
  <2>2. \/ x = Failed(fs) /\ (p \in Undeletable \/ TRUE)
        \/ x = Done(gone) /\ fs[p].kind # "dir" /\ p \notin Undeletable
        \/ x = Done(fs) /\ p \in Undeletable
    BY <2>1, Zenon DEF RemoveOrRefuse, Remove, Outcomes
  <2>3. gone[p] = Absent /\ Absent.kind = "absent"
    BY <1>1 DEF Files, Absent
  <2> HIDE DEF gone
  <2>4. CASE x.files = fs
    BY <1>2, <2>1, <2>4 DEF Left
  <2>5. CASE x.files = gone /\ fs[p].kind # "dir" /\ p \notin Undeletable
    BY <1>2, <2>1, <2>3, <2>5 DEF Left
  <2>6. QED
    BY <2>2, <2>4, <2>5 DEF Done, Failed
<1>6. QED
  BY <1>3, <1>4, <1>5 DEF HasMetadata

\* Best takes a success, when there is one.
LEMMA BestIs ==
  ASSUME NEW outcomes, NEW fs
  PROVE  \/ \E x \in outcomes : x.ok /\ Best(outcomes, fs) = x.files
         \/ (\A x \in outcomes : ~x.ok) /\ Best(outcomes, fs) = fs
<1>1. CASE \E x \in outcomes : x.ok
  <2>1. (CHOOSE x \in outcomes : x.ok) \in outcomes /\ (CHOOSE x \in outcomes : x.ok).ok
    BY <1>1
  <2>2. Best(outcomes, fs) = (CHOOSE x \in outcomes : x.ok).files
    BY <1>1 DEF Best
  <2>3. QED
    BY <2>1, <2>2
<1>2. CASE ~\E x \in outcomes : x.ok
  BY <1>2 DEF Best
<1>3. QED
  BY <1>1, <1>2

\* A directory can be ensured on a sound host.
LEMMA EnsureDirectoryCan ==
  ASSUME NEW fs \in Files, Sound(fs), NEW d \in Dirs \cup {0}
  PROVE  \E x \in EnsureDirectory(fs, d) : x.ok
<1>1. Done(fs).ok
  BY DEF Done
<1>2. CASE d = 0
  BY <1>1, <1>2, Zenon DEF EnsureDirectory
<1>3. CASE d # 0 /\ PathExists(fs, d)
  BY <1>1, <1>3, Zenon DEF EnsureDirectory
<1>4. CASE d # 0 /\ ~PathExists(fs, d)
  <2> DEFINE made == [p \in Path |-> IF p \in Lineage(d) /\ fs[p].kind = "absent"
                                     THEN Dir(CreatedMode, Root) ELSE fs[p]]
  <2>1. d \in Path
    BY <1>4 DEF Dirs
  <2>2. \A a \in Lineage(d) : a \in Path /\ a \in Dirs
    BY <1>4, <2>1, ParentsAreDirs DEF Lineage
  <2>3. \A a \in Lineage(d) : fs[a].kind \in {"absent", "dir"}
    <3>1. ASSUME NEW a \in Lineage(d) PROVE fs[a].kind \in {"absent", "dir"}
      <4>1. fs[a] \in Plain(a) /\ a \in Path
        BY <2>2 DEF Sound
      <4>2. QED
        BY <2>2, <4>1, PlainKinds DEF Entry, Kind
    <3>2. QED
      BY <3>1
  <2>4. Done(made) \in MakeDirectory(fs, d)
    BY <2>3, Zenon DEF MakeDirectory, Outcomes
  <2>5. Done(made) \in EnsureDirectory(fs, d)
    BY <1>4, <2>4, Zenon DEF EnsureDirectory
  <2>6. Done(made).ok
    BY DEF Done
  <2>7. QED
    BY <2>5, <2>6
<1>5. QED
  BY <1>2, <1>3, <1>4

\* Best of a command that changes nothing when it fails.
LEMMA BestOfOutcomes ==
  ASSUME NEW fs, NEW can \in BOOLEAN, NEW after
  PROVE  Best(Outcomes(fs, can, after), fs) = IF can THEN after ELSE fs
<1> DEFINE all == Outcomes(fs, can, after)
<1>1. /\ Done(after).ok /\ Done(after).files = after
      /\ ~Failed(fs).ok /\ Failed(fs).files = fs
  BY DEF Done, Failed
<1>2. CASE can
  <2>1. Done(after) \in all /\ \A x \in all : x = Done(after) \/ x = Failed(fs)
    BY <1>2, Zenon DEF Outcomes
  <2> HIDE DEF all
  <2>2. Best(all, fs) = after
    BY <1>1, <2>1, BestIs
  <2>3. QED
    BY <1>2, <2>2 DEF all
<1>3. CASE ~can
  <2>1. \A x \in all : x = Failed(fs)
    BY <1>3, Zenon DEF Outcomes
  <2> HIDE DEF all
  <2>2. Best(all, fs) = fs
    BY <1>1, <2>1, BestIs
  <2>3. QED
    BY <1>3, <2>2 DEF all
<1>4. QED
  BY <1>2, <1>3

\* The chmod and chown of a path that is no link, when neither is refused.
LEMMA MetadataGiven ==
  ASSUME NEW fs \in Files, Sound(fs), NEW p \in Path, fs[p].kind # "link",
         NEW m \in Mode, NEW o \in Owner
  PROVE  LET gs == Best(Chmod(fs, p, m), fs)
             hs == Best(Chown(gs, p, o), gs)
             e == fs[p]
         IN  /\ hs \in Files
             /\ \A q \in Path : q # p => hs[q] = fs[q]
             /\ hs[p] = IF e.kind = "absent" THEN e
                        ELSE IF e.kind = "dir" THEN Dir(m, o) ELSE File(e.content, m, o)
<1> DEFINE e == fs[p]
           moded == [fs EXCEPT ![p].mode = m]
           gs == Best(Chmod(fs, p, m), fs)
           owned(f) == [f EXCEPT ![p].owner = o]
           hs == Best(Chown(gs, p, o), gs)
<1>1. e \in Plain(p) /\ e \in Entry /\ Final(fs, p) = p
  BY PlainKinds DEF Sound, Final
<1>2. PathExists(fs, p) = (e.kind # "absent")
  BY <1>1 DEF PathExists
<1>3. gs = IF e.kind # "absent" THEN moded ELSE fs
  <2> DEFINE there == e.kind # "absent"
  <2>1. Chmod(fs, p, m) = Outcomes(fs, there, moded) /\ there \in BOOLEAN
    BY <1>1, <1>2 DEF Chmod
  <2> HIDE DEF moded, there
  <2>2. Best(Chmod(fs, p, m), fs) = IF there THEN moded ELSE fs
    BY <2>1, BestOfOutcomes
  <2>3. QED
    BY <2>2 DEF there
<1>4. /\ moded[p] = [e EXCEPT !.mode = m] /\ moded[p].kind = e.kind /\ moded[p].target = e.target
      /\ \A q \in Path : q # p => moded[q] = fs[q]
      /\ moded \in Files
  <2>1. [e EXCEPT !.mode = m] \in Entry
    BY <1>1 DEF Entry
  <2>2. QED
    BY <1>1, <2>1 DEF Files, Entry
<1> DEFINE d == gs[p]
<1>5. /\ gs \in Files /\ d.kind = e.kind
      /\ d = IF e.kind # "absent" THEN [e EXCEPT !.mode = m] ELSE e
      /\ \A q \in Path : q # p => gs[q] = fs[q]
  <2> HIDE DEF moded, gs
  <2>1. QED
    BY <1>3, <1>4 DEF Files
<1> HIDE DEF gs
<1>6. Final(gs, p) = p /\ PathExists(gs, p) = (e.kind # "absent")
  BY <1>5 DEF Final, PathExists
<1>7. hs = IF e.kind # "absent" THEN owned(gs) ELSE gs
  <2> DEFINE there == e.kind # "absent"
  <2>1. Chown(gs, p, o) = Outcomes(gs, there, owned(gs)) /\ there \in BOOLEAN
    BY <1>6 DEF Chown
  <2> HIDE DEF owned, there
  <2>2. Best(Chown(gs, p, o), gs) = IF there THEN owned(gs) ELSE gs
    BY <2>1, BestOfOutcomes
  <2>3. QED
    BY <2>2 DEF there
<1>8. /\ owned(gs)[p] = [d EXCEPT !.owner = o]
      /\ \A q \in Path : q # p => owned(gs)[q] = gs[q]
      /\ owned(gs) \in Files
  <2>1. d \in Entry
    BY <1>5 DEF Files
  <2>2. [d EXCEPT !.owner = o] \in Entry
    BY <2>1 DEF Entry
  <2>3. QED
    BY <1>5, <2>2 DEF Files
<1>9. CASE e.kind = "absent"
  BY <1>5, <1>7, <1>9 DEF gs
<1>10. CASE e.kind # "absent"
  <2>1. d = [e EXCEPT !.mode = m] /\ hs = owned(gs)
    BY <1>5, <1>7, <1>10
  <2>2. e.kind \in {"dir", "file"}
    BY <1>1, <1>10 DEF Entry, Kind
  <2>3. ASSUME e.kind = "dir"
        PROVE  [[e EXCEPT !.mode = m] EXCEPT !.owner = o] = Dir(m, o)
    <3>1. PICK u : e = Dir(e.mode, u)
      BY <1>1, <2>3, PlainKinds
    <3>2. /\ [Dir(e.mode, u) EXCEPT !.mode = m] = Dir(m, u)
          /\ [Dir(m, u) EXCEPT !.owner = o] = Dir(m, o)
      BY DEF Dir
    <3> HIDE DEF e
    <3>3. [e EXCEPT !.mode = m] = Dir(m, u)
      BY <3>1, <3>2, Zenon
    <3>4. QED
      BY <3>2, <3>3, Zenon
  <2>4. ASSUME e.kind = "file"
        PROVE  [[e EXCEPT !.mode = m] EXCEPT !.owner = o] = File(e.content, m, o)
    <3>1. PICK c, u : e = File(c, e.mode, u) /\ c = e.content
      BY <1>1, <2>4, PlainKinds
    <3>2. /\ [File(c, e.mode, u) EXCEPT !.mode = m] = File(c, m, u)
          /\ [File(c, m, u) EXCEPT !.owner = o] = File(c, m, o)
      BY DEF File
    <3> HIDE DEF e
    <3>3. [e EXCEPT !.mode = m] = File(c, m, u)
      BY <3>1, <3>2, Zenon
    <3>4. QED
      BY <3>1, <3>2, <3>3, Zenon
  <2> HIDE DEF hs, owned
  <2>5. hs \in Files /\ (\A q \in Path : q # p => hs[q] = fs[q])
        /\ hs[p] = [[e EXCEPT !.mode = m] EXCEPT !.owner = o]
    BY <1>5, <1>8, <2>1
  <2>6. hs[p] = IF e.kind = "absent" THEN e
                ELSE IF e.kind = "dir" THEN Dir(m, o) ELSE File(e.content, m, o)
    BY <2>2, <2>3, <2>4, <2>5
  <2>7. QED
    BY <2>5, <2>6 DEF hs, gs
<1>11. QED
  BY <1>9, <1>10

\* The row a host can be given, but for its mode and owner.
LEMMA EntryRestored ==
  ASSUME Settled, NEW fs \in Files, Sound(fs), NEW remote, NEW r \in Row, Records(r),
         Aim(fs, r), Fit(fs, r)
  PROVE  LET e == fs[r.path]
             was == Best(RestoreEntry(fs, remote, r), fs)[r.path]
         IN  IF HasMetadata(r)
             THEN IF r.typ = "dir" THEN was.kind = "dir"
                  ELSE IF r.content # NoContent THEN was.kind = "file" /\ was.content = r.content
                  ELSE was = e
             ELSE was = Target(r, e)
<1> DEFINE p == r.path
           e == fs[p]
           all == RestoreEntry(fs, remote, r)
<1>1. p \in Path /\ e \in Plain(p)
  BY DEF Row, Sound
<1>2. CASE r.link # 0
  <2>1. all = RestoreLink(fs, r) /\ ~HasMetadata(r) /\ Target(r, e) = Link(r.link)
    BY <1>2, Zenon DEF RestoreEntry, HasMetadata, Target
  <2>2. r.seen = Link(r.link)
    BY <1>2 DEF Records
  <2>3. Parent[p] \in Dirs \cup {0}
    BY <1>1, ParentsAreDirs
  <2>4. PICK y \in EnsureDirectory(fs, Parent[p]) : y.ok
    BY <2>3, EnsureDirectoryCan
  <2>5. DirThere(y.files, Parent[p])
    BY <2>3, <2>4, EnsureDirectoryEffect
  <2>6. \E f : Done(f) \in Symlink(y.files, p, r.link)
    BY <2>5, Zenon DEF Symlink, Outcomes
  <2>7. \E f : Done(f) \in RestoreLink(fs, r)
    BY <2>4, <2>6, Zenon DEF RestoreLink
  <2>8. \E x \in RestoreLink(fs, r) : x.ok
    BY <2>7 DEF Done
  <2> HIDE DEF all
  <2>9. Best(all, fs)[p] = Link(r.link)
    BY <1>2, <2>1, <2>2, <2>8, BestIs, RestoreLinkEffect
  <2>10. QED
    BY <2>1, <2>9 DEF all
<1>3. CASE r.link = 0 /\ RecordedAbsent(r)
  <2> DEFINE gone == [fs EXCEPT ![p] = Absent]
  <2>1. all = RemoveOrRefuse(fs, p) /\ ~HasMetadata(r)
        /\ Target(r, e) = IF e.kind = "dir" \/ p \in Undeletable THEN e ELSE Absent
    BY <1>3, Zenon DEF RestoreEntry, HasMetadata, Target
  <2>2. gone[p] = Absent
    BY <1>1 DEF Files
  <2>3. all = IF p \notin Undeletable THEN Outcomes(fs, e.kind # "dir", gone)
              ELSE Outcomes(fs, ~PathExists(fs, p), fs)
    BY <2>1 DEF RemoveOrRefuse, Remove
  <2> HIDE DEF gone, all
  <2>4. p \notin Undeletable => Best(all, fs) = IF e.kind # "dir" THEN gone ELSE fs
    BY <2>3, BestOfOutcomes
  <2>5. p \in Undeletable => Best(all, fs) = fs
    <3>1. PathExists(fs, p) \in BOOLEAN
      BY DEF PathExists
    <3>2. QED
      BY <2>3, <3>1, BestOfOutcomes
  <2>6. Best(all, fs)[p] = Target(r, e)
    BY <2>1, <2>2, <2>4, <2>5
  <2>7. QED
    BY <2>1, <2>6 DEF all
<1>4. CASE HasMetadata(r)
  <2>1. r.typ \in {"file", "dir"} /\ r.typ = r.seen.kind /\ r.seen \in Plain(p)
    BY <1>4 DEF Records
  <2>2. (r.typ = "dir" <=> p \in Dirs) /\ (r.content # NoContent => r.content \in Content)
    BY <1>1, <2>1, PlainKinds DEF Row
  <2>3. e.kind # "link" /\ DirThere(fs, Parent[p]) /\ Final(fs, p) = p
    BY <1>4, NoLinkThere DEF Fit
  <2>4. CASE r.typ = "dir"
    <3>1. all = EnsureDirectory(fs, p)
      BY <1>4, <2>4, Zenon DEF RestoreEntry, HasMetadata
    <3>2. \E x \in EnsureDirectory(fs, p) : x.ok
      BY <2>2, <2>4, EnsureDirectoryCan
    <3>3. p # 0
      BY <1>1, PathAssumption
    <3> HIDE DEF all
    <3>4. Best(all, fs)[p].kind = "dir"
      BY <2>2, <2>4, <3>1, <3>2, <3>3, BestIs, EnsureDirectoryEffect DEF DirThere
    <3>5. QED
      BY <1>4, <2>4, <3>4 DEF all
  <2>5. CASE r.typ = "file" /\ r.content # NoContent
    <3>1. all = Write(fs, remote, p, r.content)
      BY <1>4, <2>5, Zenon DEF RestoreEntry, HasMetadata
    <3>2. e.kind # "dir" /\ p \in Path \ Dirs
      BY <1>1, <2>2, <2>5, PlainKinds
    <3>3. CanWrite(fs, remote, p)
      BY <2>3, <3>2 DEF CanWrite
    <3>4. \E f : Done(f) \in Write(fs, remote, p, r.content)
      BY <3>3, Zenon DEF Write, Outcomes
    <3>5. \E x \in Write(fs, remote, p, r.content) : x.ok
      BY <3>4 DEF Done
    <3> HIDE DEF all
    <3>6. Best(all, fs)[p].kind = "file" /\ Best(all, fs)[p].content = r.content
      BY <2>2, <2>3, <2>5, <3>1, <3>2, <3>5, BestIs, WriteEffect
    <3>7. QED
      BY <1>4, <2>5, <3>6 DEF all
  <2>6. CASE r.typ = "file" /\ r.content = NoContent
    <3>1. all = {Done(fs)}
      BY <1>4, <2>6, Zenon DEF RestoreEntry, HasMetadata
    <3> HIDE DEF all
    <3>2. Best(all, fs) = fs
      BY <3>1, BestIs DEF Done
    <3>3. QED
      BY <1>4, <2>6, <3>2 DEF all
  <2>7. QED
    BY <2>1, <2>4, <2>5, <2>6
<1>5. QED
  BY <1>2, <1>3, <1>4 DEF HasMetadata

\* A row restored without a failure: at its path its Target, and elsewhere
\* what it spares.
LEMMA RowRestoredIs ==
  ASSUME Settled, NEW fs \in Files, Sound(fs), NEW remote, NEW r \in Row, Records(r), Aim(fs, r)
  PROVE  LET gs == RowRestored(fs, remote, r)
         IN  /\ gs \in Files /\ Sound(gs) /\ Spared(fs, gs, r) /\ DirsStay(fs, gs)
             /\ Fit(fs, r) => gs[r.path] = Target(r, fs[r.path])
<1> DEFINE p == r.path
           all == RestoreEntry(fs, remote, r)
           is == Best(all, fs)
           gs == RowRestored(fs, remote, r)
<1>1. p \in Path /\ fs[p] \in Plain(p)
  BY DEF Row, Sound
<1>2. is \in Files /\ Sound(is) /\ Spared(fs, is, r) /\ DirsStay(fs, is)
  <2>1. \A x \in all : /\ x.files \in Files /\ Sound(x.files)
                       /\ Spared(fs, x.files, r) /\ DirsStay(fs, x.files)
    BY EntryEffect, EntryLeaves, RestoreEntryType DEF Outcome
  <2>2. Spared(fs, fs, r) /\ DirsStay(fs, fs)
    BY DEF Spared, DirsStay
  <2> HIDE DEF all
  <2>3. QED
    BY <2>1, <2>2, BestIs
<1>3. CASE ~HasMetadata(r)
  <2>1. gs = is
    BY <1>3, Zenon DEF RowRestored
  <2>2. Fit(fs, r) => is[p] = Target(r, fs[p])
    BY <1>3, EntryRestored
  <2>3. QED
    BY <1>2, <2>1, <2>2
<1>4. CASE HasMetadata(r)
  <2>1. /\ r.seen \in Plain(p) /\ r.typ = r.seen.kind /\ r.typ \in {"file", "dir"}
        /\ r.mode = r.seen.mode /\ r.owner = r.seen.owner
    BY <1>4 DEF Records
  <2>2. r.mode \in Mode /\ r.owner \in Owner /\ (r.typ = "dir" <=> p \in Dirs)
    BY <1>1, <2>1, PlainKinds
  <2>3. fs[p].kind # "link"
    BY <1>4, NoLinkThere
  <2>4. is[p].kind # "link"
    BY <1>4, <2>3, EntryLeaves, BestIs DEF Left
  <2>5. gs = Best(Chown(Best(Chmod(is, p, r.mode), is), p, r.owner), Best(Chmod(is, p, r.mode), is))
    BY <1>4, Zenon DEF RowRestored
  <2> HIDE DEF is, gs, all
  <2> DEFINE e == is[p]
             f == IF e.kind = "absent" THEN e
                  ELSE IF e.kind = "dir" THEN Dir(r.mode, r.owner)
                  ELSE File(e.content, r.mode, r.owner)
  <2>6. gs \in Files /\ (\A q \in Path : q # p => gs[q] = is[q]) /\ gs[p] = f
    BY <1>1, <1>2, <2>2, <2>4, <2>5, MetadataGiven
  <2>7. e \in Plain(p) /\ e.kind \in {"absent", "file", "dir"}
    <3>1. e \in Plain(p)
      BY <1>1, <1>2 DEF Sound
    <3>2. QED
      BY <1>1, <2>4, <3>1, PlainKinds DEF Entry, Kind
  <2>8. f \in Plain(p) /\ f.kind = e.kind
    BY <1>1, <2>2, <2>7, PlainKinds, PlainMade DEF Dir, File
  <2>9. Sound(gs)
    <3>1. e.kind # "absent" => DirThere(is, Parent[p])
      BY <1>1, <1>2 DEF Sound, Coherent
    <3>2. p \in LinkTarget => e.kind # "absent"
      BY <1>2 DEF Sound
    <3>3. Sound([is EXCEPT ![p] = f])
      BY <1>1, <1>2, <2>8, <3>1, <3>2, SoundPut
    <3>4. gs = [is EXCEPT ![p] = f]
      <4> HIDE DEF f, e
      <4>1. QED
        BY <1>1, <1>2, <2>6 DEF Files
    <3>5. QED
      BY <3>3, <3>4
  <2>10. Spared(fs, gs, r) /\ DirsStay(fs, gs)
    <3>1. fs[p].kind = "dir" => gs[p].kind = "dir"
      BY <1>1, <1>2, <2>6, <2>8 DEF DirsStay
    <3>2. QED
      BY <1>1, <1>2, <2>6, <3>1 DEF Spared, DirsStay
  <2>11. ASSUME Fit(fs, r) PROVE gs[p] = Target(r, fs[p])
    <3>1. /\ r.typ = "dir" => e.kind = "dir"
          /\ r.typ = "file" /\ r.content # NoContent => e.kind = "file" /\ e.content = r.content
          /\ r.typ = "file" /\ r.content = NoContent => e = fs[p] /\ e.kind # "dir"
      <4>1. r.typ = "file" => e.kind # "dir"
        BY <1>1, <2>2, <2>1, <2>7, PlainKinds
      <4>2. QED
        BY <1>4, <2>1, <2>11, <4>1, EntryRestored DEF is, all
    <3>2. r.link = 0 /\ ~RecordedAbsent(r)
      BY <1>4 DEF HasMetadata
    <3>3. QED
      BY <2>1, <2>6, <2>7, <3>1, <3>2 DEF Target
  <2>12. QED
    BY <2>6, <2>9, <2>10, <2>11 DEF gs
<1>5. QED
  BY <1>3, <1>4

\* A row restored leaves a host behind, whatever is on it.
LEMMA RowRestoredType ==
  ASSUME NEW fs \in Files, NEW remote, NEW r \in Row
  PROVE  RowRestored(fs, remote, r) \in Files
<1> DEFINE is == Best(RestoreEntry(fs, remote, r), fs)
           moded == Best(Chmod(is, r.path, r.mode), is)
           owned == Best(Chown(moded, r.path, r.owner), moded)
<1>1. ASSUME NEW all, all \subseteq Outcome, NEW gs \in Files
      PROVE  Best(all, gs) \in Files
  BY <1>1, BestIs DEF Outcome
<1>2. r.path \in Path /\ r.mode \in Mode \cup {NoMode} /\ r.owner \in Owner \cup {NoOwner}
  BY DEF Row
<1>3. is \in Files
  BY <1>1, RestoreEntryType
<1>4. moded \in Files
  <2> HIDE DEF is
  <2>1. QED
    BY <1>1, <1>2, <1>3, ChmodType
<1>5. owned \in Files
  <2> HIDE DEF moded
  <2>1. QED
    BY <1>1, <1>2, <1>4, ChownType
<1>6. RowRestored(fs, remote, r) = is \/ RowRestored(fs, remote, r) = owned
  BY Zenon DEF RowRestored
<1>7. QED
  BY <1>3, <1>5, <1>6

\* The row of a path, where its rows are one a path.
LEMMA ReplayPathIs ==
  ASSUME NEW fs, NEW remote, NEW rows, Unique(rows), NEW now, NEW n
  PROVE  /\ \A r \in rows : r.path = n =>
              ReplayPath(fs, remote, rows, now, n) =
                IF Admitted(fs, r) /\ Admitted(now, r) THEN RowRestored(now, remote, r) ELSE now
         /\ (\A r \in rows : r.path # n) => ReplayPath(fs, remote, rows, now, n) = now
<1>1. ASSUME NEW r \in rows, r.path = n
      PROVE  r = CHOOSE s \in rows : s.path = n
  <2>1. LET s == CHOOSE s \in rows : s.path = n IN s \in rows /\ s.path = n
    BY <1>1
  <2>2. QED
    BY <1>1, <2>1 DEF Unique
<1>2. \A r \in rows : r.path = n =>
              ReplayPath(fs, remote, rows, now, n) =
                IF Admitted(fs, r) /\ Admitted(now, r) THEN RowRestored(now, remote, r) ELSE now
  <2>1. ASSUME NEW r \in rows, r.path = n
        PROVE  ReplayPath(fs, remote, rows, now, n) =
                IF Admitted(fs, r) /\ Admitted(now, r) THEN RowRestored(now, remote, r) ELSE now
    <3> DEFINE s == CHOOSE s \in rows : s.path = n
    <3>1. ReplayPath(fs, remote, rows, now, n) =
            IF Admitted(fs, s) /\ Admitted(now, s) THEN RowRestored(now, remote, s) ELSE now
      BY <2>1, Zenon DEF ReplayPath
    <3>2. s = r
      BY <1>1, <2>1
    <3> HIDE DEF s
    <3>3. QED
      BY <3>1, <3>2
  <2>2. QED
    BY <2>1
<1>3. (\A r \in rows : r.path # n) => ReplayPath(fs, remote, rows, now, n) = now
  BY Zenon DEF ReplayPath
<1>4. QED
  BY <1>2, <1>3

\* A replay is the host as its last path leaves it, path after path.
LEMMA ReplayUnfolds ==
  ASSUME Bounded, NEW fs \in Files, NEW remote, NEW rows \in SUBSET Row, Unique(rows)
  PROVE  /\ LastPath \in Path /\ \A q \in Path : q <= LastPath
         /\ \E u : /\ u[0] = fs /\ Replay(fs, remote, rows) = u[LastPath]
                   /\ \A n \in 1 .. LastPath :
                        u[n] = ReplayPath(fs, remote, rows, u[n - 1], n)
<1> DEFINE L == LastPath
           After(v, n) == ReplayPath(fs, remote, rows, v, n)
           g == [x \in (1 .. L) \X Files |-> After(x[2], x[1])]
           Runs(u) == u = [n \in 0 .. L |-> IF n = 0 THEN fs ELSE After(u[n - 1], n)]
<1>1. L \in Path /\ \A q \in Path : q <= L
  BY DEF Bounded, LastPath
<1>2. L \in Nat
  BY <1>1, PathAssumption
<1>3. ASSUME NEW v \in Files, NEW n \in 1 .. L
      PROVE  After(v, n) \in Files
  <2>1. CASE \E r \in rows : r.path = n
    <3>1. PICK r \in rows : r.path = n
      BY <2>1
    <3>2. After(v, n) = v \/ After(v, n) = RowRestored(v, remote, r)
      BY <3>1, ReplayPathIs
    <3>3. QED
      BY <3>2, RowRestoredType
  <2>2. CASE \A r \in rows : r.path # n
    BY <2>2, ReplayPathIs
  <2>3. QED
    BY <2>1, <2>2
<1> HIDE DEF L, After
<1>4. g \in [(1 .. L) \X Files -> Files]
  BY <1>3
<1>5. PICK w \in [0 .. L -> Files] : w[0] = fs /\ \A n \in 1 .. L : w[n] = g[<<n, w[n - 1]>>]
  <2> HIDE DEF g
  <2>1. \E w : Iterates(w, L, Files, fs, g)
    BY <1>2, <1>4, StepsExist
  <2>2. QED
    BY <2>1, Zenon DEF Iterates
<1>6. \A n \in 1 .. L : n - 1 \in 0 .. L /\ <<n, w[n - 1]>> \in (1 .. L) \X Files
  BY <1>2
<1>7. \A n \in 1 .. L : w[n] = After(w[n - 1], n)
  BY <1>5, <1>6
<1>8. Runs(w)
  <2>1. \A n \in 0 .. L : w[n] = IF n = 0 THEN fs ELSE After(w[n - 1], n)
    <3>1. \A n \in 0 .. L : n # 0 => n \in 1 .. L
      BY <1>2
    <3>2. QED
      BY <1>5, <1>7, <3>1
  <2>2. w = [n \in 0 .. L |-> w[n]]
    BY <1>5
  <2>3. [n \in 0 .. L |-> w[n]] = [n \in 0 .. L |-> IF n = 0 THEN fs ELSE After(w[n - 1], n)]
    BY <2>1, Zenon
  <2>4. QED
    BY <2>2, <2>3
<1> DEFINE u == CHOOSE u : Runs(u)
<1>9. Runs(u)
  <2> HIDE DEF Runs
  <2>1. QED
    BY <1>8
<1>10. Replay(fs, remote, rows) = u[L]
  BY Zenon DEF Replay, L, After
<1> HIDE DEF u
<1>11. u[0] = fs /\ \A n \in 1 .. L : u[n] = After(u[n - 1], n)
  BY <1>2, <1>9
<1>12. QED
  BY <1>1, <1>10, <1>11 DEF L, After

\* The row of the directory of what was there is that directory's.
LEMMA DirectoryRow ==
  ASSUME NEW rows, Restorable(rows), NEW q \in rows, NEW r \in rows,
         q.path = Parent[r.path], r.seen.kind # "absent"
  PROVE  /\ q.path \in Dirs /\ Parent[q.path] = 0
         /\ HasMetadata(q) /\ q.typ = "dir"
<1>1. q.path \in Path /\ r.path \in Path /\ Records(q)
  BY DEF Restorable, Row
<1>2. q.path \in Dirs /\ Parent[q.path] = 0
  BY <1>1, PathAssumption DEF Dirs
<1>3. q.seen.kind # "absent" /\ q.seen \in Plain(q.path)
  BY <1>1 DEF Restorable, Whole, Records
<1>4. q.seen.kind = "dir"
  BY <1>1, <1>2, <1>3, PlainKinds DEF Entry, Kind
<1>5. q.link = 0 /\ ~RecordedAbsent(q)
  BY <1>1, <1>4 DEF Records, Link, Absent
<1>6. QED
  BY <1>1, <1>2, <1>4, <1>5 DEF Records, HasMetadata

\* The guard admits a row that is fit.
LEMMA FitIsAdmitted ==
  ASSUME NEW fs \in Files, Sound(fs), NEW r \in Row, r.path \in Allowed, Fit(fs, r)
  PROVE  Admitted(fs, r)
<1>1. CASE ~HasMetadata(r)
  <2>1. r.link # 0 \/ RecordedAbsent(r)
    BY <1>1 DEF HasMetadata
  <2>2. Refusals(fs, r) = {FALSE}
    BY <2>1, Zenon DEF Refusals
  <2>3. QED
    BY <2>2 DEF Admitted
<1>2. CASE HasMetadata(r)
  <2> DEFINE refused == \/ ~ProbeAnswers(fs, r.path)
                        \/ /\ WriterTarget(fs, r.path) # 0
                           /\ WriterTarget(fs, r.path) \notin Allowed
  <2>1. Refusals(fs, r) = {refused} \cup (IF Faults THEN {TRUE} ELSE {})
    <3>1. ~(r.link # 0 \/ RecordedAbsent(r))
      BY <1>2 DEF HasMetadata
    <3>2. QED
      BY <3>1, Zenon DEF Refusals
  <2>2. fs[r.path].kind # "link" /\ DirThere(fs, Parent[r.path])
    BY <1>2 DEF Fit
  <2>3. fs[r.path].target = 0
    BY <2>2, PlainKinds DEF Sound, Row
  <2>4. refused = FALSE
    BY <2>2, <2>3 DEF ProbeAnswers, WriterTarget
  <2> HIDE DEF refused
  <2>5. QED
    BY <2>1, <2>4 DEF Admitted
<1>3. QED
  BY <1>1, <1>2

\* A host `fs` as a replay has left it, that has come to the path n.
Replayed(fs, rows, now, n) ==
  /\ now \in Files /\ Sound(now) /\ DirsStay(fs, now)
  /\ \A p \in Path : p > n => now[p] = fs[p]
  /\ \A r \in rows : r.path <= n /\ Fit(fs, r) => now[r.path] = Target(r, fs[r.path])

\* A row is fit on its way as it was at the start.
LEMMA StaysFit ==
  ASSUME NEW fs, NEW now, DirsStay(fs, now), NEW r \in Row, Fit(fs, r),
         now[r.path].kind = "link" => fs[r.path].kind = "link"
  PROVE  Fit(now, r)
<1>1. Parent[r.path] \in Path \cup {0}
  BY PathAssumption DEF Row
<1>2. QED
  BY <1>1 DEF Fit, DirThere, DirsStay

\* A replay comes from one path to the next by the row of that path.
LEMMA ReplayStep ==
  ASSUME Settled, NEW fs \in Files, Sound(fs), NEW remote, NEW rows, Restorable(rows),
         NEW n \in Nat, NEW now, Replayed(fs, rows, now, n - 1), n # 0
  PROVE  Replayed(fs, rows, ReplayPath(fs, remote, rows, now, n), n)
<1> DEFINE gs == ReplayPath(fs, remote, rows, now, n)
<1>1. \A r \in rows : r \in Row /\ r.path \in Path /\ Records(r) /\ r.path \in Allowed
  BY DEF Restorable, Row
<1>2. now \in Files /\ Sound(now) /\ DirsStay(fs, now)
  BY DEF Replayed
<1>3. \A p \in Path : p \in Nat /\ (p >= n => now[p] = fs[p])
  <2>1. \A p \in Path : p \in Nat
    BY PathAssumption
  <2>2. \A p \in Nat : p >= n => p > n - 1
    OBVIOUS
  <2>3. QED
    BY <2>1, <2>2 DEF Replayed
<1>4. \A r \in rows : r.path < n /\ Fit(fs, r) => now[r.path] = Target(r, fs[r.path])
  BY <1>1, <1>3 DEF Replayed
<1>5. CASE \A r \in rows : r.path # n
  <2>1. gs = now
    <3>1. Unique(rows)
      BY DEF Restorable
    <3>2. (\A r \in rows : r.path # n) => ReplayPath(fs, remote, rows, now, n) = now
      BY <3>1, ReplayPathIs
    <3>3. QED
      BY <1>5, <3>2
  <2> HIDE DEF gs
  <2>2. \A r \in rows : r.path <= n => r.path < n
    BY <1>1, <1>3, <1>5
  <2>3. \A p \in Path : p > n => p >= n
    BY <1>3
  <2>4. Replayed(fs, rows, gs, n)
    BY <1>2, <1>3, <1>4, <2>1, <2>2, <2>3 DEF Replayed
  <2>5. QED
    BY <2>4 DEF gs
<1>6. CASE \E r \in rows : r.path = n
  <2>1. PICK r \in rows : r.path = n
    BY <1>6
  <2>2. gs = IF Admitted(fs, r) /\ Admitted(now, r) THEN RowRestored(now, remote, r) ELSE now
    BY <2>1, ReplayPathIs DEF Restorable
  <2>3. r \in Row /\ Records(r) /\ n \in Path /\ n \in Allowed /\ now[n] = fs[n]
    BY <1>1, <1>3, <2>1
  <2>4. Fit(fs, r) => Fit(now, r) /\ Admitted(fs, r) /\ Admitted(now, r)
    BY <1>2, <2>1, <2>3, StaysFit, FitIsAdmitted
  <2> HIDE DEF gs
  <2>5. /\ gs \in Files /\ Sound(gs) /\ DirsStay(now, gs)
        /\ gs = now \/ Spared(now, gs, r)
        /\ Fit(fs, r) => gs[n] = Target(r, fs[n])
    <3>1. CASE Admitted(fs, r) /\ Admitted(now, r)
      <4>1. Aim(now, r)
        BY <1>2, <2>3, <3>1, AdmittedIsAimed DEF Admitted
      <4>2. gs = RowRestored(now, remote, r)
        BY <2>2, <3>1
      <4>3. QED
        BY <1>2, <2>1, <2>3, <2>4, <4>1, <4>2, RowRestoredIs
    <3>2. CASE ~(Admitted(fs, r) /\ Admitted(now, r))
      BY <1>2, <2>2, <2>4, <3>2 DEF DirsStay
    <3>3. QED
      BY <3>1, <3>2
  <2>6. DirsStay(fs, gs)
    BY <1>2, <2>5 DEF DirsStay
  <2>7. ASSUME NEW p \in Path, p > n
        PROVE  gs[p] = fs[p]
    <3>1. now[p] = fs[p] /\ p # n /\ p # Parent[n]
      BY <1>3, <2>3, <2>7, PathAssumption
    <3>2. QED
      BY <2>1, <2>5, <3>1 DEF Spared
  <2>8. ASSUME NEW s \in rows, s.path <= n, Fit(fs, s)
        PROVE  gs[s.path] = Target(s, fs[s.path])
    <3>1. CASE s.path = n
      <4>1. s = r
        BY <2>1, <3>1 DEF Restorable, Unique
      <4>2. QED
        BY <2>1, <2>5, <2>8, <4>1
    <3>2. CASE s.path # n
      <4>1. s.path < n /\ s.path \in Path
        BY <1>1, <1>3, <2>8, <3>2
      <4>2. now[s.path] = Target(s, fs[s.path])
        BY <1>4, <2>8, <4>1
      <4>3. ASSUME s.path = Parent[n], now[s.path].kind = "absent", r.seen.kind # "absent"
            PROVE  FALSE
        <5>1. HasMetadata(s) /\ s.typ = "dir"
          BY <2>1, <4>3, DirectoryRow
        <5>2. Target(s, fs[s.path]) = Dir(s.mode, s.owner)
          BY <5>1 DEF Target, HasMetadata
        <5>3. QED
          BY <4>2, <4>3, <5>2 DEF Dir
      <4>4. gs[s.path] = now[s.path]
        BY <2>1, <2>5, <3>2, <4>1, <4>3 DEF Spared
      <4>5. QED
        BY <4>2, <4>4
    <3>3. QED
      BY <3>1, <3>2
  <2>9. Replayed(fs, rows, gs, n)
    BY <2>5, <2>6, <2>7, <2>8 DEF Replayed
  <2>10. QED
    BY <2>9 DEF gs
<1>7. QED
  BY <1>5, <1>6

\* A rollback replayed in one piece leaves at the path of a row its Target.
LEMMA ReplayTarget ==
  ASSUME Settled, Bounded, NEW fs \in Files, Sound(fs), NEW remote,
         NEW rows, Restorable(rows), NEW r \in rows, Fit(fs, r)
  PROVE  Replay(fs, remote, rows)[r.path] = Target(r, fs[r.path])
<1> DEFINE L == LastPath
<1>1. rows \in SUBSET Row /\ Unique(rows) /\ \A s \in rows : s.path \in Path
  BY DEF Restorable, Row
<1>2. /\ L \in Path /\ \A q \in Path : q <= L
      /\ \E u : /\ u[0] = fs /\ Replay(fs, remote, rows) = u[L]
                /\ \A n \in 1 .. L : u[n] = ReplayPath(fs, remote, rows, u[n - 1], n)
  BY <1>1, ReplayUnfolds
<1>3. PICK u : /\ u[0] = fs /\ Replay(fs, remote, rows) = u[L]
               /\ \A n \in 1 .. L : u[n] = ReplayPath(fs, remote, rows, u[n - 1], n)
  BY <1>2
<1>4. L \in Nat
  BY <1>2, PathAssumption
<1> HIDE DEF L
<1> DEFINE T == {n \in 0 .. L : Replayed(fs, rows, u[n], n)}
<1>5. 0 \in T
  <2>1. \A p \in Path : p \in Nat /\ p # 0
    BY PathAssumption
  <2>2. \A s \in rows : ~(s.path <= 0)
    BY <1>1, <2>1
  <2>3. Replayed(fs, rows, u[0], 0)
    BY <1>3, <2>2 DEF Replayed, DirsStay
  <2>4. QED
    BY <1>4, <2>3
<1>6. ASSUME NEW n \in 1 .. L, n - 1 \in T
      PROVE  n \in T
  <2>1. n \in Nat /\ n # 0 /\ n \in 0 .. L
    BY <1>4
  <2>2. Replayed(fs, rows, u[n - 1], n - 1)
    BY <1>6
  <2>3. Replayed(fs, rows, u[n], n)
    BY <1>3, <2>1, <2>2, ReplayStep
  <2>4. QED
    BY <2>1, <2>3
<1>7. L \in T
  <2> HIDE DEF T
  <2>1. 0 .. L \subseteq T
    BY <1>4, <1>5, <1>6, UpTo
  <2>2. QED
    BY <1>4, <2>1
<1>8. r.path <= L
  BY <1>1, <1>2
<1>9. QED
  BY <1>3, <1>7, <1>8 DEF Replayed

\* What is left of an entry has the same Target.
LEMMA LeftTarget ==
  ASSUME NEW before, NEW fs, Sound(before), Sound(fs), NEW r \in Row, Records(r),
         Left(before, fs, r)
  PROVE  Target(r, fs[r.path]) = Target(r, before[r.path])
<1> DEFINE is == fs[r.path]
           was == before[r.path]
<1>1. r.path \in Path /\ is \in Plain(r.path) /\ was \in Plain(r.path)
  BY DEF Row, Sound
<1>2. (is.kind = "absent" => is = Absent) /\ (was.kind = "absent" => was = Absent)
  BY <1>1, PlainKinds
<1>3. HasMetadata(r) /\ r.typ # "dir" => r.typ = "file"
  BY DEF Records
<1>4. CASE r.link # 0
  BY <1>4 DEF Target
<1>5. CASE r.link = 0 /\ RecordedAbsent(r)
  BY <1>5 DEF Target, Left
<1>6. CASE HasMetadata(r)
  BY <1>2, <1>3, <1>6 DEF Target, Left, HasMetadata
<1>7. QED
  BY <1>4, <1>5, <1>6 DEF HasMetadata

\* A plan is as fit after the writes of a rollback as before them.
LEMMA PastFit ==
  ASSUME "sort" \notin RacePC, NEW at, NEW fs, Past(at, fs), NEW r \in at.plan
  PROVE  Fit(at.before, r) /\ Fit(fs, r)
<1>1. Fit(at.before, r) /\ r \in Row /\ Left(at.before, fs, r) /\ DirsStay(at.before, fs)
  BY DEF Past, Restorable
<1>2. CASE HasMetadata(r)
  BY <1>1, <1>2, StaysFit DEF Left
<1>3. CASE ~HasMetadata(r)
  BY <1>3 DEF Fit
<1>4. QED
  BY <1>1, <1>2, <1>3

\* So a rollback run again ends where it would have.
LEMMA RetryFollows ==
  ASSUME Settled, Bounded, "sort" \notin RacePC, TypeOK, HostsSound, PastInv
  PROVE  RetryConverges
<1>1. ASSUME NEW h \in Host, NEW r \in last[h].plan
      PROVE  Replay(files[h], h \in Remote, last[h].plan)[r.path]
               = Replay(last[h].before, h \in Remote, last[h].plan)[r.path]
  <2> DEFINE at == last[h]
             fs == files[h]
  <2>1. at # Untouched
    BY <1>1 DEF Untouched
  <2>2. Past(at, fs) /\ fs \in Files /\ Sound(fs)
    BY <2>1 DEF PastInv, HostsSound, TypeOK
  <2>3. /\ at.before \in Files /\ Sound(at.before) /\ Restorable(at.plan)
        /\ r \in Row /\ Records(r) /\ Left(at.before, fs, r)
    BY <2>2 DEF Past, Restorable
  <2>4. Fit(at.before, r) /\ Fit(fs, r)
    BY <2>2, PastFit
  <2> HIDE DEF at, fs
  <2>5. Replay(fs, h \in Remote, at.plan)[r.path] = Target(r, fs[r.path])
    BY <1>1, <2>2, <2>3, <2>4, ReplayTarget DEF at
  <2>6. Replay(at.before, h \in Remote, at.plan)[r.path] = Target(r, at.before[r.path])
    BY <1>1, <2>2, <2>3, <2>4, ReplayTarget DEF at
  <2>7. QED
    BY <2>2, <2>3, <2>5, <2>6, LeftTarget DEF at, fs
<1>2. QED
  BY <1>1, Zenon DEF RetryConverges

\* The row of a snapshot puts back what stood there, whatever the writes of a
\* row left of it, but for what is beyond undo.
LEMMA SnapshotUndoes ==
  ASSUME NEW before \in Files, Sound(before), NEW fs \in Files, Sound(fs), DirsStay(before, fs),
         NEW r \in Row, Records(r), Left(before, fs, r), NEW s \in Row, Records(s),
         Snaps(s, before, r), ~BeyondUndo(before[r.path], r)
  PROVE  Fit(fs, s) /\ Target(s, fs[s.path]) = before[r.path]
<1> DEFINE p == r.path
           is == fs[p]
           was == before[p]
<1>1. /\ p \in Path /\ is \in Plain(p) /\ was \in Plain(p) /\ r.seen \in Plain(p)
      /\ s.path = p /\ s.seen = was
  BY DEF Row, Sound, Records, Snaps
<1>2. /\ was.kind = "file" => r.link = 0 /\ ~RecordedAbsent(r)
      /\ was.kind = "absent" => r.typ # "dir" /\ p \notin Undeletable
  BY DEF BeyondUndo
<1>3. r.link # 0 => p \notin Dirs
  BY <1>1, PlainKinds DEF Records, Link
<1>4. HasMetadata(r) => r.typ \in {"file", "dir"} /\ (r.typ = "dir" <=> p \in Dirs)
  BY <1>1, PlainKinds DEF Records
<1>5. CASE s.link # 0
  <2>1. was = Link(s.link)
    BY <1>1, <1>5 DEF Records
  <2>2. QED
    BY <1>5, <2>1 DEF Target, Fit, HasMetadata
<1>6. CASE s.link = 0 /\ RecordedAbsent(s)
  <2>1. was = Absent /\ was.kind = "absent"
    BY <1>1, <1>6 DEF Records, Absent
  <2>2. is.kind # "dir"
    <3>1. is.kind = "dir" => p \in Dirs
      BY <1>1, PlainKinds
    <3>2. CASE r.link = 0 /\ RecordedAbsent(r)
      BY <1>2, <2>1, <3>2 DEF Left
    <3>3. QED
      BY <1>2, <1>3, <1>4, <2>1, <3>1, <3>2 DEF HasMetadata
  <2>3. QED
    BY <1>1, <1>2, <1>6, <2>1, <2>2 DEF Target, Fit, HasMetadata
<1>7. CASE HasMetadata(s)
  <2>1. /\ s.typ \in {"file", "dir"} /\ s.typ = was.kind /\ s.mode = was.mode
        /\ s.owner = was.owner /\ s.link = 0 /\ ~RecordedAbsent(s)
        /\ s.content # NoContent => s.typ = "file" /\ s.content = was.content
    BY <1>1, <1>7 DEF Records, HasMetadata
  <2>2. is.kind # "link"
    <3>1. was.kind = "dir" => is.kind = "dir"
      BY <1>1 DEF DirsStay
    <3>2. was.kind = "file" => HasMetadata(r)
      BY <1>2 DEF HasMetadata
    <3>3. QED
      BY <2>1, <3>1, <3>2 DEF Left
  <2>3. DirThere(before, Parent[p])
    BY <1>1, <2>1 DEF Sound, Coherent
  <2>4. Fit(fs, s)
    <3>1. Fit(before, s)
      BY <1>1, <2>1, <2>3 DEF Fit
    <3>2. QED
      BY <1>1, <2>2, <3>1, StaysFit
  <2>5. CASE s.typ = "dir"
    BY <1>1, <2>1, <2>4, <2>5, PlainKinds DEF Target
  <2>6. CASE s.typ = "file"
    <3>1. was = File(was.content, s.mode, s.owner)
      BY <1>1, <2>1, <2>6, PlainKinds
    <3>2. CASE s.content # NoContent
      BY <1>1, <2>1, <2>4, <2>6, <3>1, <3>2 DEF Target
    <3>3. CASE s.content = NoContent
      <4>1. r.content = NoContent
        BY <1>7, <2>6, <3>3 DEF Snaps
      <4>2. HasMetadata(r) /\ r.typ = "file"
        <5>1. HasMetadata(r) /\ p \notin Dirs
          BY <1>1, <1>2, <2>1, <2>6, PlainKinds DEF HasMetadata
        <5>2. QED
          BY <1>4, <5>1
      <4>3. is.kind = "file" /\ is.content = was.content
        BY <2>1, <2>6, <4>1, <4>2 DEF Left
      <4>4. Target(s, is) = File(is.content, s.mode, s.owner)
        BY <2>1, <2>6, <3>3, <4>3 DEF Target
      <4>5. QED
        BY <1>1, <2>4, <3>1, <4>3, <4>4
    <3>4. QED
      BY <3>2, <3>3
  <2>7. QED
    BY <2>1, <2>5, <2>6
<1>8. QED
  BY <1>5, <1>6, <1>7 DEF HasMetadata

\* So a rollback can be undone from its snapshot.
LEMMA UndoFollows ==
  ASSUME Settled, Bounded, TypeOK, OrderInv, HostsSound, StoredWhole, PastInv, SnapshotInv
  PROVE  UndoRestores
<1>1. ASSUME NEW h \in Host, NEW c \in db, c.valid, last[h].undo = c.id, NEW r \in last[h].plan,
             ~BeyondUndo(last[h].before[r.path], r)
      PROVE  UndoneAsBefore(h, c, r)
  <2> DEFINE at == last[h]
             fs == files[h]
  <2>1. at # Untouched
    BY <1>1 DEF Untouched
  <2>2. Past(at, fs) /\ fs \in Files /\ Sound(fs)
    BY <2>1 DEF PastInv, HostsSound, TypeOK
  <2>3. /\ at.before \in Files /\ Sound(at.before) /\ Restorable(at.plan)
        /\ r \in Row /\ Records(r) /\ Left(at.before, fs, r) /\ DirsStay(at.before, fs)
    BY <2>2 DEF Past, Restorable
  <2>4. /\ RowsPaths(c.rows) \subseteq RowsPaths(at.plan)
        /\ \E s \in c.rows : Snaps(s, at.before, r)
    BY <1>1 DEF SnapshotInv
  <2>5. Restorable(c.rows)
    <3>1. c.rows \subseteq Row /\ Unique(c.rows) /\ Whole(c.rows) /\ \A s \in c.rows : Records(s)
      BY <1>1 DEF TypeOK, CheckpointRec, OrderInv, StoredWhole
    <3>2. \A s \in c.rows : \E q \in at.plan : s.path = q.path
      BY <2>4 DEF RowsPaths
    <3>3. \A q \in at.plan : q.path \in Allowed
      BY <2>3 DEF Restorable
    <3>4. QED
      BY <3>1, <3>2, <3>3 DEF Restorable
  <2>6. PICK s \in c.rows : Snaps(s, at.before, r)
    BY <2>4
  <2>7. s \in Row /\ Records(s) /\ s.path = r.path
    BY <2>5, <2>6 DEF Restorable, Snaps
  <2> HIDE DEF fs
  <2>8. Fit(fs, s) /\ Target(s, fs[s.path]) = at.before[r.path]
    BY <1>1, <2>2, <2>3, <2>6, <2>7, SnapshotUndoes
  <2>9. Replay(fs, h \in Remote, c.rows)[s.path] = Target(s, fs[s.path])
    BY <2>2, <2>5, <2>6, <2>8, ReplayTarget
  <2>10. QED
    BY <2>7, <2>8, <2>9 DEF UndoneAsBefore, fs
<1>2. QED
  BY <1>1 DEF UndoRestores

\* A chmod or chown leaves every path what it is and what it holds.
LEMMA MetadataLeaves ==
  ASSUME NEW fs \in Files, NEW r \in Row, NEW x \in RestoreMetadata(fs, r), HasMetadata(r)
  PROVE  Left(fs, x.files, r) /\ DirsStay(fs, x.files)
<1> DEFINE p == r.path
           Alike(f, g) == \A q \in Path : g[q].kind = f[q].kind /\ g[q].content = f[q].content
<1>1. PICK z \in Chmod(fs, p, r.mode) :
        \E y \in Chown(z.files, p, r.owner) :
          x = [files |-> y.files, ok |-> z.ok /\ y.ok /\ r.absence # "read_failed"]
  BY RestoreMetadataParts
<1>2. PICK y \in Chown(z.files, p, r.owner) : x.files = y.files
  BY <1>1
<1>3. p \in Path /\ r.mode \in Mode \cup {NoMode}
  BY DEF Row
<1>4. z.files \in Files
  BY <1>3, ChmodType DEF Outcome
<1>5. Alike(fs, z.files)
  <2> DEFINE moded == [fs EXCEPT ![Final(fs, p)].mode = r.mode]
  <2>1. Alike(fs, moded)
    BY DEF Files, Entry
  <2>2. z = Failed(fs) \/ z = Done(moded)
    BY Zenon DEF Chmod, Outcomes
  <2> HIDE DEF moded
  <2>3. Alike(fs, fs) /\ (z.files = fs \/ z.files = moded)
    BY <2>2 DEF Done, Failed
  <2> HIDE DEF Alike
  <2>4. QED
    BY <2>1, <2>3
<1>6. Alike(z.files, y.files)
  <2> DEFINE gs == z.files
             owned == [gs EXCEPT ![Final(gs, p)].owner = r.owner]
  <2>1. Alike(gs, owned)
    BY <1>4 DEF Files, Entry
  <2>2. y = Failed(gs) \/ y = Done(owned)
    BY Zenon DEF Chown, Outcomes
  <2> HIDE DEF owned
  <2>3. Alike(gs, gs) /\ (y.files = gs \/ y.files = owned)
    BY <2>2 DEF Done, Failed
  <2> HIDE DEF Alike
  <2>4. QED
    BY <2>1, <2>3
<1>7. Alike(fs, x.files)
  BY <1>2, <1>5, <1>6
<1>8. QED
  BY <1>3, <1>7 DEF Left, DirsStay, HasMetadata

\* What was left of an entry and is then left of that, is left of the first.
LEMMA LeftAgain ==
  ASSUME NEW before, NEW fs, NEW gs, NEW r, Left(before, fs, r), Left(fs, gs, r)
  PROVE  Left(before, gs, r)
BY DEF Left

\* The writes of a row leave the past of every row of the plan.
LEMMA PastKept ==
  ASSUME NEW at, NEW fs, Sound(fs), Past(at, fs), NEW gs, Sound(gs), NEW r \in at.plan,
         Spared(fs, gs, r), Left(fs, gs, r), DirsStay(fs, gs)
  PROVE  Past(at, gs)
<1>1. Restorable(at.plan) /\ Sound(at.before) /\ DirsStay(at.before, gs)
  BY DEF Past, DirsStay
<1>2. ASSUME NEW q \in at.plan
      PROVE  Left(at.before, gs, q)
  <2>1. Left(at.before, fs, q) /\ q.path \in Path
    BY <1>1 DEF Past, Restorable, Row
  <2>2. CASE q.path = r.path
    <3>1. q = r
      BY <1>1, <2>2 DEF Restorable, Unique
    <3>2. QED
      BY <2>1, <3>1, LeftAgain
  <2>3. CASE q.path # r.path /\ gs[q.path] = fs[q.path]
    <3>1. Left(fs, gs, q)
      BY <2>3 DEF Left
    <3>2. QED
      BY <2>1, <3>1, LeftAgain
  <2>4. CASE q.path = Parent[r.path] /\ r.seen.kind # "absent"
    <3>1. q.path \in Dirs /\ HasMetadata(q) /\ q.typ = "dir"
      BY <1>1, <2>4, DirectoryRow
    <3>2. at.before[q.path].kind # "link" /\ gs[q.path].kind # "link"
      BY <1>1, <2>1, <3>1, PlainKinds DEF Sound
    <3>3. QED
      BY <3>1, <3>2 DEF Left, HasMetadata
  <2>5. QED
    BY <2>1, <2>2, <2>3, <2>4 DEF Spared
<1>3. QED
  BY <1>1, <1>2 DEF Past

\* What any step leaves of the past of the hosts.
LEMMA PastStep ==
  ASSUME Settled, TypeOK, OrderInv, TargetInv, HonestInv, PastInv, UnderwayInv, Next
  PROVE  PastInv'
<1>1. ASSUME NEW h \in Host
      PROVE  files[h] \in Files /\ Sound(files[h]) /\ last[h] \in LastRec
             /\ (last[h] # Untouched => Past(last[h], files[h]))
  BY DEF HonestInv, HostsSound, TypeOK, PastInv
<1>2. ASSUME NEW o \in Operator
      PROVE  /\ op[o].host \in Host /\ op[o].plan \in SUBSET Row /\ Unique(op[o].plan)
             /\ Whole(op[o].plan) /\ \A r \in op[o].plan : Records(r)
             /\ Honest(op[o], Fs(o), last[op[o].host]) /\ OnTarget(op[o], Fs(o))
             /\ Underway(op[o], Fs(o), last[op[o].host])
  BY DEF HonestInv, CallsHonest, Honest, TypeOK, OpRec, TargetInv, OrderInv, InOrder, UnderwayInv
<1>3. ASSUME NEW o \in Operator, op[o].pc \in {"entry", "meta"}, NEW r \in op[o].plan,
             NEW fs, Sound(fs), Spared(Fs(o), fs, r), Left(Fs(o), fs, r), DirsStay(Fs(o), fs),
             files' = [files EXCEPT ![op[o].host] = fs], UNCHANGED last
      PROVE  PastInv'
  <2> DEFINE g == op[o].host
  <2>1. \A h \in Host : files'[h] = IF h = g THEN fs ELSE files[h]
    BY <1>3 DEF TypeOK
  <2>2. last[g] # Untouched => Past(last[g], fs)
    <3>1. last[g] # Untouched => last[g].plan = op[o].plan
      BY <1>2, <1>3 DEF Underway
    <3>2. Sound(Fs(o)) /\ (last[g] # Untouched => Past(last[g], Fs(o)))
      BY <1>1, <1>2 DEF Fs
    <3>3. QED
      BY <1>3, <3>1, <3>2, PastKept
  <2>3. QED
    BY <1>1, <1>3, <2>1, <2>2 DEF PastInv
<1>4. ASSUME NEW o \in Operator, WriteEntry(o)
      PROVE  PastInv'
  <2>1. PICK r, x :
          /\ r \in op[o].plan /\ Least(r.path, op[o].todo) /\ x \in RestoreEntry(Fs(o), Far(o), r)
          /\ files' = [files EXCEPT ![op[o].host] = x.files]
    BY <1>4, Zenon DEF WriteEntry
  <2>2. Aim(Fs(o), r) /\ Records(r) /\ r \in Row /\ op[o].pc = "entry" /\ UNCHANGED last
    BY <1>2, <1>4, <2>1 DEF WriteEntry, OnTarget
  <2>3. Sound(x.files) /\ Spared(Fs(o), x.files, r)
    BY <1>1, <1>2, <2>1, <2>2, EntryEffect DEF Fs
  <2>4. Left(Fs(o), x.files, r) /\ DirsStay(Fs(o), x.files)
    BY <1>1, <1>2, <2>1, <2>2, EntryLeaves DEF Fs
  <2>5. QED
    BY <1>3, <2>1, <2>2, <2>3, <2>4
<1>5. ASSUME NEW o \in Operator, WriteMetadata(o)
      PROVE  PastInv'
  <2>1. PICK r, x :
          /\ r \in op[o].plan /\ Least(r.path, op[o].todo) /\ x \in RestoreMetadata(Fs(o), r)
          /\ files' = [files EXCEPT ![op[o].host] = x.files]
    BY <1>5, Zenon DEF WriteMetadata
  <2>2. /\ Aim(Fs(o), r) /\ HasMetadata(r) /\ Ready(Fs(o), r) /\ Records(r) /\ r \in Row
        /\ op[o].pc = "meta" /\ UNCHANGED last
    BY <1>2, <1>5, <2>1 DEF WriteMetadata, OnTarget, Honest
  <2>3. Sound(x.files) /\ Spared(Fs(o), x.files, r)
    BY <1>1, <1>2, <2>1, <2>2, MetadataEffect DEF Fs
  <2>4. Left(Fs(o), x.files, r) /\ DirsStay(Fs(o), x.files)
    BY <1>1, <1>2, <2>1, <2>2, MetadataLeaves DEF Fs
  <2>5. QED
    BY <1>3, <2>1, <2>2, <2>3, <2>4
<1>6. CASE HostChanges
  <2>1. PICK h, p, e : /\ h \in Host
                       /\ files' = [files EXCEPT ![h][p] = e]
                       /\ last' = [last EXCEPT ![h] = Untouched]
    BY <1>6, Zenon DEF HostChanges
  <2>2. /\ last'[h] = Untouched
        /\ \A g \in Host : g # h => files'[g] = files[g] /\ last'[g] = last[g]
    BY <2>1 DEF TypeOK
  <2>3. QED
    BY <1>1, <2>2 DEF PastInv
<1>7. ASSUME NEW o \in Operator, Persist(o)
      PROVE  PastInv'
  <2> DEFINE h == op[o].host
             at == [undo |-> issued + 1, before |-> Fs(o), plan |-> op[o].plan]
  <2>1. /\ op[o].pc = "persist" /\ last' = [last EXCEPT ![h] = at] /\ UNCHANGED files
    BY <1>7 DEF Persist
  <2>2. \A g \in Host : last'[g] = IF g = h THEN at ELSE last[g]
    BY <2>1 DEF TypeOK
  <2>3. at.before = Fs(o) /\ at.plan = op[o].plan
    OBVIOUS
  <2> HIDE DEF at
  <2>4. \A r \in op[o].plan : r.path \in Allowed /\ ("sort" \notin RacePC => Fit(Fs(o), r))
    BY <1>2, <2>1 DEF Underway
  <2>5. Restorable(op[o].plan)
    BY <1>2, <2>4 DEF Restorable
  <2>6. \A r \in op[o].plan : Left(Fs(o), Fs(o), r)
    BY DEF Left
  <2>7. Fs(o) = files[h] /\ Fs(o) \in Files /\ Sound(Fs(o)) /\ DirsStay(Fs(o), Fs(o))
    BY <1>1, <1>2 DEF Fs, DirsStay
  <2>8. Past(at, files[h])
    BY <2>3, <2>4, <2>5, <2>6, <2>7 DEF Past
  <2>9. QED
    BY <1>1, <2>1, <2>2, <2>8 DEF PastInv
<1>8. CASE UNCHANGED <<files, last>>
  BY <1>8 DEF PastInv
<1>9. \/ UNCHANGED <<files, last>> \/ HostChanges
      \/ \E o \in Operator : WriteEntry(o) \/ WriteMetadata(o) \/ Persist(o)
  BY Zenon DEF Next, CallStep, BeginCreate, CapturePath, CaptureDone, Store,
    BeginRollback, Load, SortRow, SortDone, SnapshotPath, SnapshotDone,
    Fails, DatabaseFull, CheckRow, Finish, Delete, Crash, Tamper
<1>10. QED
  BY <1>4, <1>5, <1>6, <1>7, <1>8, <1>9

\* What any step leaves of the snapshots.
LEMMA SnapshotStep ==
  ASSUME TypeOK, UnderwayInv, SnapshotInv, Next
  PROVE  SnapshotInv'
<1>1. /\ issued \in Nat /\ \A c \in db : c.id \in 1 .. issued
      /\ \A h \in Host : last[h].undo \in Nat /\ last[h].undo <= issued
      /\ \A h \in Host : last[h] # Untouched => last[h].undo # 0
  BY DEF TypeOK, SnapshotInv, LastRec
<1> DEFINE Covers(c, at) ==
             /\ RowsPaths(c.rows) \subseteq RowsPaths(at.plan)
             /\ \A r \in at.plan : \E s \in c.rows : Snaps(s, at.before, r)
           Kept(at, cs) == \A c \in cs : c.valid /\ c.id = at.undo => Covers(c, at)
<1>2. \A h \in Host : Kept(last[h], db)
  BY DEF SnapshotInv
<1>3. ASSUME issued' \in Nat, issued <= issued', \A c \in db' : c.id \in 1 .. issued',
             \A h \in Host : /\ last'[h].undo <= issued'
                             /\ last'[h] # Untouched => last'[h].undo # 0
                             /\ Kept(last'[h], db')
      PROVE  SnapshotInv'
  BY <1>3 DEF SnapshotInv
<1>4. ASSUME UNCHANGED <<issued, last>>, \A c \in db' : c.id \in 1 .. issued,
             \A c \in db' : c.valid => c \in db
      PROVE  SnapshotInv'
  <2>1. \A h \in Host : Kept(last[h], db')
    BY <1>2, <1>4
  <2> HIDE DEF Kept
  <2>2. QED
    BY <1>1, <1>3, <1>4, <2>1
<1>5. ASSUME NEW o \in Operator, Store(o)
      PROVE  SnapshotInv'
  <2> DEFINE c == Stored(op[o].host, op[o].taken)
  <2>1. c.id = issued + 1
    BY DEF Stored
  <2>2. db' = db \cup {c} /\ issued' = issued + 1 /\ UNCHANGED last
    BY <1>5 DEF Store
  <2> HIDE DEF c
  <2>3. \A h \in Host : c.id # last[h].undo
    BY <1>1, <2>1
  <2>4. \A h \in Host : Kept(last[h], db')
    BY <1>2, <2>2, <2>3
  <2>5. issued' \in Nat /\ issued <= issued' /\ \A d \in db' : d.id \in 1 .. issued'
    BY <1>1, <2>1, <2>2
  <2>6. \A h \in Host : last[h].undo <= issued'
    BY <1>1, <2>2
  <2> HIDE DEF Kept
  <2>7. QED
    BY <1>1, <1>3, <2>2, <2>4, <2>5, <2>6
<1>6. ASSUME NEW o \in Operator, Persist(o)
      PROVE  SnapshotInv'
  <2> DEFINE h == op[o].host
             c == Stored(h, op[o].taken)
             at == [undo |-> issued + 1, before |-> Fs(o), plan |-> op[o].plan]
  <2>1. /\ op[o].pc = "persist" /\ db' = db \cup {c} /\ issued' = issued + 1
        /\ last' = [last EXCEPT ![h] = at]
    BY <1>6 DEF Persist
  <2>2. c.id = issued + 1 /\ c.rows = op[o].taken
    BY DEF Stored
  <2>3. at.undo = issued + 1 /\ at.before = Fs(o) /\ at.plan = op[o].plan
    OBVIOUS
  <2>4. h \in Host /\ \A g \in Host : last'[g] = IF g = h THEN at ELSE last[g]
    BY <2>1 DEF TypeOK, OpRec
  <2>5. Underway(op[o], Fs(o), last[h])
    BY DEF UnderwayInv
  <2> HIDE DEF c, at
  <2>6. Covers(c, at)
    BY <2>1, <2>2, <2>3, <2>5 DEF Underway
  <2>7. Kept(at, db')
    <3>1. \A d \in db : d.id # at.undo
      BY <1>1, <2>3
    <3>2. QED
      BY <2>1, <2>6, <3>1
  <2>8. \A g \in Host : Kept(last[g], db')
    <3>1. \A g \in Host : c.id # last[g].undo
      BY <1>1, <2>2
    <3>2. QED
      BY <1>2, <2>1, <3>1
  <2>9. issued' \in Nat /\ issued <= issued' /\ \A d \in db' : d.id \in 1 .. issued'
    BY <1>1, <2>1, <2>2
  <2>10. at.undo <= issued' /\ at.undo # 0 /\ \A g \in Host : last[g].undo <= issued'
    BY <1>1, <2>1, <2>3
  <2> HIDE DEF Kept
  <2>11. QED
    BY <1>1, <1>3, <2>4, <2>7, <2>8, <2>9, <2>10
<1>7. CASE HostChanges
  <2>1. PICK h \in Host : last' = [last EXCEPT ![h] = Untouched]
    BY <1>7, Zenon DEF HostChanges
  <2>2. UNCHANGED <<db, issued>>
    BY <1>7 DEF HostChanges
  <2>3. \A g \in Host : last'[g] = IF g = h THEN Untouched ELSE last[g]
    BY <2>1 DEF TypeOK
  <2>4. Untouched.undo = 0
    BY DEF Untouched
  <2>5. Kept(Untouched, db)
    BY <1>1, <2>4
  <2> HIDE DEF Kept
  <2>6. QED
    BY <1>1, <1>2, <1>3, <2>2, <2>3, <2>4, <2>5
<1>8. CASE \E o \in Operator : Delete(o)
  BY <1>1, <1>4, <1>8 DEF Delete
<1>9. CASE Tamper
  <2>1. PICK c, rows :
          /\ c \in db
          /\ db' = (db \ {c}) \cup {[c EXCEPT !.rows = rows, !.valid = FALSE]}
          /\ UNCHANGED <<issued, last>>
    BY <1>9, Zenon DEF Tamper
  <2> DEFINE edited == [c EXCEPT !.rows = rows, !.valid = FALSE]
  <2>2. ~edited.valid /\ edited.id = c.id
    BY <2>1 DEF TypeOK, CheckpointRec
  <2> HIDE DEF edited
  <2>3. QED
    BY <1>1, <1>4, <2>1, <2>2 DEF edited
<1>10. CASE UNCHANGED <<db, issued, last>>
  BY <1>1, <1>4, <1>10
<1>11. QED
  BY <1>5, <1>6, <1>7, <1>8, <1>9, <1>10, Zenon DEF Next, CallStep, BeginCreate, CapturePath,
    CaptureDone, BeginRollback, Load, SortRow, SortDone, SnapshotPath, SnapshotDone,
    Fails, DatabaseFull, CheckRow, WriteEntry, WriteMetadata, Finish, Crash

\* The row of a snapshot of what stands there, in the modality of its reference.
LEMMA SnapshotSnaps ==
  ASSUME TypeOK, NEW o \in Operator, Sound(Fs(o)), NEW r \in Row
  PROVE  Snaps(SnapshotRow(op[o].host, r), Fs(o), r)
<1> DEFINE h == op[o].host
           p == r.path
           s == SnapshotRow(h, r)
           e == files[h][p]
<1>1. h \in Host /\ files[h] = Fs(o) /\ p \in Path
  BY DEF TypeOK, OpRec, Fs, Row
<1>2. s.path = p /\ s.seen = Fs(o)[p]
  BY SnapshotRecords
<1>3. e \in Plain(p) /\ (e.kind = "link" => e.target # 0) /\ e.kind \in Kind
  <2>1. e \in Plain(p)
    BY <1>1 DEF Sound
  <2>2. e \in Entry
    BY <1>1, <2>1, PlainKinds
  <2>3. QED
    BY <2>1, <2>2 DEF Entry
<1>4. ASSUME r.content # NoContent, HasMetadata(s), s.typ = "file"
      PROVE  s.content # NoContent
  <2>1. CASE MetaOf(h, p).kind = "file"
    <3>1. s = IF e.kind = "link" THEN LinkRow(h, p) ELSE ContentRow(h, p)
      BY <1>4, <2>1, Zenon DEF SnapshotRow
    <3>2. LinkRow(h, p).typ = "link"
      BY DEF LinkRow, RowOf
    <3>3. s = ContentRow(h, p) /\ e.kind # "link"
      BY <1>4, <3>1, <3>2
    <3>4. e.kind = "file" /\ ContentRow(h, p).content = e.content
      BY <2>1, <3>3 DEF MetaOf, Metadata, Final, ContentRow, RowOf
    <3>5. QED
      BY <1>1, <1>3, <3>3, <3>4, PlainKinds, ValueAssumption
  <2>2. CASE MetaOf(h, p).kind # "file"
    <3>1. s = MetadataRow(h, p)
      BY <2>2, Zenon DEF SnapshotRow
    <3>2. CASE MetaOf(h, p).kind = "absent"
      <4>1. s = AbsentRow(h, p)
        BY <3>1, <3>2, Zenon DEF MetadataRow
      <4>2. QED
        BY <1>4, <4>1 DEF AbsentRow, RowOf
    <3>3. CASE MetaOf(h, p).kind = "link"
      <4>1. e.kind = "link"
        BY <3>3 DEF MetaOf, Metadata, Final
      <4>2. s.link = e.target
        BY <3>1, <3>3 DEF MetadataRow, RowOf, LinkTargetOf
      <4>3. QED
        BY <1>3, <1>4, <4>1, <4>2 DEF HasMetadata
    <3>4. CASE MetaOf(h, p).kind \notin {"absent", "link"}
      <4>1. s.typ = MetaOf(h, p).kind
        BY <3>1, <3>4 DEF MetadataRow, RowOf
      <4>2. QED
        BY <1>4, <2>2, <4>1
    <3>5. QED
      BY <3>2, <3>3, <3>4
  <2>3. QED
    BY <2>1, <2>2
<1>5. QED
  BY <1>1, <1>2, <1>4 DEF Snaps

\* A call still to store its snapshot, or with nothing to roll back, has no
\* past to agree with.
LEMMA BecomesUnderway ==
  ASSUME TypeOK, NEW o \in Operator, NEW call, Becomes(o, call),
         call.pc \notin {"sort", "snapshot", "persist", "check", "entry", "meta"}
  PROVE  Underway(op'[o], files'[op'[o].host], last'[op'[o].host])
<1>1. op'[o] = call
  BY DEF Becomes, TypeOK
<1>2. QED
  BY <1>1 DEF Underway

\* A call between two of its rows keeps its plan.
LEMMA WritesUnderway ==
  ASSUME TypeOK, NEW o \in Operator, Underway(op[o], Fs(o), last[op[o].host]), NEW call,
         Becomes(o, call), op[o].pc \in {"check", "entry", "meta"},
         call.pc \in {"check", "entry", "meta"}, call.plan = op[o].plan,
         call.host = op[o].host, UNCHANGED last
  PROVE  Underway(op'[o], files'[op'[o].host], last'[op'[o].host])
<1>1. op'[o] = call
  BY DEF Becomes, TypeOK
<1>2. QED
  BY <1>1 DEF Underway

\* The guard admits a row only where it is fit.
LEMMA AdmittedIsFit ==
  ASSUME Settled, NEW fs \in Files, Sound(fs), NEW r \in Row, FALSE \in Refusals(fs, r)
  PROVE  r.path \in Allowed /\ Fit(fs, r)
<1>1. Aim(fs, r)
  BY AdmittedIsAimed
<1>2. CASE HasMetadata(r)
  <2> DEFINE refused == \/ ~ProbeAnswers(fs, r.path)
                        \/ /\ WriterTarget(fs, r.path) # 0
                           /\ WriterTarget(fs, r.path) \notin Allowed
  <2>1. r.path \in Allowed /\ ~(r.link # 0 \/ RecordedAbsent(r))
    BY <1>1, <1>2 DEF Aim, HasMetadata
  <2>2. FALSE \in {refused} \cup (IF Faults THEN {TRUE} ELSE {})
    BY <2>1, Zenon DEF Refusals
  <2>3. ~refused
    <3> HIDE DEF refused
    <3>1. QED
      BY <2>2, Zenon
  <2>4. fs[r.path].kind # "link"
    BY <1>1, <1>2, NoLinkThere
  <2>5. QED
    BY <2>1, <2>3, <2>4 DEF Fit, ProbeAnswers
<1>3. CASE ~HasMetadata(r)
  BY <1>1, <1>3 DEF Aim, Fit
<1>4. QED
  BY <1>2, <1>3

\* One step of a call, from its guard to its last row.
LEMMA CallUnderway ==
  ASSUME Settled, TypeOK, OrderInv, HostsSound, UnderwayInv, NEW o \in Operator,
         \/ BeginCreate(o) \/ BeginRollback(o) \/ CallStep(o)
         \/ Fails(o) \/ Crash(o)
  PROVE  Underway(op'[o], files'[op'[o].host], last'[op'[o].host])
<1> DEFINE Goal == Underway(op'[o], files'[op'[o].host], last'[op'[o].host])
           h == op[o].host
<1>1. /\ op[o] \in OpRec /\ h \in Host /\ Fs(o) \in Files /\ Sound(Fs(o)) /\ files[h] = Fs(o)
      /\ Underway(op[o], Fs(o), last[h]) /\ Unique(op[o].plan)
      /\ op[o].plan \in SUBSET Row /\ op[o].todo \in SUBSET Path
      /\ op[o].pc \in {"load", "sort"} => op[o].taken = {}
  BY DEF TypeOK, OpRec, Fs, HostsSound, UnderwayInv, OrderInv, InOrder
<1>2. ASSUME NEW outcome, End(o, outcome) PROVE Goal
  <2>1. IdleOn(h, outcome).pc = "idle"
    BY DEF IdleOn
  <2>2. QED
    BY <1>2, <2>1, BecomesUnderway DEF End
<1>3. CASE BeginCreate(o)
  <2>1. PICK g \in Host, plan \in Plans :
          Becomes(o, [IdleOn(g, "none") EXCEPT
                   !.pc = "capture", !.full = plan.full, !.todo = plan.paths])
    BY <1>3 DEF BeginCreate
  <2>2. op'[o].pc = "capture"
    BY <2>1 DEF Becomes, TypeOK, IdleOn
  <2>3. QED
    BY <2>2 DEF Underway
<1>4. CASE BeginRollback(o)
  <2>1. PICK g \in Host, c \in db :
          Becomes(o, [IdleOn(g, "none") EXCEPT !.pc = "load", !.id = c.id])
    BY <1>4 DEF BeginRollback
  <2>2. op'[o].pc = "load"
    BY <2>1 DEF Becomes, TypeOK, IdleOn
  <2>3. QED
    BY <2>2 DEF Underway
<1>5. CASE CapturePath(o) \/ CaptureDone(o)
  <2>1. op'[o].pc \in {"capture", "store"}
    <3>1. CASE CapturePath(o)
      <4>1. PICK p, row, more :
              Becomes(o, [op[o] EXCEPT !.todo = (@ \ {p}) \cup more, !.inside = @ \cup more,
                                       !.taken = @ \cup {row}])
        BY <3>1, Zenon DEF CapturePath
      <4>2. QED
        BY <1>1, <3>1, <4>1 DEF Becomes, TypeOK, OpRec, CapturePath
    <3>2. CASE CaptureDone(o)
      BY <1>1, <3>2 DEF CaptureDone, Goto, Becomes, TypeOK, OpRec
    <3>3. QED
      BY <1>5, <3>1, <3>2
  <2>2. QED
    BY <2>1 DEF Underway
<1>6. CASE Load(o)
  <2>1. CASE End(o, "error")
    BY <2>1, <1>2
  <2>2. CASE ~End(o, "error")
    <3>1. PICK c : Becomes(o, [op[o] EXCEPT !.pc = "sort", !.todo = RowsPaths(c.rows),
                                            !.plan = c.rows])
      BY <1>6, <2>2, Zenon DEF Load
    <3>2. op'[o].pc = "sort" /\ op'[o].plan = c.rows /\ op'[o].todo = RowsPaths(c.rows)
      BY <1>1, <3>1 DEF Becomes, TypeOK, OpRec
    <3>3. QED
      BY <3>2 DEF Underway, RowsPaths
  <2>3. QED
    BY <2>1, <2>2
<1>7. CASE SortRow(o)
  <2>1. PICK r \in op[o].plan :
          \E refused \in Refusals(Fs(o), r) :
            Becomes(o, [op[o] EXCEPT !.todo = @ \ {r.path},
                                     !.plan = IF refused THEN @ \ {r} ELSE @,
                                     !.bad = IF refused THEN @ \cup {r.path} ELSE @])
    BY <1>7, Zenon DEF SortRow
  <2>2. PICK refused \in Refusals(Fs(o), r) :
            Becomes(o, [op[o] EXCEPT !.todo = @ \ {r.path},
                                     !.plan = IF refused THEN @ \ {r} ELSE @,
                                     !.bad = IF refused THEN @ \cup {r.path} ELSE @])
    BY <2>1
  <2> DEFINE plan == IF refused THEN op[o].plan \ {r} ELSE op[o].plan
             bad == IF refused THEN op[o].bad \cup {r.path} ELSE op[o].bad
             call == [op[o] EXCEPT !.todo = @ \ {r.path}, !.plan = plan, !.bad = bad]
  <2>3. op'[o] = call
    BY <2>2 DEF Becomes, TypeOK
  <2>4. plan \subseteq op[o].plan /\ (r \in plan => ~refused)
    OBVIOUS
  <2> HIDE DEF plan, bad
  <2>5. /\ call.pc = "sort" /\ call.host = h /\ call.plan = plan
        /\ call.todo = op[o].todo \ {r.path}
        /\ op[o].pc = "sort" /\ files'[h] = Fs(o)
    BY <1>1, <1>7 DEF OpRec, SortRow, Fs
  <2> HIDE DEF call
  <2>6. r \in plan => r.path \in Allowed /\ Fit(Fs(o), r)
    <3>1. r \in plan => FALSE \in Refusals(Fs(o), r)
      <4>1. Refusals(Fs(o), r) \subseteq BOOLEAN
        BY RefusalsType
      <4>2. QED
        BY <2>4, <2>2, <4>1
    <3>2. r \in Row
      BY <1>1, <2>1
    <3>3. QED
      BY <1>1, <3>1, <3>2, AdmittedIsFit
  <2>7. ASSUME NEW s \in plan, s.path \notin call.todo
        PROVE  s.path \in Allowed /\ ("sort" \notin RacePC => Fit(Fs(o), s))
    <3>1. CASE s = r
      BY <2>6, <3>1
    <3>2. CASE s # r
      <4>1. s.path \notin op[o].todo
        BY <1>1, <2>1, <2>4, <2>5, <2>7, <3>2 DEF Unique
      <4>2. QED
        BY <1>1, <2>4, <2>5, <4>1 DEF Underway
    <3>3. QED
      BY <3>1, <3>2
  <2>8. QED
    BY <2>3, <2>5, <2>7 DEF Underway
<1>8. CASE SortDone(o)
  <2>1. CASE End(o, "error")
    BY <2>1, <1>2
  <2>2. CASE ~End(o, "error")
    <3> DEFINE call == [op[o] EXCEPT !.pc = "snapshot", !.todo = RowsPaths(op[o].plan)]
    <3>1. op'[o] = call
      BY <1>8, <2>2 DEF SortDone, Becomes, TypeOK
    <3>2. /\ call.pc = "snapshot" /\ call.taken = op[o].taken /\ call.host = h
          /\ call.plan = op[o].plan /\ call.todo = RowsPaths(op[o].plan)
          /\ op[o].pc = "sort" /\ op[o].todo = {} /\ files'[h] = Fs(o)
      BY <1>1, <1>8 DEF OpRec, SortDone
    <3> HIDE DEF call
    <3>3. op[o].taken = {}
      BY <1>1, <3>2
    <3>4. QED
      BY <1>1, <3>1, <3>2, <3>3 DEF Underway, RowsPaths
  <2>3. QED
    BY <2>1, <2>2
<1>9. CASE SnapshotPath(o)
  <2>1. PICK r \in op[o].plan :
          Becomes(o, [op[o] EXCEPT !.todo = @ \ {r.path},
                                   !.taken = @ \cup {SnapshotRow(h, r)}])
    BY <1>9, Zenon DEF SnapshotPath
  <2> DEFINE row == SnapshotRow(h, r)
             call == [op[o] EXCEPT !.todo = @ \ {r.path}, !.taken = @ \cup {row}]
  <2>2. op'[o] = call
    BY <2>1 DEF Becomes, TypeOK
  <2>3. Snaps(row, Fs(o), r) /\ row.path = r.path
    <3>1. r \in Row
      BY <1>1
    <3>2. Snaps(row, Fs(o), r)
      BY <1>1, <3>1, SnapshotSnaps
    <3>3. QED
      BY <3>2 DEF Snaps
  <2> HIDE DEF row
  <2>4. /\ call.pc = "snapshot" /\ call.taken = op[o].taken \cup {row} /\ call.host = h
        /\ call.plan = op[o].plan /\ call.todo = op[o].todo \ {r.path}
        /\ op[o].pc = "snapshot" /\ files'[h] = Fs(o)
    BY <1>1, <1>9 DEF OpRec, SnapshotPath
  <2> HIDE DEF call
  <2>5. ASSUME NEW q \in op[o].plan
        PROVE  q.path \in call.todo \/ \E s \in call.taken : Snaps(s, Fs(o), q)
    <3>1. CASE q = r
      BY <2>3, <2>4, <3>1
    <3>2. CASE q # r
      <4>1. q.path # r.path
        BY <1>1, <3>2 DEF Unique
      <4>2. q.path \in op[o].todo \/ \E s \in op[o].taken : Snaps(s, Fs(o), q)
        BY <1>1, <2>4 DEF Underway
      <4>3. QED
        BY <2>4, <4>1, <4>2
    <3>3. QED
      BY <3>1, <3>2
  <2>6. RowsPaths(call.taken) \subseteq RowsPaths(op[o].plan)
    <3>1. RowsPaths(op[o].taken) \subseteq RowsPaths(op[o].plan)
      BY <1>1, <2>4 DEF Underway
    <3>2. QED
      BY <2>3, <2>4, <3>1 DEF RowsPaths
  <2>7. \A q \in op[o].plan : q.path \in Allowed /\ ("sort" \notin RacePC => Fit(Fs(o), q))
    BY <1>1, <2>4 DEF Underway
  <2>8. QED
    BY <2>2, <2>4, <2>5, <2>6, <2>7 DEF Underway
<1>10. CASE SnapshotDone(o)
  <2> DEFINE call == [op[o] EXCEPT !.pc = "persist"]
  <2>1. op'[o] = call
    BY <1>10 DEF SnapshotDone, Goto, Becomes, TypeOK
  <2>2. /\ call.pc = "persist" /\ call.taken = op[o].taken /\ call.host = h
        /\ call.plan = op[o].plan /\ op[o].pc = "snapshot" /\ op[o].todo = {}
        /\ files'[h] = Fs(o)
    BY <1>1, <1>10 DEF OpRec, SnapshotDone
  <2> HIDE DEF call
  <2>3. QED
    BY <1>1, <2>1, <2>2 DEF Underway
<1>11. CASE Persist(o)
  <2> DEFINE call == [op[o] EXCEPT !.pc = "check", !.undo = issued + 1,
                                   !.todo = RowsPaths(op[o].plan)]
  <2>1. op'[o] = call /\ last'[h].plan = op[o].plan
    BY <1>1, <1>11 DEF Persist, Becomes, TypeOK
  <2>2. call.pc = "check" /\ call.plan = op[o].plan /\ call.host = h
    BY <1>1 DEF OpRec
  <2> HIDE DEF call
  <2>3. QED
    BY <2>1, <2>2 DEF Underway
<1>12. ASSUME NEW p, NEW ok, RowDone(o, p, ok, "check"), UNCHANGED last,
              op[o].pc \in {"check", "entry", "meta"}
       PROVE  Goal
  <2> DEFINE bad == IF ok THEN op[o].bad ELSE op[o].bad \cup {p}
             call == [op[o] EXCEPT !.pc = "check", !.todo = @ \ {p}, !.bad = bad]
  <2>1. Becomes(o, call)
    BY <1>12 DEF RowDone
  <2> HIDE DEF bad
  <2>2. call.pc = "check" /\ call.plan = op[o].plan /\ call.host = h
    BY <1>1 DEF OpRec
  <2> HIDE DEF call
  <2>3. QED
    BY <1>1, <1>12, <2>1, <2>2, WritesUnderway
<1>13. ASSUME NEW pc \in {"entry", "meta"}, Goto(o, pc), UNCHANGED last,
              op[o].pc \in {"check", "entry", "meta"}
       PROVE  Goal
  <2> DEFINE call == [op[o] EXCEPT !.pc = pc]
  <2>1. call.pc = pc /\ call.plan = op[o].plan /\ call.host = h /\ Becomes(o, call)
    BY <1>1, <1>13 DEF OpRec, Goto
  <2> HIDE DEF call
  <2>2. QED
    BY <1>1, <1>13, <2>1, WritesUnderway
<1>14. CASE CheckRow(o) \/ WriteEntry(o) \/ WriteMetadata(o)
  <2>1. /\ op[o].pc \in {"check", "entry", "meta"} /\ UNCHANGED last
        /\ \/ \E p, ok : RowDone(o, p, ok, "check")
           \/ Goto(o, "entry") \/ Goto(o, "meta")
    BY <1>14, Zenon DEF CheckRow, WriteEntry, WriteMetadata
  <2>2. QED
    BY <1>12, <1>13, <2>1
<1>15. CASE Store(o) \/ DatabaseFull(o) \/ Fails(o) \/ Crash(o) \/ Finish(o)
  BY <1>2, <1>15 DEF Store, DatabaseFull, Fails, Crash, Finish
<1>16. QED
  BY <1>3, <1>4, <1>5, <1>6, <1>7, <1>8, <1>9, <1>10, <1>11, <1>14, <1>15 DEF CallStep

\* What anything else leaves of the past of a call's host: all, or nothing.
LEMMA LastIsKept ==
  ASSUME TypeOK, Apart, Next, NEW q \in Operator, op[q].pc # "idle",
         ~(\/ BeginCreate(q) \/ BeginRollback(q) \/ CallStep(q) \/ Fails(q) \/ Crash(q))
  PROVE  last'[op[q].host] \in {last[op[q].host], Untouched}
<1> DEFINE h == op[q].host
<1>1. h \in Host
  BY DEF TypeOK, OpRec
<1>2. ASSUME NEW o \in Operator, Persist(o)
      PROVE  last'[h] = last[h]
  <2>1. o # q
    BY <1>2 DEF CallStep
  <2>2. op[o].pc = "persist" /\ \E v : last' = [last EXCEPT ![op[o].host] = v]
    BY <1>2 DEF Persist
  <2>3. op[o].host # h
    BY <2>1, <2>2 DEF Apart
  <2>4. QED
    BY <1>1, <2>2, <2>3 DEF TypeOK
<1>3. CASE HostChanges
  BY <1>1, <1>3 DEF HostChanges, TypeOK
<1>4. \/ UNCHANGED last \/ HostChanges \/ \E o \in Operator : Persist(o)
  BY Zenon DEF Next, CallStep, BeginCreate, CapturePath, CaptureDone, Store,
    BeginRollback, Load, SortRow, SortDone, SnapshotPath, SnapshotDone,
    Fails, DatabaseFull, CheckRow, WriteEntry, WriteMetadata, Finish, Delete, Crash, Tamper
<1>5. QED
  BY <1>2, <1>3, <1>4

\* What the other calls and the rest of the host leave of a call.
LEMMA OthersUnderway ==
  ASSUME Unraced, TypeOK, Apart, UnderwayInv, Next, NEW q \in Operator, op'[q] = op[q],
         ~(\/ BeginCreate(q) \/ BeginRollback(q) \/ CallStep(q) \/ Fails(q) \/ Crash(q))
  PROVE  Underway(op'[q], files'[op'[q].host], last'[op'[q].host])
<1> DEFINE h == op[q].host
<1>1. Underway(op[q], files[h], last[h])
  BY DEF UnderwayInv, Fs
<1>2. CASE op[q].pc \in {"sort", "snapshot", "persist"}
  <2>1. op[q].pc \notin RacePC => files'[h] = files[h]
    BY <1>2, HostIsKept
  <2>2. op[q].pc # "sort" => op[q].pc \notin RacePC
    BY <1>2 DEF Unraced
  <2>3. CASE files'[h] = files[h]
    BY <1>1, <1>2, <2>3 DEF Underway
  <2>4. CASE op[q].pc = "sort" /\ "sort" \in RacePC
    BY <1>1, <2>4 DEF Underway
  <2>5. QED
    BY <1>2, <2>1, <2>2, <2>3, <2>4
<1>3. CASE op[q].pc \in {"check", "entry", "meta"}
  <2>1. last'[h] \in {last[h], Untouched}
    BY <1>3, LastIsKept
  <2>2. QED
    BY <1>1, <1>3, <2>1 DEF Underway
<1>4. CASE op[q].pc \notin {"sort", "snapshot", "persist", "check", "entry", "meta"}
  BY <1>4 DEF Underway
<1>5. QED
  BY <1>2, <1>3, <1>4

\* What a rollback can be brought back to, at every moment.
LEMMA UndoInvariant ==
  ASSUME Settled, Enclosed, Unraced
  PROVE  Spec /\ []Apart => []UndoInv
<1>1. Init => UndoInv
  <2>1. SUFFICES ASSUME Init PROVE UndoInv
    OBVIOUS
  <2>2. \A h \in Host : last[h] = Untouched /\ last[h].undo = 0
    BY <2>1 DEF Init, Untouched
  <2>3. \A o \in Operator : op[o].pc = "idle"
    BY <2>1 DEF Init, IdleOn
  <2>4. db = {} /\ issued = 0
    BY <2>1 DEF Init
  <2>5. PastInv
    BY <2>2 DEF PastInv
  <2>6. UnderwayInv
    BY <2>3 DEF UnderwayInv, Underway
  <2>7. SnapshotInv
    BY <2>2, <2>4 DEF SnapshotInv
  <2>8. QED
    BY <2>5, <2>6, <2>7 DEF UndoInv
<1>2. TypeOK /\ OrderInv /\ TargetInv /\ HonestInv /\ Apart /\ UndoInv /\ [Next]_vars => UndoInv'
  <2>1. ASSUME TypeOK, OrderInv, TargetInv, HonestInv, Apart, UndoInv, Next
        PROVE  UndoInv'
    <3>1. ASSUME NEW q \in Operator
          PROVE  Underway(op'[q], files'[op'[q].host], last'[op'[q].host])
      <4>1. CASE \/ BeginCreate(q) \/ BeginRollback(q) \/ CallStep(q)
                 \/ Fails(q) \/ Crash(q)
        BY <2>1, <4>1, CallUnderway DEF HonestInv, UndoInv
      <4>2. CASE ~(\/ BeginCreate(q) \/ BeginRollback(q) \/ CallStep(q)
                   \/ Fails(q) \/ Crash(q))
        <5>1. op'[q] = op[q]
          BY <2>1, <4>2, OnlyItsOwnStep
        <5>2. QED
          BY <2>1, <4>2, <5>1, OthersUnderway DEF UndoInv
      <4>3. QED
        BY <4>1, <4>2
    <3>2. UnderwayInv'
      BY <3>1 DEF UnderwayInv, Fs
    <3>3. QED
      BY <2>1, <3>2, PastStep, SnapshotStep DEF UndoInv
  <2>2. UndoInv /\ UNCHANGED vars => UndoInv'
    BY DEF UndoInv, PastInv, UnderwayInv, SnapshotInv, Fs, vars
  <2>3. QED
    BY <2>1, <2>2
<1>3. RacePC \cap {"entry", "meta"} = {}
  BY DEF Unraced
<1>4. Spec /\ []Apart => []TargetInv
  BY <1>3, TargetInvariant
<1>5. QED
  BY <1>1, <1>2, <1>4, HonestInvariant, TypeCorrect, OrderInvariant, PTL DEF Spec

\* A rollback can be undone from the snapshot it stored, whether it finished,
\* failed half way or died (the reversible-rollback guarantee of
\* CheckpointManager::rollback), short of what BeyondUndo names: on the hosts
\* and under the order of calls that ReportsAreHonest asks for.
THEOREM RollbacksCanBeUndone ==
  ASSUME Settled, Enclosed, Unraced, Bounded
  PROVE  Spec /\ []Apart => []UndoRestores
<1>1. TypeOK /\ OrderInv /\ HonestInv /\ UndoInv => UndoRestores
  BY UndoFollows DEF HonestInv, UndoInv
<1>2. QED
  BY <1>1, TypeCorrect, OrderInvariant, HonestInvariant, UndoInvariant, PTL

\* A rollback that failed part way or died is finished by running it again: it
\* ends where an undisturbed run would have, when the host does not change
\* while the guard goes through the rows either.
THEOREM RetriesConverge ==
  ASSUME Settled, Enclosed, Unraced, Bounded, "sort" \notin RacePC
  PROVE  Spec /\ []Apart => []RetryConverges
<1>1. TypeOK /\ HonestInv /\ UndoInv => RetryConverges
  BY RetryFollows DEF HonestInv, UndoInv
<1>2. QED
  BY <1>1, TypeCorrect, HonestInvariant, UndoInvariant, PTL

==============================================================================
