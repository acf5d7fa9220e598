------------------------------ MODULE HostFiles ------------------------------
(***************************************************************************)
(* The part of a host's file system a checkpoint can see, and the file and  *)
(* command operations the checkpoint manager reaches it through             *)
(* (crates/hardener-common/src/executor/mod.rs, and its local and SSH       *)
(* implementations in crates/hardener-core/src/executor/).                  *)
(*                                                                          *)
(* A host is a function from paths to entries.  The two executors disagree  *)
(* on what a symbolic link is to stat(2) and to a write, so every operator  *)
(* that differs takes `remote`.  An operation that may fail is the set of   *)
(* its outcomes, each a record [files, ok].                                 *)
(*                                                                          *)
(* Bounds: directories nest one deep, and a link's target is never a link.  *)
(***************************************************************************)
EXTENDS Naturals

CONSTANTS
  Path,         \* paths, numbered in the byte order of their names
  Parent,       \* the directory a path is in; 0 is one that is always there
  LinkTarget,   \* the paths a symbolic link may point at
  Content,      \* what a file may hold
  NoContent,
  Torn,         \* the content of a file a remote write left half written
  Mode,         \* permission bits
  NoMode,
  CreatedMode,  \* the mode of a file or directory that had to be created
  TempMode,     \* the mode of the temporary file a local write stages
  Owner,
  NoOwner,
  Root,         \* the account every apply and rollback runs as
  Faults        \* whether a command or a read may fail for no visible reason

ASSUME PathAssumption ==
  /\ Path \subseteq Nat \ {0}
  /\ Parent \in [Path -> Path \cup {0}]
  /\ \A p \in Path : Parent[p] < p
  /\ \A p \in Path : Parent[p] # 0 => Parent[Parent[p]] = 0
  /\ LinkTarget \subseteq Path

ASSUME ValueAssumption ==
  /\ NoContent \notin Content /\ Torn \in Content
  /\ NoMode \notin Mode /\ CreatedMode \in Mode /\ TempMode \in Mode
  /\ NoOwner \notin Owner /\ Root \in Owner
  /\ Faults \in BOOLEAN

Kind == {"absent", "file", "dir", "link"}

Entry ==
  {e \in [kind : Kind, content : Content \cup {NoContent},
          mode : Mode \cup {NoMode}, owner : Owner \cup {NoOwner},
          target : LinkTarget \cup {0}] : e.kind = "link" <=> e.target # 0}

Files == [Path -> Entry]

Absent == [kind |-> "absent", content |-> NoContent, mode |-> NoMode,
           owner |-> NoOwner, target |-> 0]

File(c, m, o) == [kind |-> "file", content |-> c, mode |-> m, owner |-> o,
                  target |-> 0]

Dir(m, o) == [kind |-> "dir", content |-> NoContent, mode |-> m, owner |-> o,
              target |-> 0]

Link(t) == [kind |-> "link", content |-> NoContent, mode |-> NoMode,
            owner |-> Root, target |-> t]

Children(d) == {p \in Path : Parent[p] = d}

\* The path a system call that follows links reaches.
Final(files, p) == IF files[p].kind = "link" THEN files[p].target ELSE p

DirThere(files, d) == IF d = 0 THEN TRUE ELSE files[d].kind = "dir"

\* Entries can only be in directories that are there.
Coherent(files) ==
  \A p \in Path : files[p].kind # "absent" => DirThere(files, Parent[p])

Done(files) == [files |-> files, ok |-> TRUE]
Failed(files) == [files |-> files, ok |-> FALSE]

\* A command that changes nothing when it fails, which it must when it
\* `cannot` and may, under Faults, at any time.
Outcomes(files, can, after) ==
  (IF can THEN {Done(after)} ELSE {Failed(files)})
    \cup (IF Faults THEN {Failed(files)} ELSE {})

------------------------------------------------------------------------------
(***************************************************************************)
(* file_metadata.  The local executor asks stat(2), which follows a link;   *)
(* the remote one runs `stat -c` without -L, which does not, and takes any  *)
(* line it printed as existence.                                            *)
(***************************************************************************)
Metadata(files, remote, p) ==
  IF remote THEN files[p] ELSE files[Final(files, p)]

(***************************************************************************)
(* read_dir.  The remote `find` is asked for its output alone: one that     *)
(* failed lists nothing, like an empty directory.  A local failure is an    *)
(* error to the caller.                                                     *)
(***************************************************************************)
Listings(files, remote, d) ==
  {{p \in Children(d) : files[p].kind # "absent"}}
    \cup (IF remote /\ Faults THEN {{}} ELSE {})

\* path_exists: stat(2) locally, `test -e` remotely.  Both follow a link.
PathExists(files, p) == files[Final(files, p)].kind # "absent"

\* read_link: the target of the link at p, 0 when p is not a link.
LinkTargetOf(files, p) == files[p].target

(***************************************************************************)
(* link_target_as_writer: the resolved target of the link a write to p      *)
(* would follow, 0 for "positively not a link".  The probe cannot answer    *)
(* when p's directory is missing or the link dangles.                       *)
(***************************************************************************)
ProbeAnswers(files, p) ==
  /\ DirThere(files, Parent[p])
  /\ files[p].kind = "link" => PathExists(files, p)

WriterTarget(files, p) == files[p].target

\* read_file of an entry that is a file.
Readable(files, p) == files[Final(files, p)].kind = "file"

(***************************************************************************)
(* write_file.  Locally the content is staged in a temporary file of the    *)
(* same directory and renamed over the path, which replaces a link standing *)
(* there; the previous mode is put back after the rename, and a failure at  *)
(* that point leaves the new content under the temporary file's mode.       *)
(* Remotely `sudo tee` truncates and rewrites what the path leads to, and a *)
(* failure may leave it half written.                                       *)
(***************************************************************************)
CanWrite(files, remote, p) ==
  LET q == IF remote THEN Final(files, p) ELSE p
  IN  /\ DirThere(files, Parent[q])
      /\ files[q].kind # "dir"

Written(files, remote, p, c) ==
  LET old == files[Final(files, p)]
      mode == IF old.kind = "absent" THEN CreatedMode ELSE old.mode
      owner == IF remote /\ old.kind = "file" THEN old.owner ELSE Root
  IN  [files EXCEPT ![IF remote THEN Final(files, p) ELSE p] =
         File(c, mode, owner)]

HalfWritten(files, remote, p, c) ==
  IF remote
  THEN Written(files, remote, p, Torn)
  ELSE [files EXCEPT ![p] = File(c, TempMode, Root)]

Write(files, remote, p, c) ==
  Outcomes(files, CanWrite(files, remote, p), Written(files, remote, p, c))
    \cup (IF Faults /\ CanWrite(files, remote, p)
          THEN {Failed(HalfWritten(files, remote, p, c))}
          ELSE {})

\* chmod and chown follow a link.
Chmod(files, p, m) ==
  Outcomes(files, PathExists(files, p),
           [files EXCEPT ![Final(files, p)].mode = m])

Chown(files, p, o) ==
  Outcomes(files, PathExists(files, p),
           [files EXCEPT ![Final(files, p)].owner = o])

\* `rm -f`: unlinks the entry itself, and refuses a directory.
Remove(files, p) ==
  Outcomes(files, files[p].kind # "dir", [files EXCEPT ![p] = Absent])

(***************************************************************************)
(* `ln -sfn`: replaces a file or a link.  Where a directory stands, the     *)
(* link is made inside it, under the target's own name, and p is as it was. *)
(***************************************************************************)
Symlink(files, p, t) ==
  Outcomes(files, DirThere(files, Parent[p]),
           IF files[p].kind = "dir" THEN files
           ELSE [files EXCEPT ![p] = Link(t)])

Lineage(d) == {d, Parent[d]} \ {0}

\* `mkdir -p`: makes every missing directory down to d.
MakeDirectory(files, d) ==
  Outcomes(files, \A a \in Lineage(d) : files[a].kind \in {"absent", "dir"},
           [p \in Path |->
              IF p \in Lineage(d) /\ files[p].kind = "absent"
              THEN Dir(CreatedMode, Root) ELSE files[p]])

\* ensure_directory: mkdir unless a probe confirms the directory is there.
EnsureDirectory(files, d) ==
  IF d = 0 THEN {Done(files)}
  ELSE (IF PathExists(files, d) THEN {Done(files)} ELSE MakeDirectory(files, d))
         \cup (IF Faults THEN MakeDirectory(files, d) ELSE {})

==============================================================================
