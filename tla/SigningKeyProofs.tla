--------------------------- MODULE SigningKeyProofs ---------------------------
(***************************************************************************)
(* What SigningKey establishes for any number of processes and of faults:  *)
(* its types, that a host has one key, and that a key that has signed is   *)
(* kept.                                                                   *)
(***************************************************************************)
EXTENDS SigningKey, FiniteSetTheorems, TLAPS

Pc == {"idle", "open", "public", "absent", "create", "write", "create_public",
       "write_public", "load", "migrate", "write_temp", "rename"}

\* While it generates its key a process holds none yet.
Generating == {"write", "create_public", "write_public"}
Carrying   == {"migrate", "write_temp", "rename"}

ProcRec == [pc : Pc, root : BOOLEAN, key : KeyId \cup {Absent}, signs : BOOLEAN,
            handle : {"none", "temp", "private", "gone"}]

TypeInv ==
    /\ disk \in [private : PrivateFile, public : KeyId \cup {Absent, Torn}, temp : PrivateFile]
    /\ proc \in [Process -> ProcRec]
    /\ past \in [faults : Nat, signed : SUBSET KeyId, shared : BOOLEAN]
    /\ \A p \in Process :
          (proc[p].signs \/ proc[p].pc \in Carrying) => proc[p].key \in KeyId

\* Nothing has been generated: there is no file, and nobody is past the point
\* at which one is created.
Bare ==
    /\ disk = [private |-> Absent, public |-> Absent, temp |-> Absent]
    /\ past.signed = {}
    /\ \A p \in Process : /\ proc[p].key = Absent
                          /\ proc[p].pc \notin Generating

\* The places of a process that may yet bring a private file about.
Making == {"absent", "create"} \cup Generating \cup Carrying

\* The one key is k, or will be: no file holds, nobody has or generates
\* another, and none can be created any more, since the private file is there
\* or nobody has missed the public one.
Sole(k) ==
    /\ {disk.private, disk.temp} \subseteq {Absent, Torn, File(k, "plain"), File(k, "encrypted")}
    /\ disk.public \in {Absent, Torn, k}
    /\ past.signed \subseteq {k}
    /\ \A p \in Process : /\ proc[p].key \in {Absent, k}
                          /\ proc[p].pc \in Generating => p = k
    /\ \/ disk.private # Absent
       \/ disk.public = k /\ \A p \in Process : proc[p].pc \notin Making

OneKeyInv == TypeInv /\ (Bare \/ \E k \in KeyId : Sole(k))

\* A file that holds a key holds that one, and is there.
LEMMA Files ==
  ASSUME KeyAssumption
  PROVE  /\ Absent # Torn /\ Absent \notin KeyId /\ Torn \notin KeyId
         /\ \A k \in KeyId, f \in {"plain", "encrypted"} :
              File(k, f) # Absent /\ File(k, f) # Torn /\ File(k, f).key = k
<1>1. Absent # Torn /\ Absent \notin KeyId /\ Torn \notin KeyId
  BY DEF KeyAssumption, KeyId
<1>2. ASSUME NEW k \in KeyId, NEW f \in {"plain", "encrypted"}
      PROVE  File(k, f) # Absent /\ File(k, f) # Torn /\ File(k, f).key = k
  <2>1. File(k, f) \notin {Absent, Torn}  BY DEF KeyAssumption
  <2> QED  BY <2>1 DEF File
<1> QED  BY <1>1, <1>2

\* What a private file may be.
LEMMA PrivateFiles ==
  ASSUME KeyAssumption
  PROVE  /\ Absent \in PrivateFile /\ Torn \in PrivateFile
         /\ \A k \in KeyId : File(k, "plain") \in PrivateFile /\ File(k, "encrypted") \in PrivateFile
         /\ \A x \in PrivateFile \ {Absent, Torn} :
               \E k \in KeyId : x = File(k, "plain") \/ x = File(k, "encrypted")
BY DEF PrivateFile

\* A step of p, seen from outside: p comes to a place with a key, which it may
\* sign with, and the others stay where they are with theirs.
Moves(p, pc, key, signs) ==
    /\ proc' \in [Process -> ProcRec]
    /\ \A q \in Process \ {p} : /\ proc'[q].pc = proc[q].pc /\ proc'[q].key = proc[q].key
                                /\ proc'[q].signs = proc[q].signs
    /\ proc'[p].pc = pc /\ proc'[p].key = key /\ proc'[p].signs = signs

LEMMA Updated ==
  ASSUME proc \in [Process -> ProcRec], NEW p \in Process, NEW r \in ProcRec,
         proc' = [proc EXCEPT ![p] = r]
  PROVE  Moves(p, r.pc, r.key, r.signs) /\ proc'[p] = r
<1>1. proc'[p] = r /\ \A q \in Process \ {p} : proc'[q] = proc[q]  OBVIOUS
<1>2. proc' \in [Process -> ProcRec]  OBVIOUS
<1> QED  BY <1>1, <1>2 DEF Moves

\* Each way the actions write a process's record.
LEMMA GotoMoves ==
  ASSUME proc \in [Process -> ProcRec], NEW p \in Process, NEW pc \in Pc, Goto(p, pc)
  PROVE  Moves(p, pc, proc[p].key, proc[p].signs)
<1> DEFINE r == [proc[p] EXCEPT !.pc = pc]
<1>1. r \in ProcRec /\ r.pc = pc /\ r.key = proc[p].key /\ r.signs = proc[p].signs
  BY DEF ProcRec
<1>2. proc' = [proc EXCEPT ![p] = r]  BY DEF Goto
<1> HIDE DEF r
<1> QED  BY <1>1, <1>2, Updated

LEMMA FailMoves ==
  ASSUME proc \in [Process -> ProcRec], NEW p \in Process, Fail(p)
  PROVE  Moves(p, "idle", Absent, FALSE)
<1>1. Idle \in ProcRec /\ Idle.pc = "idle" /\ Idle.key = Absent /\ Idle.signs = FALSE
  BY DEF ProcRec, Pc, Idle
<1> QED  BY <1>1, Updated DEF Fail

LEMMA HeldRec ==
  ASSUME proc \in [Process -> ProcRec], NEW p \in Process, NEW k \in KeyId \cup {Absent},
         NEW signs \in BOOLEAN
  PROVE  /\ Holding(p, k, signs) \in ProcRec /\ Holding(p, k, signs).pc = "idle"
         /\ Holding(p, k, signs).key = k /\ Holding(p, k, signs).signs = signs
<1>1. proc[p].root \in BOOLEAN  BY DEF ProcRec
<1> QED  BY <1>1 DEF Holding, ProcRec, Pc

LEMMA HoldMoves ==
  ASSUME proc \in [Process -> ProcRec], NEW p \in Process, NEW k \in KeyId \cup {Absent},
         NEW signs \in BOOLEAN, Hold(p, k, signs)
  PROVE  Moves(p, "idle", k, signs)
<1> DEFINE r == Holding(p, k, signs)
<1>1. r \in ProcRec /\ r.pc = "idle" /\ r.key = k /\ r.signs = signs  BY HeldRec
<1>2. proc' = [proc EXCEPT ![p] = r]  BY DEF Hold
<1> HIDE DEF r
<1> QED  BY <1>1, <1>2, Updated

-----------------------------------------------------------------------------
\* The invariant holds of a fresh host and of one an earlier release has left.
LEMMA InitKey ==
  ASSUME KeyAssumption, Init
  PROVE  OneKeyInv
<1>1. "first" \in KeyId  BY DEF KeyId
<1>2. /\ disk.private \in {Absent, File("first", "plain"), File("first", "encrypted")}
      /\ disk.public \in {Absent, "first"} /\ disk.temp = Absent
      /\ disk = [private |-> disk.private, public |-> disk.public, temp |-> disk.temp]
  BY DEF Init
<1>3. disk \in [private : PrivateFile, public : KeyId \cup {Absent, Torn}, temp : PrivateFile]
  BY <1>1, <1>2, PrivateFiles
<1>4. \A p \in Process : /\ proc[p].pc = "idle" /\ proc[p].key = Absent /\ proc[p].signs = FALSE
  BY DEF Init, Idle
<1>5. proc \in [Process -> ProcRec]
  BY DEF Init, Idle, ProcRec, Pc
<1>6. past \in [faults : Nat, signed : SUBSET KeyId, shared : BOOLEAN] /\ past.signed = {}
  BY DEF Init
<1>7. TypeInv  BY <1>3, <1>4, <1>5, <1>6 DEF TypeInv, Carrying
<1>8. CASE disk.private = Absent /\ disk.public = Absent
  BY <1>2, <1>4, <1>6, <1>7, <1>8 DEF OneKeyInv, Bare, Generating
<1>9. CASE ~(disk.private = Absent /\ disk.public = Absent)
  <2>1. Sole("first")  BY <1>2, <1>4, <1>6, <1>9 DEF Sole, Making, Generating, Carrying
  <2> QED  BY <1>1, <1>7, <2>1 DEF OneKeyInv
<1> QED  BY <1>8, <1>9

\* What a step of p may do to the files, to p itself and to the signatures.
Written(p) ==
    IF proc[p].pc \in Generating THEN {File(p, "encrypted")}
    ELSE {File(proc[p].key, "encrypted")}

Creates(p) ==
    proc[p].pc = "create" /\ disk.private = Absent /\ disk' = [disk EXCEPT !.private = Torn]

Writes(p) ==
    \/ disk' = disk
    \/ Creates(p)
    \/ /\ proc[p].pc \in Generating \cup Carrying
       /\ disk'.private \in {disk.private} \cup Written(p) \cup ({disk.temp} \ {Absent})
       /\ disk'.temp \in {disk.temp, Absent, Torn} \cup Written(p)
       /\ disk'.public \in {disk.public, Torn} \cup {q \in {p} : proc[p].pc \in Generating}

\* The keys it may come to hold.
Finds(p) ==
    {Absent, proc[p].key} \cup ({disk.public} \ {Torn})
      \cup {k \in KeyId : disk.private \in {File(k, "plain"), File(k, "encrypted")}}
      \cup {q \in {p} : proc[p].pc \in Generating}

Walks(p) ==
    \E pc \in Pc, key \in Finds(p), signs \in BOOLEAN :
       /\ Moves(p, pc, key, signs)
       /\ (signs \/ pc \in Carrying) => key \in KeyId
       /\ pc \in Generating => (proc[p].pc \in Generating \/ Creates(p))
       /\ pc = "create" => (proc[p].pc = "create" \/ (proc[p].pc = "absent" /\ disk.private = Absent))
       /\ pc = "absent" => (proc[p].pc = "absent" \/ disk.public = Absent)
       /\ pc \in Carrying => (proc[p].pc \in Carrying \/ disk.private # Absent)

Disk == [private : PrivateFile, public : KeyId \cup {Absent, Torn}, temp : PrivateFile]
Past == [faults : Nat, signed : SUBSET KeyId, shared : BOOLEAN]

Effect(p) ==
    /\ disk' \in Disk /\ Writes(p)
    /\ Walks(p)
    /\ past' \in Past /\ past'.signed \subseteq past.signed \cup ({proc[p].key} \cap KeyId)

\* A step that leaves the files and the signatures alone.
LEMMA Quiet ==
  ASSUME TypeInv, NEW p \in Process, UNCHANGED <<disk, past>>, Walks(p)
  PROVE  Effect(p)
BY DEF TypeInv, Effect, Writes, Disk, Past

\* A process goes on with the key it has, comes to hold one it found, or ends.
LEMMA Goes ==
  ASSUME TypeInv, NEW p \in Process, NEW pc \in Pc, Goto(p, pc),
         proc[p].pc \in Carrying \/ pc \notin Carrying,
         pc \in Generating => (proc[p].pc \in Generating \/ Creates(p)),
         pc = "create" => (proc[p].pc = "absent" /\ disk.private = Absent),
         pc = "absent" => disk.public = Absent
  PROVE  Walks(p)
<1>1. Moves(p, pc, proc[p].key, proc[p].signs)  BY GotoMoves DEF TypeInv
<1>2. proc[p].signs \in BOOLEAN  BY DEF TypeInv, ProcRec
<1>3. (proc[p].signs \/ pc \in Carrying) => proc[p].key \in KeyId  BY DEF TypeInv
<1>4. proc[p].key \in Finds(p)  BY DEF Finds
<1> QED  BY <1>1, <1>2, <1>3, <1>4 DEF Walks

LEMMA Holds ==
  ASSUME TypeInv, NEW p \in Process, NEW key \in Finds(p) \cap KeyId, NEW signs \in BOOLEAN,
         Hold(p, key, signs)
  PROVE  Walks(p)
<1>1. Moves(p, "idle", key, signs)  BY HoldMoves DEF TypeInv
<1>2. "idle" \in Pc /\ "idle" \notin Generating \cup Carrying  BY DEF Pc, Generating, Carrying
<1> QED  BY <1>1, <1>2 DEF Walks

LEMMA Ends ==
  ASSUME TypeInv, NEW p \in Process, Fail(p)
  PROVE  Walks(p)
<1>1. Moves(p, "idle", Absent, FALSE)  BY FailMoves DEF TypeInv
<1>2. "idle" \in Pc /\ "idle" \notin Generating \cup Carrying /\ Absent \in Finds(p)
  BY DEF Pc, Generating, Carrying, Finds
<1> QED  BY <1>1, <1>2 DEF Walks

\* Each action has such an effect.
LEMMA FileKeys ==
  ASSUME KeyAssumption, TypeInv, disk.private \notin {Absent, Torn}
  PROVE  /\ disk.private.key \in KeyId
         /\ disk.private \in {File(disk.private.key, "plain"), File(disk.private.key, "encrypted")}
<1>1. disk.private \in PrivateFile  BY DEF TypeInv
<1>2. PICK k \in KeyId : disk.private = File(k, "plain") \/ disk.private = File(k, "encrypted")
  BY <1>1, PrivateFiles
<1>3. disk.private.key = k  BY <1>2, Files
<1> QED  BY <1>2, <1>3

LEMMA BeginEffect ==
  ASSUME KeyAssumption, TypeInv, NEW p \in Process, Begin(p)
  PROVE  Effect(p)
<1>1. PICK root \in BOOLEAN : proc' = [proc EXCEPT ![p].pc = "open", ![p].root = root]
  BY DEF Begin
<1> DEFINE r == [proc[p] EXCEPT !.pc = "open", !.root = root]
<1>2. r \in ProcRec /\ r.pc = "open" /\ r.key = proc[p].key /\ r.signs = proc[p].signs
  <2>1. proc[p] \in ProcRec  BY DEF TypeInv
  <2>2. "open" \in Pc  BY DEF Pc
  <2> QED  BY <2>1, <2>2 DEF ProcRec
<1>3. proc' = [proc EXCEPT ![p] = r]  BY <1>1
<1>4. Moves(p, "open", proc[p].key, proc[p].signs)
  <2> HIDE DEF r
  <2>1. proc \in [Process -> ProcRec]  BY DEF TypeInv
  <2> QED  BY <1>2, <1>3, <2>1, Updated
<1>5. "open" \in Pc /\ "open" \notin Generating \cup Carrying /\ proc[p].signs \in BOOLEAN
  BY DEF Pc, Generating, Carrying, TypeInv, ProcRec
<1>6. proc[p].key \in Finds(p) /\ (proc[p].signs => proc[p].key \in KeyId)
  BY DEF Finds, TypeInv
<1>7. Walks(p)  BY <1>4, <1>5, <1>6 DEF Walks
<1> QED  BY <1>7, Quiet DEF Begin

LEMMA OpenEffect ==
  ASSUME KeyAssumption, TypeInv, NEW p \in Process, Open(p) \/ CheckAbsent(p) \/ RenameFails(p)
                                                     \/ Exit(p)
  PROVE  Effect(p)
<1>1. UNCHANGED <<disk, past>>  BY DEF Open, CheckAbsent, RenameFails, Exit
<1>2. CASE Open(p)
  <2>1. \E pc \in {"load", "public"} : Goto(p, pc)  BY <1>2 DEF Open
  <2> QED  BY <1>1, <2>1, Goes, Quiet DEF Pc, Generating, Carrying
<1>3. CASE CheckAbsent(p)
  <2>1. CASE Fail(p)  BY <1>1, <2>1, Ends, Quiet
  <2>2. CASE Goto(p, "create") /\ disk.private = Absent
    BY <1>1, <1>3, <2>2, Goes, Quiet DEF CheckAbsent, At, Pc, Generating, Carrying
  <2> QED  BY <1>3, <2>1, <2>2 DEF CheckAbsent
<1>4. CASE RenameFails(p)
  <2>1. proc[p].key \in KeyId  BY <1>4 DEF RenameFails, At, TypeInv, Carrying
  <2>2. Hold(p, proc[p].key, TRUE)  BY <1>4 DEF RenameFails
  <2>3. proc[p].key \in Finds(p)  BY DEF Finds
  <2> QED  BY <1>1, <2>1, <2>2, <2>3, Holds, Quiet
<1>5. CASE Exit(p)
  BY <1>1, <1>5, Ends, Quiet DEF Exit
<1> QED  BY <1>2, <1>3, <1>4, <1>5

LEMMA PublicEffect ==
  ASSUME KeyAssumption, TypeInv, NEW p \in Process, Public(p)
  PROVE  Effect(p)
<1>1. UNCHANGED <<disk, past>>  BY DEF Public
<1>2. CASE disk.public = Absent
  <2>1. Goto(p, "absent")  BY <1>2, Files DEF Public
  <2> QED  BY <1>1, <1>2, <2>1, Goes, Quiet DEF Pc, Generating, Carrying
<1>3. CASE disk.public = Torn
  <2>1. Fail(p)  BY <1>3, Files DEF Public
  <2> QED  BY <1>1, <2>1, Ends, Quiet
<1>4. CASE disk.public \notin {Absent, Torn}
  <2>1. Hold(p, disk.public, FALSE)  BY <1>4 DEF Public
  <2>2. disk.public \in Finds(p) \cap KeyId  BY <1>4 DEF Finds, TypeInv
  <2> QED  BY <1>1, <2>1, <2>2, Holds, Quiet
<1> QED  BY <1>2, <1>3, <1>4

LEMMA LoadEffect ==
  ASSUME KeyAssumption, TypeInv, NEW p \in Process, Load(p)
  PROVE  Effect(p)
<1>1. UNCHANGED <<disk, past>>  BY DEF Load
<1>2. CASE disk.private \in {Absent, Torn} /\ Fail(p)  BY <1>1, <1>2, Ends, Quiet
<1>3. CASE disk.private \notin {Absent, Torn}
  <2>1. \/ Hold(p, disk.private.key, TRUE)
        \/ proc' = [proc EXCEPT ![p].pc = "migrate", ![p].key = disk.private.key]
    BY <1>3 DEF Load
  <2>2. disk.private.key \in KeyId /\ disk.private.key \in Finds(p)
    BY <1>3, FileKeys DEF Finds
  <2>3. CASE Hold(p, disk.private.key, TRUE)
    BY <1>1, <2>2, <2>3, Holds, Quiet
  <2>4. CASE proc' = [proc EXCEPT ![p].pc = "migrate", ![p].key = disk.private.key]
    <3> DEFINE r == [proc[p] EXCEPT !.pc = "migrate", !.key = disk.private.key]
    <3>1. r \in ProcRec /\ r.pc = "migrate" /\ r.key = disk.private.key /\ r.signs = proc[p].signs
      <4>1. proc[p] \in ProcRec  BY DEF TypeInv
      <4>2. "migrate" \in Pc  BY DEF Pc
      <4> QED  BY <2>2, <4>1, <4>2 DEF ProcRec
    <3>2. proc' = [proc EXCEPT ![p] = r]  BY <2>4
    <3>3. Moves(p, "migrate", disk.private.key, proc[p].signs)
      <4> HIDE DEF r
      <4>1. proc \in [Process -> ProcRec]  BY DEF TypeInv
      <4> QED  BY <3>1, <3>2, <4>1, Updated
    <3>4. "migrate" \in Pc /\ "migrate" \notin Generating /\ proc[p].signs \in BOOLEAN
      BY DEF Pc, Generating, TypeInv, ProcRec
    <3>5. Walks(p)  BY <1>3, <2>2, <3>3, <3>4 DEF Walks
    <3> QED  BY <1>1, <3>5, Quiet
  <2> QED  BY <2>1, <2>3, <2>4
<1>4. ASSUME disk.private \in {Absent, Torn} PROVE Fail(p)
  <2>1. \A f \in {"plain", "encrypted"} : disk.private \notin {File(k, f) : k \in KeyId}
    BY <1>4, Files
  <2>2. /\ disk.private \notin {File(k, "encrypted") : k \in KeyId}
        /\ disk.private \notin {File(k, "plain") : k \in KeyId}
    BY <2>1
  <2> QED  BY <2>2 DEF Load
<1> QED  BY <1>2, <1>3, <1>4

\* The two files of a new key, each opened and then written.
LEMMA CreateEffect ==
  ASSUME KeyAssumption, TypeInv, NEW p \in Process, Create(p)
  PROVE  Effect(p)
<1>1. past' = past /\ proc[p].pc = "create"  BY DEF Create, At
<1>2. CASE disk.private = Absent
  <2>1. Goto(p, "write") /\ disk' = [disk EXCEPT !.private = Torn]  BY <1>2 DEF Create
  <2>2. Creates(p)  BY <1>1, <1>2, <2>1 DEF Creates
  <2>3. Walks(p)  BY <2>1, <2>2, Goes DEF Pc, Carrying, Generating
  <2>4. disk' \in Disk  BY <2>1, PrivateFiles DEF TypeInv, Disk
  <2> QED  BY <1>1, <2>2, <2>3, <2>4 DEF Effect, Writes, TypeInv, Past
<1>3. CASE disk.private # Absent
  BY <1>1, <1>3, Ends, Quiet DEF Create
<1> QED  BY <1>2, <1>3

LEMMA WriteKeyEffect ==
  ASSUME KeyAssumption, TypeInv, NEW p \in Process, WriteKey(p)
  PROVE  Effect(p)
<1>1. past' = past /\ proc[p].pc = "write" /\ Goto(p, "create_public")
  BY DEF WriteKey, At
<1>2. p \in KeyId  BY DEF KeyId
<1>3. disk' = [disk EXCEPT !.private = File(p, "encrypted")]  BY DEF WriteKey
<1>4. disk' \in Disk  BY <1>2, <1>3, PrivateFiles DEF TypeInv, Disk
<1>5. /\ disk'.private = File(p, "encrypted") /\ disk'.temp = disk.temp
      /\ disk'.public = disk.public
  BY <1>3 DEF TypeInv
<1>6. proc[p].pc \in Generating  BY <1>1 DEF Generating
<1>7. Writes(p)  BY <1>5, <1>6 DEF Writes, Written
<1>8. Walks(p)  BY <1>1, <1>6, Goes DEF Pc, Carrying
<1> QED  BY <1>1, <1>4, <1>7, <1>8 DEF Effect, TypeInv, Past

LEMMA PublicFileEffect ==
  ASSUME KeyAssumption, TypeInv, NEW p \in Process, CreatePublic(p) \/ WritePublic(p)
  PROVE  Effect(p)
<1>1. past' = past /\ proc[p].pc \in Generating
  BY DEF CreatePublic, WritePublic, At, Generating
<1>2. p \in KeyId  BY DEF KeyId
<1>3. CASE CreatePublic(p) /\ disk.public # Absent
  BY <1>1, <1>3, Ends, Quiet DEF CreatePublic
<1>4. ASSUME NEW x \in {Torn, p}, disk' = [disk EXCEPT !.public = x], Walks(p)
      PROVE  Effect(p)
  <2>1. disk' \in Disk  BY <1>2, <1>4 DEF TypeInv, Disk
  <2>2. disk'.private = disk.private /\ disk'.temp = disk.temp /\ disk'.public = x
    BY <1>4 DEF TypeInv
  <2>3. Writes(p)  BY <1>1, <2>2 DEF Writes
  <2> QED  BY <1>1, <1>4, <2>1, <2>3 DEF Effect, TypeInv, Past
<1>5. CASE CreatePublic(p) /\ disk.public = Absent
  <2>1. Goto(p, "write_public") /\ disk' = [disk EXCEPT !.public = Torn]
    BY <1>5 DEF CreatePublic
  <2>2. Walks(p)  BY <1>1, <2>1, Goes DEF Pc, Carrying, Generating
  <2> QED  BY <1>4, <2>1, <2>2
<1>6. CASE WritePublic(p)
  <2>1. Hold(p, p, TRUE) /\ disk' = [disk EXCEPT !.public = p]  BY <1>6 DEF WritePublic
  <2>2. p \in Finds(p)  BY <1>1 DEF Finds
  <2>3. Walks(p)  BY <1>2, <2>1, <2>2, Holds
  <2> QED  BY <1>4, <2>1, <2>3
<1> QED  BY <1>3, <1>5, <1>6

\* The migration: the temporary file, and its renaming over the key.
LEMMA OpenTempEffect ==
  ASSUME KeyAssumption, TypeInv, NEW p \in Process, OpenTemp(p)
  PROVE  Effect(p)
<1>1. /\ proc[p].pc = "migrate" /\ disk' = [disk EXCEPT !.temp = Torn]
      /\ proc' = [proc EXCEPT ![p].pc = "write_temp", ![p].handle = "temp"]
      /\ past' = [past EXCEPT !.shared = @ \/ Migrating # {}]
  BY DEF OpenTemp, At
<1> DEFINE r == [proc[p] EXCEPT !.pc = "write_temp", !.handle = "temp"]
<1>2. r \in ProcRec /\ r.pc = "write_temp" /\ r.key = proc[p].key /\ r.signs = proc[p].signs
  <2>1. proc[p] \in ProcRec  BY DEF TypeInv
  <2>2. "write_temp" \in Pc  BY DEF Pc
  <2> QED  BY <2>1, <2>2 DEF ProcRec
<1>3. proc' = [proc EXCEPT ![p] = r]  BY <1>1
<1>4. Moves(p, "write_temp", proc[p].key, proc[p].signs)
  <2> HIDE DEF r
  <2>1. proc \in [Process -> ProcRec]  BY DEF TypeInv
  <2> QED  BY <1>2, <1>3, <2>1, Updated
<1>5. proc[p].key \in KeyId /\ proc[p].signs \in BOOLEAN
  BY <1>1 DEF TypeInv, Carrying, ProcRec
<1>6. proc[p].pc \in Carrying  BY <1>1 DEF Carrying
<1>7. Walks(p)  BY <1>4, <1>5, <1>6 DEF Walks, Finds, Pc, Generating
<1>8. disk' \in Disk  BY <1>1, PrivateFiles DEF TypeInv, Disk
<1>9. disk'.private = disk.private /\ disk'.temp = Torn /\ disk'.public = disk.public
  BY <1>1 DEF TypeInv
<1>10. Writes(p)  BY <1>1, <1>9 DEF Writes, Carrying
<1>11. past' \in Past /\ past'.signed = past.signed
  BY <1>1 DEF TypeInv, Past
<1> QED  BY <1>7, <1>8, <1>10, <1>11 DEF Effect

LEMMA WriteTempEffect ==
  ASSUME KeyAssumption, TypeInv, NEW p \in Process, WriteTemp(p) \/ WriteTempFails(p)
  PROVE  Effect(p)
<1>1. proc[p].pc \in Carrying /\ proc[p].key \in KeyId
  BY DEF WriteTemp, WriteTempFails, At, TypeInv, Carrying
<1>2. CASE WriteTempFails(p)
  <2>5. Hold(p, proc[p].key, TRUE) /\ proc[p].key \in Finds(p)
    BY <1>2 DEF WriteTempFails, Finds
  <2>1. Walks(p)  BY <1>1, <2>5, Holds
  <2>2. past' = [past EXCEPT !.faults = @ + 1] /\ past \in Past
    BY <1>2 DEF WriteTempFails, TypeInv, Past
  <2>3. past' \in Past /\ past'.signed = past.signed  BY <2>2 DEF Past
  <2>4. disk' = disk  BY <1>2 DEF WriteTempFails
  <2> QED  BY <2>1, <2>3, <2>4 DEF Effect, Writes, TypeInv, Disk
<1>3. CASE WriteTemp(p)
  <2> DEFINE x == File(proc[p].key, "encrypted")
  <2>1. past' = past /\ Goto(p, "rename")  BY <1>3 DEF WriteTemp
  <2>2. Walks(p)  BY <1>1, <2>1, Goes DEF Pc, Generating
  <2>3. disk' = [f \in DOMAIN disk |-> IF f = proc[p].handle THEN x ELSE disk[f]]
    BY <1>3 DEF WriteTemp
  <2>4. x \in PrivateFile  BY <1>1, PrivateFiles
  <2>5. proc[p].handle \in {"none", "temp", "private", "gone"}  BY DEF TypeInv, ProcRec
  <2> HIDE DEF x
  <2>6. /\ disk'.public = disk.public /\ disk'.private \in {disk.private, x}
        /\ disk'.temp \in {disk.temp, x}
    BY <2>3, <2>5 DEF TypeInv
  <2>7. disk' \in Disk  BY <2>3, <2>4, <2>5 DEF TypeInv, Disk
  <2>8. x \in Written(p)  BY <1>1 DEF x, Written, Carrying, Generating
  <2>9. Writes(p)  BY <1>1, <2>6, <2>8 DEF Writes
  <2> QED  BY <2>1, <2>2, <2>7, <2>9 DEF Effect, TypeInv, Past
<1> QED  BY <1>2, <1>3

LEMMA RenameEffect ==
  ASSUME KeyAssumption, TypeInv, NEW p \in Process, Rename(p)
  PROVE  Effect(p)
<1>1. proc[p].pc \in Carrying /\ proc[p].key \in KeyId /\ past' = past /\ disk.temp # Absent
  BY DEF Rename, At, TypeInv, Carrying
<1>2. disk' = [disk EXCEPT !.private = disk.temp, !.temp = Absent]  BY DEF Rename
<1>3. disk' \in Disk  BY <1>2, PrivateFiles DEF TypeInv, Disk
<1>4. disk'.private = disk.temp /\ disk'.temp = Absent /\ disk'.public = disk.public
  BY <1>2 DEF TypeInv
<1>5. Writes(p)  BY <1>1, <1>4 DEF Writes
<1> DEFINE r(q) == IF q = p THEN Holding(p, proc[p].key, TRUE)
                   ELSE [proc[q] EXCEPT !.handle = Moved(@)]
<1>6. proc' = [q \in Process |-> r(q)]  BY DEF Rename
<1>7. /\ r(p) \in ProcRec /\ r(p).pc = "idle" /\ r(p).key = proc[p].key /\ r(p).signs = TRUE
  <2>1. r(p) = Holding(p, proc[p].key, TRUE)  OBVIOUS
  <2>2. proc \in [Process -> ProcRec]  BY DEF TypeInv
  <2> HIDE DEF r
  <2>3. proc[p].key \in KeyId \cup {Absent} /\ TRUE \in BOOLEAN  BY <1>1
  <2>4. /\ Holding(p, proc[p].key, TRUE) \in ProcRec
        /\ Holding(p, proc[p].key, TRUE).pc = "idle"
        /\ Holding(p, proc[p].key, TRUE).key = proc[p].key
        /\ Holding(p, proc[p].key, TRUE).signs = TRUE
    BY <2>2, <2>3, HeldRec
  <2> QED  BY <2>1, <2>4
<1>8. ASSUME NEW q \in Process \ {p}
      PROVE  r(q) \in ProcRec /\ r(q).pc = proc[q].pc /\ r(q).key = proc[q].key
                /\ r(q).signs = proc[q].signs
  <2>1. proc[q] \in ProcRec  BY DEF TypeInv
  <2>2. Moved(proc[q].handle) \in {"none", "temp", "private", "gone"}
    BY <2>1 DEF Moved, ProcRec
  <2>3. r(q) = [proc[q] EXCEPT !.handle = Moved(proc[q].handle)]  OBVIOUS
  <2> HIDE DEF r
  <2> QED  BY <2>1, <2>2, <2>3 DEF ProcRec
<1>9. Moves(p, "idle", proc[p].key, TRUE)
  <2> HIDE DEF r
  <2>1. \A q \in Process : r(q) \in ProcRec  BY <1>7, <1>8
  <2>2. \A q \in Process : proc'[q] = r(q)  BY <1>6
  <2>3. proc' \in [Process -> ProcRec]  BY <1>6, <2>1
  <2> QED  BY <1>7, <1>8, <2>2, <2>3 DEF Moves
<1>10. Walks(p)  BY <1>1, <1>9 DEF Walks, Finds, Pc, Generating
<1> QED  BY <1>1, <1>3, <1>5, <1>10 DEF Effect, TypeInv, Past

\* A signature, and a death.
LEMMA SignEffect ==
  ASSUME KeyAssumption, TypeInv, NEW p \in Process, Sign(p) \/ Die(p)
  PROVE  Effect(p)
<1>1. disk' = disk  BY DEF Sign, Die
<1>2. disk' \in Disk /\ Writes(p)  BY <1>1 DEF TypeInv, Disk, Writes
<1>3. CASE Sign(p)
  <2>1. proc[p].key \in KeyId  BY <1>3 DEF Sign, TypeInv
  <2>2. past' \in Past /\ past'.signed = past.signed \cup {proc[p].key}
    BY <1>3, <2>1 DEF Sign, TypeInv, Past
  <2>3. proc' = proc  BY <1>3 DEF Sign
  <2>4. Moves(p, proc[p].pc, proc[p].key, proc[p].signs)  BY <2>3 DEF Moves, TypeInv
  <2>5. proc[p].pc \in Pc /\ proc[p].signs \in BOOLEAN  BY DEF TypeInv, ProcRec
  <2>6. Walks(p)  BY <2>1, <2>4, <2>5 DEF Walks, Finds
  <2> QED  BY <1>2, <2>1, <2>2, <2>6 DEF Effect
<1>4. CASE Die(p)
  <2>1. Walks(p)  BY <1>4, Ends DEF Die
  <2>2. past' \in Past /\ past'.signed = past.signed  BY <1>4 DEF Die, TypeInv, Past
  <2> QED  BY <1>2, <2>1, <2>2 DEF Effect
<1> QED  BY <1>3, <1>4

LEMMA StepEffect ==
  ASSUME KeyAssumption, TypeInv, NEW p \in Process, Step(p)
  PROVE  Effect(p)
BY BeginEffect, OpenEffect, PublicEffect, LoadEffect, CreateEffect, WriteKeyEffect,
   PublicFileEffect, OpenTempEffect, WriteTempEffect, RenameEffect, SignEffect DEF Step

-----------------------------------------------------------------------------
(* The invariant.                                                          *)

LEMMA EffectType ==
  ASSUME KeyAssumption, TypeInv, NEW p \in Process, Effect(p)
  PROVE  TypeInv'
<1>1. PICK pc \in Pc, key \in Finds(p), signs \in BOOLEAN :
         /\ Moves(p, pc, key, signs)
         /\ (signs \/ pc \in Carrying) => key \in KeyId
  BY DEF Effect, Walks
<1>2. \A q \in Process : (proc'[q].signs \/ proc'[q].pc \in Carrying) => proc'[q].key \in KeyId
  BY <1>1 DEF TypeInv, Moves
<1>3. proc' \in [Process -> ProcRec]  BY <1>1 DEF Moves
<1> QED  BY <1>2, <1>3 DEF Effect, Disk, Past, TypeInv

\* A bare host stays bare until a process creates the private file, whose key is
\* the one from then on.
LEMMA EffectBare ==
  ASSUME KeyAssumption, TypeInv, Bare, NEW p \in Process, Effect(p)
  PROVE  Bare' \/ Sole(p)'
<1>1. PICK pc \in Pc, key \in Finds(p), signs \in BOOLEAN :
         /\ Moves(p, pc, key, signs)
         /\ pc \in Generating => (proc[p].pc \in Generating \/ Creates(p))
  BY DEF Effect, Walks
<1>2. key = Absent  BY <1>1, Files DEF Bare, Finds
<1>3. proc[p].pc \notin Generating \cup Carrying  BY Files DEF Bare, TypeInv
<1>4. past'.signed = {}  BY <1>3, Files DEF Effect, Bare
<1>5. \A q \in Process : proc'[q].key = Absent  BY <1>1, <1>2 DEF Moves, Bare
<1>6. \A q \in Process \ {p} : proc'[q].pc \notin Generating  BY <1>1 DEF Moves, Bare
<1>7. CASE Creates(p)
  <2>1. disk'.private = Torn /\ disk'.temp = Absent /\ disk'.public = Absent
    BY <1>7 DEF Creates, Bare
  <2>2. Torn # Absent  BY Files
  <2> QED  BY <1>4, <1>5, <1>6, <2>1, <2>2 DEF Sole
<1>8. CASE ~Creates(p)
  <2>1. disk' = disk  BY <1>3, <1>8 DEF Effect, Writes
  <2>2. proc'[p].pc \notin Generating  BY <1>1, <1>3, <1>8 DEF Moves
  <2> QED  BY <1>4, <1>5, <1>6, <2>1, <2>2 DEF Bare
<1> QED  BY <1>7, <1>8

\* Where there is one key there is no other after a step.
LEMMA EffectSole ==
  ASSUME KeyAssumption, TypeInv, NEW k \in KeyId, Sole(k), NEW p \in Process, Effect(p)
  PROVE  Sole(k)'
<1>1. PICK pc \in Pc, key \in Finds(p), signs \in BOOLEAN :
         /\ Moves(p, pc, key, signs)
         /\ pc \in Generating => (proc[p].pc \in Generating \/ Creates(p))
         /\ pc = "create" => (proc[p].pc = "create" \/ (proc[p].pc = "absent" /\ disk.private = Absent))
         /\ pc = "absent" => (proc[p].pc = "absent" \/ disk.public = Absent)
         /\ pc \in Carrying => (proc[p].pc \in Carrying \/ disk.private # Absent)
  BY DEF Effect, Walks
<1>2. /\ Absent \notin KeyId /\ Absent # Torn
      /\ \A j \in KeyId, f \in {"plain", "encrypted"} :
           File(j, f) # Absent /\ File(j, f) # Torn /\ File(j, f).key = j
  BY Files
<1>3. ~Creates(p)  BY DEF Sole, Creates, Making
<1>4. key \in {Absent, k}  BY <1>1, <1>2 DEF Finds, Sole
<1>5. \A q \in Process : /\ proc'[q].key \in {Absent, k}
                         /\ proc'[q].pc \in Generating => q = k
  BY <1>1, <1>3, <1>4 DEF Moves, Sole
<1>6. past'.signed \subseteq {k}  BY <1>2 DEF Effect, Sole
<1>7. proc[p].pc \in Generating \cup Carrying => Written(p) = {File(k, "encrypted")}
  BY <1>2 DEF Written, Sole, TypeInv
<1>8. /\ {disk'.private, disk'.temp} \subseteq {Absent, Torn, File(k, "plain"), File(k, "encrypted")}
      /\ disk'.public \in {Absent, Torn, k}
      /\ disk.private # Absent => disk'.private # Absent
  BY <1>2, <1>3, <1>7 DEF Effect, Writes, Sole
<1>9. CASE disk.private # Absent
  BY <1>5, <1>6, <1>8, <1>9 DEF Sole
<1>10. CASE disk.private = Absent
  <2>1. disk.public = k /\ \A q \in Process : proc[q].pc \notin Making
    BY <1>10 DEF Sole
  <2>2. pc \notin Making  BY <1>1, <1>2, <1>3, <1>10, <2>1 DEF Making
  <2>3. \A q \in Process : proc'[q].pc \notin Making  BY <1>1, <2>1, <2>2 DEF Moves
  <2>4. disk' = disk  BY <1>3, <2>1 DEF Effect, Writes, Making
  <2> QED  BY <1>5, <1>6, <1>8, <2>1, <2>3, <2>4 DEF Sole
<1> QED  BY <1>9, <1>10

LEMMA NextKey ==
  ASSUME KeyAssumption, OneKeyInv, [Next]_vars
  PROVE  OneKeyInv'
<1>1. CASE UNCHANGED vars
  <2>1. disk' = disk /\ proc' = proc /\ past' = past  BY <1>1 DEF vars
  <2>2. TypeInv'  BY <2>1 DEF OneKeyInv, TypeInv
  <2>3. CASE Bare  BY <2>1, <2>2, <2>3 DEF OneKeyInv, Bare
  <2>4. ASSUME NEW k \in KeyId, Sole(k) PROVE OneKeyInv'
    <3>1. Sole(k)'  BY <2>1, <2>4 DEF Sole
    <3> QED  BY <2>2, <3>1 DEF OneKeyInv
  <2> QED  BY <2>3, <2>4 DEF OneKeyInv
<1>2. ASSUME NEW p \in Process, Step(p) PROVE OneKeyInv'
  <2>1. TypeInv /\ Effect(p) /\ TypeInv'  BY <1>2, StepEffect, EffectType DEF OneKeyInv
  <2>2. CASE Bare
    <3>1. p \in KeyId  BY DEF KeyId
    <3> QED  BY <2>1, <2>2, <3>1, EffectBare DEF OneKeyInv
  <2>3. ASSUME NEW k \in KeyId, Sole(k) PROVE OneKeyInv'
    BY <2>1, <2>3, EffectSole DEF OneKeyInv
  <2> QED  BY <2>2, <2>3 DEF OneKeyInv
<1> QED  BY <1>1, <1>2 DEF Next

LEMMA AtMostOne ==
  ASSUME NEW S, NEW k, S \subseteq {k}
  PROVE  Cardinality(S) <= 1
<1>1. CASE S = {}  BY <1>1, FS_EmptySet
<1>2. CASE S = {k}  BY <1>2, FS_Singleton
<1> QED  BY <1>1, <1>2

LEMMA InvImplies ==
  ASSUME KeyAssumption, OneKeyInv
  PROVE  TypeOK /\ OneKey
<1>1. TypeOK  BY DEF OneKeyInv, TypeInv, TypeOK, ProcRec
<1> DEFINE held == (past.signed \cup {proc[p].key : p \in Process}) \ {Absent}
<1>2. CASE Bare
  <2>1. held \subseteq {Absent}  BY <1>2 DEF Bare
  <2> HIDE DEF held
  <2>2. Cardinality(held) <= 1  BY <2>1, AtMostOne
  <2> QED  BY <1>1, <1>2, <2>2 DEF held, OneKey, Bare
<1>3. ASSUME NEW k \in KeyId, Sole(k) PROVE OneKey
  <2>1. held \subseteq {k}  BY <1>3 DEF Sole
  <2>2. \A j \in past.signed : disk.public \in {Absent, Torn, j}  BY <1>3 DEF Sole
  <2> HIDE DEF held
  <2>3. Cardinality(held) <= 1  BY <2>1, AtMostOne
  <2> QED  BY <2>2, <2>3 DEF held, OneKey
<1> QED  BY <1>1, <1>2, <1>3 DEF OneKeyInv

-----------------------------------------------------------------------------
(* The theorems.                                                           *)

\* The files and the processes of any number keep their types, whatever fails.
THEOREM TypeCorrect ==
  ASSUME KeyAssumption
  PROVE  Spec => []TypeOK
<1>1. Init => OneKeyInv  BY InitKey
<1>2. OneKeyInv /\ [Next]_vars => OneKeyInv'  BY NextKey
<1>3. OneKeyInv => TypeOK  BY InvImplies
<1> QED  BY <1>1, <1>2, <1>3, PTL DEF Spec

\* new_with_path, save_key and replace_key_atomically together: of any number
\* of processes that open, generate or migrate a key at once and die anywhere, no
\* two ever hold different keys, and every signature verifies under the public key
\* that is there.
THEOREM OneKeyAlways ==
  ASSUME KeyAssumption
  PROVE  Spec => []OneKey
<1>1. Init => OneKeyInv  BY InitKey
<1>2. OneKeyInv /\ [Next]_vars => OneKeyInv'  BY NextKey
<1>3. OneKeyInv => OneKey  BY InvImplies
<1> QED  BY <1>1, <1>2, <1>3, PTL DEF Spec

-----------------------------------------------------------------------------
(* The key that has signed is kept.                                         *)
(*                                                                          *)
(* It is on the disk from the moment a process may sign with it, but for    *)
(* the time between a rename that carried a file another had truncated and  *)
(* that other's write, which then goes to the key itself.                   *)

\* Somebody has the key, or has signed with it.
Locks(p) == proc[p].signs \/ proc[p].pc \in Carrying \cup {"create_public", "write_public"}
Locked == past.signed # {} \/ \E p \in Process : Locks(p)
There == disk.private \notin {Absent, Torn}
Writer(p, handle) == proc[p].pc = "write_temp" /\ proc[p].handle = handle

Placed ==
    /\ \A p \in Process : proc[p].handle # "none" <=> proc[p].pc \in {"write_temp", "rename"}
    /\ Locked => disk.private # Absent
    /\ \A p \in Process : proc[p].pc = "write" => ~Locked /\ disk.private = Torn

\* One migration at a time: what is renamed is a key.
Unshared ==
    ~past.shared =>
        /\ Locked => There
        /\ \A p, q \in Process : proc[p].handle # "none" /\ proc[q].handle # "none" => p = q
        /\ \A p \in Process : /\ proc[p].handle \in {"none", "temp"}
                              /\ proc[p].pc = "rename" => disk.temp \notin {Absent, Torn}

\* Nobody died: whoever truncated a file is still to write it.
Pending ==
    past.faults = 0 =>
        /\ Locked /\ ~There => \E p \in Process : Writer(p, "private")
        /\ disk.temp = Torn => \E p \in Process : Writer(p, "temp")

KeptInv == Placed /\ Unshared /\ Pending

\* A fresh host, and one an earlier release has left.
LEMMA InitKept ==
  ASSUME KeyAssumption, Init
  PROVE  KeptInv
<1>1. \A p \in Process : proc[p].pc = "idle" /\ proc[p].signs = FALSE /\ proc[p].handle = "none"
  BY DEF Init, Idle
<1>2. past.signed = {} /\ ~past.shared /\ disk.temp = Absent
  BY DEF Init
<1>3. ~Locked  BY <1>1, <1>2 DEF Locked, Locks, Carrying
<1>4. Absent # Torn  BY DEF KeyAssumption
<1> QED  BY <1>1, <1>2, <1>3, <1>4 DEF KeptInv, Placed, Unshared, Pending

\* A step of p away from the temporary file, that leaves both files alone and
\* takes up the key only where it is.
LEMMA StillKept ==
  ASSUME KeyAssumption, TypeInv, KeptInv, NEW p \in Process,
         disk'.private = disk.private, disk'.temp = disk.temp,
         past'.signed = past.signed, past'.shared = past.shared,
         past'.faults = 0 => past.faults = 0 /\ proc[p].pc # "write_temp",
         \A q \in Process \ {p} : proc'[q] = proc[q],
         proc'[p].handle = "none", proc'[p].pc \notin {"write", "write_temp", "rename"},
         Locks(p)' => Locked \/ There
  PROVE  KeptInv'
<1>1. Locked' => Locked \/ There
  BY DEF Locked, Locks
<1>2. disk'.private \notin {Absent, Torn} <=> There  BY DEF There
<1>3. Absent # Torn  BY DEF KeyAssumption
<1>4. Placed'
  BY <1>1, <1>2, <1>3 DEF KeptInv, Placed, There
<1>5. Unshared'
  BY <1>1, <1>2 DEF KeptInv, Unshared, There
<1>6. \A q \in Process, h \in {"private", "temp"} :
        past'.faults = 0 /\ Writer(q, h) => Writer(q, h)'
  BY DEF Writer
<1>7. Pending'
  BY <1>1, <1>2, <1>6 DEF KeptInv, Pending, There
<1> QED  BY <1>4, <1>5, <1>7 DEF KeptInv

\* How the actions write the record of a process.
LEMMA Records ==
  ASSUME TypeInv, NEW p \in Process
  PROVE  /\ \A r : proc' = [proc EXCEPT ![p] = r] =>
                     proc'[p] = r /\ \A q \in Process \ {p} : proc'[q] = proc[q]
         /\ \A pc : Goto(p, pc) =>
              /\ \A q \in Process \ {p} : proc'[q] = proc[q]
              /\ proc'[p].pc = pc /\ proc'[p].signs = proc[p].signs
              /\ proc'[p].handle = proc[p].handle /\ proc'[p].key = proc[p].key
         /\ Fail(p) =>
              /\ \A q \in Process \ {p} : proc'[q] = proc[q]
              /\ proc'[p].pc = "idle" /\ proc'[p].signs = FALSE /\ proc'[p].handle = "none"
         /\ \A key, signs : Hold(p, key, signs) =>
              /\ \A q \in Process \ {p} : proc'[q] = proc[q]
              /\ proc'[p].pc = "idle" /\ proc'[p].signs = signs /\ proc'[p].handle = "none"
<1>1. proc \in [Process -> ProcRec] /\ proc[p] \in ProcRec  BY DEF TypeInv
<1>2. \A r : proc' = [proc EXCEPT ![p] = r] =>
               proc'[p] = r /\ \A q \in Process \ {p} : proc'[q] = proc[q]
  BY <1>1
<1>3. ASSUME NEW pc, Goto(p, pc)
      PROVE  /\ \A q \in Process \ {p} : proc'[q] = proc[q]
             /\ proc'[p].pc = pc /\ proc'[p].signs = proc[p].signs
             /\ proc'[p].handle = proc[p].handle /\ proc'[p].key = proc[p].key
  <2> DEFINE r == [proc[p] EXCEPT !.pc = pc]
  <2>1. proc' = [proc EXCEPT ![p] = r]  BY <1>3 DEF Goto
  <2>2. r.pc = pc /\ r.signs = proc[p].signs /\ r.handle = proc[p].handle /\ r.key = proc[p].key
    BY <1>1 DEF ProcRec
  <2> HIDE DEF r
  <2> QED  BY <1>2, <2>1, <2>2
<1>4. Fail(p) => /\ \A q \in Process \ {p} : proc'[q] = proc[q]
                 /\ proc'[p].pc = "idle" /\ proc'[p].signs = FALSE /\ proc'[p].handle = "none"
  <2>1. Idle.pc = "idle" /\ Idle.signs = FALSE /\ Idle.handle = "none"  BY DEF Idle
  <2> QED  BY <1>2, <2>1 DEF Fail
<1>5. ASSUME NEW key, NEW signs, Hold(p, key, signs)
      PROVE  /\ \A q \in Process \ {p} : proc'[q] = proc[q]
             /\ proc'[p].pc = "idle" /\ proc'[p].signs = signs /\ proc'[p].handle = "none"
  <2> DEFINE r == Holding(p, key, signs)
  <2>1. proc' = [proc EXCEPT ![p] = r]  BY <1>5 DEF Hold
  <2>2. r.pc = "idle" /\ r.signs = signs /\ r.handle = "none"  BY DEF Holding
  <2> HIDE DEF r
  <2> QED  BY <1>2, <2>1, <2>2
<1> QED  BY <1>2, <1>3, <1>4, <1>5

\* The steps that leave the private and the temporary file alone.
LEMMA StillSteps ==
  ASSUME KeyAssumption, TypeInv, KeptInv, NEW p \in Process,
         \/ Begin(p) \/ Open(p) \/ Public(p) \/ CheckAbsent(p)
         \/ CreatePublic(p) \/ WritePublic(p) \/ Load(p) \/ WriteTempFails(p)
         \/ RenameFails(p) \/ Exit(p) \/ Die(p) \/ (Create(p) /\ disk.private # Absent)
  PROVE  KeptInv'
<1>1. /\ disk'.private = disk.private /\ disk'.temp = disk.temp
      /\ past'.signed = past.signed /\ past'.shared = past.shared
      /\ past'.faults = 0 => past.faults = 0 /\ proc[p].pc # "write_temp"
  <2>1. past \in Past /\ past.faults \in Nat /\ disk \in Disk  BY DEF TypeInv, Past, Disk
  <2>2. CASE UNCHANGED <<disk, past>> /\ proc[p].pc # "write_temp"  BY <2>2
  <2>3. CASE UNCHANGED disk /\ past' = [past EXCEPT !.faults = @ + 1]
    BY <2>1, <2>3 DEF Past
  <2>4. CASE CreatePublic(p) \/ WritePublic(p)
    BY <2>1, <2>4 DEF CreatePublic, WritePublic, At, Disk
  <2>5. CASE Create(p) /\ disk.private # Absent  BY <2>2, <2>5 DEF Create, At
  <2> QED
    BY <2>2, <2>3, <2>4, <2>5
       DEF Begin, Open, Public, CheckAbsent, Load, WriteTempFails, RenameFails, Exit, Die, At
<1> DEFINE Comes(pc, signs) ==
             /\ \A q \in Process \ {p} : proc'[q] = proc[q]
             /\ proc'[p].pc = pc /\ proc'[p].signs = signs /\ proc'[p].handle = "none"
<1>2. ASSUME NEW pc, NEW signs, Comes(pc, signs), pc \notin {"write", "write_temp", "rename"},
             signs \/ pc \in {"migrate", "create_public", "write_public"} => Locked \/ There
      PROVE  KeptInv'
  <2>1. Locks(p)' => Locked \/ There  BY <1>2 DEF Locks, Carrying
  <2> QED  BY <1>1, <1>2, <2>1, StillKept
<1>3. proc[p].pc \notin {"write_temp", "rename"} => proc[p].handle = "none"
  BY DEF KeptInv, Placed
<1>4. Locks(p) => Locked  BY DEF Locked
<1>5. proc[p].signs => Locked  BY <1>4 DEF Locks
<1>6. CASE Fail(p)
  <2>1. Comes("idle", FALSE)  BY <1>6, Records
  <2> HIDE DEF Comes
  <2> QED  BY <1>2, <2>1
<1>7. ASSUME NEW key, NEW signs, Hold(p, key, signs), signs => Locked \/ There PROVE KeptInv'
  <2>1. Comes("idle", signs)  BY <1>7, Records
  <2> HIDE DEF Comes
  <2> QED  BY <1>2, <1>7, <2>1
<1>8. ASSUME NEW pc \in {"open", "load", "public", "absent", "create", "write_public"}, Goto(p, pc),
             proc[p].pc \notin {"write_temp", "rename"},
             pc = "write_public" => proc[p].pc = "create_public"
      PROVE  KeptInv'
  <2>1. Comes(pc, proc[p].signs)  BY <1>3, <1>8, Records
  <2>2. pc = "write_public" => Locked  BY <1>4, <1>8 DEF Locks
  <2> HIDE DEF Comes
  <2> QED  BY <1>2, <1>5, <1>8, <2>1, <2>2
<1>9. CASE Begin(p)
  <2>1. PICK root \in BOOLEAN : proc' = [proc EXCEPT ![p].pc = "open", ![p].root = root]
    BY <1>9 DEF Begin
  <2> DEFINE r == [proc[p] EXCEPT !.pc = "open", !.root = root]
  <2>2. proc' = [proc EXCEPT ![p] = r]  BY <2>1
  <2>3. r.pc = "open" /\ r.signs = proc[p].signs /\ r.handle = proc[p].handle
    <3>1. proc[p] \in ProcRec  BY DEF TypeInv
    <3> QED  BY <3>1 DEF ProcRec
  <2> HIDE DEF r
  <2>4. Comes("open", proc[p].signs)
    <3>1. proc[p].pc = "idle"  BY <1>9 DEF Begin, At
    <3> QED  BY <1>3, <2>2, <2>3, <3>1, Records
  <2> HIDE DEF Comes
  <2> QED  BY <1>2, <1>5, <2>4
<1>10. CASE Open(p)  BY <1>8, <1>10 DEF Open, At
<1>11. CASE Public(p)  BY <1>6, <1>7, <1>8, <1>11 DEF Public, At
<1>12. CASE CheckAbsent(p)  BY <1>6, <1>8, <1>12 DEF CheckAbsent, At
<1>13. CASE CreatePublic(p)  BY <1>6, <1>8, <1>13 DEF CreatePublic, At
<1>14. CASE WritePublic(p) \/ WriteTempFails(p) \/ RenameFails(p)
  <2>1. Locked
    BY <1>4, <1>14 DEF Locks, Carrying, WritePublic, WriteTempFails, RenameFails, At
  <2>2. \E key : Hold(p, key, TRUE)
    BY <1>14 DEF WritePublic, WriteTempFails, RenameFails
  <2> QED  BY <1>7, <2>1, <2>2
<1>15. CASE Load(p)
  <2>1. \A j \in KeyId : There \/ disk.private \notin {File(j, "plain"), File(j, "encrypted")}
    BY Files DEF There
  <2>2. CASE \E key : Hold(p, key, TRUE) /\ There  BY <1>7, <2>2
  <2>3. CASE proc' = [proc EXCEPT ![p].pc = "migrate", ![p].key = disk.private.key] /\ There
    <3> DEFINE r == [proc[p] EXCEPT !.pc = "migrate", !.key = disk.private.key]
    <3>1. proc' = [proc EXCEPT ![p] = r]  BY <2>3
    <3>2. r.pc = "migrate" /\ r.signs = proc[p].signs /\ r.handle = proc[p].handle
      <4>1. proc[p] \in ProcRec  BY DEF TypeInv
      <4> QED  BY <4>1 DEF ProcRec
    <3> HIDE DEF r
    <3>3. Comes("migrate", proc[p].signs)
      <4>1. proc[p].pc = "load"  BY <1>15 DEF Load, At
      <4> QED  BY <1>3, <3>1, <3>2, <4>1, Records
    <3> HIDE DEF Comes
    <3> QED  BY <1>2, <2>3, <3>3
  <2> QED  BY <1>6, <1>15, <2>1, <2>2, <2>3 DEF Load, There
<1>16. CASE Exit(p) \/ Die(p) \/ (Create(p) /\ disk.private # Absent)
  BY <1>6, <1>16 DEF Exit, Die, Create
<1> QED
  BY <1>9, <1>10, <1>11, <1>12, <1>13, <1>14, <1>15, <1>16

\* A key is generated where there is none, so nobody has it yet.
LEMMA CreateKept ==
  ASSUME KeyAssumption, TypeInv, KeptInv, NEW p \in Process, Create(p), disk.private = Absent
  PROVE  KeptInv'
<1>1. Goto(p, "write") /\ disk' = [disk EXCEPT !.private = Torn] /\ past' = past
      /\ proc[p].pc = "create"
  BY DEF Create, At
<1>2. disk'.private = Torn /\ disk'.temp = disk.temp
  BY <1>1 DEF TypeInv
<1>3. ~Locked  BY DEF KeptInv, Placed
<1>4. /\ \A q \in Process \ {p} : proc'[q] = proc[q]
      /\ proc'[p].pc = "write" /\ proc'[p].signs = proc[p].signs
      /\ proc'[p].handle = "none"
  BY <1>1, Records DEF KeptInv, Placed
<1>5. ~Locked'  BY <1>1, <1>3, <1>4 DEF Locked, Locks, Carrying
<1>6. Placed'  BY <1>2, <1>4, <1>5 DEF KeptInv, Placed
<1>7. Unshared'  BY <1>1, <1>2, <1>4, <1>5 DEF KeptInv, Unshared
<1>8. \A q \in Process, h \in {"private", "temp"} : Writer(q, h) => Writer(q, h)'
  BY <1>1, <1>4 DEF Writer
<1>9. Pending'  BY <1>1, <1>2, <1>5, <1>8 DEF KeptInv, Pending
<1> QED  BY <1>6, <1>7, <1>9 DEF KeptInv

\* It is written by the one that generates it.
LEMMA WriteKeyKept ==
  ASSUME KeyAssumption, OneKeyInv, KeptInv, NEW p \in Process, WriteKey(p)
  PROVE  KeptInv'
<1>1. /\ Goto(p, "create_public") /\ disk' = [disk EXCEPT !.private = File(p, "encrypted")]
      /\ past' = past /\ proc[p].pc = "write" /\ TypeInv
  BY DEF WriteKey, At, OneKeyInv
<1>2. disk'.private = File(p, "encrypted") /\ disk'.temp = disk.temp
  BY <1>1 DEF TypeInv
<1>3. There' /\ disk'.private # Absent  BY <1>2, Files DEF There, KeyId
<1>4. /\ \A q \in Process \ {p} : proc'[q] = proc[q]
      /\ proc'[p].pc = "create_public" /\ proc'[p].handle = "none"
  BY <1>1, Records DEF KeptInv, Placed
<1>5. \A q \in Process : proc[q].pc = "write" => q = p
  BY <1>1 DEF OneKeyInv, Bare, Sole, Generating
<1>6. Placed'  BY <1>3, <1>4, <1>5 DEF KeptInv, Placed
<1>7. Unshared'  BY <1>1, <1>2, <1>3, <1>4 DEF KeptInv, Unshared
<1>8. \A q \in Process, h \in {"private", "temp"} : Writer(q, h) => Writer(q, h)'
  BY <1>1, <1>4 DEF Writer
<1>9. Pending'  BY <1>1, <1>2, <1>3, <1>8 DEF KeptInv, Pending
<1> QED  BY <1>6, <1>7, <1>9 DEF KeptInv

\* A migration opens the temporary file, and empties it.
LEMMA OpenTempKept ==
  ASSUME KeyAssumption, TypeInv, KeptInv, NEW p \in Process, OpenTemp(p)
  PROVE  KeptInv'
<1>1. /\ proc[p].pc = "migrate" /\ disk' = [disk EXCEPT !.temp = Torn]
      /\ proc' = [proc EXCEPT ![p].pc = "write_temp", ![p].handle = "temp"]
      /\ past' = [past EXCEPT !.shared = past.shared \/ Migrating # {}]
  BY DEF OpenTemp, At
<1>2. disk'.private = disk.private /\ disk'.temp = Torn
  BY <1>1 DEF TypeInv
<1>3. /\ past'.signed = past.signed /\ past'.faults = past.faults
      /\ ~past'.shared => ~past.shared /\ Migrating = {}
  <2> DEFINE shared == past.shared \/ Migrating # {}
  <2>1. past' = [past EXCEPT !.shared = shared]  BY <1>1
  <2> HIDE DEF shared
  <2>2. past'.signed = past.signed /\ past'.faults = past.faults /\ past'.shared = shared
    BY <2>1 DEF TypeInv
  <2> QED  BY <2>2 DEF shared
<1>4. /\ \A q \in Process \ {p} : proc'[q] = proc[q]
      /\ proc'[p].pc = "write_temp" /\ proc'[p].handle = "temp" /\ proc'[p].signs = proc[p].signs
  <2> DEFINE r == [proc[p] EXCEPT !.pc = "write_temp", !.handle = "temp"]
  <2>1. proc' = [proc EXCEPT ![p] = r]  BY <1>1
  <2>2. r.pc = "write_temp" /\ r.handle = "temp" /\ r.signs = proc[p].signs
    <3>1. proc[p] \in ProcRec  BY DEF TypeInv
    <3> QED  BY <3>1 DEF ProcRec
  <2> HIDE DEF r
  <2> QED  BY <2>1, <2>2, Records
<1>5. Locked  BY <1>1 DEF Locked, Locks, Carrying
<1>6. Placed'  BY <1>2, <1>4, <1>5 DEF KeptInv, Placed
<1>7. Unshared'
  <2>1. ASSUME ~past'.shared
        PROVE  \A q \in Process \ {p} : proc'[q].handle = "none" /\ proc'[q].pc # "rename"
    <3>1. \A q \in Process : proc[q].handle = "none"  BY <1>3, <2>1 DEF Migrating
    <3> QED  BY <1>4, <3>1 DEF KeptInv, Placed
  <2>2. ~past'.shared => There  BY <1>3, <1>5 DEF KeptInv, Unshared
  <2> QED  BY <1>2, <1>4, <2>1, <2>2 DEF Unshared, There
<1>8. \A q \in Process, h \in {"private", "temp"} : Writer(q, h) => Writer(q, h)'
  BY <1>1, <1>4 DEF Writer
<1>9. Writer(p, "temp")'  BY <1>4 DEF Writer
<1>10. Pending'  BY <1>2, <1>3, <1>5, <1>8, <1>9 DEF KeptInv, Pending, There
<1> QED  BY <1>6, <1>7, <1>10 DEF KeptInv

\* What is written is the key, to whatever file the process opened.
LEMMA WriteTempKept ==
  ASSUME KeyAssumption, TypeInv, KeptInv, NEW p \in Process, WriteTemp(p)
  PROVE  KeptInv'
<1> DEFINE handle == proc[p].handle
           new == File(proc[p].key, "encrypted")
<1>1. /\ proc[p].pc = "write_temp" /\ Goto(p, "rename") /\ past' = past
      /\ disk' = [f \in DOMAIN disk |-> IF f = handle THEN new ELSE disk[f]]
  BY DEF WriteTemp, At
<1>2. disk'.private = (IF handle = "private" THEN new ELSE disk.private)
      /\ disk'.temp = (IF handle = "temp" THEN new ELSE disk.temp)
  <2>1. disk \in Disk  BY DEF TypeInv, Disk
  <2>2. DOMAIN disk = {"private", "public", "temp"}  BY <2>1 DEF Disk
  <2> HIDE DEF handle, new
  <2> QED  BY <1>1, <2>1, <2>2
<1>3. new \notin {Absent, Torn}
  <2>1. proc[p].key \in KeyId  BY <1>1 DEF TypeInv, Carrying
  <2> QED  BY <2>1, Files
<1> HIDE DEF new
<1>4. /\ \A q \in Process \ {p} : proc'[q] = proc[q]
      /\ proc'[p].pc = "rename" /\ proc'[p].handle = handle /\ handle # "none"
  BY <1>1, Records DEF KeptInv, Placed
<1>5. Locked  BY <1>1 DEF Locked, Locks, Carrying
<1>6. Placed'
  <2>1. \A q \in Process : proc'[q].pc # "write"  BY <1>4, <1>5 DEF KeptInv, Placed
  <2>2. disk'.private # Absent  BY <1>2, <1>3, <1>5 DEF KeptInv, Placed
  <2> QED  BY <1>4, <2>1, <2>2 DEF KeptInv, Placed
<1>7. Unshared'
  <2>1. ASSUME ~past.shared PROVE handle = "temp" /\ \A q \in Process \ {p} : proc[q].handle = "none"
    BY <1>4, <2>1 DEF KeptInv, Unshared
  <2>2. \A q \in Process \ {p} : proc[q].handle = "none" => proc[q].pc # "rename"
    BY DEF KeptInv, Placed
  <2> QED  BY <1>1, <1>2, <1>3, <1>4, <1>5, <2>1, <2>2 DEF KeptInv, Unshared, There
<1>8. \A q \in Process \ {p}, h \in {"private", "temp"} : Writer(q, h) => Writer(q, h)'
  BY <1>1, <1>4 DEF Writer
<1>9. Pending'
  <2>1. ASSUME past.faults = 0, disk'.private \in {Absent, Torn}
        PROVE  \E q \in Process : Writer(q, "private")'
    <3>1. disk'.private = disk.private /\ handle # "private"  BY <1>2, <1>3, <2>1
    <3>2. PICK q \in Process : Writer(q, "private")
      BY <1>5, <2>1, <3>1 DEF KeptInv, Pending, There
    <3>3. q # p  BY <3>1, <3>2 DEF Writer
    <3> QED  BY <1>8, <3>2, <3>3
  <2>2. ASSUME past.faults = 0, disk'.temp = Torn PROVE \E q \in Process : Writer(q, "temp")'
    <3>1. disk'.temp = disk.temp /\ handle # "temp"  BY <1>2, <1>3, <2>2
    <3>2. PICK q \in Process : Writer(q, "temp")  BY <2>2, <3>1 DEF KeptInv, Pending
    <3>3. q # p  BY <3>1, <3>2 DEF Writer
    <3> QED  BY <1>8, <3>2, <3>3
  <2> QED  BY <1>1, <2>1, <2>2 DEF Pending, There
<1> QED  BY <1>6, <1>7, <1>9 DEF KeptInv

\* A rename puts in place what is there; if another is still to write it, that
\* other has the key open from here on.
LEMMA RenameKept ==
  ASSUME KeyAssumption, TypeInv, KeptInv, NEW p \in Process, Rename(p)
  PROVE  KeptInv'
<1>1. /\ proc[p].pc = "rename" /\ disk.temp # Absent /\ past' = past
      /\ disk' = [disk EXCEPT !.private = disk.temp, !.temp = Absent]
      /\ proc' = [q \in Process |-> IF q = p THEN Holding(p, proc[p].key, TRUE)
                                    ELSE [proc[q] EXCEPT !.handle = Moved(@)]]
  BY DEF Rename, At
<1>2. disk'.private = disk.temp /\ disk'.temp = Absent
  BY <1>1 DEF TypeInv
<1>3. ASSUME NEW q \in Process \ {p}
      PROVE  /\ proc'[q].pc = proc[q].pc /\ proc'[q].signs = proc[q].signs
             /\ proc'[q].handle = Moved(proc[q].handle)
  <2>1. proc[q] \in ProcRec  BY DEF TypeInv
  <2> DEFINE h == Moved(proc[q].handle)
  <2>2. proc'[q] = [proc[q] EXCEPT !.handle = h]  BY <1>1
  <2> HIDE DEF h
  <2>3. proc'[q].pc = proc[q].pc /\ proc'[q].signs = proc[q].signs /\ proc'[q].handle = h
    BY <2>1, <2>2 DEF ProcRec
  <2> QED  BY <2>3 DEF h
<1>4. proc'[p].pc = "idle" /\ proc'[p].handle = "none"
  <2>1. proc'[p] = Holding(p, proc[p].key, TRUE)  BY <1>1
  <2> QED  BY <2>1 DEF Holding
<1>5. Locked  BY <1>1 DEF Locked, Locks, Carrying
<1>6. \A h : Moved(h) = "none" <=> h = "none"  BY DEF Moved
<1>7. Placed'
  <2>1. \A q \in Process : proc[q].pc # "write"  BY <1>5 DEF KeptInv, Placed
  <2>2. disk'.private # Absent  BY <1>1, <1>2
  <2>3. ASSUME NEW q \in Process
        PROVE  /\ proc'[q].handle # "none" <=> proc'[q].pc \in {"write_temp", "rename"}
               /\ proc'[q].pc # "write"
    <3>1. CASE q = p  BY <1>4, <3>1
    <3>2. CASE q # p
      <4>1. /\ proc'[q].pc = proc[q].pc /\ proc'[q].handle = Moved(proc[q].handle)
        BY <1>3, <3>2
      <4>2. proc[q].handle # "none" <=> proc[q].pc \in {"write_temp", "rename"}
        BY DEF KeptInv, Placed
      <4> QED  BY <1>6, <2>1, <4>1, <4>2
    <3> QED  BY <3>1, <3>2
  <2> QED  BY <2>2, <2>3 DEF Placed
<1>8. Unshared'
  <2>1. ASSUME ~past.shared
        PROVE  /\ disk.temp \notin {Absent, Torn}
               /\ \A q \in Process : proc'[q].handle = "none" /\ proc'[q].pc # "rename"
    <3>1. proc[p].handle # "none"  BY <1>1 DEF KeptInv, Placed
    <3>2. \A q \in Process \ {p} : proc[q].handle = "none"  BY <2>1, <3>1 DEF KeptInv, Unshared
    <3>3. \A q \in Process \ {p} : proc[q].pc # "rename"  BY <3>2 DEF KeptInv, Placed
    <3>4. disk.temp \notin {Absent, Torn}  BY <1>1, <2>1 DEF KeptInv, Unshared
    <3> QED  BY <1>3, <1>4, <1>6, <3>2, <3>3, <3>4
  <2> QED  BY <1>1, <1>2, <2>1 DEF Unshared, There
<1>9. Pending'
  <2>1. ASSUME past.faults = 0, disk'.private \in {Absent, Torn}
        PROVE  \E q \in Process : Writer(q, "private")'
    <3>1. disk.temp = Torn  BY <1>1, <1>2, <2>1
    <3>2. PICK q \in Process : Writer(q, "temp")  BY <2>1, <3>1 DEF KeptInv, Pending
    <3>3. q # p  BY <1>1, <3>2 DEF Writer
    <3> QED  BY <1>3, <3>2, <3>3 DEF Writer, Moved
  <2>2. disk'.temp # Torn  BY <1>2 DEF KeyAssumption
  <2> QED  BY <1>1, <2>1, <2>2 DEF Pending, There
<1> QED  BY <1>7, <1>8, <1>9 DEF KeptInv

\* Who signs has the key already.
LEMMA SignKept ==
  ASSUME KeyAssumption, TypeInv, KeptInv, NEW p \in Process, Sign(p)
  PROVE  KeptInv'
<1>1. /\ UNCHANGED <<disk, proc>> /\ past'.faults = past.faults /\ past'.shared = past.shared
      /\ proc[p].signs
  BY DEF Sign, TypeInv
<1>2. Locked  BY <1>1 DEF Locked, Locks
<1> QED  BY <1>1, <1>2 DEF KeptInv, Placed, Unshared, Pending, There, Writer, Locked, Locks

\* The key that has signed stays on the disk, in the one form or the other,
\* through its migration by any number of processes and the death of whoever
\* carries it out; where two shared the temporary file, once they have ended and
\* if nobody died.
THEOREM SignedKeysAreKept ==
  ASSUME KeyAssumption
  PROVE  Spec => []SignedKeyKept
<1>1. Init => OneKeyInv /\ KeptInv  BY InitKey, InitKept
<1>2. ASSUME OneKeyInv, KeptInv, [Next]_vars PROVE KeptInv'
  <2>1. CASE UNCHANGED vars
    BY <1>2, <2>1
       DEF vars, KeptInv, Placed, Unshared, Pending, There, Writer, Locked, Locks
  <2>2. ASSUME NEW p \in Process, Step(p) PROVE KeptInv'
    <3>1. TypeInv  BY <1>2 DEF OneKeyInv
    <3>2. CASE Create(p) /\ disk.private = Absent  BY <1>2, <3>1, <3>2, CreateKept
    <3>3. CASE WriteKey(p)  BY <1>2, <3>3, WriteKeyKept
    <3>4. CASE OpenTemp(p)  BY <1>2, <3>1, <3>4, OpenTempKept
    <3>5. CASE WriteTemp(p)  BY <1>2, <3>1, <3>5, WriteTempKept
    <3>6. CASE Rename(p)  BY <1>2, <3>1, <3>6, RenameKept
    <3>7. CASE Sign(p)  BY <1>2, <3>1, <3>7, SignKept
    <3> QED
      BY <1>2, <2>2, <3>1, <3>2, <3>3, <3>4, <3>5, <3>6, <3>7, StillSteps DEF Step
  <2> QED  BY <1>2, <2>1, <2>2 DEF Next
<1>3. ASSUME OneKeyInv, KeptInv PROVE SignedKeyKept
  <2>1. ASSUME NEW k \in past.signed, ~past.shared \/ (past.faults = 0 /\ Migrating = {})
        PROVE  There
    <3>1. Locked  BY <2>1 DEF Locked
    <3>2. Migrating = {} => \A p \in Process : ~Writer(p, "private")
      BY DEF Migrating, Writer
    <3> QED  BY <1>3, <2>1, <3>1, <3>2 DEF KeptInv, Unshared, Pending
  <2>2. ASSUME NEW k \in past.signed, There
        PROVE  disk.private \in {File(k, "plain"), File(k, "encrypted")}
    BY <1>3, <2>2 DEF OneKeyInv, Bare, Sole, There
  <2> QED  BY <2>1, <2>2 DEF SignedKeyKept
<1>4. OneKeyInv /\ KeptInv /\ [Next]_vars => (OneKeyInv /\ KeptInv)'
  BY <1>2, NextKey
<1>5. OneKeyInv /\ KeptInv => SignedKeyKept  BY <1>3
<1> QED  BY <1>1, <1>4, <1>5, PTL DEF Spec

==============================================================================
