----------------------------- MODULE SigningKey -----------------------------
(***************************************************************************)
(* The key that signs checkpoints (crates/hardener-state/src/signing.rs):  *)
(* a private file, a public one beside it, and processes that open them at *)
(* any time, generating the pair on a host that has none and rewriting a   *)
(* key of an earlier release in its encrypted form.                        *)
(*                                                                         *)
(* A file is Absent, Torn (opened and not written), or holds a key in a    *)
(* format.  Each file operation is a step, between any two of which a      *)
(* process may die.  `rotate_key` has no caller and is left out.           *)
(***************************************************************************)
EXTENDS Naturals, FiniteSets

CONSTANTS Process, Absent, Torn,
          MaxFaults   \* deaths and failed writes

VARIABLES disk,     \* the private, the public and the temporary file
          proc,     \* process -> what it is doing, and the key it holds
          past      \* faults, the keys that have signed, and whether two
                    \* migrations have shared the temporary file

vars == <<disk, proc, past>>

\* A process generates the key that bears its name; "first" is an older one.
KeyId == Process \cup {"first"}
File(k, format) == [key |-> k, format |-> format]
PrivateFile == {Absent, Torn} \cup {File(k, f) : k \in KeyId, f \in {"plain", "encrypted"}}

\* A file is one thing or the other.
KeyAssumption ==
    /\ Absent # Torn
    /\ \A k \in KeyId, f \in {"plain", "encrypted"} : File(k, f) \notin {Absent, Torn}
    /\ {Absent, Torn} \cap KeyId = {}

\* handle is where the temporary file that the process has opened is now.
Idle == [pc |-> "idle", root |-> TRUE, key |-> Absent, signs |-> FALSE, handle |-> "none"]

Init ==
    /\ disk \in [private : {Absent, File("first", "plain"), File("first", "encrypted")},
                 public : {Absent, "first"}, temp : {Absent}]
    /\ proc = [p \in Process |-> Idle]
    /\ past = [faults |-> 0, signed |-> {}, shared |-> FALSE]

At(p, pc) == proc[p].pc = pc
Goto(p, pc) == proc' = [proc EXCEPT ![p].pc = pc]
Fail(p) == proc' = [proc EXCEPT ![p] = Idle]
Holding(p, k, signs) ==
    [pc |-> "idle", root |-> proc[p].root, key |-> k, signs |-> signs, handle |-> "none"]
Hold(p, k, signs) == proc' = [proc EXCEPT ![p] = Holding(p, k, signs)]

-----------------------------------------------------------------------------
(* new_with_path, one file operation to a step.                            *)

Begin(p) ==
    /\ At(p, "idle") /\ proc[p].key = Absent
    /\ \E root \in BOOLEAN : proc' = [proc EXCEPT ![p].pc = "open", ![p].root = root]
    /\ UNCHANGED <<disk, past>>

\* Is the private key readable, as it is to root wherever it is there?
Open(p) ==
    /\ At(p, "open")
    /\ Goto(p, IF proc[p].root /\ disk.private # Absent THEN "load" ELSE "public")
    /\ UNCHANGED <<disk, past>>

\* If not, load_verifier_only where there is a public one.
Public(p) ==
    /\ At(p, "public")
    /\ \/ disk.public = Absent /\ Goto(p, "absent")
       \/ disk.public = Torn /\ Fail(p)
       \/ disk.public \notin {Absent, Torn} /\ Hold(p, disk.public, FALSE)
    /\ UNCHANGED <<disk, past>>

\* A key that is there and cannot be read is never replaced; a directory that
\* others may not write refuses the new one.
CheckAbsent(p) ==
    /\ At(p, "absent")
    /\ IF disk.private = Absent /\ proc[p].root THEN Goto(p, "create") ELSE Fail(p)
    /\ UNCHANGED <<disk, past>>

\* Seeded fault: the private key is opened without create_new.
CreateOver(p) ==
    /\ At(p, "create")
    /\ Goto(p, "write")
    /\ disk' = [disk EXCEPT !.private = Torn]
    /\ UNCHANGED past

\* save_key: create_new, so that of two only one goes on.
Create(p) ==
    /\ At(p, "create")
    /\ IF disk.private = Absent
       THEN /\ Goto(p, "write")
            /\ disk' = [disk EXCEPT !.private = Torn]
       ELSE /\ Fail(p)
            /\ UNCHANGED disk
    /\ UNCHANGED past

WriteKey(p) ==
    /\ At(p, "write")
    /\ Goto(p, "create_public")
    /\ disk' = [disk EXCEPT !.private = File(p, "encrypted")]
    /\ UNCHANGED past

\* save_public_key: create_new again; where it fails the caller has no signer.
CreatePublic(p) ==
    /\ At(p, "create_public")
    /\ IF disk.public = Absent
       THEN /\ Goto(p, "write_public")
            /\ disk' = [disk EXCEPT !.public = Torn]
       ELSE /\ Fail(p)
            /\ UNCHANGED disk
    /\ UNCHANGED past

WritePublic(p) ==
    /\ At(p, "write_public")
    /\ Hold(p, p, TRUE)
    /\ disk' = [disk EXCEPT !.public = p]
    /\ UNCHANGED past

\* load_key, of whatever file is there by now.
Load(p) ==
    /\ At(p, "load")
    /\ \/ disk.private \in {Absent, Torn} /\ Fail(p)
       \/ /\ disk.private \in {File(k, "encrypted") : k \in KeyId}
          /\ Hold(p, disk.private.key, TRUE)
       \/ /\ disk.private \in {File(k, "plain") : k \in KeyId}
          /\ proc' = [proc EXCEPT ![p].pc = "migrate", ![p].key = disk.private.key]
    /\ UNCHANGED <<disk, past>>

-----------------------------------------------------------------------------
(* replace_key_atomically.  The temporary file is not opened with          *)
(* create_new, so two migrations may share it: what the second truncates   *)
(* and writes may already have been renamed over the key by the first.     *)

Migrating == {p \in Process : proc[p].handle # "none"}

\* Seeded fault: the plain key is removed before its successor is there.
OpenTempInPlace(p) ==
    /\ At(p, "migrate")
    /\ proc' = [proc EXCEPT ![p].pc = "write_temp", ![p].handle = "temp"]
    /\ disk' = [disk EXCEPT !.temp = Torn, !.private = Absent]
    /\ past' = [past EXCEPT !.shared = @ \/ Migrating # {}]

OpenTemp(p) ==
    /\ At(p, "migrate")
    /\ proc' = [proc EXCEPT ![p].pc = "write_temp", ![p].handle = "temp"]
    /\ disk' = [disk EXCEPT !.temp = Torn]
    /\ past' = [past EXCEPT !.shared = @ \/ Migrating # {}]

WriteTemp(p) ==
    /\ At(p, "write_temp")
    /\ Goto(p, "rename")
    /\ disk' = [f \in DOMAIN disk |->
                   IF f = proc[p].handle THEN File(proc[p].key, "encrypted") ELSE disk[f]]
    /\ UNCHANGED past

\* A write that fails leaves the temporary file and the key in use.
WriteTempFails(p) ==
    /\ At(p, "write_temp") /\ past.faults < MaxFaults
    /\ Hold(p, proc[p].key, TRUE)
    /\ past' = [past EXCEPT !.faults = @ + 1]
    /\ UNCHANGED disk

Moved(handle) == IF handle = "temp" THEN "private" ELSE IF handle = "private" THEN "gone" ELSE handle

\* Whoever has the temporary file open has the key open from here on.
Rename(p) ==
    /\ At(p, "rename") /\ disk.temp # Absent
    /\ disk' = [disk EXCEPT !.private = disk.temp, !.temp = Absent]
    /\ proc' = [q \in Process |->
                   IF q = p THEN Holding(p, proc[p].key, TRUE)
                   ELSE [proc[q] EXCEPT !.handle = Moved(@)]]
    /\ UNCHANGED past

\* Another has renamed it: the key in use is kept, and the user warned.
RenameFails(p) ==
    /\ At(p, "rename") /\ disk.temp = Absent
    /\ Hold(p, proc[p].key, TRUE)
    /\ UNCHANGED <<disk, past>>

-----------------------------------------------------------------------------

Sign(p) ==
    /\ proc[p].signs /\ proc[p].key \notin past.signed
    /\ past' = [past EXCEPT !.signed = @ \cup {proc[p].key}]
    /\ UNCHANGED <<disk, proc>>

Exit(p) ==
    /\ At(p, "idle") /\ proc[p].key # Absent
    /\ Fail(p)
    /\ UNCHANGED <<disk, past>>

Die(p) ==
    /\ ~At(p, "idle") /\ past.faults < MaxFaults
    /\ Fail(p)
    /\ past' = [past EXCEPT !.faults = @ + 1]
    /\ UNCHANGED disk

Step(p) ==
    \/ Begin(p) \/ Open(p) \/ Public(p) \/ CheckAbsent(p)
    \/ Create(p) \/ WriteKey(p) \/ CreatePublic(p) \/ WritePublic(p)
    \/ Load(p) \/ OpenTemp(p) \/ WriteTemp(p) \/ WriteTempFails(p) \/ Rename(p) \/ RenameFails(p)
    \/ Sign(p) \/ Exit(p) \/ Die(p)

Next == \E p \in Process : Step(p)

Spec == Init /\ [][Next]_vars

-----------------------------------------------------------------------------
(* Properties.                                                             *)

TypeOK ==
    /\ {disk.private, disk.temp} \subseteq PrivateFile
    /\ disk.public \in KeyId \cup {Absent, Torn}
    /\ \A p \in Process : proc[p].key \in KeyId \cup {Absent}

\* All that hold a key hold one and the same, and all that was signed verifies
\* under it, whichever process came first, however they interleaved and
\* wherever one of them died: a second key would void every signature made.
OneKey ==
    /\ Cardinality((past.signed \cup {proc[p].key : p \in Process}) \ {Absent}) <= 1
    /\ \A k \in past.signed : disk.public \in {Absent, Torn, k}

\* The key that has signed stays on the disk, in the one form or the other,
\* through its migration and the death of whoever carries it out; where two
\* migrations shared the temporary file, only once both have come to an end,
\* and only if neither of them died.
SignedKeyKept ==
    (~past.shared \/ (past.faults = 0 /\ Migrating = {})) =>
        \A k \in past.signed : disk.private \in {File(k, "plain"), File(k, "encrypted")}
=============================================================================
