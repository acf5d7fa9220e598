----------------------------- MODULE MCCheckpoint -----------------------------
(***************************************************************************)
(* Small hosts for Checkpoint.  Paths, in byte order of their names:        *)
(*   1  /etc/nftables.conf         a file an apply may create or replace    *)
(*   2  /etc/shadow                an account database, undeletable         *)
(*   3  /etc/ssh                   a directory, undeletable                 *)
(*   4  /etc/ssh/sshd_config       a file in it, undeletable                *)
(*   5  /usr/lib/systemd/system/x  what a link leads to, not rollback-able  *)
(***************************************************************************)
EXTENDS Checkpoint, TLC

CONSTANTS a, b, torn, none, m0, m1, mt, root, adm, h1, h2, o1, o2

MCContent == {a, b, torn}
MCMode == {m0, m1, mt}
MCOwner == {root, adm}

MCParent == [p \in Path |-> IF p = 4 THEN 3 ELSE 0]
MCAllowed == Path \ {5}
MCUndeletable == Path \cap {2, 3, 4}
MCAccount == Path \cap {2}

FilePlan == [paths |-> {1}, full |-> TRUE]
DirPlan == [paths |-> {3}, full |-> TRUE]
MetaPlan == [paths |-> Path \cap {1, 2}, full |-> FALSE]

FilePlans == {FilePlan, MetaPlan}
DirPlans == {DirPlan, [paths |-> {4}, full |-> TRUE]}

MCInitial == {[p \in Path |-> IF p = 3 THEN Dir(m1, root) ELSE File(a, m1, root)]}

\* One path of each kind the rest of the host may change.
LinkedStates ==
  [p \in Path |-> CASE p = 1 -> {Absent, File(b, m0, adm), Link(5)}
                    [] p = 2 -> {Absent, File(b, m0, root)}
                    [] OTHER -> {}]
LocalStates == [p \in Path |-> IF p = 1 THEN {Absent, File(b, m0, adm), Link(5)} ELSE {}]
TreeStates ==
  [p \in Path |-> CASE p = 3 -> {Absent, Dir(m0, root)}
                    [] p = 4 -> {Absent, File(b, m0, root)}
                    [] OTHER -> {}]
DanglingStates == [p \in Path |-> IF p = 1 THEN {Link(5)} ELSE
                                  IF p = 5 THEN {Absent} ELSE {}]

\* Hosts of one kind, and operators, are told apart by what they do alone.
Interchangeable == Permutations(Host) \cup Permutations(Operator)

\* One call at a time, while the other operators edit and delete checkpoints.
OneCall ==
  \A o, q \in Operator : o # q => op[o].pc = "idle" \/ op[q].pc = "idle"
==============================================================================
