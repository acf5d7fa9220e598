-------------------------------- MODULE Ledger --------------------------------
(***************************************************************************)
(* What an audit trail promises (crates/hardener-state/src/audit.rs and     *)
(* hash_chain.rs): one history that only grows, an entry at a time, and no  *)
(* act acknowledged as recorded that is not in it.  An entry may be there   *)
(* that was not acknowledged: its writer died before it could answer.       *)
(***************************************************************************)
EXTENDS Naturals, Sequences

CONSTANT Data

VARIABLES
  history,  \* every entry recorded, in order
  acked     \* the entries a writer was told are recorded

Init == history = <<>> /\ acked = {}

Record(d) ==
  /\ history' = Append(history, d)
  /\ acked' \in {acked, acked \cup {d}}

Next == \E d \in Data : Record(d)

Spec == Init /\ [][Next]_<<history, acked>>

==============================================================================
