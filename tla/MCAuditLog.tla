------------------------------ MODULE MCAuditLog ------------------------------
(* Small logs for AuditLog: two processes, one word to say. *)
EXTENDS AuditLog, TLC

CONSTANTS p1, p2, t1, none

\* Processes are told apart by what they do alone.
Processes == Permutations(Process)
==============================================================================
