------------------------------- MODULE Policy -------------------------------
(***************************************************************************)
(* What the configuration says of one setting: the operator's override of  *)
(* a target, and the documented exception that lets a deviation stand      *)
(* (crates/hardener-core/src/config.rs).  An exception names a key and the *)
(* value it documents; it is honoured only while it is acknowledged, has   *)
(* not expired, and documents what the host really has.                    *)
(***************************************************************************)
EXTENDS Strictness

\* The exceptions of a configuration, a map from keys, as a set of records.
Documented(exceptions, key) == {e \in exceptions : e.key = key}

\* exception_outcome, which every scan asks; the expiry is looked at first.
ExceptionOutcome(exceptions, key, observed) ==
    LET found == {e \in Documented(exceptions, key) : e.allowed} IN
    IF found = {} THEN "not configured"
    ELSE IF \E e \in found : e.expired THEN "expired"
    ELSE IF \E e \in found : e.value = observed THEN "applied"
    ELSE "mismatch"

\* matching_exception, which every apply and preview asks.
MatchingException(exceptions, key, observed) ==
    \E e \in Documented(exceptions, key) :
        e.allowed /\ ~e.expired /\ e.value = observed

\* resolve_str and Strictness::resolved_target: an override that tightens the
\* baseline replaces it, any other leaves it.
ResolvedTarget(compare, baseline, override) ==
    ClampTarget(compare, baseline, override)
=============================================================================
