----------------------------- MODULE Strictness -----------------------------
(***************************************************************************)
(* The one rule by which the ssh, pam and kernel plugins judge a setting   *)
(* against a baseline (crates/hardener-plugins/src/strictness.rs).  Every  *)
(* comparison has a direction: values are placed on a scale on which       *)
(* higher is stricter, and a value that cannot be placed is neither        *)
(* compliant nor able to move a target.                                    *)
(*                                                                         *)
(* A comparison is a record.  Its kind is one of four; a "Ranked" one      *)
(* lists groups of spellings, weakest first, the spelling this tool writes *)
(* at the head of each.  A number is its value, whatever zeros it is       *)
(* written with; the 64 bits of the code's integers are MinInt..MaxInt.    *)
(***************************************************************************)
EXTENDS Integers, Sequences

CONSTANTS MinInt, MaxInt

\* Two's complement: the most negative number has no positive counterpart.
ASSUME WidthAssumption == MaxInt \in Nat \ {0} /\ MinInt = -MaxInt - 1

Kind == {"AtMost", "AtLeast", "NonZeroAtMost", "Ranked"}

Numeric(kind) == [kind |-> kind, order |-> <<>>]
Ranked(order) == [kind |-> "Ranked", order |-> order]

\* A table this tool ranks by has a spelling in every group, and none in two.
IsComparison(compare) ==
    \/ compare.kind \in Kind \ {"Ranked"}
    \/ /\ compare.kind = "Ranked"
       /\ Len(compare.order) \in Nat /\ DOMAIN compare.order = 1..Len(compare.order)
       /\ \A i \in DOMAIN compare.order : 1 \in DOMAIN compare.order[i]
       /\ \A i, j \in DOMAIN compare.order :
             (\E a \in DOMAIN compare.order[i], b \in DOMAIN compare.order[j] :
                 compare.order[i][a] = compare.order[j][b]) => i = j

\* saturating_neg
Negated(n) == IF n = MinInt THEN MaxInt ELSE -n

\* The group of spellings a word belongs to: the first, by `position`.
Rank(order, value) ==
    CHOOSE i \in DOMAIN order :
        /\ \E j \in DOMAIN order[i] : order[i][j] = value
        /\ \A k \in 1..(i - 1) : \A j \in DOMAIN order[k] : order[k][j] # value

\* `place` is Some.
Placeable(compare, value) ==
    IF compare.kind = "Ranked"
    THEN \E i \in DOMAIN compare.order :
            \E j \in DOMAIN compare.order[i] : compare.order[i][j] = value
    ELSE value \in MinInt..MaxInt

\* The place of a placeable value, higher being stricter.
Score(compare, value) ==
    CASE compare.kind = "Ranked"        -> Rank(compare.order, value)
      [] compare.kind = "AtLeast"       -> value
      [] compare.kind = "AtMost"        -> Negated(value)
      [] compare.kind = "NonZeroAtMost" -> IF value = 0 THEN MinInt ELSE Negated(value)

\* The spelling this tool writes for a placeable value.
Spelling(compare, value) ==
    IF compare.kind = "Ranked"
    THEN compare.order[Rank(compare.order, value)][1]
    ELSE value

\* clamp_target: the stricter of the two; a tie, or a candidate that has no
\* place, leaves the baseline.
ClampTarget(compare, baseline, candidate) ==
    IF /\ Placeable(compare, candidate)
       /\ Score(compare, candidate) > Score(compare, baseline)
    THEN Spelling(compare, candidate)
    ELSE Spelling(compare, baseline)

\* violated_by: weaker than the target, unset, or not a value it can place.
ViolatedBy(compare, target, current) ==
    Placeable(compare, current) => Score(compare, current) < Score(compare, target)
=============================================================================
