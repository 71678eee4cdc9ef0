-------------------------------- MODULE Orders --------------------------------
(***************************************************************************)
(* Sorting and filtering by counting: the n-th of a set is the one with    *)
(* n - 1 before it.  The library's SetToSortSeq and SelectSeq return the   *)
(* same, but a proof cannot look into them; SequenceLemmas has the facts   *)
(* about these.  And a sequence made of another, element by element.       *)
(***************************************************************************)
EXTENDS Integers, FiniteSets, SequencesExt

\* The elements of S in the order whose pairs are before.
Sorted(S, before) ==
  [n \in 1..Cardinality(S) |->
     CHOOSE x \in S : Cardinality({y \in S : <<y, x>> \in before}) = n - 1]

\* The elements of a sequence at some of its places, in their order.
Picked(s, places) ==
  LET sorted == Sorted(places, {p \in places \X places : p[1] < p[2]})
  IN  [n \in 1..Cardinality(places) |-> s[sorted[n]]]

\* What each element of a sequence becomes, one after the other.
FlatMap(f(_), s) == FlattenSeq([i \in DOMAIN s |-> f(s[i])])
===============================================================================
