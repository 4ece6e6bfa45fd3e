------------------------------ MODULE Ordering ------------------------------
(* The elements of a finite set as the code lists them, first things first.  *)
(* SortSeq would do, but it has no definition that could be reasoned about.  *)
EXTENDS Integers, FiniteSets

\* The k-th element has k - 1 before it.
Sorted(S, before) ==
  [k \in 1 .. Cardinality(S) |->
     CHOOSE x \in S : Cardinality({y \in S : <<y, x>> \in before}) = k - 1]

\* Numbers, from the least.
Ascending(S) == Sorted(S, {p \in S \X S : p[1] < p[2]})
=============================================================================
