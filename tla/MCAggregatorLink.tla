-------------------------- MODULE MCAggregatorLink --------------------------
(***************************************************************************)
(* AggregatorLink with two aggregators and a few requests at once.         *)
(***************************************************************************)
EXTENDS AggregatorLink, TLC

Symmetry == Permutations(Aggs) \cup Permutations(Requests)

\* Histories with more than one mishap are left out.
OneMishap == Cardinality(mishaps) <= 1
=============================================================================
