-------------------------------- MODULE Ranks --------------------------------
(***************************************************************************)
(* Finite sets of numbers in increasing order, for loops that push some of *)
(* the indices they go through to an array.                                *)
(***************************************************************************)
EXTENDS Naturals, FiniteSets

\* How many members of I are at most i.
Rank(I, i) == Cardinality({j \in I : j <= i})

\* The n-th member of I.
Nth(I, n) == CHOOSE i \in I : Rank(I, i) = n
=============================================================================
