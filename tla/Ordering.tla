------------------------------ MODULE Ordering ------------------------------
(***************************************************************************)
(* The order in which the store hands out rows: ORDER BY a numbered column *)
(* ascending.                                                              *)
(***************************************************************************)
EXTENDS Integers, FiniteSets

\* How many of the numbers in S are at most x.
Rank(S, x) == Cardinality({y \in S : y <= x})

\* The numbers of the finite set S as a sequence, the smallest first.
InOrder(S) == [n \in 1 .. Cardinality(S) |-> CHOOSE x \in S : Rank(S, x) = n]
=============================================================================
