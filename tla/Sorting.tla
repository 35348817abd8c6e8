-------------------------------- MODULE Sorting --------------------------------
(***************************************************************************)
(* Sequences of the elements of a set in an order.                         *)
(***************************************************************************)
EXTENDS Naturals, FiniteSets

\* The elements of S in an order that is given as a set of pairs.
Rank(x, S, order) == Cardinality({y \in S : <<y, x>> \in order})
Sorted(S, order) == [i \in 1..Cardinality(S) |-> CHOOSE x \in S : Rank(x, S, order) = i - 1]
=============================================================================
