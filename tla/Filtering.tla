------------------------------ MODULE Filtering ------------------------------
(***************************************************************************)
(* The runner's list comprehension: the elements at some positions of a    *)
(* sequence, in their order.  By position and not by recursion, as the     *)
(* provers need it.                                                        *)
(***************************************************************************)
EXTENDS Naturals, FiniteSets

Nth(kept, n) == CHOOSE k \in kept : Cardinality({j \in kept : j <= k}) = n

AtPositions(list, kept) == [n \in 1 .. Cardinality(kept) |-> list[Nth(kept, n)]]
=============================================================================
