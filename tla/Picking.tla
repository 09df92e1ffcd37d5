------------------------------ MODULE Picking ------------------------------
(***************************************************************************)
(* `filter`: what a predicate keeps of a list, in the order of the list.   *)
(* The predicate is given as the places that satisfy it.                   *)
(***************************************************************************)
EXTENDS Naturals, FiniteSets

\* The elements of s that stand at the places I, in their order.
Picked(s, I) == [k \in 1 .. Cardinality(I) |-> s[CHOOSE i \in I : Cardinality({j \in I : j <= i}) = k]]
=============================================================================
