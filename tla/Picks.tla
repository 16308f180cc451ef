------------------------------- MODULE Picks -------------------------------
(***************************************************************************)
(* What a comprehension with a condition leaves of a list: the elements    *)
(* that stand at the given places, in their order.                         *)
(***************************************************************************)
EXTENDS Naturals, Sequences, FiniteSets

SetOf(s) == {s[i] : i \in 1 .. Len(s)}
Nth(n, places) == CHOOSE i \in places : Cardinality({j \in places : j <= i}) = n
Picked(s, places) == [n \in 1 .. Cardinality(places) |-> s[Nth(n, places)]]
=============================================================================
