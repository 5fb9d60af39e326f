----------------------------- MODULE Selection -----------------------------
(***************************************************************************)
(* What Vec::retain and a filtered drain leave of a list: the elements at  *)
(* some of its places, in their order.                                     *)
(***************************************************************************)
EXTENDS Integers, Sequences, FiniteSets

(* The place that has n - 1 of the given places before it.                 *)
Nth(places, n) == CHOOSE i \in places : Cardinality(places \cap 1..i) = n

Select(s, places) == [n \in 1..Cardinality(places) |-> s[Nth(places, n)]]
=============================================================================
