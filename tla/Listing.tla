------------------------------- MODULE Listing -------------------------------
(***************************************************************************)
(* A finite set S listed in an order, before, which is the set of the      *)
(* pairs whose first element comes before the second: the n-th element is  *)
(* the one that n - 1 elements come before.                                *)
(***************************************************************************)
EXTENDS Integers, FiniteSets

Preceding(x, S, before) == {y \in S : <<y, x>> \in before}

Listed(S, before) ==
    [n \in 1..Cardinality(S) |->
        CHOOSE x \in S : Cardinality(Preceding(x, S, before)) = n - 1]

=============================================================================
