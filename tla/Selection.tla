------------------------------- MODULE Selection -------------------------------
(***************************************************************************)
(* What a loop that skips some elements keeps of a sequence: those at the  *)
(* chosen indexes, in their order.                                         *)
(***************************************************************************)
EXTENDS Integers, FiniteSets

Rank(I, i) == Cardinality({j \in I : j <= i})
Nth(I, k) == CHOOSE i \in I : Rank(I, i) = k
Pick(s, I) == [k \in 1..Cardinality(I) |-> s[Nth(I, k)]]
=============================================================================
