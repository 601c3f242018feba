-------------------------------- MODULE Ranks --------------------------------
(* The n-th of some numbers: how the specifications of readers index the     *)
(* rows that a reader keeps in a slice of its own.                           *)
EXTENDS Integers, FiniteSets

Rank(S, r) == Cardinality({s \in S : s <= r})
Nth(S, n)  == CHOOSE r \in S : Rank(S, r) = n
=============================================================================
