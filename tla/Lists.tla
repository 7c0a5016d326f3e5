-------------------------------- MODULE Lists --------------------------------
(***************************************************************************)
(* Selecting from a list: what a loop of Go code that appends some of the  *)
(* elements of a slice to a new one returns.                               *)
(***************************************************************************)
EXTENDS Integers, Sequences, FiniteSets

\* How many elements of S, a set of numbers, are at most x.
Rank(S, x) == Cardinality({y \in S : y <= x})

\* S in ascending order.
Ascending(S) == [n \in 1..Cardinality(S) |-> CHOOSE x \in S : Rank(S, x) = n]

\* The elements of s at the positions in S.
Subsequence(s, S) == [n \in 1..Cardinality(S) |-> s[Ascending(S)[n]]]
==============================================================================
