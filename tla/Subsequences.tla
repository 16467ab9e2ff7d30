---------------------------- MODULE Subsequences ----------------------------
(***************************************************************************)
(* What a loop that keeps some elements of a list returns: the elements at *)
(* a set of positions, in their order.                                     *)
(***************************************************************************)
EXTENDS Integers, Sequences, FiniteSets

\* The members of S, a finite set of numbers, that precede i.
Rank(S, i) == Cardinality({j \in S : j < i})

\* The members of S from the smallest to the greatest.
Ascending(S) == [n \in 1 .. Cardinality(S) |-> CHOOSE i \in S : Rank(S, i) = n - 1]

\* The elements of s at the positions in S.
Picked(s, S) == [n \in 1 .. Cardinality(S) |-> s[Ascending(S)[n]]]
=============================================================================
