----------------------------- MODULE Subsequences -----------------------------
(***************************************************************************)
(* What a filter leaves of a sequence, defined without recursion: the      *)
(* elements at the places of a set, in their order.                        *)
(***************************************************************************)
EXTENDS Naturals, Sequences, FiniteSets

\* The rank of a place in a set of places, and the place with a rank.
RankIn(I, i) == Cardinality({j \in I : j <= i})
NthOf(I, k) == CHOOSE i \in I : RankIn(I, i) = k

\* The elements of s at the places in I.
Subsequence(s, I) == [k \in 1..Cardinality(I) |-> s[NthOf(I, k)]]
=============================================================================
