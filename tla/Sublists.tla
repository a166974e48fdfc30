----------------------------- MODULE Sublists -----------------------------
(***************************************************************************)
(* What a walk that frees some entries of a linked list leaves of it: the  *)
(* entries at the positions K, in their order.                             *)
(***************************************************************************)
EXTENDS Integers, Sequences, FiniteSets

\* How many of the positions K come before position i.
Rank(K, i) == Cardinality({j \in K : j < i})

Kept(s, K) == [k \in 1 .. Cardinality(K) |-> s[CHOOSE i \in K : Rank(K, i) = k - 1]]
=============================================================================
