---------------------------- MODULE Subsequences ----------------------------
(***************************************************************************)
(* The elements of a sequence at some of its positions, in order: what     *)
(* retain, filter and sort leave, by the places the survivors come from.   *)
(***************************************************************************)
EXTENDS Integers, Sequences, FiniteSets

(* How many elements of P do not exceed i, and the element with k of them. *)
Rank(P, i) == Cardinality({j \in P : j <= i})
Nth(P, k) == CHOOSE i \in P : Rank(P, i) = k

(* The values of s at the positions P, in order of position. *)
Subsequence(s, P) == [k \in 1..Cardinality(P) |-> s[Nth(P, k)]]

=============================================================================
