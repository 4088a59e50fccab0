------------------------------- MODULE Places --------------------------------
(***************************************************************************)
(* A selection from a list by places, in order: the list comprehensions    *)
(* with a condition of the code.  It is stated by the rank of each place   *)
(* among the selected ones, so that it can be reasoned about without       *)
(* induction over the list.                                                *)
(***************************************************************************)
EXTENDS Integers, FiniteSets

(* The members of a set of places, one after another. *)
Rank(K, i) == Cardinality({j \in K : j <= i})
InOrder(K) == [n \in 1 .. Cardinality(K) |-> CHOOSE i \in K : Rank(K, i) = n]

(* What a list has at these places. *)
Pick(s, K) == [n \in 1 .. Cardinality(K) |-> s[InOrder(K)[n]]]
=============================================================================
