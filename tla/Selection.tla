------------------------------- MODULE Selection -------------------------------
(***************************************************************************)
(* The part of a sequence that a loop over it keeps.  SelectSeq takes the   *)
(* condition as an operator, which no prover can instantiate; here it is    *)
(* the set of the positions that are kept.                                  *)
(***************************************************************************)
EXTENDS Integers, Sequences, FiniteSets

Rank(I, i) == Cardinality({j \in I : j <= i})

(* The numbers of the set I in increasing order. *)
InOrder(I) == [k \in 1 .. Cardinality(I) |-> CHOOSE i \in I : Rank(I, i) = k]

(* What is at the positions I of s, in its order. *)
Select(s, I) == [k \in 1 .. Cardinality(I) |-> s[InOrder(I)[k]]]
=============================================================================
