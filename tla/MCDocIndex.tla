------------------------------ MODULE MCDocIndex ------------------------------
(***************************************************************************)
(* Instances of DocIndex for TLC.  Two workers on two paths can meet only  *)
(* in the UNIQUE hash; three calls and two edits let a file change, change *)
(* back and be indexed after each.                                         *)
(***************************************************************************)
EXTENDS DocIndex, TLC

(* Workers and texts are interchangeable (safety runs only). *)
Symmetry == Permutations(Indexers) \cup Permutations(Texts)
==============================================================================
