------------------------------ MODULE MCNotes ------------------------------
(***************************************************************************)
(* Instances of Notes for TLC.  The writes are interchangeable, and so are *)
(* the notes; no run checks liveness.                                      *)
(***************************************************************************)
EXTENDS Notes, TLC
Sym == Permutations(Writes) \cup Permutations(Keys)
=============================================================================
