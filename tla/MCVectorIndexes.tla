--------------------------- MODULE MCVectorIndexes ---------------------------
(***************************************************************************)
(* Instances of VectorIndexes for TLC: three searches, so that a leader, a *)
(* follower of it and a search after an Invalidate can meet, and an upload *)
(* job of up to two files.                                                 *)
(***************************************************************************)
EXTENDS VectorIndexes, TLC
==============================================================================
