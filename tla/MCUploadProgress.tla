-------------------------- MODULE MCUploadProgress --------------------------
(* Small instances of UploadProgress for TLC. *)
EXTENDS UploadProgress, TLC

Symmetry == Permutations(Streams)
=============================================================================
