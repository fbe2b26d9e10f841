------------------------------ MODULE MCServe ------------------------------
(***************************************************************************)
(* An instance of Serve for TLC: two uploads, one worker, so that one job  *)
(* waits while another runs, and a stream that follows either.             *)
(***************************************************************************)
EXTENDS Serve, TLC
=============================================================================
