------------------------------- MODULE MCWorkq -------------------------------
(***************************************************************************)
(* An instance of Workq for TLC.  Two workers and a depth of one give a    *)
(* buffer of three, so that four calls can fill the buffer and have one    *)
(* refused, or keep both workers busy; two calls of Close race each other. *)
(***************************************************************************)
EXTENDS Workq, TLC
==============================================================================
