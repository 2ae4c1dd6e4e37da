------------------------------ MODULE MCLatch -------------------------------
(***************************************************************************)
(* Model-checking instance of Latch.                                       *)
(***************************************************************************)
EXTENDS Latch
=============================================================================
