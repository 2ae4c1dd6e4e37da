-------------------------- MODULE MCLogicalThread --------------------------
(***************************************************************************)
(* Model-checking instances of LogicalThread.                              *)
(***************************************************************************)
EXTENDS LogicalThread
=============================================================================
