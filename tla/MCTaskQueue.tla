---------------------------- MODULE MCTaskQueue -----------------------------
(***************************************************************************)
(* Model-checking instance of TaskQueue.                                   *)
(***************************************************************************)
EXTENDS TaskQueue
=============================================================================
