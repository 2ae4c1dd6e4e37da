------------------------------- MODULE MCEvents -------------------------------
(***************************************************************************)
(* Model-checking instances of Events.                                     *)
(***************************************************************************)
EXTENDS Events
=============================================================================
