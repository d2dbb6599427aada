------------------------------ MODULE MCFreeze ------------------------------
(***************************************************************************)
(* Instances of Freeze for TLC: a few callers of the API, a few ids.       *)
(***************************************************************************)
EXTENDS Freeze
=============================================================================
