--------------------------- MODULE MCFreezeHandles --------------------------
(***************************************************************************)
(* Instances of FreezeHandles for TLC: one caller that freezes an address, *)
(* one that freezes the results of a scan.                                 *)
(***************************************************************************)
EXTENDS FreezeHandles
=============================================================================
