----------------------------- MODULE MCSession ------------------------------
(***************************************************************************)
(* Instances of PanelLog, and of Session in it, for TLC.  Pids are         *)
(* compared with 0, so they are numbers.                                   *)
(***************************************************************************)
EXTENDS PanelLog

MCPids == {1, 2}
=============================================================================
