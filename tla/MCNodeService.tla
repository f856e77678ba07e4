---------------------------- MODULE MCNodeService ----------------------------
(***************************************************************************)
(* One shell, and three pids, for TLC.                              *)
(***************************************************************************)
EXTENDS NodeService

CONSTANT c1
==============================================================================
