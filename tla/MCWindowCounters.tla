-------------------------- MODULE MCWindowCounters --------------------------
(***************************************************************************)
(* One counter of a kind and two threads, for TLC.                         *)
(***************************************************************************)
EXTENDS WindowCounters

CONSTANTS login, key, p1, p2
============================================================================
