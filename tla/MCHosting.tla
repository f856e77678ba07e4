----------------------------- MODULE MCHosting -----------------------------
(***************************************************************************)
(* Instances of Hosting for TLC.                                           *)
(***************************************************************************)
EXTENDS Hosting

CONSTANTS p1

OneEach == [p \in Pids |-> 1]
BothNodes == {1, 2}
SecondNode == {2}
FlakyOnFirst == {<<1, p1>>}
============================================================================
