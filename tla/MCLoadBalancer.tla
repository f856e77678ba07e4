-------------------------- MODULE MCLoadBalancer --------------------------
(***************************************************************************)
(* Instances of LoadBalancer for TLC.                                      *)
(***************************************************************************)
EXTENDS LoadBalancer

CONSTANTS p1, r1, r2

TwoEach == [p \in Pids |-> 2]
BothNodes == {1, 2}
NoNodes == {}
TheSecond == {2}
NothingFlaky == {}
SameApp == [r \in Requests |-> p1]
============================================================================
