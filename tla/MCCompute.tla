----------------------------- MODULE MCCompute -----------------------------
(***************************************************************************)
(* Instances of Compute for TLC.                                           *)
(***************************************************************************)
EXTENDS Compute

CONSTANTS t1, t2, j1

OneJob == [t \in Tasks |-> j1]
AllWasm == [t \in Tasks |-> Wasm]
NoNodes == {}
BothNodes == {1, 2}
FirstNode == {1}
SecondNode == {2}
============================================================================
