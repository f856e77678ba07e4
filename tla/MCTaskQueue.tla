---------------------------- MODULE MCTaskQueue ----------------------------
(***************************************************************************)
(* Instances of TaskQueue for TLC.                                         *)
(***************************************************************************)
EXTENDS TaskQueue

CONSTANTS t1, t2, j1, j2

\* A WebAssembly job and a cloudpickle job of one task each.
TwoJobs == [t \in Tasks |-> IF t = t1 THEN j1 ELSE j2]
Mixed == [t \in Tasks |-> IF t = t1 THEN Wasm ELSE Cloudpickle]

FirstNode == {1}
============================================================================
