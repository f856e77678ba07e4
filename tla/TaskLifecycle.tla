--------------------------- MODULE TaskLifecycle ---------------------------
(***************************************************************************)
(* What the task queue promises of one task, without queues, tokens or     *)
(* heartbeats: it is held by one node at a time, only the node that holds  *)
(* it gives the verdict, and a verdict is the last thing that happens to   *)
(* it before it is forgotten.                                              *)
(***************************************************************************)
CONSTANTS Tasks, Nodes, NoNode

VARIABLES
  phase,   \* "new", "waiting", "held", "completed", "failed", "forgotten"
  holder   \* the node that holds the task, or gave its verdict

Offer(t) ==
  /\ phase[t] = "new"
  /\ phase' = [phase EXCEPT ![t] = "waiting"]
  /\ UNCHANGED holder

Grant(t, n) ==
  /\ phase[t] = "waiting"
  /\ phase' = [phase EXCEPT ![t] = "held"]
  /\ holder' = [holder EXCEPT ![t] = n]

Return(t) ==
  /\ phase[t] = "held"
  /\ phase' = [phase EXCEPT ![t] = "waiting"]
  /\ holder' = [holder EXCEPT ![t] = NoNode]

\* The verdict of the holder, who stays on record.
Conclude(t, verdict) ==
  /\ phase[t] = "held"
  /\ phase' = [phase EXCEPT ![t] = verdict]
  /\ UNCHANGED holder

Forget(t) ==
  /\ phase[t] \notin {"new", "forgotten"}
  /\ phase' = [phase EXCEPT ![t] = "forgotten"]
  /\ holder' = [holder EXCEPT ![t] = NoNode]

Init ==
  /\ phase = [t \in Tasks |-> "new"]
  /\ holder = [t \in Tasks |-> NoNode]

Next ==
  \E t \in Tasks :
    \/ Offer(t) \/ Return(t) \/ Forget(t)
    \/ \E n \in Nodes : Grant(t, n)
    \/ \E verdict \in {"completed", "failed"} : Conclude(t, verdict)

Spec == Init /\ [][Next]_<<phase, holder>>
============================================================================
