---------------------------- MODULE ComputeProofs ----------------------------
(***************************************************************************)
(* The compute network, for any number of nodes, tasks, crashes and lost   *)
(* messages: it runs the task queue as TaskQueue describes it, so that the *)
(* theorems of TaskQueueProofs carry over; a worker's claim is its own as  *)
(* long as no receipt is rejected; and what is completed was run and       *)
(* verified.                                                               *)
(***************************************************************************)
EXTENDS Compute, TaskQueueProofs

USE ConstantsAssumption, ComputeAssumption

NoRejects == \A n \in Nodes : bad[n] = 0

\* What a node points at is the work it claimed, or has been decided.
CurOK(n) ==
  cur[n] # NoTask =>
    \/ status[cur[n]] \in Active /\ assigned[cur[n]] = n
    \/ status[cur[n]] \in Settled

CurIsOwn == NoRejects => \A n \in Nodes : CurOK(n)

\* A worker with a task holds a token that was issued.
TokensHeld == \A n \in Nodes : worker[n].task # NoTask => worker[n].tok \in 1..issued

\* A worker that found its program to succeed ran one that does.
OkIsHonest == \A n \in Nodes : worker[n].ok => worker[n].task \notin Faulty

CInv ==
  /\ Inv /\ ComputeTypeOK
  /\ CurIsOwn /\ TokensHeld /\ ClaimsAreOwn
  /\ OkIsHonest /\ CompletedHonestly

----------------------------------------------------------------------------
(* A step of the network is a step of the queue *)

LEMMA ServerIsQueue ==
  ASSUME Server
  PROVE  Next
  BY DEF Server, Next

LEMMA WorkIsQueue ==
  ASSUME CInv, NEW n \in Nodes, NEW t \in Tasks, NEW c \in 0..MaxClaims,
         Download(n, t, c) \/ Complete(n, t, c) \/ Fail(n, t, c) \/ RejectReceipt(n, t, c)
  PROVE  Next
<1>1. c # 0
  BY DEF Download, Complete, Fail, Settle, RejectReceipt, Presents
<1>2. c \in 1..MaxClaims
  BY <1>1
<1> QED
  BY <1>2 DEF Next, WorkStep

LEMMA NodeIsQueue ==
  ASSUME CInv, NEW n \in Nodes,
         Boot(n) \/ Crash(n) \/ Beat(n) \/ MissBeats(n) \/ Work(n)
  PROVE  [Next]_vars
<1>1. CASE Boot(n) \/ Crash(n) \/ Beat(n) \/ MissBeats(n)
  BY <1>1 DEF Boot, Crash, Beat, MissBeats, Next, NodeStep
<1>2. CASE ClaimNew(n) \/ ClaimAgain(n) \/ ClaimInVain(n)
  BY <1>2 DEF ClaimNew, ClaimAgain, ClaimInVain, Next, ClaimStep
<1>3. worker[n].pc \in {"fetch", "run", "report"} =>
        worker[n].task \in Tasks /\ worker[n].tok \in 0..MaxClaims
  BY DEF CInv, ComputeTypeOK
<1>4. CASE Fetch(n)
  BY <1>3, <1>4, WorkIsQueue DEF Fetch
<1>5. CASE Run(n)
  BY <1>5 DEF Run
<1>6. CASE Report(n)
  BY <1>3, <1>6, WorkIsQueue DEF Report
<1> QED
  BY <1>1, <1>2, <1>4, <1>5, <1>6 DEF Work

LEMMA StepIsQueue == CInv /\ [ComputeNext]_allVars => [Next]_vars
  BY ServerIsQueue, NodeIsQueue DEF ComputeNext, allVars

----------------------------------------------------------------------------
(* What a step of the queue does to receipts, tokens and pointers *)

LEMMA RejectsCount ==
  ASSUME Inv, [Next]_vars, NoRejects'
  PROVE  /\ NoRejects
         /\ \A n \in Nodes, t \in Tasks, c \in 1..MaxClaims : ~RejectReceipt(n, t, c)
<1>1. ASSUME NEW n \in Nodes, NEW t \in Tasks, NEW c \in 1..MaxClaims,
             RejectReceipt(n, t, c)
      PROVE  FALSE
  <2>1. /\ bad[n] \in 0..BadReceiptThreshold /\ bad'[n] = 0
        /\ bad'[n] = IF bad[n] < BadReceiptThreshold THEN bad[n] + 1 ELSE bad[n]
    BY <1>1 DEF RejectReceipt, NoRejects, Inv, TypeOK
  <2> PICK b : b = bad[n]
    OBVIOUS
  <2>2. b \in Nat /\ (IF b < BadReceiptThreshold THEN b + 1 ELSE b) = 0
    BY <2>1
  <2>3. BadReceiptThreshold \in Nat /\ BadReceiptThreshold # 0
    OBVIOUS
  <2> QED
    BY <2>2, <2>3
<1>2. CASE bad' = bad
  BY <1>1, <1>2 DEF NoRejects
<1>3. CASE bad' # bad
  BY <1>1, <1>3 DEF Next, NodeStep, Register, Heartbeat, GoStale, JobStep, Start, FinishStart,
     PollJob, CreateTask, SweepStep, RequeueStale, BeginDrain, DrainOne, EndDrain, ClaimStep,
     DropEntry, Claim, Take, ClaimNothing, WorkStep, Download, Complete, Fail, Settle,
     Expire, vars, nodeVars
<1> QED
  BY <1>2, <1>3

\* A claim is revoked, or left alone with its token, or new.
Revoked(t) == token'[t] = 0
Untouched(t) == token'[t] = token[t] /\ assigned'[t] = assigned[t]
Renewed(t) == token'[t] = issued + 1 /\ issued' = issued + 1

LEMMA TokenMoves ==
  ASSUME Inv, [Next]_vars, NEW t \in Tasks
  PROVE  /\ issued \in Nat /\ issued' \in {issued, issued + 1}
         /\ Revoked(t) \/ Untouched(t) \/ Renewed(t)
<1> USE DEF Revoked, Untouched, Renewed
<1>0. issued \in Nat
  BY DEF Inv, TypeOK
<1>1. CASE \E n \in Nodes : NodeStep(n)
  BY <1>0, <1>1 DEF NodeStep, Register, Heartbeat, GoStale
<1>2. CASE \E j \in Jobs : JobStep(j)
  <2>1. PICK j \in Jobs : JobStep(j)
    BY <1>2
  <2>2. CASE Start(j)
    <3>1. token' = token /\ issued' = issued
      BY <2>2 DEF Start
    <3>2. CASE t \in TasksOf(j)
      <4>1. status[t] = "absent"
        BY <2>2, <3>2 DEF Start, TasksOf, Inv, JobPhases
      <4> QED
        BY <1>0, <3>1, <4>1 DEF Inv, TokensAreLive, Active
    <3>3. CASE t \notin TasksOf(j)
      <4>1. assigned'[t] = assigned[t]
        BY <2>2, <3>3 DEF Start
      <4> QED
        BY <1>0, <3>1, <4>1
    <3> QED
      BY <3>2, <3>3
  <2> QED
    BY <1>0, <2>1, <2>2 DEF JobStep, FinishStart, PollJob
<1>3. CASE \E u \in Tasks : CreateTask(u)
  BY <1>0, <1>3 DEF CreateTask
<1>4. CASE SweepStep
  <2>1. ASSUME NEW n \in Nodes, RequeueStale(n)
        PROVE  issued' = issued /\ (Revoked(t) \/ Untouched(t))
    <3>1. cur[n] \in Tasks
      BY <2>1 DEF RequeueStale, Holds, Inv, TypeOK
    <3> QED
      BY <2>1, <3>1 DEF RequeueStale, Requeue, Inv, TypeOK
  <2>2. CASE DrainOne
    <3>1. Head(queue[draining]) \in Tasks
      BY <2>2, HeadOfQueue DEF DrainOne, Inv, TypeOK, QueueNames
    <3>2. issued' = issued /\ (Revoked(t) \/ Untouched(t))
      BY <2>2, <3>1 DEF DrainOne, Requeue, Inv, TypeOK
    <3> QED
      BY <1>0, <3>2
  <2> QED
    BY <1>0, <1>4, <2>1, <2>2 DEF SweepStep, BeginDrain, EndDrain
<1>5. CASE \E n \in Nodes : ClaimStep(n)
  <2>1. PICK n \in Nodes : ClaimStep(n)
    BY <1>5
  <2>2. ASSUME NEW k \in QueueNames, Claim(n, k)
        PROVE  /\ issued' \in {issued, issued + 1}
               /\ Revoked(t) \/ Untouched(t) \/ Renewed(t)
    BY <1>0, <2>2 DEF Claim, Take, Requeue, Inv, TypeOK
  <2> QED
    BY <1>0, <2>1, <2>2 DEF ClaimStep, DropEntry, ClaimNothing
<1>6. CASE \E n \in Nodes, u \in Tasks, c \in 1..MaxClaims : WorkStep(n, u, c)
  BY <1>0, <1>6 DEF WorkStep, Download, Complete, Fail, Settle, RejectReceipt,
     Requeue, Inv, TypeOK
<1>7. CASE \E u \in Tasks : Expire(u)
  BY <1>0, <1>7 DEF Expire, Inv, TypeOK
<1>8. CASE UNCHANGED vars
  BY <1>0, <1>8 DEF vars
<1> QED
  BY <1>1, <1>2, <1>3, <1>4, <1>5, <1>6, <1>7, <1>8 DEF Next

\* Each step leaves the pointer of a node alone, with what it says ...
LEMMA CurKept ==
  ASSUME Inv, [Next]_vars, NEW n \in Nodes, CurOK(n), cur'[n] = cur[n],
         cur[n] # NoTask =>
           \/ status'[cur[n]] = status[cur[n]] /\ assigned'[cur[n]] = assigned[cur[n]]
           \/ status[cur[n]] \in Settled
           \/ status'[cur[n]] \in Settled
           \/ status'[cur[n]] \in Active /\ assigned'[cur[n]] = assigned[cur[n]]
  PROVE  CurOK(n)'
<1>1. CASE cur[n] = NoTask
  BY <1>1 DEF CurOK
<1>2. CASE cur[n] # NoTask
  <2> PICK t : t = cur[n]
    OBVIOUS
  <2>1. t \in Tasks
    BY <1>2 DEF Inv, TypeOK
  <2>2. CASE status[t] \in Settled
    <3>1. status'[t] \in {status[t], "expired"}
      BY <2>1, <2>2, StatusMoves
    <3> QED
      BY <2>2, <3>1 DEF CurOK, Settled
  <2>3. CASE status[t] \notin Settled
    BY <1>2, <2>3 DEF CurOK
  <2> QED
    BY <2>2, <2>3
<1> QED
  BY <1>1, <1>2

\* ... or writes it: clears it, or makes it that of a claim.
LEMMA CurInv ==
  ASSUME Inv, CurIsOwn, [Next]_vars
  PROVE  CurIsOwn'
<1> SUFFICES ASSUME NoRejects', NEW n \in Nodes
             PROVE  CurOK(n)'
  BY DEF CurIsOwn
<1>0. /\ \A m \in Nodes : CurOK(m)
      /\ \A m \in Nodes, t \in Tasks, c \in 1..MaxClaims : ~RejectReceipt(m, t, c)
  BY RejectsCount DEF CurIsOwn
<1> DEFINE Same(t) ==
      \/ status'[t] = status[t] /\ assigned'[t] = assigned[t]
      \/ status[t] \in Settled
      \/ status'[t] \in Settled
      \/ status'[t] \in Active /\ assigned'[t] = assigned[t]
<1>K. ASSUME cur'[n] = cur[n], cur[n] # NoTask => Same(cur[n])
      PROVE  CurOK(n)'
  BY <1>0, <1>K, CurKept
<1>C. ASSUME cur'[n] = NoTask
      PROVE  CurOK(n)'
  BY <1>C DEF CurOK
<1>T. cur[n] # NoTask => cur[n] \in Tasks
  BY DEF Inv, TypeOK
<1>W. cur[n] # NoTask /\ status[cur[n]] \notin Settled =>
        status[cur[n]] \in Active /\ assigned[cur[n]] = n
  BY <1>0 DEF CurOK
<1>1. CASE \E m \in Nodes : NodeStep(m)
  BY <1>1, <1>K DEF NodeStep, Register, Heartbeat, GoStale
<1>2. CASE \E j \in Jobs : JobStep(j)
  <2>1. PICK j \in Jobs : JobStep(j)
    BY <1>2
  <2>2. CASE Start(j)
    <3>1. \A t \in TasksOf(j) : status[t] = "absent"
      BY <2>2 DEF Start, TasksOf, Inv, JobPhases
    <3>2. cur[n] # NoTask => cur[n] \notin TasksOf(j)
      BY <1>W, <3>1 DEF Settled, Terminal, Active
    <3>3. cur' = cur /\ (cur[n] # NoTask => Same(cur[n]))
      BY <1>T, <2>2, <3>2 DEF Start
    <3> QED
      BY <1>K, <3>3
  <2> QED
    BY <1>K, <2>1, <2>2 DEF JobStep, FinishStart, PollJob
<1>3. CASE \E u \in Tasks : CreateTask(u)
  <2>1. PICK u \in Tasks : CreateTask(u)
    BY <1>3
  <2>2. cur' = cur /\ (cur[n] # NoTask => cur[n] # u)
    BY <1>W, <2>1 DEF CreateTask, Settled, Terminal, Active
  <2>3. \A t \in Tasks : t # u => status'[t] = status[t] /\ assigned'[t] = assigned[t]
    BY <2>1 DEF CreateTask, Inv, TypeOK
  <2> QED
    BY <1>K, <1>T, <2>2, <2>3
<1>4. CASE SweepStep
  <2>1. ASSUME NEW m \in Nodes, RequeueStale(m)
        PROVE  CurOK(n)'
    <3>1. cur[m] \in Tasks /\ cur[m] # NoTask /\ cur' = [cur EXCEPT ![m] = NoTask]
      BY <2>1 DEF RequeueStale, Holds, Inv, TypeOK
    <3>2. CASE n = m
      BY <1>C, <3>1, <3>2 DEF Inv, TypeOK
    <3>3. CASE n # m
      <4>1. cur'[n] = cur[n]
        BY <3>1, <3>3 DEF Inv, TypeOK
      <4>2. \A t \in Tasks : t # cur[m] =>
              status'[t] = status[t] /\ assigned'[t] = assigned[t]
        BY <2>1, <3>1 DEF RequeueStale, Requeue, Inv, TypeOK
      <4>3. CASE cur[n] = cur[m]
        <5>1. status[cur[n]] \in Settled
          BY <1>0, <1>W, <3>1, <3>3, <4>3 DEF CurOK
        <5> QED
          BY <1>K, <4>1, <5>1
      <4> QED
        BY <1>K, <1>T, <4>1, <4>2, <4>3
    <3> QED
      BY <3>2, <3>3
  <2>2. CASE DrainOne
    <3>1. PICK h : h = Head(queue[draining])
      OBVIOUS
    <3>2. h \in Tasks /\ status[h] \in {"queued", "expired"}
      BY <2>2, <3>1, HeadOfQueue DEF DrainOne, Inv, TypeOK, QueueNames
    <3>3. \A t \in Tasks : t # h => status'[t] = status[t] /\ assigned'[t] = assigned[t]
      BY <2>2, <3>1, <3>2 DEF DrainOne, Requeue, Inv, TypeOK
    <3>4. cur' = cur /\ (cur[n] = h /\ cur[n] # NoTask => status[h] \in Settled)
      BY <1>W, <2>2, <3>2 DEF DrainOne, Active, Settled
    <3> QED
      BY <1>K, <1>T, <3>2, <3>3, <3>4
  <2> QED
    BY <1>4, <1>K, <2>1, <2>2 DEF SweepStep, BeginDrain, EndDrain
<1>5. CASE \E m \in Nodes : ClaimStep(m)
  <2>1. PICK m \in Nodes : ClaimStep(m)
    BY <1>5
  <2>2. ASSUME NEW k \in QueueNames, Claim(m, k)
        PROVE  CurOK(n)'
    <3>1. PICK h : h = Head(queue[k])
      OBVIOUS
    <3>2. h \in Tasks /\ status[h] = "queued"
      BY <2>2, <3>1, SourceFacts, HeadOfQueue DEF Claim
    <3>3. \A t \in Tasks : t # h => status'[t] = status[t] /\ assigned'[t] = assigned[t]
      BY <2>2, <3>1, <3>2 DEF Claim, Take, Requeue, Inv, TypeOK
    <3>4. cur[n] # h
      BY <1>W, <3>2 DEF Active, Settled, Terminal
    <3>5. CASE n # m
      <4>1. cur'[n] = cur[n]
        BY <2>2, <3>5 DEF Claim, Take, Inv, TypeOK
      <4> QED
        BY <1>K, <1>T, <3>3, <3>4, <4>1
    <3>6. CASE n = m
      <4>1. \/ cur'[n] = NoTask
            \/ cur'[n] = h /\ status'[h] = "claimed" /\ assigned'[h] = n
        BY <2>2, <3>1, <3>2, <3>6 DEF Claim, Take, Inv, TypeOK
      <4> QED
        BY <4>1 DEF CurOK, Active
    <3> QED
      BY <3>5, <3>6
  <2>3. ASSUME NEW k \in QueueNames, DropEntry(m, k)
        PROVE  CurOK(n)'
    <3>1. cur' = [cur EXCEPT ![m] = NoTask] /\ UNCHANGED <<status, assigned>>
      BY <2>3 DEF DropEntry
    <3> QED
      BY <1>C, <1>K, <3>1 DEF Inv, TypeOK
  <2>4. CASE ClaimNothing(m)
    <3>1. cur' = [cur EXCEPT ![m] = NoTask] /\ UNCHANGED <<status, assigned>>
      BY <2>4 DEF ClaimNothing
    <3> QED
      BY <1>C, <1>K, <3>1 DEF Inv, TypeOK
  <2> QED
    BY <2>1, <2>2, <2>3, <2>4 DEF ClaimStep
<1>6. CASE \E m \in Nodes, u \in Tasks, c \in 1..MaxClaims : WorkStep(m, u, c)
  <2>1. PICK m \in Nodes, u \in Tasks, c \in 1..MaxClaims : WorkStep(m, u, c)
    BY <1>6
  <2>2. CASE Download(m, u, c)
    <3>1. cur' = cur /\ assigned' = assigned
          /\ \A t \in Tasks : status'[t] = IF t = u THEN "running" ELSE status[t]
      BY <2>2 DEF Download, Inv, TypeOK
    <3> QED
      BY <1>K, <1>T, <3>1 DEF Active
  <2>3. CASE Complete(m, u, c) \/ Fail(m, u, c)
    <3>1. /\ cur' = [cur EXCEPT ![m] = NoTask] /\ assigned' = assigned
          /\ \A t \in Tasks : t # u => status'[t] = status[t]
          /\ status'[u] \in Settled
      BY <2>3 DEF Complete, Fail, Settle, Inv, TypeOK, Settled, Terminal
    <3>2. CASE n = m
      BY <1>C, <3>1, <3>2 DEF Inv, TypeOK
    <3>3. CASE n # m
      <4>1. cur'[n] = cur[n]
        BY <3>1, <3>3 DEF Inv, TypeOK
      <4> QED
        BY <1>K, <1>T, <3>1, <4>1
    <3> QED
      BY <3>2, <3>3
  <2> QED
    BY <1>0, <2>1, <2>2, <2>3 DEF WorkStep
<1>7. CASE \E u \in Tasks : Expire(u)
  <2>1. PICK u \in Tasks : Expire(u)
    BY <1>7
  <2>2. /\ cur' = cur /\ status'[u] \in Settled
        /\ \A t \in Tasks : t # u => status'[t] = status[t] /\ assigned'[t] = assigned[t]
    BY <2>1 DEF Expire, Inv, TypeOK, Settled
  <2> QED
    BY <1>K, <1>T, <2>2
<1>8. CASE UNCHANGED vars
  BY <1>K, <1>8 DEF vars
<1> QED
  BY <1>1, <1>2, <1>3, <1>4, <1>5, <1>6, <1>7, <1>8 DEF Next

----------------------------------------------------------------------------
(* What a worker holds *)

Workers ==
  [pc : {"down", "poll", "fetch", "run", "report"},
   task : Tasks \cup {NoTask}, tok : 0..MaxClaims,
   key : Nodes \cup {NoNode}, ok : BOOLEAN]

\* A worker holds nothing, what it held, or the claim it was answered with.
Empty(w) == w.task = NoTask /\ ~w.ok
Keeps(n, w) ==
  /\ w.task = worker[n].task /\ w.tok = worker[n].tok
  /\ w.ok => worker[n].ok \/ w.task \notin Faulty
Answered(n, w) ==
  /\ w.task \in Tasks /\ ~w.ok /\ w.tok = token'[w.task] /\ w.tok # 0
  /\ NoRejects => assigned'[w.task] = n

WorkerMoves(n, w) ==
  /\ w \in Workers
  /\ w.task = NoTask <=> w.pc \in {"down", "poll"}
  /\ Empty(w) \/ Keeps(n, w) \/ Answered(n, w)

LEMMA RestStates ==
  ASSUME NEW n \in Nodes, NEW w \in {Polling, Down}
  PROVE  WorkerMoves(n, w)
<1>1. w \in Workers
  <2>1. Polling \in Workers /\ Down \in Workers
    BY DEF Polling, Down, At, Workers, NoNode
  <2> QED
    BY <2>1
<1>2. w.task = NoTask /\ w.ok = FALSE /\ w.pc \in {"down", "poll"}
  BY DEF Polling, Down, At
<1> QED
  BY <1>1, <1>2 DEF WorkerMoves, Empty

\* A worker that is not at rest has a task and a token.
LEMMA HasTask ==
  ASSUME CInv, NEW n \in Nodes
  PROVE  /\ worker[n] \in Workers
         /\ worker[n].task = NoTask <=> worker[n].pc \in {"down", "poll"}
         /\ worker[n].pc \in {"fetch", "run", "report"} => worker[n].task \in Tasks
  BY DEF CInv, ComputeTypeOK, Workers

LEMMA ReceiveMoves ==
  ASSUME CInv, NEW n \in Nodes, NEW t \in Tasks, NEW c \in 1..MaxClaims,
         Receive(n, t, c), c = token'[t], NoRejects => assigned'[t] = n
  PROVE  \E w \in Workers : MoveTo(n, w) /\ WorkerMoves(n, w)
<1> DEFINE w == At(IF RuntimeOf[t] = Wasm THEN "fetch" ELSE "report", t, c, NoNode, FALSE)
<1>1. w \in Workers /\ w.task = t /\ w.tok = c /\ w.ok = FALSE
      /\ w.pc \in {"fetch", "report"}
  BY DEF At, Workers
<1>2. MoveTo(n, w)
  BY DEF Receive
<1> HIDE DEF w
<1>3. WorkerMoves(n, w)
  BY <1>1 DEF WorkerMoves, Answered
<1> QED
  BY <1>1, <1>2, <1>3

\* The claim that was just made is the node's own; so is the one it resumes, as
\* long as no receipt was rejected.
LEMMA ClaimMoves ==
  ASSUME CInv, NEW n \in Nodes, ClaimNew(n) \/ ClaimAgain(n) \/ ClaimInVain(n)
  PROVE  \/ worker' = worker
         \/ \E w \in Workers : MoveTo(n, w) /\ WorkerMoves(n, w)
<1>1. CASE ClaimInVain(n)
  BY <1>1 DEF ClaimInVain, workVars
<1>2. ASSUME NEW k \in QueueNames, Claim(n, k), cur'[n] # NoTask,
             Receive(n, cur'[n], token'[cur'[n]])
      PROVE  \E w \in Workers : MoveTo(n, w) /\ WorkerMoves(n, w)
  <2>1. PICK h : h = Head(queue[k])
    OBVIOUS
  <2>2. h \in Tasks
    BY <1>2, <2>1, SourceFacts, HeadOfQueue DEF Claim, CInv
  <2>3. Inv /\ issued \in 0..MaxClaims /\ issued < MaxClaims => issued + 1 \in 1..MaxClaims
    OBVIOUS
  <2>4. /\ issued < MaxClaims /\ cur'[n] = h /\ token'[h] = issued + 1
        /\ assigned'[h] = n
    BY <1>2, <2>1, <2>2 DEF Claim, Take, CInv, Inv, TypeOK
  <2>5. issued + 1 \in 1..MaxClaims
    BY <2>3, <2>4 DEF CInv, Inv, TypeOK
  <2>6. Receive(n, h, issued + 1)
    BY <1>2, <2>4
  <2> QED
    BY <2>2, <2>4, <2>5, <2>6, ReceiveMoves
<1>3. CASE ClaimNew(n)
  BY <1>2, <1>3 DEF ClaimNew
<1>4. CASE ClaimAgain(n)
  <2>1. PICK t : t = cur[n]
    OBVIOUS
  <2>2. /\ t \in Tasks /\ status[t] \in Active /\ Receive(n, t, token[t])
        /\ token'[t] = token[t] /\ assigned'[t] = assigned[t]
    BY <1>4, <2>1 DEF ClaimAgain, Resumes, vars, CInv, Inv, TypeOK
  <2>3. token[t] \in 1..MaxClaims
    <3>1. token[t] \in 0..MaxClaims /\ token[t] # 0
      BY <2>2 DEF CInv, Inv, TypeOK, TokensAreLive
    <3> QED
      BY <3>1
  <2>4. NoRejects => assigned[t] = n
    BY <1>4, <2>1, <2>2 DEF CInv, CurIsOwn, CurOK, Settled, Terminal, Active, ClaimAgain, Resumes
  <2> QED
    BY <2>2, <2>3, <2>4, ReceiveMoves
<1> QED
  BY <1>1, <1>3, <1>4

LEMMA TaskMoves ==
  ASSUME CInv, NEW n \in Nodes, Fetch(n) \/ Run(n) \/ Report(n)
  PROVE  \E w \in Workers : MoveTo(n, w) /\ WorkerMoves(n, w)
<1> PICK v : v = worker[n]
  OBVIOUS
<1>1. v \in Workers /\ (v.pc \in {"fetch", "run", "report"} => v.task \in Tasks)
  BY HasTask
<1>2. CASE Fetch(n)
  <2>1. v.pc = "fetch" /\ v.task \in Tasks
    BY <1>1, <1>2 DEF Fetch
  <2>2. dek[v.task] \in Nodes \cup {NoNode}
    BY <2>1 DEF CInv, Inv, TypeOK
  <2>3. PICK pc \in {"run", "report"}, key \in Nodes \cup {NoNode} :
          MoveTo(n, At(pc, v.task, v.tok, key, FALSE))
    BY <1>2, <2>2 DEF Fetch
  <2> PICK w : w = At(pc, v.task, v.tok, key, FALSE)
    OBVIOUS
  <2>6. v.tok \in 0..MaxClaims
    BY <1>1 DEF Workers
  <2>4. w \in Workers /\ w.task = v.task /\ w.tok = v.tok /\ w.ok = FALSE /\ w.pc = pc
    BY <2>1, <2>6 DEF At, Workers
  <2>5. WorkerMoves(n, w)
    BY <2>1, <2>4 DEF WorkerMoves, Keeps
  <2> QED
    BY <2>3, <2>4, <2>5
<1>3. CASE Run(n)
  <2>1. v.pc = "run" /\ v.task \in Tasks
    BY <1>1, <1>3 DEF Run
  <2> PICK ok \in BOOLEAN : ok = (v.key = n /\ v.task \notin Faulty)
    OBVIOUS
  <2>2. MoveTo(n, At("report", v.task, v.tok, NoNode, ok))
    BY <1>3 DEF Run
  <2> PICK w : w = At("report", v.task, v.tok, NoNode, ok)
    OBVIOUS
  <2>5. v.tok \in 0..MaxClaims
    BY <1>1 DEF Workers
  <2>3. w \in Workers /\ w.task = v.task /\ w.tok = v.tok /\ w.ok = ok /\ w.pc = "report"
    BY <2>1, <2>5 DEF At, Workers
  <2>4. WorkerMoves(n, w)
    BY <2>1, <2>3 DEF WorkerMoves, Keeps
  <2> QED
    BY <2>2, <2>3, <2>4
<1>4. CASE Report(n)
  <2>1. MoveTo(n, Polling) /\ Polling \in Workers
    BY <1>4 DEF Report, Polling, At, Workers, NoNode
  <2> QED
    BY <2>1, RestStates
<1> QED
  BY <1>2, <1>3, <1>4

LEMMA WorkerSteps ==
  ASSUME CInv, [ComputeNext]_allVars
  PROVE  \/ worker' = worker
         \/ \E n \in Nodes, w \in Workers : MoveTo(n, w) /\ WorkerMoves(n, w)
<1>1. CASE Server \/ UNCHANGED allVars
  BY <1>1 DEF Server, allVars, workVars
<1>2. ASSUME NEW n \in Nodes, Boot(n) \/ Crash(n) \/ Beat(n) \/ MissBeats(n)
      PROVE  worker' = worker \/ \E w \in Workers : MoveTo(n, w) /\ WorkerMoves(n, w)
  <2>1. worker' = worker \/ \E w \in {Polling, Down} : MoveTo(n, w)
    BY <1>2 DEF Boot, Crash, Beat, MissBeats, workVars
  <2>2. Polling \in Workers /\ Down \in Workers
    BY DEF Polling, Down, At, Workers, NoNode
  <2> QED
    BY <2>1, <2>2, RestStates
<1> QED
  BY <1>1, <1>2, ClaimMoves, TaskMoves DEF ComputeNext, Work

----------------------------------------------------------------------------
(* What is completed *)

\* A task becomes completed only by a report, of the node it is assigned to.
LEMMA CompletedStays ==
  ASSUME CInv, [ComputeNext]_allVars, NEW t \in Tasks, status'[t] = "completed"
  PROVE  \/ status[t] = "completed" /\ assigned'[t] = assigned[t]
         \/ \E n \in Nodes : /\ worker[n].task = t /\ worker[n].ok /\ n \notin BadSigners
                             /\ assigned'[t] = n
<1> USE DEF CInv
<1> DEFINE Stays == status[t] = "completed" /\ assigned'[t] = assigned[t]
<1>1. ASSUME NEW j \in Jobs, JobStep(j)
      PROVE  Stays
  BY <1>1 DEF JobStep, Start, FinishStart, PollJob, Inv, TypeOK
<1>2. ASSUME NEW u \in Tasks, CreateTask(u) \/ Expire(u)
      PROVE  Stays
  BY <1>2 DEF CreateTask, Expire, Inv, TypeOK
<1>3. CASE SweepStep
  <2>1. ASSUME NEW n \in Nodes, RequeueStale(n)
        PROVE  Stays
    BY <2>1 DEF RequeueStale, Requeue, Inv, TypeOK
  <2>2. CASE DrainOne
    BY <2>2 DEF DrainOne, Requeue, Inv, TypeOK
  <2> QED
    BY <1>3, <2>1, <2>2 DEF SweepStep, BeginDrain, EndDrain
<1>4. CASE Server
  BY <1>1, <1>2, <1>3, <1>4 DEF Server
<1>5. ASSUME NEW n \in Nodes, Boot(n) \/ Crash(n) \/ Beat(n) \/ MissBeats(n)
      PROVE  Stays
  BY <1>5 DEF Boot, Register, Crash, Beat, Heartbeat, MissBeats, GoStale, vars
<1>6. ASSUME NEW n \in Nodes, ClaimNew(n) \/ ClaimAgain(n) \/ ClaimInVain(n)
      PROVE  Stays
  <2>1. ASSUME NEW k \in QueueNames, Claim(n, k)
        PROVE  Stays
    BY <2>1 DEF Claim, Take, Requeue, Inv, TypeOK
  <2> QED
    BY <1>6, <2>1 DEF ClaimNew, ClaimAgain, ClaimInVain, ClaimNothing, DropEntry, vars
<1>7. ASSUME NEW n \in Nodes, Fetch(n) \/ Run(n)
      PROVE  Stays
  BY <1>7 DEF Fetch, Run, Download, vars, Inv, TypeOK
<1>8. ASSUME NEW n \in Nodes, Report(n)
      PROVE  Stays \/ (/\ worker[n].task = t /\ worker[n].ok /\ n \notin BadSigners
                       /\ assigned'[t] = n)
  <2> PICK w : w = worker[n]
    OBVIOUS
  <2>1. w.task \in Tasks
    BY <1>8, HasTask DEF Report
  <2>2. CASE UNCHANGED vars
    BY <2>2 DEF vars
  <2>3. CASE Fail(n, w.task, w.tok) \/ RejectReceipt(n, w.task, w.tok)
    BY <2>1, <2>3 DEF Fail, Settle, RejectReceipt, Requeue, Inv, TypeOK
  <2>4. CASE w.ok /\ n \notin BadSigners /\ Complete(n, w.task, w.tok)
    BY <2>1, <2>4 DEF Complete, Settle, Presents, Inv, TypeOK
  <2> QED
    BY <1>8, <2>2, <2>3, <2>4 DEF Report, Verifies
<1>9. CASE UNCHANGED allVars
  BY <1>9 DEF allVars, vars
<1> QED
  BY <1>4, <1>5, <1>6, <1>7, <1>8, <1>9 DEF ComputeNext, Work

----------------------------------------------------------------------------
(* The invariant *)

LEMMA WorkersInv ==
  ASSUME CInv, [ComputeNext]_allVars
  PROVE  /\ worker' \in [Nodes -> Workers]
         /\ \A n \in Nodes : worker'[n].task = NoTask <=> worker'[n].pc \in {"down", "poll"}
         /\ TokensHeld' /\ OkIsHonest' /\ ClaimsAreOwn'
<1>1. worker \in [Nodes -> Workers]
  BY DEF CInv, ComputeTypeOK, Workers
<1>2. \A n \in Nodes : worker'[n] = worker[n] \/ WorkerMoves(n, worker'[n])
  BY <1>1, WorkerSteps DEF MoveTo
<1>3. worker' \in [Nodes -> Workers]
  BY <1>1, WorkerSteps DEF MoveTo
<1>4. [Next]_vars /\ Inv
  BY StepIsQueue DEF CInv
<1> SUFFICES ASSUME NEW n \in Nodes
             PROVE  /\ worker'[n].task = NoTask <=> worker'[n].pc \in {"down", "poll"}
                    /\ worker'[n].task # NoTask => worker'[n].tok \in 1..issued'
                    /\ worker'[n].ok => worker'[n].task \notin Faulty
                    /\ NoRejects' /\ worker'[n].task # NoTask
                         /\ token'[worker'[n].task] = worker'[n].tok
                         => assigned'[worker'[n].task] = n
  BY <1>3 DEF TokensHeld, OkIsHonest, ClaimsAreOwn, NoRejects
<1> PICK v, w : v = worker[n] /\ w = worker'[n]
  OBVIOUS
<1>5. v \in Workers /\ w \in Workers
  BY <1>1, <1>3
<1>6. /\ v.task = NoTask <=> v.pc \in {"down", "poll"}
      /\ v.task # NoTask => v.tok \in 1..issued
      /\ v.ok => v.task \notin Faulty
      /\ NoRejects /\ v.task # NoTask /\ token[v.task] = v.tok => assigned[v.task] = n
  BY DEF CInv, ComputeTypeOK, TokensHeld, OkIsHonest, ClaimsAreOwn, NoRejects
<1>7. NoRejects' => NoRejects
  BY <1>4, RejectsCount
\* The claim it held.
<1>8. CASE w.task = v.task /\ w.tok = v.tok /\ (w.task = NoTask <=> w.pc \in {"down", "poll"})
           /\ (w.ok => w.task \notin Faulty)
  <2>1. CASE v.task = NoTask
    BY <1>8, <2>1
  <2>2. CASE v.task # NoTask
    <3> PICK t : t = v.task
      OBVIOUS
    <3>1. t \in Tasks /\ v.tok \in 1..issued
      BY <1>5, <1>6, <2>2 DEF Workers
    <3>2. issued \in Nat /\ issued' \in {issued, issued + 1}
          /\ (Revoked(t) \/ Untouched(t) \/ Renewed(t))
      BY <1>4, <3>1, TokenMoves
    <3>3. v.tok \in 1..issued'
      <4> PICK i : i = issued'
        OBVIOUS
      <4>1. i \in {issued, issued + 1}
        BY <3>2
      <4> QED
        BY <3>1, <3>2, <4>1
    <3>4. token'[t] = v.tok => token[t] = v.tok /\ assigned'[t] = assigned[t]
      BY <3>1, <3>2 DEF Revoked, Untouched, Renewed
    <3> QED
      BY <1>6, <1>7, <1>8, <2>2, <3>3, <3>4
  <2> QED
    BY <2>1, <2>2
<1>9. CASE Empty(w) /\ (w.task = NoTask <=> w.pc \in {"down", "poll"})
  BY <1>9 DEF Empty
\* The claim it was answered with.
<1>10. CASE Answered(n, w) /\ (w.task = NoTask <=> w.pc \in {"down", "poll"})
  <2> PICK t : t = w.task
    OBVIOUS
  <2>1. t \in Tasks /\ ~w.ok /\ w.tok = token'[t] /\ w.tok # 0
        /\ (NoRejects => assigned'[t] = n)
    BY <1>10 DEF Answered
  <2>2. w.tok \in 1..issued'
    <3>1. Inv'
      BY <1>4, NextInv
    <3>2. w.tok \in 0..MaxClaims /\ issued' \in 0..MaxClaims /\ w.tok <= issued'
      BY <1>5, <2>1, <3>1 DEF Inv, TypeOK, TokensIssued, Workers
    <3> PICK i \in 0..MaxClaims : i = issued'
      BY <3>2
    <3> QED
      BY <2>1, <3>2
  <2> QED
    BY <1>7, <1>10, <2>1, <2>2
<1> QED
  BY <1>2, <1>6, <1>8, <1>9, <1>10 DEF WorkerMoves, Keeps

LEMMA BoundsInv ==
  ASSUME CInv, [ComputeNext]_allVars
  PROVE  crashes' \in 0..MaxCrashes /\ losses' \in 0..MaxLosses
<1>1. crashes \in 0..MaxCrashes /\ losses \in 0..MaxLosses
  BY DEF CInv, ComputeTypeOK
<1>2. /\ crashes' = crashes \/ (crashes < MaxCrashes /\ crashes' = crashes + 1)
      /\ losses' = losses \/ (losses < MaxLosses /\ losses' = losses + 1)
  BY DEF ComputeNext, Server, Boot, Crash, Beat, MissBeats, Work, ClaimNew, ClaimAgain,
     ClaimInVain, Fetch, Run, Report, Lose, workVars, allVars
<1>3. \A c, m \in Nat : c \in 0..m /\ c < m => c + 1 \in 0..m
  OBVIOUS
<1> QED
  BY <1>1, <1>2, <1>3

LEMMA CInvNext == CInv /\ [ComputeNext]_allVars => CInv'
<1> SUFFICES ASSUME CInv, [ComputeNext]_allVars
             PROVE  CInv'
  OBVIOUS
<1>1. Inv /\ [Next]_vars
  BY StepIsQueue DEF CInv
<1>2. Inv' /\ CurIsOwn'
  BY <1>1, NextInv, CurInv DEF CInv
<1>3. ComputeTypeOK'
  BY <1>2, WorkersInv, BoundsInv DEF ComputeTypeOK, Workers, Inv
<1>4. CompletedHonestly'
  BY CompletedStays DEF CInv, CompletedHonestly, OkIsHonest
<1> QED
  BY <1>2, <1>3, <1>4, WorkersInv DEF CInv

LEMMA CInvInit == ComputeInit => CInv
<1> SUFFICES ASSUME ComputeInit
             PROVE  CInv
  OBVIOUS
<1>1. Inv
  BY InitInv DEF ComputeInit
<1>2. Down \in Workers /\ Down.task = NoTask /\ Down.pc = "down" /\ Down.ok = FALSE
  BY DEF Down, At, Workers, NoNode
<1>3. ComputeTypeOK
  BY <1>1, <1>2 DEF ComputeInit, ComputeTypeOK, Workers, Inv
<1>4. CurIsOwn /\ CompletedHonestly
  BY DEF ComputeInit, Init, CurIsOwn, CurOK, CompletedHonestly
<1>5. TokensHeld /\ ClaimsAreOwn /\ OkIsHonest
  BY <1>2 DEF ComputeInit, TokensHeld, ClaimsAreOwn, OkIsHonest
<1> QED
  BY <1>1, <1>3, <1>4, <1>5 DEF CInv

LEMMA ComputeInvariance == ComputeSpec => []CInv
  BY CInvInit, CInvNext, PTL DEF ComputeSpec

\* A worker has a task exactly when it is past its poll, and a token with it
\* (worker.rs:task_loop).
THEOREM ComputeTypeCorrect == ComputeSpec => []ComputeTypeOK
<1>1. CInv => ComputeTypeOK
  BY DEF CInv
<1> QED
  BY <1>1, ComputeInvariance, PTL

\* The workers, their crashes and the messages that are lost drive the queue as
\* TaskQueue describes it: each step of the network is one of the queue, or
\* leaves it alone.
THEOREM NetworkRunsQueue == ComputeSpec => Spec
<1>1. ComputeInit => Init
  BY DEF ComputeInit
<1> QED
  BY <1>1, StepIsQueue, ComputeInvariance, PTL DEF ComputeSpec, Spec

\* And what the queue promises of a task it promises to workers that crash,
\* report late and lose their messages: one holder at a time, one verdict, from
\* the holder (claim_task_for_node, submit_task_result, worker.rs:task_loop).
THEOREM NetworkKeepsPromise == ComputeSpec => PromiseSpec
  BY NetworkRunsQueue, QueueKeepsPromise, PTL

\* So the verdict of a job is its last in the network too
\* (refresh_job_status and submit_task_result).
THEOREM NetworkVerdictsFinal == ComputeSpec => []JobVerdictIsFinal
  BY NetworkRunsQueue, JobVerdictsFinal, PTL

\* As long as no receipt was rejected, a worker that holds the live token of a
\* task is the node that claimed it (worker.rs:task_loop, claim_task_for_node).
THEOREM WorkersOwnTheirClaims == ComputeSpec => []ClaimsAreOwn
<1>1. CInv => ClaimsAreOwn
  BY DEF CInv
<1> QED
  BY <1>1, ComputeInvariance, PTL

\* A completed task was run to the end by a node whose receipt verifies
\* (submit_task_result of nodes.py, worker.rs:report_success).
THEOREM CompletionsHonest == ComputeSpec => []CompletedHonestly
<1>1. CInv => CompletedHonestly
  BY DEF CInv
<1> QED
  BY <1>1, ComputeInvariance, PTL
=============================================================================
