-------------------------- MODULE TaskQueueProofs --------------------------
(***************************************************************************)
(* What TaskQueue guarantees for every number of nodes, tasks, jobs and    *)
(* claims.  The inductive invariant is Inv: the two queue invariants need  *)
(* each other (an entry that is dropped must not be a queued task's only   *)
(* one), and the tracking of work in progress keeps a node from claiming a *)
(* second task, which would hide the first from failover.                  *)
(***************************************************************************)
EXTENDS TaskQueue, TLAPS

USE ConstantsAssumption

\* A token is one of those issued so far.
TokensIssued == \A t \in Tasks : token[t] <= issued

\* A job's tasks appear with the job, and wait for their keys only while its start
\* request is running.
JobPhases ==
  /\ \A t \in Tasks :
       /\ status[t] = "absent" <=> jobStatus[JobOf[t]] = "none"
       /\ status[t] = "planned" => JobOf[t] \in planning
  /\ \A j \in planning : jobStatus[j] # "none"

Inv ==
  /\ TypeOK
  /\ QueuedIsReachable
  /\ NoStrayEntry
  /\ ActiveIsTracked
  /\ TokensAreLive
  /\ TokensIssued
  /\ JobPhases

\* A task that moves between phases after planning disturbs no job.
LEMMA PhasesKept ==
  ASSUME JobPhases, UNCHANGED <<jobStatus, planning>>,
         \A u \in Tasks :
           \/ status'[u] = status[u]
           \/ /\ status[u] \notin {"absent", "planned"}
              /\ status'[u] \notin {"absent", "planned"}
  PROVE  JobPhases'
<1>1. /\ \A j \in planning' : jobStatus'[j] # "none"
      /\ planning' = planning /\ jobStatus' = jobStatus
  BY DEF JobPhases
<1>2. \A u \in Tasks :
        /\ status[u] = "absent" <=> jobStatus[JobOf[u]] = "none"
        /\ status[u] = "planned" => JobOf[u] \in planning
  BY DEF JobPhases
<1>3. ASSUME NEW u \in Tasks
      PROVE  /\ status'[u] = "absent" <=> jobStatus[JobOf[u]] = "none"
             /\ status'[u] = "planned" => JobOf[u] \in planning
  <2>1. CASE status'[u] = status[u]
    BY <1>2, <2>1
  <2>2. CASE /\ status[u] \notin {"absent", "planned"}
             /\ status'[u] \notin {"absent", "planned"}
    BY <1>2, <2>2
  <2> QED BY <2>1, <2>2
<1> QED BY <1>1, <1>3 DEF JobPhases

----------------------------------------------------------------------------
(* Sequences and families of queues *)

\* Appending a task to a queue (RPUSH).
LEMMA AppendFacts ==
  ASSUME NEW s \in Seq(Tasks), NEW t \in Tasks
  PROVE  /\ Append(s, t) \in Seq(Tasks)
         /\ Len(s) \in Nat
         /\ Len(Append(s, t)) = Len(s) + 1
         /\ \A i \in 1..Len(s) : Append(s, t)[i] = s[i]
         /\ Append(s, t)[Len(s) + 1] = t
  OBVIOUS

\* Taking the first task off a queue (LPOP).
LEMMA TailFacts ==
  ASSUME NEW s \in Seq(Tasks), s # <<>>
  PROVE  /\ Tail(s) \in Seq(Tasks)
         /\ Len(s) \in Nat \ {0}
         /\ Len(Tail(s)) = Len(s) - 1
         /\ \A i \in 1..Len(Tail(s)) : Tail(s)[i] = s[i + 1]
         /\ Head(s) = s[1]
         /\ Head(s) \in Tasks
  OBVIOUS

\* A pop removes the only entry of the popped task and keeps the others.
LEMMA PopQueue ==
  ASSUME NEW q \in [QueueNames -> Seq(Tasks)], AtMostOnce(q),
         NEW k \in QueueNames, q[k] # <<>>
  PROVE  LET r == [q EXCEPT ![k] = Tail(@)]
         IN  /\ r \in [QueueNames -> Seq(Tasks)]
             /\ AtMostOnce(r)
             /\ Head(q[k]) \in Tasks
             /\ Occurs(Head(q[k]), q[k])
             /\ \A l \in QueueNames : ~Occurs(Head(q[k]), r[l])
             /\ \A l \in QueueNames, t \in Tasks :
                  t # Head(q[k]) => (Occurs(t, r[l]) <=> Occurs(t, q[l]))
<1> DEFINE r == [q EXCEPT ![k] = Tail(@)]
<1>1. /\ Tail(q[k]) \in Seq(Tasks)
      /\ Len(q[k]) \in Nat \ {0}
      /\ Len(Tail(q[k])) = Len(q[k]) - 1
      /\ \A i \in 1..Len(Tail(q[k])) : Tail(q[k])[i] = q[k][i + 1]
      /\ Head(q[k]) = q[k][1]
      /\ Head(q[k]) \in Tasks
  BY TailFacts
<1>2. /\ r \in [QueueNames -> Seq(Tasks)]
      /\ r[k] = Tail(q[k])
      /\ \A l \in QueueNames : l # k => r[l] = q[l]
  BY <1>1
<1>3. ASSUME NEW l \in QueueNames, NEW i \in 1..Len(r[l])
      PROVE  \E h \in 1..Len(q[l]) :
               /\ r[l][i] = q[l][h]
               /\ l = k => h = i + 1
               /\ l # k => h = i
  BY <1>1, <1>2
<1>4. AtMostOnce(r)
  BY <1>3 DEF AtMostOnce
<1>5. Occurs(Head(q[k]), q[k])
  BY <1>1 DEF Occurs
<1>6. ASSUME NEW l \in QueueNames
      PROVE  ~Occurs(Head(q[k]), r[l])
  <2>1. SUFFICES ASSUME NEW i \in 1..Len(r[l]), r[l][i] = Head(q[k])
                 PROVE  FALSE
    BY DEF Occurs
  <2>2. PICK h \in 1..Len(q[l]) : /\ r[l][i] = q[l][h]
                                  /\ l = k => h = i + 1
    BY <1>3
  <2>3. l = k /\ h = 1
    BY <1>1, <2>1, <2>2 DEF AtMostOnce
  <2> QED BY <2>2, <2>3
<1>7. ASSUME NEW l \in QueueNames, NEW t \in Tasks, t # Head(q[k])
      PROVE  Occurs(t, r[l]) <=> Occurs(t, q[l])
  <2>1. Occurs(t, r[l]) => Occurs(t, q[l])
    BY <1>3 DEF Occurs
  <2>2. ASSUME NEW h \in 1..Len(q[l]), q[l][h] = t
        PROVE  Occurs(t, r[l])
    <3>1. CASE l # k
      BY <1>2, <2>2, <3>1 DEF Occurs
    <3>2. CASE l = k
      <4>1. h # 1
        BY <1>1, <1>7, <2>2, <3>2
      <4>2. h - 1 \in 1..Len(r[k]) /\ r[k][h - 1] = t
        BY <1>1, <1>2, <2>2, <3>2, <4>1
      <4> QED BY <3>2, <4>2 DEF Occurs
    <3> QED BY <3>1, <3>2
  <2> QED BY <2>1, <2>2 DEF Occurs
<1> QED BY <1>1, <1>2, <1>4, <1>5, <1>6, <1>7

\* A push of a task that has no entry gives it one, in that queue.
LEMMA PushQueue ==
  ASSUME NEW q \in [QueueNames -> Seq(Tasks)], AtMostOnce(q),
         NEW k \in QueueNames, NEW t \in Tasks,
         \A l \in QueueNames : ~Occurs(t, q[l])
  PROVE  LET r == [q EXCEPT ![k] = Append(@, t)]
         IN  /\ r \in [QueueNames -> Seq(Tasks)]
             /\ AtMostOnce(r)
             /\ Occurs(t, r[k])
             /\ \A l \in QueueNames, u \in Tasks :
                  u # t => (Occurs(u, r[l]) <=> Occurs(u, q[l]))
<1> DEFINE r == [q EXCEPT ![k] = Append(@, t)]
<1>1. /\ Append(q[k], t) \in Seq(Tasks)
      /\ Len(q[k]) \in Nat
      /\ Len(Append(q[k], t)) = Len(q[k]) + 1
      /\ \A i \in 1..Len(q[k]) : Append(q[k], t)[i] = q[k][i]
      /\ Append(q[k], t)[Len(q[k]) + 1] = t
  BY AppendFacts
<1>2. /\ r \in [QueueNames -> Seq(Tasks)]
      /\ r[k] = Append(q[k], t)
      /\ \A l \in QueueNames : l # k => r[l] = q[l]
  BY <1>1
<1>3. ASSUME NEW l \in QueueNames, NEW i \in 1..Len(r[l])
      PROVE  \/ i \in 1..Len(q[l]) /\ r[l][i] = q[l][i] /\ q[l][i] # t
             \/ l = k /\ i = Len(q[k]) + 1 /\ r[l][i] = t
  BY <1>1, <1>2 DEF Occurs
<1>4. AtMostOnce(r)
  BY <1>3 DEF AtMostOnce
<1>5. Occurs(t, r[k])
  BY <1>1, <1>2 DEF Occurs
<1>6. ASSUME NEW l \in QueueNames, NEW u \in Tasks, u # t
      PROVE  Occurs(u, r[l]) <=> Occurs(u, q[l])
  <2>1. Occurs(u, r[l]) => Occurs(u, q[l])
    BY <1>3, <1>6 DEF Occurs
  <2>2. Occurs(u, q[l]) => Occurs(u, r[l])
    BY <1>1, <1>2 DEF Occurs
  <2> QED BY <2>1, <2>2
<1> QED BY <1>2, <1>4, <1>5, <1>6

----------------------------------------------------------------------------
(* The two queue invariants, kept by each way the queues change *)

\* requeue_task, after any pop, keeps both queue invariants.
LEMMA RequeueKeeps ==
  ASSUME TypeOK, QueuedIsReachable, NoStrayEntry,
         NEW t \in Tasks, NEW d \in Nodes \cup {NoNode},
         NEW q \in [QueueNames -> Seq(Tasks)], AtMostOnce(q),
         \A l \in QueueNames : ~Occurs(t, q[l]),
         \A l \in QueueNames, u \in Tasks :
           u # t => (Occurs(u, q[l]) <=> Occurs(u, queue[l])),
         Requeue(t, d, q)
  PROVE  /\ queue' \in [QueueNames -> Seq(Tasks)]
         /\ status' \in [Tasks -> Statuses]
         /\ assigned' \in [Tasks -> Nodes \cup {NoNode}]
         /\ token' \in [Tasks -> 0..MaxClaims]
         /\ QueuedIsReachable' /\ NoStrayEntry'
         /\ status'[t] = "queued" /\ token'[t] = 0
         /\ \A u \in Tasks \ {t} : /\ status'[u] = status[u]
                                   /\ assigned'[u] = assigned[u]
                                   /\ token'[u] = token[u]
<1> DEFINE k == QueueFor(t, d)
<1>1. k \in QueueNames
  BY DEF QueueFor, QueueNames, ConstantsAssumption
<1>2. /\ queue' \in [QueueNames -> Seq(Tasks)]
      /\ AtMostOnce(queue')
      /\ Occurs(t, queue'[k])
      /\ \A l \in QueueNames, u \in Tasks :
           u # t => (Occurs(u, queue'[l]) <=> Occurs(u, queue[l]))
  <2> HIDE DEF k
  <2>1. queue' = [q EXCEPT ![k] = Append(@, t)]
    BY DEF Requeue, k
  <2> QED BY <1>1, <2>1, PushQueue
<1>3. /\ status' \in [Tasks -> Statuses]
      /\ assigned' \in [Tasks -> Nodes \cup {NoNode}]
      /\ token' \in [Tasks -> 0..MaxClaims]
      /\ status'[t] = "queued" /\ assigned'[t] = d /\ token'[t] = 0
      /\ \A u \in Tasks \ {t} : /\ status'[u] = status[u]
                                /\ assigned'[u] = assigned[u]
                                /\ token'[u] = token[u]
  BY DEF Requeue, TypeOK, Statuses, ConstantsAssumption
<1>4. ASSUME NEW u \in Tasks, status'[u] = "queued"
      PROVE  Occurs(u, queue'[QueueFor(u, assigned'[u])])
  <2>1. CASE u = t
    BY <1>2, <1>3, <2>1
  <2>2. CASE u # t
    <3>1. QueueFor(u, assigned[u]) \in QueueNames
      BY DEF QueueFor, QueueNames, ConstantsAssumption, TypeOK
    <3> QED BY <1>2, <1>3, <1>4, <2>2, <3>1 DEF QueuedIsReachable
  <2> QED BY <2>1, <2>2
<1>5. NoStrayEntry'
  BY <1>2, <1>3 DEF NoStrayEntry, AtMostOnce
<1>6. QueuedIsReachable'
  BY <1>4 DEF QueuedIsReachable, QueueFor
<1> QED BY <1>2, <1>3, <1>5, <1>6

\* Dropping the head of queue k keeps both, if no queued task loses its entry.
LEMMA DropKeeps ==
  ASSUME TypeOK, QueuedIsReachable, NoStrayEntry,
         NEW k \in QueueNames, queue[k] # <<>>,
         queue' = Pop(k), UNCHANGED assigned,
         status'[Head(queue[k])] # "queued",
         \A u \in Tasks \ {Head(queue[k])} : status'[u] = status[u]
  PROVE  /\ queue' \in [QueueNames -> Seq(Tasks)]
         /\ QueuedIsReachable' /\ NoStrayEntry'
<1> DEFINE t == Head(queue[k])
<1>1. /\ queue' \in [QueueNames -> Seq(Tasks)]
      /\ AtMostOnce(queue')
      /\ t \in Tasks
      /\ \A l \in QueueNames : ~Occurs(t, queue'[l])
      /\ \A l \in QueueNames, u \in Tasks :
           u # t => (Occurs(u, queue'[l]) <=> Occurs(u, queue[l]))
  <2>1. queue \in [QueueNames -> Seq(Tasks)] /\ AtMostOnce(queue)
    BY DEF TypeOK, NoStrayEntry
  <2> PICK r : r = [queue EXCEPT ![k] = Tail(@)]
    OBVIOUS
  <2>2. /\ r \in [QueueNames -> Seq(Tasks)] /\ AtMostOnce(r) /\ t \in Tasks
        /\ \A l \in QueueNames : ~Occurs(t, r[l])
        /\ \A l \in QueueNames, u \in Tasks :
             u # t => (Occurs(u, r[l]) <=> Occurs(u, queue[l]))
    BY <2>1, PopQueue
  <2>3. queue' = r
    BY DEF Pop
  <2> HIDE DEF t
  <2> QED BY <2>2, <2>3
<1>2. \A u \in Tasks : QueueFor(u, assigned[u]) \in QueueNames
  BY DEF QueueFor, QueueNames, ConstantsAssumption, TypeOK
<1>3. QueuedIsReachable'
  <2>1. SUFFICES ASSUME NEW u \in Tasks, status'[u] = "queued"
                 PROVE  Occurs(u, queue'[QueueFor(u, assigned[u])])
    BY DEF QueuedIsReachable, QueueFor
  <2> QED BY <1>1, <1>2, <2>1 DEF QueuedIsReachable
<1>4. NoStrayEntry'
  BY <1>1 DEF NoStrayEntry, AtMostOnce
<1> QED BY <1>1, <1>3, <1>4

----------------------------------------------------------------------------
(* Each action keeps the inductive invariant *)

LEMMA InitInv == Init => Inv
<1> SUFFICES ASSUME Init PROVE Inv
  OBVIOUS
<1>1. TypeOK
  BY DEF Init, TypeOK, Statuses
<1>2. \A k \in QueueNames : queue[k] = <<>>
  BY DEF Init
<1> QED BY <1>1, <1>2 DEF Init, Inv, QueuedIsReachable, NoStrayEntry, Occurs,
           AtMostOnce, ActiveIsTracked, TokensAreLive, TokensIssued, Active,
           JobPhases, ConstantsAssumption

\* A step that leaves claims, tokens and queues alone keeps their invariants.
LEMMA FrameInv ==
  ASSUME Inv, UNCHANGED <<cur, status, assigned, token, queue, issued>>
  PROVE  QueuedIsReachable' /\ NoStrayEntry' /\ ActiveIsTracked'
           /\ TokensAreLive' /\ TokensIssued'
BY DEF Inv, QueuedIsReachable, NoStrayEntry, AtMostOnce, ActiveIsTracked,
       TokensAreLive, TokensIssued, QueueFor, Occurs

LEMMA NodeInv ==
  ASSUME Inv, NEW n \in Nodes, NodeStep(n)
  PROVE  Inv'
<1>1. /\ TypeOK' /\ JobPhases'
      /\ UNCHANGED <<cur, status, assigned, token, queue, issued>>
  BY DEF Inv, TypeOK, JobPhases, NodeStep, Register, Heartbeat, GoStale,
         nodeVars, jobVars
<1> QED BY <1>1, FrameInv DEF Inv

LEMMA StartInv ==
  ASSUME Inv, NEW j \in Jobs, Start(j)
  PROVE  Inv'
<1>1. PICK plan \in [TasksOf(j) -> Nodes] :
        assigned' = [t \in Tasks |-> IF t \in TasksOf(j) THEN plan[t]
                                                         ELSE assigned[t]]
  BY DEF Start
<1>2. \A t \in TasksOf(j) : status[t] = "absent"
  BY DEF Start, TasksOf, Inv, JobPhases
<1>3. \A t \in Tasks : IF t \in TasksOf(j)
                       THEN status'[t] = "planned" /\ status[t] = "absent"
                       ELSE status'[t] = status[t] /\ assigned'[t] = assigned[t]
  BY <1>1, <1>2 DEF Start
<1>4. TypeOK'
  <2>1. assigned' \in [Tasks -> Nodes \cup {NoNode}]
    BY <1>1 DEF Inv, TypeOK
  <2>2. status' \in [Tasks -> Statuses]
    BY DEF Start, Inv, TypeOK, Statuses
  <2> QED BY <2>1, <2>2 DEF Start, Inv, TypeOK, nodeVars
<1>5. JobPhases'
  BY <1>3 DEF Start, JobPhases, TasksOf, Inv, TypeOK, ConstantsAssumption
<1>6. /\ UNCHANGED <<cur, token, queue, issued>>
      /\ TokensIssued'
  BY DEF Start, Inv, TokensIssued, nodeVars
<1>7. QueuedIsReachable'
  BY <1>3, <1>6 DEF Inv, QueuedIsReachable, QueueFor
<1>8. NoStrayEntry'
  BY <1>3, <1>6 DEF Inv, NoStrayEntry, AtMostOnce
<1>9. ActiveIsTracked' /\ TokensAreLive'
  BY <1>3, <1>6 DEF Inv, ActiveIsTracked, TokensAreLive, Active
<1> QED BY <1>4, <1>5, <1>6, <1>7, <1>8, <1>9 DEF Inv

LEMMA JobInv ==
  ASSUME Inv, NEW j \in Jobs, JobStep(j)
  PROVE  Inv'
<1>1. \A st : JobVerdict(j, st) \in {"queued", "running", "completed", "failed"}
  BY DEF JobVerdict
<1>2. CASE FinishStart(j) \/ PollJob(j)
  <2>1. UNCHANGED <<cur, status, assigned, token, queue, issued>>
    BY <1>2 DEF FinishStart, PollJob, nodeVars
  <2>2. TypeOK'
    BY <1>1, <1>2 DEF FinishStart, PollJob, Inv, TypeOK, nodeVars
  <2>3. jobStatus[j] # "none" /\ jobStatus'[j] # "none"
    <3>1. jobStatus[j] # "none"
      BY <1>2 DEF FinishStart, PollJob, Inv, JobPhases
    <3>2. jobStatus'[j] = JobVerdict(j, status)
      BY <1>2 DEF FinishStart, PollJob, Inv, TypeOK
    <3>3. JobVerdict(j, status) # "none"
      BY <1>1
    <3> QED BY <3>1, <3>2, <3>3
  <2>4. \A i \in Jobs \ {j} : jobStatus'[i] = jobStatus[i]
    BY <1>2 DEF FinishStart, PollJob, Inv, TypeOK
  <2>5. /\ planning' \subseteq planning
        /\ \A t \in Tasks : status[t] = "planned" => JobOf[t] \in planning'
    BY <1>2 DEF FinishStart, PollJob, Inv, JobPhases, TasksOf
  <2>6. JobPhases'
    BY <2>1, <2>3, <2>4, <2>5 DEF Inv, TypeOK, JobPhases, ConstantsAssumption
  <2> QED BY <2>1, <2>2, <2>6, FrameInv DEF Inv
<1> QED BY <1>2, StartInv DEF JobStep

\* create_task: the task is queued with its first entry.
LEMMA CreateTaskInv ==
  ASSUME Inv, NEW t \in Tasks, CreateTask(t)
  PROVE  Inv'
<1> DEFINE k == QueueFor(t, assigned[t])
<1>1. k \in QueueNames
  BY DEF QueueFor, QueueNames, ConstantsAssumption, Inv, TypeOK
<1>2. \A l \in QueueNames : ~Occurs(t, queue[l])
  BY DEF CreateTask, Inv, NoStrayEntry
<1>3. /\ queue' \in [QueueNames -> Seq(Tasks)]
      /\ AtMostOnce(queue')
      /\ Occurs(t, queue'[k])
      /\ \A l \in QueueNames, u \in Tasks :
           u # t => (Occurs(u, queue'[l]) <=> Occurs(u, queue[l]))
  <2> HIDE DEF k
  <2>1. queue' = [queue EXCEPT ![k] = Append(@, t)]
    BY DEF CreateTask, k
  <2> QED BY <1>1, <1>2, <2>1, PushQueue DEF Inv, TypeOK, NoStrayEntry
<1>4. /\ status'[t] = "queued" /\ status[t] = "planned"
      /\ \A u \in Tasks \ {t} : status'[u] = status[u]
      /\ UNCHANGED <<cur, assigned, token, issued, jobStatus, planning>>
  BY DEF CreateTask, Inv, TypeOK, jobVars
<1>5. TypeOK'
  BY <1>3 DEF CreateTask, Inv, TypeOK, Statuses, nodeVars, jobVars
<1>6. JobPhases'
  BY <1>4 DEF Inv, JobPhases
<1>7. ASSUME NEW u \in Tasks, status'[u] = "queued"
      PROVE  Occurs(u, queue'[QueueFor(u, assigned[u])])
  <2>1. QueueFor(u, assigned[u]) \in QueueNames
    BY DEF QueueFor, QueueNames, ConstantsAssumption, Inv, TypeOK
  <2> QED BY <1>3, <1>4, <1>7, <2>1 DEF Inv, QueuedIsReachable
<1>8. QueuedIsReachable'
  BY <1>4, <1>7 DEF QueuedIsReachable, QueueFor
<1>9. NoStrayEntry'
  BY <1>3, <1>4 DEF Inv, NoStrayEntry, AtMostOnce
<1>10. ActiveIsTracked' /\ TokensAreLive' /\ TokensIssued'
  BY <1>4 DEF Inv, ActiveIsTracked, TokensAreLive, TokensIssued, Active
<1> QED BY <1>5, <1>6, <1>8, <1>9, <1>10 DEF Inv

\* A task in progress has no queue entry, so requeueing it adds the only one.
LEMMA RequeueActive ==
  ASSUME Inv, NEW t \in Tasks, status[t] \in Active,
         NEW d \in Nodes \cup {NoNode}, Requeue(t, d, queue)
  PROVE  /\ queue' \in [QueueNames -> Seq(Tasks)]
         /\ status' \in [Tasks -> Statuses]
         /\ assigned' \in [Tasks -> Nodes \cup {NoNode}]
         /\ token' \in [Tasks -> 0..MaxClaims]
         /\ QueuedIsReachable' /\ NoStrayEntry'
         /\ status'[t] = "queued" /\ token'[t] = 0
         /\ \A u \in Tasks \ {t} : /\ status'[u] = status[u]
                                   /\ assigned'[u] = assigned[u]
                                   /\ token'[u] = token[u]
<1>1. \A l \in QueueNames : ~Occurs(t, queue[l])
  BY DEF Inv, NoStrayEntry, Active
<1>2. /\ TypeOK /\ QueuedIsReachable /\ NoStrayEntry
      /\ queue \in [QueueNames -> Seq(Tasks)] /\ AtMostOnce(queue)
  BY DEF Inv, TypeOK, NoStrayEntry
<1> QED BY <1>1, <1>2, RequeueKeeps

LEMMA RequeueStaleInv ==
  ASSUME Inv, NEW n \in Nodes, RequeueStale(n)
  PROVE  Inv'
<1> DEFINE t == cur[n]
<1>1. t \in Tasks
  BY DEF RequeueStale, Holds, Inv, TypeOK
<1>2. /\ cur' \in [Nodes -> Tasks \cup {NoTask}]
      /\ cur'[n] = NoTask
      /\ \A m \in Nodes \ {n} : cur'[m] = cur[m]
      /\ UNCHANGED <<nodeVars, dek, draining, jobVars, issued>>
  BY DEF RequeueStale, Inv, TypeOK
<1>3. CASE status[t] \in Active
  <2>1. PICK d \in Nodes \cup {NoNode} : Requeue(t, d, queue)
    BY <1>3 DEF RequeueStale
  <2>2. /\ queue' \in [QueueNames -> Seq(Tasks)]
        /\ status' \in [Tasks -> Statuses]
        /\ assigned' \in [Tasks -> Nodes \cup {NoNode}]
        /\ token' \in [Tasks -> 0..MaxClaims]
        /\ QueuedIsReachable' /\ NoStrayEntry'
        /\ status'[t] = "queued" /\ token'[t] = 0
        /\ \A u \in Tasks \ {t} : /\ status'[u] = status[u]
                                  /\ assigned'[u] = assigned[u]
                                  /\ token'[u] = token[u]
    BY <1>1, <1>3, <2>1, RequeueActive
  <2>3. TypeOK'
    BY <1>2, <2>2 DEF Inv, TypeOK, nodeVars, jobVars
  <2>4. ActiveIsTracked'
    <3>1. SUFFICES ASSUME NEW u \in Tasks, status'[u] \in Active
                   PROVE  assigned'[u] # NoNode /\ cur'[assigned'[u]] = u
      BY DEF ActiveIsTracked
    <3>2. u # t
      BY <2>2, <3>1 DEF Active
    <3>3. assigned[u] \in Nodes /\ cur[assigned[u]] = u
      BY <2>2, <3>1, <3>2 DEF Inv, ActiveIsTracked, TypeOK
    <3> QED BY <1>2, <2>2, <3>2, <3>3 DEF NoNode, Nodes, ConstantsAssumption
  <2>5. TokensAreLive' /\ TokensIssued'
    <3>1. UNCHANGED issued /\ 0 <= issued
      BY <1>2 DEF Inv, TypeOK, ConstantsAssumption
    <3>2. TokensAreLive'
      <4>1. SUFFICES ASSUME NEW u \in Tasks, NEW v \in Tasks
                     PROVE  /\ token'[u] # 0 <=> status'[u] \in Active
                            /\ token'[u] # 0 /\ token'[v] = token'[u] => v = u
        BY DEF TokensAreLive
      <4>2. \A w \in Tasks :
              IF w = t THEN token'[w] = 0 /\ status'[w] \notin Active
                       ELSE token'[w] = token[w] /\ status'[w] = status[w]
        BY <2>2 DEF Active
      <4>3. \A w, x \in Tasks :
              /\ token[w] # 0 <=> status[w] \in Active
              /\ token[w] # 0 /\ token[x] = token[w] => x = w
        BY DEF Inv, TokensAreLive
      <4> HIDE DEF t
      <4> QED BY <4>2, <4>3
    <3>3. TokensIssued'
      BY <1>1, <2>2, <3>1 DEF Inv, TokensIssued
    <3> QED BY <3>2, <3>3
  <2>6. JobPhases'
    <3>1. JobPhases /\ UNCHANGED <<jobStatus, planning>>
      BY <1>2 DEF Inv, jobVars
    <3>2. status[t] \notin {"absent", "planned"}
      BY <1>3 DEF Active
    <3>3. \A u \in Tasks :
            \/ status'[u] = status[u]
            \/ /\ status[u] \notin {"absent", "planned"}
               /\ status'[u] \notin {"absent", "planned"}
      BY <2>2, <3>2
    <3> QED BY <3>1, <3>3, PhasesKept
  <2> QED BY <2>2, <2>3, <2>4, <2>5, <2>6 DEF Inv
<1>4. CASE status[t] \notin Active
  <2>1. UNCHANGED <<status, assigned, token, queue>>
    BY <1>4 DEF RequeueStale
  <2>2. TypeOK' /\ JobPhases'
    BY <1>2, <2>1 DEF Inv, TypeOK, JobPhases, nodeVars, jobVars
  <2>3. QueuedIsReachable' /\ NoStrayEntry' /\ TokensAreLive' /\ TokensIssued'
    BY <1>2, <2>1 DEF Inv, QueuedIsReachable, NoStrayEntry, AtMostOnce,
       TokensAreLive, TokensIssued, QueueFor, Occurs
  <2>4. ActiveIsTracked'
    BY <1>1, <1>2, <1>4, <2>1 DEF Inv, ActiveIsTracked, TypeOK
  <2> QED BY <2>2, <2>3, <2>4 DEF Inv
<1> QED BY <1>3, <1>4

\* What the head of a queue can be.
LEMMA HeadOfQueue ==
  ASSUME Inv, NEW k \in QueueNames, queue[k] # <<>>
  PROVE  /\ Head(queue[k]) \in Tasks
         /\ Occurs(Head(queue[k]), queue[k])
         /\ status[Head(queue[k])] \in {"queued", "expired"}
         /\ status[Head(queue[k])] = "queued" =>
              k = QueueFor(Head(queue[k]), assigned[Head(queue[k])])
<1> DEFINE t == Head(queue[k])
<1>1. t \in Tasks /\ Occurs(t, queue[k])
  BY PopQueue DEF Inv, TypeOK, NoStrayEntry
<1>2. status[t] \in {"queued", "expired"}
  BY <1>1 DEF Inv, NoStrayEntry
<1>3. ASSUME status[t] = "queued"
      PROVE  k = QueueFor(t, assigned[t])
  <2> DEFINE l == QueueFor(t, assigned[t])
  <2>1. l \in QueueNames
    BY <1>1 DEF QueueFor, QueueNames, ConstantsAssumption, Inv, TypeOK
  <2>2. Occurs(t, queue[l])
    BY <1>1, <1>3 DEF Inv, QueuedIsReachable
  <2> HIDE DEF t, l
  <2>3. k = l
    BY <1>1, <2>1, <2>2 DEF Inv, NoStrayEntry, AtMostOnce, Occurs
  <2> QED BY <2>3 DEF l
<1> QED BY <1>1, <1>2, <1>3

\* Putting back the queued task just popped from k.
LEMMA RequeueHead ==
  ASSUME Inv, NEW k \in QueueNames, queue[k] # <<>>,
         NEW d \in Nodes \cup {NoNode},
         Requeue(Head(queue[k]), d, Pop(k)),
         status[Head(queue[k])] = "queued",
         UNCHANGED <<known, members, fresh, bad, dek, draining, jobStatus,
                     planning, issued>>,
         cur' \in [Nodes -> Tasks \cup {NoTask}],
         \A m \in Nodes : cur'[m] = cur[m]
                            \/ (cur[m] \in Tasks => status[cur[m]] \notin Active)
  PROVE  Inv'
<1> DEFINE t == Head(queue[k])
<1>1. /\ Pop(k) \in [QueueNames -> Seq(Tasks)]
      /\ AtMostOnce(Pop(k))
      /\ t \in Tasks
      /\ \A l \in QueueNames : ~Occurs(t, Pop(k)[l])
      /\ \A l \in QueueNames, u \in Tasks :
           u # t => (Occurs(u, Pop(k)[l]) <=> Occurs(u, queue[l]))
  BY PopQueue DEF Pop, Inv, TypeOK, NoStrayEntry
<1>2. /\ queue' \in [QueueNames -> Seq(Tasks)]
      /\ status' \in [Tasks -> Statuses]
      /\ assigned' \in [Tasks -> Nodes \cup {NoNode}]
      /\ token' \in [Tasks -> 0..MaxClaims]
      /\ QueuedIsReachable' /\ NoStrayEntry'
      /\ status'[t] = "queued" /\ token'[t] = 0
      /\ \A u \in Tasks \ {t} : /\ status'[u] = status[u]
                                /\ assigned'[u] = assigned[u]
                                /\ token'[u] = token[u]
  <2>1. TypeOK /\ QueuedIsReachable /\ NoStrayEntry
    BY DEF Inv
  <2> HIDE DEF t
  <2>2. Requeue(t, d, Pop(k))
    BY DEF t
  <2> QED BY <1>1, <2>1, <2>2, RequeueKeeps
<1>3. TypeOK'
  BY <1>2 DEF Inv, TypeOK
<1>4. ActiveIsTracked'
  <2>1. SUFFICES ASSUME NEW u \in Tasks, status'[u] \in Active
                 PROVE  assigned'[u] # NoNode /\ cur'[assigned'[u]] = u
    BY DEF ActiveIsTracked
  <2>2. u # t
    BY <1>2, <2>1 DEF Active
  <2>3. assigned[u] \in Nodes /\ cur[assigned[u]] = u /\ status[u] \in Active
    BY <1>2, <2>1, <2>2 DEF Inv, ActiveIsTracked, TypeOK
  <2> QED BY <1>2, <2>2, <2>3 DEF NoNode, Nodes, ConstantsAssumption
<1>5. TokensAreLive'
  <2>1. SUFFICES ASSUME NEW u \in Tasks, NEW v \in Tasks
                 PROVE  /\ token'[u] # 0 <=> status'[u] \in Active
                        /\ token'[u] # 0 /\ token'[v] = token'[u] => v = u
    BY DEF TokensAreLive
  <2>2. \A w \in Tasks : IF w = t THEN token'[w] = 0 /\ status'[w] \notin Active
                         ELSE token'[w] = token[w] /\ status'[w] = status[w]
    BY <1>2 DEF Active
  <2> HIDE DEF t
  <2> QED BY <2>2 DEF Inv, TokensAreLive
<1>6. TokensIssued'
  <2>1. UNCHANGED issued /\ 0 <= issued
    BY DEF Inv, TypeOK, ConstantsAssumption
  <2> QED BY <1>1, <1>2, <2>1 DEF Inv, TokensIssued
<1>7. JobPhases'
  <2>1. JobPhases /\ UNCHANGED <<jobStatus, planning>>
    BY DEF Inv
  <2>2. \A u \in Tasks :
          \/ status'[u] = status[u]
          \/ /\ status[u] \notin {"absent", "planned"}
             /\ status'[u] \notin {"absent", "planned"}
    BY <1>2
  <2> QED BY <2>1, <2>2, PhasesKept
<1> QED BY <1>2, <1>3, <1>4, <1>5, <1>6, <1>7 DEF Inv

\* Dropping an expired task's entry from k.
LEMMA DropHead ==
  ASSUME Inv, NEW k \in QueueNames, queue[k] # <<>>, queue' = Pop(k),
         status[Head(queue[k])] = "expired",
         UNCHANGED <<known, members, fresh, bad, status, assigned, token, dek,
                     draining, jobStatus, planning, issued>>,
         cur' \in [Nodes -> Tasks \cup {NoTask}],
         \A m \in Nodes : cur'[m] = cur[m]
                            \/ (cur[m] \in Tasks => status[cur[m]] \notin Active)
  PROVE  Inv'
<1>1. /\ queue' \in [QueueNames -> Seq(Tasks)]
      /\ QueuedIsReachable' /\ NoStrayEntry'
  <2>1. status'[Head(queue[k])] # "queued"
    OBVIOUS
  <2> QED BY <2>1, DropKeeps DEF Inv
<1>2. ActiveIsTracked'
  <2>1. SUFFICES ASSUME NEW u \in Tasks, status[u] \in Active
                 PROVE  assigned[u] # NoNode /\ cur'[assigned[u]] = u
    BY DEF ActiveIsTracked
  <2>2. assigned[u] \in Nodes /\ assigned[u] # NoNode /\ cur[assigned[u]] = u
    BY <2>1 DEF Inv, ActiveIsTracked, TypeOK
  <2> QED BY <2>1, <2>2
<1>3. TypeOK' /\ TokensAreLive' /\ TokensIssued' /\ JobPhases'
  BY <1>1 DEF Inv, TypeOK, TokensAreLive, TokensIssued, JobPhases
<1> QED BY <1>1, <1>2, <1>3 DEF Inv

LEMMA DrainInv ==
  ASSUME Inv, DrainOne \/ EndDrain \/ \E n \in Nodes : BeginDrain(n)
  PROVE  Inv'
<1>1. CASE EndDrain \/ \E n \in Nodes : BeginDrain(n)
  <2>1. /\ UNCHANGED <<cur, status, assigned, token, queue, issued>>
        /\ TypeOK' /\ JobPhases'
    BY <1>1 DEF EndDrain, BeginDrain, Inv, TypeOK, JobPhases, nodeVars, jobVars
  <2> QED BY <2>1, FrameInv DEF Inv
<1>2. CASE DrainOne
  <2> DEFINE t == Head(queue[draining])
  <2>1. draining \in Nodes /\ draining \in QueueNames /\ queue[draining] # <<>>
    BY <1>2 DEF DrainOne, Inv, TypeOK, QueueNames
  <2>2. status[t] \in {"queued", "expired"}
    BY <2>1, HeadOfQueue
  <2>3. /\ UNCHANGED <<known, members, fresh, bad, cur, dek, draining,
                       jobStatus, planning, issued>>
        /\ cur' \in [Nodes -> Tasks \cup {NoTask}]
    BY <1>2 DEF DrainOne, nodeVars, jobVars, Inv, TypeOK
  <2>4. CASE status[t] = "queued"
    <3>1. PICK d \in Nodes \cup {NoNode} : Requeue(t, d, Pop(draining))
      BY <1>2, <2>4 DEF DrainOne
    <3> QED BY <2>1, <2>3, <2>4, <3>1, RequeueHead
  <2>5. CASE status[t] = "expired"
    <3>1. queue' = Pop(draining) /\ UNCHANGED <<status, assigned, token>>
      BY <1>2, <2>5 DEF DrainOne, Active
    <3> QED BY <2>1, <2>3, <2>5, <3>1, DropHead
  <2> QED BY <2>2, <2>4, <2>5
<1> QED BY <1>1, <1>2

\* A node whose current task is not in progress holds no task in progress.
LEMMA NoClaimHeld ==
  ASSUME Inv, NEW n \in Nodes, ~Resumes(n), NEW u \in Tasks, status[u] \in Active
  PROVE  assigned[u] \in Nodes \ {n} /\ cur[assigned[u]] = u
<1>1. assigned[u] \in Nodes /\ cur[assigned[u]] = u
  BY DEF Inv, ActiveIsTracked, TypeOK
<1>2. assigned[u] # n
  BY <1>1 DEF Resumes, ConstantsAssumption
<1> QED BY <1>1, <1>2

\* The queues a node claims from, and why it never drops a queued task.
LEMMA SourceFacts ==
  ASSUME Inv, NEW n \in Nodes, NEW k \in QueueNames, IsSource(k, n)
  PROVE  /\ queue[k] # <<>>
         /\ Accepts(n, k, Head(queue[k])) <=> status[Head(queue[k])] = "queued"
         /\ ~Accepts(n, k, Head(queue[k])) <=> status[Head(queue[k])] = "expired"
<1> DEFINE t == Head(queue[k])
<1>1. queue[k] # <<>> /\ k \in {n, Wasm, Cloudpickle}
  BY DEF IsSource
<1>2. /\ t \in Tasks /\ status[t] \in {"queued", "expired"}
      /\ status[t] = "queued" => k = QueueFor(t, assigned[t])
  BY <1>1, HeadOfQueue
<1>3. ASSUME status[t] = "queued"
      PROVE  Accepts(n, k, t)
  <2>1. k = QueueFor(t, assigned[t]) /\ assigned[t] \in Nodes \cup {NoNode}
    BY <1>2, <1>3 DEF Inv, TypeOK
  <2>2. Runtimes \cap (Nodes \cup {NoNode}) = {} /\ RuntimeOf[t] \in Runtimes
    BY <1>2 DEF ConstantsAssumption
  <2>3. CASE k = n
    <3>1. assigned[t] = n
      BY <2>1, <2>2, <2>3 DEF QueueFor
    <3> QED BY <1>3, <2>3, <3>1 DEF Accepts
  <2>4. CASE k # n
    <3>1. k \in Runtimes
      BY <1>1, <2>4 DEF Runtimes
    <3>2. assigned[t] = NoNode
      BY <2>1, <2>2, <3>1 DEF QueueFor
    <3> QED BY <1>3, <2>4, <3>2 DEF Accepts
  <2> QED BY <2>3, <2>4
<1>4. status[t] = "expired" => ~Accepts(n, k, t)
  BY DEF Accepts
<1> QED BY <1>1, <1>2, <1>3, <1>4

LEMMA TakeInv ==
  ASSUME Inv, NEW n \in Nodes, NEW k \in QueueNames, ~Resumes(n), n \in known,
         queue[k] # <<>>, status[Head(queue[k])] = "queued",
         Take(n, k, Head(queue[k]))
  PROVE  Inv'
<1> DEFINE t == Head(queue[k])
<1>1. t \in Tasks
  BY HeadOfQueue
<1>2. /\ status' = [status EXCEPT ![t] = "claimed"]
      /\ assigned' = [assigned EXCEPT ![t] = n]
      /\ token' = [token EXCEPT ![t] = issued + 1]
      /\ cur' = [cur EXCEPT ![n] = t]
      /\ queue' = Pop(k)
      /\ issued < MaxClaims /\ issued' = issued + 1
      /\ fresh' = fresh \cup {n}
      /\ UNCHANGED <<known, members, bad, dek, draining, jobStatus, planning>>
  BY DEF Take, jobVars
<1>3. issued \in Nat /\ MaxClaims \in Nat
  BY DEF Inv, TypeOK, ConstantsAssumption
<1>4. /\ Pop(k) \in [QueueNames -> Seq(Tasks)]
      /\ AtMostOnce(Pop(k))
      /\ \A l \in QueueNames : ~Occurs(t, Pop(k)[l])
      /\ \A l \in QueueNames, u \in Tasks :
           u # t => (Occurs(u, Pop(k)[l]) <=> Occurs(u, queue[l]))
  BY PopQueue DEF Pop, Inv, TypeOK, NoStrayEntry
<1> HIDE DEF t
<1>5. /\ status'[t] = "claimed" /\ assigned'[t] = n /\ token'[t] = issued + 1
      /\ \A u \in Tasks \ {t} : /\ status'[u] = status[u]
                                /\ assigned'[u] = assigned[u]
                                /\ token'[u] = token[u]
      /\ cur'[n] = t
      /\ \A m \in Nodes \ {n} : cur'[m] = cur[m]
  BY <1>1, <1>2 DEF Inv, TypeOK
<1>6. TypeOK'
  BY <1>1, <1>2, <1>3, <1>4 DEF Inv, TypeOK, Statuses
<1>7. QueuedIsReachable'
  <2>1. SUFFICES ASSUME NEW u \in Tasks, status'[u] = "queued"
                 PROVE  Occurs(u, queue'[QueueFor(u, assigned'[u])])
    BY DEF QueuedIsReachable, QueueFor
  <2>2. QueueFor(u, assigned[u]) \in QueueNames
    BY DEF QueueFor, QueueNames, ConstantsAssumption, Inv, TypeOK
  <2> QED BY <1>2, <1>4, <1>5, <2>1, <2>2 DEF Inv, QueuedIsReachable
<1>8. NoStrayEntry'
  BY <1>2, <1>4, <1>5 DEF Inv, NoStrayEntry, AtMostOnce
<1>9. ActiveIsTracked'
  <2>1. SUFFICES ASSUME NEW u \in Tasks, status'[u] \in Active
                 PROVE  assigned'[u] # NoNode /\ cur'[assigned'[u]] = u
    BY DEF ActiveIsTracked
  <2>2. CASE u = t
    BY <1>5, <2>2 DEF NoNode, Nodes, ConstantsAssumption
  <2>3. CASE u # t
    <3>1. assigned[u] \in Nodes \ {n} /\ cur[assigned[u]] = u
      BY <1>5, <2>1, <2>3, NoClaimHeld
    <3> QED BY <1>5, <2>3, <3>1 DEF NoNode, Nodes, ConstantsAssumption
  <2> QED BY <2>2, <2>3
<1>10. TokensAreLive' /\ TokensIssued'
  <2>1. \A u \in Tasks : token[u] <= issued /\ token[u] \in Nat
    BY DEF Inv, TypeOK, TokensIssued, ConstantsAssumption
  <2>2. TokensIssued'
    BY <1>1, <1>2, <1>3, <1>5, <2>1 DEF TokensIssued
  <2>3. \A u \in Tasks \ {t} : token'[u] # token'[t]
    BY <1>1, <1>3, <1>5, <2>1
  <2>4. token'[t] # 0
    BY <1>3, <1>5
  <2>5. TokensAreLive'
    BY <1>5, <2>3, <2>4 DEF Inv, TokensAreLive, Active
  <2> QED BY <2>2, <2>5
<1>11. JobPhases'
  <2>1. status[t] = "queued"
    BY DEF t
  <2> QED BY <1>1, <1>2, <1>5, <2>1 DEF Inv, JobPhases
<1> QED BY <1>6, <1>7, <1>8, <1>9, <1>10, <1>11 DEF Inv

LEMMA ClaimInv ==
  ASSUME Inv, NEW n \in Nodes, ClaimStep(n)
  PROVE  Inv'
<1>1. n \in known /\ ~Resumes(n)
  BY DEF ClaimStep, DropEntry, Claim, ClaimNothing, CanClaim
<1>2. ASSUME cur' = [cur EXCEPT ![n] = NoTask]
      PROVE  /\ cur' \in [Nodes -> Tasks \cup {NoTask}]
             /\ \A m \in Nodes : cur'[m] = cur[m]
                            \/ (cur[m] \in Tasks => status[cur[m]] \notin Active)
  BY <1>1, <1>2 DEF Inv, TypeOK, Resumes, ConstantsAssumption
<1>3. ASSUME NEW k \in QueueNames, DropEntry(n, k)
      PROVE  Inv'
  <2>1. IsSource(k, n) /\ ~Accepts(n, k, Head(queue[k])) /\ queue' = Pop(k)
    BY <1>3 DEF DropEntry
  <2>2. queue[k] # <<>> /\ status[Head(queue[k])] = "expired"
    BY <2>1, SourceFacts
  <2> QED BY <1>2, <1>3, <2>1, <2>2, DropHead DEF DropEntry, nodeVars, jobVars
<1>4. ASSUME NEW k \in QueueNames, Claim(n, k)
      PROVE  Inv'
  <2>1. IsSource(k, n) /\ Accepts(n, k, Head(queue[k]))
    BY <1>4 DEF Claim
  <2>2. queue[k] # <<>> /\ status[Head(queue[k])] = "queued"
    BY <2>1, SourceFacts
  <2>3. CASE Take(n, k, Head(queue[k]))
    BY <1>1, <2>2, <2>3, TakeInv
  <2>4. CASE /\ Requeue(Head(queue[k]), NoNode, Pop(k))
             /\ cur' = [cur EXCEPT ![n] = NoTask]
             /\ UNCHANGED <<nodeVars, dek, draining, jobVars, issued>>
    BY <1>2, <2>2, <2>4, RequeueHead DEF nodeVars, jobVars
  <2> QED BY <1>4, <2>3, <2>4 DEF Claim
<1>5. CASE ClaimNothing(n)
  <2>1. /\ cur' = [cur EXCEPT ![n] = NoTask]
        /\ UNCHANGED <<known, members, fresh, bad, status, assigned, token, dek,
                       queue, draining, jobStatus, planning, issued>>
    BY <1>5 DEF ClaimNothing, nodeVars, jobVars
  <2>2. TypeOK' /\ JobPhases' /\ TokensAreLive' /\ TokensIssued'
    BY <1>2, <2>1 DEF Inv, TypeOK, JobPhases, TokensAreLive, TokensIssued
  <2>3. QueuedIsReachable' /\ NoStrayEntry'
    BY <2>1 DEF Inv, QueuedIsReachable, NoStrayEntry, AtMostOnce, QueueFor, Occurs
  <2>4. ActiveIsTracked'
    <3>1. SUFFICES ASSUME NEW u \in Tasks, status[u] \in Active
                   PROVE  assigned[u] # NoNode /\ cur'[assigned[u]] = u
      BY <2>1 DEF ActiveIsTracked
    <3>2. assigned[u] \in Nodes \ {n} /\ cur[assigned[u]] = u
      BY <1>1, <3>1, NoClaimHeld
    <3>3. assigned[u] # NoNode
      BY <3>2 DEF NoNode, Nodes, ConstantsAssumption
    <3>4. cur \in [Nodes -> Tasks \cup {NoTask}]
      BY DEF Inv, TypeOK
    <3> QED BY <2>1, <3>2, <3>3, <3>4
  <2> QED BY <2>2, <2>3, <2>4 DEF Inv
<1> QED BY <1>3, <1>4, <1>5 DEF ClaimStep

\* A node presents a token only for the task in progress it points at.
LEMMA Presented ==
  ASSUME Inv, NEW n \in Nodes, NEW t \in Tasks, NEW c \in 1..MaxClaims,
         Presents(n, t, c)
  PROVE  /\ status[t] \in Active
         /\ cur[n] = t
         /\ \A u \in Tasks \ {t} : status[u] \in Active => assigned[u] # n
<1>1. status[t] \in Active
  BY DEF Presents, Inv, TokensAreLive, ConstantsAssumption
<1> QED BY <1>1 DEF Presents, Inv, ActiveIsTracked

LEMMA DownloadInv ==
  ASSUME Inv, NEW n \in Nodes, NEW t \in Tasks, NEW c \in 1..MaxClaims,
         Download(n, t, c)
  PROVE  Inv'
<1>1. status[t] \in Active
  BY Presented DEF Download
<1>2. /\ status' = [status EXCEPT ![t] = "running"]
      /\ UNCHANGED <<known, members, fresh, bad, cur, assigned, token, queue,
                     draining, jobStatus, planning, issued>>
      /\ dek' = [dek EXCEPT ![t] = NoNode]
  BY DEF Download, nodeVars, jobVars
<1>3. /\ status'[t] = "running"
      /\ \A u \in Tasks \ {t} : status'[u] = status[u]
  BY <1>2 DEF Inv, TypeOK
<1>4. TypeOK'
  BY <1>2 DEF Inv, TypeOK, Statuses
<1>5. QueuedIsReachable'
  BY <1>2, <1>3 DEF Inv, QueuedIsReachable, QueueFor
<1>6. NoStrayEntry'
  BY <1>1, <1>2, <1>3 DEF Inv, NoStrayEntry, AtMostOnce, Active
<1>7. ActiveIsTracked' /\ TokensAreLive' /\ TokensIssued'
  BY <1>1, <1>2, <1>3 DEF Inv, ActiveIsTracked, TokensAreLive, TokensIssued,
     Active
<1>8. JobPhases'
  BY <1>1, <1>2, <1>3 DEF Inv, JobPhases, Active
<1> QED BY <1>4, <1>5, <1>6, <1>7, <1>8 DEF Inv

LEMMA SettleInv ==
  ASSUME Inv, NEW n \in Nodes, NEW t \in Tasks, NEW c \in 1..MaxClaims,
         NEW verdict \in Terminal, Settle(n, t, c, verdict)
  PROVE  Inv'
<1>1. /\ status[t] \in Active /\ cur[n] = t /\ assigned[t] = n
      /\ \A u \in Tasks \ {t} : status[u] \in Active => assigned[u] # n
  BY Presented DEF Settle, Presents
<1>2. /\ status' = [status EXCEPT ![t] = verdict]
      /\ token' = [token EXCEPT ![t] = 0]
      /\ cur' = [cur EXCEPT ![n] = NoTask]
      /\ fresh' = fresh \cup {n}
      /\ UNCHANGED <<known, members, bad, assigned, dek, queue, draining,
                     planning, issued>>
  BY DEF Settle
<1>3. /\ status'[t] = verdict /\ token'[t] = 0
      /\ \A u \in Tasks \ {t} : status'[u] = status[u] /\ token'[u] = token[u]
      /\ \A m \in Nodes \ {n} : cur'[m] = cur[m]
  BY <1>2 DEF Inv, TypeOK
<1>4. verdict \notin Active /\ verdict \notin {"queued", "expired", "planned", "absent"}
  BY DEF Terminal, Active
<1>5. JobOf[t] \in Jobs /\ jobStatus[JobOf[t]] # "none"
  BY <1>1 DEF Inv, JobPhases, Active, ConstantsAssumption
<1>6. /\ jobStatus'[JobOf[t]] # "none"
      /\ \A j \in Jobs \ {JobOf[t]} : jobStatus'[j] = jobStatus[j]
      /\ jobStatus' \in [Jobs -> {"none", "queued", "running", "completed", "failed"}]
  <2>1. JobVerdict(JobOf[t], status') \in {"queued", "running", "completed", "failed"}
    BY DEF JobVerdict
  <2>2. jobStatus' = [jobStatus EXCEPT ![JobOf[t]] = JobVerdict(JobOf[t], status')]
    BY DEF Settle
  <2> HIDE DEF JobVerdict
  <2> QED BY <1>5, <2>1, <2>2 DEF Inv, TypeOK
<1>7. TypeOK'
  <2>1. n \in known
    BY DEF Settle, Presents
  <2> QED BY <1>2, <1>6, <2>1 DEF Inv, TypeOK, Statuses, Terminal,
          ConstantsAssumption
<1>8. QueuedIsReachable'
  BY <1>2, <1>3, <1>4 DEF Inv, QueuedIsReachable, QueueFor
<1>9. NoStrayEntry'
  BY <1>1, <1>2, <1>3 DEF Inv, NoStrayEntry, AtMostOnce, Active
<1>10. ActiveIsTracked'
  <2>1. SUFFICES ASSUME NEW u \in Tasks, status'[u] \in Active
                 PROVE  assigned[u] # NoNode /\ cur'[assigned[u]] = u
    BY <1>2 DEF ActiveIsTracked
  <2>2. u # t
    BY <1>3, <1>4, <2>1
  <2>3. assigned[u] \in Nodes \ {n} /\ cur[assigned[u]] = u
    BY <1>1, <1>3, <2>1, <2>2 DEF Inv, ActiveIsTracked, TypeOK
  <2> QED BY <1>3, <2>3 DEF NoNode, Nodes, ConstantsAssumption
<1>11. TokensAreLive'
  <2>1. \A w \in Tasks : IF w = t THEN token'[w] = 0 /\ status'[w] \notin Active
                         ELSE token'[w] = token[w] /\ status'[w] = status[w]
    BY <1>3, <1>4
  <2> QED BY <2>1 DEF Inv, TokensAreLive
<1>12. TokensIssued'
  BY <1>2, <1>3 DEF Inv, TypeOK, TokensIssued, ConstantsAssumption
<1>13. JobPhases'
  BY <1>1, <1>2, <1>3, <1>4, <1>5, <1>6 DEF Inv, TypeOK, JobPhases, Active,
     ConstantsAssumption
<1> QED BY <1>7, <1>8, <1>9, <1>10, <1>11, <1>12, <1>13 DEF Inv

LEMMA RejectInv ==
  ASSUME Inv, NEW n \in Nodes, NEW t \in Tasks, NEW c \in 1..MaxClaims,
         RejectReceipt(n, t, c)
  PROVE  Inv'
<1>1. status[t] \in Active
  BY Presented DEF RejectReceipt
<1>2. /\ queue' \in [QueueNames -> Seq(Tasks)]
      /\ status' \in [Tasks -> Statuses]
      /\ assigned' \in [Tasks -> Nodes \cup {NoNode}]
      /\ token' \in [Tasks -> 0..MaxClaims]
      /\ QueuedIsReachable' /\ NoStrayEntry'
      /\ status'[t] = "queued" /\ token'[t] = 0
      /\ \A u \in Tasks \ {t} : /\ status'[u] = status[u]
                                /\ assigned'[u] = assigned[u]
                                /\ token'[u] = token[u]
  BY <1>1, RequeueActive DEF RejectReceipt
<1>3. /\ UNCHANGED <<known, fresh, cur, dek, draining, jobStatus, planning, issued>>
      /\ members' \subseteq members
      /\ bad' \in [Nodes -> 0..BadReceiptThreshold]
  BY DEF RejectReceipt, jobVars, Inv, TypeOK, ConstantsAssumption
<1>4. TypeOK'
  BY <1>2, <1>3 DEF Inv, TypeOK
<1>5. \A w \in Tasks : IF w = t THEN token'[w] = 0 /\ status'[w] \notin Active
                       ELSE /\ token'[w] = token[w] /\ status'[w] = status[w]
                            /\ assigned'[w] = assigned[w]
  BY <1>2 DEF Active
<1>6. ActiveIsTracked'
  BY <1>3, <1>5 DEF Inv, ActiveIsTracked
<1>7. TokensAreLive'
  BY <1>5 DEF Inv, TokensAreLive
<1>8. TokensIssued'
  <2>1. 0 <= issued /\ \A w \in Tasks : token[w] <= issued
    BY DEF Inv, TypeOK, TokensIssued, ConstantsAssumption
  <2>2. SUFFICES ASSUME NEW w \in Tasks PROVE token'[w] <= issued
    BY <1>3 DEF TokensIssued
  <2> QED BY <1>5, <2>1, <2>2
<1>9. JobPhases'
  <2>1. JobPhases /\ UNCHANGED <<jobStatus, planning>>
    BY <1>3 DEF Inv
  <2>2. status[t] \notin {"absent", "planned"}
    BY <1>1 DEF Active
  <2>3. \A u \in Tasks :
          \/ status'[u] = status[u]
          \/ /\ status[u] \notin {"absent", "planned"}
             /\ status'[u] \notin {"absent", "planned"}
    BY <1>2, <2>2
  <2> QED BY <2>1, <2>3, PhasesKept
<1> QED BY <1>2, <1>4, <1>6, <1>7, <1>8, <1>9 DEF Inv

LEMMA ExpireInv ==
  ASSUME Inv, NEW t \in Tasks, Expire(t)
  PROVE  Inv'
<1>1. /\ status' = [status EXCEPT ![t] = "expired"]
      /\ assigned' = [assigned EXCEPT ![t] = NoNode]
      /\ token' = [token EXCEPT ![t] = 0]
      /\ UNCHANGED <<known, members, fresh, bad, cur, dek, queue, draining,
                     jobStatus, planning, issued>>
      /\ status[t] \notin {"absent", "planned"}
  BY DEF Expire, nodeVars, jobVars
<1>2. \A w \in Tasks : IF w = t THEN token'[w] = 0 /\ status'[w] = "expired"
                       ELSE /\ token'[w] = token[w] /\ status'[w] = status[w]
                            /\ assigned'[w] = assigned[w]
  BY <1>1 DEF Inv, TypeOK
<1>3. TypeOK'
  BY <1>1 DEF Inv, TypeOK, Statuses, ConstantsAssumption
<1>4. QueuedIsReachable'
  BY <1>1, <1>2 DEF Inv, QueuedIsReachable, QueueFor
<1>5. NoStrayEntry'
  BY <1>1, <1>2 DEF Inv, NoStrayEntry, AtMostOnce
<1>6. ActiveIsTracked'
  BY <1>1, <1>2 DEF Inv, ActiveIsTracked, Active
<1>9. TokensAreLive'
  BY <1>2 DEF Inv, TokensAreLive, Active
<1>7. TokensIssued'
  BY <1>1, <1>2 DEF Inv, TypeOK, TokensIssued, ConstantsAssumption
<1>8. JobPhases'
  BY <1>1, <1>2 DEF Inv, JobPhases
<1> QED BY <1>3, <1>4, <1>5, <1>6, <1>9, <1>7, <1>8 DEF Inv

\* The invariant is inductive.
LEMMA NextInv == Inv /\ [Next]_vars => Inv'
<1> SUFFICES ASSUME Inv, [Next]_vars PROVE Inv'
  OBVIOUS
<1>1. CASE \E n \in Nodes : NodeStep(n)
  BY <1>1, NodeInv
<1>2. CASE \E j \in Jobs : JobStep(j)
  BY <1>2, JobInv
<1>3. CASE \E t \in Tasks : CreateTask(t)
  BY <1>3, CreateTaskInv
<1>4. CASE SweepStep
  BY <1>4, RequeueStaleInv, DrainInv DEF SweepStep
<1>5. CASE \E n \in Nodes : ClaimStep(n)
  BY <1>5, ClaimInv
<1>6. CASE \E n \in Nodes, t \in Tasks, c \in 1..MaxClaims : WorkStep(n, t, c)
  <2>1. PICK n \in Nodes, t \in Tasks, c \in 1..MaxClaims : WorkStep(n, t, c)
    BY <1>6
  <2>2. CASE Download(n, t, c)
    BY <2>2, DownloadInv
  <2>3. CASE Complete(n, t, c) \/ Fail(n, t, c)
    BY <2>3, SettleInv DEF Complete, Fail, Terminal
  <2>4. CASE RejectReceipt(n, t, c)
    BY <2>4, RejectInv
  <2> QED BY <2>1, <2>2, <2>3, <2>4 DEF WorkStep
<1>7. CASE \E t \in Tasks : Expire(t)
  BY <1>7, ExpireInv
<1>8. CASE UNCHANGED vars
  BY <1>8 DEF vars, Inv, TypeOK, QueuedIsReachable, NoStrayEntry, AtMostOnce,
     Occurs, QueueFor, ActiveIsTracked, TokensAreLive, TokensIssued, JobPhases
<1> QED BY <1>1, <1>2, <1>3, <1>4, <1>5, <1>6, <1>7, <1>8 DEF Next

THEOREM Invariance == Spec => []Inv
<1> QED BY InitInv, NextInv, PTL DEF Spec

----------------------------------------------------------------------------
(* The results *)

\* Every reachable state of the task queue is well typed.
THEOREM TypeCorrect == Spec => []TypeOK
<1>1. Inv => TypeOK
  BY DEF Inv
<1> QED BY <1>1, Invariance, PTL

\* However nodes die, return, cheat or race, no queued task leaves the queue
\* that its record names.
THEOREM QueuedTasksReachable == Spec => []QueuedIsReachable
<1>1. Inv => QueuedIsReachable
  BY DEF Inv
<1> QED BY <1>1, Invariance, PTL

\* No task has two queue entries, nor one while it is being worked on: the
\* claim path, which does not test the status, never hands out work twice.
THEOREM EntriesUnique == Spec => []NoStrayEntry
<1>1. Inv => NoStrayEntry
  BY DEF Inv
<1> QED BY <1>1, Invariance, PTL

\* All work in progress is where failover looks for it.
THEOREM WorkTracked == Spec => []ActiveIsTracked
<1>1. Inv => ActiveIsTracked
  BY DEF Inv
<1> QED BY <1>1, Invariance, PTL

\* Claim tokens are unique and die with the claim they were issued for.
THEOREM TokensLive == Spec => []TokensAreLive
<1>1. Inv => TokensAreLive
  BY DEF Inv
<1> QED BY <1>1, Invariance, PTL

----------------------------------------------------------------------------
(* Verdicts *)

Settled == Terminal \cup {"expired"}

\* A step changes the status of a settled task only by letting its key expire:
\* whatever is requeued is in progress or queued, and what is claimed is queued.
LEMMA StatusMoves ==
  ASSUME Inv, [Next]_vars, NEW t \in Tasks, status[t] \in Settled
  PROVE  status'[t] \in {status[t], "expired"}
<1> USE DEF Settled, Terminal, Active
<1>1. CASE \E n \in Nodes : NodeStep(n)
  BY <1>1 DEF NodeStep, Register, Heartbeat, GoStale
<1>2. CASE \E j \in Jobs : JobStep(j)
  <2>1. PICK j \in Jobs : JobStep(j)
    BY <1>2
  <2>2. CASE Start(j)
    <3>1. t \notin TasksOf(j)
      BY <2>2 DEF Start, TasksOf, Inv, JobPhases
    <3> QED BY <2>2, <3>1 DEF Start
  <2> QED BY <2>1, <2>2 DEF JobStep, FinishStart, PollJob
<1>3. CASE \E u \in Tasks : CreateTask(u)
  BY <1>3 DEF CreateTask, Inv, TypeOK
<1>4. CASE SweepStep
  <2>1. ASSUME NEW n \in Nodes, RequeueStale(n)
        PROVE  status'[t] = status[t]
    <3>1. cur[n] \in Tasks
      BY <2>1 DEF RequeueStale, Holds, Inv, TypeOK
    <3> QED BY <2>1, <3>1 DEF RequeueStale, Requeue, Inv, TypeOK
  <2>2. CASE DrainOne
    <3>1. Head(queue[draining]) \in Tasks
      BY <2>2, HeadOfQueue DEF DrainOne, Inv, TypeOK, QueueNames
    <3> QED BY <2>2, <3>1 DEF DrainOne, Requeue, Inv, TypeOK
  <2> QED BY <1>4, <2>1, <2>2 DEF SweepStep, BeginDrain, EndDrain
<1>5. CASE \E n \in Nodes : ClaimStep(n)
  <2>1. PICK n \in Nodes : ClaimStep(n)
    BY <1>5
  <2>2. ASSUME NEW k \in QueueNames, Claim(n, k)
        PROVE  status'[t] = status[t]
    <3>1. IsSource(k, n) /\ Accepts(n, k, Head(queue[k]))
      BY <2>2 DEF Claim
    <3>2. /\ Head(queue[k]) \in Tasks
          /\ status[Head(queue[k])] = "queued"
      BY <3>1, SourceFacts, HeadOfQueue
    <3> QED BY <2>2, <3>2 DEF Claim, Take, Requeue, Inv, TypeOK
  <2> QED BY <2>1, <2>2 DEF ClaimStep, DropEntry, ClaimNothing
<1>6. CASE \E n \in Nodes, u \in Tasks, c \in 1..MaxClaims : WorkStep(n, u, c)
  <2>1. PICK n \in Nodes, u \in Tasks, c \in 1..MaxClaims : WorkStep(n, u, c)
    BY <1>6
  <2>2. status[u] \in Active
    BY <2>1, Presented DEF WorkStep, Download, Complete, Fail, Settle,
       RejectReceipt
  <2> QED BY <2>1, <2>2 DEF WorkStep, Download, Complete, Fail, Settle,
          RejectReceipt, Requeue, Inv, TypeOK
<1>7. CASE \E u \in Tasks : Expire(u)
  BY <1>7 DEF Expire, Inv, TypeOK
<1>8. CASE UNCHANGED vars
  BY <1>8 DEF vars
<1> QED BY <1>1, <1>2, <1>3, <1>4, <1>5, <1>6, <1>7, <1>8 DEF Next

\* The status of a job is left alone, opened, or computed from its tasks.
LEMMA JobMoves ==
  ASSUME Inv, [Next]_vars, NEW j \in Jobs
  PROVE  \/ jobStatus'[j] = jobStatus[j] /\ (j \in planning' <=> j \in planning)
         \/ jobStatus'[j] = "queued"
         \/ jobStatus'[j] = JobVerdict(j, status')
<1>1. CASE \E i \in Jobs : JobStep(i)
  BY <1>1 DEF JobStep, Start, FinishStart, PollJob, Inv, TypeOK
<1>2. CASE \E n \in Nodes, u \in Tasks, c \in 1..MaxClaims : WorkStep(n, u, c)
  BY <1>2 DEF WorkStep, Download, Complete, Fail, Settle, RejectReceipt,
     Inv, TypeOK, jobVars
<1>3. CASE \/ \E n \in Nodes : NodeStep(n) \/ ClaimStep(n)
           \/ \E t \in Tasks : CreateTask(t) \/ Expire(t)
           \/ SweepStep
           \/ UNCHANGED vars
  BY <1>3 DEF NodeStep, Register, Heartbeat, GoStale, ClaimStep, DropEntry,
     Claim, Take, ClaimNothing, CreateTask, Expire, SweepStep, RequeueStale,
     BeginDrain, DrainOne, EndDrain, vars, jobVars
<1> QED BY <1>1, <1>2, <1>3 DEF Next

LEMMA VerdictInv == Inv /\ JobVerdictIsFinal /\ [Next]_vars => JobVerdictIsFinal'
<1> SUFFICES ASSUME Inv, JobVerdictIsFinal, [Next]_vars,
                    NEW j \in Jobs, jobStatus'[j] \in Terminal, j \notin planning',
                    NEW t \in TasksOf(j)
             PROVE  status'[t] \in Terminal \cup {"expired"}
  BY DEF JobVerdictIsFinal
<1>1. t \in Tasks /\ JobOf[t] = j
  BY DEF TasksOf
<1>2. CASE jobStatus'[j] = jobStatus[j] /\ j \notin planning
  <2>1. status[t] \in Settled
    BY <1>2 DEF JobVerdictIsFinal, Settled
  <2> QED BY <1>1, <2>1, StatusMoves DEF Settled
<1>3. CASE jobStatus'[j] = JobVerdict(j, status')
  <2>1. status'[t] \notin {"absent", "planned"}
    <3>1. JobPhases'
      BY NextInv DEF Inv
    <3> QED BY <1>1, <3>1 DEF JobPhases, Terminal
  <2> QED BY <1>3, <2>1 DEF JobVerdict, Terminal
<1> QED BY <1>2, <1>3, JobMoves DEF Terminal

\* A job that reads completed or failed, once its start request has answered,
\* has nothing left to run, for any interleaving of polls, results and failover.
THEOREM JobVerdictsFinal == Spec => []JobVerdictIsFinal
<1>1. Init => JobVerdictIsFinal
  BY DEF Init, JobVerdictIsFinal, Terminal
<1> QED BY <1>1, InitInv, NextInv, VerdictInv, PTL DEF Spec

\* A recorded verdict is never undone or overwritten.
THEOREM VerdictsKept == Spec => VerdictIsKept
<1>1. Inv /\ [Next]_vars =>
        [\A t \in Tasks :
           status[t] \in Terminal => status'[t] \in {status[t], "expired"}]_vars
  BY StatusMoves DEF Settled
<1> QED BY <1>1, Invariance, PTL DEF VerdictIsKept, Spec

----------------------------------------------------------------------------
(* Placement *)

\* A failover destination runs the task's runtime.
LEMMA DestinationSupports ==
  ASSUME NEW n, NEW r, NEW d \in Nodes \cup {NoNode}, IsDestination(d, n, r),
         d # NoNode
  PROVE  Supports(d, r)
BY DEF IsDestination, Healthy

LEMMA PlacementInv ==
  Inv /\ PlacedWhereRunnable /\ [Next]_vars => PlacedWhereRunnable'
<1> SUFFICES ASSUME Inv, PlacedWhereRunnable, [Next]_vars,
                    NEW t \in Tasks, assigned'[t] # NoNode
             PROVE  Supports(assigned'[t], RuntimeOf[t])
  BY DEF PlacedWhereRunnable, Supports
<1> USE DEF PlacedWhereRunnable
<1>1. CASE \E n \in Nodes : NodeStep(n)
  BY <1>1 DEF NodeStep, Register, Heartbeat, GoStale
<1>2. CASE \E j \in Jobs : JobStep(j)
  <2>1. PICK j \in Jobs : JobStep(j)
    BY <1>2
  <2>2. CASE Start(j)
    <3>1. PICK r \in Runtimes, plan \in [TasksOf(j) -> Nodes] :
            /\ \A u \in TasksOf(j) : RuntimeOf[u] = r /\ plan[u] \in Healthy(r)
            /\ assigned' = [u \in Tasks |-> IF u \in TasksOf(j) THEN plan[u]
                                                                ELSE assigned[u]]
      BY <2>2 DEF Start
    <3>2. CASE t \in TasksOf(j)
      <4>1. assigned'[t] = plan[t]
        BY <3>1, <3>2
      <4> QED BY <3>1, <3>2, <4>1 DEF Healthy
    <3>3. CASE t \notin TasksOf(j)
      BY <3>1, <3>3
    <3> QED BY <3>2, <3>3
  <2> QED BY <2>1, <2>2 DEF JobStep, FinishStart, PollJob
<1>3. CASE \E u \in Tasks : CreateTask(u)
  BY <1>3 DEF CreateTask
<1>4. CASE SweepStep
  <2>1. ASSUME NEW n \in Nodes, RequeueStale(n)
        PROVE  Supports(assigned'[t], RuntimeOf[t])
    <3>1. cur[n] \in Tasks
      BY <2>1 DEF RequeueStale, Holds, Inv, TypeOK
    <3>2. CASE status[cur[n]] \in Active
      <4>1. PICK d \in Nodes \cup {NoNode} :
              /\ IsDestination(d, n, RuntimeOf[cur[n]])
              /\ assigned' = [assigned EXCEPT ![cur[n]] = d]
        BY <2>1, <3>2 DEF RequeueStale, Requeue
      <4>2. d # NoNode => Supports(d, RuntimeOf[cur[n]])
        BY <4>1, DestinationSupports
      <4> QED BY <3>1, <4>1, <4>2 DEF Inv, TypeOK
    <3>3. CASE status[cur[n]] \notin Active
      BY <2>1, <3>3 DEF RequeueStale
    <3> QED BY <3>2, <3>3
  <2>2. CASE DrainOne
    <3>1. Head(queue[draining]) \in Tasks
      BY <2>2, HeadOfQueue DEF DrainOne, Inv, TypeOK, QueueNames
    <3> QED BY <2>2, <3>1, DestinationSupports
            DEF DrainOne, Requeue, Inv, TypeOK
  <2> QED BY <1>4, <2>1, <2>2 DEF SweepStep, BeginDrain, EndDrain
<1>5. CASE \E n \in Nodes : ClaimStep(n)
  <2>1. PICK n \in Nodes : ClaimStep(n)
    BY <1>5
  <2>2. ASSUME NEW k \in QueueNames, Claim(n, k)
        PROVE  Supports(assigned'[t], RuntimeOf[t])
    BY <2>2 DEF Claim, Take, Requeue, Inv, TypeOK
  <2> QED BY <2>1, <2>2 DEF ClaimStep, DropEntry, ClaimNothing
<1>6. CASE \E n \in Nodes, u \in Tasks, c \in 1..MaxClaims : WorkStep(n, u, c)
  <2>1. PICK n \in Nodes, u \in Tasks, c \in 1..MaxClaims : WorkStep(n, u, c)
    BY <1>6
  <2>2. assigned' = assigned \/ assigned' = [assigned EXCEPT ![u] = NoNode]
    <3>1. CASE Download(n, u, c)
      BY <3>1 DEF Download
    <3>2. CASE \E verdict \in Terminal : Settle(n, u, c, verdict)
      BY <3>2 DEF Settle
    <3>3. CASE RejectReceipt(n, u, c)
      BY <3>3 DEF RejectReceipt, Requeue
    <3> QED BY <2>1, <3>1, <3>2, <3>3 DEF WorkStep, Complete, Fail, Terminal
  <2>3. assigned \in [Tasks -> Nodes \cup {NoNode}]
    BY DEF Inv, TypeOK
  <2> QED BY <2>2, <2>3
<1>7. CASE \E u \in Tasks : Expire(u)
  BY <1>7 DEF Expire, Inv, TypeOK
<1>8. CASE UNCHANGED vars
  BY <1>8 DEF vars
<1> QED BY <1>1, <1>2, <1>3, <1>4, <1>5, <1>6, <1>7, <1>8 DEF Next

\* Planning, claiming and failover only ever place a task on a node that can
\* run it, so the put-back branch of claim_task_for_node is never taken.
THEOREM PlacedRunnable == Spec => []PlacedWhereRunnable
<1>1. Init => PlacedWhereRunnable
  BY DEF Init, PlacedWhereRunnable
<1> QED BY <1>1, InitInv, NextInv, PlacementInv, PTL DEF Spec

----------------------------------------------------------------------------
(* TaskQueue implements TaskLifecycle *)

\* A step that moves one task only, seen from TaskLifecycle.
LEMMA OneTaskMoves ==
  ASSUME NEW t \in Tasks,
         \A u \in Tasks \ {t} : status'[u] = status[u] /\ assigned'[u] = assigned[u]
  PROVE  /\ phaseOfTask' = [phaseOfTask EXCEPT ![t] = PhaseOf(status'[t])]
         /\ holderOfTask' = [holderOfTask EXCEPT ![t] =
              IF status'[t] \in Active \cup Terminal THEN assigned'[t] ELSE NoNode]
         /\ phaseOfTask[t] = PhaseOf(status[t])
         /\ holderOfTask[t] = IF status[t] \in Active \cup Terminal
                              THEN assigned[t] ELSE NoNode
<1> QED BY DEF phaseOfTask, holderOfTask

\* Steps that move no task, or between statuses TaskLifecycle does not tell apart.
LEMMA Stutters ==
  ASSUME \A u \in Tasks :
           /\ PhaseOf(status'[u]) = PhaseOf(status[u])
           /\ \/ status'[u] = status[u] /\ assigned'[u] = assigned[u]
              \/ /\ status[u] \notin Active \cup Terminal
                 /\ status'[u] \notin Active \cup Terminal
              \/ /\ status[u] \in Active /\ status'[u] \in Active
                 /\ assigned'[u] = assigned[u]
  PROVE  UNCHANGED <<phaseOfTask, holderOfTask>>
<1> QED BY DEF phaseOfTask, holderOfTask

\* Taking a task in progress back.
LEMMA Returns ==
  ASSUME NEW t \in Tasks, NEW d, status[t] \in Active,
         status' = [status EXCEPT ![t] = "queued"],
         assigned' = [assigned EXCEPT ![t] = d], Inv
  PROVE  Promise!Return(t)
<1>1. /\ status'[t] = "queued"
      /\ \A u \in Tasks \ {t} : status'[u] = status[u] /\ assigned'[u] = assigned[u]
  BY DEF Inv, TypeOK
<1>2. /\ PhaseOf(status[t]) = "held" /\ PhaseOf(status'[t]) = "waiting"
      /\ status'[t] \notin Active \cup Terminal
  BY <1>1 DEF PhaseOf, Active, Terminal
<1> QED BY <1>1, <1>2, OneTaskMoves DEF Promise!Return

\* Giving a task that waits to a node.
LEMMA Grants ==
  ASSUME NEW t \in Tasks, NEW n \in Nodes, status[t] = "queued",
         status' = [status EXCEPT ![t] = "claimed"],
         assigned' = [assigned EXCEPT ![t] = n], Inv
  PROVE  Promise!Grant(t, n)
<1>1. /\ status'[t] = "claimed" /\ assigned'[t] = n
      /\ \A u \in Tasks \ {t} : status'[u] = status[u] /\ assigned'[u] = assigned[u]
  BY DEF Inv, TypeOK
<1>2. /\ PhaseOf(status[t]) = "waiting" /\ PhaseOf(status'[t]) = "held"
      /\ status'[t] \in Active \cup Terminal
  BY <1>1 DEF PhaseOf, Active, Terminal
<1> QED BY <1>1, <1>2, OneTaskMoves DEF Promise!Grant

\* Recording the verdict on a task in progress.
LEMMA Concludes ==
  ASSUME NEW t \in Tasks, NEW verdict \in Terminal, status[t] \in Active,
         status' = [status EXCEPT ![t] = verdict], UNCHANGED assigned, Inv
  PROVE  Promise!Conclude(t, verdict)
<1>1. /\ status'[t] = verdict
      /\ \A u \in Tasks \ {t} : status'[u] = status[u] /\ assigned'[u] = assigned[u]
  BY DEF Inv, TypeOK
<1>2. /\ PhaseOf(status[t]) = "held" /\ PhaseOf(status'[t]) = verdict
      /\ status[t] \in Active \cup Terminal /\ status'[t] \in Active \cup Terminal
  BY <1>1 DEF PhaseOf, Active, Terminal
<1>3. holderOfTask' = holderOfTask
  BY <1>1, <1>2 DEF holderOfTask
<1> QED BY <1>1, <1>2, <1>3, OneTaskMoves DEF Promise!Conclude

LEMMA StepImplemented ==
  ASSUME Inv, Inv', [Next]_vars
  PROVE  [Promise!Next]_<<phaseOfTask, holderOfTask>>
<1> DEFINE Quiet == UNCHANGED <<phaseOfTask, holderOfTask>>
<1>1. ASSUME UNCHANGED <<status, assigned>> PROVE Quiet
  BY <1>1 DEF phaseOfTask, holderOfTask
<1>2. CASE \E n \in Nodes : NodeStep(n)
  BY <1>1, <1>2 DEF NodeStep, Register, Heartbeat, GoStale
<1>3. CASE \E j \in Jobs : JobStep(j)
  <2>1. PICK j \in Jobs : JobStep(j)
    BY <1>3
  <2>2. CASE FinishStart(j) \/ PollJob(j)
    BY <1>1, <2>2 DEF FinishStart, PollJob
  <2>3. CASE Start(j)
    <3>1. \A t \in TasksOf(j) : status[t] = "absent"
      BY <2>3 DEF Start, TasksOf, Inv, JobPhases
    <3>2. PICK plan \in [TasksOf(j) -> Nodes] :
            assigned' = [u \in Tasks |-> IF u \in TasksOf(j) THEN plan[u]
                                                             ELSE assigned[u]]
      BY <2>3 DEF Start
    <3>3. ASSUME NEW u \in Tasks
          PROVE  \/ status'[u] = status[u] /\ assigned'[u] = assigned[u]
                 \/ status[u] = "absent" /\ status'[u] = "planned"
      BY <2>3, <3>1, <3>2 DEF Start
    <3>4. Quiet
      BY <3>3, Stutters DEF PhaseOf, Active, Terminal
    <3> QED BY <3>4
  <2> QED BY <2>1, <2>2, <2>3 DEF JobStep
<1>4. CASE \E t \in Tasks : CreateTask(t)
  <2>1. PICK t \in Tasks : CreateTask(t)
    BY <1>4
  <2>2. /\ status[t] = "planned" /\ status'[t] = "queued"
        /\ \A u \in Tasks \ {t} : status'[u] = status[u] /\ assigned'[u] = assigned[u]
    BY <2>1 DEF CreateTask, Inv, TypeOK
  <2>3. Promise!Offer(t)
    <3>1. /\ PhaseOf(status[t]) = "new" /\ PhaseOf(status'[t]) = "waiting"
      BY <2>2 DEF PhaseOf, Active
    <3>2. UNCHANGED holderOfTask
      BY <2>2 DEF holderOfTask, Active, Terminal
    <3> QED BY <2>2, <3>1, <3>2, OneTaskMoves DEF Promise!Offer
  <2> QED BY <2>3 DEF Promise!Next
<1>5. CASE SweepStep
  <2>1. ASSUME NEW n \in Nodes, RequeueStale(n)
        PROVE  Quiet \/ \E t \in Tasks : Promise!Return(t)
    <3>1. cur[n] \in Tasks
      BY <2>1 DEF RequeueStale, Holds, Inv, TypeOK
    <3>2. CASE status[cur[n]] \in Active
      BY <2>1, <3>1, <3>2, Returns DEF RequeueStale, Requeue
    <3>3. CASE status[cur[n]] \notin Active
      BY <1>1, <2>1, <3>3 DEF RequeueStale
    <3> QED BY <3>2, <3>3
  <2>2. CASE DrainOne
    <3> DEFINE t == Head(queue[draining])
    <3>1. t \in Tasks /\ status[t] \in {"queued", "expired"}
      BY <2>2, HeadOfQueue DEF DrainOne, Inv, TypeOK, QueueNames
    <3>2. CASE status[t] = "queued"
      <4>1. PICK d \in Nodes \cup {NoNode} : Requeue(t, d, Pop(draining))
        BY <2>2, <3>2 DEF DrainOne
      <4> HIDE DEF t
      <4>2. \A u \in Tasks : /\ status'[u] = status[u]
                             /\ u # t => assigned'[u] = assigned[u]
        BY <3>1, <3>2, <4>1 DEF Requeue, Inv, TypeOK
      <4>3. Quiet
        BY <3>2, <4>2, Stutters DEF Active, Terminal
      <4> QED BY <4>3
    <3>3. CASE status[t] = "expired"
      BY <1>1, <2>2, <3>3 DEF DrainOne, Active
    <3> QED BY <3>1, <3>2, <3>3
  <2>3. CASE EndDrain \/ \E n \in Nodes : BeginDrain(n)
    BY <1>1, <2>3 DEF EndDrain, BeginDrain
  <2> QED BY <1>5, <2>1, <2>2, <2>3 DEF SweepStep, Promise!Next
<1>6. CASE \E n \in Nodes : ClaimStep(n)
  <2>1. PICK n \in Nodes : ClaimStep(n)
    BY <1>6
  <2>2. ASSUME NEW k \in QueueNames, Claim(n, k)
        PROVE  Quiet \/ \E t \in Tasks : Promise!Grant(t, n)
    <3> DEFINE t == Head(queue[k])
    <3>1. t \in Tasks /\ status[t] = "queued"
      <4>1. IsSource(k, n) /\ Accepts(n, k, t)
        BY <2>2 DEF Claim
      <4> QED BY <4>1, SourceFacts, HeadOfQueue
    <3>2. CASE Take(n, k, t)
      <4> HIDE DEF t
      <4> QED BY <3>1, <3>2, Grants DEF Take
    <3>3. CASE Requeue(t, NoNode, Pop(k))
      <4> HIDE DEF t
      <4>1. \A u \in Tasks : /\ status'[u] = status[u]
                             /\ u # t => assigned'[u] = assigned[u]
        BY <3>1, <3>3 DEF Requeue, Inv, TypeOK
      <4> QED BY <3>1, <4>1, Stutters DEF Active, Terminal
    <3> QED BY <2>2, <3>2, <3>3 DEF Claim
  <2> QED BY <1>1, <2>1, <2>2 DEF ClaimStep, DropEntry, ClaimNothing, Promise!Next
<1>7. CASE \E n \in Nodes, t \in Tasks, c \in 1..MaxClaims : WorkStep(n, t, c)
  <2>1. PICK n \in Nodes, t \in Tasks, c \in 1..MaxClaims : WorkStep(n, t, c)
    BY <1>7
  <2>2. status[t] \in Active
    BY <2>1, Presented DEF WorkStep, Download, Complete, Fail, Settle,
       RejectReceipt
  <2>3. CASE Download(n, t, c)
    <3>1. /\ status'[t] = "running" /\ UNCHANGED assigned
          /\ \A u \in Tasks \ {t} : status'[u] = status[u]
      BY <2>3 DEF Download, Inv, TypeOK
    <3>2. Quiet
      BY <2>2, <3>1, Stutters DEF PhaseOf, Active
    <3> QED BY <3>2
  <2>4. CASE Complete(n, t, c) \/ Fail(n, t, c)
    <3>1. \E verdict \in {"completed", "failed"} : Promise!Conclude(t, verdict)
      BY <2>2, <2>4, Concludes DEF Complete, Fail, Settle, Terminal
    <3> QED BY <3>1 DEF Promise!Next
  <2>5. CASE RejectReceipt(n, t, c)
    <3>1. Promise!Return(t)
      BY <2>2, <2>5, Returns DEF RejectReceipt, Requeue
    <3> QED BY <3>1 DEF Promise!Next
  <2> QED BY <2>1, <2>3, <2>4, <2>5 DEF WorkStep
<1>8. CASE \E t \in Tasks : Expire(t)
  <2>1. PICK t \in Tasks : Expire(t)
    BY <1>8
  <2>2. /\ status'[t] = "expired" /\ assigned'[t] = NoNode
        /\ status[t] \notin {"absent", "planned", "expired"}
        /\ status[t] \in Statuses
        /\ \A u \in Tasks \ {t} : status'[u] = status[u] /\ assigned'[u] = assigned[u]
    BY <2>1 DEF Expire, Inv, TypeOK
  <2>3. Promise!Forget(t)
    BY <2>2, OneTaskMoves DEF Promise!Forget, PhaseOf, Active, Terminal, Statuses
  <2> QED BY <2>3 DEF Promise!Next
<1>9. CASE UNCHANGED vars
  BY <1>1, <1>9 DEF vars
<1> QED BY <1>2, <1>3, <1>4, <1>5, <1>6, <1>7, <1>8, <1>9 DEF Next

\* The task queue hands each task to one node at a time and records one
\* verdict for it: it implements TaskLifecycle.
THEOREM QueueKeepsPromise == Spec => PromiseSpec
<1>1. Init => Promise!Init
  BY DEF Init, Promise!Init, phaseOfTask, holderOfTask, PhaseOf, Active, Terminal
<1>2. Inv /\ Inv' /\ [Next]_vars => [Promise!Next]_<<phaseOfTask, holderOfTask>>
  BY StepImplemented
<1> QED BY <1>1, <1>2, Invariance, PTL DEF Spec, PromiseSpec, Promise!Spec
============================================================================
