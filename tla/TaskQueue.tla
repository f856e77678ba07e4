----------------------------- MODULE TaskQueue -----------------------------
(***************************************************************************)
(* The task queue of the coordination server: what                         *)
(* server/app/utils/task_queue.py keeps in Redis and how the handlers of   *)
(* blueprints/nodes.py and blueprints/start.py and the failover sweeper    *)
(* change it.                                                              *)
(*                                                                         *)
(* Grain of atomicity.  A handler is one step, except that every turn of   *)
(* its loops is a step of its own.  A loop that runs first in a handler    *)
(* shows as a guard of what follows it: the part after requeue_stale_tasks *)
(* is enabled only once that loop has nothing left to requeue.             *)
(*                                                                         *)
(* Time.  fresh is the set of nodes whose last_seen is less than           *)
(* NODE_STALE_SECONDS old; any silence may last that long (GoStale).       *)
(*                                                                         *)
(* Nodes are numbered in the sorted order of their ids, which is the order *)
(* every loop over the "nodes" set visits them in.                         *)
(***************************************************************************)
EXTENDS Integers, FiniteSets, Sequences

CONSTANTS
  NumNodes,      \* how many nodes there are
  Jobs, Tasks,
  JobOf,         \* the job of each task
  RuntimeOf,     \* the runtime of each task
  Wasm, Cloudpickle,
  WasmNodes,     \* nodes that register with supports_wasm
  KeyNodes,      \* nodes that register with an RSA public key
  MayExpire,     \* tasks whose keys may reach their TTL
  NoTask,
  BadReceiptThreshold,
  MaxClaims      \* bound: how many claims a behaviour may contain

Nodes == 1..NumNodes
NoNode == 0
Runtimes == {Wasm, Cloudpickle}

ASSUME ConstantsAssumption ==
  /\ NumNodes \in Nat
  /\ JobOf \in [Tasks -> Jobs]
  /\ RuntimeOf \in [Tasks -> Runtimes]
  /\ Wasm # Cloudpickle
  /\ Runtimes \cap (Nodes \cup {NoNode}) = {}
  /\ NoTask \notin Tasks
  /\ WasmNodes \subseteq Nodes
  /\ KeyNodes \subseteq Nodes
  /\ BadReceiptThreshold \in Nat \ {0}
  /\ MaxClaims \in Nat

VARIABLES
  known,     \* nodes with a node:{id} hash
  members,   \* the "nodes" set
  fresh,     \* nodes heard of less than NODE_STALE_SECONDS ago
  cur,       \* the current_task of each node
  bad,       \* the bad receipts of each node, counted up to the threshold
  status,    \* "absent", "planned" (chosen by a start request, no key yet),
             \* "queued", "claimed", "running", "completed", "failed", "expired"
  assigned,  \* the assigned_node of each task
  token,     \* claim_token (and download_token, always set with it); 0 is ""
  dek,       \* the node a stored TaskEncryptionKey row is wrapped for
  queue,     \* node:{id}:queue and tasks:unassigned[:wasm]
  draining,  \* the dead node whose queue the sweeper is emptying
  jobStatus, \* the status field of each job; "none" before create_job
  planning,  \* jobs whose start request is creating tasks
  issued     \* how many claims have been made: the source of fresh tokens

vars == <<known, members, fresh, cur, bad, status, assigned, token, dek,
          queue, draining, jobStatus, planning, issued>>
nodeVars == <<known, members, fresh, bad>>
jobVars  == <<jobStatus, planning>>

QueueNames == Nodes \cup Runtimes
Statuses == {"absent", "planned", "queued", "claimed", "running",
             "completed", "failed", "expired"}
Active   == {"claimed", "running"}
Terminal == {"completed", "failed"}
TasksOf(j) == {t \in Tasks : JobOf[t] = j}

----------------------------------------------------------------------------
(* Helpers of task_queue.py *)

Supports(n, r) == r = Cloudpickle \/ n \in WasmNodes

\* Faulty: counts nodes that cannot run r.
HealthyAnyRuntime(r) == members \cap fresh

Healthy(r) == {n \in members \cap fresh : Supports(n, r)}

\* Faulty: the first node of the set, dead or alive.
IsFirstMember(d, n, r) ==
  IF members = {} THEN d = NoNode ELSE d \in members /\ \A m \in members : d <= m

\* The first healthy node other than n, or none.
IsDestination(d, n, r) ==
  LET others == Healthy(r) \ {n}
  IN  IF others = {} THEN d = NoNode
      ELSE d \in others /\ \A m \in others : d <= m

QueueFor(t, n) == IF n = NoNode THEN RuntimeOf[t] ELSE n

\* Faulty: an assigned task joins the unassigned queue ...
RequeueUnassigned(t, n, q) ==
  /\ status' = [status EXCEPT ![t] = "queued"]
  /\ assigned' = [assigned EXCEPT ![t] = n]
  /\ token' = [token EXCEPT ![t] = 0]
  /\ queue' = [q EXCEPT ![RuntimeOf[t]] = Append(@, t)]

\* ... or keeps the tokens of its last claim.
RequeueWithToken(t, n, q) ==
  /\ status' = [status EXCEPT ![t] = "queued"]
  /\ assigned' = [assigned EXCEPT ![t] = n]
  /\ queue' = [q EXCEPT ![QueueFor(t, n)] = Append(@, t)]
  /\ UNCHANGED token

\* Put t back: the queue it joins is read off q, the queues after any pop.
Requeue(t, n, q) ==
  /\ status' = [status EXCEPT ![t] = "queued"]
  /\ assigned' = [assigned EXCEPT ![t] = n]
  /\ token' = [token EXCEPT ![t] = 0]
  /\ queue' = [q EXCEPT ![QueueFor(t, n)] = Append(@, t)]

Pop(k) == [queue EXCEPT ![k] = Tail(@)]

\* A dead node that still points at a task: work for requeue_stale_tasks.
Holds(n) == n \in members \ fresh /\ cur[n] # NoTask
StaleWork == \E n \in Nodes : Holds(n)

JobVerdict(j, st) ==
  LET listed == {t \in TasksOf(j) : st[t] \notin {"absent", "planned"}}
      done   == listed # {} /\ \A t \in listed : st[t] \in Terminal
  IN  IF done
      THEN IF \E t \in listed : st[t] = "failed" THEN "failed" ELSE "completed"
      ELSE IF \E t \in listed : st[t] \in Active THEN "running" ELSE "queued"

----------------------------------------------------------------------------
(* Nodes come and go *)

Register(n) ==
  /\ n \notin known
  /\ known' = known \cup {n}
  /\ members' = members \cup {n}
  /\ fresh' = fresh \cup {n}
  /\ UNCHANGED <<cur, bad, status, assigned, token, dek, queue, draining,
                 jobVars, issued>>

\* Faulty: does not require a registered node.
HeartbeatFromAnyone(n) ==
  /\ fresh' = fresh \cup {n}
  /\ members' = members \cup {n}
  /\ UNCHANGED <<known, cur, bad, status, assigned, token, dek, queue,
                 draining, jobVars, issued>>

\* A heartbeat; it puts back a node that was taken out of the "nodes" set.
Heartbeat(n) ==
  /\ n \in known
  /\ fresh' = fresh \cup {n}
  /\ members' = members \cup {n}
  /\ UNCHANGED <<known, cur, bad, status, assigned, token, dek, queue,
                 draining, jobVars, issued>>

GoStale(n) ==
  /\ n \in fresh
  /\ fresh' = fresh \ {n}
  /\ UNCHANGED <<known, members, cur, bad, status, assigned, token, dek,
                 queue, draining, jobVars, issued>>

----------------------------------------------------------------------------
(* A start request: plan on the healthy nodes, then create task by task *)

\* Each task goes to the node with the shortest queue, counting this plan.
LeastLoaded(plan, j, nodes) ==
  LET load(n) == Len(queue[n]) + Cardinality({t \in TasksOf(j) : plan[t] = n})
  IN  \A t \in TasksOf(j), m \in nodes : load(plan[t]) - 1 <= load(m)

Start(j) ==
  /\ jobStatus[j] = "none"
  /\ TasksOf(j) # {}
  /\ ~StaleWork
  /\ \E r \in Runtimes, plan \in [TasksOf(j) -> Nodes] :
       /\ \A t \in TasksOf(j) : RuntimeOf[t] = r /\ plan[t] \in Healthy(r)
       /\ LeastLoaded(plan, j, Healthy(r))
       /\ assigned' = [t \in Tasks |-> IF t \in TasksOf(j) THEN plan[t]
                                                           ELSE assigned[t]]
  /\ status' = [t \in Tasks |-> IF t \in TasksOf(j) THEN "planned"
                                                    ELSE status[t]]
  /\ jobStatus' = [jobStatus EXCEPT ![j] = "queued"]
  /\ planning' = planning \cup {j}
  /\ UNCHANGED <<nodeVars, cur, token, dek, queue, draining, issued>>

CreateTask(t) ==
  /\ status[t] = "planned"
  /\ status' = [status EXCEPT ![t] = "queued"]
  /\ dek' = [dek EXCEPT ![t] = IF assigned[t] \in KeyNodes THEN assigned[t]
                                                           ELSE NoNode]
  /\ queue' = [queue EXCEPT ![QueueFor(t, assigned[t])] = Append(@, t)]
  /\ UNCHANGED <<nodeVars, cur, assigned, token, draining, jobVars, issued>>

\* Faulty: answers without refreshing the status of the job.
FinishStartUnrefreshed(j) ==
  /\ j \in planning
  /\ \A t \in TasksOf(j) : status[t] # "planned"
  /\ planning' = planning \ {j}
  /\ UNCHANGED <<nodeVars, cur, status, assigned, token, dek, queue,
                 draining, jobStatus, issued>>

\* The response of the start request refreshes the status of the job.
FinishStart(j) ==
  /\ j \in planning
  /\ \A t \in TasksOf(j) : status[t] # "planned"
  /\ planning' = planning \ {j}
  /\ jobStatus' = [jobStatus EXCEPT ![j] = JobVerdict(j, status)]
  /\ UNCHANGED <<nodeVars, cur, status, assigned, token, dek, queue,
                 draining, issued>>

\* GET /start/{job_id} and .../results.
PollJob(j) ==
  /\ jobStatus[j] # "none"
  /\ jobStatus' = [jobStatus EXCEPT ![j] = JobVerdict(j, status)]
  /\ UNCHANGED <<nodeVars, cur, status, assigned, token, dek, queue,
                 draining, planning, issued>>

----------------------------------------------------------------------------
(* Failover *)

\* Faulty: requeues whatever the dead node points at.
RequeueStaleAnyStatus(n) ==
  /\ Holds(n)
  /\ cur' = [cur EXCEPT ![n] = NoTask]
  /\ \E d \in Nodes \cup {NoNode} :
       /\ IsDestination(d, n, RuntimeOf[cur[n]])
       /\ Requeue(cur[n], d, queue)
  /\ UNCHANGED <<nodeVars, dek, draining, jobVars, issued>>

\* One turn of requeue_stale_tasks, on the first node it finds work for.
RequeueStale(n) ==
  /\ Holds(n)
  /\ \A m \in Nodes : Holds(m) => n <= m
  /\ cur' = [cur EXCEPT ![n] = NoTask]
  /\ \/ /\ status[cur[n]] \in Active
        /\ \E d \in Nodes \cup {NoNode} :
             /\ IsDestination(d, n, RuntimeOf[cur[n]])
             /\ Requeue(cur[n], d, queue)
     \/ /\ status[cur[n]] \notin Active
        /\ UNCHANGED <<status, assigned, token, queue>>
  /\ UNCHANGED <<nodeVars, dek, draining, jobVars, issued>>

\* drain_dead_node_queues settles on a dead node ...
BeginDrain(n) ==
  /\ draining = NoNode
  /\ ~StaleWork
  /\ n \in members \ fresh
  /\ queue[n] # <<>>
  /\ draining' = n
  /\ UNCHANGED <<nodeVars, cur, status, assigned, token, dek, queue,
                 jobVars, issued>>

\* ... and empties its queue, whatever becomes of the node meanwhile.
DrainOne ==
  /\ draining # NoNode
  /\ queue[draining] # <<>>
  /\ LET t == Head(queue[draining])
     IN  \/ /\ status[t] \in {"queued"} \cup Active
            /\ \E d \in Nodes \cup {NoNode} :
                 /\ IsDestination(d, draining, RuntimeOf[t])
                 /\ Requeue(t, d, Pop(draining))
         \/ /\ status[t] \notin {"queued"} \cup Active
            /\ queue' = Pop(draining)
            /\ UNCHANGED <<status, assigned, token>>
  /\ UNCHANGED <<nodeVars, cur, dek, draining, jobVars, issued>>

EndDrain ==
  /\ draining # NoNode
  /\ queue[draining] = <<>>
  /\ draining' = NoNode
  /\ UNCHANGED <<nodeVars, cur, status, assigned, token, dek, queue,
                 jobVars, issued>>

----------------------------------------------------------------------------
(* A claim: after requeue_stale_tasks, and unless the node's current task  *)
(* is still in progress, take the first acceptable entry of its own queue, *)
(* then of the unassigned queues.                                          *)

Resumes(n) == cur[n] # NoTask /\ status[cur[n]] \in Active

\* Faulty: a node with work in progress may claim more.
CanClaimMore(n) == n \in known /\ ~StaleWork

CanClaim(n) == n \in known /\ ~StaleWork /\ ~Resumes(n)

IsSource(k, n) ==
  /\ queue[k] # <<>>
  /\ \/ k = n
     \/ k = Wasm /\ n \in WasmNodes /\ queue[n] = <<>>
     \/ /\ k = Cloudpickle /\ queue[n] = <<>>
        /\ n \in WasmNodes => queue[Wasm] = <<>>

\* _pop_queue_tid keeps an entry whose task still belongs there.
Accepts(n, k, t) ==
  /\ status[t] # "expired"
  /\ IF k = n THEN assigned[t] = n ELSE assigned[t] \in {n, NoNode}

DropEntry(n, k) ==
  /\ CanClaim(n)
  /\ IsSource(k, n)
  /\ ~Accepts(n, k, Head(queue[k]))
  /\ queue' = Pop(k)
  /\ cur' = [cur EXCEPT ![n] = NoTask]
  /\ UNCHANGED <<nodeVars, status, assigned, token, dek, draining, jobVars,
                 issued>>

Take(n, k, t) ==
  /\ issued < MaxClaims
  /\ issued' = issued + 1
  /\ status' = [status EXCEPT ![t] = "claimed"]
  /\ assigned' = [assigned EXCEPT ![t] = n]
  /\ token' = [token EXCEPT ![t] = issued + 1]
  /\ queue' = Pop(k)
  /\ cur' = [cur EXCEPT ![n] = t]
  /\ fresh' = fresh \cup {n}
  /\ UNCHANGED <<known, members, bad, dek, draining, jobVars>>

\* A node that cannot run what it popped puts it back, unassigned.
Claim(n, k) ==
  /\ CanClaim(n)
  /\ IsSource(k, n)
  /\ LET t == Head(queue[k])
     IN  /\ Accepts(n, k, t)
         /\ IF Supports(n, RuntimeOf[t])
            THEN Take(n, k, t)
            ELSE /\ Requeue(t, NoNode, Pop(k))
                 /\ cur' = [cur EXCEPT ![n] = NoTask]
                 /\ UNCHANGED <<nodeVars, dek, draining, jobVars, issued>>

ClaimNothing(n) ==
  /\ CanClaim(n)
  /\ cur[n] # NoTask
  /\ \A k \in QueueNames : ~IsSource(k, n)
  /\ cur' = [cur EXCEPT ![n] = NoTask]
  /\ UNCHANGED <<nodeVars, status, assigned, token, dek, queue, draining,
                 jobVars, issued>>

----------------------------------------------------------------------------
(* A node works on the task it claimed: c is the token it presents *)

\* Faulty: any request of the node the task was assigned to will do.
PresentsNothing(n, t, c) == n \in known /\ assigned[t] = n /\ c # 0

\* An authenticated request for t by the node it is assigned to.
Presents(n, t, c) == n \in known /\ assigned[t] = n /\ c # 0 /\ token[t] = c

Download(n, t, c) ==
  /\ Presents(n, t, c)
  /\ status' = [status EXCEPT ![t] = "running"]
  /\ dek' = [dek EXCEPT ![t] = NoNode]
  /\ UNCHANGED <<nodeVars, cur, assigned, token, queue, draining, jobVars,
                 issued>>

\* The end of complete_task and fail_task.
Settle(n, t, c, verdict) ==
  /\ Presents(n, t, c)
  /\ status' = [status EXCEPT ![t] = verdict]
  /\ token' = [token EXCEPT ![t] = 0]
  /\ cur' = [cur EXCEPT ![n] = NoTask]
  /\ fresh' = fresh \cup {n}
  /\ jobStatus' = [jobStatus EXCEPT ![JobOf[t]] = JobVerdict(JobOf[t], status')]
  /\ UNCHANGED <<known, members, bad, assigned, dek, queue, draining,
                 planning, issued>>

Complete(n, t, c) == Settle(n, t, c, "completed")
Fail(n, t, c)     == Settle(n, t, c, "failed")

\* A receipt that does not verify: the task goes back to the unassigned queue.
RejectReceipt(n, t, c) ==
  /\ Presents(n, t, c)
  /\ bad' = [bad EXCEPT ![n] = IF @ < BadReceiptThreshold THEN @ + 1 ELSE @]
  /\ members' = IF bad'[n] >= BadReceiptThreshold THEN members \ {n}
                                                  ELSE members
  /\ Requeue(t, NoNode, queue)
  /\ UNCHANGED <<known, fresh, cur, dek, draining, jobVars, issued>>

\* The TTL of the task's key runs out; its queue entries stay behind.
Expire(t) ==
  /\ t \in MayExpire
  /\ status[t] \notin {"absent", "planned", "expired"}
  /\ status' = [status EXCEPT ![t] = "expired"]
  /\ assigned' = [assigned EXCEPT ![t] = NoNode]
  /\ token' = [token EXCEPT ![t] = 0]
  /\ UNCHANGED <<nodeVars, cur, dek, queue, draining, jobVars, issued>>

----------------------------------------------------------------------------

Init ==
  /\ known = {} /\ members = {} /\ fresh = {}
  /\ cur = [n \in Nodes |-> NoTask]
  /\ bad = [n \in Nodes |-> 0]
  /\ status = [t \in Tasks |-> "absent"]
  /\ assigned = [t \in Tasks |-> NoNode]
  /\ token = [t \in Tasks |-> 0]
  /\ dek = [t \in Tasks |-> NoNode]
  /\ queue = [k \in QueueNames |-> <<>>]
  /\ draining = NoNode
  /\ jobStatus = [j \in Jobs |-> "none"]
  /\ planning = {}
  /\ issued = 0

NodeStep(n) == Register(n) \/ Heartbeat(n) \/ GoStale(n)
JobStep(j) == Start(j) \/ FinishStart(j) \/ PollJob(j)
SweepStep == (\E n \in Nodes : RequeueStale(n) \/ BeginDrain(n))
               \/ DrainOne \/ EndDrain
ClaimStep(n) == (\E k \in QueueNames : DropEntry(n, k) \/ Claim(n, k))
                  \/ ClaimNothing(n)
WorkStep(n, t, c) == Download(n, t, c) \/ Complete(n, t, c)
                       \/ Fail(n, t, c) \/ RejectReceipt(n, t, c)

Next ==
  \/ \E n \in Nodes : NodeStep(n)
  \/ \E j \in Jobs : JobStep(j)
  \/ \E t \in Tasks : CreateTask(t)
  \/ SweepStep
  \/ \E n \in Nodes : ClaimStep(n)
  \/ \E n \in Nodes, t \in Tasks, c \in 1..MaxClaims : WorkStep(n, t, c)
  \/ \E t \in Tasks : Expire(t)

Spec == Init /\ [][Next]_vars

----------------------------------------------------------------------------
(* Properties *)

\* The type of every variable, as the Redis keys and the rows hold them.
TypeOK ==
  /\ known \subseteq Nodes /\ members \subseteq known /\ fresh \subseteq known
  /\ cur \in [Nodes -> Tasks \cup {NoTask}]
  /\ bad \in [Nodes -> 0..BadReceiptThreshold]
  /\ status \in [Tasks -> Statuses]
  /\ assigned \in [Tasks -> Nodes \cup {NoNode}]
  /\ token \in [Tasks -> 0..MaxClaims]
  /\ dek \in [Tasks -> Nodes \cup {NoNode}]
  /\ queue \in [QueueNames -> Seq(Tasks)]
  /\ draining \in Nodes \cup {NoNode}
  /\ jobStatus \in [Jobs -> {"none", "queued", "running", "completed", "failed"}]
  /\ planning \subseteq Jobs
  /\ issued \in 0..MaxClaims

Occurs(t, s) == \E i \in 1..Len(s) : s[i] = t

AtMostOnce(q) ==
  \A k, l \in QueueNames : \A i \in 1..Len(q[k]), h \in 1..Len(q[l]) :
    q[k][i] = q[l][h] => k = l /\ i = h

\* No task is lost in a queue: a queued task has an entry in the queue its
\* assigned_node (or, unassigned, its runtime) names, the only one a claim or
\* a drain will look for it in (task_queue.py:302-434).
QueuedIsReachable ==
  \A t \in Tasks :
    status[t] = "queued" => Occurs(t, queue[QueueFor(t, assigned[t])])

\* No task is handed out twice: a task has at most one entry in all the
\* queues, and only while it is queued (or its key has expired).  A second
\* entry would let another node claim work in progress (_pop_queue_tid,
\* task_queue.py:517-539, does not look at the status).
NoStrayEntry ==
  /\ AtMostOnce(queue)
  /\ \A t \in Tasks, k \in QueueNames :
       Occurs(t, queue[k]) => status[t] \in {"queued", "expired"}

\* Work in progress can be reclaimed: a claimed or running task is the
\* current_task of the node it is assigned to, the only place
\* requeue_stale_tasks finds it again (task_queue.py:437-465).
ActiveIsTracked ==
  \A t \in Tasks :
    status[t] \in Active => assigned[t] # NoNode /\ cur[assigned[t]] = t

\* A task waits only for, and is only run by, a node that can run it, through
\* planning, failover and draining alike (_node_supports_runtime).
PlacedWhereRunnable ==
  \A t \in Tasks :
    assigned[t] # NoNode => Supports(assigned[t], RuntimeOf[t])

\* A claim token is good for one claim of one task, and only while that claim
\* lasts: requeueing and settling revoke it (task_queue.py:413-434, 637-690).
TokensAreLive ==
  \A t \in Tasks :
    /\ token[t] # 0 <=> status[t] \in Active
    /\ \A u \in Tasks : token[t] # 0 /\ token[u] = token[t] => u = t

\* A job whose start request has answered and that reads completed or failed
\* has no task left to run, however its tasks were moved around.
JobVerdictIsFinal ==
  \A j \in Jobs :
    jobStatus[j] \in Terminal /\ j \notin planning
      => \A t \in TasksOf(j) : status[t] \in Terminal \cup {"expired"}

\* A result is recorded once: nothing puts a completed or failed task back to
\* work or changes its verdict (only its key may expire).
VerdictIsKept ==
  [][\A t \in Tasks :
       status[t] \in Terminal => status'[t] \in {status[t], "expired"}]_vars

----------------------------------------------------------------------------
(* The promise TaskQueue implements *)

PhaseOf(s) == CASE s \in {"absent", "planned"} -> "new"
                [] s = "queued" -> "waiting"
                [] s \in Active -> "held"
                [] s = "expired" -> "forgotten"
                [] OTHER -> s

phaseOfTask == [t \in Tasks |-> PhaseOf(status[t])]
holderOfTask == [t \in Tasks |-> IF status[t] \in Active \cup Terminal
                                 THEN assigned[t] ELSE NoNode]

Promise == INSTANCE TaskLifecycle
             WITH phase <- phaseOfTask, holder <- holderOfTask

\* The queue hands each task to one node at a time and records one verdict,
\* from that node (claim_task_for_node, submit_task_result, requeue_task).
PromiseSpec == Promise!Spec
============================================================================
