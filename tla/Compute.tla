------------------------------ MODULE Compute ------------------------------
(***************************************************************************)
(* The compute network: the task queue of the server (TaskQueue) driven by *)
(* the nodes' worker loops (node/src/worker.rs), heartbeat loops           *)
(* (node/src/health.rs) and process life cycle (node/src/main.rs).         *)
(*                                                                         *)
(* A request and what the server does with it are one step; the reply, or  *)
(* the request itself, may be lost, which the worker sees as an error.     *)
(* The heartbeat loop runs beside the worker, so only a node that is down, *)
(* or whose heartbeats are delayed (Slow), goes stale.                     *)
(***************************************************************************)
EXTENDS TaskQueue

CONSTANTS
  Reliable,    \* nodes that never crash
  Slow,        \* nodes whose heartbeats may come too late
  BadSigners,  \* nodes whose receipts do not verify
  Faulty,      \* tasks whose program fails wherever it runs
  MaxCrashes,  \* bound: crashes in a behaviour
  MaxLosses    \* bound: lost messages in a behaviour

ASSUME ComputeAssumption ==
  /\ Reliable \subseteq Nodes /\ Slow \subseteq Nodes /\ BadSigners \subseteq Nodes
  /\ Faulty \subseteq Tasks
  /\ MaxCrashes \in Nat /\ MaxLosses \in Nat

VARIABLES
  worker,   \* where each node's worker loop is, and what it holds
  crashes, losses

workVars == <<worker, crashes, losses>>
allVars == <<vars, workVars>>

\* key: the node the key received with the payload was wrapped for.
At(pc, t, c, key, ok) == [pc |-> pc, task |-> t, tok |-> c, key |-> key, ok |-> ok]
Polling == At("poll", NoTask, 0, NoNode, FALSE)
Down    == At("down", NoTask, 0, NoNode, FALSE)

MoveTo(n, w) == worker' = [worker EXCEPT ![n] = w]
Lose == losses < MaxLosses /\ losses' = losses + 1

----------------------------------------------------------------------------
(* The process *)

\* A node registers once; afterwards it starts from its saved identity.
Boot(n) ==
  /\ worker[n] = Down
  /\ MoveTo(n, Polling)
  /\ IF n \in known THEN UNCHANGED vars ELSE Register(n)
  /\ UNCHANGED <<crashes, losses>>

Crash(n) ==
  /\ worker[n] # Down
  /\ n \notin Reliable
  /\ crashes < MaxCrashes
  /\ crashes' = crashes + 1
  /\ MoveTo(n, Down)
  /\ UNCHANGED <<vars, losses>>

Beat(n) ==
  /\ worker[n] # Down
  /\ Heartbeat(n)
  /\ UNCHANGED workVars

MissBeats(n) ==
  /\ \/ worker[n] = Down /\ UNCHANGED losses
     \/ worker[n] # Down /\ n \in Slow /\ Lose
  /\ GoStale(n)
  /\ UNCHANGED <<worker, crashes>>

----------------------------------------------------------------------------
(* The worker loop *)

\* Only WebAssembly is run; anything else is reported as a failure at once.
Receive(n, t, c) ==
  MoveTo(n, At(IF RuntimeOf[t] = Wasm THEN "fetch" ELSE "report",
               t, c, NoNode, FALSE))

\* A claim that finds a task; without its reply the worker polls again.
ClaimNew(n) ==
  /\ worker[n] = Polling
  /\ \E k \in QueueNames : Claim(n, k)
  /\ \/ cur'[n] # NoTask /\ Receive(n, cur'[n], token'[cur'[n]]) /\ UNCHANGED losses
     \/ cur'[n] = NoTask /\ UNCHANGED <<worker, losses>>
     \/ Lose /\ UNCHANGED worker
  /\ UNCHANGED crashes

\* A claim by a node whose current task is in progress returns that task.
ClaimAgain(n) ==
  /\ worker[n] = Polling
  /\ n \in known /\ ~StaleWork /\ Resumes(n)
  /\ Receive(n, cur[n], token[cur[n]])
  /\ UNCHANGED <<vars, crashes, losses>>

ClaimInVain(n) ==
  /\ worker[n] = Polling
  /\ ClaimNothing(n) \/ \E k \in QueueNames : DropEntry(n, k)
  /\ UNCHANGED workVars

\* The payload comes with the wrapped key, which is deleted on the way out.
Fetch(n) ==
  LET w == worker[n]
      failed == At("report", w.task, w.tok, NoNode, FALSE)
  IN  /\ w.pc = "fetch"
      /\ \/ /\ Download(n, w.task, w.tok)
            /\ \/ /\ MoveTo(n, At("run", w.task, w.tok, dek[w.task], FALSE))
                  /\ UNCHANGED losses
               \/ Lose /\ MoveTo(n, failed)
         \/ /\ ~Presents(n, w.task, w.tok)
            /\ MoveTo(n, failed)
            /\ UNCHANGED <<vars, losses>>
      /\ UNCHANGED crashes

\* The stored payload is always encrypted: without a key the ciphertext is
\* run as it is and fails, and a key wrapped for another node does not open it.
Run(n) ==
  LET w == worker[n]
  IN  /\ w.pc = "run"
      /\ MoveTo(n, At("report", w.task, w.tok, NoNode,
                      w.key = n /\ w.task \notin Faulty))
      /\ UNCHANGED <<vars, crashes, losses>>

\* The outputs and the node's key are what the receipt says: nobody forges one.
Verifies(n) == n \notin BadSigners

\* ... or takes the receipt for granted.
ReportUnverified(n) ==
  LET w == worker[n]
  IN  /\ w.pc = "report"
      /\ MoveTo(n, Polling)
      /\ IF w.ok THEN Complete(n, w.task, w.tok) ELSE Fail(n, w.task, w.tok)
      /\ UNCHANGED <<crashes, losses>>

\* One attempt to report, never repeated.
Report(n) ==
  LET w == worker[n]
  IN  /\ w.pc = "report"
      /\ MoveTo(n, Polling)
      /\ \/ Lose /\ UNCHANGED vars
         \/ /\ IF ~w.ok THEN Fail(n, w.task, w.tok)
               ELSE IF Verifies(n) THEN Complete(n, w.task, w.tok)
               ELSE RejectReceipt(n, w.task, w.tok)
            /\ UNCHANGED losses
         \/ ~Presents(n, w.task, w.tok) /\ UNCHANGED <<vars, losses>>
      /\ UNCHANGED crashes

----------------------------------------------------------------------------

ComputeInit ==
  /\ Init
  /\ worker = [n \in Nodes |-> Down]
  /\ crashes = 0 /\ losses = 0

Server ==
  /\ \/ \E j \in Jobs : JobStep(j)
     \/ \E t \in Tasks : CreateTask(t) \/ Expire(t)
     \/ SweepStep
  /\ UNCHANGED workVars

Work(n) == ClaimNew(n) \/ ClaimAgain(n) \/ ClaimInVain(n) \/ Fetch(n)
             \/ Run(n) \/ Report(n)

ComputeNext ==
  \/ Server
  \/ \E n \in Nodes : Boot(n) \/ Crash(n) \/ Beat(n) \/ MissBeats(n) \/ Work(n)

\* The sweeper thread and the threads of a running node keep going; a start
\* request that has begun creates its tasks; a node that stays down is found
\* stale.  Nothing restarts a node that is down, nor submits a job.
Fairness ==
  /\ WF_allVars(SweepStep /\ UNCHANGED workVars)
  /\ \A t \in Tasks : WF_allVars(CreateTask(t) /\ UNCHANGED workVars)
  /\ \A n \in Nodes : /\ WF_allVars(Work(n)) /\ WF_allVars(Beat(n))
                      /\ WF_allVars(worker[n] = Down /\ MissBeats(n))
                      /\ n \in Reliable => WF_allVars(Boot(n))

ComputeSpec == ComputeInit /\ [][ComputeNext]_allVars /\ Fairness

----------------------------------------------------------------------------
(* Properties *)

\* Where a worker can be and what it can hold.
ComputeTypeOK ==
  /\ TypeOK
  /\ worker \in [Nodes ->
       [pc : {"down", "poll", "fetch", "run", "report"},
        task : Tasks \cup {NoTask}, tok : 0..MaxClaims,
        key : Nodes \cup {NoNode}, ok : BOOLEAN]]
  /\ \A n \in Nodes : worker[n].task = NoTask <=> worker[n].pc \in {"down", "poll"}
  /\ crashes \in 0..MaxCrashes /\ losses \in 0..MaxLosses

\* A worker that holds the live token of a task is the node that claimed it:
\* no reply of claim_task_for_node hands a node another node's claim.  This ends
\* with the first receipt that is rejected: its node keeps its current_task
\* (nodes.py:334), is handed that task again whoever runs it, and if it goes
\* silent the task is taken from that node too, which keeps pointing at it.
ClaimsAreOwn ==
  (\A m \in Nodes : bad[m] = 0) =>
    \A n \in Nodes :
      LET w == worker[n]
      IN  w.task # NoTask /\ token[w.task] = w.tok => assigned[w.task] = n

\* "so failover happens on its own" (sweeper.py:6): every task of a job that
\* was submitted is decided in the end, while one node stays up.
TasksAreDecided ==
  \A t \in Tasks :
    status[t] = "planned" ~> status[t] \in Terminal \cup {"expired"}

\* A completed task was run to the end by a node whose receipt verifies, over
\* requeues, late reports of nodes taken for dead and reused task pointers.
CompletedHonestly ==
  \A t \in Tasks :
    status[t] = "completed" => t \notin Faulty /\ assigned[t] \notin BadSigners

\* A task fails only if its program does: failover hands on whatever a node
\* needs to run it.
OnlyProgramsFail ==
  \A t \in Tasks : status[t] = "failed" => t \in Faulty
============================================================================
