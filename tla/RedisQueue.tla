----------------------------- MODULE RedisQueue -----------------------------
(***************************************************************************)
(* The operations of server/app/utils/task_queue.py one Redis command at a *)
(* time, as the threads of the servers interleave them.  TaskQueue takes   *)
(* each operation in one step; here a thread keeps what it read and acts   *)
(* on it some commands later, and the sweepers of several servers meet at  *)
(* the lock of utils/sweeper.py.                                           *)
(*                                                                         *)
(* The fleet is registered, runs every task and has one runtime, so that   *)
(* every task is placed by its node alone.  A claim token is known to its  *)
(* node from the response on, and as long as the row is not written again: *)
(* with any other token a request is refused and changes nothing.          *)
(***************************************************************************)
EXTENDS Integers, FiniteSets, Sequences

CONSTANTS
  NumNodes,
  Tasks,
  Workers,      \* request threads
  Sweepers,     \* the sweeper threads, one per server
  Mortal,       \* nodes whose heartbeat may be late
  Impatient,    \* nodes that may ask again while a request is under way
  NoTask,
  Overruns,     \* BOOLEAN: may a sweep outlast the TTL of its lock?
  MaxCrashes,   \* bound: threads that die on the way
  MaxRequeues   \* bound: tasks put back by failover

Nodes == 1..NumNodes
NoNode == 0
Threads == Workers \cup Sweepers

ASSUME RedisQueueAssumption ==
  /\ NumNodes \in Nat \ {0}
  /\ Workers \cap Sweepers = {}
  /\ NoTask \notin Tasks
  /\ Mortal \subseteq Nodes /\ Impatient \subseteq Nodes
  /\ Overruns \in BOOLEAN
  /\ MaxCrashes \in Nat /\ MaxRequeues \in Nat

VARIABLES
  fresh,     \* nodes heard of less than NODE_STALE_SECONDS ago
  cur,       \* current_task of each node
  status, assigned,
  handed,    \* tasks whose claim token is with the node they are assigned to
  queue,     \* node:{id}:queue, and tasks:unassigned at NoNode
  lock,      \* sweeper:lock exists
  run,       \* what each thread is doing: the command it issues next, the node
             \* it serves, its place in a loop over the nodes, the task it acts
             \* on, where it will put it and what it does then
  requeues, crashes,
  sees,      \* history: the keys each thread has read and nobody wrote since
  raced      \* history: a thread has written a key it had an old view of

vars == <<fresh, cur, status, assigned, handed, queue, lock, run, requeues,
          crashes, sees, raced>>
rows == <<status, assigned, handed>>
ghosts == <<sees, raced>>
bounds == <<requeues, crashes>>

Active == {"claimed", "running"}
Idle == [pc |-> "idle", node |-> NoNode, at |-> NoNode, task |-> NoTask,
         dest |-> NoNode, then |-> "idle"]

Busy(p) == run[p].pc # "idle"
Sweeping(p) == p \in Sweepers /\ Busy(p)

----------------------------------------------------------------------------
(* What a thread has read, and whether it is still so *)

Reads(p, keys) ==
  /\ sees' = [sees EXCEPT ![p] = @ \cup keys]
  /\ UNCHANGED raced

Writes(p, key) ==
  /\ sees' = [q \in Threads |-> IF q = p THEN sees[q] ELSE sees[q] \ {key}]
  /\ raced' = (raced \/ key \notin sees[p])

Goto(p, pc) == run' = [run EXCEPT ![p].pc = pc]

\* The response is sent, or the sweep is over.
Done(p) ==
  /\ run' = [run EXCEPT ![p] = Idle]
  /\ sees' = [sees EXCEPT ![p] = {}]
  /\ UNCHANGED raced

\* The next turn of a loop over the nodes, or what follows the loop.
NextNode(p, loop, after) ==
  run' = [run EXCEPT
            ![p].pc = IF run[p].at < NumNodes THEN loop ELSE after,
            ![p].at = IF run[p].at < NumNodes THEN @ + 1 ELSE 1,
            ![p].task = NoTask]

AfterReclaim(p) == IF p \in Sweepers THEN "drain" ELSE "resume"

\* The first healthy node other than n, or none.
IsDestination(d, n) ==
  LET others == fresh \ {n}
  IN  IF others = {} THEN d = NoNode
      ELSE d \in others /\ \A m \in others : d <= m

----------------------------------------------------------------------------
(* Requests and sweeps begin *)

MayAsk(n) == n \in Impatient \/ \A p \in Workers : run[p].node # n

\* Faulty: the sweep does not take the lock.
BeginSweepUnlocked(p) ==
  /\ p \in Sweepers /\ ~Busy(p)
  /\ lock' = TRUE
  /\ run' = [run EXCEPT ![p] = [Idle EXCEPT !.pc = "look", !.at = 1]]
  /\ UNCHANGED <<fresh, cur, rows, queue, bounds, ghosts>>

BeginSweep(p) ==
  /\ p \in Sweepers /\ ~Busy(p)
  /\ ~lock
  /\ lock' = TRUE
  /\ run' = [run EXCEPT ![p] = [Idle EXCEPT !.pc = "look", !.at = 1]]
  /\ UNCHANGED <<fresh, cur, rows, queue, bounds, ghosts>>

\* The lock is deleted without a look at who holds it.
EndSweep(p) ==
  /\ run[p].pc = "unlock"
  /\ lock' = FALSE
  /\ Done(p)
  /\ UNCHANGED <<fresh, cur, rows, queue, bounds>>

\* The TTL is "comfortably longer than a sweep", unless Overruns.
LockExpires ==
  /\ lock
  /\ Overruns \/ ~\E p \in Sweepers : Sweeping(p)
  /\ lock' = FALSE
  /\ UNCHANGED <<fresh, cur, rows, queue, run, bounds, ghosts>>

\* create_task: the row is written, the entry is pushed next.  The nodes of a
\* job were chosen when it was submitted, and may be stale by now.
BeginCreate(p, t, n) ==
  /\ p \in Workers /\ ~Busy(p)
  /\ status[t] = "absent"
  /\ status' = [status EXCEPT ![t] = "queued"]
  /\ assigned' = [assigned EXCEPT ![t] = n]
  /\ run' = [run EXCEPT ![p] =
               [Idle EXCEPT !.pc = "push", !.task = t, !.dest = n]]
  /\ UNCHANGED <<fresh, cur, handed, queue, lock, bounds, ghosts>>

BeginClaim(p, n) ==
  /\ p \in Workers /\ ~Busy(p)
  /\ MayAsk(n)
  /\ run' = [run EXCEPT ![p] =
               [Idle EXCEPT !.pc = "look", !.node = n, !.at = 1]]
  /\ UNCHANGED <<fresh, cur, rows, queue, lock, bounds, ghosts>>

\* A download or a result with a token that is good when it is checked.
BeginWork(p, t, pc) ==
  /\ p \in Workers /\ ~Busy(p)
  /\ t \in handed /\ MayAsk(assigned[t])
  /\ run' = [run EXCEPT ![p] =
               [Idle EXCEPT !.pc = pc, !.node = assigned[t], !.task = t]]
  /\ Reads(p, {t, assigned[t]})
  /\ UNCHANGED <<fresh, cur, rows, queue, lock, bounds>>

----------------------------------------------------------------------------
(* requeue_stale_tasks, which claims run too, and drain_dead_node_queues *)

Look(p) ==
  /\ run[p].pc = "look"
  /\ LET n == run[p].at
     IN  IF n \in fresh \/ cur[n] = NoTask
         THEN NextNode(p, "look", AfterReclaim(p)) /\ UNCHANGED ghosts
         ELSE /\ run' = [run EXCEPT ![p].pc = "check", ![p].task = cur[n]]
              /\ Reads(p, {n})
  /\ UNCHANGED <<fresh, cur, rows, queue, lock, bounds>>

\* Faulty: puts the task of a silent node back whatever its status.
DecideBlindly(p, wanted, after) ==
  /\ requeues < MaxRequeues
  /\ requeues' = requeues + 1
  /\ \E d \in Nodes \cup {NoNode} :
       /\ IsDestination(d, run[p].at)
       /\ run' = [run EXCEPT ![p].pc = "put", ![p].dest = d, ![p].then = after]
  /\ Reads(p, {run[p].task})
  /\ UNCHANGED <<fresh, cur, rows, queue, lock, crashes>>

\* The status of the task, and the place it will go to.
Decide(p, wanted, after) ==
  /\ IF status[run[p].task] \in wanted
     THEN /\ requeues < MaxRequeues
          /\ requeues' = requeues + 1
          /\ \E d \in Nodes \cup {NoNode} :
               /\ IsDestination(d, run[p].at)
               /\ run' = [run EXCEPT ![p].pc = "put", ![p].dest = d,
                                     ![p].then = after]
     ELSE Goto(p, after) /\ UNCHANGED requeues
  /\ Reads(p, {run[p].task})
  /\ UNCHANGED <<fresh, cur, rows, queue, lock, crashes>>

Check(p) == run[p].pc = "check" /\ Decide(p, Active, "clear")

Drain(p) ==
  /\ run[p].pc = "drain"
  /\ IF run[p].at \in fresh THEN NextNode(p, "drain", "unlock")
                            ELSE Goto(p, "pop")
  /\ UNCHANGED <<fresh, cur, rows, queue, lock, bounds, ghosts>>

PopDead(p) ==
  /\ run[p].pc = "pop"
  /\ LET q == queue[run[p].at]
     IN  IF q = <<>>
         THEN NextNode(p, "drain", "unlock") /\ UNCHANGED queue
         ELSE /\ queue' = [queue EXCEPT ![run[p].at] = Tail(q)]
              /\ run' = [run EXCEPT ![p].pc = "recheck", ![p].task = Head(q)]
  /\ UNCHANGED <<fresh, cur, rows, lock, bounds, ghosts>>

\* Faulty: takes a waiting task for a finished one.
RecheckActive(p) == run[p].pc = "recheck" /\ Decide(p, Active, "pop")

Recheck(p) ==
  run[p].pc = "recheck" /\ Decide(p, Active \cup {"queued"}, "pop")

\* requeue_task: the row ...
Put(p) ==
  /\ run[p].pc = "put"
  /\ LET t == run[p].task
     IN  /\ status' = [status EXCEPT ![t] = "queued"]
         /\ assigned' = [assigned EXCEPT ![t] = run[p].dest]
         /\ handed' = handed \ {t}
         /\ Writes(p, t)
  /\ Goto(p, "push")
  /\ UNCHANGED <<fresh, cur, queue, lock, bounds>>

\* ... and the entry.
Push(p) ==
  /\ run[p].pc = "push"
  /\ queue' = [queue EXCEPT ![run[p].dest] = Append(@, run[p].task)]
  /\ IF run[p].then = "idle" THEN Done(p)
                             ELSE Goto(p, run[p].then) /\ UNCHANGED ghosts
  /\ UNCHANGED <<fresh, cur, rows, lock, bounds>>

Clear(p) ==
  /\ run[p].pc = "clear"
  /\ cur' = [cur EXCEPT ![run[p].at] = NoTask]
  /\ Writes(p, run[p].at)
  /\ NextNode(p, "look", AfterReclaim(p))
  /\ UNCHANGED <<fresh, rows, queue, lock, bounds>>

----------------------------------------------------------------------------
(* The rest of claim_task_for_node *)

\* Work in progress is handed out again.
Resume(p) ==
  /\ run[p].pc = "resume"
  /\ LET n == run[p].node
     IN  IF cur[n] # NoTask /\ status[cur[n]] \in Active
         THEN /\ handed' = IF assigned[cur[n]] = n THEN handed \cup {cur[n]}
                                                   ELSE handed
              /\ Done(p)
         ELSE /\ Goto(p, IF cur[n] = NoTask THEN "take" ELSE "unset")
              /\ Reads(p, {n})
              /\ UNCHANGED handed
  /\ UNCHANGED <<fresh, cur, status, assigned, queue, lock, bounds>>

Unset(p) ==
  /\ run[p].pc = "unset"
  /\ cur' = [cur EXCEPT ![run[p].node] = NoTask]
  /\ Writes(p, run[p].node)
  /\ Goto(p, "take")
  /\ UNCHANGED <<fresh, rows, queue, lock, bounds>>

\* Faulty: reads the head of a queue and leaves it there until it is marked.
PeekQueue(p, pc, k, empty) ==
  /\ run[p].pc = pc
  /\ IF queue[k] = <<>>
     THEN Goto(p, empty)
     ELSE run' = [run EXCEPT ![p].pc = "accept", ![p].task = Head(queue[k]),
                             ![p].dest = k]
  /\ UNCHANGED <<fresh, cur, rows, queue, lock, bounds, ghosts>>

\* LPOP of one queue; dest remembers which.
PopQueue(p, pc, k, empty) ==
  /\ run[p].pc = pc
  /\ IF queue[k] = <<>>
     THEN Goto(p, empty) /\ UNCHANGED queue
     ELSE /\ queue' = [queue EXCEPT ![k] = Tail(@)]
          /\ run' = [run EXCEPT ![p].pc = "accept", ![p].task = Head(queue[k]),
                                ![p].dest = k]
  /\ UNCHANGED <<fresh, cur, rows, lock, bounds, ghosts>>

Take(p) == PopQueue(p, "take", run[p].node, "share")
Share(p) == PopQueue(p, "share", NoNode, "none")

Accept(p) ==
  /\ run[p].pc = "accept"
  /\ LET t == run[p].task
         n == run[p].node
         k == run[p].dest
         here == IF k = n THEN assigned[t] = n ELSE assigned[t] \in {n, NoNode}
     IN  IF here THEN Goto(p, "mark") /\ Reads(p, {t})
                 ELSE /\ Goto(p, IF k = n THEN "take" ELSE "share")
                      /\ UNCHANGED ghosts
  /\ UNCHANGED <<fresh, cur, rows, queue, lock, bounds>>

Mark(p) ==
  /\ run[p].pc = "mark"
  /\ status' = [status EXCEPT ![run[p].task] = "claimed"]
  /\ assigned' = [assigned EXCEPT ![run[p].task] = run[p].node]
  /\ handed' = handed \ {run[p].task}
  /\ Writes(p, run[p].task)
  /\ Goto(p, "point")
  /\ UNCHANGED <<fresh, cur, queue, lock, bounds>>

Point(p) ==
  /\ run[p].pc = "point"
  /\ cur' = [cur EXCEPT ![run[p].node] = run[p].task]
  /\ fresh' = fresh \cup {run[p].node}
  /\ Writes(p, run[p].node)
  /\ Goto(p, "answer")
  /\ UNCHANGED <<rows, queue, lock, bounds>>

\* The token of the answer is good while nobody has written the row since.
Answer(p) ==
  /\ run[p].pc \in {"answer", "none"}
  /\ handed' = IF run[p].pc = "answer" /\ run[p].task \in sees[p]
               THEN handed \cup {run[p].task} ELSE handed
  /\ Done(p)
  /\ UNCHANGED <<fresh, cur, status, assigned, queue, lock, bounds>>

----------------------------------------------------------------------------
(* The end of a download and of a result *)

MarkRunning(p) ==
  /\ run[p].pc = "download"
  /\ status' = [status EXCEPT ![run[p].task] = "running"]
  /\ Writes(p, run[p].task)
  /\ run' = [run EXCEPT ![p].pc = "none"]
  /\ UNCHANGED <<fresh, cur, assigned, handed, queue, lock, bounds>>

Settle(p) ==
  /\ run[p].pc = "settle"
  /\ status' = [status EXCEPT ![run[p].task] = "completed"]
  /\ handed' = handed \ {run[p].task}
  /\ Writes(p, run[p].task)
  /\ Goto(p, "free")
  /\ UNCHANGED <<fresh, cur, assigned, queue, lock, bounds>>

Free(p) ==
  /\ run[p].pc = "free"
  /\ cur' = [cur EXCEPT ![run[p].node] = NoTask]
  /\ fresh' = fresh \cup {run[p].node}
  /\ Writes(p, run[p].node)
  /\ Goto(p, "none")
  /\ UNCHANGED <<rows, queue, lock, bounds>>

----------------------------------------------------------------------------
(* Around the threads *)

Heartbeat(n) ==
  /\ n \notin fresh
  /\ fresh' = fresh \cup {n}
  /\ UNCHANGED <<cur, rows, queue, lock, run, bounds, ghosts>>

GoStale(n) ==
  /\ n \in fresh \cap Mortal
  /\ fresh' = fresh \ {n}
  /\ UNCHANGED <<cur, rows, queue, lock, run, bounds, ghosts>>

\* A command fails or the process dies; only in the first case does a sweeper
\* still delete its lock.
Crash(p) ==
  /\ Busy(p) /\ crashes < MaxCrashes
  /\ crashes' = crashes + 1
  /\ Done(p)
  /\ lock' \in (IF p \in Sweepers THEN {lock, FALSE} ELSE {lock})
  /\ UNCHANGED <<fresh, cur, rows, queue, requeues>>

Init ==
  /\ fresh = Nodes
  /\ cur = [n \in Nodes |-> NoTask]
  /\ status = [t \in Tasks |-> "absent"]
  /\ assigned = [t \in Tasks |-> NoNode]
  /\ handed = {}
  /\ queue = [k \in Nodes \cup {NoNode} |-> <<>>]
  /\ lock = FALSE
  /\ run = [p \in Threads |-> Idle]
  /\ requeues = 0 /\ crashes = 0
  /\ sees = [p \in Threads |-> {}]
  /\ raced = FALSE

Begin(p) ==
  \/ BeginSweep(p)
  \/ \E n \in Nodes : BeginClaim(p, n)
  \/ \E t \in Tasks, n \in Nodes : BeginCreate(p, t, n)
  \/ \E t \in Tasks, pc \in {"download", "settle"} : BeginWork(p, t, pc)
FailoverStep(p) == Look(p) \/ Check(p) \/ Put(p) \/ Push(p) \/ Clear(p)
                     \/ Drain(p) \/ PopDead(p) \/ Recheck(p) \/ EndSweep(p)
ClaimStep(p) == Resume(p) \/ Unset(p) \/ Take(p) \/ Share(p) \/ Accept(p)
                  \/ Mark(p) \/ Point(p) \/ Answer(p)
WorkStep(p) == MarkRunning(p) \/ Settle(p) \/ Free(p)

Next ==
  \/ \E p \in Threads : Begin(p) \/ FailoverStep(p) \/ ClaimStep(p)
                          \/ WorkStep(p) \/ Crash(p)
  \/ \E n \in Nodes : Heartbeat(n) \/ GoStale(n)
  \/ LockExpires

Spec == Init /\ [][Next]_vars

----------------------------------------------------------------------------
(* Properties *)

\* The type of every variable.
TypeOK ==
  /\ fresh \subseteq Nodes
  /\ cur \in [Nodes -> Tasks \cup {NoTask}]
  /\ status \in [Tasks -> {"absent", "queued", "claimed", "running", "completed"}]
  /\ assigned \in [Tasks -> Nodes \cup {NoNode}]
  /\ handed \subseteq Tasks
  /\ queue \in [Nodes \cup {NoNode} -> Seq(Tasks)]
  /\ lock \in BOOLEAN /\ raced \in BOOLEAN
  /\ requeues \in 0..MaxRequeues /\ crashes \in 0..MaxCrashes
  /\ sees \in [Threads -> SUBSET (Nodes \cup Tasks)]

Occurs(t, k) == \E i \in 1..Len(queue[k]) : queue[k][i] = t

\* A thread has t in hand: it has popped its entry, or put it back to be
\* queued, and has still to mark it or to push it.
InHand(t) ==
  \E p \in Threads :
    /\ run[p].task = t
    /\ \/ run[p].pc \in {"recheck", "push", "accept", "mark"}
       \/ run[p].pc = "put" /\ run[p].then = "pop"

\* No interleaving of requests and sweeps loses a task: as long as no thread
\* dies half-way, a queued task has an entry where a claim or a drain will
\* look for it, or a thread has it in hand.
NoTaskLost ==
  crashes = 0 =>
    \A t \in Tasks :
      status[t] = "queued" => Occurs(t, assigned[t]) \/ InHand(t)

\* Every double handling of a task goes back to a write over a row that
\* changed since it was read.  Short of that, even with threads dying at any
\* command, a task has one entry at most, only while it is queued, and none
\* while a thread has it in hand: no one claims it twice.
HandledOnce ==
  ~raced =>
    \A t \in Tasks :
      /\ \A k, l \in DOMAIN queue :
           \A i \in 1..Len(queue[k]), h \in 1..Len(queue[l]) :
             queue[k][i] = t /\ queue[l][h] = t => k = l /\ i = h
      /\ \A k \in DOMAIN queue :
           Occurs(t, k) => status[t] = "queued" /\ ~InHand(t)

\* "Only one server instance should sweep at a time" (sweeper.py:8): true as
\* long as no sweep outlasts the TTL of the lock, whatever server dies.
OneSweeper == \A p, q \in Sweepers : Sweeping(p) /\ Sweeping(q) => p = q

\* "anything already finished or failed can be left where it is"
\* (task_queue.py:492): failover never puts a finished task back to work.
FinishedStaysPut ==
  [][\A t \in Tasks : status[t] = "completed" => status'[t] # "queued"]_vars

----------------------------------------------------------------------------
(* The promise of the queue, kept command by command *)

PhaseOf(s) == CASE s = "absent" -> "new"
                [] s = "queued" -> "waiting"
                [] s \in Active -> "held"
                [] OTHER -> s

phaseOfTask == [t \in Tasks |-> PhaseOf(status[t])]
holderOfTask == [t \in Tasks |-> IF status[t] \in Active \cup {"completed"}
                                 THEN assigned[t] ELSE NoNode]

Promise == INSTANCE TaskLifecycle
             WITH phase <- phaseOfTask, holder <- holderOfTask

\* Commands of requests and sweeps interleave, nodes fall silent and threads
\* die, and still each command that writes a row takes a step of the lifecycle
\* (one grant at a time, the verdict of who holds the task, the verdict last),
\* up to the first write over a row that changed since it was read.
PromiseUnlessRaced ==
  /\ Promise!Init
  /\ [][~raced' => [Promise!Next]_<<phaseOfTask, holderOfTask>>]_vars
============================================================================
