--------------------------- MODULE RedisQueueProofs ---------------------------
(***************************************************************************)
(* The operations of the task queue one Redis command at a time, for any   *)
(* number of nodes, tasks, request threads and sweepers, crashes and       *)
(* requeues: no task is lost, none is handled twice but by a write over a  *)
(* stale view, and one server sweeps at a time.                            *)
(***************************************************************************)
EXTENDS RedisQueue, TLAPS

USE RedisQueueAssumption

----------------------------------------------------------------------------
(* The inductive invariant: where a thread is and what it has there; what  *)
(* it knows of a row it still sees (Views); that a task in a queue or in   *)
(* hand is there only and waits (HandInv); that a task that waits is where *)
(* its row says, or with a thread that will see to it (KeptInv); and that  *)
(* who sweeps has the lock (LockInv).                                      *)

Places == Nodes \cup {NoNode}

Commands ==
  {"idle", "look", "check", "clear", "put", "push", "drain", "pop", "recheck",
   "unlock", "resume", "unset", "take", "share", "accept", "mark", "point",
   "answer", "none", "download", "settle", "free"}

Runs == [pc : Commands, node : Places, at : Places, task : Tasks \cup {NoTask},
         dest : Places, then : {"idle", "clear", "pop"}]

\* The commands that are about a task, and those for a node.
WithTask == {"check", "put", "push", "recheck", "accept", "mark", "point",
             "answer", "download", "settle"}
WithNode == {"resume", "unset", "take", "share", "accept", "mark", "point",
             "answer", "download", "settle", "free"}

\* What only a sweep does, and the loop that claims run too.
Draining(r) ==
  r.pc \in {"drain", "pop", "recheck", "unlock"} \/ (r.pc \in {"put", "push"} /\ r.then = "pop")
Reclaiming(r) ==
  r.pc \in {"look", "check", "clear"} \/ (r.pc \in {"put", "push"} /\ r.then = "clear")

GoodRun(p, r) ==
  /\ r.pc \in WithTask => r.task \in Tasks
  /\ r.pc \in WithNode => r.node \in Nodes
  /\ r.pc = "look" => r.at \in Nodes
  /\ r.pc = "accept" => r.dest \in {r.node, NoNode}
  /\ r.pc = "put" => r.then # "idle"
  /\ Draining(r) => p \in Sweepers
  /\ Reclaiming(r) => p \in Sweepers \/ r.node \in Nodes

RunOK ==
  /\ run \in [Threads -> Runs]
  /\ \A p \in Threads : GoodRun(p, run[p])

\* What a thread knows of a row as long as it sees it as it is.
ViewOK(p) ==
  run[p].task \in sees[p] =>
    /\ run[p].pc \in {"point", "answer"} =>
         status[run[p].task] \in Active /\ assigned[run[p].task] = run[p].node
    /\ run[p].pc \in {"download", "settle"} => status[run[p].task] \in Active
    /\ run[p].pc = "put" /\ run[p].then = "clear" => status[run[p].task] \in Active

Views ==
  /\ \A t \in handed : status[t] \in Active /\ assigned[t] \in Nodes
  /\ \A p \in Threads : ViewOK(p)

TInv == TypeOK /\ RunOK /\ Views

HasInHand(p, t) ==
  /\ run[p].task = t
  /\ \/ run[p].pc \in {"recheck", "push", "accept", "mark"}
     \/ run[p].pc = "put" /\ run[p].then = "pop"

OneEntry(t) ==
  \A k, l \in Places :
    \A i \in 1..Len(queue[k]), h \in 1..Len(queue[l]) :
      queue[k][i] = t /\ queue[l][h] = t => k = l /\ i = h

HandInv ==
  ~raced =>
    \A t \in Tasks :
      /\ OneEntry(t)
      /\ \A k \in Places : Occurs(t, k) => status[t] = "queued"
      /\ \A p \in Threads : HasInHand(p, t) =>
           /\ status[t] = "queued" /\ \A k \in Places : ~Occurs(t, k)
           /\ \A q \in Threads : HasInHand(q, t) => p = q

\* p will put t in a queue where its row says, or mark it.
HeldBy(p, t) ==
  /\ run[p].task = t
  /\ \/ run[p].pc \in {"recheck", "mark"}
     \/ run[p].pc \in {"push", "accept"} /\ run[p].dest = assigned[t]
     \/ run[p].pc = "put" /\ run[p].then = "pop"

Held(t) == \E p \in Threads : HeldBy(p, t)

KeptInv ==
  crashes = 0 =>
    \A t \in Tasks : status[t] = "queued" => Occurs(t, assigned[t]) \/ Held(t)

LockInv ==
  Overruns \/
    /\ \A p \in Sweepers : Sweeping(p) => lock
    /\ \A p, q \in Sweepers : Sweeping(p) /\ Sweeping(q) => p = q

IInv == TInv /\ HandInv /\ KeptInv /\ LockInv

----------------------------------------------------------------------------
(* What the thread does next *)

Others(p) == \A q \in Threads \ {p} : run'[q] = run[q]

LEMMA GotoFacts ==
  ASSUME RunOK, NEW p \in Threads, NEW pc \in Commands, Goto(p, pc)
  PROVE  /\ run' \in [Threads -> Runs] /\ Others(p)
         /\ run'[p].pc = pc /\ run'[p].node = run[p].node /\ run'[p].at = run[p].at
         /\ run'[p].task = run[p].task /\ run'[p].dest = run[p].dest
         /\ run'[p].then = run[p].then
  BY DEF RunOK, Runs, Goto, Others

LEMMA NextNodeFacts ==
  ASSUME RunOK, NEW p \in Threads, NEW loop \in Commands, NEW after \in Commands,
         NextNode(p, loop, after)
  PROVE  /\ run' \in [Threads -> Runs] /\ Others(p)
         /\ run'[p].pc \in {loop, after} /\ run'[p].node = run[p].node
         /\ run'[p].at \in Nodes /\ run'[p].task = NoTask
         /\ run'[p].dest = run[p].dest /\ run'[p].then = run[p].then
<1>1. run[p].at \in 0..NumNodes
  BY DEF RunOK, Runs, Places, Nodes, NoNode
<1> DEFINE more == run[p].at < NumNodes
<1>2. (IF more THEN run[p].at + 1 ELSE 1) \in Nodes
  BY <1>1 DEF Nodes
<1>3. run[p] \in Runs
  BY DEF RunOK
<1>4. run' = [run EXCEPT ![p].pc = IF more THEN loop ELSE after,
                         ![p].at = IF more THEN run[p].at + 1 ELSE 1,
                         ![p].task = NoTask]
  BY DEF NextNode, RunOK
<1> HIDE DEF more
<1>5. PICK pc \in {loop, after}, at \in Nodes :
        run' = [run EXCEPT ![p].pc = pc, ![p].at = at, ![p].task = NoTask]
  BY <1>2, <1>4
<1> PICK r : r = [run[p] EXCEPT !.pc = pc, !.at = at, !.task = NoTask]
  OBVIOUS
<1>6. /\ r \in Runs /\ r.pc = pc /\ r.node = run[p].node /\ r.at = at
      /\ r.task = NoTask /\ r.dest = run[p].dest /\ r.then = run[p].then
  BY <1>3, <1>5 DEF Runs, Places
<1>7. run \in [Threads -> Runs] /\ run' = [run EXCEPT ![p] = r]
  BY <1>5 DEF RunOK
<1>8. run' \in [Threads -> Runs] /\ Others(p) /\ run'[p] = r
  BY <1>6, <1>7 DEF Others
<1> QED
  BY <1>5, <1>6, <1>8

\* The loop that reclaims.
LEMMA LoopFacts ==
  ASSUME RunOK, NEW p \in Threads, NextNode(p, "look", AfterReclaim(p))
  PROVE  /\ run' \in [Threads -> Runs] /\ Others(p)
         /\ run'[p].pc \in {"look", AfterReclaim(p)} /\ run'[p].node = run[p].node
         /\ run'[p].at \in Nodes
<1>1. "look" \in Commands /\ AfterReclaim(p) \in Commands
  BY DEF AfterReclaim, Commands
<1> QED
  BY <1>1, NextNodeFacts

LEMMA IdleFacts ==
  /\ Idle \in Runs /\ Idle.pc = "idle" /\ Idle.task = NoTask /\ Idle.node = NoNode
  /\ \A p \in Threads : GoodRun(p, Idle)
  BY DEF Idle, Runs, Commands, Places, GoodRun, WithTask, WithNode, Draining, Reclaiming

\* The thread begins something, or has nothing left to do.
LEMMA RunFacts ==
  ASSUME RunOK, NEW p \in Threads, NEW r \in Runs, run' = [run EXCEPT ![p] = r]
  PROVE  run' \in [Threads -> Runs] /\ Others(p) /\ run'[p] = r
  BY DEF RunOK, Others

----------------------------------------------------------------------------
(* Most commands write no row and move no entry *)

\* The types of what is neither a row, a queue nor a thread's.
Rest ==
  /\ fresh \subseteq Nodes
  /\ cur \in [Nodes -> Tasks \cup {NoTask}]
  /\ lock \in BOOLEAN
  /\ requeues \in 0..MaxRequeues /\ crashes \in 0..MaxCrashes

StepOf(p) ==
  /\ run' \in [Threads -> Runs] /\ Others(p)
  /\ GoodRun(p, run'[p])

\* Nobody else sees more than before.
SeesLess(p) ==
  /\ sees' \in [Threads -> SUBSET (Nodes \cup Tasks)]
  /\ \A q \in Threads \ {p} : sees'[q] \subseteq sees[q]

Quiet(p) ==
  /\ UNCHANGED <<status, assigned, queue>>
  /\ handed' \subseteq Tasks
  /\ \A t \in handed' :
       t \in handed \/ (status[t] \in Active /\ assigned[t] \in Nodes)
  /\ raced' \in BOOLEAN /\ (raced => raced')
  /\ ViewOK(p)'
  /\ \A t \in Tasks : HasInHand(p, t)' => HasInHand(p, t)
  /\ crashes' = 0 =>
       crashes = 0 /\ \A t \in Tasks : status[t] = "queued" /\ HeldBy(p, t) => HeldBy(p, t)'

LEMMA OthersViews ==
  ASSUME TInv, NEW p \in Threads, NEW q \in Threads \ {p}, Others(p), SeesLess(p),
         \A t \in sees'[q] : status'[t] = status[t] /\ assigned'[t] = assigned[t]
  PROVE  ViewOK(q)'
<1>1. run'[q] = run[q] /\ sees'[q] \subseteq sees[q] /\ ViewOK(q)
  BY DEF Others, SeesLess, TInv, Views
<1> QED
  BY <1>1 DEF ViewOK

LEMMA OthersHands ==
  ASSUME NEW p \in Threads, NEW q \in Threads \ {p}, Others(p), NEW t
  PROVE  /\ HasInHand(q, t)' <=> HasInHand(q, t)
         /\ assigned'[t] = assigned[t] => (HeldBy(q, t)' <=> HeldBy(q, t))
  BY DEF Others, HasInHand, HeldBy

LEMMA QuietInv ==
  ASSUME IInv, NEW p \in Threads, StepOf(p), SeesLess(p), Quiet(p), Rest', LockInv'
  PROVE  IInv'
<1>1. TypeOK'
  BY DEF IInv, TInv, TypeOK, Rest, SeesLess, Quiet
<1>2. RunOK'
  BY DEF IInv, TInv, RunOK, StepOf, Others
<1>3. Views'
  <2>1. \A t \in handed' : status'[t] \in Active /\ assigned'[t] \in Nodes
    BY DEF IInv, TInv, Views, Quiet
  <2>2. \A q \in Threads \ {p} : ViewOK(q)'
    BY OthersViews DEF IInv, StepOf, Quiet
  <2> QED
    BY <2>1, <2>2 DEF Quiet, Views
<1>4. HandInv'
  <2>1. \A q \in Threads, t \in Tasks : HasInHand(q, t)' => HasInHand(q, t)
    BY OthersHands DEF StepOf, Quiet
  <2>2. \A t \in Tasks : (OneEntry(t)' <=> OneEntry(t))
                          /\ \A k \in Places : Occurs(t, k)' <=> Occurs(t, k)
    BY DEF Quiet, OneEntry, Occurs
  <2> QED
    BY <2>1, <2>2 DEF IInv, HandInv, Quiet
<1>5. KeptInv'
  <2> SUFFICES ASSUME crashes' = 0, NEW t \in Tasks, status'[t] = "queued"
               PROVE  Occurs(t, assigned[t])' \/ Held(t)'
    BY DEF KeptInv
  <2>1. crashes = 0 /\ status[t] = "queued"
    BY DEF Quiet
  <2>2. CASE Occurs(t, assigned[t])
    BY <2>2 DEF Quiet, Occurs
  <2>3. CASE Held(t)
    <3>1. PICK q \in Threads : HeldBy(q, t)
      BY <2>3 DEF Held
    <3>2. HeldBy(q, t)'
      BY <2>1, <3>1, OthersHands DEF StepOf, Quiet
    <3> QED
      BY <3>2 DEF Held
  <2> QED
    BY <2>1, <2>2, <2>3 DEF IInv, KeptInv
<1> QED
  BY <1>1, <1>2, <1>3, <1>4, <1>5 DEF IInv, TInv

\* A step that leaves the lock alone and does not begin a sweep.
LEMMA LockStays ==
  ASSUME IInv, NEW p \in Threads, Others(p), lock' = lock,
         p \in Sweepers /\ run[p].pc = "idle" => run'[p].pc = "idle"
  PROVE  LockInv'
<1>1. \A q \in Sweepers : Sweeping(q)' => Sweeping(q)
  BY DEF Sweeping, Busy, Others, Threads
<1> QED
  BY <1>1 DEF IInv, LockInv

\* What the thread sees
LEMMA ReadsFacts ==
  ASSUME TInv, NEW p \in Threads, NEW keys \in SUBSET (Nodes \cup Tasks), Reads(p, keys)
  PROVE  SeesLess(p) /\ raced' = raced /\ raced \in BOOLEAN
         /\ sees'[p] = sees[p] \cup keys
  BY DEF TInv, TypeOK, Reads, SeesLess

LEMMA WritesFacts ==
  ASSUME TInv, NEW p \in Threads, NEW key, Writes(p, key)
  PROVE  /\ SeesLess(p) /\ sees'[p] = sees[p]
         /\ \A q \in Threads \ {p} : sees'[q] = sees[q] \ {key}
         /\ raced' \in BOOLEAN /\ (raced => raced')
         /\ ~raced' => key \in sees[p]
  BY DEF TInv, TypeOK, Writes, SeesLess

LEMMA DoneFacts ==
  ASSUME TInv, NEW p \in Threads, Done(p)
  PROVE  /\ StepOf(p) /\ SeesLess(p) /\ ViewOK(p)' /\ raced' = raced /\ raced \in BOOLEAN
         /\ run'[p].pc = "idle" /\ \A t : ~HasInHand(p, t)'
<1>1. StepOf(p) /\ run'[p] = Idle
  BY IdleFacts, RunFacts DEF TInv, Done, StepOf
<1>2. SeesLess(p) /\ sees'[p] = {} /\ raced' = raced /\ raced \in BOOLEAN
  BY DEF TInv, TypeOK, Done, SeesLess
<1> QED
  BY <1>1, <1>2, IdleFacts DEF ViewOK, HasInHand

LEMMA SeesSame ==
  ASSUME TInv, NEW p \in Threads, UNCHANGED ghosts
  PROVE  SeesLess(p) /\ sees' = sees /\ raced' = raced /\ raced \in BOOLEAN
  BY DEF TInv, TypeOK, ghosts, SeesLess

\* Commands at which a thread has nothing in hand and needs no view.
Handless == {"idle", "look", "check", "clear", "drain", "pop", "unlock", "resume",
             "unset", "take", "share", "none", "free"}

LEMMA PlainInv ==
  ASSUME IInv, NEW p \in Threads, StepOf(p), SeesLess(p), Rest', LockInv',
         UNCHANGED <<status, assigned, handed, queue, crashes>>,
         raced' \in BOOLEAN, raced => raced',
         run[p].pc \in Handless \cup {"point", "answer"}, run'[p].pc \in Handless
  PROVE  IInv'
<1>1. ViewOK(p)'
  BY DEF Handless, ViewOK
<1>2. \A t \in Tasks : ~HasInHand(p, t)' /\ ~HeldBy(p, t)
  BY DEF Handless, HasInHand, HeldBy
<1>3. Quiet(p)
  BY <1>1, <1>2 DEF Quiet, IInv, TInv, TypeOK
<1> QED
  BY <1>3, QuietInv

LEMMA RestSame ==
  ASSUME IInv, UNCHANGED <<fresh, cur, lock, requeues, crashes>>
  PROVE  Rest'
  BY DEF IInv, TInv, TypeOK, Rest

LEMMA BeginSweepInv ==
  ASSUME IInv, NEW p \in Threads, BeginSweep(p)
  PROVE  IInv'
<1> PICK r : r = [Idle EXCEPT !.pc = "look", !.at = 1]
  OBVIOUS
<1>1. /\ p \in Sweepers /\ run[p].pc = "idle" /\ ~lock /\ lock' = TRUE
      /\ run' = [run EXCEPT ![p] = r] /\ UNCHANGED ghosts
      /\ UNCHANGED <<fresh, cur, status, assigned, handed, queue, requeues, crashes>>
  BY DEF BeginSweep, Busy, rows, bounds
<1>2. r \in Runs /\ r.pc = "look" /\ r.at = 1 /\ 1 \in Nodes
  <2>1. 1 \in Nodes
    BY DEF Nodes
  <2> QED
    BY <2>1 DEF Idle, Runs, Commands, Places
<1>3. StepOf(p) /\ run'[p].pc = "look"
  BY <1>1, <1>2, RunFacts
  DEF IInv, TInv, StepOf, GoodRun, WithTask, WithNode, Draining, Reclaiming
<1>4. Rest'
  BY <1>1 DEF IInv, TInv, TypeOK, Rest
<1>5. LockInv'
  <2>1. Overruns \/ \A q \in Sweepers : ~Sweeping(q)
    BY <1>1 DEF IInv, LockInv
  <2>2. Overruns \/ \A q \in Sweepers : Sweeping(q)' => q = p
    BY <1>3, <2>1 DEF StepOf, Others, Sweeping, Busy, Threads
  <2> QED
    BY <1>1, <2>2 DEF LockInv
<1> QED
  BY <1>1, <1>3, <1>4, <1>5, PlainInv, SeesSame DEF IInv, Handless

LEMMA BeginClaimInv ==
  ASSUME IInv, NEW p \in Threads, NEW n \in Nodes, BeginClaim(p, n)
  PROVE  IInv'
<1> PICK r : r = [Idle EXCEPT !.pc = "look", !.node = n, !.at = 1]
  OBVIOUS
<1>1. /\ p \in Workers /\ run[p].pc = "idle"
      /\ run' = [run EXCEPT ![p] = r] /\ UNCHANGED ghosts
      /\ UNCHANGED <<fresh, cur, status, assigned, handed, queue, lock, requeues, crashes>>
  BY DEF BeginClaim, Busy, rows, bounds
<1>2. r \in Runs /\ r.pc = "look" /\ r.node = n /\ r.at = 1 /\ 1 \in Nodes
  <2>1. 1 \in Nodes
    BY DEF Nodes
  <2> QED
    BY <2>1 DEF Idle, Runs, Commands, Places
<1>3. StepOf(p) /\ run'[p].pc = "look"
  BY <1>1, <1>2, RunFacts
  DEF IInv, TInv, StepOf, GoodRun, WithTask, WithNode, Draining, Reclaiming
<1>4. Rest' /\ LockInv'
  BY <1>1, <1>3, RestSame, LockStays DEF StepOf
<1> QED
  BY <1>1, <1>3, <1>4, PlainInv, SeesSame DEF IInv, Handless

\* The token was good a moment ago, and the thread sees the row.
LEMMA BeginWorkInv ==
  ASSUME IInv, NEW p \in Threads, NEW t \in Tasks, NEW pc \in {"download", "settle"},
         BeginWork(p, t, pc)
  PROVE  IInv'
<1> PICK r : r = [Idle EXCEPT !.pc = pc, !.node = assigned[t], !.task = t]
  OBVIOUS
<1>1. /\ p \in Workers /\ run[p].pc = "idle" /\ t \in handed
      /\ run' = [run EXCEPT ![p] = r] /\ Reads(p, {t, assigned[t]})
      /\ UNCHANGED <<fresh, cur, status, assigned, handed, queue, lock, requeues, crashes>>
  BY DEF BeginWork, Busy, rows, bounds
<1>2. status[t] \in Active /\ assigned[t] \in Nodes
  BY <1>1 DEF IInv, TInv, Views
<1>3. r \in Runs /\ r.pc = pc /\ r.node = assigned[t] /\ r.task = t
  BY <1>2 DEF Idle, Runs, Commands, Places
<1>4. StepOf(p) /\ run'[p].pc = pc /\ run'[p].task = t
  BY <1>1, <1>2, <1>3, RunFacts
  DEF IInv, TInv, StepOf, GoodRun, WithTask, WithNode, Draining, Reclaiming
<1>5. Rest' /\ LockInv'
  BY <1>1, <1>4, RestSame, LockStays DEF StepOf
<1>6. SeesLess(p) /\ raced' = raced /\ raced \in BOOLEAN
  BY <1>1, <1>2, ReadsFacts DEF IInv
<1>7. Quiet(p)
  <2>1. ViewOK(p)'
    BY <1>1, <1>2, <1>4 DEF ViewOK
  <2>2. \A u \in Tasks : ~HasInHand(p, u)' /\ ~HeldBy(p, u)
    BY <1>1, <1>4 DEF HasInHand, HeldBy
  <2> QED
    BY <1>1, <1>6, <2>1, <2>2 DEF Quiet, IInv, TInv, TypeOK
<1> QED
  BY <1>4, <1>5, <1>6, <1>7, QuietInv

LEMMA EndSweepInv ==
  ASSUME IInv, NEW p \in Threads, EndSweep(p)
  PROVE  IInv'
<1>1. /\ run[p].pc = "unlock" /\ lock' = FALSE /\ Done(p)
      /\ UNCHANGED <<fresh, cur, status, assigned, handed, queue, requeues, crashes>>
  BY DEF EndSweep, rows, bounds
<1>2. p \in Sweepers
  BY <1>1 DEF IInv, TInv, RunOK, GoodRun, Draining
<1>3. StepOf(p) /\ SeesLess(p) /\ raced' = raced /\ raced \in BOOLEAN /\ run'[p].pc = "idle"
  BY <1>1, DoneFacts DEF IInv
<1>4. Rest'
  BY <1>1 DEF IInv, TInv, TypeOK, Rest
<1>5. LockInv'
  <2>1. \A q \in Sweepers : Sweeping(q)' => q # p /\ Sweeping(q)
    BY <1>3 DEF StepOf, Others, Sweeping, Busy, Threads
  <2>2. Sweeping(p)
    BY <1>1, <1>2 DEF Sweeping, Busy
  <2> QED
    BY <1>2, <2>1, <2>2 DEF IInv, LockInv
<1> QED
  BY <1>1, <1>3, <1>4, <1>5, PlainInv DEF Handless

LEMMA LookInv ==
  ASSUME IInv, NEW p \in Threads, Look(p)
  PROVE  IInv'
<1> PICK n : n = run[p].at
  OBVIOUS
<1>1. /\ run[p].pc = "look"
      /\ UNCHANGED <<fresh, cur, status, assigned, handed, queue, lock, requeues, crashes>>
      /\ \/ NextNode(p, "look", AfterReclaim(p)) /\ UNCHANGED ghosts
         \/ /\ cur[n] # NoTask /\ Reads(p, {n})
            /\ run' = [run EXCEPT ![p].pc = "check", ![p].task = cur[n]]
  BY DEF Look, rows, bounds
<1>2. /\ run[p] \in Runs /\ n \in Nodes
      /\ p \in Sweepers \/ run[p].node \in Nodes
      /\ cur[n] \in Tasks \cup {NoTask}
  BY <1>1 DEF IInv, TInv, TypeOK, RunOK, GoodRun, Reclaiming
<1>3. CASE NextNode(p, "look", AfterReclaim(p)) /\ UNCHANGED ghosts
  <2>1. AfterReclaim(p) \in {"drain", "resume"}
        /\ (AfterReclaim(p) = "drain" <=> p \in Sweepers)
    BY DEF AfterReclaim
  <2>2. /\ run' \in [Threads -> Runs] /\ Others(p)
        /\ run'[p].pc \in {"look", AfterReclaim(p)} /\ run'[p].node = run[p].node
        /\ run'[p].at \in Nodes
    BY <1>3, LoopFacts DEF IInv, TInv
  <2>3. StepOf(p)
    BY <1>2, <2>1, <2>2 DEF StepOf, GoodRun, WithTask, WithNode, Draining, Reclaiming
  <2>4. Rest' /\ LockInv'
    BY <1>1, <2>2, RestSame, LockStays
  <2>5. SeesLess(p) /\ raced' = raced /\ raced \in BOOLEAN
    BY <1>3, SeesSame DEF IInv
  <2> QED
    BY <1>1, <2>1, <2>2, <2>3, <2>4, <2>5, PlainInv DEF Handless
<1>4. CASE /\ cur[n] # NoTask /\ Reads(p, {n})
           /\ run' = [run EXCEPT ![p].pc = "check", ![p].task = cur[n]]
  <2>1. /\ run' \in [Threads -> Runs] /\ Others(p)
        /\ run'[p].pc = "check" /\ run'[p].node = run[p].node
        /\ run'[p].task = cur[n] /\ run'[p].then = run[p].then
    BY <1>2, <1>4 DEF IInv, TInv, RunOK, Runs, Commands, Others
  <2>2. StepOf(p)
    BY <1>2, <1>4, <2>1 DEF StepOf, GoodRun, WithTask, WithNode, Draining, Reclaiming
  <2>3. Rest' /\ LockInv'
    BY <1>1, <2>1, RestSame, LockStays
  <2>4. SeesLess(p) /\ raced' = raced /\ raced \in BOOLEAN
    BY <1>2, <1>4, ReadsFacts DEF IInv
  <2> QED
    BY <1>1, <2>1, <2>2, <2>3, <2>4, PlainInv DEF Handless
<1> QED
  BY <1>1, <1>3, <1>4

\* The task is put back if its status is one of those wanted.
LEMMA DecideFacts ==
  ASSUME IInv, NEW p \in Threads, run[p].task \in Tasks, run[p].pc # "idle",
         NEW wanted, NEW after \in {"clear", "pop"}, Decide(p, wanted, after)
  PROVE  /\ run' \in [Threads -> Runs] /\ Others(p)
         /\ run'[p].task = run[p].task /\ run'[p].node = run[p].node
         /\ \/ status[run[p].task] \in wanted /\ run'[p].pc = "put" /\ run'[p].then = after
            \/ status[run[p].task] \notin wanted /\ run'[p].pc = after
         /\ UNCHANGED <<status, assigned, handed, queue, crashes>>
         /\ SeesLess(p) /\ raced' = raced /\ raced \in BOOLEAN
         /\ Rest' /\ LockInv'
<1> PICK t : t = run[p].task
  OBVIOUS
<1>1. /\ UNCHANGED <<fresh, cur, status, assigned, handed, queue, lock, crashes>>
      /\ Reads(p, {t})
      /\ \/ /\ status[t] \in wanted
            /\ requeues < MaxRequeues /\ requeues' = requeues + 1
            /\ \E d \in Places : run' = [run EXCEPT ![p].pc = "put", ![p].dest = d,
                                                     ![p].then = after]
         \/ status[t] \notin wanted /\ Goto(p, after) /\ requeues' = requeues
  BY DEF Decide, rows, Places
<1>2. /\ run' \in [Threads -> Runs] /\ Others(p)
      /\ run'[p].task = run[p].task /\ run'[p].node = run[p].node
      /\ \/ status[t] \in wanted /\ run'[p].pc = "put" /\ run'[p].then = after
         \/ status[t] \notin wanted /\ run'[p].pc = after
  <2>1. CASE status[t] \in wanted
    <3>1. PICK d \in Places : run' = [run EXCEPT ![p].pc = "put", ![p].dest = d,
                                                 ![p].then = after]
      BY <1>1, <2>1
    <3>2. run[p] \in Runs
      BY DEF IInv, TInv, RunOK
    <3> PICK r : r = [run[p] EXCEPT !.pc = "put", !.dest = d, !.then = after]
      OBVIOUS
    <3>3. /\ r \in Runs /\ r.pc = "put" /\ r.then = after
          /\ r.task = run[p].task /\ r.node = run[p].node
      BY <3>2 DEF Runs, Commands
    <3>4. run' = [run EXCEPT ![p] = r]
      BY <3>1 DEF IInv, TInv, RunOK
    <3> QED
      BY <2>1, <3>3, <3>4, RunFacts DEF IInv, TInv
  <2>2. CASE status[t] \notin wanted
    BY <1>1, <2>2, GotoFacts DEF IInv, TInv, Commands
  <2> QED
    BY <2>1, <2>2
<1>3. SeesLess(p) /\ raced' = raced /\ raced \in BOOLEAN
  BY <1>1, ReadsFacts DEF IInv
<1>4. Rest'
  <2>1. requeues' \in 0..MaxRequeues
    <3>1. requeues \in 0..MaxRequeues
      BY DEF IInv, TInv, TypeOK
    <3>2. requeues' = requeues \/ (requeues < MaxRequeues /\ requeues' = requeues + 1)
      BY <1>1
    <3> QED
      BY <3>1, <3>2
  <2> QED
    BY <1>1, <2>1 DEF IInv, TInv, TypeOK, Rest
<1>5. LockInv'
  BY <1>1, <1>2, LockStays
<1> QED
  BY <1>1, <1>2, <1>3, <1>4, <1>5

LEMMA CheckInv ==
  ASSUME IInv, NEW p \in Threads, Check(p)
  PROVE  IInv'
<1>1. run[p].pc = "check" /\ Decide(p, Active, "clear")
  BY DEF Check
<1>2. run[p].task \in Tasks /\ (p \in Sweepers \/ run[p].node \in Nodes)
  BY <1>1 DEF IInv, TInv, RunOK, GoodRun, WithTask, Reclaiming
<1>3. /\ run' \in [Threads -> Runs] /\ Others(p)
      /\ run'[p].task = run[p].task /\ run'[p].node = run[p].node
      /\ \/ status[run[p].task] \in Active /\ run'[p].pc = "put" /\ run'[p].then = "clear"
         \/ run'[p].pc = "clear"
      /\ UNCHANGED <<status, assigned, handed, queue, crashes>>
      /\ SeesLess(p) /\ raced' = raced /\ raced \in BOOLEAN
      /\ Rest' /\ LockInv'
  BY <1>1, <1>2, DecideFacts
<1>4. StepOf(p)
  BY <1>2, <1>3 DEF StepOf, GoodRun, WithTask, WithNode, Draining, Reclaiming
<1>5. Quiet(p)
  <2>1. ViewOK(p)'
    BY <1>3 DEF ViewOK
  <2>2. \A t \in Tasks : ~HasInHand(p, t)' /\ ~HeldBy(p, t)
    BY <1>1, <1>3 DEF HasInHand, HeldBy
  <2> QED
    BY <1>3, <2>1, <2>2 DEF Quiet, IInv, TInv, TypeOK
<1> QED
  BY <1>3, <1>4, <1>5, QuietInv

\* A task that is done with is not put back, which a waiting one is.
LEMMA RecheckInv ==
  ASSUME IInv, NEW p \in Threads, Recheck(p)
  PROVE  IInv'
<1>1. run[p].pc = "recheck" /\ Decide(p, Active \cup {"queued"}, "pop")
  BY DEF Recheck
<1>2. run[p].task \in Tasks /\ p \in Sweepers
  BY <1>1 DEF IInv, TInv, RunOK, GoodRun, WithTask, Draining
<1>3. /\ run' \in [Threads -> Runs] /\ Others(p)
      /\ run'[p].task = run[p].task
      /\ \/ run'[p].pc = "put" /\ run'[p].then = "pop"
         \/ status[run[p].task] # "queued" /\ run'[p].pc = "pop"
      /\ UNCHANGED <<status, assigned, handed, queue, crashes>>
      /\ SeesLess(p) /\ raced' = raced /\ raced \in BOOLEAN
      /\ Rest' /\ LockInv'
  BY <1>1, <1>2, DecideFacts
<1>4. StepOf(p)
  BY <1>2, <1>3 DEF StepOf, GoodRun, WithTask, WithNode, Draining, Reclaiming
<1>5. Quiet(p)
  <2>1. ViewOK(p)'
    BY <1>3 DEF ViewOK
  <2>2. \A t \in Tasks : HasInHand(p, t)' => HasInHand(p, t)
    BY <1>1, <1>3 DEF HasInHand
  <2>3. \A t \in Tasks : status[t] = "queued" /\ HeldBy(p, t) => HeldBy(p, t)'
    BY <1>1, <1>3 DEF HeldBy
  <2> QED
    BY <1>3, <2>1, <2>2, <2>3 DEF Quiet, IInv, TInv, TypeOK
<1> QED
  BY <1>3, <1>4, <1>5, QuietInv

LEMMA DrainInv ==
  ASSUME IInv, NEW p \in Threads, Drain(p)
  PROVE  IInv'
<1>1. /\ run[p].pc = "drain" /\ UNCHANGED ghosts
      /\ NextNode(p, "drain", "unlock") \/ Goto(p, "pop")
      /\ UNCHANGED <<fresh, cur, status, assigned, handed, queue, lock, requeues, crashes>>
  BY DEF Drain, rows, bounds
<1>2. p \in Sweepers
  BY <1>1 DEF IInv, TInv, RunOK, GoodRun, Draining
<1>3. run' \in [Threads -> Runs] /\ Others(p) /\ run'[p].pc \in {"drain", "unlock", "pop"}
  <2>1. CASE NextNode(p, "drain", "unlock")
    BY <2>1, NextNodeFacts DEF IInv, TInv, Commands
  <2>2. CASE Goto(p, "pop")
    BY <2>2, GotoFacts DEF IInv, TInv, Commands
  <2> QED
    BY <1>1, <2>1, <2>2
<1>4. StepOf(p)
  BY <1>2, <1>3 DEF StepOf, GoodRun, WithTask, WithNode, Draining, Reclaiming
<1>5. Rest' /\ LockInv'
  BY <1>1, <1>3, RestSame, LockStays
<1> QED
  BY <1>1, <1>3, <1>4, <1>5, PlainInv, SeesSame DEF IInv, Handless

\* The loop goes on with another node, or with what follows it.
LEMMA ClearInv ==
  ASSUME IInv, NEW p \in Threads, Clear(p)
  PROVE  IInv'
<1>1. /\ run[p].pc = "clear" /\ Writes(p, run[p].at)
      /\ cur' = [cur EXCEPT ![run[p].at] = NoTask]
      /\ NextNode(p, "look", AfterReclaim(p))
      /\ UNCHANGED <<fresh, status, assigned, handed, queue, lock, requeues, crashes>>
  BY DEF Clear, rows, bounds
<1>2. p \in Sweepers \/ run[p].node \in Nodes
  BY <1>1 DEF IInv, TInv, RunOK, GoodRun, Reclaiming
<1>3. AfterReclaim(p) \in {"drain", "resume"} /\ (AfterReclaim(p) = "drain" <=> p \in Sweepers)
  BY DEF AfterReclaim
<1>4. /\ run' \in [Threads -> Runs] /\ Others(p)
      /\ run'[p].pc \in {"look", AfterReclaim(p)} /\ run'[p].node = run[p].node
      /\ run'[p].at \in Nodes
  BY <1>1, LoopFacts DEF IInv, TInv
<1>5. StepOf(p)
  BY <1>2, <1>3, <1>4 DEF StepOf, GoodRun, WithTask, WithNode, Draining, Reclaiming
<1>6. Rest' /\ LockInv'
  <2>1. cur' \in [Nodes -> Tasks \cup {NoTask}]
    BY <1>1 DEF IInv, TInv, TypeOK
  <2>2. Rest'
    BY <1>1, <2>1 DEF IInv, TInv, TypeOK, Rest
  <2> QED
    BY <1>1, <1>4, <2>2, LockStays
<1>7. SeesLess(p) /\ raced' \in BOOLEAN /\ (raced => raced')
  BY <1>1, WritesFacts DEF IInv
<1> QED
  BY <1>1, <1>3, <1>4, <1>5, <1>6, <1>7, PlainInv DEF Handless

\* A claim ends with the work in progress, or drops a pointer to work that is
\* none.
LEMMA ResumeInv ==
  ASSUME IInv, NEW p \in Threads, Resume(p)
  PROVE  IInv'
<1> PICK n : n = run[p].node
  OBVIOUS
<1>1. /\ run[p].pc = "resume"
      /\ UNCHANGED <<fresh, cur, status, assigned, queue, lock, requeues, crashes>>
      /\ \/ /\ cur[n] # NoTask /\ status[cur[n]] \in Active /\ Done(p)
            /\ handed' = handed \/ (assigned[cur[n]] = n /\ handed' = handed \cup {cur[n]})
         \/ /\ Goto(p, "take") \/ Goto(p, "unset")
            /\ Reads(p, {n}) /\ UNCHANGED handed
  BY DEF Resume, bounds
<1>2. n \in Nodes /\ cur[n] \in Tasks \cup {NoTask}
  BY <1>1 DEF IInv, TInv, TypeOK, RunOK, GoodRun, WithNode
<1>3. CASE /\ cur[n] # NoTask /\ status[cur[n]] \in Active /\ Done(p)
           /\ handed' = handed \/ (assigned[cur[n]] = n /\ handed' = handed \cup {cur[n]})
  <2>1. /\ StepOf(p) /\ SeesLess(p) /\ ViewOK(p)' /\ raced' = raced /\ raced \in BOOLEAN
        /\ run'[p].pc = "idle" /\ \A t : ~HasInHand(p, t)'
    BY <1>3, DoneFacts DEF IInv
  <2>2. Rest' /\ LockInv'
    BY <1>1, <2>1, RestSame, LockStays DEF StepOf
  <2>3. handed' \subseteq Tasks
        /\ \A t \in handed' : t \in handed \/ (status[t] \in Active /\ assigned[t] \in Nodes)
    BY <1>2, <1>3 DEF IInv, TInv, TypeOK
  <2>4. \A t \in Tasks : ~HeldBy(p, t)
    BY <1>1 DEF HeldBy
  <2>5. Quiet(p)
    BY <1>1, <2>1, <2>3, <2>4 DEF Quiet, IInv, TInv, TypeOK
  <2> QED
    BY <2>1, <2>2, <2>5, QuietInv
<1>4. CASE /\ Goto(p, "take") \/ Goto(p, "unset")
           /\ Reads(p, {n}) /\ UNCHANGED handed
  <2>1. /\ run' \in [Threads -> Runs] /\ Others(p)
        /\ run'[p].pc \in {"take", "unset"} /\ run'[p].node = n
    BY <1>4, GotoFacts DEF IInv, TInv, Commands
  <2>2. StepOf(p)
    BY <1>2, <2>1 DEF StepOf, GoodRun, WithTask, WithNode, Draining, Reclaiming
  <2>3. Rest' /\ LockInv'
    BY <1>1, <2>1, RestSame, LockStays
  <2>4. SeesLess(p) /\ raced' = raced /\ raced \in BOOLEAN
    BY <1>2, <1>4, ReadsFacts DEF IInv
  <2> QED
    BY <1>1, <1>4, <2>1, <2>2, <2>3, <2>4, PlainInv DEF Handless
<1> QED
  BY <1>1, <1>3, <1>4

\* The steps that write the pointer of a node, and hear of it.
LEMMA PointerInv ==
  ASSUME IInv, NEW p \in Threads, Unset(p) \/ Free(p)
  PROVE  IInv'
<1>1. /\ run[p].pc \in {"unset", "free"} /\ Writes(p, run[p].node)
      /\ cur' = [cur EXCEPT ![run[p].node] = NoTask]
      /\ Goto(p, "take") \/ Goto(p, "none")
      /\ fresh' = fresh \/ fresh' = fresh \cup {run[p].node}
      /\ UNCHANGED <<status, assigned, handed, queue, lock, requeues, crashes>>
  BY DEF Unset, Free, rows, bounds
<1>2. run[p].node \in Nodes
  BY <1>1 DEF IInv, TInv, RunOK, GoodRun, WithNode
<1>3. /\ run' \in [Threads -> Runs] /\ Others(p)
      /\ run'[p].pc \in {"take", "none"} /\ run'[p].node = run[p].node
  BY <1>1, GotoFacts DEF IInv, TInv, Commands
<1>4. StepOf(p)
  BY <1>2, <1>3 DEF StepOf, GoodRun, WithTask, WithNode, Draining, Reclaiming
<1>5. Rest' /\ LockInv'
  <2>1. cur' \in [Nodes -> Tasks \cup {NoTask}] /\ fresh' \subseteq Nodes
    BY <1>1, <1>2 DEF IInv, TInv, TypeOK
  <2>2. Rest'
    BY <1>1, <2>1 DEF IInv, TInv, TypeOK, Rest
  <2> QED
    BY <1>1, <1>3, <2>2, LockStays
<1>6. SeesLess(p) /\ raced' \in BOOLEAN /\ (raced => raced')
  BY <1>1, WritesFacts DEF IInv
<1> QED
  BY <1>1, <1>3, <1>4, <1>5, <1>6, PlainInv DEF Handless

LEMMA PointInv ==
  ASSUME IInv, NEW p \in Threads, Point(p)
  PROVE  IInv'
<1>1. /\ run[p].pc = "point" /\ Writes(p, run[p].node) /\ Goto(p, "answer")
      /\ cur' = [cur EXCEPT ![run[p].node] = run[p].task]
      /\ fresh' = fresh \cup {run[p].node}
      /\ UNCHANGED <<status, assigned, handed, queue, lock, requeues, crashes>>
  BY DEF Point, rows, bounds
<1>2. run[p].node \in Nodes /\ run[p].task \in Tasks
  BY <1>1 DEF IInv, TInv, RunOK, GoodRun, WithNode, WithTask
<1>3. /\ run' \in [Threads -> Runs] /\ Others(p)
      /\ run'[p].pc = "answer" /\ run'[p].node = run[p].node /\ run'[p].task = run[p].task
  BY <1>1, GotoFacts DEF IInv, TInv, Commands
<1>4. StepOf(p)
  BY <1>2, <1>3 DEF StepOf, GoodRun, WithTask, WithNode, Draining, Reclaiming
<1>5. Rest' /\ LockInv'
  <2>1. cur' \in [Nodes -> Tasks \cup {NoTask}] /\ fresh' \subseteq Nodes
    BY <1>1, <1>2 DEF IInv, TInv, TypeOK
  <2>2. Rest'
    BY <1>1, <2>1 DEF IInv, TInv, TypeOK, Rest
  <2> QED
    BY <1>1, <1>3, <2>2, LockStays
<1>6. SeesLess(p) /\ raced' \in BOOLEAN /\ (raced => raced') /\ sees'[p] = sees[p]
  BY <1>1, WritesFacts DEF IInv
<1>7. Quiet(p)
  <2>1. ViewOK(p)'
    BY <1>1, <1>3, <1>6 DEF ViewOK, IInv, TInv, Views
  <2>2. \A t \in Tasks : ~HasInHand(p, t)' /\ ~HeldBy(p, t)
    BY <1>1, <1>3 DEF HasInHand, HeldBy
  <2> QED
    BY <1>1, <1>6, <2>1, <2>2 DEF Quiet, IInv, TInv, TypeOK
<1> QED
  BY <1>4, <1>5, <1>6, <1>7, QuietInv

\* The token is good if the row is still as the claim wrote it.
LEMMA AnswerInv ==
  ASSUME IInv, NEW p \in Threads, Answer(p)
  PROVE  IInv'
<1> PICK t : t = run[p].task
  OBVIOUS
<1>1. /\ run[p].pc \in {"answer", "none"} /\ Done(p)
      /\ \/ handed' = handed
         \/ run[p].pc = "answer" /\ t \in sees[p] /\ handed' = handed \cup {t}
      /\ UNCHANGED <<fresh, cur, status, assigned, queue, lock, requeues, crashes>>
  BY DEF Answer, bounds
<1>2. /\ StepOf(p) /\ SeesLess(p) /\ ViewOK(p)' /\ raced' = raced /\ raced \in BOOLEAN
      /\ run'[p].pc = "idle" /\ \A u : ~HasInHand(p, u)'
  BY <1>1, DoneFacts DEF IInv
<1>3. Rest' /\ LockInv'
  BY <1>1, <1>2, RestSame, LockStays DEF StepOf
<1>4. run[p].pc = "answer" => t \in Tasks /\ run[p].node \in Nodes
  BY DEF IInv, TInv, RunOK, GoodRun, WithTask, WithNode
<1>5. run[p].pc = "answer" /\ t \in sees[p] => status[t] \in Active /\ assigned[t] \in Nodes
  BY <1>4 DEF IInv, TInv, Views, ViewOK
<1>6. /\ handed' \subseteq Tasks
      /\ \A u \in handed' : u \in handed \/ (status[u] \in Active /\ assigned[u] \in Nodes)
  BY <1>1, <1>4, <1>5 DEF IInv, TInv, TypeOK
<1>7. \A u \in Tasks : ~HeldBy(p, u)
  BY <1>1 DEF HeldBy
<1>8. Quiet(p)
  BY <1>1, <1>2, <1>6, <1>7 DEF Quiet, IInv, TInv, TypeOK
<1> QED
  BY <1>2, <1>3, <1>8, QuietInv

\* An entry that is not where its row says is dropped.
LEMMA AcceptInv ==
  ASSUME IInv, NEW p \in Threads, Accept(p)
  PROVE  IInv'
<1> PICK t, n, k : t = run[p].task /\ n = run[p].node /\ k = run[p].dest
  OBVIOUS
<1>1. /\ run[p].pc = "accept"
      /\ \/ Goto(p, "mark") /\ Reads(p, {t})
         \/ /\ ~IF k = n THEN assigned[t] = n ELSE assigned[t] \in {n, NoNode}
            /\ Goto(p, "take") \/ Goto(p, "share")
            /\ UNCHANGED ghosts
      /\ UNCHANGED <<fresh, cur, status, assigned, handed, queue, lock, requeues, crashes>>
  BY DEF Accept, rows, bounds
<1>2. t \in Tasks /\ n \in Nodes /\ k \in {n, NoNode}
  BY <1>1 DEF IInv, TInv, RunOK, GoodRun, WithTask, WithNode
<1>3. /\ run' \in [Threads -> Runs] /\ Others(p)
      /\ run'[p].node = n /\ run'[p].task = t
      /\ \/ run'[p].pc = "mark"
         \/ run'[p].pc \in {"take", "share"} /\ assigned[t] # k
  BY <1>1, <1>2, GotoFacts DEF IInv, TInv, Commands
<1>4. StepOf(p)
  BY <1>2, <1>3 DEF StepOf, GoodRun, WithTask, WithNode, Draining, Reclaiming
<1>5. Rest' /\ LockInv'
  BY <1>1, <1>3, RestSame, LockStays
<1>6. SeesLess(p) /\ raced' = raced /\ raced \in BOOLEAN
  BY <1>1, <1>2, ReadsFacts, SeesSame DEF IInv
<1>7. Quiet(p)
  <2>1. ViewOK(p)'
    BY <1>3 DEF ViewOK
  <2>2. \A u \in Tasks : HasInHand(p, u)' => HasInHand(p, u)
    BY <1>1, <1>3 DEF HasInHand
  <2>3. \A u \in Tasks : HeldBy(p, u) => HeldBy(p, u)'
    BY <1>1, <1>3 DEF HeldBy
  <2> QED
    BY <1>1, <1>6, <2>1, <2>2, <2>3 DEF Quiet, IInv, TInv, TypeOK
<1> QED
  BY <1>4, <1>5, <1>6, <1>7, QuietInv

\* What a thread had in hand when it died may be lost, which the invariant
\* allows for.
LEMMA CrashInv ==
  ASSUME IInv, NEW p \in Threads, Crash(p)
  PROVE  IInv'
<1>1. /\ run[p].pc # "idle" /\ crashes < MaxCrashes /\ crashes' = crashes + 1 /\ Done(p)
      /\ lock' = lock \/ (p \in Sweepers /\ lock' = FALSE)
      /\ UNCHANGED <<fresh, cur, status, assigned, handed, queue, requeues>>
  BY DEF Crash, Busy, rows
<1>2. /\ StepOf(p) /\ SeesLess(p) /\ ViewOK(p)' /\ raced' = raced /\ raced \in BOOLEAN
      /\ run'[p].pc = "idle" /\ \A u : ~HasInHand(p, u)'
  BY <1>1, DoneFacts DEF IInv
<1>3. crashes' \in 0..MaxCrashes /\ crashes' # 0
  <2>1. crashes \in 0..MaxCrashes
    BY DEF IInv, TInv, TypeOK
  <2> QED
    BY <1>1, <2>1
<1>4. Rest'
  BY <1>1, <1>3 DEF IInv, TInv, TypeOK, Rest
<1>5. LockInv'
  <2>1. CASE lock' = lock
    BY <1>2, <2>1, LockStays DEF StepOf
  <2>2. CASE p \in Sweepers
    <3>1. \A q \in Sweepers : Sweeping(q)' => q # p /\ Sweeping(q)
      BY <1>2 DEF StepOf, Others, Sweeping, Busy, Threads
    <3>2. Sweeping(p)
      BY <1>1, <2>2 DEF Sweeping, Busy
    <3> QED
      BY <2>2, <3>1, <3>2 DEF IInv, LockInv
  <2> QED
    BY <1>1, <2>1, <2>2
<1>6. Quiet(p)
  BY <1>1, <1>2, <1>3 DEF Quiet, IInv, TInv, TypeOK
<1> QED
  BY <1>2, <1>4, <1>5, <1>6, QuietInv

----------------------------------------------------------------------------
(* Entries *)

\* Queue k becomes q, and the others stay.
Becomes(k, q) ==
  /\ queue' \in [Places -> Seq(Tasks)]
  /\ queue'[k] = q
  /\ \A j \in Places \ {k} : queue'[j] = queue[j]

LEMMA BecomesFacts ==
  ASSUME IInv, NEW k \in Places, NEW q \in Seq(Tasks), queue' = [queue EXCEPT ![k] = q]
  PROVE  Becomes(k, q)
<1>1. queue \in [Places -> Seq(Tasks)]
  BY DEF IInv, TInv, TypeOK, Places
<1> QED
  BY <1>1 DEF Becomes

\* The queues after the first entry of k has been popped.
LEMMA PopFacts ==
  ASSUME IInv, NEW k \in Places, queue[k] # <<>>, Becomes(k, Tail(queue[k])),
         NEW t, t = Head(queue[k])
  PROVE  /\ t \in Tasks /\ Occurs(t, k)
         /\ \A u \in Tasks, j \in Places : Occurs(u, j)' => Occurs(u, j)
         /\ \A u \in Tasks, j \in Places :
              u # t \/ j # k => (Occurs(u, j) => Occurs(u, j)')
         /\ \A u \in Tasks : OneEntry(u) => OneEntry(u)'
         /\ OneEntry(t) => \A j \in Places : ~Occurs(t, j)'
<1> PICK q, Q : q = queue[k] /\ Q = queue'
  OBVIOUS
<1>1. queue \in [Places -> Seq(Tasks)] /\ q \in Seq(Tasks) /\ q # <<>>
  BY DEF IInv, TInv, TypeOK, Places
<1>2. /\ Tail(q) \in Seq(Tasks) /\ Len(Tail(q)) = Len(q) - 1
      /\ \A i \in 1..(Len(q) - 1) : Tail(q)[i] = q[i + 1]
      /\ t = q[1] /\ Len(q) \in Nat \ {0} /\ t \in Tasks
  BY <1>1
<1>3. /\ Q \in [Places -> Seq(Tasks)] /\ Q[k] = Tail(q)
      /\ \A j \in Places \ {k} : Q[j] = queue[j]
  BY DEF Becomes
<1>4. Occurs(t, k)
  BY <1>2 DEF Occurs
\* Where each entry came from
<1> DEFINE from(j, i) == IF j = k THEN i + 1 ELSE i
<1>5. ASSUME NEW j \in Places, NEW i \in 1..Len(Q[j])
      PROVE  /\ from(j, i) \in 1..Len(queue[j]) /\ i \in Nat
             /\ Q[j][i] = queue[j][from(j, i)]
             /\ j = k => from(j, i) # 1
  <2>1. CASE j = k
    BY <1>2, <1>3, <2>1
  <2>2. CASE j # k
    BY <1>3, <2>2
  <2> QED
    BY <2>1, <2>2
<1>6. \A u \in Tasks, j \in Places : Occurs(u, j)' => Occurs(u, j)
  <2> SUFFICES ASSUME NEW u \in Tasks, NEW j \in Places, Occurs(u, j)'
               PROVE  Occurs(u, j)
    OBVIOUS
  <2>1. PICK i \in 1..Len(Q[j]) : Q[j][i] = u
    BY DEF Occurs
  <2> HIDE DEF from
  <2> QED
    BY <1>5, <2>1 DEF Occurs
<1>7. ASSUME NEW u \in Tasks, NEW j \in Places, u # t \/ j # k, Occurs(u, j)
      PROVE  Occurs(u, j)'
  <2>1. PICK i \in 1..Len(queue[j]) : queue[j][i] = u
    BY <1>7 DEF Occurs
  <2>2. CASE j # k
    BY <1>3, <2>1, <2>2 DEF Occurs
  <2>3. CASE j = k
    <3>1. i # 1
      BY <1>2, <1>7, <2>1, <2>3
    <3>2. i - 1 \in 1..(Len(q) - 1) /\ (i - 1) + 1 = i
      BY <1>2, <2>1, <2>3, <3>1
    <3>3. Tail(q)[i - 1] = u /\ i - 1 \in 1..Len(Tail(q))
      BY <1>2, <2>1, <2>3, <3>2
    <3> QED
      BY <1>3, <2>3, <3>3 DEF Occurs
  <2> QED
    BY <2>2, <2>3
<1>8. ASSUME NEW u \in Tasks, OneEntry(u) PROVE OneEntry(u)'
  <2>1. ASSUME NEW j \in Places, NEW l \in Places,
               NEW i \in 1..Len(Q[j]), NEW h \in 1..Len(Q[l]),
               Q[j][i] = u, Q[l][h] = u
        PROVE  j = l /\ i = h
    <3>1. j = l /\ from(j, i) = from(l, h)
      <4> PICK a, b : a = from(j, i) /\ b = from(l, h)
        OBVIOUS
      <4> HIDE DEF from
      <4>1. /\ a \in 1..Len(queue[j]) /\ queue[j][a] = u
            /\ b \in 1..Len(queue[l]) /\ queue[l][b] = u
        BY <1>5, <2>1
      <4> QED
        BY <1>8, <4>1 DEF OneEntry
    <3>2. i \in Nat /\ h \in Nat
      BY <1>5
    <3> QED
      BY <3>1, <3>2
  <2> HIDE DEF from
  <2> QED
    BY <2>1 DEF OneEntry
<1>9. ASSUME OneEntry(t), NEW j \in Places PROVE ~Occurs(t, j)'
  <2> SUFFICES ASSUME NEW i \in 1..Len(Q[j]), Q[j][i] = t
               PROVE  FALSE
    BY DEF Occurs
  <2>1. j = k /\ from(j, i) = 1
    <3> HIDE DEF from
    <3>1. from(j, i) \in 1..Len(queue[j]) /\ queue[j][from(j, i)] = t
      BY <1>5
    <3>2. 1 \in 1..Len(queue[k]) /\ queue[k][1] = t
      BY <1>2
    <3> QED
      BY <1>9, <3>1, <3>2 DEF OneEntry
  <2> HIDE DEF from
  <2> QED
    BY <1>5, <2>1
<1> HIDE DEF from
<1> QED
  BY <1>2, <1>4, <1>6, <1>7, <1>8, <1>9

\* The queues after t has been appended to k.
LEMMA PushFacts ==
  ASSUME IInv, NEW k \in Places, NEW t \in Tasks, Becomes(k, Append(queue[k], t))
  PROVE  /\ Occurs(t, k)'
         /\ \A u, j : j \in Places => (Occurs(u, j) => Occurs(u, j)')
         /\ \A u \in Tasks, j \in Places :
              u # t \/ j # k => (Occurs(u, j)' => Occurs(u, j))
         /\ \A u \in Tasks \ {t} : OneEntry(u) => OneEntry(u)'
         /\ (\A j \in Places : ~Occurs(t, j)) => OneEntry(t)'
<1> PICK q, Q : q = queue[k] /\ Q = queue'
  OBVIOUS
<1>1. queue \in [Places -> Seq(Tasks)] /\ q \in Seq(Tasks)
  BY DEF IInv, TInv, TypeOK, Places
<1>2. /\ Append(q, t) \in Seq(Tasks) /\ Len(Append(q, t)) = Len(q) + 1
      /\ \A i \in 1..Len(q) : Append(q, t)[i] = q[i]
      /\ Append(q, t)[Len(q) + 1] = t /\ Len(q) \in Nat
  BY <1>1
<1>3. /\ Q \in [Places -> Seq(Tasks)] /\ Q[k] = Append(q, t)
      /\ \A j \in Places \ {k} : Q[j] = queue[j]
  BY DEF Becomes
<1>4. Occurs(t, k)'
  <2>1. Len(q) + 1 \in 1..Len(Q[k]) /\ Q[k][Len(q) + 1] = t
    BY <1>2, <1>3
  <2> QED
    BY <2>1 DEF Occurs
\* An entry is an old one or the last of k.
<1>5. ASSUME NEW j \in Places, NEW i \in 1..Len(Q[j])
      PROVE  \/ i \in 1..Len(queue[j]) /\ Q[j][i] = queue[j][i]
             \/ j = k /\ i = Len(q) + 1 /\ Q[j][i] = t
  <2>1. CASE j = k
    BY <1>2, <1>3, <2>1
  <2>2. CASE j # k
    BY <1>3, <2>2
  <2> QED
    BY <2>1, <2>2
<1>6. ASSUME NEW j \in Places, NEW u, Occurs(u, j) PROVE Occurs(u, j)'
  <2>1. PICK i \in 1..Len(queue[j]) : queue[j][i] = u
    BY <1>6 DEF Occurs
  <2>2. i \in 1..Len(Q[j]) /\ Q[j][i] = u
    BY <1>2, <1>3, <2>1
  <2> QED
    BY <2>2 DEF Occurs
<1>7. ASSUME NEW j \in Places, NEW u \in Tasks, u # t \/ j # k, Occurs(u, j)'
      PROVE  Occurs(u, j)
  <2>1. PICK i \in 1..Len(Q[j]) : Q[j][i] = u
    BY <1>7 DEF Occurs
  <2> QED
    BY <1>5, <1>7, <2>1 DEF Occurs
<1>8. ASSUME NEW u \in Tasks \ {t}, OneEntry(u) PROVE OneEntry(u)'
  <2>1. ASSUME NEW j \in Places, NEW l \in Places,
               NEW i \in 1..Len(Q[j]), NEW h \in 1..Len(Q[l]),
               Q[j][i] = u, Q[l][h] = u
        PROVE  j = l /\ i = h
    <3>1. /\ i \in 1..Len(queue[j]) /\ queue[j][i] = u
          /\ h \in 1..Len(queue[l]) /\ queue[l][h] = u
      BY <1>5, <2>1
    <3> QED
      BY <1>8, <3>1 DEF OneEntry
  <2> QED
    BY <2>1 DEF OneEntry
<1>9. ASSUME \A j \in Places : ~Occurs(t, j) PROVE OneEntry(t)'
  <2>1. ASSUME NEW j \in Places, NEW l \in Places,
               NEW i \in 1..Len(Q[j]), NEW h \in 1..Len(Q[l]),
               Q[j][i] = t, Q[l][h] = t
        PROVE  j = l /\ i = h
    <3>1. j = k /\ i = Len(q) + 1 /\ l = k /\ h = Len(q) + 1
      BY <1>5, <1>9, <2>1 DEF Occurs
    <3> QED
      BY <3>1
  <2> QED
    BY <2>1 DEF OneEntry
<1> QED
  BY <1>4, <1>6, <1>7, <1>8, <1>9

\* Who pops an entry has it in hand.
LEMMA PopInv ==
  ASSUME IInv, NEW p \in Threads, NEW k \in Places, queue[k] # <<>>,
         Becomes(k, Tail(queue[k])), StepOf(p), UNCHANGED ghosts,
         UNCHANGED <<status, assigned, handed, crashes>>, Rest', LockInv',
         run[p].pc \in Handless, run'[p].task = Head(queue[k]),
         run'[p].pc = "recheck" \/ (run'[p].pc = "accept" /\ run'[p].dest = k)
  PROVE  IInv'
<1> PICK t : t = Head(queue[k])
  OBVIOUS
<1>1. /\ t \in Tasks /\ Occurs(t, k)
      /\ \A u \in Tasks, j \in Places : Occurs(u, j)' => Occurs(u, j)
      /\ \A u \in Tasks, j \in Places :
           u # t \/ j # k => (Occurs(u, j) => Occurs(u, j)')
      /\ \A u \in Tasks : OneEntry(u) => OneEntry(u)'
      /\ OneEntry(t) => \A j \in Places : ~Occurs(t, j)'
  BY PopFacts
<1>2. SeesLess(p) /\ sees' = sees /\ raced' = raced /\ raced \in BOOLEAN
  BY SeesSame DEF IInv
<1>3. TypeOK'
  BY <1>2 DEF IInv, TInv, TypeOK, Rest, SeesLess, Becomes, Places
<1>4. RunOK'
  BY DEF IInv, TInv, RunOK, StepOf, Others
<1>5. Views'
  <2>1. \A q \in Threads \ {p} : ViewOK(q)'
    BY <1>2, OthersViews DEF IInv, StepOf
  <2>2. ViewOK(p)'
    BY DEF ViewOK
  <2> QED
    BY <2>1, <2>2 DEF IInv, TInv, Views
<1>6. HasInHand(p, t)' /\ (assigned[t] = k => HeldBy(p, t)')
  BY DEF HasInHand, HeldBy
<1>7. /\ \A u : HasInHand(p, u)' => u = t
      /\ \A u : ~HasInHand(p, u) /\ ~HeldBy(p, u)
      /\ \A u : \A q \in Threads \ {p} :
           (HasInHand(q, u)' <=> HasInHand(q, u)) /\ (HeldBy(q, u)' <=> HeldBy(q, u))
  BY OthersHands DEF HasInHand, HeldBy, Handless, StepOf
<1>8. HandInv'
  <2> SUFFICES ASSUME ~raced, NEW u \in Tasks
               PROVE  /\ OneEntry(u)'
                      /\ \A j \in Places : Occurs(u, j)' => status[u] = "queued"
                      /\ \A q \in Threads : HasInHand(q, u)' =>
                           /\ status[u] = "queued" /\ \A j \in Places : ~Occurs(u, j)'
                           /\ \A o \in Threads : HasInHand(o, u)' => q = o
    BY <1>2 DEF HandInv
  <2>1. /\ OneEntry(u) /\ OneEntry(t)
        /\ \A j \in Places : Occurs(u, j) => status[u] = "queued"
        /\ \A q \in Threads : HasInHand(q, u) =>
             /\ status[u] = "queued" /\ \A j \in Places : ~Occurs(u, j)
             /\ \A o \in Threads : HasInHand(o, u) => q = o
    BY <1>1 DEF IInv, HandInv
  <2>2. CASE u # t
    BY <1>1, <1>7, <2>1, <2>2
  <2>3. CASE u = t
    <3>1. status[u] = "queued" /\ \A q \in Threads : HasInHand(q, u)' => q = p
      BY <1>1, <1>7, <2>1, <2>3
    <3> QED
      BY <1>1, <2>1, <2>3, <3>1
  <2> QED
    BY <2>2, <2>3
<1>9. KeptInv'
  <2> SUFFICES ASSUME crashes = 0, NEW u \in Tasks, status[u] = "queued"
               PROVE  Occurs(u, assigned[u])' \/ Held(u)'
    BY DEF KeptInv
  <2>1. assigned[u] \in Places /\ assigned' = assigned
    BY DEF IInv, TInv, TypeOK, Places
  <2> PICK a : a = assigned[u] /\ a = assigned'[u]
    BY <2>1
  <2>2. CASE Occurs(u, a)
    <3>1. CASE u # t \/ a # k
      <4>1. Occurs(u, a)'
        BY <1>1, <2>1, <2>2, <3>1
      <4> QED
        BY <4>1 DEF Occurs
    <3>2. CASE u = t /\ a = k
      BY <1>6, <3>2 DEF Held
    <3> QED
      BY <3>1, <3>2
  <2>3. CASE Held(u)
    BY <1>7, <2>3 DEF Held
  <2> QED
    BY <2>2, <2>3 DEF IInv, KeptInv
<1> QED
  BY <1>3, <1>4, <1>5, <1>8, <1>9 DEF IInv, TInv

LEMMA PopDeadInv ==
  ASSUME IInv, NEW p \in Threads, PopDead(p)
  PROVE  IInv'
<1> PICK k : k = run[p].at
  OBVIOUS
<1>1. /\ run[p].pc = "pop" /\ UNCHANGED ghosts
      /\ UNCHANGED <<fresh, cur, status, assigned, handed, lock, requeues, crashes>>
      /\ \/ queue[k] = <<>> /\ NextNode(p, "drain", "unlock") /\ UNCHANGED queue
         \/ /\ queue[k] # <<>> /\ queue' = [queue EXCEPT ![k] = Tail(queue[k])]
            /\ run' = [run EXCEPT ![p].pc = "recheck", ![p].task = Head(queue[k])]
  BY DEF PopDead, rows, bounds
<1>2. p \in Sweepers /\ k \in Places /\ run[p] \in Runs /\ queue[k] \in Seq(Tasks)
  <2>1. run[p] \in Runs /\ k \in Places
    BY DEF IInv, TInv, RunOK, Runs
  <2>2. p \in Sweepers
    BY <1>1 DEF IInv, TInv, RunOK, GoodRun, Draining
  <2> QED
    BY <2>1, <2>2 DEF IInv, TInv, TypeOK, Places
<1>3. CASE queue[k] = <<>> /\ NextNode(p, "drain", "unlock") /\ UNCHANGED queue
  <2>1. run' \in [Threads -> Runs] /\ Others(p) /\ run'[p].pc \in {"drain", "unlock"}
    BY <1>3, NextNodeFacts DEF IInv, TInv, Commands
  <2>2. StepOf(p)
    BY <1>2, <2>1 DEF StepOf, GoodRun, WithTask, WithNode, Draining, Reclaiming
  <2>3. Rest' /\ LockInv'
    BY <1>1, <2>1, RestSame, LockStays
  <2> QED
    BY <1>1, <1>3, <2>1, <2>2, <2>3, PlainInv, SeesSame DEF IInv, Handless
<1>4. CASE /\ queue[k] # <<>> /\ queue' = [queue EXCEPT ![k] = Tail(queue[k])]
           /\ run' = [run EXCEPT ![p].pc = "recheck", ![p].task = Head(queue[k])]
  <2>1. Head(queue[k]) \in Tasks /\ Tail(queue[k]) \in Seq(Tasks)
    BY <1>2, <1>4
  <2>2. Becomes(k, Tail(queue[k]))
    BY <1>2, <1>4, <2>1, BecomesFacts
  <2>3. /\ run' \in [Threads -> Runs] /\ Others(p)
        /\ run'[p].pc = "recheck" /\ run'[p].task = Head(queue[k])
    BY <1>2, <1>4, <2>1 DEF IInv, TInv, RunOK, Runs, Commands, Others
  <2>4. StepOf(p)
    BY <1>2, <2>1, <2>3 DEF StepOf, GoodRun, WithTask, WithNode, Draining, Reclaiming
  <2>5. Rest' /\ LockInv'
    BY <1>1, <2>3, RestSame, LockStays
  <2> QED
    BY <1>1, <1>2, <1>4, <2>2, <2>3, <2>4, <2>5, PopInv DEF Handless
<1> QED
  BY <1>1, <1>3, <1>4

LEMMA TakeInv ==
  ASSUME IInv, NEW p \in Threads, Take(p) \/ Share(p)
  PROVE  IInv'
<1> PICK n : n = run[p].node
  OBVIOUS
<1>1. /\ run[p].pc \in {"take", "share"} /\ UNCHANGED ghosts
      /\ UNCHANGED <<fresh, cur, status, assigned, handed, lock, requeues, crashes>>
      /\ \/ (Goto(p, "share") \/ Goto(p, "none")) /\ UNCHANGED queue
         \/ \E k \in {n, NoNode} :
              /\ queue[k] # <<>> /\ queue' = [queue EXCEPT ![k] = Tail(queue[k])]
              /\ run' = [run EXCEPT ![p].pc = "accept", ![p].task = Head(queue[k]),
                                    ![p].dest = k]
  BY DEF Take, Share, PopQueue, rows, bounds
<1>2. n \in Nodes /\ run[p] \in Runs
  BY <1>1 DEF IInv, TInv, RunOK, GoodRun, WithNode
<1>3. CASE (Goto(p, "share") \/ Goto(p, "none")) /\ UNCHANGED queue
  <2>1. /\ run' \in [Threads -> Runs] /\ Others(p)
        /\ run'[p].pc \in {"share", "none"} /\ run'[p].node = n
    BY <1>3, GotoFacts DEF IInv, TInv, Commands
  <2>2. StepOf(p)
    BY <1>2, <2>1 DEF StepOf, GoodRun, WithTask, WithNode, Draining, Reclaiming
  <2>3. Rest' /\ LockInv'
    BY <1>1, <2>1, RestSame, LockStays
  <2> QED
    BY <1>1, <1>3, <2>1, <2>2, <2>3, PlainInv, SeesSame DEF IInv, Handless
<1>4. ASSUME NEW k \in {n, NoNode},
             queue[k] # <<>>, queue' = [queue EXCEPT ![k] = Tail(queue[k])],
             run' = [run EXCEPT ![p].pc = "accept", ![p].task = Head(queue[k]),
                                ![p].dest = k]
      PROVE  IInv'
  <2>0. k \in Places /\ queue[k] \in Seq(Tasks)
    BY <1>2, <1>4 DEF IInv, TInv, TypeOK, Places
  <2>1. Head(queue[k]) \in Tasks /\ Tail(queue[k]) \in Seq(Tasks)
    BY <1>4, <2>0
  <2>2. Becomes(k, Tail(queue[k]))
    BY <1>4, <2>0, <2>1, BecomesFacts
  <2>3. /\ run' \in [Threads -> Runs] /\ Others(p)
        /\ run'[p].pc = "accept" /\ run'[p].task = Head(queue[k])
        /\ run'[p].dest = k /\ run'[p].node = n
    <3> PICK r : r = [run[p] EXCEPT !.pc = "accept", !.task = Head(queue[k]), !.dest = k]
      OBVIOUS
    <3>1. /\ r \in Runs /\ r.pc = "accept" /\ r.task = Head(queue[k])
          /\ r.dest = k /\ r.node = n
      BY <1>2, <2>0, <2>1 DEF Runs, Commands
    <3>2. run' = [run EXCEPT ![p] = r]
      BY <1>4 DEF IInv, TInv, RunOK
    <3> QED
      BY <3>1, <3>2, RunFacts DEF IInv, TInv
  <2>4. StepOf(p)
    BY <1>2, <1>4, <2>1, <2>3 DEF StepOf, GoodRun, WithTask, WithNode, Draining, Reclaiming
  <2>5. Rest' /\ LockInv'
    BY <1>1, <2>3, RestSame, LockStays
  <2> QED
    BY <1>1, <1>4, <2>0, <2>2, <2>3, <2>4, <2>5, PopInv DEF Handless
<1> QED
  BY <1>1, <1>3, <1>4

\* Who pushes an entry has it in hand no longer.
LEMMA PushInv ==
  ASSUME IInv, NEW p \in Threads, Push(p)
  PROVE  IInv'
<1> PICK t, k, after : t = run[p].task /\ k = run[p].dest /\ after = run[p].then
  OBVIOUS
<1>1. /\ run[p].pc = "push" /\ queue' = [queue EXCEPT ![k] = Append(queue[k], t)]
      /\ UNCHANGED <<fresh, cur, status, assigned, handed, lock, requeues, crashes>>
      /\ \/ after = "idle" /\ Done(p)
         \/ after # "idle" /\ Goto(p, after) /\ UNCHANGED ghosts
  BY DEF Push, rows, bounds
<1>2. /\ t \in Tasks /\ k \in Places /\ after \in {"idle", "clear", "pop"}
      /\ queue[k] \in Seq(Tasks)
      /\ after = "pop" => p \in Sweepers
      /\ after = "clear" => p \in Sweepers \/ run[p].node \in Nodes
  <2>1. run[p] \in Runs /\ GoodRun(p, run[p])
    BY DEF IInv, TInv, RunOK
  <2>2. k \in Places /\ after \in {"idle", "clear", "pop"}
    BY <2>1 DEF Runs
  <2>3. queue[k] \in Seq(Tasks)
    BY <2>2 DEF IInv, TInv, TypeOK, Places
  <2> QED
    BY <1>1, <2>1, <2>2, <2>3 DEF GoodRun, WithTask, Draining, Reclaiming
<1>3. Becomes(k, Append(queue[k], t))
  <2>1. Append(queue[k], t) \in Seq(Tasks)
    BY <1>2
  <2> QED
    BY <1>1, <1>2, <2>1, BecomesFacts
<1>4. /\ Occurs(t, k)'
      /\ \A u, j : j \in Places => (Occurs(u, j) => Occurs(u, j)')
      /\ \A u \in Tasks, j \in Places :
           u # t \/ j # k => (Occurs(u, j)' => Occurs(u, j))
      /\ \A u \in Tasks \ {t} : OneEntry(u) => OneEntry(u)'
      /\ (\A j \in Places : ~Occurs(t, j)) => OneEntry(t)'
  BY <1>2, <1>3, PushFacts
<1>5. /\ StepOf(p) /\ run'[p].pc \in {"idle", "clear", "pop"}
      /\ SeesLess(p) /\ raced' = raced /\ raced \in BOOLEAN
  <2>1. CASE after = "idle" /\ Done(p)
    BY <2>1, DoneFacts DEF IInv
  <2>2. CASE after # "idle" /\ Goto(p, after) /\ UNCHANGED ghosts
    <3>1. /\ run' \in [Threads -> Runs] /\ Others(p)
          /\ run'[p].pc = after /\ run'[p].node = run[p].node
      BY <1>2, <2>2, GotoFacts DEF IInv, TInv, Commands
    <3>2. StepOf(p)
      BY <1>2, <2>2, <3>1 DEF StepOf, GoodRun, WithTask, WithNode, Draining, Reclaiming
    <3> QED
      BY <1>2, <2>2, <3>1, <3>2, SeesSame DEF IInv
  <2> QED
    BY <1>1, <2>1, <2>2
<1>6. Rest' /\ LockInv'
  BY <1>1, <1>5, RestSame, LockStays DEF StepOf
<1>7. TypeOK'
  BY <1>1, <1>3, <1>5, <1>6 DEF IInv, TInv, TypeOK, Rest, SeesLess, Becomes, Places
<1>8. RunOK'
  BY <1>5 DEF IInv, TInv, RunOK, StepOf, Others
<1>9. Views'
  <2>1. \A q \in Threads \ {p} : ViewOK(q)'
    BY <1>1, <1>5, OthersViews DEF IInv, StepOf
  <2>2. ViewOK(p)'
    BY <1>5 DEF ViewOK
  <2> QED
    BY <1>1, <2>1, <2>2 DEF IInv, TInv, Views
<1>10. /\ \A u : ~HasInHand(p, u)'
       /\ HasInHand(p, t) /\ \A u : HeldBy(p, u) => u = t /\ k = assigned[t]
       /\ \A u : \A q \in Threads \ {p} :
            (HasInHand(q, u)' <=> HasInHand(q, u)) /\ (HeldBy(q, u)' <=> HeldBy(q, u))
  BY <1>1, <1>5, OthersHands DEF HasInHand, HeldBy, StepOf
<1>11. HandInv'
  <2> SUFFICES ASSUME ~raced, NEW u \in Tasks
               PROVE  /\ OneEntry(u)'
                      /\ \A j \in Places : Occurs(u, j)' => status[u] = "queued"
                      /\ \A q \in Threads : HasInHand(q, u)' =>
                           /\ status[u] = "queued" /\ \A j \in Places : ~Occurs(u, j)'
                           /\ \A o \in Threads : HasInHand(o, u)' => q = o
    BY <1>1, <1>5 DEF HandInv
  <2>1. /\ OneEntry(u)
        /\ \A j \in Places : Occurs(u, j) => status[u] = "queued"
        /\ \A q \in Threads : HasInHand(q, u) =>
             /\ status[u] = "queued" /\ \A j \in Places : ~Occurs(u, j)
             /\ \A o \in Threads : HasInHand(o, u) => q = o
    BY DEF IInv, HandInv
  <2>2. CASE u # t
    BY <1>4, <1>10, <2>1, <2>2
  <2>3. CASE u = t
    BY <1>4, <1>10, <2>1, <2>3
  <2> QED
    BY <2>2, <2>3
<1>12. KeptInv'
  <2> SUFFICES ASSUME crashes = 0, NEW u \in Tasks, status[u] = "queued"
               PROVE  Occurs(u, assigned[u])' \/ Held(u)'
    BY <1>1 DEF KeptInv
  <2>1. assigned[u] \in Places /\ assigned' = assigned
    BY <1>1 DEF IInv, TInv, TypeOK, Places
  <2> PICK a : a = assigned[u] /\ a = assigned'[u]
    BY <2>1
  <2>2. CASE Occurs(u, a)
    <3>1. Occurs(u, a)'
      BY <1>4, <2>1, <2>2
    <3> QED
      BY <3>1 DEF Occurs
  <2>3. ASSUME NEW q \in Threads, HeldBy(q, u)
        PROVE  Occurs(u, assigned[u])' \/ Held(u)'
    <3>1. CASE q # p
      BY <1>10, <2>3, <3>1 DEF Held
    <3>2. CASE q = p
      <4>1. u = t /\ k = a
        BY <1>10, <2>3, <3>2
      <4> QED
        BY <1>4, <4>1 DEF Occurs
    <3> QED
      BY <3>1, <3>2
  <2> QED
    BY <2>2, <2>3 DEF IInv, KeptInv, Held
<1> QED
  BY <1>6, <1>7, <1>8, <1>9, <1>11, <1>12 DEF IInv, TInv

----------------------------------------------------------------------------
(* Rows *)

\* Who writes a row that is as it was read has the task in hand, or knows that
\* nobody has; a task that is to wait is in the hand of its writer.
LEMMA RowInv ==
  ASSUME IInv, NEW p \in Threads, NEW t \in Tasks, t = run[p].task,
         NEW s \in {"queued", "claimed", "running", "completed"},
         StepOf(p), Writes(p, t), UNCHANGED <<queue, crashes>>, Rest', LockInv',
         status' = [status EXCEPT ![t] = s],
         assigned' \in [Tasks -> Places],
         \A u \in Tasks \ {t} : assigned'[u] = assigned[u],
         handed' \subseteq handed, t \in handed' => s \in Active /\ assigned'[t] \in Nodes,
         run'[p].task = t, ViewOK(p)',
         t \in sees[p] => HasInHand(p, t) \/ status[t] \in Active,
         HasInHand(p, t)' => s = "queued",
         s = "queued" => HeldBy(p, t)'
  PROVE  IInv'
<1>1. /\ SeesLess(p) /\ \A q \in Threads \ {p} : t \notin sees'[q]
      /\ raced' \in BOOLEAN /\ (raced => raced') /\ (~raced' => t \in sees[p])
  BY WritesFacts DEF IInv
<1>2. /\ status' \in [Tasks -> {"absent", "queued", "claimed", "running", "completed"}]
      /\ status'[t] = s /\ \A u \in Tasks \ {t} : status'[u] = status[u]
  BY DEF IInv, TInv, TypeOK
<1>3. TypeOK'
  BY <1>1, <1>2 DEF IInv, TInv, TypeOK, Rest, SeesLess, Places
<1>4. RunOK'
  BY DEF IInv, TInv, RunOK, StepOf, Others
<1>5. Views'
  <2>1. ASSUME NEW q \in Threads \ {p} PROVE ViewOK(q)'
    <3>1. run'[q] = run[q] /\ sees'[q] \subseteq sees[q] /\ t \notin sees'[q] /\ ViewOK(q)
      BY <1>1 DEF StepOf, Others, SeesLess, IInv, TInv, Views
    <3>2. run[q].pc \in {"point", "answer", "download", "settle", "put"} =>
            run[q].task \in Tasks
      BY DEF IInv, TInv, RunOK, GoodRun, WithTask
    <3> QED
      BY <1>2, <3>1, <3>2 DEF ViewOK
  <2>2. ASSUME NEW u \in handed' PROVE status'[u] \in Active /\ assigned'[u] \in Nodes
    <3>1. u \in handed /\ u \in Tasks
      BY <2>2 DEF IInv, TInv, TypeOK
    <3> QED
      BY <1>2, <2>2, <3>1 DEF IInv, TInv, Views
  <2> QED
    BY <2>1, <2>2 DEF Views
<1>6. \A u : \A q \in Threads \ {p} :
        /\ HasInHand(q, u)' <=> HasInHand(q, u)
        /\ u \in Tasks \ {t} => (HeldBy(q, u)' <=> HeldBy(q, u))
  BY OthersHands DEF StepOf
<1>7. \A u : u # t => ~HasInHand(p, u) /\ ~HeldBy(p, u) /\ ~HasInHand(p, u)'
  BY DEF HasInHand, HeldBy
<1>8. /\ \A u : \A j \in Places : Occurs(u, j)' <=> Occurs(u, j)
      /\ \A u : OneEntry(u)' <=> OneEntry(u)
  BY DEF Occurs, OneEntry
<1>9. HandInv'
  <2> SUFFICES ASSUME ~raced', NEW u \in Tasks
               PROVE  /\ OneEntry(u)'
                      /\ \A j \in Places : Occurs(u, j)' => status'[u] = "queued"
                      /\ \A q \in Threads : HasInHand(q, u)' =>
                           /\ status'[u] = "queued" /\ \A j \in Places : ~Occurs(u, j)'
                           /\ \A o \in Threads : HasInHand(o, u)' => q = o
    BY DEF HandInv
  <2>1. /\ OneEntry(u)
        /\ \A j \in Places : Occurs(u, j) => status[u] = "queued"
        /\ \A q \in Threads : HasInHand(q, u) =>
             /\ status[u] = "queued" /\ \A j \in Places : ~Occurs(u, j)
             /\ \A o \in Threads : HasInHand(o, u) => q = o
    BY <1>1 DEF IInv, HandInv
  <2>2. CASE u # t
    BY <1>2, <1>6, <1>7, <1>8, <2>1, <2>2
  <2>3. CASE u = t
    <3>1. HasInHand(p, t) \/ status[t] \in Active
      BY <1>1
    <3>2. status[t] \in Active => status[t] # "queued"
      BY DEF Active
    <3>3. /\ \A j \in Places : ~Occurs(t, j)
          /\ \A q \in Threads : HasInHand(q, t) => q = p
      BY <2>1, <2>3, <3>1, <3>2
    <3> QED
      BY <1>2, <1>6, <1>8, <2>1, <2>3, <3>3
  <2> QED
    BY <2>2, <2>3
<1>10. KeptInv'
  <2> SUFFICES ASSUME crashes = 0, NEW u \in Tasks, status'[u] = "queued"
               PROVE  Occurs(u, assigned[u])' \/ Held(u)'
    BY DEF KeptInv
  <2>1. CASE u = t
    BY <1>2, <2>1 DEF Held
  <2>2. CASE u # t
    <3>1. status[u] = "queued" /\ assigned'[u] = assigned[u] /\ assigned[u] \in Places
      BY <1>2, <2>2
    <3> PICK a : a = assigned[u] /\ a = assigned'[u]
      BY <3>1
    <3>2. CASE Occurs(u, a)
      <4>1. Occurs(u, a)'
        BY <1>8, <3>1, <3>2
      <4> QED
        BY <4>1 DEF Occurs
    <3>3. CASE Held(u)
      BY <1>6, <1>7, <2>2, <3>3 DEF Held
    <3> QED
      BY <3>1, <3>2, <3>3 DEF IInv, KeptInv
  <2> QED
    BY <2>1, <2>2
<1> QED
  BY <1>3, <1>4, <1>5, <1>9, <1>10 DEF IInv, TInv

\* What the four steps that write a row have in common: they go on with it.
LEMMA RowGoto ==
  ASSUME IInv, NEW p \in Threads, NEW pc \in Commands, Goto(p, pc), run[p].pc \in WithTask,
         UNCHANGED <<fresh, cur, lock, requeues, crashes>>
  PROVE  /\ run' \in [Threads -> Runs] /\ Others(p) /\ run[p].task \in Tasks
         /\ run'[p].pc = pc /\ run'[p].node = run[p].node /\ run'[p].dest = run[p].dest
         /\ run'[p].task = run[p].task /\ run'[p].then = run[p].then
         /\ Rest' /\ LockInv'
<1>1. /\ run' \in [Threads -> Runs] /\ Others(p)
      /\ run'[p].pc = pc /\ run'[p].node = run[p].node /\ run'[p].dest = run[p].dest
      /\ run'[p].task = run[p].task /\ run'[p].then = run[p].then
  BY GotoFacts DEF IInv, TInv
<1>2. run[p].task \in Tasks /\ run[p].pc # "idle"
  BY DEF IInv, TInv, RunOK, GoodRun, WithTask
<1> QED
  BY <1>1, <1>2, RestSame, LockStays

LEMMA PutInv ==
  ASSUME IInv, NEW p \in Threads, Put(p)
  PROVE  IInv'
<1> PICK t, k : t = run[p].task /\ k = run[p].dest
  OBVIOUS
<1>1. /\ run[p].pc = "put" /\ Goto(p, "push") /\ Writes(p, t)
      /\ status' = [status EXCEPT ![t] = "queued"]
      /\ assigned' = [assigned EXCEPT ![t] = k] /\ handed' = handed \ {t}
      /\ UNCHANGED <<fresh, cur, queue, lock, requeues, crashes>>
  BY DEF Put, bounds
<1>2. /\ run' \in [Threads -> Runs] /\ Others(p) /\ t \in Tasks
      /\ run'[p].pc = "push" /\ run'[p].node = run[p].node /\ run'[p].dest = k
      /\ run'[p].task = t /\ run'[p].then = run[p].then
      /\ Rest' /\ LockInv'
  BY <1>1, RowGoto DEF Commands, WithTask
<1>3. run[p].then # "idle" /\ run[p] \in Runs /\ GoodRun(p, run[p])
  BY <1>1 DEF IInv, TInv, RunOK, GoodRun
<1>4. StepOf(p)
  BY <1>1, <1>2, <1>3 DEF StepOf, GoodRun, WithTask, WithNode, Draining, Reclaiming
<1>5. /\ assigned' \in [Tasks -> Places] /\ assigned'[t] = k
      /\ \A u \in Tasks \ {t} : assigned'[u] = assigned[u]
  BY <1>1, <1>2, <1>3 DEF IInv, TInv, TypeOK, Runs, Places
<1>6. ViewOK(p)' /\ HeldBy(p, t)'
  BY <1>2, <1>5 DEF ViewOK, HeldBy
<1>7. t \in sees[p] => HasInHand(p, t) \/ status[t] \in Active
  BY <1>1, <1>3 DEF IInv, TInv, Views, ViewOK, HasInHand, Runs
<1> QED
  BY <1>1, <1>2, <1>4, <1>5, <1>6, <1>7, RowInv

LEMMA MarkInv ==
  ASSUME IInv, NEW p \in Threads, Mark(p)
  PROVE  IInv'
<1> PICK t, n : t = run[p].task /\ n = run[p].node
  OBVIOUS
<1>1. /\ run[p].pc = "mark" /\ Goto(p, "point") /\ Writes(p, t)
      /\ status' = [status EXCEPT ![t] = "claimed"]
      /\ assigned' = [assigned EXCEPT ![t] = n] /\ handed' = handed \ {t}
      /\ UNCHANGED <<fresh, cur, queue, lock, requeues, crashes>>
  BY DEF Mark, bounds
<1>2. /\ run' \in [Threads -> Runs] /\ Others(p) /\ t \in Tasks
      /\ run'[p].pc = "point" /\ run'[p].node = n /\ run'[p].task = t
      /\ Rest' /\ LockInv'
  BY <1>1, RowGoto DEF Commands, WithTask
<1>3. n \in Nodes
  BY <1>1 DEF IInv, TInv, RunOK, GoodRun, WithNode
<1>4. StepOf(p)
  BY <1>2, <1>3 DEF StepOf, GoodRun, WithTask, WithNode, Draining, Reclaiming
<1>5. /\ assigned' \in [Tasks -> Places] /\ assigned'[t] = n /\ status'[t] = "claimed"
      /\ \A u \in Tasks \ {t} : assigned'[u] = assigned[u]
  BY <1>1, <1>2, <1>3 DEF IInv, TInv, TypeOK, Places
<1>6. ViewOK(p)' /\ ~HasInHand(p, t)' /\ HasInHand(p, t)
  BY <1>1, <1>2, <1>5 DEF ViewOK, HasInHand, Active
<1> QED
  BY <1>1, <1>2, <1>4, <1>5, <1>6, RowInv

\* A download or a result goes by the token, which was good when it was read.
LEMMA WorkInv ==
  ASSUME IInv, NEW p \in Threads, MarkRunning(p) \/ Settle(p)
  PROVE  IInv'
<1> PICK t : t = run[p].task
  OBVIOUS
<1>1. /\ run[p].pc \in {"download", "settle"} /\ Writes(p, t)
      /\ Goto(p, "none") \/ Goto(p, "free")
      /\ \/ status' = [status EXCEPT ![t] = "running"] /\ handed' = handed
         \/ status' = [status EXCEPT ![t] = "completed"] /\ handed' = handed \ {t}
      /\ UNCHANGED <<fresh, cur, assigned, queue, lock, requeues, crashes>>
  BY DEF MarkRunning, Settle, Goto, bounds
<1>2. /\ run' \in [Threads -> Runs] /\ Others(p) /\ t \in Tasks
      /\ run'[p].pc \in {"none", "free"} /\ run'[p].node = run[p].node /\ run'[p].task = t
      /\ Rest' /\ LockInv'
  BY <1>1, RowGoto DEF Commands, WithTask
<1>3. run[p].node \in Nodes
  BY <1>1 DEF IInv, TInv, RunOK, GoodRun, WithNode
<1>4. StepOf(p)
  BY <1>2, <1>3 DEF StepOf, GoodRun, WithTask, WithNode, Draining, Reclaiming
<1>5. assigned' \in [Tasks -> Places] /\ \A u \in Tasks : assigned'[u] = assigned[u]
  BY <1>1 DEF IInv, TInv, TypeOK, Places
<1>6. ViewOK(p)' /\ ~HasInHand(p, t)'
  BY <1>2 DEF ViewOK, HasInHand
<1>7. t \in sees[p] => status[t] \in Active
  BY <1>1 DEF IInv, TInv, Views, ViewOK
<1>8. t \in handed => assigned'[t] \in Nodes
  BY <1>1 DEF IInv, TInv, Views
<1>9. CASE status' = [status EXCEPT ![t] = "running"] /\ handed' = handed
  <2>1. "running" \in Active
    BY DEF Active
  <2> QED
    BY <1>1, <1>2, <1>4, <1>5, <1>6, <1>7, <1>8, <1>9, <2>1, RowInv
<1>10. CASE status' = [status EXCEPT ![t] = "completed"] /\ handed' = handed \ {t}
  BY <1>1, <1>2, <1>4, <1>5, <1>6, <1>7, <1>10, RowInv
<1> QED
  BY <1>1, <1>9, <1>10

\* The row comes before the entry, which its thread has still to push.
LEMMA BeginCreateInv ==
  ASSUME IInv, NEW p \in Threads, NEW t \in Tasks, NEW n \in Nodes, BeginCreate(p, t, n)
  PROVE  IInv'
<1> PICK r : r = [Idle EXCEPT !.pc = "push", !.task = t, !.dest = n]
  OBVIOUS
<1>1. /\ p \in Workers /\ run[p].pc = "idle" /\ status[t] = "absent"
      /\ status' = [status EXCEPT ![t] = "queued"]
      /\ assigned' = [assigned EXCEPT ![t] = n]
      /\ run' = [run EXCEPT ![p] = r] /\ UNCHANGED ghosts
      /\ UNCHANGED <<fresh, cur, handed, queue, lock, requeues, crashes>>
  BY DEF BeginCreate, Busy, bounds
<1>2. r \in Runs /\ r.pc = "push" /\ r.task = t /\ r.dest = n /\ r.then = "idle"
  BY DEF Idle, Runs, Commands, Places
<1>3. /\ StepOf(p) /\ run'[p].pc = "push" /\ run'[p].task = t /\ run'[p].dest = n
  BY <1>1, <1>2, RunFacts
  DEF IInv, TInv, StepOf, GoodRun, WithTask, WithNode, Draining, Reclaiming
<1>4. Rest' /\ LockInv'
  BY <1>1, <1>3, RestSame, LockStays DEF StepOf
<1>5. SeesLess(p) /\ sees' = sees /\ raced' = raced /\ raced \in BOOLEAN
  BY <1>1, SeesSame DEF IInv
<1>6. /\ status' \in [Tasks -> {"absent", "queued", "claimed", "running", "completed"}]
      /\ status'[t] = "queued" /\ \A u \in Tasks \ {t} : status'[u] = status[u]
      /\ assigned' \in [Tasks -> Places] /\ assigned'[t] = n
      /\ \A u \in Tasks \ {t} : assigned'[u] = assigned[u]
  BY <1>1 DEF IInv, TInv, TypeOK, Places
<1>7. TypeOK'
  BY <1>1, <1>4, <1>5, <1>6 DEF IInv, TInv, TypeOK, Rest, Places
<1>8. RunOK'
  BY <1>3 DEF IInv, TInv, RunOK, StepOf, Others
<1>9. Views'
  <2>1. ASSUME NEW q \in Threads \ {p} PROVE ViewOK(q)'
    <3>1. run'[q] = run[q] /\ sees'[q] = sees[q] /\ ViewOK(q)
      BY <1>3, <1>5 DEF StepOf, Others, IInv, TInv, Views
    <3>2. run[q].pc \in {"point", "answer", "download", "settle", "put"} =>
            run[q].task \in Tasks
      BY DEF IInv, TInv, RunOK, GoodRun, WithTask
    <3> QED
      BY <1>1, <1>6, <3>1, <3>2 DEF ViewOK, Active
  <2>2. ViewOK(p)'
    BY <1>3 DEF ViewOK
  <2>3. \A u \in handed : u # t /\ u \in Tasks
    BY <1>1 DEF IInv, TInv, Views, Active, TypeOK
  <2> QED
    BY <1>1, <1>6, <2>1, <2>2, <2>3 DEF IInv, TInv, Views
<1>10. /\ \A u : HasInHand(p, u)' => u = t
       /\ HeldBy(p, t)' /\ \A u : ~HasInHand(p, u) /\ ~HeldBy(p, u)
  BY <1>1, <1>3, <1>6 DEF HasInHand, HeldBy
<1>11. \A u : \A q \in Threads \ {p} :
         /\ HasInHand(q, u)' <=> HasInHand(q, u)
         /\ u \in Tasks \ {t} => (HeldBy(q, u)' <=> HeldBy(q, u))
  BY <1>3, <1>6, OthersHands DEF StepOf
<1>12. /\ \A u : \A j \in Places : Occurs(u, j)' <=> Occurs(u, j)
       /\ \A u : OneEntry(u)' <=> OneEntry(u)
  BY <1>1 DEF Occurs, OneEntry
<1>13. HandInv'
  <2> SUFFICES ASSUME ~raced, NEW u \in Tasks
               PROVE  /\ OneEntry(u)'
                      /\ \A j \in Places : Occurs(u, j)' => status'[u] = "queued"
                      /\ \A q \in Threads : HasInHand(q, u)' =>
                           /\ status'[u] = "queued" /\ \A j \in Places : ~Occurs(u, j)'
                           /\ \A o \in Threads : HasInHand(o, u)' => q = o
    BY <1>5 DEF HandInv
  <2>1. /\ OneEntry(u)
        /\ \A j \in Places : Occurs(u, j) => status[u] = "queued"
        /\ \A q \in Threads : HasInHand(q, u) =>
             /\ status[u] = "queued" /\ \A j \in Places : ~Occurs(u, j)
             /\ \A o \in Threads : HasInHand(o, u) => q = o
    BY DEF IInv, HandInv
  <2>2. CASE u # t
    BY <1>6, <1>10, <1>11, <1>12, <2>1, <2>2
  <2>3. CASE u = t
    BY <1>1, <1>6, <1>11, <1>12, <2>1, <2>3
  <2> QED
    BY <2>2, <2>3
<1>14. KeptInv'
  <2> SUFFICES ASSUME crashes = 0, NEW u \in Tasks, status'[u] = "queued"
               PROVE  Occurs(u, assigned[u])' \/ Held(u)'
    BY <1>1 DEF KeptInv
  <2>1. CASE u = t
    BY <1>10, <2>1 DEF Held
  <2>2. CASE u # t
    <3>1. status[u] = "queued" /\ assigned'[u] = assigned[u] /\ assigned[u] \in Places
      BY <1>6, <2>2
    <3> PICK a : a = assigned[u] /\ a = assigned'[u]
      BY <3>1
    <3>2. CASE Occurs(u, a)
      <4>1. Occurs(u, a)'
        BY <1>12, <3>1, <3>2
      <4> QED
        BY <4>1 DEF Occurs
    <3>3. CASE Held(u)
      BY <1>10, <1>11, <2>2, <3>3 DEF Held
    <3> QED
      BY <3>1, <3>2, <3>3 DEF IInv, KeptInv
  <2> QED
    BY <2>1, <2>2
<1> QED
  BY <1>4, <1>7, <1>8, <1>9, <1>13, <1>14 DEF IInv, TInv

----------------------------------------------------------------------------
(* Around the threads, and the beginning *)

\* Nothing but the fleet's heartbeats and the lock's TTL.
LEMMA WorldInv ==
  ASSUME IInv, UNCHANGED <<cur, status, assigned, handed, queue, run, requeues, crashes,
                           sees, raced>>,
         fresh' \subseteq Nodes, lock' \in BOOLEAN, LockInv'
  PROVE  IInv'
<1>1. TInv'
  BY DEF IInv, TInv, TypeOK, RunOK, Views, ViewOK
<1>2. HandInv'
  BY DEF IInv, HandInv, OneEntry, Occurs, HasInHand
<1>3. KeptInv'
  BY DEF IInv, KeptInv, Occurs, Held, HeldBy
<1> QED
  BY <1>1, <1>2, <1>3 DEF IInv

LEMMA HeartbeatInv ==
  ASSUME IInv, NEW n \in Nodes, Heartbeat(n) \/ GoStale(n)
  PROVE  IInv'
<1>1. /\ fresh' \in {fresh \cup {n}, fresh \ {n}}
      /\ UNCHANGED <<cur, status, assigned, handed, queue, lock, run, requeues, crashes,
                     sees, raced>>
  BY DEF Heartbeat, GoStale, rows, bounds, ghosts
<1>2. fresh' \subseteq Nodes /\ lock' \in BOOLEAN
  BY <1>1 DEF IInv, TInv, TypeOK
<1>3. LockInv'
  BY <1>1 DEF IInv, LockInv, Sweeping, Busy
<1> QED
  BY <1>1, <1>2, <1>3, WorldInv

LEMMA LockExpiresInv ==
  ASSUME IInv, LockExpires
  PROVE  IInv'
<1>1. /\ Overruns \/ ~\E p \in Sweepers : Sweeping(p)
      /\ lock' = FALSE
      /\ UNCHANGED <<fresh, cur, status, assigned, handed, queue, run, requeues, crashes,
                     sees, raced>>
  BY DEF LockExpires, rows, bounds, ghosts
<1>2. fresh' \subseteq Nodes
  BY <1>1 DEF IInv, TInv, TypeOK
<1>3. LockInv'
  BY <1>1 DEF LockInv, Sweeping, Busy
<1> QED
  BY <1>1, <1>2, <1>3, WorldInv

LEMMA StutterInv ==
  ASSUME IInv, UNCHANGED vars
  PROVE  IInv'
<1>1. /\ UNCHANGED <<fresh, lock>>
      /\ UNCHANGED <<cur, status, assigned, handed, queue, run, requeues, crashes,
                     sees, raced>>
  BY DEF vars
<1>2. fresh' \subseteq Nodes /\ lock' \in BOOLEAN
  BY <1>1 DEF IInv, TInv, TypeOK
<1>3. LockInv'
  BY <1>1 DEF IInv, LockInv, Sweeping, Busy
<1> QED
  BY <1>1, <1>2, <1>3, WorldInv

LEMMA InitInv == Init => IInv
<1> SUFFICES ASSUME Init
             PROVE  IInv
  OBVIOUS
<1>1. \A p \in Threads : run[p] = Idle /\ run[p].pc = "idle"
  BY IdleFacts DEF Init
<1>2. TypeOK
  <2>1. 0 \in 0..MaxRequeues /\ 0 \in 0..MaxCrashes
    OBVIOUS
  <2>2. queue \in [Places -> Seq(Tasks)]
    BY DEF Init, Places
  <2> QED
    BY <2>1, <2>2 DEF Init, TypeOK, Places
<1>3. RunOK
  BY <1>1, IdleFacts DEF Init, RunOK
<1>4. Views
  BY <1>1 DEF Init, Views, ViewOK
<1>5. \A k \in Places : queue[k] = <<>> /\ Len(queue[k]) = 0
  BY DEF Init, Places
<1>6. HandInv
  <2>1. \A t \in Tasks, p \in Threads : ~HasInHand(p, t)
    BY <1>1 DEF HasInHand
  <2>2. \A t \in Tasks, k \in Places : ~Occurs(t, k)
    BY <1>5 DEF Occurs
  <2>3. \A t \in Tasks : OneEntry(t)
    BY <1>5 DEF OneEntry
  <2> QED
    BY <2>1, <2>2, <2>3 DEF HandInv
<1>7. KeptInv
  BY DEF Init, KeptInv
<1>8. LockInv
  BY <1>1 DEF LockInv, Sweeping, Busy, Threads
<1> QED
  BY <1>2, <1>3, <1>4, <1>6, <1>7, <1>8 DEF IInv, TInv

----------------------------------------------------------------------------
(* The invariant holds *)

LEMMA ThreadInv ==
  ASSUME IInv, NEW p \in Threads,
         Begin(p) \/ FailoverStep(p) \/ ClaimStep(p) \/ WorkStep(p) \/ Crash(p)
  PROVE  IInv'
<1>1. CASE Begin(p)
  BY <1>1, BeginSweepInv, BeginClaimInv, BeginCreateInv, BeginWorkInv DEF Begin
<1>2. CASE FailoverStep(p)
  BY <1>2, LookInv, CheckInv, PutInv, PushInv, ClearInv, DrainInv, PopDeadInv,
     RecheckInv, EndSweepInv DEF FailoverStep
<1>3. CASE ClaimStep(p)
  BY <1>3, ResumeInv, PointerInv, TakeInv, AcceptInv, MarkInv, PointInv, AnswerInv
  DEF ClaimStep
<1>4. CASE WorkStep(p)
  BY <1>4, WorkInv, PointerInv DEF WorkStep
<1>5. CASE Crash(p)
  BY <1>5, CrashInv
<1> QED
  BY <1>1, <1>2, <1>3, <1>4, <1>5

LEMMA NextInv == IInv /\ [Next]_vars => IInv'
<1> SUFFICES ASSUME IInv, [Next]_vars
             PROVE  IInv'
  OBVIOUS
<1>1. CASE \E p \in Threads : Begin(p) \/ FailoverStep(p) \/ ClaimStep(p)
                                \/ WorkStep(p) \/ Crash(p)
  BY <1>1, ThreadInv
<1>2. CASE \E n \in Nodes : Heartbeat(n) \/ GoStale(n)
  BY <1>2, HeartbeatInv
<1>3. CASE LockExpires
  BY <1>3, LockExpiresInv
<1>4. CASE UNCHANGED vars
  BY <1>4, StutterInv
<1> QED
  BY <1>1, <1>2, <1>3, <1>4 DEF Next

LEMMA RedisInvariance == Spec => []IInv
  BY InitInv, NextInv, PTL DEF Spec

\* Every key keeps its type, and every thread is at a command it has the node
\* and the task for (server/app/utils/task_queue.py, utils/sweeper.py).
THEOREM RedisTypeCorrect == Spec => [](TypeOK /\ RunOK)
<1>1. IInv => TypeOK /\ RunOK
  BY DEF IInv, TInv
<1> QED
  BY <1>1, RedisInvariance, PTL

\* Whatever requests and sweeps run at once, a queued task has an entry where a
\* claim or a drain looks, or a thread that will put it there or mark it, as
\* long as no thread has died half-way (create_task, requeue_task,
\* drain_dead_node_queues and claim_task_for_node of utils/task_queue.py).
THEOREM TasksKept == Spec => []NoTaskLost
<1>1. IInv => NoTaskLost
  <2> SUFFICES ASSUME IInv, crashes = 0, NEW t \in Tasks, status[t] = "queued"
               PROVE  Occurs(t, assigned[t]) \/ InHand(t)
    BY DEF NoTaskLost
  <2>1. Held(t) => InHand(t)
    BY DEF Held, HeldBy, InHand
  <2> QED
    BY <2>1 DEF IInv, KeptInv
<1> QED
  BY <1>1, RedisInvariance, PTL

\* As long as no thread has written a row that changed since it read it, a task
\* has one entry at most, only while it waits, and none while a thread has it in
\* hand, even with threads dying (the pops and pushes of utils/task_queue.py).
THEOREM NobodyClaimsTwice == Spec => []HandledOnce
<1>1. IInv => HandledOnce
  <2> SUFFICES ASSUME IInv, ~raced, NEW t \in Tasks
               PROVE  /\ \A k, l \in DOMAIN queue :
                           \A i \in 1..Len(queue[k]), h \in 1..Len(queue[l]) :
                             queue[k][i] = t /\ queue[l][h] = t => k = l /\ i = h
                      /\ \A k \in DOMAIN queue :
                           Occurs(t, k) => status[t] = "queued" /\ ~InHand(t)
    BY DEF HandledOnce
  <2>1. DOMAIN queue = Places
    BY DEF IInv, TInv, TypeOK, Places
  <2>2. OneEntry(t)
    BY DEF IInv, HandInv
  <2>3. ASSUME NEW k \in Places, Occurs(t, k)
        PROVE  status[t] = "queued" /\ ~InHand(t)
    <3>1. status[t] = "queued" /\ \A p \in Threads : ~HasInHand(p, t)
      BY <2>3 DEF IInv, HandInv
    <3> QED
      BY <3>1 DEF InHand, HasInHand
  <2> QED
    BY <2>1, <2>2, <2>3 DEF OneEntry
<1> QED
  BY <1>1, RedisInvariance, PTL

\* If no sweep outlasts the TTL of its lock, one server sweeps at a time,
\* whatever server dies (utils/sweeper.py:_sweep_once).
THEOREM OneServerSweeps == ASSUME ~Overruns PROVE Spec => []OneSweeper
<1>1. IInv => OneSweeper
  BY DEF IInv, LockInv, OneSweeper
<1> QED
  BY <1>1, RedisInvariance, PTL

----------------------------------------------------------------------------
(* Command by command, the queue keeps the promise of TaskLifecycle *)

\* A command that writes one row, seen from TaskLifecycle.
LEMMA OneRowMoves ==
  ASSUME NEW t \in Tasks,
         \A u \in Tasks \ {t} : status'[u] = status[u] /\ assigned'[u] = assigned[u]
  PROVE  /\ phaseOfTask' = [phaseOfTask EXCEPT ![t] = PhaseOf(status'[t])]
         /\ holderOfTask' = [holderOfTask EXCEPT ![t] =
              IF status'[t] \in Active \cup {"completed"} THEN assigned'[t] ELSE NoNode]
         /\ phaseOfTask[t] = PhaseOf(status[t])
         /\ holderOfTask[t] = IF status[t] \in Active \cup {"completed"}
                              THEN assigned[t] ELSE NoNode
  BY DEF phaseOfTask, holderOfTask

LEMMA RowMoves ==
  ASSUME IInv, NEW t \in Tasks, NEW s, NEW a,
         status' = [status EXCEPT ![t] = s], assigned' = [assigned EXCEPT ![t] = a]
  PROVE  /\ phaseOfTask' = [phaseOfTask EXCEPT ![t] = PhaseOf(s)]
         /\ holderOfTask' = [holderOfTask EXCEPT ![t] =
              IF s \in Active \cup {"completed"} THEN a ELSE NoNode]
         /\ phaseOfTask[t] = PhaseOf(status[t])
         /\ holderOfTask[t] = IF status[t] \in Active \cup {"completed"}
                              THEN assigned[t] ELSE NoNode
<1>1. /\ status'[t] = s /\ assigned'[t] = a
      /\ \A u \in Tasks \ {t} : status'[u] = status[u] /\ assigned'[u] = assigned[u]
  BY DEF IInv, TInv, TypeOK
<1> QED
  BY <1>1, OneRowMoves

\* The phase of each status, and the statuses that have a holder.
LEMMA Phases ==
  /\ PhaseOf("absent") = "new" /\ PhaseOf("queued") = "waiting"
  /\ PhaseOf("claimed") = "held" /\ PhaseOf("running") = "held"
  /\ PhaseOf("completed") = "completed"
  /\ {"absent", "queued"} \cap (Active \cup {"completed"}) = {}
  /\ \A s \in Active : PhaseOf(s) = "held"
  BY DEF PhaseOf, Active

\* What a thread knows of the row it writes, if it is not raced.
LEMMA WriterKnows ==
  ASSUME IInv, NEW p \in Threads, Writes(p, run[p].task), ~raced',
         run[p].pc \in {"put", "mark", "download", "settle"}
  PROVE  LET t == run[p].task
         IN  /\ t \in Tasks
             /\ run[p].pc = "mark" => status[t] = "queued" /\ run[p].node \in Nodes
             /\ run[p].pc \in {"download", "settle"} => status[t] \in Active
             /\ run[p].pc = "put" => status[t] \in Active \cup {"queued"}
<1> PICK t : t = run[p].task
  OBVIOUS
<1>1. ~raced /\ t \in sees[p]
  BY WritesFacts DEF IInv, TInv, TypeOK
<1>2. t \in Tasks /\ run[p] \in Runs /\ GoodRun(p, run[p])
  BY DEF IInv, TInv, RunOK, GoodRun, WithTask
<1>3. HasInHand(p, t) => status[t] = "queued"
  BY <1>1, <1>2 DEF IInv, HandInv
<1>4. ViewOK(p)
  BY DEF IInv, TInv, Views
<1>5. CASE run[p].pc = "mark"
  BY <1>2, <1>3, <1>5 DEF HasInHand, GoodRun, WithNode
<1>6. CASE run[p].pc \in {"download", "settle"}
  BY <1>1, <1>2, <1>4, <1>6 DEF ViewOK
<1>7. CASE run[p].pc = "put"
  <2>1. run[p].then \in {"clear", "pop"}
    BY <1>2, <1>7 DEF Runs, GoodRun
  <2>2. CASE run[p].then = "clear"
    BY <1>1, <1>2, <1>4, <1>7, <2>2 DEF ViewOK
  <2>3. CASE run[p].then = "pop"
    BY <1>2, <1>3, <1>7, <2>3 DEF HasInHand
  <2> QED
    BY <1>7, <2>1, <2>2, <2>3
<1> QED
  BY <1>5, <1>6, <1>7

LEMMA CreateOffers ==
  ASSUME IInv, NEW p \in Threads, NEW t \in Tasks, NEW n \in Nodes, BeginCreate(p, t, n)
  PROVE  Promise!Offer(t)
<1>1. /\ status[t] = "absent" /\ status' = [status EXCEPT ![t] = "queued"]
      /\ assigned' = [assigned EXCEPT ![t] = n]
  BY DEF BeginCreate
<1>2. /\ phaseOfTask' = [phaseOfTask EXCEPT ![t] = PhaseOf("queued")]
      /\ holderOfTask' = [holderOfTask EXCEPT ![t] = NoNode]
      /\ phaseOfTask[t] = PhaseOf("absent") /\ holderOfTask[t] = NoNode
  BY <1>1, RowMoves, Phases
<1>3. UNCHANGED holderOfTask
  BY <1>2 DEF holderOfTask
<1> QED
  BY <1>2, <1>3, Phases DEF Promise!Offer

\* Failover takes a claim back, or hands on a task that waits.
LEMMA PutReturns ==
  ASSUME IInv, NEW p \in Threads, Put(p), ~raced'
  PROVE  \/ UNCHANGED <<phaseOfTask, holderOfTask>>
         \/ \E t \in Tasks : Promise!Return(t)
<1> PICK t, k : t = run[p].task /\ k = run[p].dest
  OBVIOUS
<1>1. /\ run[p].pc = "put" /\ Writes(p, t)
      /\ status' = [status EXCEPT ![t] = "queued"]
      /\ assigned' = [assigned EXCEPT ![t] = k]
  BY DEF Put
<1>2. t \in Tasks /\ status[t] \in Active \cup {"queued"}
  BY <1>1, WriterKnows
<1>3. /\ phaseOfTask' = [phaseOfTask EXCEPT ![t] = "waiting"]
      /\ holderOfTask' = [holderOfTask EXCEPT ![t] = NoNode]
      /\ phaseOfTask[t] = PhaseOf(status[t])
      /\ holderOfTask[t] = IF status[t] \in Active \cup {"completed"}
                           THEN assigned[t] ELSE NoNode
  <2>1. /\ phaseOfTask' = [phaseOfTask EXCEPT ![t] = PhaseOf("queued")]
        /\ holderOfTask' = [holderOfTask EXCEPT ![t] =
             IF "queued" \in Active \cup {"completed"} THEN k ELSE NoNode]
        /\ phaseOfTask[t] = PhaseOf(status[t])
        /\ holderOfTask[t] = IF status[t] \in Active \cup {"completed"}
                             THEN assigned[t] ELSE NoNode
    BY <1>1, <1>2, RowMoves
  <2>2. "queued" \notin Active \cup {"completed"} /\ PhaseOf("queued") = "waiting"
    BY Phases
  <2> QED
    BY <2>1, <2>2
<1>4. CASE status[t] \in Active
  <2>1. phaseOfTask[t] = "held"
    BY <1>3, <1>4, Phases
  <2> QED
    BY <1>2, <1>3, <2>1 DEF Promise!Return
<1>5. CASE status[t] = "queued"
  <2>1. phaseOfTask[t] = "waiting" /\ holderOfTask[t] = NoNode
    BY <1>3, <1>5, Phases
  <2> QED
    BY <1>3, <2>1 DEF phaseOfTask, holderOfTask
<1> QED
  BY <1>2, <1>4, <1>5

LEMMA MarkGrants ==
  ASSUME IInv, NEW p \in Threads, Mark(p), ~raced'
  PROVE  \E t \in Tasks, n \in Nodes : Promise!Grant(t, n)
<1> PICK t, n : t = run[p].task /\ n = run[p].node
  OBVIOUS
<1>1. /\ run[p].pc = "mark" /\ Writes(p, t)
      /\ status' = [status EXCEPT ![t] = "claimed"]
      /\ assigned' = [assigned EXCEPT ![t] = n]
  BY DEF Mark
<1>2. t \in Tasks /\ n \in Nodes /\ status[t] = "queued"
  BY <1>1, WriterKnows
<1>3. "claimed" \in Active
  BY DEF Active
<1>4. /\ phaseOfTask' = [phaseOfTask EXCEPT ![t] = "held"]
      /\ holderOfTask' = [holderOfTask EXCEPT ![t] = n]
      /\ phaseOfTask[t] = "waiting"
  BY <1>1, <1>2, <1>3, RowMoves, Phases
<1> QED
  BY <1>2, <1>4 DEF Promise!Grant

\* A result is recorded for the node that holds the task, and once.
LEMMA SettleConcludes ==
  ASSUME IInv, NEW p \in Threads, Settle(p), ~raced'
  PROVE  \E t \in Tasks : Promise!Conclude(t, "completed")
<1> PICK t, n : t = run[p].task /\ n = assigned[t]
  OBVIOUS
<1>1. /\ run[p].pc = "settle" /\ Writes(p, t)
      /\ status' = [status EXCEPT ![t] = "completed"] /\ assigned' = assigned
  BY DEF Settle
<1>2. t \in Tasks /\ status[t] \in Active
  BY <1>1, WriterKnows
<1>3. assigned' = [assigned EXCEPT ![t] = n]
  BY <1>1 DEF IInv, TInv, TypeOK
<1>4. /\ phaseOfTask' = [phaseOfTask EXCEPT ![t] = "completed"]
      /\ holderOfTask' = [holderOfTask EXCEPT ![t] = n]
      /\ phaseOfTask[t] = "held" /\ holderOfTask[t] = n
  BY <1>1, <1>2, <1>3, RowMoves, Phases
<1>5. UNCHANGED holderOfTask
  BY <1>4 DEF holderOfTask
<1> QED
  BY <1>2, <1>4, <1>5 DEF Promise!Conclude

\* A download moves the task between two statuses of one phase.
LEMMA DownloadStutters ==
  ASSUME IInv, NEW p \in Threads, MarkRunning(p), ~raced'
  PROVE  UNCHANGED <<phaseOfTask, holderOfTask>>
<1> PICK t, n : t = run[p].task /\ n = assigned[t]
  OBVIOUS
<1>1. /\ run[p].pc = "download" /\ Writes(p, t)
      /\ status' = [status EXCEPT ![t] = "running"] /\ assigned' = assigned
  BY DEF MarkRunning
<1>2. t \in Tasks /\ status[t] \in Active
  BY <1>1, WriterKnows
<1>3. assigned' = [assigned EXCEPT ![t] = n] /\ "running" \in Active
  BY <1>1 DEF IInv, TInv, TypeOK, Active
<1>4. /\ phaseOfTask' = [phaseOfTask EXCEPT ![t] = "held"]
      /\ holderOfTask' = [holderOfTask EXCEPT ![t] = n]
      /\ phaseOfTask[t] = "held" /\ holderOfTask[t] = n
  BY <1>1, <1>2, <1>3, RowMoves, Phases
<1> QED
  BY <1>4 DEF phaseOfTask, holderOfTask

\* Every other command leaves the rows as they are.
LEMMA NoRowWritten ==
  ASSUME UNCHANGED <<status, assigned>>
  PROVE  UNCHANGED <<phaseOfTask, holderOfTask>>
  BY DEF phaseOfTask, holderOfTask

LEMMA ThreadKeepsPromise ==
  ASSUME IInv, NEW p \in Threads, ~raced',
         Begin(p) \/ FailoverStep(p) \/ ClaimStep(p) \/ WorkStep(p) \/ Crash(p)
  PROVE  [Promise!Next]_<<phaseOfTask, holderOfTask>>
<1>1. CASE Begin(p)
  <2>1. CASE \E t \in Tasks, n \in Nodes : BeginCreate(p, t, n)
    BY <2>1, CreateOffers DEF Promise!Next
  <2>2. CASE \/ BeginSweep(p) \/ \E n \in Nodes : BeginClaim(p, n)
             \/ \E t \in Tasks, pc \in {"download", "settle"} : BeginWork(p, t, pc)
    BY <2>2, NoRowWritten DEF BeginSweep, BeginClaim, BeginWork, rows
  <2> QED
    BY <1>1, <2>1, <2>2 DEF Begin
<1>2. CASE FailoverStep(p)
  <2>1. CASE Put(p)
    BY <2>1, PutReturns DEF Promise!Next
  <2>2. CASE Look(p) \/ Check(p) \/ Push(p) \/ Clear(p) \/ Drain(p) \/ PopDead(p)
               \/ Recheck(p) \/ EndSweep(p)
    BY <2>2, NoRowWritten
    DEF Look, Check, Recheck, Decide, Push, Clear, Drain, PopDead, EndSweep, rows
  <2> QED
    BY <1>2, <2>1, <2>2 DEF FailoverStep
<1>3. CASE ClaimStep(p)
  <2>1. CASE Mark(p)
    BY <2>1, MarkGrants DEF Promise!Next
  <2>2. CASE Resume(p) \/ Unset(p) \/ Take(p) \/ Share(p) \/ Accept(p) \/ Point(p)
               \/ Answer(p)
    BY <2>2, NoRowWritten
    DEF Resume, Unset, Take, Share, PopQueue, Accept, Point, Answer, rows
  <2> QED
    BY <1>3, <2>1, <2>2 DEF ClaimStep
<1>4. CASE WorkStep(p)
  <2>1. CASE Settle(p)
    BY <2>1, SettleConcludes DEF Promise!Next
  <2>2. CASE MarkRunning(p)
    BY <2>2, DownloadStutters
  <2>3. CASE Free(p)
    BY <2>3, NoRowWritten DEF Free, rows
  <2> QED
    BY <1>4, <2>1, <2>2, <2>3 DEF WorkStep
<1>5. CASE Crash(p)
  BY <1>5, NoRowWritten DEF Crash, rows
<1> QED
  BY <1>1, <1>2, <1>3, <1>4, <1>5

LEMMA StepKeepsPromise ==
  ASSUME IInv, [Next]_vars, ~raced'
  PROVE  [Promise!Next]_<<phaseOfTask, holderOfTask>>
<1>1. CASE \E p \in Threads : Begin(p) \/ FailoverStep(p) \/ ClaimStep(p)
                                \/ WorkStep(p) \/ Crash(p)
  BY <1>1, ThreadKeepsPromise
<1>2. CASE (\E n \in Nodes : Heartbeat(n) \/ GoStale(n)) \/ LockExpires
  BY <1>2, NoRowWritten DEF Heartbeat, GoStale, LockExpires, rows
<1>3. CASE UNCHANGED vars
  BY <1>3, NoRowWritten DEF vars
<1> QED
  BY <1>1, <1>2, <1>3 DEF Next

\* One Redis command at a time, with requests, sweeps and deaths in any order,
\* the task queue still grants each task to one node at a time and records one
\* verdict, that of the node that holds it, up to the first write over a row
\* that changed since it was read (server/app/utils/task_queue.py).
THEOREM PromiseKept == Spec => PromiseUnlessRaced
<1>1. Init => Promise!Init
  BY DEF Init, Promise!Init, phaseOfTask, holderOfTask, PhaseOf, Active
<1>2. IInv /\ [Next]_vars => [~raced' => [Promise!Next]_<<phaseOfTask, holderOfTask>>]_vars
  BY StepKeepsPromise
<1> QED
  BY <1>1, <1>2, RedisInvariance, PTL DEF Spec, PromiseUnlessRaced

\* A verdict is the last thing the lifecycle has for a task.
LEMMA VerdictIsLast ==
  ASSUME [Promise!Next]_<<phaseOfTask, holderOfTask>>,
         NEW t \in Tasks, phaseOfTask[t] = "completed"
  PROVE  phaseOfTask'[t] \in {"completed", "forgotten"}
<1>1. DOMAIN phaseOfTask = Tasks /\ phaseOfTask = [u \in Tasks |-> phaseOfTask[u]]
  BY DEF phaseOfTask
<1>2. CASE \E u \in Tasks : Promise!Offer(u) \/ Promise!Return(u) \/ Promise!Forget(u)
  BY <1>1, <1>2 DEF Promise!Offer, Promise!Return, Promise!Forget
<1>3. CASE \E u \in Tasks, n \in Nodes : Promise!Grant(u, n)
  BY <1>1, <1>3 DEF Promise!Grant
<1>4. CASE \E u \in Tasks, verdict \in {"completed", "failed"} : Promise!Conclude(u, verdict)
  BY <1>1, <1>4 DEF Promise!Conclude
<1>5. CASE UNCHANGED <<phaseOfTask, holderOfTask>>
  BY <1>5
<1> QED
  BY <1>2, <1>3, <1>4, <1>5 DEF Promise!Next

\* "Anything already finished or failed can be left where it is"
\* (task_queue.py:491): what the sweep breaks (FinishedStaysPut), it breaks only
\* by writing a row that changed since it read it.
THEOREM OnlyRacesUndo ==
  Spec => [][~raced' => \A t \in Tasks :
               status[t] = "completed" => status'[t] = "completed"]_vars
<1>1. IInv /\ IInv' /\ [Next]_vars =>
        [~raced' => \A t \in Tasks :
           status[t] = "completed" => status'[t] = "completed"]_vars
  <2> SUFFICES ASSUME IInv, IInv', [Next]_vars, ~raced',
                      NEW t \in Tasks, status[t] = "completed"
               PROVE  status'[t] = "completed"
    OBVIOUS
  <2>1. phaseOfTask[t] = "completed"
    BY Phases DEF phaseOfTask
  <2>2. phaseOfTask'[t] \in {"completed", "forgotten"}
    BY <2>1, StepKeepsPromise, VerdictIsLast
  <2>3. /\ phaseOfTask'[t] = PhaseOf(status'[t])
        /\ status'[t] \in {"absent", "queued", "claimed", "running", "completed"}
    BY DEF phaseOfTask, IInv, TInv, TypeOK
  <2> QED
    BY <2>2, <2>3, Phases
<1> QED
  BY <1>1, RedisInvariance, PTL DEF Spec
=============================================================================
