------------------------- MODULE LoadBalancerProofs -------------------------
(***************************************************************************)
(* Hosting and the load balancer, for any number of nodes, deployments,    *)
(* requests, crashes and losses: a deployment starts once on a node, a     *)
(* request is in one place and run once in its life, and what is lost is   *)
(* what a fault took.                                                      *)
(***************************************************************************)
EXTENDS LoadBalancer, FiniteSetTheorems, TLAPS

USE HostingAssumption, RequestAssumption

----------------------------------------------------------------------------
(* Hosting: what a node starts, it starts once *)

HInv == HostingTypeOK /\ StartedOnce

LEMMA HostingInitInv == HostingInit => HInv
  BY DEF HostingInit, HInv, HostingTypeOK, StartedOnce, Reporting

\* The queues stay queues of deployments, whoever is chosen.
LEMMA AssignType ==
  ASSUME HostingTypeOK, NEW p \in Pids, NEW already, Assign(p, already)
  PROVE  assignments' \in [Nodes -> Seq(Pids)]
<1>1. \A n \in Nodes : Push(assignments[n], p) \in Seq(Pids)
  BY DEF HostingTypeOK, Push
<1> HIDE DEF Push, Chosen
<1> QED
  BY <1>1 DEF HostingTypeOK, Assign

\* What the server does leaves the nodes alone.
LEMMA ServerInv ==
  ASSUME HInv, NEW p \in Pids, Deploy(p) \/ Remove(p) \/ Reap(p)
  PROVE  HInv'
<1>1. UNCHANGED <<healthy, nodeVars, crashes, losses>>
  BY DEF Deploy, Remove, Reap, bounds
<1>2. UNCHANGED <<loop, stop, apps, starting, fetched, givenUp>>
  BY <1>1 DEF nodeVars
<1>3. dep' \in [Pids -> {"none", "running", "failed", "removed"}]
  <2>1. \/ dep' = [dep EXCEPT ![p] = "running"]
        \/ dep' = [dep EXCEPT ![p] = "removed"]
        \/ dep' = dep
    BY DEF Deploy, Remove, Reap
  <2> QED
    BY <2>1 DEF HInv, HostingTypeOK
<1>4. serving' \in [Pids -> SUBSET Nodes] /\ silent' \subseteq Nodes \X Pids
  <2>1. \/ UNCHANGED serving
        \/ \E kept \in SUBSET Nodes : serving' = [serving EXCEPT ![p] = kept]
    <3>1. {n \in serving[p] \cap healthy : <<n, p>> \notin silent} \in SUBSET Nodes
      BY DEF HInv, HostingTypeOK
    <3> QED
      BY <3>1 DEF Deploy, Remove, Reap
  <2>2. silent' \subseteq silent
    BY DEF Deploy, Remove, Reap
  <2>3. serving' \in [Pids -> SUBSET Nodes]
    <3>1. serving \in [Pids -> SUBSET Nodes]
      BY DEF HInv, HostingTypeOK
    <3>2. ASSUME NEW kept \in SUBSET Nodes
          PROVE  [serving EXCEPT ![p] = kept] \in [Pids -> SUBSET Nodes]
      BY <3>1
    <3> QED
      BY <2>1, <3>1, <3>2
  <2>4. silent' \subseteq Nodes \X Pids
    BY <2>2 DEF HInv, HostingTypeOK
  <2> QED
    BY <2>3, <2>4
<1>5. assignments' \in [Nodes -> Seq(Pids)]
  <2>1. \/ \E already : Assign(p, already)
        \/ UNCHANGED assignments
    BY DEF Deploy, Remove, Reap
  <2> QED
    BY <2>1, AssignType DEF HInv, HostingTypeOK
<1> QED
  BY <1>1, <1>2, <1>3, <1>4, <1>5 DEF HInv, HostingTypeOK, StartedOnce

\* A node that is down has nothing to start.
LEMMA ProcessInv ==
  ASSUME HInv, NEW n \in Nodes, Process(n)
  PROVE  HInv'
<1>1. CASE Boot(n)
  BY <1>1 DEF HInv, HostingTypeOK, StartedOnce, Boot, Goto, bounds
<1>2. CASE Crash(n)
  <2>1. /\ crashes' \in 0..MaxCrashes
        /\ loop' \in [Nodes -> {"down", "claim", "next", "wait"}]
        /\ stop' \in [Nodes -> SUBSET Pids] /\ apps' \in [Nodes -> SUBSET Pids]
        /\ givenUp' \in [Nodes -> SUBSET Pids] /\ fetched' \in [Nodes -> SUBSET Pids]
        /\ starting' \in [Nodes -> [Pids -> 0..Reporting]]
    BY <1>2 DEF HInv, HostingTypeOK, Crash, Goto, Reporting
  <2>2. HostingTypeOK'
    BY <1>2, <2>1 DEF HInv, HostingTypeOK, Crash, serverVars
  <2>3. \A p \in Pids : starting'[n][p] = 0
    BY <1>2 DEF HInv, HostingTypeOK, Crash
  <2>4. \A m \in Nodes \ {n} :
          starting'[m] = starting[m] /\ apps'[m] = apps[m] /\ givenUp'[m] = givenUp[m]
    BY <1>2 DEF HInv, HostingTypeOK, Crash
  <2>5. StartedOnce'
    BY <2>3, <2>4 DEF HInv, StartedOnce
  <2> QED
    BY <2>2, <2>5 DEF HInv
<1>3. CASE Beat(n) \/ GoStale(n)
  BY <1>3 DEF HInv, HostingTypeOK, StartedOnce, Beat, GoStale, nodeVars, bounds
<1> QED
  BY <1>1, <1>2, <1>3 DEF Process

\* An assignment is started if it is fresh: under the three locks.
LEMMA ClaimInv ==
  ASSUME HInv, NEW n \in Nodes, ClaimAssignment(n)
  PROVE  HInv'
<1>1. UNCHANGED <<healthy, dep, serving, silent, stop, apps, fetched, givenUp, crashes>>
  BY DEF ClaimAssignment
<1>2. loop' \in [Nodes -> {"down", "claim", "next", "wait"}]
  BY DEF HInv, HostingTypeOK, ClaimAssignment, Goto
<1>3. CASE UNCHANGED <<assignments, starting, losses>>
  BY <1>1, <1>2, <1>3 DEF HInv, HostingTypeOK, StartedOnce
<1>4. CASE assignments[n] # <<>> /\ Dispatch(n)
  <2>1. assignments' \in [Nodes -> Seq(Pids)] /\ Head(assignments[n]) \in Pids
    BY <1>4 DEF HInv, HostingTypeOK, Dispatch
  <2>2. losses' \in 0..MaxLosses
    BY <1>4 DEF HInv, HostingTypeOK, ClaimAssignment, Lose
  <2>3. CASE UNCHANGED starting
    BY <1>1, <1>2, <2>1, <2>2, <2>3 DEF HInv, HostingTypeOK, StartedOnce
  <2>4. CASE ~UNCHANGED starting
    <3>1. PICK p \in Pids : Fresh(n, p) /\ starting' = [starting EXCEPT ![n][p] = 1]
      BY <1>4, <2>1, <2>4 DEF ClaimAssignment
    <3>2. starting' \in [Nodes -> [Pids -> 0..Reporting]]
      BY <3>1 DEF HInv, HostingTypeOK, Reporting
    <3>3. \A m \in Nodes, q \in Pids :
            m # n \/ q # p => starting'[m][q] = starting[m][q]
      BY <3>1 DEF HInv, HostingTypeOK
    <3>4. StartedOnce'
      BY <1>1, <3>1, <3>3 DEF HInv, StartedOnce, Fresh
    <3> QED
      BY <1>1, <1>2, <2>1, <2>2, <3>2, <3>4 DEF HInv, HostingTypeOK
  <2> QED
    BY <2>3, <2>4
<1> QED
  BY <1>3, <1>4 DEF ClaimAssignment

LEMMA LessFetched ==
  ASSUME HInv, NEW n \in Nodes, NEW p, fetched' = [fetched EXCEPT ![n] = @ \ {p}]
  PROVE  fetched' \in [Nodes -> SUBSET Pids]
<1> PICK left : left = fetched[n] \ {p}
  OBVIOUS
<1>1. left \in SUBSET Pids /\ fetched \in [Nodes -> SUBSET Pids]
  BY DEF HInv, HostingTypeOK
<1>2. fetched' = [fetched EXCEPT ![n] = left]
  OBVIOUS
<1> QED
  BY <1>1, <1>2

\* A start task ends by bringing the app up or by giving up.
LEMMA StartInv ==
  ASSUME HInv, NEW n \in Nodes, NEW p \in Pids, StartStep(n, p)
  PROVE  HInv'
<1>1. CASE StartUp(n, p)
  <2>1. /\ apps' \in [Nodes -> SUBSET Pids]
        /\ starting' \in [Nodes -> [Pids -> 0..Reporting]]
        /\ starting'[n][p] = 0
        /\ \A m \in Nodes, q \in Pids : m # n \/ q # p =>
             starting'[m][q] = starting[m][q] /\ (q \in apps'[m] <=> q \in apps[m])
    BY <1>1 DEF HInv, HostingTypeOK, StartUp, Reporting
  <2>0. fetched' \in [Nodes -> SUBSET Pids]
    BY <1>1, LessFetched DEF StartUp
  <2>2. UNCHANGED <<healthy, dep, assignments, serving, silent, loop, stop, givenUp,
                    crashes, losses>>
    BY <1>1 DEF StartUp, serverVars, bounds
  <2>3. HostingTypeOK'
    BY <2>0, <2>1, <2>2 DEF HInv, HostingTypeOK
  <2>4. StartedOnce'
    BY <2>1, <2>2 DEF HInv, StartedOnce
  <2> QED
    BY <2>3, <2>4 DEF HInv
<1>2. CASE StartFails(n, p)
  <2>1. /\ starting' \in [Nodes -> [Pids -> 0..Reporting]]
        /\ starting'[n][p] = starting[n][p] + 1
        /\ \A m \in Nodes, q \in Pids : m # n \/ q # p =>
             starting'[m][q] = starting[m][q]
    BY <1>2 DEF HInv, HostingTypeOK, StartFails, Reporting
  <2>2. /\ givenUp' \in [Nodes -> SUBSET Pids]
        /\ starting[n][p] # MaxStartAttempts => givenUp' = givenUp
        /\ \A m \in Nodes, q \in Pids : m # n \/ q # p =>
             (q \in givenUp'[m] <=> q \in givenUp[m])
    BY <1>2 DEF HInv, HostingTypeOK, StartFails
  <2>3. UNCHANGED <<healthy, dep, assignments, serving, silent, loop, stop, apps, crashes>>
    BY <1>2 DEF StartFails, serverVars
  <2>4. losses' \in 0..MaxLosses
    BY <1>2 DEF HInv, HostingTypeOK, StartFails, NoBundle, NotReady, Lose
  <2>0. fetched' \in [Nodes -> SUBSET Pids]
    BY <1>2, LessFetched DEF StartFails
  <2>5. starting[n][p] \in 1..MaxStartAttempts
    BY <1>2 DEF StartFails
  <2>6. HostingTypeOK'
    BY <2>0, <2>1, <2>2, <2>3, <2>4 DEF HInv, HostingTypeOK
  <2>7. StartedOnce'
    <3> SUFFICES ASSUME NEW m \in Nodes, NEW q \in Pids,
                        starting'[m][q] \in 1..MaxStartAttempts
                 PROVE  q \notin apps'[m] \cup givenUp'[m]
      BY DEF StartedOnce
    <3>1. CASE m = n /\ q = p
      <4>1. starting[n][p] # MaxStartAttempts
        BY <2>1, <3>1
      <4> QED
        BY <2>2, <2>3, <2>5, <3>1, <4>1 DEF HInv, StartedOnce
    <3>2. CASE m # n \/ q # p
      BY <2>1, <2>2, <2>3, <3>2 DEF HInv, StartedOnce
    <3> QED
      BY <3>1, <3>2
  <2> QED
    BY <2>6, <2>7 DEF HInv
<1>3. CASE ReportFailed(n, p)
  <2>1. /\ starting' \in [Nodes -> [Pids -> 0..Reporting]]
        /\ starting'[n][p] = 0
        /\ \A m \in Nodes, q \in Pids : m # n \/ q # p =>
             starting'[m][q] = starting[m][q]
    BY <1>3 DEF HInv, HostingTypeOK, ReportFailed, Reporting
  <2>2. /\ dep' \in [Pids -> {"none", "running", "failed", "removed"}]
        /\ losses' \in 0..MaxLosses
    <3>1. dep' = dep \/ dep' = [dep EXCEPT ![p] = "failed"]
      BY <1>3 DEF ReportFailed, MarkFailed
    <3>2. losses' = losses \/ (losses < MaxLosses /\ losses' = losses + 1)
      BY <1>3 DEF ReportFailed, MarkFailed, Lose
    <3>3. dep' \in [Pids -> {"none", "running", "failed", "removed"}]
      BY <3>1 DEF HInv, HostingTypeOK
    <3>4. losses' \in 0..MaxLosses
      BY <3>2 DEF HInv, HostingTypeOK
    <3> QED
      BY <3>3, <3>4
  <2>3. UNCHANGED <<healthy, assignments, serving, silent, loop, stop, apps, fetched, givenUp, crashes>>
    BY <1>3 DEF ReportFailed
  <2>4. HostingTypeOK'
    BY <2>1, <2>2, <2>3 DEF HInv, HostingTypeOK
  <2>5. StartedOnce'
    BY <2>1, <2>3 DEF HInv, StartedOnce
  <2> QED
    BY <2>4, <2>5 DEF HInv
<1>4. CASE Download(n, p)
  <2>1. fetched' \in [Nodes -> SUBSET Pids]
    BY <1>4 DEF HInv, HostingTypeOK, Download
  <2>2. UNCHANGED <<serverVars, loop, stop, apps, starting, givenUp, bounds>>
    BY <1>4 DEF Download
  <2> QED
    BY <2>1, <2>2 DEF HInv, HostingTypeOK, StartedOnce, serverVars, bounds
<1> QED
  BY <1>1, <1>2, <1>3, <1>4 DEF StartStep

\* A poll starts nothing, and its answer only stops apps.
LEMMA PollInv ==
  ASSUME HInv, NEW n \in Nodes, Poll(n) \/ SkipPoll(n) \/ PollDone(n)
  PROVE  HInv'
<1>1. CASE Poll(n)
  <2> DEFINE active == {p \in apps[n] : dep[p] = "running"}
  <2>1. /\ loop' \in [Nodes -> {"down", "claim", "next", "wait"}]
        /\ serving' \in [Pids -> SUBSET Nodes] /\ silent' \subseteq Nodes \X Pids
        /\ stop' \in [Nodes -> SUBSET Pids]
    BY <1>1 DEF HInv, HostingTypeOK, Poll, Goto
  <2>2. UNCHANGED <<healthy, dep, assignments, apps, starting, fetched, givenUp, crashes, losses>>
    BY <1>1 DEF Poll, bounds
  <2> QED
    BY <2>1, <2>2 DEF HInv, HostingTypeOK, StartedOnce
<1>2. CASE SkipPoll(n)
  <2>1. /\ loop' \in [Nodes -> {"down", "claim", "next", "wait"}]
        /\ losses' \in 0..MaxLosses
    BY <1>2 DEF HInv, HostingTypeOK, SkipPoll, Goto, Lose
  <2>2. UNCHANGED <<healthy, dep, assignments, serving, silent, stop, apps, starting,
                    fetched, givenUp, crashes>>
    BY <1>2 DEF SkipPoll, serverVars
  <2> QED
    BY <2>1, <2>2 DEF HInv, HostingTypeOK, StartedOnce
<1>3. CASE PollDone(n)
  <2>1. /\ loop' \in [Nodes -> {"down", "claim", "next", "wait"}]
        /\ stop' \in [Nodes -> SUBSET Pids] /\ apps' \in [Nodes -> SUBSET Pids]
        /\ \A m \in Nodes : apps'[m] \subseteq apps[m]
        /\ losses' \in 0..MaxLosses
    <3>1. \/ apps' = [apps EXCEPT ![n] = apps[n] \ stop[n]] /\ losses' = losses
          \/ apps' = apps /\ losses < MaxLosses /\ losses' = losses + 1
      BY <1>3 DEF PollDone, Lose
    <3>2. apps' \in [Nodes -> SUBSET Pids] /\ \A m \in Nodes : apps'[m] \subseteq apps[m]
      <4> DEFINE left == apps[n] \ stop[n]
      <4>1. left \in SUBSET Pids /\ left \subseteq apps[n]
        BY DEF HInv, HostingTypeOK
      <4> HIDE DEF left
      <4>2. apps' = apps \/ apps' = [apps EXCEPT ![n] = left]
        BY <3>1 DEF left
      <4>3. apps \in [Nodes -> SUBSET Pids]
        BY DEF HInv, HostingTypeOK
      <4>4. apps' \in [Nodes -> SUBSET Pids]
        BY <4>1, <4>2, <4>3
      <4>5. \A m \in Nodes : apps'[m] \subseteq apps[m]
        BY <4>1, <4>2, <4>3
      <4> QED
        BY <4>4, <4>5
    <3>3. losses' \in 0..MaxLosses
      BY <3>1 DEF HInv, HostingTypeOK
    <3>4. /\ loop' \in [Nodes -> {"down", "claim", "next", "wait"}]
          /\ stop' \in [Nodes -> SUBSET Pids]
      BY <1>3 DEF HInv, HostingTypeOK, PollDone, Goto
    <3> QED
      BY <3>2, <3>3, <3>4
  <2>2. UNCHANGED <<healthy, dep, assignments, serving, silent, starting, fetched, givenUp, crashes>>
    BY <1>3 DEF PollDone, serverVars
  <2>3. HostingTypeOK'
    BY <2>1, <2>2 DEF HInv, HostingTypeOK
  <2>4. StartedOnce'
    BY <2>1, <2>2 DEF HInv, StartedOnce
  <2> QED
    BY <2>3, <2>4 DEF HInv
<1> QED
  BY <1>1, <1>2, <1>3

LEMMA FallSilentInv ==
  ASSUME HInv, NEW n \in Nodes, NEW p \in Pids, FallSilent(n, p)
  PROVE  HInv'
  BY DEF HInv, HostingTypeOK, StartedOnce, FallSilent, nodeVars, bounds

LEMMA HostingNextInv == HInv /\ [HostingNext]_hostVars => HInv'
<1> SUFFICES ASSUME HInv, [HostingNext]_hostVars PROVE HInv'
  OBVIOUS
<1>1. CASE UNCHANGED hostVars
  BY <1>1 DEF HInv, HostingTypeOK, StartedOnce, hostVars, serverVars, nodeVars, bounds
<1> QED
  BY <1>1, ServerInv, FallSilentInv, StartInv, ProcessInv, ClaimInv, PollInv
  DEF HostingNext, LoopStep

\* What the server's tables and the nodes' maps hold keeps its type.
THEOREM HostingTypeCorrect == HostingSpec => []HostingTypeOK
<1>1. HInv => HostingTypeOK
  BY DEF HInv
<1> QED
  BY <1>1, HostingInitInv, HostingNextInv, PTL DEF HostingSpec

\* However the server's sweeps repeat an assignment, and however many nodes and
\* attempts there are, no node starts a deployment over its own running copy
\* (node/src/serve.rs:309-326).
THEOREM NoDoubleStart == HostingSpec => []StartedOnce
<1>1. HInv => StartedOnce
  BY DEF HInv
<1> QED
  BY <1>1, HostingInitInv, HostingNextInv, PTL DEF HostingSpec

----------------------------------------------------------------------------
(* The load balancer.  A request is in one place: its queue, one node's loop, *)
(* or the responses, and somebody has waited for it (QueuesFit, PlacesFit).   *)
(* What is in none of them although its caller waits has been forgotten, and  *)
(* each forgotten request is charged to a loss, or to a crash: the crash of   *)
(* the loop that had it, or that of the ghost that took it.  A crash cannot   *)
(* be charged twice, as a loop does not poll while it proxies (LBTypeOK), and *)
(* a crash that still has a ghost has not been charged yet (Accounted).       *)

Active(r) == caller[r] \in {"waiting", "timed out"}

QueuesFit ==
  \A p \in Pids : \A i \in 1..Len(pending[p]) :
    /\ PidOf[pending[p][i]] = p
    /\ \A j \in 1..Len(pending[p]) : pending[p][i] = pending[p][j] => i = j

PlacesFit ==
  \A r \in Requests :
    /\ \A n, m \in Nodes : handling[n] = r /\ handling[m] = r => n = m
    /\ Handled(r) => ~Queued(r) /\ r \notin responses /\ Active(r)
    /\ Queued(r) => r \notin responses /\ Active(r)
    /\ r \in responses => Active(r)

\* A poll is on apps that its answer will not stop.
PollsFit == \A n \in Nodes : polled[n] \subseteq apps[n] \ stop[n]

GhostCrashes == {g[1] : g \in ghosts}

Forgotten ==
  {r \in Requests :
     /\ caller[r] = "waiting" /\ dep[PidOf[r]] # "removed"
     /\ ~Queued(r) /\ ~Handled(r) /\ r \notin responses}

Accounted ==
  /\ IsFiniteSet(Forgotten) /\ IsFiniteSet(GhostCrashes)
  /\ Cardinality(Forgotten) + Cardinality(GhostCrashes) <= crashes + losses

RInv == LBTypeOK /\ QueuesFit /\ PlacesFit /\ PollsFit /\ Accounted

IInv == HInv /\ RInv

----------------------------------------------------------------------------
(* Queues *)

\* The queues after r has joined that of its deployment.
LEMMA EnqueueFacts ==
  ASSUME LBTypeOK, QueuesFit, NEW r \in Requests, ~Queued(r),
         pending' = [pending EXCEPT ![PidOf[r]] = Append(pending[PidOf[r]], r)]
  PROVE  /\ pending' \in [Pids -> Seq(Requests)] /\ QueuesFit'
         /\ \A x \in Requests : Queued(x)' <=> Queued(x) \/ x = r
<1> DEFINE p == PidOf[r]
<1> PICK q : q = pending[p]
  OBVIOUS
<1>1. p \in Pids /\ q \in Seq(Requests)
  BY DEF LBTypeOK
<1>2. /\ Append(q, r) \in Seq(Requests) /\ Len(Append(q, r)) = Len(q) + 1
      /\ \A i \in 1..Len(q) : Append(q, r)[i] = q[i]
      /\ Append(q, r)[Len(q) + 1] = r
      /\ Len(q) \in Nat
  BY <1>1
<1>3. /\ pending' \in [Pids -> Seq(Requests)]
      /\ pending'[p] = Append(q, r)
      /\ \A o \in Pids \ {p} : pending'[o] = pending[o]
  BY <1>1, <1>2 DEF LBTypeOK
<1>4. \A i \in 1..Len(q) : q[i] # r
  BY DEF Queued
<1>5. QueuesFit'
  <2> SUFFICES ASSUME NEW o \in Pids, NEW i \in 1..Len(pending'[o])
               PROVE  /\ PidOf[pending'[o][i]] = o
                      /\ \A j \in 1..Len(pending'[o]) : pending'[o][i] = pending'[o][j] => i = j
    BY DEF QueuesFit
  <2>1. CASE o # p
    BY <1>3, <2>1 DEF QueuesFit
  <2>2. CASE o = p
    <3>1. PidOf[Append(q, r)[i]] = p
      BY <1>1, <1>2, <1>3, <2>2 DEF QueuesFit
    <3>2. ASSUME NEW j \in 1..Len(Append(q, r)), Append(q, r)[i] = Append(q, r)[j]
          PROVE  i = j
      <4>1. i \in 1..Len(q) \/ i = Len(q) + 1
        BY <1>2, <1>3, <2>2
      <4>2. j \in 1..Len(q) \/ j = Len(q) + 1
        BY <1>2, <3>2
      <4> QED
        BY <1>1, <1>2, <1>4, <3>2, <4>1, <4>2 DEF QueuesFit
    <3> QED
      BY <1>3, <2>2, <3>1, <3>2
  <2> QED
    BY <2>1, <2>2
<1>6. ASSUME NEW x \in Requests PROVE Queued(x)' <=> Queued(x) \/ x = r
  <2>1. CASE PidOf[x] # p
    BY <1>3, <2>1, RequestAssumption DEF Queued
  <2>2. CASE PidOf[x] = p
    <3>1. Queued(x)' <=> \E i \in 1..(Len(q) + 1) : Append(q, r)[i] = x
      BY <1>2, <1>3, <2>2 DEF Queued
    <3>2. Queued(x) <=> \E i \in 1..Len(q) : q[i] = x
      BY <2>2 DEF Queued
    <3>3. (\E i \in 1..(Len(q) + 1) : Append(q, r)[i] = x)
            <=> (\E i \in 1..Len(q) : q[i] = x) \/ x = r
      BY <1>2
    <3> QED
      BY <3>1, <3>2, <3>3
  <2> QED
    BY <2>1, <2>2
<1> QED
  BY <1>3, <1>5, <1>6

\* The queues after the first request of p has been taken from its queue.
LEMMA DequeueFacts ==
  ASSUME LBTypeOK, QueuesFit, NEW p \in Pids, pending[p] # <<>>, Dequeue(p)
  PROVE  /\ pending' \in [Pids -> Seq(Requests)] /\ QueuesFit'
         /\ Head(pending[p]) \in Requests /\ Queued(Head(pending[p]))
         /\ PidOf[Head(pending[p])] = p
         /\ \A x \in Requests : Queued(x)' <=> Queued(x) /\ x # Head(pending[p])
<1> PICK q, r : q = pending[p] /\ r = Head(q)
  OBVIOUS
<1>1. q \in Seq(Requests) /\ q # <<>>
  BY DEF LBTypeOK
<1>2. /\ Tail(q) \in Seq(Requests) /\ Len(Tail(q)) = Len(q) - 1
      /\ \A i \in 1..(Len(q) - 1) : Tail(q)[i] = q[i + 1]
      /\ r = q[1] /\ Len(q) \in Nat \ {0} /\ r \in Requests
  BY <1>1
<1>3. /\ pending' \in [Pids -> Seq(Requests)]
      /\ pending'[p] = Tail(q)
      /\ \A o \in Pids \ {p} : pending'[o] = pending[o]
  BY <1>2 DEF LBTypeOK, Dequeue
<1>4. /\ \A i \in 1..Len(q) : PidOf[q[i]] = p
      /\ \A i, j \in 1..Len(q) : q[i] = q[j] => i = j
  BY DEF QueuesFit
<1>5. PidOf[r] = p /\ Queued(r)
  BY <1>2, <1>4 DEF Queued
<1>6. QueuesFit'
  <2> SUFFICES ASSUME NEW o \in Pids, NEW i \in 1..Len(pending'[o])
               PROVE  /\ PidOf[pending'[o][i]] = o
                      /\ \A j \in 1..Len(pending'[o]) : pending'[o][i] = pending'[o][j] => i = j
    BY DEF QueuesFit
  <2>1. CASE o # p
    <3>1. pending'[o] = pending[o]
      BY <1>3, <2>1
    <3>2. \A k \in 1..Len(pending[o]) :
            /\ PidOf[pending[o][k]] = o
            /\ \A j \in 1..Len(pending[o]) : pending[o][k] = pending[o][j] => k = j
      BY DEF QueuesFit
    <3> QED
      BY <3>1, <3>2
  <2>2. CASE o = p
    <3>0. Len(pending'[o]) = Len(q) - 1
      BY <1>2, <1>3, <2>2
    <3>1. i \in 1..(Len(q) - 1) /\ i + 1 \in 1..Len(q)
      BY <1>2, <3>0
    <3>2. PidOf[Tail(q)[i]] = p
      BY <1>2, <1>4, <3>1
    <3>3. ASSUME NEW j \in 1..(Len(q) - 1), Tail(q)[i] = Tail(q)[j]
          PROVE  i = j
      <4>1. j + 1 \in 1..Len(q) /\ q[i + 1] = q[j + 1]
        BY <1>2, <3>1, <3>3
      <4>2. i + 1 = j + 1
        BY <1>4, <3>1, <4>1
      <4> QED
        BY <3>1, <4>2
    <3> QED
      BY <1>3, <2>2, <3>0, <3>2, <3>3
  <2> QED
    BY <2>1, <2>2
<1>7. ASSUME NEW x \in Requests PROVE Queued(x)' <=> Queued(x) /\ x # r
  <2>1. CASE PidOf[x] # p
    BY <1>3, <1>5, <2>1 DEF Queued
  <2>2. CASE PidOf[x] = p
    <3>1. Queued(x)' <=> \E i \in 1..(Len(q) - 1) : q[i + 1] = x
      <4>1. Queued(x)' <=> \E i \in 1..(Len(q) - 1) : Tail(q)[i] = x
        BY <1>2, <1>3, <2>2 DEF Queued
      <4> QED
        BY <1>2, <4>1
    <3>2. Queued(x) <=> \E i \in 1..Len(q) : q[i] = x
      BY <2>2 DEF Queued
    <3>3. ASSUME NEW i \in 1..(Len(q) - 1), q[i + 1] = x
          PROVE  Queued(x) /\ x # r
      <4>1. i + 1 \in 1..Len(q) /\ i + 1 # 1 /\ 1 \in 1..Len(q)
        BY <1>2
      <4> QED
        BY <1>2, <1>4, <3>2, <3>3, <4>1
    <3>4. ASSUME NEW i \in 1..Len(q), q[i] = x, x # r
          PROVE  \E j \in 1..(Len(q) - 1) : q[j + 1] = x
      <4>1. i # 1
        BY <1>2, <3>4
      <4>2. i - 1 \in 1..(Len(q) - 1) /\ (i - 1) + 1 = i
        BY <1>2, <4>1
      <4> QED
        BY <3>4, <4>2
    <3> QED
      BY <3>1, <3>2, <3>3, <3>4
  <2> QED
    BY <2>1, <2>2
<1> QED
  BY <1>2, <1>3, <1>5, <1>6, <1>7

\* The queues after that of p is gone.
LEMMA EmptyFacts ==
  ASSUME LBTypeOK, QueuesFit, NEW p \in Pids, pending' = [pending EXCEPT ![p] = <<>>]
  PROVE  /\ pending' \in [Pids -> Seq(Requests)] /\ QueuesFit'
         /\ \A x \in Requests : Queued(x)' <=> Queued(x) /\ PidOf[x] # p
<1>1. << >> \in Seq(Requests) /\ Len(<< >>) = 0
  OBVIOUS
<1>2. /\ pending' \in [Pids -> Seq(Requests)]
      /\ pending'[p] = << >>
      /\ \A o \in Pids \ {p} : pending'[o] = pending[o]
  BY <1>1 DEF LBTypeOK
<1>3. QueuesFit'
  BY <1>1, <1>2 DEF QueuesFit
<1>4. ASSUME NEW x \in Requests PROVE Queued(x)' <=> Queued(x) /\ PidOf[x] # p
  BY <1>1, <1>2 DEF Queued
<1> QED
  BY <1>2, <1>3, <1>4

----------------------------------------------------------------------------
(* The account *)

\* What the steps need of the types.
LEMMA TypeFacts ==
  ASSUME IInv
  PROVE  /\ crashes \in Nat /\ losses \in Nat
         /\ dep \in [Pids -> {"none", "running", "failed", "removed"}]
         /\ loop \in [Nodes -> {"down", "claim", "next", "wait"}]
         /\ stop \in [Nodes -> SUBSET Pids] /\ apps \in [Nodes -> SUBSET Pids]
         /\ \A n \in Nodes : polled[n] # {} => loop[n] = "wait"
         /\ \A n \in Nodes : handling[n] # NoRequest => loop[n] = "claim"
<1>1. crashes \in 0..MaxCrashes /\ losses \in 0..MaxLosses
  BY DEF IInv, HInv, HostingTypeOK
<1>2. crashes \in Nat /\ losses \in Nat
  BY <1>1
<1>3. /\ dep \in [Pids -> {"none", "running", "failed", "removed"}]
      /\ loop \in [Nodes -> {"down", "claim", "next", "wait"}]
      /\ stop \in [Nodes -> SUBSET Pids] /\ apps \in [Nodes -> SUBSET Pids]
  BY DEF IInv, HInv, HostingTypeOK
<1>4. /\ \A n \in Nodes : polled[n] # {} => loop[n] = "wait"
      /\ \A n \in Nodes : handling[n] # NoRequest => loop[n] = "claim"
  BY DEF IInv, RInv, LBTypeOK
<1> QED
  BY <1>2, <1>3, <1>4

\* What may be forgotten, and what is charged for it.
LEMMA AccountStays ==
  ASSUME IInv, crashes' \in Nat, losses' \in Nat, NEW r, NEW k,
         \/ /\ Forgotten' \subseteq Forgotten /\ GhostCrashes' \subseteq GhostCrashes
            /\ crashes + losses <= crashes' + losses'
         \/ /\ Forgotten' \subseteq Forgotten \cup {r}
            /\ GhostCrashes' \subseteq GhostCrashes
            /\ crashes + losses + 1 <= crashes' + losses'
         \/ /\ Forgotten' \subseteq Forgotten
            /\ GhostCrashes' \subseteq GhostCrashes \cup {k}
            /\ crashes + losses + 1 <= crashes' + losses'
         \/ /\ Forgotten' \subseteq Forgotten \cup {r}
            /\ k \in GhostCrashes /\ GhostCrashes' \subseteq GhostCrashes \ {k}
            /\ crashes + losses <= crashes' + losses'
  PROVE  Accounted'
<1> PICK F, G, F1, G1 : F = Forgotten /\ G = GhostCrashes
                          /\ F1 = Forgotten' /\ G1 = GhostCrashes'
  OBVIOUS
<1> PICK c, l, c1, l1 : c = crashes /\ l = losses /\ c1 = crashes' /\ l1 = losses'
  OBVIOUS
<1> PICK n, n1 : n = c + l /\ n1 = c1 + l1
  OBVIOUS
<1>1. n \in Nat /\ n1 \in Nat
  <2>1. c \in Nat /\ l \in Nat
    BY TypeFacts
  <2>2. c1 \in Nat /\ l1 \in Nat
    OBVIOUS
  <2>3. \A x, y \in Nat : x + y \in Nat
    OBVIOUS
  <2> QED
    BY <2>1, <2>2, <2>3, Zenon
<1>2. IsFiniteSet(F) /\ IsFiniteSet(G) /\ Cardinality(F) + Cardinality(G) <= n
  BY DEF IInv, RInv, Accounted
<1>3. IsFiniteSet(F1) /\ IsFiniteSet(G1) /\ Cardinality(F1) + Cardinality(G1) <= n1
  <2>0. \/ F1 \subseteq F /\ G1 \subseteq G /\ n <= n1
        \/ F1 \subseteq F \cup {r} /\ G1 \subseteq G /\ n + 1 <= n1
        \/ F1 \subseteq F /\ G1 \subseteq G \cup {k} /\ n + 1 <= n1
        \/ F1 \subseteq F \cup {r} /\ k \in G /\ G1 \subseteq G \ {k} /\ n <= n1
    OBVIOUS
  <2>1. Cardinality(F) \in Nat /\ Cardinality(G) \in Nat
    BY <1>2, FS_CardinalityType
  <2>2. /\ IsFiniteSet(F \cup {r}) /\ Cardinality(F \cup {r}) <= Cardinality(F) + 1
        /\ IsFiniteSet(G \cup {k}) /\ Cardinality(G \cup {k}) <= Cardinality(G) + 1
    <3>1. /\ IsFiniteSet(F \cup {r})
          /\ Cardinality(F \cup {r}) = IF r \in F THEN Cardinality(F) ELSE Cardinality(F) + 1
      BY <1>2, FS_AddElement
    <3>2. /\ IsFiniteSet(G \cup {k})
          /\ Cardinality(G \cup {k}) = IF k \in G THEN Cardinality(G) ELSE Cardinality(G) + 1
      BY <1>2, FS_AddElement
    <3> QED
      BY <2>1, <3>1, <3>2
  <2>3. /\ IsFiniteSet(G \ {k})
        /\ k \in G => Cardinality(G \ {k}) = Cardinality(G) - 1
    BY <1>2, FS_RemoveElement
  <2>4. ASSUME NEW S, NEW T, IsFiniteSet(S), T \subseteq S
        PROVE  IsFiniteSet(T) /\ Cardinality(T) \in Nat /\ Cardinality(T) <= Cardinality(S)
    BY <2>4, FS_Subset, FS_CardinalityType
  <2>5. Cardinality(F \cup {r}) \in Nat /\ Cardinality(G \cup {k}) \in Nat
        /\ Cardinality(G \ {k}) \in Nat
    BY <2>2, <2>3, FS_CardinalityType
  <2>6. /\ IsFiniteSet(F1) /\ Cardinality(F1) \in Nat
        /\ F1 \subseteq F => Cardinality(F1) <= Cardinality(F)
        /\ Cardinality(F1) <= Cardinality(F \cup {r})
    <3>1. F1 \subseteq F \cup {r}
      OBVIOUS
    <3> QED
      BY <2>2, <2>4, <3>1
  <2>7. /\ IsFiniteSet(G1) /\ Cardinality(G1) \in Nat
        /\ G1 \subseteq G => Cardinality(G1) <= Cardinality(G)
        /\ G1 \subseteq G \ {k} => Cardinality(G1) <= Cardinality(G \ {k})
        /\ Cardinality(G1) <= Cardinality(G \cup {k})
    <3>1. G1 \subseteq G \cup {k}
      OBVIOUS
    <3> QED
      BY <2>2, <2>3, <2>4, <3>1
  <2> QED
    BY <1>1, <1>2, <2>0, <2>1, <2>2, <2>3, <2>5, <2>6, <2>7
<1> QED
  BY <1>3 DEF Accounted

----------------------------------------------------------------------------
(* The steps *)

LEMMA LBInitInv == LBInit => IInv
<1> SUFFICES ASSUME LBInit PROVE IInv
  OBVIOUS
<1>1. HInv
  BY HostingInitInv DEF LBInit
<1>2. << >> \in Seq(Requests) /\ Len(<< >>) = 0
  OBVIOUS
<1>3. LBTypeOK
  BY <1>2 DEF LBInit, LBTypeOK
<1>4. QueuesFit /\ PlacesFit /\ PollsFit
  <2>1. \A r \in Requests : ~Queued(r) /\ ~Handled(r) /\ r \notin responses
    BY <1>2 DEF LBInit, Queued, Handled
  <2> QED
    BY <1>2, <2>1 DEF LBInit, QueuesFit, PlacesFit, PollsFit, Handled
<1>5. Accounted
  <2>1. Forgotten = {} /\ GhostCrashes = {}
    BY DEF LBInit, Forgotten, GhostCrashes
  <2>2. crashes = 0 /\ losses = 0
    BY DEF LBInit, HostingInit
  <2> QED
    BY <2>1, <2>2, FS_EmptySet DEF Accounted
<1> QED
  BY <1>1, <1>3, <1>4, <1>5 DEF IInv, RInv

\* What the steps of Hosting that no request is involved in leave as it is.
HostKeeps ==
  /\ \A p \in Pids : dep'[p] = "removed" <=> dep[p] = "removed"
  /\ \A n \in Nodes : polled[n] # {} =>
       loop'[n] = "wait" /\ apps[n] \subseteq apps'[n] /\ stop'[n] = stop[n]
  /\ \A n \in Nodes : handling[n] # NoRequest => loop'[n] = "claim"
  /\ crashes' = crashes /\ losses' \in Nat /\ losses <= losses'

LEMMA QuietInv ==
  ASSUME IInv, HostKeeps, UNCHANGED requestVars
  PROVE  RInv'
<1>1. UNCHANGED <<caller, pending, polled, handling, responses, ghosts>>
  BY DEF requestVars
<1>2. LBTypeOK'
  BY <1>1 DEF IInv, RInv, LBTypeOK, HostKeeps
<1>3. QueuesFit'
  BY <1>1 DEF IInv, RInv, QueuesFit
<1>4. \A r \in Requests : Queued(r)' = Queued(r) /\ Handled(r)' = Handled(r)
                            /\ Active(r)' = Active(r)
  BY <1>1 DEF Queued, Handled, Active
<1>5. PlacesFit'
  BY <1>1, <1>4 DEF IInv, RInv, PlacesFit
<1>6. PollsFit'
  BY <1>1 DEF IInv, RInv, PollsFit, HostKeeps
<1>7. Forgotten' \subseteq Forgotten /\ GhostCrashes' \subseteq GhostCrashes
  BY <1>1, <1>4 DEF Forgotten, GhostCrashes, HostKeeps
<1>8. Accounted'
  <2>1. crashes' \in Nat /\ losses' \in Nat /\ crashes + losses <= crashes' + losses'
    BY TypeFacts DEF HostKeeps
  <2> QED
    BY <1>7, <2>1, AccountStays
<1> QED
  BY <1>2, <1>3, <1>5, <1>6, <1>8 DEF RInv

LEMMA ServerKeeps ==
  ASSUME IInv, NEW p \in Pids, Deploy(p) \/ Reap(p)
  PROVE  HostKeeps
<1>1. UNCHANGED <<loop, stop, apps, crashes, losses>>
  BY DEF Deploy, Reap, nodeVars, bounds
<1>2. \/ dep[p] = "none" /\ dep' = [dep EXCEPT ![p] = "running"]
      \/ dep' = dep
  BY DEF Deploy, Reap
<1>3. \A q \in Pids : dep'[q] = "removed" <=> dep[q] = "removed"
  BY <1>2, TypeFacts
<1> QED
  BY <1>1, <1>3, TypeFacts DEF HostKeeps

LEMMA NodeKeeps ==
  ASSUME IInv, NEW n \in Nodes, Quiet(n)
  PROVE  HostKeeps
<1> USE TypeFacts
<1>1. CASE Boot(n) \/ Beat(n) \/ GoStale(n)
  <2>1. UNCHANGED <<dep, stop, apps, crashes, losses>>
    BY <1>1 DEF Boot, Beat, GoStale, nodeVars, bounds
  <2>2. \/ loop' = loop
        \/ loop[n] = "down" /\ loop' = [loop EXCEPT ![n] = "claim"]
    BY <1>1 DEF Boot, Beat, GoStale, Goto, nodeVars
  <2>3. \A m \in Nodes : (m # n \/ loop[n] # "down") => loop'[m] = loop[m]
    BY <2>2
  <2> QED
    BY <2>1, <2>3 DEF HostKeeps
<1>2. CASE handling[n] = NoRequest /\ (ClaimAssignment(n) \/ SkipPoll(n))
  <2>1. UNCHANGED <<dep, stop, apps, crashes>>
    BY <1>2 DEF ClaimAssignment, SkipPoll, serverVars
  <2>2. losses' = losses \/ losses' = losses + 1
    BY <1>2 DEF ClaimAssignment, SkipPoll, Lose
  <2>3. loop[n] # "wait" /\ \A m \in Nodes \ {n} : loop'[m] = loop[m]
    BY <1>2 DEF ClaimAssignment, SkipPoll, Goto
  <2> QED
    BY <1>2, <2>1, <2>2, <2>3 DEF HostKeeps
<1>3. ASSUME NEW p \in Pids, FallSilent(n, p) PROVE HostKeeps
  <2>1. UNCHANGED <<dep, loop, stop, apps, crashes, losses>>
    BY <1>3 DEF FallSilent, nodeVars, bounds
  <2> QED
    BY <2>1 DEF HostKeeps
<1>4. ASSUME NEW p \in Pids, StartStep(n, p) PROVE HostKeeps
  <2>1. UNCHANGED <<loop, stop, crashes>>
    BY <1>4 DEF StartStep, Download, StartUp, StartFails, NoBundle, NotReady, ReportFailed, serverVars, bounds
  <2>2. losses' = losses \/ losses' = losses + 1
    BY <1>4 DEF StartStep, Download, StartUp, StartFails, NoBundle, NotReady, ReportFailed, bounds, Lose
  <2>3. apps' = apps \/ apps' = [apps EXCEPT ![n] = apps[n] \cup {p}]
    BY <1>4 DEF StartStep, Download, StartUp, StartFails, NoBundle, NotReady, ReportFailed
  <2>4. \A m \in Nodes : apps[m] \subseteq apps'[m]
    BY <2>3
  <2>5. \/ dep' = dep
        \/ dep[p] = "running" /\ dep' = [dep EXCEPT ![p] = "failed"]
    BY <1>4 DEF StartStep, Download, StartUp, StartFails, NoBundle, NotReady, ReportFailed, MarkFailed, serverVars
  <2>6. \A q \in Pids : dep'[q] = "removed" <=> dep[q] = "removed"
    BY <2>5
  <2> QED
    BY <2>1, <2>2, <2>4, <2>6 DEF HostKeeps
<1> QED
  BY <1>1, <1>2, <1>3, <1>4 DEF Quiet

\* A step of the requests alone.
HostSame == UNCHANGED <<dep, loop, stop, apps, crashes, losses>>

LEMMA HostVarsSame ==
  ASSUME HInv, UNCHANGED hostVars
  PROVE  HInv' /\ HostSame
  BY HostingNextInv DEF hostVars, serverVars, nodeVars, bounds, HostSame

\* Where nothing is queued, handled or answered nothing is gained or lost.
LEMMA NobodyWaits ==
  ASSUME IInv, NEW r \in Requests, ~Active(r)
  PROVE  ~Queued(r) /\ ~Handled(r) /\ r \notin responses
  BY DEF IInv, RInv, PlacesFit

LEMMA ArriveInv ==
  ASSUME IInv, NEW r \in Requests, Arrive(r)
  PROVE  IInv'
<1>1. HInv' /\ HostSame
  BY HostVarsSame DEF IInv, Arrive
<1>2. /\ caller[r] = "idle"
      /\ UNCHANGED <<polled, handling, responses, ghosts>>
      /\ \/ caller' = [caller EXCEPT ![r] = "refused"] /\ UNCHANGED pending
         \/ /\ caller' = [caller EXCEPT ![r] = "waiting"]
            /\ pending' = [pending EXCEPT ![PidOf[r]] = Append(pending[PidOf[r]], r)]
  BY DEF Arrive
<1>3. ~Queued(r) /\ ~Handled(r) /\ r \notin responses
  BY <1>2, NobodyWaits DEF Active
<1>4. /\ caller' \in [Requests -> {"idle", "waiting", "answered", "timed out", "refused"}]
      /\ \A x \in Requests \ {r} : caller'[x] = caller[x]
      /\ caller'[r] \in {"refused", "waiting"}
      /\ caller'[r] = "refused" => UNCHANGED pending
      /\ caller'[r] = "waiting" =>
           pending' = [pending EXCEPT ![PidOf[r]] = Append(pending[PidOf[r]], r)]
  BY <1>2 DEF IInv, RInv, LBTypeOK
<1>5. /\ pending' \in [Pids -> Seq(Requests)] /\ QueuesFit'
      /\ \A x \in Requests \ {r} : Queued(x)' <=> Queued(x)
      /\ Queued(r)' <=> caller'[r] = "waiting"
  <2>1. CASE caller'[r] = "refused"
    <3>1. \A x \in Requests : Queued(x)' <=> Queued(x)
      BY <1>4, <2>1 DEF Queued
    <3>2. pending' \in [Pids -> Seq(Requests)] /\ QueuesFit'
      <4>1. pending' = pending
        BY <1>4, <2>1
      <4>2. pending \in [Pids -> Seq(Requests)] /\ QueuesFit
        BY DEF IInv, RInv, LBTypeOK
      <4> QED
        BY <4>1, <4>2 DEF QueuesFit
    <3>3. ~Queued(r)'
      BY <1>3, <3>1
    <3> QED
      BY <2>1, <3>1, <3>2, <3>3
  <2>2. CASE caller'[r] = "waiting"
    BY <1>3, <1>4, <2>2, EnqueueFacts DEF IInv, RInv
  <2> QED
    BY <1>4, <2>1, <2>2
<1>6. LBTypeOK'
  BY <1>1, <1>2, <1>4, <1>5 DEF IInv, RInv, LBTypeOK, HostSame
<1>7. \A x \in Requests : Handled(x)' <=> Handled(x)
  BY <1>2 DEF Handled
<1>8. PlacesFit'
  <2>1. \A x \in Requests \ {r} : Active(x)' <=> Active(x)
    BY <1>4 DEF Active
  <2>2. Queued(r)' => Active(r)'
    BY <1>5 DEF Active
  <2>3. ~Handled(r)' /\ r \notin responses'
    BY <1>2, <1>3, <1>7
  <2>4. \A x \in Requests \ {r} :
          /\ Handled(x)' => ~Queued(x)' /\ x \notin responses' /\ Active(x)'
          /\ Queued(x)' => x \notin responses' /\ Active(x)'
          /\ x \in responses' => Active(x)'
    BY <1>2, <1>5, <1>7, <2>1 DEF IInv, RInv, PlacesFit
  <2>5. \A x \in Requests : \A n, m \in Nodes : handling'[n] = x /\ handling'[m] = x => n = m
    BY <1>2 DEF IInv, RInv, PlacesFit
  <2> QED
    BY <2>2, <2>3, <2>4, <2>5 DEF PlacesFit
<1>9. PollsFit'
  BY <1>1, <1>2 DEF IInv, RInv, PollsFit, HostSame
<1>10. Forgotten' \subseteq Forgotten /\ GhostCrashes' \subseteq GhostCrashes
  BY <1>1, <1>2, <1>4, <1>5, <1>7 DEF Forgotten, GhostCrashes, HostSame
<1>11. Accounted'
  BY <1>1, <1>10, TypeFacts, AccountStays DEF HostSame
<1> QED
  BY <1>1, <1>5, <1>6, <1>8, <1>9, <1>11 DEF IInv, RInv

\* The answer is handed over and gone, or the caller no longer asks for it.
LEMMA LeaveInv ==
  ASSUME IInv, NEW r \in Requests, ReturnResponse(r) \/ GiveUpWaiting(r)
  PROVE  IInv'
<1>1. HInv' /\ HostSame
  BY HostVarsSame DEF IInv, ReturnResponse, GiveUpWaiting
<1>2. UNCHANGED <<pending, polled, handling, ghosts>>
  BY DEF ReturnResponse, GiveUpWaiting
<1>3. /\ caller' \in [Requests -> {"idle", "waiting", "answered", "timed out", "refused"}]
      /\ \A x \in Requests \ {r} : /\ caller'[x] = caller[x]
                                   /\ x \in responses' <=> x \in responses
      /\ caller[r] = "waiting" /\ responses' \subseteq responses
      /\ \/ caller'[r] = "answered" /\ r \in responses /\ r \notin responses'
         \/ caller'[r] = "timed out" /\ r \notin responses
  BY DEF IInv, RInv, LBTypeOK, ReturnResponse, GiveUpWaiting
<1>4. \A x \in Requests : (Queued(x)' <=> Queued(x)) /\ (Handled(x)' <=> Handled(x))
  BY <1>2 DEF Queued, Handled
<1>5. LBTypeOK'
  BY <1>1, <1>2, <1>3 DEF IInv, RInv, LBTypeOK, HostSame
<1>6. PlacesFit'
  <2>0. PlacesFit
    BY DEF IInv, RInv
  <2> SUFFICES ASSUME NEW x \in Requests
               PROVE  /\ \A n, m \in Nodes : handling'[n] = x /\ handling'[m] = x => n = m
                      /\ Handled(x)' => ~Queued(x)' /\ x \notin responses' /\ Active(x)'
                      /\ Queued(x)' => x \notin responses' /\ Active(x)'
                      /\ x \in responses' => Active(x)'
    BY DEF PlacesFit
  <2>1. /\ \A n, m \in Nodes : handling[n] = x /\ handling[m] = x => n = m
        /\ Handled(x) => ~Queued(x) /\ x \notin responses /\ Active(x)
        /\ Queued(x) => x \notin responses /\ Active(x)
        /\ x \in responses => Active(x)
    BY <2>0 DEF PlacesFit
  <2>2. /\ \A n, m \in Nodes : handling'[n] = x /\ handling'[m] = x => n = m
        /\ (Queued(x)' <=> Queued(x)) /\ (Handled(x)' <=> Handled(x))
    BY <1>2, <1>4, <2>1
  <2>3. CASE x # r
    <3>1. (Active(x)' <=> Active(x)) /\ (x \in responses' <=> x \in responses)
      BY <1>3, <2>3 DEF Active
    <3> QED
      BY <2>1, <2>2, <3>1
  <2>4. CASE caller'[r] = "answered" /\ r \in responses /\ r \notin responses' /\ x = r
    BY <2>1, <2>2, <2>4
  <2>5. CASE caller'[r] = "timed out" /\ r \notin responses /\ x = r
    <3>1. Active(x)' /\ x \notin responses'
      BY <1>3, <2>5 DEF Active
    <3> QED
      BY <2>1, <2>2, <3>1
  <2> QED
    BY <1>3, <2>3, <2>4, <2>5
<1>7. QueuesFit' /\ PollsFit'
  BY <1>1, <1>2 DEF IInv, RInv, QueuesFit, PollsFit, HostSame
<1>8. Forgotten' \subseteq Forgotten /\ GhostCrashes' \subseteq GhostCrashes
  BY <1>1, <1>2, <1>3, <1>4 DEF Forgotten, GhostCrashes, HostSame
<1>9. Accounted'
  BY <1>1, <1>8, TypeFacts, AccountStays DEF HostSame
<1> QED
  BY <1>1, <1>5, <1>6, <1>7, <1>9 DEF IInv, RInv

\* Those whose requests expire have given up.
LEMMA ExpireInv ==
  ASSUME IInv, NEW p \in Pids, ExpirePending(p)
  PROVE  IInv'
<1>1. HInv' /\ HostSame
  BY HostVarsSame DEF IInv, ExpirePending
<1>2. /\ UNCHANGED <<caller, polled, handling, responses, ghosts>>
      /\ pending' = [pending EXCEPT ![p] = <<>>]
      /\ \A i \in 1..Len(pending[p]) : caller[pending[p][i]] = "timed out"
  BY DEF ExpirePending
<1>3. /\ pending' \in [Pids -> Seq(Requests)] /\ QueuesFit'
      /\ \A x \in Requests : Queued(x)' <=> Queued(x) /\ PidOf[x] # p
  BY <1>2, EmptyFacts DEF IInv, RInv
<1>4. \A x \in Requests : Queued(x) /\ PidOf[x] = p => caller[x] = "timed out"
  BY <1>2 DEF Queued
<1>5. \A x \in Requests : Handled(x)' <=> Handled(x)
  BY <1>2 DEF Handled
<1>6. LBTypeOK'
  BY <1>1, <1>2, <1>3 DEF IInv, RInv, LBTypeOK, HostSame
<1>7. PlacesFit'
  BY <1>2, <1>3, <1>5 DEF IInv, RInv, PlacesFit, Active
<1>8. PollsFit'
  BY <1>1, <1>2 DEF IInv, RInv, PollsFit, HostSame
<1>9. Forgotten' \subseteq Forgotten /\ GhostCrashes' \subseteq GhostCrashes
  BY <1>1, <1>2, <1>3, <1>4, <1>5 DEF Forgotten, GhostCrashes, HostSame
<1>10. Accounted'
  BY <1>1, <1>9, TypeFacts, AccountStays DEF HostSame
<1> QED
  BY <1>1, <1>3, <1>6, <1>7, <1>8, <1>10 DEF IInv, RInv

\* With a deployment go the requests for it.
LEMMA RemoveInv ==
  ASSUME IInv, NEW p \in Pids, RemoveDeployment(p)
  PROVE  IInv'
<1>1. /\ Remove(p) /\ pending' = [pending EXCEPT ![p] = <<>>]
      /\ UNCHANGED <<caller, polled, handling, responses, ghosts>>
  BY DEF RemoveDeployment
<1>2. HInv'
  BY <1>1, ServerInv DEF IInv
<1>3. UNCHANGED <<loop, stop, apps, crashes, losses>> /\ dep' = [dep EXCEPT ![p] = "removed"]
  BY <1>1 DEF Remove, nodeVars, bounds
<1>4. dep'[p] = "removed" /\ \A q \in Pids \ {p} : dep'[q] = dep[q]
  BY <1>3, TypeFacts
<1>5. /\ pending' \in [Pids -> Seq(Requests)] /\ QueuesFit'
      /\ \A x \in Requests : Queued(x)' <=> Queued(x) /\ PidOf[x] # p
  BY <1>1, EmptyFacts DEF IInv, RInv
<1>6. \A x \in Requests : Handled(x)' <=> Handled(x)
  BY <1>1 DEF Handled
<1>7. LBTypeOK'
  BY <1>1, <1>3, <1>5 DEF IInv, RInv, LBTypeOK
<1>8. PlacesFit'
  BY <1>1, <1>5, <1>6 DEF IInv, RInv, PlacesFit, Active
<1>9. PollsFit'
  BY <1>1, <1>3 DEF IInv, RInv, PollsFit
<1>10. Forgotten' \subseteq Forgotten /\ GhostCrashes' \subseteq GhostCrashes
  BY <1>1, <1>4, <1>5, <1>6 DEF Forgotten, GhostCrashes
<1>11. Accounted'
  BY <1>3, <1>10, TypeFacts, AccountStays
<1> QED
  BY <1>2, <1>5, <1>7, <1>8, <1>9, <1>11 DEF IInv, RInv

LEMMA StartPollInv ==
  ASSUME IInv, NEW n \in Nodes, StartPoll(n)
  PROVE  IInv'
<1>1. /\ Poll(n) /\ handling[n] = NoRequest
      /\ polled' = [polled EXCEPT ![n] = apps[n] \ stop'[n]]
      /\ UNCHANGED <<caller, pending, handling, responses, ghosts>>
  BY DEF StartPoll
<1>2. HInv'
  BY <1>1, PollInv DEF IInv
<1>3. UNCHANGED <<dep, apps, crashes, losses>>
  BY <1>1 DEF Poll, bounds
<1>4. /\ loop' = [loop EXCEPT ![n] = "wait"]
      /\ \A m \in Nodes \ {n} : stop'[m] = stop[m]
  BY <1>1, TypeFacts DEF Poll, Goto
<1>5. loop'[n] = "wait" /\ \A m \in Nodes \ {n} : loop'[m] = loop[m]
  BY <1>4, TypeFacts
<1>6. /\ polled' \in [Nodes -> SUBSET Pids]
      /\ polled'[n] = apps[n] \ stop'[n]
      /\ \A m \in Nodes \ {n} : polled'[m] = polled[m]
  BY <1>1, TypeFacts DEF IInv, RInv, LBTypeOK
<1>7. LBTypeOK'
  BY <1>1, <1>5, <1>6 DEF IInv, RInv, LBTypeOK
<1>8. \A x \in Requests : (Queued(x)' <=> Queued(x)) /\ (Handled(x)' <=> Handled(x))
  BY <1>1 DEF Queued, Handled
<1>9. QueuesFit' /\ PlacesFit'
  BY <1>1, <1>8 DEF IInv, RInv, QueuesFit, PlacesFit, Active
<1>10. PollsFit'
  BY <1>3, <1>4, <1>6 DEF IInv, RInv, PollsFit
<1>11. Forgotten' \subseteq Forgotten /\ GhostCrashes' \subseteq GhostCrashes
  BY <1>1, <1>3, <1>8 DEF Forgotten, GhostCrashes
<1>12. Accounted'
  BY <1>3, <1>11, TypeFacts, AccountStays
<1> QED
  BY <1>2, <1>7, <1>9, <1>10, <1>12 DEF IInv, RInv

\* What the end of a poll does to the node: its answer stops what it names, and
\* may be lost; the loop proxies nothing while it polls.
LEMMA PollDoneFacts ==
  ASSUME IInv, NEW n \in Nodes, PollDone(n), polled' = [polled EXCEPT ![n] = {}]
  PROVE  /\ HInv' /\ dep' = dep /\ crashes' = crashes
         /\ losses' \in Nat /\ (losses' = losses \/ losses' = losses + 1)
         /\ losses' = losses => apps'[n] = apps[n] \ stop[n]
         /\ handling[n] = NoRequest
         /\ loop'[n] = "claim" /\ polled'[n] = {}
         /\ \A m \in Nodes \ {n} : /\ loop'[m] = loop[m] /\ stop'[m] = stop[m]
                                   /\ apps'[m] = apps[m] /\ polled'[m] = polled[m]
         /\ polled' \in [Nodes -> SUBSET Pids] /\ PollsFit'
<1>1. HInv'
  BY PollInv DEF IInv
<1>2. dep' = dep /\ crashes' = crashes
  BY DEF PollDone, serverVars
<1>3. \/ apps' = [apps EXCEPT ![n] = apps[n] \ stop[n]] /\ losses' = losses
      \/ apps' = apps /\ losses' = losses + 1
  BY DEF PollDone, Lose
<1>4. losses' \in Nat
  BY <1>3, TypeFacts
<1>5. /\ losses' = losses => apps'[n] = apps[n] \ stop[n]
      /\ \A m \in Nodes \ {n} : apps'[m] = apps[m]
  BY <1>3, TypeFacts
<1>6. handling[n] = NoRequest
  BY TypeFacts DEF PollDone
<1>7. loop'[n] = "claim" /\ \A m \in Nodes \ {n} : loop'[m] = loop[m] /\ stop'[m] = stop[m]
  BY TypeFacts DEF PollDone, Goto
<1>8. /\ polled'[n] = {} /\ \A m \in Nodes \ {n} : polled'[m] = polled[m]
      /\ polled' \in [Nodes -> SUBSET Pids]
  BY DEF IInv, RInv, LBTypeOK
<1>9. PollsFit'
  BY <1>5, <1>7, <1>8 DEF IInv, RInv, PollsFit
<1> QED
  BY <1>1, <1>2, <1>3, <1>4, <1>5, <1>6, <1>7, <1>8, <1>9

LEMMA EndPollInv ==
  ASSUME IInv, NEW n \in Nodes, EndPoll(n)
  PROVE  IInv'
<1>1. /\ PollDone(n) /\ polled' = [polled EXCEPT ![n] = {}]
      /\ UNCHANGED <<caller, pending, handling, responses, ghosts>>
  BY DEF EndPoll
<1>2. /\ HInv' /\ dep' = dep /\ crashes' = crashes
      /\ losses' \in Nat /\ (losses' = losses \/ losses' = losses + 1)
      /\ handling[n] = NoRequest /\ loop'[n] = "claim" /\ polled'[n] = {}
      /\ \A m \in Nodes \ {n} : loop'[m] = loop[m] /\ polled'[m] = polled[m]
      /\ polled' \in [Nodes -> SUBSET Pids] /\ PollsFit'
  BY <1>1, PollDoneFacts
<1>3. LBTypeOK'
  BY <1>1, <1>2 DEF IInv, RInv, LBTypeOK
<1>4. \A x \in Requests : (Queued(x)' <=> Queued(x)) /\ (Handled(x)' <=> Handled(x))
  BY <1>1 DEF Queued, Handled
<1>5. QueuesFit' /\ PlacesFit'
  BY <1>1, <1>4 DEF IInv, RInv, QueuesFit, PlacesFit, Active
<1>6. Forgotten' \subseteq Forgotten /\ GhostCrashes' \subseteq GhostCrashes
  BY <1>1, <1>2, <1>4 DEF Forgotten, GhostCrashes
<1>7. crashes + losses <= crashes' + losses' /\ crashes' \in Nat
  BY <1>2, TypeFacts
<1>8. Accounted'
  BY <1>2, <1>6, <1>7, AccountStays
<1> QED
  BY <1>2, <1>3, <1>5, <1>8 DEF IInv, RInv

\* A request leaves its queue for one loop, or for none if the answer is lost;
\* it is never for an app that the same answer stops.
LEMMA TakeInv ==
  ASSUME IInv, NEW n \in Nodes, TakeRequest(n)
  PROVE  IInv'
<1>1. /\ PollDone(n) /\ polled' = [polled EXCEPT ![n] = {}]
      /\ UNCHANGED <<caller, responses, ghosts>>
  BY DEF TakeRequest
<1>2. /\ HInv' /\ dep' = dep /\ crashes' = crashes
      /\ losses' \in Nat /\ (losses' = losses \/ losses' = losses + 1)
      /\ losses' = losses => apps'[n] = apps[n] \ stop[n]
      /\ handling[n] = NoRequest /\ loop'[n] = "claim" /\ polled'[n] = {}
      /\ \A m \in Nodes \ {n} : loop'[m] = loop[m] /\ polled'[m] = polled[m]
      /\ polled' \in [Nodes -> SUBSET Pids] /\ PollsFit'
  BY <1>1, PollDoneFacts
<1>3. PICK p \in polled[n] :
        /\ pending[p] # <<>> /\ Dequeue(p)
        /\ \/ /\ losses' = losses /\ p \in apps'[n]
              /\ handling' = [handling EXCEPT ![n] = Head(pending[p])]
           \/ /\ ~(losses' = losses /\ p \in apps'[n]) \/ caller[Head(pending[p])] = "timed out"
              /\ UNCHANGED handling
  BY DEF TakeRequest
<1>4. p \in Pids /\ p \in apps[n] \ stop[n]
  BY <1>3 DEF IInv, RInv, LBTypeOK, PollsFit
<1> PICK r : r = Head(pending[p])
  OBVIOUS
<1>5. /\ pending' \in [Pids -> Seq(Requests)] /\ QueuesFit'
      /\ r \in Requests /\ Queued(r) /\ PidOf[r] = p
      /\ \A x \in Requests : Queued(x)' <=> Queued(x) /\ x # r
  BY <1>3, <1>4, DequeueFacts DEF IInv, RInv
<1>6. ~Handled(r) /\ r \notin responses /\ Active(r)
  BY <1>5 DEF IInv, RInv, PlacesFit
<1>7. /\ handling' \in [Nodes -> Requests \cup {NoRequest}]
      /\ \A m \in Nodes \ {n} : handling'[m] = handling[m]
      /\ handling'[n] \in {NoRequest, r}
      /\ handling'[n] = r \/ losses' # losses \/ caller[r] = "timed out"
  <2>1. CASE handling' = [handling EXCEPT ![n] = r]
    BY <1>5, <2>1 DEF IInv, RInv, LBTypeOK
  <2>2. CASE UNCHANGED handling /\ (losses' # losses \/ caller[r] = "timed out")
    BY <1>2, <2>2 DEF IInv, RInv, LBTypeOK
  <2> QED
    BY <1>2, <1>3, <1>4, <2>1, <2>2
<1>8. /\ \A x \in Requests \ {r} : Handled(x)' <=> Handled(x)
      /\ Handled(r)' <=> handling'[n] = r
  BY <1>2, <1>5, <1>6, <1>7 DEF Handled
<1>9. LBTypeOK'
  BY <1>1, <1>2, <1>5, <1>7 DEF IInv, RInv, LBTypeOK
<1>10. PlacesFit'
  <2>1. \A x \in Requests : Active(x)' <=> Active(x)
    BY <1>1 DEF Active
  <2>2. \A x \in Requests :
          /\ Handled(x)' => ~Queued(x)' /\ x \notin responses' /\ Active(x)'
          /\ Queued(x)' => x \notin responses' /\ Active(x)'
          /\ x \in responses' => Active(x)'
    BY <1>1, <1>5, <1>6, <1>8, <2>1 DEF IInv, RInv, PlacesFit
  <2>3. ASSUME NEW x \in Requests, NEW k \in Nodes, NEW m \in Nodes,
               handling'[k] = x, handling'[m] = x
        PROVE  k = m
    <3>1. CASE x = r
      BY <1>6, <1>7, <2>3, <3>1 DEF Handled
    <3>2. CASE x # r
      <4>1. x # NoRequest
        BY RequestAssumption
      <4>2. k # n /\ m # n
        BY <1>7, <2>3, <3>2, <4>1
      <4>3. handling[k] = x /\ handling[m] = x
        BY <1>7, <2>3, <4>2
      <4> QED
        BY <4>3 DEF IInv, RInv, PlacesFit
    <3> QED
      BY <3>1, <3>2
  <2> QED
    BY <2>2, <2>3 DEF PlacesFit
<1>11. /\ Forgotten' \subseteq Forgotten \cup {r}
       /\ losses' = losses => Forgotten' \subseteq Forgotten
       /\ GhostCrashes' \subseteq GhostCrashes
  BY <1>1, <1>2, <1>5, <1>7, <1>8 DEF Forgotten, GhostCrashes
<1>12. Accounted'
  <2>1. CASE losses' = losses
    <3>1. crashes + losses <= crashes' + losses' /\ crashes' \in Nat /\ losses' \in Nat
      BY <1>2, <2>1, TypeFacts
    <3>2. Forgotten' \subseteq Forgotten /\ GhostCrashes' \subseteq GhostCrashes
      BY <1>11, <2>1
    <3> QED
      BY <3>1, <3>2, AccountStays
  <2>2. CASE losses' = losses + 1
    <3>1. crashes + losses + 1 <= crashes' + losses' /\ crashes' \in Nat
      BY <1>2, <2>2, TypeFacts
    <3> QED
      BY <1>2, <1>11, <3>1, AccountStays
  <2> QED
    BY <1>2, <2>1, <2>2
<1> QED
  BY <1>2, <1>5, <1>9, <1>10, <1>12 DEF IInv, RInv

\* Whatever becomes of the response, the loop lets go of the request.
LEMMA HandleInv ==
  ASSUME IInv, NEW n \in Nodes, Handle(n)
  PROVE  IInv'
<1> PICK r : r = handling[n]
  OBVIOUS
<1>1. /\ r # NoRequest /\ handling' = [handling EXCEPT ![n] = NoRequest]
      /\ UNCHANGED <<serverVars, nodeVars, crashes, caller, pending, polled, ghosts>>
      /\ \/ responses' = responses \cup {r} /\ losses' = losses
         \/ losses < MaxLosses /\ losses' = losses + 1 /\ responses' = responses
  BY DEF Handle, Respond, Deliver, Lose
<1>2. UNCHANGED <<dep, loop, stop, apps, crashes>>
  BY <1>1 DEF serverVars, nodeVars
<1>3. HInv'
  <2>1. UNCHANGED <<healthy, dep, assignments, serving, silent, loop, stop, apps,
                    starting, fetched, givenUp, crashes>>
    BY <1>1 DEF serverVars, nodeVars
  <2>2. losses' \in 0..MaxLosses
    BY <1>1 DEF IInv, HInv, HostingTypeOK
  <2> QED
    BY <2>1, <2>2 DEF IInv, HInv, HostingTypeOK, StartedOnce
<1>4. /\ r \in Requests /\ Handled(r)
      /\ handling' \in [Nodes -> Requests \cup {NoRequest}]
      /\ handling'[n] = NoRequest
      /\ \A m \in Nodes \ {n} : handling'[m] = handling[m]
  BY <1>1 DEF IInv, RInv, LBTypeOK, Handled
<1>5. ~Queued(r) /\ r \notin responses /\ Active(r)
  BY <1>4 DEF IInv, RInv, PlacesFit
<1>6. /\ \A x \in Requests \ {r} : Handled(x)' <=> Handled(x)
      /\ ~Handled(r)'
  <2>1. \A m \in Nodes : handling[m] = r => m = n
    BY <1>1, <1>4 DEF IInv, RInv, PlacesFit
  <2>2. \A x \in Requests : x # NoRequest
    BY RequestAssumption
  <2>3. ASSUME NEW m \in Nodes PROVE handling'[m] # r
    BY <1>1, <1>4, <2>1
  <2>4. ASSUME NEW x \in Requests \ {r}, NEW m \in Nodes
        PROVE  handling'[m] = x <=> handling[m] = x
    BY <1>1, <1>4, <2>2
  <2> QED
    BY <2>3, <2>4 DEF Handled
<1>7. \A x \in Requests : (Queued(x)' <=> Queued(x)) /\ (Active(x)' <=> Active(x))
  BY <1>1 DEF Queued, Active
<1>8. LBTypeOK'
  <2>1. responses' \subseteq Requests
    <3>1. responses \subseteq Requests
      BY DEF IInv, RInv, LBTypeOK
    <3> QED
      BY <1>1, <1>4, <3>1
  <2> QED
    BY <1>1, <1>2, <1>4, <2>1 DEF IInv, RInv, LBTypeOK
<1>9. QueuesFit' /\ PollsFit'
  BY <1>1, <1>2 DEF IInv, RInv, QueuesFit, PollsFit
<1>10. PlacesFit'
  <2>1. \A x \in Requests \ {r} : x \in responses' <=> x \in responses
    BY <1>1
  <2>2. \A x \in Requests :
          /\ Handled(x)' => ~Queued(x)' /\ x \notin responses' /\ Active(x)'
          /\ Queued(x)' => x \notin responses' /\ Active(x)'
          /\ x \in responses' => Active(x)'
    BY <1>5, <1>6, <1>7, <2>1 DEF IInv, RInv, PlacesFit
  <2>3. ASSUME NEW x \in Requests, NEW k \in Nodes, NEW m \in Nodes,
               handling'[k] = x, handling'[m] = x
        PROVE  k = m
    <3>1. k # n /\ m # n
      BY <1>4, <2>3, RequestAssumption
    <3>2. handling[k] = x /\ handling[m] = x
      BY <1>4, <2>3, <3>1
    <3> QED
      BY <3>2 DEF IInv, RInv, PlacesFit
  <2> QED
    BY <2>2, <2>3 DEF PlacesFit
<1>11. /\ Forgotten' \subseteq Forgotten \cup {r}
       /\ losses' = losses => Forgotten' \subseteq Forgotten
       /\ GhostCrashes' \subseteq GhostCrashes
  <2>1. \A x \in Forgotten' : x \in Requests /\ (x # r => x \in Forgotten)
    BY <1>1, <1>2, <1>6, <1>7 DEF Forgotten
  <2>2. losses' = losses => r \notin Forgotten'
    <3>1. losses' = losses => r \in responses'
      BY <1>1, TypeFacts
    <3> QED
      BY <3>1 DEF Forgotten
  <2>3. GhostCrashes' = GhostCrashes
    BY <1>1 DEF GhostCrashes
  <2> QED
    BY <2>1, <2>2, <2>3
<1>12. Accounted'
  <2>0. crashes' \in Nat /\ losses \in Nat /\ crashes' = crashes
    BY <1>2, TypeFacts
  <2>1. CASE losses' = losses
    BY <1>11, <2>0, <2>1, AccountStays
  <2>2. CASE losses' = losses + 1
    <3>1. crashes + losses + 1 <= crashes' + losses' /\ losses' \in Nat
      BY <2>0, <2>2
    <3> QED
      BY <1>11, <2>0, <3>1, AccountStays
  <2> QED
    BY <1>1, <2>1, <2>2
<1> QED
  BY <1>3, <1>8, <1>9, <1>10, <1>12 DEF IInv, RInv

\* A crash takes the request its loop had, or leaves a ghost, never both.
LEMMA CrashNodeInv ==
  ASSUME IInv, NEW n \in Nodes, CrashNode(n)
  PROVE  IInv'
<1>1. /\ Crash(n) /\ ghosts' = ghosts \cup ({crashes'} \X polled[n])
      /\ polled' = [polled EXCEPT ![n] = {}]
      /\ handling' = [handling EXCEPT ![n] = NoRequest]
      /\ UNCHANGED <<caller, pending, responses>>
  BY DEF CrashNode
<1>2. HInv'
  BY <1>1, ProcessInv DEF IInv, Process
<1>3. dep' = dep /\ losses' = losses /\ crashes' = crashes + 1
  BY <1>1 DEF Crash, serverVars
<1>4. \A m \in Nodes \ {n} :
        loop'[m] = loop[m] /\ stop'[m] = stop[m] /\ apps'[m] = apps[m]
  BY <1>1, TypeFacts DEF Crash, Goto
<1>5. /\ polled' \in [Nodes -> SUBSET Pids]
      /\ polled'[n] = {} /\ \A m \in Nodes \ {n} : polled'[m] = polled[m]
      /\ handling' \in [Nodes -> Requests \cup {NoRequest}]
      /\ handling'[n] = NoRequest
      /\ \A m \in Nodes \ {n} : handling'[m] = handling[m]
  BY <1>1 DEF IInv, RInv, LBTypeOK
<1>6. ghosts' \subseteq (1..MaxCrashes) \X Pids
  <2>1. crashes' \in 1..MaxCrashes
    BY <1>2, <1>3, TypeFacts DEF HInv, HostingTypeOK
  <2>2. polled[n] \subseteq Pids /\ ghosts \subseteq (1..MaxCrashes) \X Pids
    BY DEF IInv, RInv, LBTypeOK
  <2> QED
    BY <1>1, <2>1, <2>2
<1>7. LBTypeOK'
  <2>1. \A m \in Nodes : /\ polled'[m] # {} => loop'[m] = "wait"
                         /\ handling'[m] # NoRequest => loop'[m] = "claim"
    BY <1>4, <1>5, TypeFacts
  <2>2. /\ caller' \in [Requests -> {"idle", "waiting", "answered", "timed out", "refused"}]
        /\ pending' \in [Pids -> Seq(Requests)] /\ responses' \subseteq Requests
    BY <1>1 DEF IInv, RInv, LBTypeOK
  <2> QED
    BY <1>5, <1>6, <2>1, <2>2 DEF LBTypeOK
<1>8. \A x \in Requests : (Queued(x)' <=> Queued(x)) /\ (Active(x)' <=> Active(x))
  BY <1>1 DEF Queued, Active
<1>9. \A x \in Requests : (Handled(x)' => Handled(x))
                          /\ (Handled(x) => Handled(x)' \/ handling[n] = x)
  BY <1>5, RequestAssumption DEF Handled
<1>10. QueuesFit'
  BY <1>1 DEF IInv, RInv, QueuesFit
<1>11. PlacesFit'
  <2>1. ASSUME NEW x \in Requests, NEW k \in Nodes, NEW m \in Nodes,
               handling'[k] = x, handling'[m] = x
        PROVE  k = m
    <3>1. k # n /\ m # n
      BY <1>5, <2>1, RequestAssumption
    <3>2. handling[k] = x /\ handling[m] = x
      BY <1>5, <2>1, <3>1
    <3> QED
      BY <3>2 DEF IInv, RInv, PlacesFit
  <2>2. \A x \in Requests :
          /\ Handled(x)' => ~Queued(x)' /\ x \notin responses' /\ Active(x)'
          /\ Queued(x)' => x \notin responses' /\ Active(x)'
          /\ x \in responses' => Active(x)'
    BY <1>1, <1>8, <1>9 DEF IInv, RInv, PlacesFit
  <2> QED
    BY <2>1, <2>2 DEF PlacesFit
<1>12. PollsFit'
  BY <1>4, <1>5 DEF IInv, RInv, PollsFit
<1>13. Forgotten' \subseteq Forgotten \cup {handling[n]}
  BY <1>1, <1>3, <1>8, <1>9 DEF Forgotten
<1>14. handling[n] = NoRequest => Forgotten' \subseteq Forgotten
  BY <1>1, <1>3, <1>8, <1>9, RequestAssumption DEF Forgotten
<1>15. GhostCrashes' \subseteq GhostCrashes \cup {crashes'}
  BY <1>1 DEF GhostCrashes
<1>16. handling[n] # NoRequest => GhostCrashes' \subseteq GhostCrashes
  <2>1. handling[n] # NoRequest => polled[n] = {}
    BY TypeFacts
  <2>2. polled[n] = {} => ghosts' = ghosts
    BY <1>1
  <2> QED
    BY <2>1, <2>2 DEF GhostCrashes
<1>17. crashes + losses + 1 <= crashes' + losses' /\ crashes' \in Nat /\ losses' \in Nat
  BY <1>3, TypeFacts
<1>18. Accounted'
  BY <1>13, <1>14, <1>15, <1>16, <1>17, AccountStays
<1> QED
  BY <1>2, <1>7, <1>10, <1>11, <1>12, <1>18 DEF IInv, RInv

\* A ghost takes one request at most: the charge passes from the crash to it.
LEMMA GhostInv ==
  ASSUME IInv, NEW k, (\E p \in Pids : GhostTakes(k, p)) \/ GhostEnds(k)
  PROVE  IInv'
<1>1. /\ ghosts' = {g \in ghosts : g[1] # k}
      /\ UNCHANGED <<caller, polled, handling, responses>>
      /\ \E g \in ghosts : g[1] = k
  BY DEF GhostTakes, GhostEnds
<1>2. HInv' /\ HostSame
  BY HostVarsSame DEF IInv, GhostTakes, GhostEnds
<1>3. k \in GhostCrashes /\ GhostCrashes' \subseteq GhostCrashes \ {k}
  BY <1>1 DEF GhostCrashes
<1>4. PICK r : /\ pending' \in [Pids -> Seq(Requests)] /\ QueuesFit'
               /\ \A x \in Requests : Queued(x)' <=> Queued(x) /\ x # r
  <2>1. CASE \E p \in Pids : GhostTakes(k, p)
    <3>1. PICK p \in Pids : pending[p] # <<>> /\ Dequeue(p)
      BY <2>1 DEF GhostTakes
    <3>2. /\ pending' \in [Pids -> Seq(Requests)] /\ QueuesFit'
          /\ \A x \in Requests : Queued(x)' <=> Queued(x) /\ x # Head(pending[p])
      BY <3>1, DequeueFacts DEF IInv, RInv
    <3> QED
      BY <3>2
  <2>2. CASE GhostEnds(k)
    <3>1. pending' = pending
      BY <2>2 DEF GhostEnds
    <3>2. pending' \in [Pids -> Seq(Requests)] /\ QueuesFit'
      BY <3>1 DEF IInv, RInv, LBTypeOK, QueuesFit
    <3>3. \A x \in Requests : Queued(x)' <=> Queued(x) /\ x # NoRequest
      BY <3>1, RequestAssumption DEF Queued
    <3> QED
      BY <3>2, <3>3
  <2> QED
    BY <2>1, <2>2
<1>5. \A x \in Requests : (Handled(x)' <=> Handled(x)) /\ (Active(x)' <=> Active(x))
  BY <1>1 DEF Handled, Active
<1>6. LBTypeOK'
  <2>1. ghosts' \subseteq (1..MaxCrashes) \X Pids
    BY <1>1 DEF IInv, RInv, LBTypeOK
  <2> QED
    BY <1>1, <1>2, <1>4, <2>1 DEF IInv, RInv, LBTypeOK, HostSame
<1>7. PlacesFit'
  BY <1>1, <1>4, <1>5 DEF IInv, RInv, PlacesFit
<1>8. PollsFit'
  BY <1>1, <1>2 DEF IInv, RInv, PollsFit, HostSame
<1>9. Forgotten' \subseteq Forgotten \cup {r}
  BY <1>1, <1>2, <1>4, <1>5 DEF Forgotten, HostSame
<1>10. Accounted'
  <2>1. crashes + losses <= crashes' + losses' /\ crashes' \in Nat /\ losses' \in Nat
    BY <1>2, TypeFacts DEF HostSame
  <2> QED
    BY <1>3, <1>9, <2>1, AccountStays
<1> QED
  BY <1>2, <1>4, <1>6, <1>7, <1>8, <1>10 DEF IInv, RInv

LEMMA LBNextInv == IInv /\ [LBNext]_lbVars => IInv'
<1> SUFFICES ASSUME IInv, [LBNext]_lbVars PROVE IInv'
  OBVIOUS
<1>1. CASE UNCHANGED lbVars
  <2>1. HInv' /\ HostSame /\ UNCHANGED requestVars
    BY <1>1, HostVarsSame DEF IInv, lbVars
  <2>2. HostKeeps
    BY <2>1, TypeFacts DEF HostSame, HostKeeps
  <2> QED
    BY <2>1, <2>2, QuietInv DEF IInv
<1>2. ASSUME NEW r \in Requests, CallerStep(r) PROVE IInv'
  BY <1>2, ArriveInv, LeaveInv DEF CallerStep
<1>3. ASSUME NEW p \in Pids, RemoveDeployment(p) \/ ExpirePending(p) PROVE IInv'
  BY <1>3, RemoveInv, ExpireInv
<1>4. ASSUME NEW n \in Nodes, ServeStep(n) PROVE IInv'
  BY <1>4, StartPollInv, EndPollInv, TakeInv, HandleInv, CrashNodeInv DEF ServeStep
<1>5. ASSUME NEW k \in 1..MaxCrashes, GhostEnds(k) \/ \E p \in Pids : GhostTakes(k, p)
      PROVE  IInv'
  BY <1>5, GhostInv
<1>6. ASSUME NEW p \in Pids, Deploy(p) \/ Reap(p), UNCHANGED requestVars PROVE IInv'
  <2>1. HInv'
    BY <1>6, ServerInv DEF IInv
  <2> QED
    BY <1>6, <2>1, ServerKeeps, QuietInv DEF IInv
<1>7. ASSUME NEW n \in Nodes, Quiet(n), UNCHANGED requestVars PROVE IInv'
  <2>1. HInv'
    BY <1>7, ProcessInv, ClaimInv, PollInv, FallSilentInv, StartInv
    DEF IInv, Quiet, Process
  <2> QED
    BY <1>7, <2>1, NodeKeeps, QuietInv DEF IInv
<1> QED
  BY <1>1, <1>2, <1>3, <1>4, <1>5, <1>6, <1>7 DEF LBNext

\* A poll waits and a loop proxies at one place of the loop only, never both.
THEOREM RequestsTypeCorrect == LBSpec => []LBTypeOK
<1>1. IInv => LBTypeOK
  BY DEF IInv, RInv
<1> QED
  BY <1>1, LBInitInv, LBNextInv, PTL DEF LBSpec

\* However polls, ghosts, crashes and expiries interleave, no request is handled
\* by two nodes, or handled and still queued, or handled when its response is
\* already there (serve_queue.py:157-210, node/src/serve.rs).
THEOREM OnePlaceAtATime == LBSpec => []HandedOutOnce
<1>1. IInv => HandedOutOnce
  <2> SUFFICES ASSUME IInv PROVE HandedOutOnce
    OBVIOUS
  <2>1. \A n, m \in Nodes : handling[n] = handling[m] /\ n # m => handling[n] = NoRequest
    <3>1. \A n \in Nodes : handling[n] \in Requests \cup {NoRequest}
      BY DEF IInv, RInv, LBTypeOK
    <3> QED
      BY <3>1 DEF IInv, RInv, PlacesFit
  <2> QED
    BY <2>1 DEF IInv, RInv, PlacesFit, HandedOutOnce, Active
<1> QED
  BY <1>1, LBInitInv, LBNextInv, PTL DEF LBSpec

\* However many requests are waiting, each crash and each loss costs one of them
\* at most.
THEOREM EachFaultCostsOne == LBSpec => []LossesAreAccounted
<1>1. IInv => LossesAreAccounted
  <2> SUFFICES ASSUME IInv PROVE LossesAreAccounted
    OBVIOUS
  <2> PICK f, g, c : /\ f = Cardinality(Forgotten) /\ g = Cardinality(GhostCrashes)
                     /\ c = crashes + losses
    OBVIOUS
  <2>1. f \in Nat /\ g \in Nat /\ f + g <= c /\ c \in Nat
    BY FS_CardinalityType, TypeFacts DEF IInv, RInv, Accounted
  <2>2. f <= c
    BY <2>1
  <2> QED
    BY <2>2 DEF LossesAreAccounted, Forgotten
<1> QED
  BY <1>1, LBInitInv, LBNextInv, PTL DEF LBSpec
----------------------------------------------------------------------------
(* The life of a request: RequestLifecycle *)

\* What the place of a request depends on.
Untouched(x) ==
  /\ caller'[x] = caller[x]
  /\ Queued(x)' <=> Queued(x)
  /\ x \in responses' <=> x \in responses
  /\ \A n \in Nodes : handling'[n] = x <=> handling[n] = x

LEMMA UntouchedStays ==
  ASSUME NEW x \in Requests, Untouched(x)
  PROVE  /\ placeOfRequest'[x] = placeOfRequest[x]
         /\ proxiesOfRequest'[x] = proxiesOfRequest[x]
<1>1. /\ caller'[x] = caller[x] /\ (Queued(x)' <=> Queued(x))
      /\ (Handled(x)' <=> Handled(x)) /\ (x \in responses' <=> x \in responses)
  BY DEF Untouched, Handled
<1>2. PlaceOf(x)' = PlaceOf(x)
  BY <1>1 DEF PlaceOf
<1>3. {n \in Nodes : handling'[n] = x} = {n \in Nodes : handling[n] = x}
  BY DEF Untouched
<1> QED
  BY <1>2, <1>3 DEF placeOfRequest, proxiesOfRequest

LEMMA PlacesAreFunctions ==
  /\ placeOfRequest = [x \in Requests |-> placeOfRequest[x]]
  /\ proxiesOfRequest = [x \in Requests |-> proxiesOfRequest[x]]
  /\ placeOfRequest' = [x \in Requests |-> placeOfRequest'[x]]
  /\ proxiesOfRequest' = [x \in Requests |-> proxiesOfRequest'[x]]
  BY DEF placeOfRequest, proxiesOfRequest

LEMMA AllUntouched ==
  ASSUME \A x \in Requests : Untouched(x)
  PROVE  UNCHANGED <<placeOfRequest, proxiesOfRequest>>
<1>1. \A x \in Requests : /\ placeOfRequest'[x] = placeOfRequest[x]
                          /\ proxiesOfRequest'[x] = proxiesOfRequest[x]
  BY UntouchedStays
<1> QED
  BY <1>1 DEF placeOfRequest, proxiesOfRequest

\* A step that moves one request moves it as the place it comes to says.
LEMMA OneRequestMoves ==
  ASSUME NEW r \in Requests, \A x \in Requests \ {r} : Untouched(x)
  PROVE  /\ placeOfRequest' = [placeOfRequest EXCEPT ![r] = placeOfRequest'[r]]
         /\ proxiesOfRequest' = [proxiesOfRequest EXCEPT ![r] = proxiesOfRequest'[r]]
<1>1. \A x \in Requests \ {r} : /\ placeOfRequest'[x] = placeOfRequest[x]
                                /\ proxiesOfRequest'[x] = proxiesOfRequest[x]
  BY UntouchedStays
<1> QED
  BY <1>1, PlacesAreFunctions

RequestStep == [AtMostOnce!Next]_<<placeOfRequest, proxiesOfRequest>>

\* Requests that were queued or handled, and of which nothing is left, are lost.
LEMMA GoneIsLost ==
  ASSUME IInv, NEW R \in SUBSET Requests,
         \A x \in Requests \ R : Untouched(x),
         \A x \in R : /\ Queued(x) \/ Handled(x)
                      /\ caller'[x] = caller[x] /\ x \notin responses'
                      /\ ~Queued(x)' /\ ~Handled(x)'
  PROVE  RequestStep
<1>1. \A x \in Requests \ R : /\ placeOfRequest'[x] = placeOfRequest[x]
                              /\ proxiesOfRequest'[x] = proxiesOfRequest[x]
  BY UntouchedStays
<1>2. ASSUME NEW x \in R
      PROVE  /\ placeOfRequest[x] \in {"queued", "proxied"}
             /\ placeOfRequest'[x] = "lost" /\ proxiesOfRequest'[x] = {}
  <2>1. caller[x] \in {"waiting", "timed out"}
    BY <1>2 DEF IInv, RInv, PlacesFit, Active
  <2>2. PlaceOf(x) \in {"queued", "proxied"} /\ PlaceOf(x)' = "lost"
    BY <1>2, <2>1 DEF PlaceOf
  <2>3. {n \in Nodes : handling'[n] = x} = {}
    BY <1>2 DEF Handled
  <2> QED
    BY <2>2, <2>3 DEF placeOfRequest, proxiesOfRequest
<1>3. \A x \in R : placeOfRequest[x] \in {"queued", "proxied"}
  BY <1>2
<1>4. placeOfRequest' = [x \in Requests |-> IF x \in R THEN "lost" ELSE placeOfRequest[x]]
  BY <1>1, <1>2, PlacesAreFunctions
<1>5. proxiesOfRequest' = [x \in Requests |-> IF x \in R THEN {} ELSE proxiesOfRequest[x]]
  BY <1>1, <1>2, PlacesAreFunctions
<1>6. R # {} => AtMostOnce!LoseAll(R)
  BY <1>3, <1>4, <1>5 DEF AtMostOnce!LoseAll
<1>7. R = {} => RequestStep
  BY AllUntouched DEF RequestStep
<1> QED
  BY <1>6, <1>7 DEF RequestStep, AtMostOnce!Next

\* Polls, heartbeats and start tasks move no request.
LEMMA NothingMoves ==
  ASSUME UNCHANGED <<caller, pending, handling, responses>>
  PROVE  RequestStep
<1>1. \A x \in Requests : Untouched(x)
  BY DEF Untouched, Queued
<1> QED
  BY <1>1, AllUntouched DEF RequestStep

LEMMA ArriveStep ==
  ASSUME IInv, NEW r \in Requests, Arrive(r)
  PROVE  RequestStep
<1>1. /\ caller[r] = "idle" /\ UNCHANGED <<handling, responses>>
      /\ \/ caller' = [caller EXCEPT ![r] = "refused"] /\ UNCHANGED pending
         \/ /\ caller' = [caller EXCEPT ![r] = "waiting"]
            /\ pending' = [pending EXCEPT ![PidOf[r]] = Append(pending[PidOf[r]], r)]
  BY DEF Arrive
<1>2. ~Queued(r) /\ ~Handled(r)
  BY <1>1, NobodyWaits DEF Active
<1>3. PICK outcome \in {"queued", "refused"} :
        /\ caller'[r] = IF outcome = "queued" THEN "waiting" ELSE "refused"
        /\ outcome = "queued" => Queued(r)'
        /\ \A x \in Requests \ {r} : caller'[x] = caller[x] /\ (Queued(x)' <=> Queued(x))
  <2>0. caller \in [Requests -> {"idle", "waiting", "answered", "timed out", "refused"}]
    BY DEF IInv, RInv, LBTypeOK
  <2>1. CASE caller' = [caller EXCEPT ![r] = "refused"] /\ UNCHANGED pending
    BY <2>0, <2>1 DEF Queued
  <2>2. CASE /\ caller' = [caller EXCEPT ![r] = "waiting"]
             /\ pending' = [pending EXCEPT ![PidOf[r]] = Append(pending[PidOf[r]], r)]
    <3>1. \A x \in Requests : Queued(x)' <=> Queued(x) \/ x = r
      BY <1>2, <2>2, EnqueueFacts DEF IInv, RInv
    <3> QED
      BY <2>0, <2>2, <3>1
  <2> QED
    BY <1>1, <2>1, <2>2
<1>4. \A x \in Requests \ {r} : Untouched(x)
  BY <1>1, <1>3 DEF Untouched
<1>5. PlaceOf(r) = "new" /\ PlaceOf(r)' = outcome
  BY <1>1, <1>3 DEF PlaceOf
<1>6. placeOfRequest[r] = "new" /\ placeOfRequest'[r] = outcome
  BY <1>5 DEF placeOfRequest
<1>7. proxiesOfRequest' = proxiesOfRequest
  BY <1>1 DEF proxiesOfRequest
<1>8. AtMostOnce!Submit(r)
  BY <1>4, <1>6, <1>7, OneRequestMoves DEF AtMostOnce!Submit
<1> QED
  BY <1>8 DEF RequestStep, AtMostOnce!Next

\* An answer that is handed over stays an answer; who gives up finds none.
LEMMA LeaveStep ==
  ASSUME IInv, NEW r \in Requests, ReturnResponse(r) \/ GiveUpWaiting(r)
  PROVE  RequestStep
<1>1. UNCHANGED <<pending, handling>>
  BY DEF ReturnResponse, GiveUpWaiting
<1>2. /\ caller[r] = "waiting"
      /\ \A x \in Requests \ {r} : /\ caller'[x] = caller[x]
                                   /\ x \in responses' <=> x \in responses
      /\ \/ caller'[r] = "answered" /\ r \in responses
         \/ caller'[r] = "timed out" /\ r \notin responses /\ r \notin responses'
  BY DEF IInv, RInv, LBTypeOK, ReturnResponse, GiveUpWaiting
<1>3. \A x \in Requests : (Queued(x)' <=> Queued(x)) /\ (Handled(x)' <=> Handled(x))
  BY <1>1 DEF Queued, Handled
<1>4. \A x \in Requests \ {r} : Untouched(x)
  BY <1>1, <1>2, <1>3 DEF Untouched
<1>5. r \in responses => ~Queued(r) /\ ~Handled(r)
  BY DEF IInv, RInv, PlacesFit
<1>6. PlaceOf(r)' = PlaceOf(r)
  BY <1>2, <1>3, <1>5 DEF PlaceOf
<1>7. \A x \in Requests : placeOfRequest'[x] = placeOfRequest[x]
  BY <1>4, <1>6, UntouchedStays DEF placeOfRequest
<1>8. proxiesOfRequest' = proxiesOfRequest
  BY <1>1 DEF proxiesOfRequest
<1>9. placeOfRequest' = placeOfRequest
  BY <1>7, PlacesAreFunctions
<1> QED
  BY <1>8, <1>9 DEF RequestStep

\* A queue that expires or is deleted takes all its requests along.
LEMMA EmptyStep ==
  ASSUME IInv, NEW p \in Pids, RemoveDeployment(p) \/ ExpirePending(p)
  PROVE  RequestStep
<1>1. /\ pending' = [pending EXCEPT ![p] = <<>>]
      /\ UNCHANGED <<caller, handling, responses>>
  BY DEF RemoveDeployment, ExpirePending
<1>2. \A x \in Requests : Queued(x)' <=> Queued(x) /\ PidOf[x] # p
  BY <1>1, EmptyFacts DEF IInv, RInv
<1> PICK R \in SUBSET Requests : R = {x \in Requests : Queued(x) /\ PidOf[x] = p}
  OBVIOUS
<1>3. \A x \in Requests \ R : Untouched(x)
  BY <1>1, <1>2 DEF Untouched
<1>4. \A x \in R : ~Handled(x) /\ x \notin responses
  BY DEF IInv, RInv, PlacesFit
<1>5. \A x \in R : /\ Queued(x) /\ caller'[x] = caller[x] /\ x \notin responses'
                   /\ ~Queued(x)' /\ ~Handled(x)'
  BY <1>1, <1>2, <1>4 DEF Handled
<1> QED
  BY <1>3, <1>5, GoneIsLost
\* The head of a queue goes to the loop that polled, or is lost on its way.
LEMMA TakeStep ==
  ASSUME IInv, NEW n \in Nodes, TakeRequest(n)
  PROVE  RequestStep
<1>1. /\ PollDone(n) /\ polled' = [polled EXCEPT ![n] = {}]
      /\ UNCHANGED <<caller, responses, ghosts>>
  BY DEF TakeRequest
<1>2. handling[n] = NoRequest
  BY <1>1, PollDoneFacts
<1>3. PICK p \in polled[n] :
        /\ pending[p] # <<>> /\ Dequeue(p)
        /\ \/ handling' = [handling EXCEPT ![n] = Head(pending[p])]
           \/ UNCHANGED handling
  BY DEF TakeRequest
<1>4. p \in Pids
  BY <1>3 DEF IInv, RInv, LBTypeOK
<1> PICK r : r = Head(pending[p])
  OBVIOUS
<1>5. /\ r \in Requests /\ Queued(r)
      /\ \A x \in Requests : Queued(x)' <=> Queued(x) /\ x # r
  BY <1>3, <1>4, DequeueFacts DEF IInv, RInv
<1>6. ~Handled(r) /\ r \notin responses /\ Active(r) /\ r # NoRequest
  BY <1>5, RequestAssumption DEF IInv, RInv, PlacesFit
<1>7. ~Queued(r)' /\ r \notin responses' /\ caller'[r] = caller[r]
  BY <1>1, <1>5, <1>6
<1>8. CASE handling' = [handling EXCEPT ![n] = r]
  <2>1. \A m \in Nodes : handling'[m] = IF m = n THEN r ELSE handling[m]
    BY <1>8 DEF IInv, RInv, LBTypeOK
  <2>2. \A x \in Requests \ {r} : \A m \in Nodes : handling'[m] = x <=> handling[m] = x
    BY <1>2, <2>1, RequestAssumption
  <2>3. \A x \in Requests \ {r} : Untouched(x)
    BY <1>1, <1>5, <2>2 DEF Untouched
  <2>4. Handled(r)' /\ {m \in Nodes : handling'[m] = r} = {n}
    BY <1>6, <2>1 DEF Handled
  <2>5. PlaceOf(r) = "queued" /\ PlaceOf(r)' = "proxied"
    BY <1>5, <1>6, <1>7, <2>4 DEF PlaceOf, Active
  <2>6. placeOfRequest[r] = "queued" /\ placeOfRequest'[r] = "proxied"
    BY <1>5, <2>5 DEF placeOfRequest
  <2>7. proxiesOfRequest'[r] = {n}
    BY <1>5, <2>4 DEF proxiesOfRequest
  <2>8. AtMostOnce!HandOut(r)
    BY <1>5, <2>3, <2>6, <2>7, OneRequestMoves DEF AtMostOnce!HandOut
  <2> QED
    BY <1>5, <2>8 DEF RequestStep, AtMostOnce!Next
<1>9. CASE UNCHANGED handling
  <2> PICK R \in SUBSET Requests : R = {r}
    BY <1>5
  <2>1. \A x \in Requests \ R : Untouched(x)
    BY <1>1, <1>5, <1>9 DEF Untouched
  <2>2. ~Handled(r)'
    BY <1>6, <1>9 DEF Handled
  <2>3. \A x \in R : /\ Queued(x) /\ caller'[x] = caller[x] /\ x \notin responses'
                     /\ ~Queued(x)' /\ ~Handled(x)'
    BY <1>5, <1>7, <2>2
  <2> QED
    BY <2>1, <2>3, GoneIsLost
<1> QED
  BY <1>3, <1>8, <1>9

\* The node that proxied the request answers it, or its one attempt to is lost.
LEMMA HandleStep ==
  ASSUME IInv, NEW n \in Nodes, Handle(n)
  PROVE  RequestStep
<1> PICK r : r = handling[n]
  OBVIOUS
<1>1. /\ r # NoRequest /\ handling' = [handling EXCEPT ![n] = NoRequest]
      /\ UNCHANGED <<caller, pending>>
      /\ responses' = responses \cup {r} \/ responses' = responses
  BY DEF Handle, Respond, Deliver
<1>2. /\ r \in Requests /\ Handled(r)
      /\ \A m \in Nodes : handling'[m] = IF m = n THEN NoRequest ELSE handling[m]
  BY <1>1 DEF IInv, RInv, LBTypeOK, Handled
<1>3. /\ ~Queued(r) /\ r \notin responses /\ Active(r)
      /\ \A m \in Nodes : handling[m] = r => m = n
  BY <1>2 DEF IInv, RInv, PlacesFit
<1>4. \A x \in Requests : Queued(x)' <=> Queued(x)
  BY <1>1 DEF Queued
<1>5. \A x \in Requests \ {r} : \A m \in Nodes : handling'[m] = x <=> handling[m] = x
  BY <1>2, RequestAssumption
<1>6. \A x \in Requests \ {r} : Untouched(x)
  BY <1>1, <1>4, <1>5 DEF Untouched
<1>7. ~Handled(r)'
  BY <1>1, <1>2, <1>3 DEF Handled
<1>8. CASE responses' = responses \cup {r}
  <2>1. PlaceOf(r) = "proxied" /\ PlaceOf(r)' = "answered"
    BY <1>1, <1>2, <1>3, <1>4, <1>7, <1>8 DEF PlaceOf, Active
  <2>2. placeOfRequest[r] = "proxied" /\ placeOfRequest'[r] = "answered"
    BY <1>2, <2>1 DEF placeOfRequest
  <2>3. proxiesOfRequest'[r] = {}
    BY <1>2, <1>7 DEF proxiesOfRequest, Handled
  <2>4. AtMostOnce!Answer(r)
    BY <1>2, <1>6, <2>2, <2>3, OneRequestMoves DEF AtMostOnce!Answer
  <2> QED
    BY <1>2, <2>4 DEF RequestStep, AtMostOnce!Next
<1>9. CASE responses' = responses
  <2> PICK R \in SUBSET Requests : R = {r}
    BY <1>2
  <2>1. \A x \in R : /\ Handled(x) /\ caller'[x] = caller[x] /\ x \notin responses'
                     /\ ~Queued(x)' /\ ~Handled(x)'
    BY <1>1, <1>2, <1>3, <1>4, <1>7, <1>9
  <2>2. \A x \in Requests \ R : Untouched(x)
    BY <1>6
  <2> QED
    BY <2>1, <2>2, GoneIsLost
<1> QED
  BY <1>1, <1>8, <1>9
\* With a node goes the request it proxied, if there was one.
LEMMA CrashNodeStep ==
  ASSUME IInv, NEW n \in Nodes, CrashNode(n)
  PROVE  RequestStep
<1>1. /\ handling' = [handling EXCEPT ![n] = NoRequest]
      /\ UNCHANGED <<caller, pending, responses>>
  BY DEF CrashNode
<1>2. \A m \in Nodes : handling'[m] = IF m = n THEN NoRequest ELSE handling[m]
  BY <1>1 DEF IInv, RInv, LBTypeOK
<1>3. \A x \in Requests : Queued(x)' <=> Queued(x)
  BY <1>1 DEF Queued
<1> PICK R \in SUBSET Requests : R = {x \in Requests : x = handling[n]}
  OBVIOUS
<1>4. \A x \in Requests \ R : \A m \in Nodes : handling'[m] = x <=> handling[m] = x
  BY <1>2, RequestAssumption
<1>5. \A x \in Requests \ R : Untouched(x)
  BY <1>1, <1>3, <1>4 DEF Untouched
<1>6. \A x \in R : Handled(x)
  BY DEF Handled
<1>7. \A x \in R : /\ ~Queued(x) /\ x \notin responses
                   /\ \A m \in Nodes : handling[m] = x => m = n
  BY <1>6 DEF IInv, RInv, PlacesFit
<1>8. \A x \in R : ~Handled(x)'
  BY <1>2, <1>7, RequestAssumption DEF Handled
<1>9. \A x \in R : /\ Handled(x) /\ caller'[x] = caller[x] /\ x \notin responses'
                   /\ ~Queued(x)' /\ ~Handled(x)'
  BY <1>1, <1>3, <1>6, <1>7, <1>8
<1> QED
  BY <1>5, <1>9, GoneIsLost

\* What a ghost takes nobody will run.
LEMMA GhostStep ==
  ASSUME IInv, NEW k, NEW p \in Pids, GhostTakes(k, p)
  PROVE  RequestStep
<1>1. /\ pending[p] # <<>> /\ Dequeue(p)
      /\ UNCHANGED <<caller, handling, responses>>
  BY DEF GhostTakes
<1> PICK r : r = Head(pending[p])
  OBVIOUS
<1>2. /\ r \in Requests /\ Queued(r)
      /\ \A x \in Requests : Queued(x)' <=> Queued(x) /\ x # r
  BY <1>1, DequeueFacts DEF IInv, RInv
<1>3. ~Handled(r) /\ r \notin responses
  BY <1>2 DEF IInv, RInv, PlacesFit
<1>4. ~Handled(r)'
  BY <1>1, <1>3 DEF Handled
<1> PICK R \in SUBSET Requests : R = {r}
  BY <1>2
<1>5. \A x \in Requests \ R : Untouched(x)
  BY <1>1, <1>2 DEF Untouched
<1>6. \A x \in R : /\ Queued(x) /\ caller'[x] = caller[x] /\ x \notin responses'
                   /\ ~Queued(x)' /\ ~Handled(x)'
  BY <1>1, <1>2, <1>3, <1>4
<1> QED
  BY <1>5, <1>6, GoneIsLost

LEMMA RequestsStepwise == IInv /\ [LBNext]_lbVars => RequestStep
<1> SUFFICES ASSUME IInv, [LBNext]_lbVars PROVE RequestStep
  OBVIOUS
<1>1. CASE UNCHANGED lbVars
  BY <1>1, NothingMoves DEF lbVars, requestVars
<1>2. ASSUME NEW r \in Requests, CallerStep(r) PROVE RequestStep
  BY <1>2, ArriveStep, LeaveStep DEF CallerStep
<1>3. ASSUME NEW p \in Pids, RemoveDeployment(p) \/ ExpirePending(p) PROVE RequestStep
  BY <1>3, EmptyStep
<1>4. ASSUME NEW n \in Nodes, ServeStep(n) PROVE RequestStep
  <2>1. CASE StartPoll(n) \/ EndPoll(n)
    BY <2>1, NothingMoves DEF StartPoll, EndPoll
  <2> QED
    BY <1>4, <2>1, TakeStep, HandleStep, CrashNodeStep DEF ServeStep
<1>5. ASSUME NEW k \in 1..MaxCrashes, GhostEnds(k) \/ \E p \in Pids : GhostTakes(k, p)
      PROVE  RequestStep
  <2>1. CASE GhostEnds(k)
    BY <2>1, NothingMoves DEF GhostEnds
  <2> QED
    BY <1>5, <2>1, GhostStep
<1>6. CASE UNCHANGED requestVars
  BY <1>6, NothingMoves DEF requestVars
<1> QED
  BY <1>1, <1>2, <1>3, <1>4, <1>5, <1>6 DEF LBNext

\* However polls, ghosts, crashes, expiries and impatient callers interleave, a
\* request is handed out once in its whole life and answered by the node that
\* ran it, or lost for good (serve_queue.py:157-235, node/src/serve.rs).
THEOREM RunOnceOrLost == LBSpec => RequestsRunOnce
<1>1. LBInit => AtMostOnce!Init
  <2> SUFFICES ASSUME LBInit PROVE AtMostOnce!Init
    OBVIOUS
  <2>1. \A r \in Requests : PlaceOf(r) = "new" /\ {n \in Nodes : handling[n] = r} = {}
    BY RequestAssumption DEF LBInit, PlaceOf
  <2> QED
    BY <2>1 DEF AtMostOnce!Init, placeOfRequest, proxiesOfRequest
<1>2. IInv /\ [LBNext]_lbVars => [AtMostOnce!Next]_<<placeOfRequest, proxiesOfRequest>>
  BY RequestsStepwise DEF RequestStep
<1> QED
  BY <1>1, <1>2, LBInitInv, LBNextInv, PTL DEF LBSpec, RequestsRunOnce, AtMostOnce!Spec
\* Requests that a loop proxies between its polls do not get in the way of the
\* starts: no deployment is started twice on a node under traffic either
\* (serve_loop, start_with_retries of serve.rs).
THEOREM NoDoubleStartUnderTraffic == LBSpec => []StartedOnce
<1>1. IInv => StartedOnce
  BY DEF IInv, HInv
<1> QED
  BY <1>1, LBInitInv, LBNextInv, PTL DEF LBSpec
============================================================================
