------------------------------ MODULE Hosting ------------------------------
(***************************************************************************)
(* Web hosting: which nodes run which deployment.  The server side is      *)
(* server/app/utils/serve_queue.py and blueprints/serve.py, the node side  *)
(* serve_loop of node/src/serve.rs with its start tasks.                   *)
(*                                                                         *)
(* A handler of the server is one step; so is one pass of the reaper over  *)
(* one deployment.  A long-poll is two: the server answers from what it    *)
(* saw when the poll began (Poll), the node acts on the answer (PollDone). *)
(* A message may be lost, which the node sees as an error.                 *)
(*                                                                         *)
(* Nodes are numbered in the sorted order of their ids, the order in which *)
(* get_healthy_node_ids lists them.                                        *)
(***************************************************************************)
EXTENDS Integers, FiniteSets, Sequences

CONSTANTS
  NumNodes,
  Pids,          \* deployments
  Replicas,      \* how many copies each deployment asks for
  ServeNodes,    \* nodes that run the serve loop: those built for Unix
  Flaky,         \* pairs <<n, p>>: deployment p may fail to come up on node n
  Reliable,      \* nodes that never crash
  Slow,          \* nodes whose serve loop may be held up by a request
  MaxStartAttempts,
  MaxEntries,    \* bound: entries of one deployment in one queue
  MaxCrashes,    \* bound: crashes in a behaviour
  MaxLosses      \* bound: lost messages in a behaviour

Nodes == 1..NumNodes

ASSUME HostingAssumption ==
  /\ NumNodes \in Nat
  /\ Replicas \in [Pids -> Nat \ {0}]
  /\ ServeNodes \subseteq Nodes /\ Flaky \subseteq Nodes \X Pids
  /\ Reliable \subseteq Nodes /\ Slow \subseteq Nodes
  /\ MaxStartAttempts \in Nat \ {0} /\ MaxEntries \in Nat \ {0}
  /\ MaxCrashes \in Nat /\ MaxLosses \in Nat

VARIABLES
  healthy,      \* nodes heard of less than NODE_STALE_SECONDS ago
  dep,          \* "none", "running", "failed" or "removed"
  assignments,  \* node:{id}:serve, a queue of deployments
  serving,      \* serve:{pid}:nodes, the nodes that reported serving it
  silent,       \* pairs of serving older than SERVE_NODE_STALE_SECONDS
  loop,         \* the serve loop: "down", "claim", "next" or "wait"
  stop,         \* what the poll under way will tell the node to stop
  apps,         \* deployments the node has up
  starting,     \* the attempt each start task is at; 0 when there is none
  fetched,      \* deployments whose bundle the attempt under way has got
  givenUp,      \* deployments the node will not try again
  crashes, losses

serverVars == <<healthy, dep, assignments, serving, silent>>
nodeVars == <<loop, stop, apps, starting, fetched, givenUp>>
bounds == <<crashes, losses>>
hostVars == <<serverVars, nodeVars, bounds>>

Reporting == MaxStartAttempts + 1   \* all attempts failed
Lose == losses < MaxLosses /\ losses' = losses + 1
Goto(n, pc) == loop' = [loop EXCEPT ![n] = pc]

----------------------------------------------------------------------------
(* The server *)

Entries(q, p) == Cardinality({i \in 1..Len(q) : q[i] = p})

\* Entries beyond the bound are copies of ones already there.
Push(q, p) == IF Entries(q, p) < MaxEntries THEN Append(q, p) ELSE q

\* claim_assignment takes the oldest entry, whatever has become of its app.
Dispatch(n) == assignments' = [assignments EXCEPT ![n] = Tail(@)]

\* The first healthy nodes that bring those already serving up to the count.
Chosen(p, already) ==
  LET free == healthy \ already
  IN  {n \in free : Cardinality({m \in free : m < n})
                      < Replicas[p] - Cardinality(already)}

Assign(p, already) ==
  assignments' = [n \in Nodes |-> IF n \in Chosen(p, already)
                                  THEN Push(assignments[n], p)
                                  ELSE assignments[n]]

Deploy(p) ==
  /\ dep[p] = "none"
  /\ dep' = [dep EXCEPT ![p] = "running"]
  /\ Assign(p, serving[p])
  /\ UNCHANGED <<healthy, serving, silent, nodeVars, bounds>>

\* The user stops hosting: the hash, the serving set and the bundle go.
Remove(p) ==
  /\ dep[p] \in {"running", "failed"}
  /\ dep' = [dep EXCEPT ![p] = "removed"]
  /\ serving' = [serving EXCEPT ![p] = {}]
  /\ silent' = {s \in silent : s[2] # p}
  /\ UNCHANGED <<healthy, assignments, nodeVars, bounds>>

\* Faulty: forgets dead nodes but refills from the set as it was.
ReapNoRefill(p) ==
  LET kept == {n \in serving[p] \cap healthy : <<n, p>> \notin silent}
  IN  /\ dep[p] \in {"running", "failed"}
      /\ serving' = [serving EXCEPT ![p] = kept]
      /\ silent' = {s \in silent : s[2] # p}
      /\ IF dep[p] = "running" /\ kept # {} THEN Assign(p, kept)
                                             ELSE UNCHANGED assignments
      /\ UNCHANGED <<healthy, dep, nodeVars, bounds>>

\* reap_stale_serve_nodes, for one of the deployments it goes through.
Reap(p) ==
  LET kept == {n \in serving[p] \cap healthy : <<n, p>> \notin silent}
  IN  /\ dep[p] \in {"running", "failed"}
      /\ serving' = [serving EXCEPT ![p] = kept]
      /\ silent' = {s \in silent : s[2] # p}
      /\ IF dep[p] = "running" THEN Assign(p, kept) ELSE UNCHANGED assignments
      /\ UNCHANGED <<healthy, dep, nodeVars, bounds>>

\* /nodes/serve/<pid>/failed; a deployment that is gone is not brought back.
MarkFailed(p) ==
  dep' = IF dep[p] = "running" THEN [dep EXCEPT ![p] = "failed"] ELSE dep

\* The report of a node falls out of the window: the node is down, no longer
\* has the deployment, or is busy with a request.
FallSilent(n, p) ==
  /\ n \in serving[p] /\ <<n, p>> \notin silent
  /\ loop[n] = "down" \/ p \notin apps[n] \/ n \in Slow
  /\ silent' = silent \cup {<<n, p>>}
  /\ UNCHANGED <<healthy, dep, assignments, serving, nodeVars, bounds>>

----------------------------------------------------------------------------
(* The node process and its heartbeats *)

Boot(n) ==
  /\ loop[n] = "down"
  /\ Goto(n, "claim")
  /\ healthy' = healthy \cup {n}
  /\ UNCHANGED <<dep, assignments, serving, silent, stop, apps, starting,
                 fetched, givenUp, bounds>>

\* The apps die with their node (--die-with-parent).
Crash(n) ==
  /\ loop[n] # "down" /\ n \notin Reliable
  /\ crashes < MaxCrashes /\ crashes' = crashes + 1
  /\ Goto(n, "down")
  /\ stop' = [stop EXCEPT ![n] = {}]
  /\ apps' = [apps EXCEPT ![n] = {}]
  /\ starting' = [starting EXCEPT ![n] = [p \in Pids |-> 0]]
  /\ fetched' = [fetched EXCEPT ![n] = {}]
  /\ givenUp' = [givenUp EXCEPT ![n] = {}]
  /\ UNCHANGED <<serverVars, losses>>

Beat(n) ==
  /\ loop[n] # "down"
  /\ healthy' = healthy \cup {n}
  /\ UNCHANGED <<dep, assignments, serving, silent, nodeVars, bounds>>

GoStale(n) ==
  /\ loop[n] = "down" /\ n \in healthy
  /\ healthy' = healthy \ {n}
  /\ UNCHANGED <<dep, assignments, serving, silent, nodeVars, bounds>>

----------------------------------------------------------------------------
(* The serve loop: claim an assignment, then poll *)

\* Faulty: does not look at the apps that are up.
FreshUnlessStarting(n, p) == starting[n][p] = 0 /\ p \notin givenUp[n]

\* What the loop checks under the three locks before it starts an app.
Fresh(n, p) == p \notin apps[n] /\ starting[n][p] = 0 /\ p \notin givenUp[n]

ClaimAssignment(n) ==
  /\ n \in ServeNodes /\ loop[n] = "claim"
  /\ Goto(n, "next")
  /\ \/ /\ assignments[n] = <<>>
        /\ UNCHANGED <<assignments, starting, losses>>
     \/ /\ assignments[n] # <<>>
        /\ Dispatch(n)
        /\ LET p == Head(assignments[n])
           IN  \/ /\ dep[p] # "removed" /\ Fresh(n, p)
                  /\ starting' = [starting EXCEPT ![n][p] = 1]
                  /\ UNCHANGED losses
               \/ /\ dep[p] = "removed" \/ ~Fresh(n, p)
                  /\ UNCHANGED <<starting, losses>>
               \/ Lose /\ UNCHANGED starting
  /\ UNCHANGED <<healthy, dep, serving, silent, stop, apps, fetched, givenUp,
                 crashes>>

\* One attempt of a start task downloads and unpacks the bundle, launches the
\* app and waits for its socket.  What becomes of the deployment after the
\* download the start task never learns.
Download(n, p) ==
  /\ starting[n][p] \in 1..MaxStartAttempts /\ p \notin fetched[n]
  /\ dep[p] # "removed"
  /\ fetched' = [fetched EXCEPT ![n] = @ \cup {p}]
  /\ UNCHANGED <<serverVars, loop, stop, apps, starting, givenUp, bounds>>

StartUp(n, p) ==
  /\ starting[n][p] \in 1..MaxStartAttempts /\ p \in fetched[n]
  /\ apps' = [apps EXCEPT ![n] = @ \cup {p}]
  /\ starting' = [starting EXCEPT ![n][p] = 0]
  /\ fetched' = [fetched EXCEPT ![n] = @ \ {p}]
  /\ UNCHANGED <<serverVars, loop, stop, givenUp, bounds>>

\* There is no bundle any more, or the download breaks off.
NoBundle(n, p) ==
  /\ p \notin fetched[n]
  /\ \/ dep[p] = "removed" /\ UNCHANGED losses
     \/ Lose

\* The app does not listen on its socket in time.
NotReady(n, p) ==
  /\ p \in fetched[n] /\ <<n, p>> \in Flaky
  /\ UNCHANGED losses

StartFails(n, p) ==
  /\ starting[n][p] \in 1..MaxStartAttempts
  /\ NoBundle(n, p) \/ NotReady(n, p)
  /\ starting' = [starting EXCEPT ![n][p] = @ + 1]
  /\ fetched' = [fetched EXCEPT ![n] = @ \ {p}]
  /\ givenUp' = IF starting[n][p] = MaxStartAttempts
                THEN [givenUp EXCEPT ![n] = @ \cup {p}] ELSE givenUp
  /\ UNCHANGED <<serverVars, loop, stop, apps, crashes>>

\* One attempt to report; the start task ends either way.
ReportFailed(n, p) ==
  /\ starting[n][p] = Reporting
  /\ starting' = [starting EXCEPT ![n][p] = 0]
  /\ \/ MarkFailed(p) /\ UNCHANGED losses
     \/ Lose /\ UNCHANGED dep
  /\ UNCHANGED <<healthy, assignments, serving, silent, loop, stop, apps,
                 fetched, givenUp, crashes>>

\* Faulty: the server forgets to name the deployments to stop.
PollNeverStops(n) ==
  /\ n \in ServeNodes /\ loop[n] = "next" /\ apps[n] # {}
  /\ LET active == {p \in apps[n] : dep[p] = "running"}
     IN  /\ serving' = [p \in Pids |-> IF p \in active THEN serving[p] \cup {n}
                                                       ELSE serving[p]]
         /\ silent' = silent \ ({n} \X active)
  /\ Goto(n, "wait")
  /\ UNCHANGED <<healthy, dep, assignments, stop, apps, starting, fetched, givenUp, bounds>>

\* /nodes/serve/next up to its wait for a request: report every active
\* deployment the node lists and note the others.
Poll(n) ==
  /\ n \in ServeNodes /\ loop[n] = "next" /\ apps[n] # {}
  /\ LET active == {p \in apps[n] : dep[p] = "running"}
     IN  /\ serving' = [p \in Pids |-> IF p \in active THEN serving[p] \cup {n}
                                                       ELSE serving[p]]
         /\ silent' = silent \ ({n} \X active)
         /\ stop' = [stop EXCEPT ![n] = apps[n] \ active]
  /\ Goto(n, "wait")
  /\ UNCHANGED <<healthy, dep, assignments, apps, starting, fetched, givenUp, bounds>>

\* Nothing to poll for, or the poll never reached the server.
SkipPoll(n) ==
  /\ n \in ServeNodes /\ loop[n] = "next"
  /\ Goto(n, "claim")
  /\ \/ apps[n] = {} /\ UNCHANGED losses
     \/ apps[n] # {} /\ Lose
  /\ UNCHANGED <<serverVars, stop, apps, starting, fetched, givenUp, crashes>>

\* The answer shuts down what it names; without it the loop goes round.
PollDone(n) ==
  /\ loop[n] = "wait"
  /\ Goto(n, "claim")
  /\ stop' = [stop EXCEPT ![n] = {}]
  /\ \/ apps' = [apps EXCEPT ![n] = @ \ stop[n]] /\ UNCHANGED losses
     \/ Lose /\ UNCHANGED apps
  /\ UNCHANGED <<serverVars, starting, fetched, givenUp, crashes>>

----------------------------------------------------------------------------

HostingInit ==
  /\ healthy = {}
  /\ dep = [p \in Pids |-> "none"]
  /\ assignments = [n \in Nodes |-> <<>>]
  /\ serving = [p \in Pids |-> {}]
  /\ silent = {}
  /\ loop = [n \in Nodes |-> "down"]
  /\ stop = [n \in Nodes |-> {}]
  /\ apps = [n \in Nodes |-> {}]
  /\ starting = [n \in Nodes |-> [p \in Pids |-> 0]]
  /\ fetched = [n \in Nodes |-> {}]
  /\ givenUp = [n \in Nodes |-> {}]
  /\ crashes = 0 /\ losses = 0

LoopStep(n) == ClaimAssignment(n) \/ Poll(n) \/ SkipPoll(n) \/ PollDone(n)
StartStep(n, p) == Download(n, p) \/ StartUp(n, p) \/ StartFails(n, p) \/ ReportFailed(n, p)
Process(n) == Boot(n) \/ Crash(n) \/ Beat(n) \/ GoStale(n)

HostingNext ==
  \/ \E p \in Pids : Deploy(p) \/ Remove(p) \/ Reap(p)
  \/ \E n \in Nodes, p \in Pids : FallSilent(n, p) \/ StartStep(n, p)
  \/ \E n \in Nodes : Process(n) \/ LoopStep(n)

\* The reaper runs on a timer, the loops and start tasks of a running node
\* keep going, and reports that are not renewed grow old.
HostingFairness ==
  /\ \A p \in Pids : WF_hostVars(Reap(p))
  /\ \A n \in Nodes :
       /\ WF_hostVars(LoopStep(n)) /\ WF_hostVars(Beat(n)) /\ WF_hostVars(GoStale(n))
       /\ n \in Reliable => WF_hostVars(Boot(n))
       /\ \A p \in Pids : WF_hostVars(StartStep(n, p)) /\ WF_hostVars(FallSilent(n, p))

HostingSpec == HostingInit /\ [][HostingNext]_hostVars /\ HostingFairness

----------------------------------------------------------------------------
(* Properties *)

\* What the hash, the queues, the sorted set and the node's maps can hold.
HostingTypeOK ==
  /\ healthy \subseteq Nodes
  /\ dep \in [Pids -> {"none", "running", "failed", "removed"}]
  /\ assignments \in [Nodes -> Seq(Pids)]
  /\ serving \in [Pids -> SUBSET Nodes]
  /\ silent \subseteq Nodes \X Pids
  /\ loop \in [Nodes -> {"down", "claim", "next", "wait"}]
  /\ stop \in [Nodes -> SUBSET Pids] /\ apps \in [Nodes -> SUBSET Pids]
  /\ starting \in [Nodes -> [Pids -> 0..Reporting]]
  /\ fetched \in [Nodes -> SUBSET Pids] /\ givenUp \in [Nodes -> SUBSET Pids]
  /\ crashes \in 0..MaxCrashes /\ losses \in 0..MaxLosses

\* No duplicate start: however often the server assigns it, a deployment that
\* is up or given up on a node is not being started there again, which would
\* wipe the work directory under the running app (serve.rs:309-326, 467).
StartedOnce ==
  \A n \in Nodes, p \in Pids :
    starting[n][p] \in 1..MaxStartAttempts => p \notin apps[n] \cup givenUp[n]

\* "Nodes serving it learn it's gone via /nodes/serve/next and shut their copy
\* down" (serve_queue.py:100-101): once a deployment is removed or failed no
\* node keeps it up, not even one that was starting it, and none brings it back.
GoneAppsStop ==
  \A p \in Pids :
    dep[p] \in {"failed", "removed"} ~> [](\A n \in Nodes : p \notin apps[n])

IsUp(p) == \E n \in healthy \cap serving[p] : p \in apps[n]

\* "top deployments back up to their replica count on healthy nodes"
\* (serve_queue.py:232-233): after crashes, silence and lost messages alike a
\* running deployment comes back up on some healthy node.  The one thing that
\* keeps it down is a node whose report that it has given up was lost: it stays
\* assigned to a node that will never try again (serve.rs:404).
AppsComeUp ==
  \A p \in Pids :
    dep[p] = "running"
      ~> \/ IsUp(p) \/ dep[p] # "running"
         \/ losses > 0 /\ [](\E n \in healthy : p \in givenUp[n])
============================================================================
