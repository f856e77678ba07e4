--------------------------- MODULE LoadBalancer ---------------------------
(***************************************************************************)
(* Traffic to a hosted app: load_balance (server/app/blueprints/serve.py)  *)
(* puts a request on the queue of its deployment and waits; a node that    *)
(* serves the deployment (Hosting) takes it in its long-poll, proxies it   *)
(* to the app and posts the response (node/src/serve.rs).                  *)
(*                                                                         *)
(* A poll whose node has crashed goes on in the server until it times out: *)
(* a ghost, which may still take a request nobody will handle.             *)
(***************************************************************************)
EXTENDS Hosting

CONSTANTS
  Requests,
  PidOf,    \* the deployment each request is for
  NoRequest

ASSUME RequestAssumption ==
  /\ PidOf \in [Requests -> Pids]
  /\ NoRequest \notin Requests

VARIABLES
  caller,    \* "idle", "waiting", "answered", "timed out" or "refused"
  pending,   \* serve:{pid}:pending
  polled,    \* the active deployments of the poll under way on each node
  handling,  \* the request each node's loop is proxying
  responses, \* requests with an entry in serve:resp:{req_id}
  ghosts     \* pairs <<k, p>>: the poll cut off by crash k still waits on p

requestVars == <<caller, pending, polled, handling, responses, ghosts>>
lbVars == <<hostVars, requestVars>>

HealthyServing(p) ==
  {n \in serving[p] \cap healthy : <<n, p>> \notin silent}

Dequeue(p) == pending' = [pending EXCEPT ![p] = Tail(@)]

----------------------------------------------------------------------------
(* The caller's side: load_balance *)

Arrive(r) ==
  /\ caller[r] = "idle"
  /\ \/ /\ HealthyServing(PidOf[r]) = {}
        /\ caller' = [caller EXCEPT ![r] = "refused"]
        /\ UNCHANGED pending
     \/ /\ HealthyServing(PidOf[r]) # {}
        /\ caller' = [caller EXCEPT ![r] = "waiting"]
        /\ pending' = [pending EXCEPT ![PidOf[r]] = Append(@, r)]
  /\ UNCHANGED <<hostVars, polled, handling, responses, ghosts>>

ReturnResponse(r) ==
  /\ caller[r] = "waiting" /\ r \in responses
  /\ caller' = [caller EXCEPT ![r] = "answered"]
  /\ responses' = responses \ {r}
  /\ UNCHANGED <<hostVars, pending, polled, handling, ghosts>>

\* The wait is over; the request stays in its queue.
GiveUpWaiting(r) ==
  /\ caller[r] = "waiting" /\ r \notin responses
  /\ caller' = [caller EXCEPT ![r] = "timed out"]
  /\ UNCHANGED <<hostVars, pending, polled, handling, responses, ghosts>>

\* A queue nobody adds to reaches its TTL long after its callers gave up.
ExpirePending(p) ==
  /\ pending[p] # <<>>
  /\ \A i \in 1..Len(pending[p]) : caller[pending[p][i]] = "timed out"
  /\ pending' = [pending EXCEPT ![p] = <<>>]
  /\ UNCHANGED <<hostVars, caller, polled, handling, responses, ghosts>>

RemoveDeployment(p) ==
  /\ Remove(p)
  /\ pending' = [pending EXCEPT ![p] = <<>>]
  /\ UNCHANGED <<caller, polled, handling, responses, ghosts>>

----------------------------------------------------------------------------
(* The node's side *)

StartPoll(n) ==
  /\ Poll(n) /\ handling[n] = NoRequest
  /\ polled' = [polled EXCEPT ![n] = apps[n] \ stop'[n]]
  /\ UNCHANGED <<caller, pending, handling, responses, ghosts>>

EndPoll(n) ==
  /\ PollDone(n)
  /\ \A p \in polled[n] : pending[p] = <<>>
  /\ polled' = [polled EXCEPT ![n] = {}]
  /\ UNCHANGED <<caller, pending, handling, responses, ghosts>>

\* Faulty: the request is read but left at the head of its queue.
TakeWithoutPop(n) ==
  /\ PollDone(n)
  /\ \E p \in polled[n] :
       /\ pending[p] # <<>>
       /\ handling' = [handling EXCEPT ![n] = Head(pending[p])]
  /\ polled' = [polled EXCEPT ![n] = {}]
  /\ UNCHANGED <<caller, pending, responses, ghosts>>

\* The answer carries a request, unless the answer is lost; the loop stops
\* what it was told to and drops a request for an app it no longer has.  A
\* request whose hash has expired comes back as no request.
TakeRequest(n) ==
  /\ PollDone(n)
  /\ \E p \in polled[n] :
       /\ pending[p] # <<>>
       /\ Dequeue(p)
       /\ LET r == Head(pending[p])
              delivered == losses' = losses /\ p \in apps'[n]
          IN  \/ /\ delivered
                 /\ handling' = [handling EXCEPT ![n] = r]
              \/ /\ ~delivered \/ caller[r] = "timed out"
                 /\ UNCHANGED handling
  /\ polled' = [polled EXCEPT ![n] = {}]
  /\ UNCHANGED <<caller, responses, ghosts>>

\* nodes_response: the answer waits for its caller, if there still is one.
Deliver(r) == responses' = responses \cup {r}

\* send_response tries once.
Respond(r) ==
  \/ Deliver(r) /\ UNCHANGED losses
  \/ Lose /\ UNCHANGED responses

\* Faulty: an app that cannot handle the request answers nothing.
HandleOrForget(n) ==
  /\ loop[n] # "down" /\ handling[n] # NoRequest
  /\ handling' = [handling EXCEPT ![n] = NoRequest]
  /\ responses' \in {responses, responses \cup {handling[n]}}
  /\ UNCHANGED <<hostVars, caller, pending, polled, ghosts>>

\* Whatever the app does, 502 included, there is an answer to send.
Handle(n) ==
  /\ loop[n] # "down" /\ handling[n] # NoRequest
  /\ handling' = [handling EXCEPT ![n] = NoRequest]
  /\ Respond(handling[n])
  /\ UNCHANGED <<serverVars, nodeVars, crashes, caller, pending, polled, ghosts>>

CrashNode(n) ==
  /\ Crash(n)
  /\ ghosts' = ghosts \cup ({crashes'} \X polled[n])
  /\ polled' = [polled EXCEPT ![n] = {}]
  /\ handling' = [handling EXCEPT ![n] = NoRequest]
  /\ UNCHANGED <<caller, pending, responses>>

GhostTakes(k, p) ==
  /\ <<k, p>> \in ghosts /\ pending[p] # <<>>
  /\ Dequeue(p)
  /\ ghosts' = {g \in ghosts : g[1] # k}
  /\ UNCHANGED <<hostVars, caller, polled, handling, responses>>

GhostEnds(k) ==
  /\ \E g \in ghosts : g[1] = k
  /\ ghosts' = {g \in ghosts : g[1] # k}
  /\ UNCHANGED <<hostVars, caller, pending, polled, handling, responses>>

----------------------------------------------------------------------------

LBInit ==
  /\ HostingInit
  /\ caller = [r \in Requests |-> "idle"]
  /\ pending = [p \in Pids |-> <<>>]
  /\ polled = [n \in Nodes |-> {}]
  /\ handling = [n \in Nodes |-> NoRequest]
  /\ responses = {}
  /\ ghosts = {}

CallerStep(r) == Arrive(r) \/ ReturnResponse(r) \/ GiveUpWaiting(r)

ServeStep(n) == StartPoll(n) \/ EndPoll(n) \/ TakeRequest(n) \/ Handle(n)
                  \/ CrashNode(n)

\* The steps of Hosting that no request is involved in.
Quiet(n) ==
  \/ Boot(n) \/ Beat(n) \/ GoStale(n)
  \/ handling[n] = NoRequest /\ (ClaimAssignment(n) \/ SkipPoll(n))
  \/ \E p \in Pids : FallSilent(n, p) \/ StartStep(n, p)

LBNext ==
  \/ \E r \in Requests : CallerStep(r)
  \/ \E p \in Pids : RemoveDeployment(p) \/ ExpirePending(p)
  \/ \E n \in Nodes : ServeStep(n)
  \/ \E k \in 1..MaxCrashes : GhostEnds(k) \/ \E p \in Pids : GhostTakes(k, p)
  \/ /\ \/ \E p \in Pids : Deploy(p) \/ Reap(p)
        \/ \E n \in Nodes : Quiet(n)
     /\ UNCHANGED requestVars

\* The loop of a running node goes on, and a response that is there is
\* returned.  Nothing forces a caller to give up.
LBFairness ==
  /\ \A n \in Nodes :
       WF_lbVars(\/ StartPoll(n) \/ EndPoll(n) \/ TakeRequest(n) \/ Handle(n)
                 \/ /\ handling[n] = NoRequest /\ (ClaimAssignment(n) \/ SkipPoll(n))
                    /\ UNCHANGED requestVars)
  /\ \A r \in Requests : WF_lbVars(ReturnResponse(r))

LBSpec == LBInit /\ [][LBNext]_lbVars /\ LBFairness

----------------------------------------------------------------------------
(* Properties *)

\* What the requests, the queues and the polls can be; a poll waits, and a
\* loop proxies, at one place of the loop only.
LBTypeOK ==
  /\ caller \in [Requests -> {"idle", "waiting", "answered", "timed out", "refused"}]
  /\ pending \in [Pids -> Seq(Requests)]
  /\ polled \in [Nodes -> SUBSET Pids]
  /\ handling \in [Nodes -> Requests \cup {NoRequest}]
  /\ responses \subseteq Requests
  /\ ghosts \subseteq (1..MaxCrashes) \X Pids
  /\ \A n \in Nodes : polled[n] # {} => loop[n] = "wait"
  /\ \A n \in Nodes : handling[n] # NoRequest => loop[n] = "claim"

Queued(r) == \E i \in 1..Len(pending[PidOf[r]]) : pending[PidOf[r]][i] = r
Handled(r) == \E n \in Nodes : handling[n] = r

\* Every request is in one place at most: no node proxies a request that
\* another proxies, that is still queued, or that has its response already
\* (the app would run a POST twice).
HandedOutOnce ==
  /\ \A n, m \in Nodes : handling[n] = handling[m] /\ n # m => handling[n] = NoRequest
  /\ \A r \in Requests :
       /\ Handled(r) => ~Queued(r) /\ r \notin responses
       /\ Queued(r) => r \notin responses /\ caller[r] \in {"waiting", "timed out"}

\* A caller who is still waiting for a deployment that was not removed has
\* been forgotten only if a crash or a lost message took its request, and
\* each of these takes one request at most.
LossesAreAccounted ==
  Cardinality({r \in Requests :
                 /\ caller[r] = "waiting" /\ dep[PidOf[r]] # "removed"
                 /\ ~Queued(r) /\ ~Handled(r) /\ r \notin responses})
    <= crashes + losses

\* Until a crash or a loss a caller patient enough gets its answer, as long as
\* the deployment is not stopped: its request does not wait for ever behind
\* others, or in a queue no node polls.
PatientCallersAnswered ==
  \A r \in Requests :
    caller[r] = "waiting"
      ~> caller[r] # "waiting" \/ dep[PidOf[r]] # "running" \/ crashes + losses > 0

----------------------------------------------------------------------------
(* What callers are promised: RequestLifecycle *)

\* Where a request is, from the queues, the loops and the responses.
PlaceOf(r) ==
  IF caller[r] = "idle" THEN "new"
  ELSE IF caller[r] = "refused" THEN "refused"
  ELSE IF Queued(r) THEN "queued"
  ELSE IF Handled(r) THEN "proxied"
  ELSE IF r \in responses \/ caller[r] = "answered" THEN "answered"
  ELSE "lost"

placeOfRequest == [r \in Requests |-> PlaceOf(r)]
proxiesOfRequest == [r \in Requests |-> {n \in Nodes : handling[n] = r}]

AtMostOnce == INSTANCE RequestLifecycle
                WITH place <- placeOfRequest, proxies <- proxiesOfRequest

\* A request is run once at most in its whole life, by one node, and a caller
\* gets an answer only from that node (enqueue_request, claim_request,
\* submit_response, serve_loop): ghosts, late answers, expiries and nodes that
\* come back never put it where it has been before.
RequestsRunOnce == AtMostOnce!Spec
============================================================================
