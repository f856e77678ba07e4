------------------------- MODULE RequestLifecycle -------------------------
(***************************************************************************)
(* What the platform promises of one request to a hosted app, without      *)
(* queues per app, polls, ghosts or responses that wait: it is handed out  *)
(* once, to one node; an answer comes from that node; and what was         *)
(* answered or lost stays so, since nothing is tried a second time.        *)
(***************************************************************************)
CONSTANTS Requests, Nodes

VARIABLES
  place,    \* "new", "refused", "queued", "proxied", "answered" or "lost"
  proxies   \* the nodes that run it

Submit(r) ==
  /\ place[r] = "new"
  /\ \E outcome \in {"queued", "refused"} : place' = [place EXCEPT ![r] = outcome]
  /\ UNCHANGED proxies

HandOut(r) ==
  /\ place[r] = "queued"
  /\ place' = [place EXCEPT ![r] = "proxied"]
  /\ \E n \in Nodes : proxies' = [proxies EXCEPT ![r] = {n}]

Answer(r) ==
  /\ place[r] = "proxied"
  /\ place' = [place EXCEPT ![r] = "answered"]
  /\ proxies' = [proxies EXCEPT ![r] = {}]

\* With a deployment go all the requests that wait for it; a fault takes one.
LoseAll(R) ==
  /\ R # {} /\ \A r \in R : place[r] \in {"queued", "proxied"}
  /\ place' = [r \in Requests |-> IF r \in R THEN "lost" ELSE place[r]]
  /\ proxies' = [r \in Requests |-> IF r \in R THEN {} ELSE proxies[r]]

Init ==
  /\ place = [r \in Requests |-> "new"]
  /\ proxies = [r \in Requests |-> {}]

Next ==
  \/ \E r \in Requests : Submit(r) \/ HandOut(r) \/ Answer(r)
  \/ \E R \in SUBSET Requests : LoseAll(R)

Spec == Init /\ [][Next]_<<place, proxies>>
============================================================================
