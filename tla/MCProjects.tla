----------------------------- MODULE MCProjects -----------------------------
(***************************************************************************)
(* What happens to a developer's project: the analysis of its tasks, its   *)
(* builds, and what is deployed under the accounts of its users.  The      *)
(* three share no state, and a behaviour is one of one of them; the others *)
(* stay as they are.                                                       *)
(***************************************************************************)
EXTENDS Analysis, Builds, Deployments, TLC

CONSTANTS
  t1, t2, h1, h2,     \* functions
  s1, s2, t, u,       \* shells, tasks
  c1, c2,             \* sources
  m1, m2, m3, a, b,   \* machines, users
  MaxEdges            \* bound: how often a function names another

VARIABLE part  \* which of the three moves; fixed

\* Two tasks, and other sources of one of them.
MCExports == (c1 :> {t, u}) @@ (c2 :> {t})

\* Two users, one of them with two machines.
MCUserOf == (m1 :> a) @@ (m2 :> a) @@ (m3 :> b)

\* Two shells on one machine; two machines of one user.
Symmetry == Permutations({s1, s2}) \cup Permutations({m1, m2})

Edges == {<<f, g>> : f \in Functions, g \in Functions}
Few == {E \in SUBSET Edges : Cardinality(E) <= MaxEdges}
Graphs0 == {[f \in Functions |-> {g \in Functions : <<f, g>> \in E}] : E \in Few}
Faults0 == {[f \in Functions |-> IF f = g THEN e ELSE {}] :
              g \in Functions, e \in {{}, {"TANDEM004"}, {"TANDEM005"}}}

\* One of the three starts anywhere it may, the others somewhere.
MCInit ==
  /\ part \in {"analysis", "builds", "deployments"}
  /\ calls \in IF part = "analysis" THEN Graphs0 ELSE {[f \in Functions |-> {}]}
  /\ faults \in IF part = "analysis" THEN Faults0 ELSE {[f \in Functions |-> {}]}
  /\ inPlace \in IF part = "builds" THEN SUBSET Shells ELSE {{}}
  /\ source \in IF part = "builds" THEN [Shells -> Sources] ELSE {[s \in Shells |-> c1]}
  /\ NothingKnown /\ NothingBuilt /\ DeploymentsInit

MCNext ==
  \/ /\ part = "analysis" /\ AnalysisNext
     /\ UNCHANGED <<part, vars, deploymentsVars>>
  \/ /\ part = "builds" /\ Next
     /\ UNCHANGED <<part, analysisVars, deploymentsVars>>
  \/ /\ part = "deployments" /\ DeploymentsNext
     /\ UNCHANGED <<part, vars, analysisVars>>

MCSpec == MCInit /\ [][MCNext]_<<part, vars, analysisVars, deploymentsVars>>
=============================================================================
