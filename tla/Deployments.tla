----------------------------- MODULE Deployments -----------------------------
(***************************************************************************)
(* Accounts, their API keys and what is deployed under them                *)
(* (blueprints/api.py, deploy.py, serve.py, start.py and usage.py,         *)
(* utils/auth.py), as the machines of several users reach them with the    *)
(* key each has stored.  A deployment belongs to the key it was made with: *)
(* access to it, its quota and its usage all follow from whoever owns that *)
(* key now.  A hosted app is a row in the database and an entry in Redis,  *)
(* written one after the other.                                            *)
(*                                                                         *)
(* A key and a pid are random: one that is generated is new, and they are  *)
(* numbered here in the order they were generated in.                      *)
(***************************************************************************)
EXTENDS Integers, FiniteSets

CONSTANTS
  Machines,
  Users, UserOf,  \* who uses each machine
  Nobody,
  MaxKeys, MaxPids, MaxLogins  \* bounds: keys, deployments, logins

ApiKeys == 1..MaxKeys
Pids == 1..MaxPids

ASSUME DeploymentsAssumption ==
  /\ UserOf \in [Machines -> Users] /\ Nobody \notin Users \cup ApiKeys
  /\ MaxKeys \in Nat /\ MaxPids \in Nat /\ MaxLogins \in Nat

VARIABLES
  owner,      \* user_api_rel: the user of each key
  held,       \* the key each machine has stored, live or not
  request,    \* the request of each machine, with what it has read
  rows,       \* deployments: the key each was made with
  hosted,     \* the apps in Redis
  told,       \* the pids that users have been given
  jobs,       \* who started a job of which deployment
  maker,      \* history: who asked for each deployment
  revoked,    \* history: the deployments whose maker has rotated keys since
  generated,  \* history: how many keys have been generated
  logins

accounts == <<owner, held, generated, logins>>
deploymentsVars == <<owner, held, request, rows, hosted, told, jobs, maker,
                     revoked, generated, logins>>

Requests ==
  [op : {"login"}, rotate : BOOLEAN, drop : SUBSET ApiKeys]
    \cup [op : {"deploy", "serve", "host"}, key : ApiKeys, pid : Pids]
    \cup [op : {"start", "unhost", "delete"}, pid : Pids]

KeysOf(u) == {k \in ApiKeys : owner[k] = u}
Waiting(m, op) == request[m] # Nobody /\ request[m].op = op
Proceed(m, r) == request' = [request EXCEPT ![m] = r]
Answer(m) == Proceed(m, Nobody)

\* require_user_api_key
Authenticated(m) ==
  /\ request[m] = Nobody
  /\ held[m] # Nobody /\ owner[held[m]] # Nobody

\* serve_list: the apps made with the key that asks, not those of its account.
Listed(m) == {p \in hosted : rows[p] = held[m]}

\* ensure_deployment_access: whoever owns the deployment's key is its owner.
MayAccess(m, p) == rows[p] # Nobody /\ owner[rows[p]] = UserOf[m]

----------------------------------------------------------------------------
(* Keys *)

\* The account has a key: it is handed out once more.
LoginWithKey(m) ==
  /\ request[m] = Nobody /\ logins < MaxLogins
  /\ \E k \in KeysOf(UserOf[m]) : held' = [held EXCEPT ![m] = k]
  /\ logins' = logins + 1
  /\ UNCHANGED <<owner, request, rows, hosted, told, jobs, maker, revoked, generated>>

\* Faulty: replaces the keys of the account whether asked to or not.
LoginAnew(m, rotate) ==
  /\ request[m] = Nobody /\ logins < MaxLogins
  /\ Proceed(m, [op |-> "login", rotate |-> rotate, drop |-> KeysOf(UserOf[m])])
  /\ logins' = logins + 1
  /\ UNCHANGED <<owner, held, rows, hosted, told, jobs, maker, revoked, generated>>

\* _issue_api_key finds which keys there are before it writes.
Login(m, rotate) ==
  /\ request[m] = Nobody /\ logins < MaxLogins
  /\ rotate \/ KeysOf(UserOf[m]) = {}
  /\ Proceed(m, [op |-> "login", rotate |-> rotate, drop |-> KeysOf(UserOf[m])])
  /\ logins' = logins + 1
  /\ UNCHANGED <<owner, held, rows, hosted, told, jobs, maker, revoked, generated>>

\* Deletes those and adds a new one in a single transaction; another login
\* may have done the same since.
IssueKey(m) ==
  /\ Waiting(m, "login")
  /\ generated < MaxKeys /\ generated' = generated + 1
  /\ owner' = [k \in ApiKeys |->
                  IF k = generated' THEN UserOf[m]
                  ELSE IF k \in request[m].drop THEN Nobody ELSE owner[k]]
  /\ held' = [held EXCEPT ![m] = generated']
  /\ revoked' = revoked \cup
       {p \in Pids : request[m].rotate /\ maker[p] = UserOf[m]}
  /\ Answer(m)
  /\ UNCHANGED <<rows, hosted, told, jobs, maker, logins>>

----------------------------------------------------------------------------
(* Deployments and hosted apps *)

\* What deploy_project returns; from then on the pid is passed around.
Tell(m) == told' = told \cup {request[m].pid}

NewPid == Cardinality({p \in Pids : maker[p] # Nobody}) + 1

\* The key is read before the row is made.
Begin(m, op) ==
  /\ Authenticated(m)
  /\ NewPid \in Pids
  /\ maker' = [maker EXCEPT ![NewPid] = UserOf[m]]
  /\ Proceed(m, [op |-> op, key |-> held[m], pid |-> NewPid])
  /\ UNCHANGED <<accounts, rows, hosted, told, jobs, revoked>>

BeginDeploy(m) == Begin(m, "deploy")
BeginServe(m) == Begin(m, "serve")

\* The row is committed; that of an app before Redis hears of it.
CommitRow(m) ==
  /\ \/ /\ Waiting(m, "deploy")
        /\ Tell(m)
        /\ Answer(m)
     \/ /\ Waiting(m, "serve")
        /\ Proceed(m, [request[m] EXCEPT !.op = "host"])
        /\ UNCHANGED told
  /\ rows' = [rows EXCEPT ![request[m].pid] = request[m].key]
  /\ UNCHANGED <<accounts, hosted, jobs, maker, revoked>>

\* From here on the app is in the user's list, answered or not.
HostApp(m) ==
  /\ Waiting(m, "host")
  /\ hosted' = hosted \cup {request[m].pid}
  /\ Tell(m)
  /\ Answer(m)
  /\ UNCHANGED <<accounts, rows, jobs, maker, revoked>>

\* A job may be given the pid of anybody's deployment.
BeginStart(m, p) ==
  /\ Authenticated(m) /\ p \in told
  /\ Proceed(m, [op |-> "start", pid |-> p])
  /\ UNCHANGED <<accounts, rows, hosted, told, jobs, maker, revoked>>

StartJob(m) ==
  /\ Waiting(m, "start") /\ MayAccess(m, request[m].pid)
  /\ jobs' = jobs \cup {<<UserOf[m], request[m].pid>>}
  /\ Answer(m)
  /\ UNCHANGED <<accounts, rows, hosted, told, maker, revoked>>

\* serve_remove: without a row nobody is asked whose it is.
BeginRemove(m, p) ==
  /\ Authenticated(m) /\ p \in told
  /\ rows[p] = Nobody \/ MayAccess(m, p)
  /\ Proceed(m, [op |-> "unhost", pid |-> p])
  /\ UNCHANGED <<accounts, rows, hosted, told, jobs, maker, revoked>>

\* Faulty: the row goes first.
DeleteRowFirst(m) ==
  /\ Waiting(m, "unhost")
  /\ rows' = [rows EXCEPT ![request[m].pid] = Nobody]
  /\ Proceed(m, [request[m] EXCEPT !.op = "delete"])
  /\ UNCHANGED <<accounts, hosted, told, jobs, maker, revoked>>

\* Redis first,
Unhost(m) ==
  /\ Waiting(m, "unhost")
  /\ hosted' = hosted \ {request[m].pid}
  /\ Proceed(m, [request[m] EXCEPT !.op = "delete"])
  /\ UNCHANGED <<accounts, rows, told, jobs, maker, revoked>>

\* then the row, if it is still there.
DeleteRow(m) ==
  /\ Waiting(m, "delete")
  /\ rows' = [rows EXCEPT ![request[m].pid] = Nobody]
  /\ Answer(m)
  /\ UNCHANGED <<accounts, hosted, told, jobs, maker, revoked>>

\* An error, a refusal, or the end of the server: what is committed stays.
BreakOff(m) ==
  /\ request[m] # Nobody
  /\ Answer(m)
  /\ UNCHANGED <<accounts, rows, hosted, told, jobs, maker, revoked>>

DeploymentsInit ==
  /\ owner = [k \in ApiKeys |-> Nobody]
  /\ held = [m \in Machines |-> Nobody]
  /\ request = [m \in Machines |-> Nobody]
  /\ rows = [p \in Pids |-> Nobody]
  /\ hosted = {} /\ told = {} /\ jobs = {}
  /\ maker = [p \in Pids |-> Nobody]
  /\ revoked = {} /\ generated = 0 /\ logins = 0

DeploymentsNext == \E m \in Machines :
  \/ LoginWithKey(m) \/ IssueKey(m)
  \/ \E rotate \in BOOLEAN : Login(m, rotate)
  \/ BeginDeploy(m) \/ BeginServe(m)
  \/ CommitRow(m) \/ HostApp(m)
  \/ \E p \in Pids : BeginStart(m, p) \/ BeginRemove(m, p)
  \/ StartJob(m) \/ Unhost(m) \/ DeleteRow(m) \/ BreakOff(m)

DeploymentsSpec == DeploymentsInit /\ [][DeploymentsNext]_deploymentsVars

----------------------------------------------------------------------------
(* Properties *)

\* The type of every variable.
DeploymentsTypeOK ==
  /\ owner \in [ApiKeys -> Users \cup {Nobody}]
  /\ held \in [Machines -> ApiKeys \cup {Nobody}]
  /\ request \in [Machines -> Requests \cup {Nobody}]
  /\ rows \in [Pids -> ApiKeys \cup {Nobody}]
  /\ hosted \subseteq Pids /\ told \subseteq Pids /\ revoked \subseteq Pids
  /\ jobs \subseteq Users \X Pids
  /\ maker \in [Pids -> Users \cup {Nobody}]
  /\ generated \in 0..MaxKeys /\ logins \in 0..MaxLogins

\* "Limits are per user account. A user may hold several API keys"
\* (usage.py:7-8): a deployment stays that of its maker, whichever keys the
\* account has been given and whatever other accounts do: jobs are started
\* and charged on the maker's account only, and nothing but a rotation, which
\* may fall between the reading of the key and the commit of the row, takes
\* the deployment from it.  What a user lists is the user's own.
DeploymentsStayTheirMakers ==
  /\ \A p \in Pids : rows[p] # Nobody /\ p \notin revoked =>
       owner[rows[p]] = maker[p]
  /\ \A p \in Pids : rows[p] # Nobody => owner[rows[p]] \in {maker[p], Nobody}
  /\ \A j \in jobs : maker[j[2]] = j[1]
  /\ \A m \in Machines, p \in Pids :
       held[m] # Nobody /\ p \in Listed(m) => maker[p] = UserOf[m]

\* An app in Redis has its row in the database, without which its maker could
\* not list it and anybody could remove it: the row is written before the
\* entry (serve.py:62-70) and deleted after it (serve.py:189-200), whoever
\* removes the app at the same time and wherever a request breaks off.
HostedAppsHaveRows == \A p \in hosted : rows[p] # Nobody
=============================================================================
