# TLA+ specifications of tandem

Tandem runs other people's programs on volunteered machines: a coordination
server (Flask + Redis) hands WebAssembly tasks and web apps to node daemons
(Rust), and a command line (Python) deploys projects, logs users in and manages
the local node.  This directory models the parts of it where order, failure and
concurrency matter, checks them with TLC and proves their safety properties with TLAPS.

    tlc -workers 2 -config TaskQueue_mixed.cfg MCTaskQueue     # one run
    tlapm TaskQueueProofs.tla                                  # one module's proofs

`PROJECT.json` lists the components, the runs, for every definition the source
lines it stands for, and for every property a faulty variant of a definition
(the operators whose comment begins with "Faulty") that breaks it.

## 1. The system

| Component | State it keeps | Operations | Hard behaviour |
|---|---|---|---|
| Task queue (`server/app/utils/task_queue.py`) | Redis: `nodes`, `node:{id}`, `node:{id}:queue`, `tasks:unassigned[:wasm]`, `task:{id}`, `job:{id}`; SQL: `TaskEncryptionKey` | create job and tasks, claim, download, complete, fail, requeue, drain, refresh job status | nodes that die with work, heartbeats that come late, several server processes, TTLs, no transactions |
| Compute endpoints (`blueprints/start.py`) | none of its own | start a job, poll it, fetch results | tasks are created one at a time while nodes already run the first |
| Node endpoints (`blueprints/nodes.py`) | bad-receipt counters | register, heartbeat, claim, download, report | authenticated by node id and claim token; late and repeated reports |
| Sweeper (`utils/sweeper.py`) | `sweeper:lock` | a pass every few seconds | one per server process, a lock with a TTL |
| Node daemon (`node/src/worker.rs`, `health.rs`, `main.rs`) | position in its loop, the claimed task | poll, fetch, run, report; heartbeat | crash at any point, lost replies, one attempt to report |
| Hosting registry (`utils/serve_queue.py`, `blueprints/serve.py`) | `serve:{pid}`, `serve:{pid}:nodes`, `node:{id}:serve` | deploy, assign, reap, fail, remove | replicas counted from reports that arrive late |
| Hosting on the node (`node/src/serve.rs`) | running apps, start tasks, given-up set | claim an assignment, start with retries, long-poll, stop | start tasks run beside the loop |
| Traffic to apps (`load_balance`, `nodes_next`) | `serve:{pid}:pending`, `serve:resp:{req}` | enqueue, hand out, answer, time out | polls whose node is gone, callers who give up |
| Rate limits, quota (`blueprints/auth.py`, `utils/quota.py`) | counters with a TTL | count, check, charge | count and expiry are separate commands |
| Accounts and sessions (`blueprints/auth.py`, `api.py`) | `session:{user}:{jti}`, API keys | login, refresh, logout, logout of all, key rotation | SCAN beside logins and refreshes |
| CLI credentials (`cli/auth.py`) | keyring, `credentials.json` | login, refresh, logout | several commands at once, a file rewritten whole |
| Node service (`cli/node_service.py`, `node/src/registration.rs`) | `node.pid`, unit file, `node_key.pem`, `node.json` | start, stop, restart, enable, disable, register | stale pids, pid reuse, zombies, interrupted commands |
| Blobs, results, purge (`task_queue.py`, `scripts/purge_orphans.py`) | files beside Redis | write, read, purge | files and Redis entries made at different times |
| Futures of the SDK (`sdk/python-sdk/tandem/rpc.py`, `future.py`) | what a future holds | submit, poll, collect | split jobs, results by task name, asked for at any time |
| Static analysis (`cli/analysis.py`) | cache of helpers, stack | analyse a task, a helper | recursion, a cache filled in the middle of a walk |
| Builds (`cli/build.py`, `sdk/core/src`) | output directory, manifest, compile cache | inspect, build, clean, compile | sources that change, builds that overlap or die |
| Deployments (`blueprints/deploy.py`, `serve.py`, `api.py`, `utils/auth.py`) | rows, API keys | deploy, host, list, start, remove, log in, rotate | ownership through keys that are replaced, a row and a Redis entry per app |
| Usage, desktop pages, transpiler of the SDK, executor, installers | nothing | single requests or calls | little |

How they interact.  The CLI and the SDK talk HTTP to the server; nodes poll the
server (claims, heartbeats, serve assignments, app requests) and are never called
by it.  All server processes share one Redis and no lock but the sweeper's.  The
task queue and the hosting registry both read `last_seen` of the nodes: a node is
healthy while it is younger than `NODE_STALE_SECONDS`.

What makes each component correct: no task is lost, run under two live claims, or
decided twice (task queue); what is recorded as done was done (compute); an app
that is deployed comes up and one that is removed goes away (hosting); a request
is proxied once and lost only to a failure (traffic); limits are neither exceeded
nor permanent (counters); what is reported as revoked or logged out is (sessions);
one node per machine, found again by every command (node service).  A payload is
there as long as it is needed and not for ever, and a future gets a value that was
computed (jobs); verdicts that do not depend on the order of the walk (analysis);
what is run is what was built, under its own name (builds); what is deployed stays its
maker's (deployments).

## 2. The modules

    TaskLifecycle      abstract: the life of a task
        ^ implemented by TaskQueue (PromiseSpec) and, short of a race,
        | by the commands of RedisQueue (PromiseUnlessRaced)
    TaskQueue  <-------- TaskQueueProofs
        ^ EXTENDS               ^ EXTENDS
    Compute    <-------- ComputeProofs       workers, heartbeats, crashes, lost messages
    RedisQueue <-------- RedisQueueProofs    the operations of TaskQueue, one Redis
                                             command at a time

    Hosting    registry, assignment, serve loops
        ^ EXTENDS
    LoadBalancer <------ LoadBalancerProofs  requests to hosted apps; both modules
        | implements (RequestsRunOnce)
    RequestLifecycle   abstract: the life of a request

    Jobs       <-------- JobsProofs          one split call: future, start request,
                                             files, nodes, purge script

    Analysis, Builds, Deployments <-- ProjectsProofs
        (MCProjects runs these three, which share no state, side by side)

    Sessions, WindowCounters  <------ AuthProofs
    NodeService               <------ NodeServiceProofs

`MCx` instantiates `x` for TLC.

**TaskQueue.**  One action per handler or, where a handler loops, per turn of its
loop.  `Start` is the plan of a start request, `CreateTask` each `create_task`,
`FinishStart` its response; `RequeueStale`, `BeginDrain`, `DrainOne`, `EndDrain`
are the sweep; `DropEntry`, `Claim`, `ClaimNothing` the outcomes of
`claim_task_for_node`, enabled only once its leading `requeue_stale_tasks` has
nothing left to do; `Download`, `Complete`, `Fail`, `RejectReceipt` the
authenticated requests of a worker; `Expire` the TTL of a task key.  Time appears
only as `fresh`, the nodes whose heartbeat is recent.  Task hashes, queues and the
job status are kept field by field; payloads, results and wording are not.

**Compute** composes TaskQueue with the worker loop of each node (`worker[n]` is
its place in `task_loop` and what it holds), the heartbeat loop, crashes and lost
messages.  A request and its handling are one step; its reply may be lost.  The
key that comes with a payload is the node it was wrapped for, so running a payload
with somebody else's key fails, as ciphertext does.

**RedisQueue** refines the grain of TaskQueue: every thread has a program counter
and a copy of what it read, and writes commands later.  `sees` and `raced` are
history: `raced` turns true when a thread writes a row that changed since it read
it.  One runtime, registered nodes.  It also holds the sweeper's lock with TTL.

**Hosting, LoadBalancer.**  A handler is a step; a long-poll is two, the server's
view at its beginning (`Poll`) and the node's reaction (`PollDone`).  A start task
counts its attempts in `starting`; an attempt is two steps, the download of the bundle
(`Download`, noted in `fetched`) and the entry of the app in the node's table (`StartUp`),
which looks at nothing any more, so a removal or a failure reported by another node may
fall in between.  `Flaky` says on which node an app may fail to come up; each attempt
there may go either way.  LoadBalancer conjoins request queues to
Hosting's actions; a poll cut off by a crash lives on as a *ghost* that may still
pop a request.

**Jobs.**  A call of a function that is split over shards, from `submit_task` to the value
in the future.  `start` is the program counter of the request, which writes the
payload, overwrites it with its ciphertext and makes the row, shard by shard; `disk`
and `dirs` are what other processes find meanwhile.  `purge` is the script, with the
list of files and the clock it took at its beginning.  Rows expire by `Tick`, on their
own schedules, and reports may come after that.  Which node runs a shard is
TaskQueue's matter and left open.

**Analysis.**  A program is which functions name which, and which errors each body has;
both are chosen at the start.  `stack` holds the calls of `_analyze_function` under way,
each with the functions it has still to look at; `known` is `_helper_cache`.  A task
named by another function is its decorator's wrapper (`Wrapped`).  The reference,
`Independent`, is the least set that contains every helper without an error all of whose
uses are in it (`Closed`).

**Builds.**  A build is a program counter per shell over the checkout, the staged copy,
the output directory and the cache, which all shells share.  `fs::write` is three
steps (truncate, some, rest), so others may find an empty file or its beginning.
Sources have no text: an artifact is the task it is for and the sources it is from.
`Execute` is what a node makes of the file.

**Deployments.**  Each machine has at most one request under way, with what it has read
so far; the writes of a request are steps of their own.  Keys and pids are numbered as
they are generated.  `maker` and `revoked` are history.

**WindowCounters.**  Counters with a TTL in ticks; threads may die between INCR and
EXPIRE.  `recent` is history: what was let in over the last 1, 2, ...
ticks, up to a window.

**Sessions.**  Sessions are numbered; an access token is identified with the session
it came from.  The account need not exist yet: two registrations may race for it.  The CLI's store is changed one field at a time: a keyring write is
one step, a file write is a read and a rewrite of the whole; who comes in between may
find the file empty (`Torn`, `Found`).  A machine has a
working keyring or has none (`Machines`).

**NodeService.**  A CLI command is a sequence of phases (`Phases`) of a few steps
each over the process table, the pid file, the unit file and the saved identity.
Nodes end, machines reboot, pids go to other programs, a child that nobody waits
for stays a zombie.  Every `systemctl` call may fail; where the code does not look
(`stop` and `disable --now`), the service goes on and `unheard`, a history variable,
says so until a stop succeeds or the machine reboots.

## 3. The runs

| Run | Instance | Properties | States |
|---|---|---|---|
| `taskqueue` | 2 nodes, only the first with WebAssembly and a key; a WebAssembly and a cloudpickle job; 3 claims; 2 bad receipts; one key may expire | `TypeOK` `QueuedIsReachable` `NoStrayEntry` `ActiveIsTracked` `TokensAreLive` `PlacedWhereRunnable` `PromiseSpec` | 898 069 |
| `compute_network` | 2 nodes, one job of 2 tasks (one always fails), 5 claims, 1 crash, 1 lost message, a live node that goes stale, a node with bad receipts, an expiring key | `ClaimsAreOwn` `CompletedHonestly` `JobVerdictIsFinal` `TasksAreDecided` | 476 234 |
| `compute_key` | 1 crash, healthy programs | *violates* `OnlyProgramsFail` | |
| `hosting` | 1 app, 2 nodes; on the first any start may fail, and it may crash twice; both may stall; 2 lost messages | `StartedOnce` `GoneAppsStop` `AppsComeUp` | 121 559 |
| `loadbalancer` | 2 requests, 1 app on 2 nodes, the first of which may crash once, 1 loss | `LossesAreAccounted` `RequestsRunOnce` `PatientCallersAnswered` | 730 418 |
| `redis_race` | 2 request threads, 2 sweepers, 1 task, 1 dying thread, an impatient node | `NoTaskLost` `HandledOnce` `OneSweeper` `PromiseUnlessRaced` | 2 960 148 |
| `redis_late` | 1 request thread, 1 sweeper | *violates* `FinishedStaysPut` | |
| `jobs` | 2 shards, one of which may fail; results kept less than 1 tick, rows 2 | `PayloadsAreKept` `ValuesAreComputed` `FuturesResolve` `FilesAreReclaimed` | 463 304 |
| `projects` | 2 tasks and 2 helpers with up to 4 uses and one faulty function; 2 shells, 2 tasks, 2 sources, 1 edit, 1 crash; 2 users on 3 machines, 3 keys, 2 deployments, 3 logins | `CleanIsClosed` `VerdictsAreRight` `BuildsGetTheirOwn` `TornHasAWriter` `ManifestFits` `DeploymentsStayTheirMakers` `HostedAppsHaveRows` | 2 113 512 |
| `windows` | 1 limiter, 1 quota, 2 threads, window of 3 ticks, 1 crash | `BurstsAreBounded` `WindowsReset` | 145 458 |
| `sessions` | 2 commands, 1 request to revoke all, 2 sessions, 1 fault, an account to be registered, both kinds of machine | `SessionRevoked` `LoggedOutStaysOut` | 5 534 902 |
| `node_commands` | 1 shell, 3 pids, 3 key pairs, 2 crashes or reboots, 2 strangers, 2 failures (of the server or of `systemctl`), 1 interruption | `OneNode` `NodesAreTracked` `StoppedMeansStopped` `KeyFitsIdentity` | 1 314 171 |

Why these bounds are enough to meet the interesting cases.  Two nodes are one to
fail and one to take over, and every loop over the nodes distinguishes only
"this", "the first other" and "none".  Two tasks are needed for a node to be
tempted into a second claim and for a job to be done but for one task.  Three to
five claims let a task be claimed, lost, claimed again and reported late.  Two
crashes let a node crash again after it came back: in `hosting` the node that serves the
app dies, or falls silent, the other takes over, and the first comes back, is assigned the
app again and dies again.  Two threads suffice for the
Redis races, which are all between a pair; the sweeper is a third.  In the window
counters three ticks leave room for a burst at each end of a window.  In Sessions
the second session is the login that follows or overlaps a logout.  Three pids are
a tracked node, a stranger that took its old pid, and a new node.

Bounds are guards named `Max...` in the modules.  `MaxClaims` stops claims, not
states; `TasksAreDecided` holds because crashes and losses are exhausted before the
claims are.  Symmetry is used for threads and commands, in runs without liveness.
Deadlock is checked in every run but `projects`, where an analysis ends with its last
task.

Further bounds: in `jobs`, two shards are one that the future takes and one it passes
over, rows live as long as it takes for a poll, a report and the script to fall on
either side of their end, and with a retention of 0 the ticks only tell "old enough"
from "not".  In `projects`, two tasks and two helpers contain every way of meeting a
cycle: from within, from outside, twice, from two tasks, or in a task that is itself
used as a helper; one edit falls between any two steps of either build, one crash after
any of them; three keys are a key, its replacement and the one of the other user, or of
a first login that raced another.

Every module has a type invariant.  That of TaskQueue is an invariant of its run; all of
them are proved, for every value of the constants.

### Fairness

* `Compute!Fairness`: the sweeper runs on a timer (`_run_loop`); a worker loop and a
  heartbeat loop never stop while the process lives; a start request that began goes
  on; a node that stays down is found stale; only nodes in `Reliable` are sure to be
  started.  Nothing obliges a user to submit a job or a message to get lost.
* `Hosting!HostingFairness`: the reaper's timer, the serve loop and start tasks of a
  running node, heartbeats, ageing of reports.
* `LoadBalancer!LBFairness`: the serve loop of a running node and the return of a
  response that is there; callers are never obliged to give up.
* `WindowCounters!CountersFairSpec`: the clock, and requests that began go on.
* `Jobs!FairSpec`: requests and reports that began end (one way or another), nodes take
  tasks, the caller waits in `result()`, and the operator runs the script again and
  again.  That time passes is an assumption of `FilesAreReclaimed` alone.

All of it is weak fairness: each of these keeps being enabled until it happens.

## 4. What is proved

**The task queue.**  `TaskQueueProofs` proves, for any number of nodes, jobs, tasks and claims, under
`ConstantsAssumption` alone (types of the constants, two distinct runtimes that
are not node numbers, thresholds that are naturals):

| Theorem | Statement |
|---|---|
| `TypeCorrect` | `Spec => []TypeOK` |
| `QueuedTasksReachable` | `Spec => []QueuedIsReachable` |
| `EntriesUnique` | `Spec => []NoStrayEntry` |
| `WorkTracked` | `Spec => []ActiveIsTracked` |
| `TokensLive` | `Spec => []TokensAreLive` |
| `JobVerdictsFinal` | `Spec => []JobVerdictIsFinal` |
| `VerdictsKept` | `Spec => VerdictIsKept`: no recorded verdict is undone |
| `PlacedRunnable` | `Spec => []PlacedWhereRunnable` |
| `QueueKeepsPromise` | `Spec => PromiseSpec`: TaskQueue implements TaskLifecycle |

The inductive invariant is `Inv`.  `QueuedIsReachable` alone is not inductive: a
claim that drops a stale entry, or a drain that skips one, loses a queued task
unless entries are unique and belong to queued or expired tasks (`NoStrayEntry`).
That in turn needs every requeue of work in progress to find no entry of the task,
and to be the only requeue of it: `ActiveIsTracked` ties a task in progress to the
`current_task` of its node, and `TokensAreLive` makes a report or a rejected receipt
come from the claim that is current.  `TokensIssued` makes new tokens new, and
`JobPhases` says which tasks of a job exist yet.  The argument is one lemma per
action (`RequeueStaleInv`, `DrainInv`, `TakeInv`, `SettleInv`, ...), over three
lemmas on queues: a pop removes the only entry of a task, a push adds the only one,
and other tasks' entries stay (`PopQueue`, `PushQueue`, `RequeueKeeps`).

`JobVerdictIsFinal` is proved inductive relative to `Inv` from what a step can do to
a task's status (`StatusMoves`) and to a job's (`JobMoves`); `VerdictIsKept`, which no run
checks since `PromiseSpec` says it of the lifecycle, follows from `StatusMoves` and `Inv`; `PlacedWhereRunnable` needs only types and the choice
of destination; the refinement maps each action to `Offer`, `Grant`, `Return`,
`Conclude`, `Forget` or a stutter (`StepImplemented`).

**The compute network.**  `ComputeProofs`, under `ConstantsAssumption` and
`ComputeAssumption`:

| Theorem | Statement |
|---|---|
| `ComputeTypeCorrect` | `ComputeSpec => []ComputeTypeOK` |
| `NetworkRunsQueue` | `ComputeSpec => Spec`: what the network does to the queue, TaskQueue does |
| `NetworkKeepsPromise` | `ComputeSpec => PromiseSpec`: workers, crashes and lost messages implement TaskLifecycle |
| `NetworkVerdictsFinal` | `ComputeSpec => []JobVerdictIsFinal`, carried over from the queue |
| `WorkersOwnTheirClaims` | `ComputeSpec => []ClaimsAreOwn` |
| `CompletionsHonest` | `ComputeSpec => []CompletedHonestly` |

By `NetworkRunsQueue` every theorem about the queue holds in the network.  `ClaimsAreOwn`
needs `CurIsOwn`: a node's `current_task` is either work it claimed itself or settled, so
that the claim it is handed again is its own.  `CompletedHonestly` needs `OkIsHonest`: a
worker that is about to report success ran a program that succeeds.

**Hosted apps and their requests.**  `LoadBalancerProofs` proves about Hosting
(`HostingAssumption`) and LoadBalancer (with `RequestAssumption`):

| Theorem | Statement |
|---|---|
| `HostingTypeCorrect` | `HostingSpec => []HostingTypeOK` |
| `NoDoubleStart` | `HostingSpec => []StartedOnce` |
| `RequestsTypeCorrect` | `LBSpec => []LBTypeOK` |
| `OnePlaceAtATime` | `LBSpec => []HandedOutOnce` |
| `EachFaultCostsOne` | `LBSpec => []LossesAreAccounted` |
| `RunOnceOrLost` | `LBSpec => RequestsRunOnce`: LoadBalancer implements RequestLifecycle |
| `NoDoubleStartUnderTraffic` | `LBSpec => []StartedOnce` |

`HandedOutOnce` is made inductive by `QueuesFit` (a queue has a request once, and only its
own) and `PlacesFit` (who is anywhere is being waited for, or was).  The count of
`LossesAreAccounted` is not inductive: a crash leaves a ghost, which takes a request only
later.  `Accounted` counts the ghosts that are left as faults not yet used, so that a
request a ghost takes is paid for by that ghost's crash; that two ghosts of one crash
cannot both take one rests on the loop of a node being in one place.

`HandedOutOnce`, which no run checks, speaks of one state; that a request is not run again *later* is
`RequestsRunOnce`, a refinement.  `placeOfRequest` says where a request is (queued, with a
loop, answered, lost) and `proxiesOfRequest` who runs it; `RequestLifecycle` only ever moves
it forward.  Each action moves one request (`ArriveStep`, `TakeStep`, `HandleStep`,
`CrashNodeStep`, `GhostStep`), a whole queue at once (`EmptyStep`) or none (`LeaveStep`,
`NothingMoves`), by three lemmas: a request nothing is done to stays where it is
(`UntouchedStays`), a step on one request is its move (`OneRequestMoves`), and what leaves
queue and loop with no answer is lost (`GoneIsLost`).

**Redis, command by command.**  `RedisQueueProofs`, for any number of nodes, tasks, request
threads and sweepers (`RedisQueueAssumption`):

| Theorem | Statement |
|---|---|
| `RedisTypeCorrect` | `Spec => [](TypeOK /\ RunOK)` |
| `TasksKept` | `Spec => []NoTaskLost` |
| `NobodyClaimsTwice` | `Spec => []HandledOnce` |
| `OneServerSweeps` | `~Overruns => (Spec => []OneSweeper)` |
| `PromiseKept` | `Spec => PromiseUnlessRaced`: until the first raced write every command takes a step of TaskLifecycle or none |
| `OnlyRacesUndo` | `Spec => [][~raced' => completed tasks stay completed]_vars` |

`RunOK` gives every program counter its registers.  `Views` says what a thread may conclude
from a row it still sees unchanged; `HandInv`, that short of a raced write a queued task has
one entry or one thread that has it in hand, never both; `KeptInv`, that the entry is where
the row says, or that the thread is one that will put it there; `LockInv`, that whoever
sweeps holds the lock, false once a sweep may outlast its TTL.

`PromiseKept` says the same of single commands as `QueueKeepsPromise` of whole operations.  Most
commands write no row and stutter (`NoRowWritten`); the others write one (`OneRowMoves`),
and the invariant tells what it held: a writer that did not race still sees the row as it
is (`WriterKnows`), so that `put` returns a held task or leaves a waiting one, `mark` grants a
waiting one and `settle` concludes a held one.  `OnlyRacesUndo` is the other half of the
finding of `redis_late` (section 5): the sweep undoes a result by a raced write, and there is
no other way.

**Jobs and their files.**  `JobsProofs`, for any number of shards, retention and lifetime
(`JobsAssumption`):

| Theorem | Statement |
|---|---|
| `JobsTypeCorrect` | `Spec => []TypeOK` |
| `PayloadsStay` | `Spec => []PayloadsAreKept` |
| `EmptyMeansLate` | `Spec => []ValuesAreComputed` |

`EmptyMeansLate` is the deeper one.  What makes it inductive: rows appear in the order of
the shards and age with the row of the job (`RowsOK`), a node settles a shard once
(`NodesOK`), the script is about to remove only results of tasks that are *condemned*, whose
rows are at their end or were finished for longer than the window (`FilesOK`), and a poll
that saw the job finished reads results of settled tasks (`FutureOK`).  The first missing
shard is found by well-founded induction on the naturals, in the form the library states
without an operator parameter (the least element of a set).

**Projects.**  `ProjectsProofs` has three parts.

*Analysis*, for any finite set of functions, whatever they name and whichever of them are
tasks (`AnalysisAssumption`):

| Theorem | Statement |
|---|---|
| `AnalysisTypeCorrect` | `AnalysisSpec => []AnalysisTypeOK` |
| `CleanStaysClosed` | `AnalysisSpec => []CleanIsClosed` |
| `AnalysisIsRight` | `AnalysisSpec => []VerdictsAreRight` |

`CleanIsClosed` is not inductive: a verdict is given when a frame is finished and rests
on what happened since it was opened.  `StackOK` adds what each frame has made sure of:
unless it is marked bad, every function it has dealt with is clean in the cache or is
the frame above it; no helper is on the stack twice, and none that is there has a
verdict yet, so no verdict changes under a frame that relied on it.  `VerdictsAreRight`
adds the other direction, that a *bad* verdict is right.  `BadOK`: a frame marked bad
belongs to a function that has no place in the reference.  The case that matters is a
helper met while it is on the stack; `ChainOK` says that each function on the stack is
used by the one below, so the part of the stack above it is a cycle, and by
`CyclesStayOut` no set of functions that each use another of them meets the least closed
set (what is left of the reference without them is closed as well).

*Builds*, for any number of checkouts, tasks and sources (`BuildsAssumption`,
`NoneAssumption`):

| Theorem | Statement |
|---|---|
| `BuildsTypeCorrect` | `Spec => []TypeOK` |
| `BuildsAreTheirOwn` | `Spec => []BuildsGetTheirOwn` |
| `CacheServesItsKey` | `Spec => []CacheFits`: an entry for staged sources is the component of its key |
| `TornEntriesHaveWriters` | `Spec => []TornHasAWriter` |
| `ManifestsFit` | `Spec => []ManifestFits` |

The argument is made shell by shell: `ShellFits(s)` speaks of the checkout, the job and the
output directory of `s` only, which no step of another shell touches.  All that the shells
share is the cache, and of that `CacheFits` is enough: whoever writes an entry writes what
its key names, so it does not matter whose write a reader finds, or how much of it.

*Deployments*, for any number of users, machines, keys and deployments
(`DeploymentsAssumption`):

| Theorem | Statement |
|---|---|
| `HostedHaveRows` | `DeploymentsSpec => []HostedAppsHaveRows` |
| `DeploymentsKept` | `DeploymentsSpec => []DeploymentsStayTheirMakers` |

The invariant has two parts.  `PidsFit`: nobody but the request that makes a deployment
knows its pid before it is complete, so no removal meets one that is half made, and
whoever waits to delete a row has taken the app out of Redis, where nobody can put it
back.  `KeysFit(who)`: there is an assignment of users to keys, live or revoked, that
every stored key, row and pending request agrees with; a step that makes a key extends
the assignment (`IssueKeyInv`), every other step keeps it.

**Sessions and counters.**  `AuthProofs`, under `SessionsAssumption` and
`WindowCountersAssumption`:

| Theorem | Statement |
|---|---|
| `SessionsTypeCorrect` | `Spec => []TypeOK` (of Sessions) |
| `RevokedForGood` | `Spec => []SessionRevoked` |
| `LogoutStands` | `Spec => []LoggedOutStaysOut` |
| `CountersTypeCorrect` | `CountersSpec => []CountersTypeOK` |
| `BurstsBounded` | `CountersSpec => []BurstsAreBounded` |

A logout is overtaken by whatever its machine still has to write, so `GoodRun` says of every
kind of command what it may have left to write: a refresh writes access tokens only, a logout
deletes only.  `StoreOK` keeps sessions that do not exist yet out of the stores, `RevokedOK`
those that a scan has seen from the reach of new numbers, and `AloneOK` follows a logout that
no login overlapped up to the deletion of the refresh token.

`BurstFits(k, j)` is what makes the bound of two limits inductive: the counter has existed
for `j` ticks, what it let in since is at most its count and at most the limit, what was let
in before and is still within the window is at most the limit again, and its TTL, once it is
set, does not end within a window of its creation.  A tick that ends the counter therefore
finds that `j` is the whole window: everything before has left it.

**The node service.**  `NodeServiceProofs`, for any number of pids, keys and faults
(`NodeServiceAssumption`).  The first two theorems hold for any number of shells; the others
for *one shell*, `Commands = {c}`, as in the run: the code has no lock, and commands of two
shells that overlap break those properties (section 5):

| Theorem | Statement |
|---|---|
| `NodeTypeCorrect` | `Spec => []TypeOK` |
| `KeysAreOfOneId` | `Spec => []KeysRegisteredOnce`: no two ids are registered with one key |
| `OneNodeRuns` | `Spec => []OneNode` |
| `NodesStayTracked` | `Spec => []NodesAreTracked` |
| `StopStops` | `Spec => []StoppedMeansStopped` |
| `KeyIsOfIdentity` | `Spec => []KeyFitsIdentity` |

A node is found again through one place: the child of the command that spawned it, the pid
file, or the service.  `DaemonOK` says for every point of a command which of them is right,
and at which points no node can be running (`NoDaemon`); `ServiceOK` that a service is up only
while systemd keeps it up or after a failed stop that went `unheard`, which is exactly what
`OneNode`, `NodesAreTracked` and `StoppedMeansStopped` except; `PlaceOK` what a step relies on that
an earlier one found; `EnrolOK` that the key in hand is the saved one from the post to the
save; `Shape` which steps belong to which phase.  For several shells no such place can be
named, and the invariant `MInv` says less: the types, that a command knows only keys and ids
there are (`Fits`), and that a key being posted is neither another command's nor a registered
one (`PostsNew`), which is what keeps the registered keys apart.

**Only model-checked.**  Liveness (`TasksAreDecided`, `AppsComeUp`, `GoneAppsStop`,
`PatientCallersAnswered`, `FuturesResolve`, `FilesAreReclaimed`, `WindowsReset`), since the
prover has no rules for fairness and ENABLED.
Every safety property of a passing run is a theorem.  No module uses RECURSIVE operators;
what needs an induction is stated over least sets (`Independent`) or least numbers instead.

## 5. Where the code and its words disagree

Shown by a run that fails as expected:

* **A task that failover hands on cannot be run** (`compute_key`): `requeue_task`
  leaves the payload's key wrapped for the first node, and a download deletes it
  (`task_queue.py:430`, `nodes.py:277`).
* **Failover undoes a late result** (`redis_late`): status is read, then written,
  without a check in between (`task_queue.py:462`).

Met while modelling, visible in the models, and excepted by name in the property
that would otherwise fail:

* After a bad receipt a node keeps its `current_task` (`nodes.py:334`); it is handed
  that task again whoever runs it, and when it dies the sweep takes the task from
  the healthy node that runs it (`task_queue.py:464`), which in turn keeps pointing at
  the task and may be handed another's claim.  So `ClaimsAreOwn` is about the time before
  the first rejected receipt: an exception for `BadSigners` alone would not do.
* A node removed from the `nodes` set that then dies keeps its queue: the drain walks
  the set (`task_queue.py:478`).  In `compute_network` the bad
  signer is the node that is sure to come up again, and its heartbeat adds it back.
* Claims and start requests reclaim without the sweeper's lock (`task_queue.py:543`),
  and a sweep that outlives the lock's TTL deletes its successor's (`sweeper.py:43`).
  `HandledOnce` excepts what follows from a raced write; `Overruns` is FALSE.
* A deployment of one replica comes up on several nodes, since nodes that are still
  starting it do not count (`serve_queue.py:123`); nodes without a serve loop
  (Windows builds) are assigned apps for ever (`serve_queue.py:125`); a lost failure
  report leaves a node that ignores its assignments, and the app assigned to it for as
  long as the node lives (`serve.rs:404`; the one exception in `AppsComeUp`); a failed app that was already queued is handed out once more
  (`serve_queue.py:141`).
* A failure between counting and EXPIRE locks an address out, or a key over its quota,
  for good (`auth.py:175`, `quota.py:53`; `crashes > 0` in the properties), and the
  "rolling" quota window is fixed (`quota.py:3`).
* A logout that cannot reach the server still says the session was revoked
  (`cli/auth.py:410`; `lost = 0` in `SessionRevoked`); without a keyring, commands that
  overlap can leave a session behind a logout (`cli/auth.py:127`; `LoggedOutStaysOut`
  is about machines with one), and a logout that meets the file while it is rewritten
  asks the server for nothing and still says that the session was revoked
  (`cli/auth.py:117`, `commands.py:815`; `revoked` counts the sessions a logout found);
  the login endpoint ignores `rotate_api_key` (`cli/auth.py:315`).
* `stop` signals whatever has the saved pid (`node_service.py:355`); a node that dies at
  once is a zombie that `start` takes for alive (`node_service.py:344`); commands that
  overlap or are interrupted lose track of a node (`node_service.py:339`; `Orderly` and the
  one shell), and two registrations that overlap mix key and identity (`registration.rs:49`).
* What `systemctl` returns is looked at by `enable` alone.  A failed `start`
  (`node_service.py:598`) is followed by the message that the node started, a failed
  `stop` (`node_service.py:615`) by "Tandem node stopped." with the service up
  (`commands.py:1255`), and after a failed `disable --now` (`node_service.py:551`) the
  unit file of a running service is deleted: no command finds that service any more, and
  the next `start` spawns a second node beside it (`unheard` in the three properties).
* The purge takes the payload of a task whose row is about to be made for an orphan
  (`purge_orphans.py:73`, `task_queue.py:316`; `hit` in `PayloadsAreKept`); the task then
  fails.  It may also remove a job's directory under a request, which fails.
* A result that was purged is read as no bytes, and no bytes are a value
  (`task_queue.py:787`, `rpc.py:135`): a future that is asked late holds the empty string.
* An entry of the compile cache that a crash cut off is a hit for good, where the comment
  says a corrupt file is a miss (`cache.rs:58-62`; `crashes = 0` in `TornHasAWriter`): only
  the first bytes are looked at.  The key has neither the toolchain nor the interface
  version, where the comment says everything that can change the output is in it
  (`cache.rs:29-31`); the models have one toolchain.
* Sources are staged after they were analysed (`build.py:111`, `build.py:129`): an edit in
  between is compiled unanalysed.  A project without a bundled SDK is compiled in place,
  and an edit between the hash and the compilation stores an artifact under the wrong
  key (`inPlace`, excepted in `BuildsGetTheirOwn`).
* A rotation deletes the keys by which deployments are found (`api.py:73`): they are
  nobody's afterwards (`revoked`).  A rotation also resets usage and quota, which are
  said to be per account (`usage.py:7-8`) but counted per key; two first logins at once
  give an account two keys (`api.py:50`); the list of apps is that of the key that asks,
  not of its account (`serve.py:147`).
* A node whose PEM is refused has been registered in Redis by then (`nodes.py:168`,
  `nodes.py:177`).
* The validator flags only augmented assignments to names that are not bound in the
  function (`validator.py:196`); the transpiler turns an assignment in a nested block
  into a new `let`, keeps `//` and `%` where Rust rounds the other way, and filters a
  comprehension after it has mapped (`builder.py:303` promises equivalent source).

## 6. What is not modelled

* Cryptography, wasmtime, componentize-py and bubblewrap: single calls whose outcome
  (works, fails) is a choice in the models.
* The reading of one function body by the analysis (`_find_captures`,
  `_find_disallowed_calls`): the codes it may find are chosen at the start.
* The validator and the transpiler of the SDK (`validator.py`, `builder.py`; `cli/_bundled`
  has a copy): sequential functions over syntax trees with no state, the one called when
  a function is decorated, the other not used by `tandem build`.  A model would have to
  spell out Python's and Rust's syntax.
* Request parsing, authentication headers, HTML, the desktop pages, the sums of the usage
  report: no state.
* The TTL of API keys: a day or more, longer than anything it could meet; those of rows
  are modelled (`Expire` in TaskQueue, `Tick` in Jobs).
* Steps that are one in the models where the code has two, or that cannot fail there.
  The properties speak of runs without them.
  `NodeService!SaveIdentity`: the save may fail with a warning (`main.rs:158`); the node
  then registers itself once more when it is spawned.  `Jobs!Report`: the purge may remove the
  empty `results` directory between its making and the write (`task_queue.py:144`); the
  report then fails, as a lost one does in Compute.  `Builds!Inspect`: the import of the
  sources and the analysis's own reading of the file (`analysis.py:169`) are one step.  `Builds!Write`:
  a component is written in place, and one torn by a crash has no build that ended well.
* Windows and launchd variants of the node service: the same commands, other calls.
* Installers and packaging: shell scripts run once.

## 7. Plan

Done: every module of section 2, and a theorem for every safety property a passing run
checks.

Theorems worth proving next: which properties of NodeService come back once overlapping
commands of several shells have ended; that RedisQueue implements the queues of TaskQueue too, not only the life of
each task (`PromiseKept`); that Sessions and Jobs implement a short abstract specification of
their promises, as TaskQueue does TaskLifecycle and LoadBalancer RequestLifecycle.

Worth modelling next: a bound on the replicas of an app when no node is starting one.
