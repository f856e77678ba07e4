---------------------------- MODULE NodeService ----------------------------
(***************************************************************************)
(* The node on one machine as `tandem node start/stop/restart/enable/      *)
(* disable` manages it (cli/commands.py, cli/node_service.py): a detached  *)
(* process that a pid file remembers, or a systemd service with            *)
(* Restart=always; and the identity the node registers before its first    *)
(* start (node/src/main.rs, registration.rs, state.rs).                    *)
(*                                                                         *)
(* A command is a sequence of phases, each a few steps long, and several   *)
(* commands may run at once.  Processes end whenever they like and their   *)
(* pids go to other programs.  The machine is a Linux one; launchd differs *)
(* in its words only.                                                      *)
(***************************************************************************)
EXTENDS Integers, FiniteSets, Sequences

CONSTANTS
  Commands,    \* shells in which a command can run
  MaxPid,      \* bound: process ids
  MaxNodes,    \* bound: key pairs made
  MaxEnds,     \* bound: nodes that end by themselves, and reboots
  MaxStrangers,\* bound: other programs started
  MaxFails,    \* bound: failures of the server and of systemctl
  MaxCuts      \* bound: commands interrupted

ASSUME NodeServiceAssumption ==
  /\ MaxPid \in Nat \ {0}
  /\ \A b \in {MaxNodes, MaxEnds, MaxStrangers, MaxFails, MaxCuts} : b \in Nat

None == 0
Pids == 1..MaxPid

VARIABLES
  proc,      \* what has each pid: nothing, a node, the service's node, another
             \* program, or a node that ended before the command that spawned it
  pidfile,   \* node.pid
  unit,      \* does the unit file exist?
  active,    \* does systemd keep the service up?
  unheard,   \* has systemctl failed to stop the service, which nobody looked at?
  keyfile,   \* the key pair in node_key.pem, by number
  identity,  \* the node id in node.json
  nodes,     \* the server's nodes: the public key each registered with
  made,      \* key pairs made
  run,       \* each command: its phases, the current one first, and the place in it
  spent      \* the bounded events so far

vars == <<proc, pidfile, unit, active, unheard, keyfile, identity, nodes, made,
          run, spent>>
service == <<unit, active, unheard>>
enrolled == <<keyfile, identity, nodes, made>>

Phases ==
  [start   |-> <<"check", "register", "start">>,
   stop    |-> <<"stop">>,
   restart |-> <<"stop", "register", "start">>,
   enable  |-> <<"register", "handoff", "enable">>,
   disable |-> <<"disable">>]

Kinds == DOMAIN Phases

Idle == [kind |-> "idle", todo |-> <<>>, pc |-> "idle", pid |-> None,
         child |-> None, key |-> None, id |-> None]

Nodes == {p \in Pids : proc[p] \in {"node", "service"}}
Free == {p \in Pids : proc[p] = "free"}
Daemons == {p \in Pids : proc[p] = "node"}
Services == {p \in Pids : proc[p] = "service"}

\* What is left of a process that ends: the child of a command that runs on is
\* not reaped, since nothing waits for it.
Dead(p) ==
  [proc EXCEPT ![p] = IF \E c \in Commands : run[c].child = p
                      THEN "zombie" ELSE "free"]

Reaped(c) == [p \in Pids |-> IF p = run[c].child /\ proc[p] = "zombie"
                             THEN "free" ELSE proc[p]]

Phase(c) == Head(run[c].todo)
At(c, pc) == run[c].pc = pc
In(c, phase) == At(c, "begin") /\ Phase(c) = phase

Goto(c, pc) == run' = [run EXCEPT ![c].pc = pc]

\* On to the next phase, or done.
After(c) ==
  IF Len(run[c].todo) = 1
  THEN [run[c] EXCEPT !.pc = "done"]
  ELSE [run[c] EXCEPT !.todo = Tail(@), !.pc = "begin"]

Finish(c) == run' = [run EXCEPT ![c] = After(c)]
Fail(c) == run' = [run EXCEPT ![c] = Idle]

May(what, bound) ==
  /\ spent[what] < bound
  /\ spent' = [spent EXCEPT ![what] = @ + 1]

Begin(c, kind) ==
  /\ run[c].kind = "idle"
  /\ run' = [run EXCEPT ![c] = [Idle EXCEPT !.kind = kind, !.pc = "begin",
                                            !.todo = Phases[kind]]]
  /\ UNCHANGED <<proc, pidfile, service, enrolled, spent>>

----------------------------------------------------------------------------
(* _daemon_running, in the phases check, start and handoff *)

\* os.kill(pid, 0) finds a zombie too, but its command line is empty.
Alive(p) == p # None /\ proc[p] # "free"
IsNode(p) == proc[p] \in {"node", "service"}

LooksAtDaemon(c) ==
  \/ In(c, "check") /\ ~unit
  \/ In(c, "start") /\ ~unit
  \/ In(c, "handoff")

\* What the phase does once it knows that no daemon is running.
NotRunning(c) ==
  IF Phase(c) = "start" THEN [run[c] EXCEPT !.pc = "spawn"] ELSE After(c)

FindDaemon(c) ==
  /\ LooksAtDaemon(c)
  /\ Alive(pidfile) /\ IsNode(pidfile)
  /\ IF Phase(c) = "handoff" THEN Goto(c, "stopping")
     ELSE run' = [run EXCEPT ![c].pc = "done"]
  /\ UNCHANGED <<proc, pidfile, service, enrolled, spent>>

FindNone(c) ==
  /\ LooksAtDaemon(c)
  /\ pidfile = None \/ (Alive(pidfile) /\ ~IsNode(pidfile))
  /\ run' = [run EXCEPT ![c] = NotRunning(c)]
  /\ UNCHANGED <<proc, pidfile, service, enrolled, spent>>

FindStale(c) ==
  /\ LooksAtDaemon(c)
  /\ pidfile # None /\ ~Alive(pidfile)
  /\ Goto(c, "stale")
  /\ UNCHANGED <<proc, pidfile, service, enrolled, spent>>

ClearStale(c) ==
  /\ At(c, "stale")
  /\ pidfile' = None
  /\ run' = [run EXCEPT ![c] = NotRunning(c)]
  /\ UNCHANGED <<proc, service, enrolled, spent>>

\* node_is_running and the service; one that waits for its restart is not active.
CheckService(c) ==
  /\ In(c, "check") /\ unit
  /\ IF Services # {} THEN run' = [run EXCEPT ![c].pc = "done"] ELSE Finish(c)
  /\ UNCHANGED <<proc, pidfile, service, enrolled, spent>>

----------------------------------------------------------------------------
(* _register_if_needed: the node in its register-only mode *)

Registered(c) ==
  /\ In(c, "register") /\ identity # None
  /\ Finish(c)
  /\ UNCHANGED <<proc, pidfile, service, enrolled, spent>>

NotLoggedIn(c) ==
  /\ In(c, "register") /\ identity = None
  /\ Fail(c)
  /\ UNCHANGED <<proc, pidfile, service, enrolled, spent>>

\* Faulty: saves the key without having asked whether the node has an identity.
WriteKeyAlways(c) ==
  /\ In(c, "register") /\ made < MaxNodes
  /\ made' = made + 1
  /\ keyfile' = made + 1
  /\ run' = [run EXCEPT ![c].pc = "post", ![c].key = made + 1]
  /\ UNCHANGED <<proc, pidfile, service, identity, nodes, spent>>

WriteKey(c) ==
  /\ In(c, "register") /\ identity = None /\ made < MaxNodes
  /\ made' = made + 1
  /\ keyfile' = made + 1
  /\ run' = [run EXCEPT ![c].pc = "post", ![c].key = made + 1]
  /\ UNCHANGED <<proc, pidfile, service, identity, nodes, spent>>

Post(c) ==
  /\ At(c, "post")
  /\ nodes' = Append(nodes, run[c].key)
  /\ run' = [run EXCEPT ![c].pc = "save", ![c].id = Len(nodes) + 1]
  /\ UNCHANGED <<proc, pidfile, service, keyfile, identity, made, spent>>

\* The server refuses, or its answer does not come.
PostFails(c) ==
  /\ At(c, "post") /\ May("fails", MaxFails)
  /\ Fail(c)
  /\ nodes' \in {nodes, Append(nodes, run[c].key)}
  /\ UNCHANGED <<proc, pidfile, service, keyfile, identity, made>>

SaveIdentity(c) ==
  /\ At(c, "save")
  /\ identity' = run[c].id
  /\ Finish(c)
  /\ UNCHANGED <<proc, pidfile, service, keyfile, nodes, made, spent>>

----------------------------------------------------------------------------
(* _start_daemon after its check *)

Spawn(c) ==
  /\ At(c, "spawn")
  /\ \E p \in Free :
       /\ proc' = [proc EXCEPT ![p] = "node"]
       /\ run' = [run EXCEPT ![c].pc = "track", ![c].child = p]
  /\ UNCHANGED <<pidfile, service, enrolled, spent>>

\* Faulty: writes the pid only when there is none yet.
WritePidOnce(c) ==
  /\ At(c, "track")
  /\ pidfile' = IF pidfile = None THEN run[c].child ELSE pidfile
  /\ Goto(c, "look")
  /\ UNCHANGED <<proc, service, enrolled, spent>>

WritePid(c) ==
  /\ At(c, "track")
  /\ pidfile' = run[c].child
  /\ Goto(c, "look")
  /\ UNCHANGED <<proc, service, enrolled, spent>>

\* The child is alive or a zombie, and _pid_alive tells them not apart.
Look(c) ==
  /\ At(c, "look")
  /\ Alive(run[c].child)
  /\ Finish(c)
  /\ UNCHANGED <<proc, pidfile, service, enrolled, spent>>

----------------------------------------------------------------------------
(* _stop_daemon *)

Stops(c) == (In(c, "stop") /\ ~unit) \/ At(c, "stopping")

StopNone(c) ==
  /\ Stops(c) /\ ~Alive(pidfile)
  /\ Goto(c, "clear")
  /\ UNCHANGED <<proc, pidfile, service, enrolled, spent>>

\* SIGTERM; nothing asks whose pid it is.
Terminate(c) ==
  /\ Stops(c) /\ Alive(pidfile)
  /\ run' = [run EXCEPT ![c].pc = "wait", ![c].pid = pidfile]
  /\ UNCHANGED <<proc, pidfile, service, enrolled, spent>>

\* The process obeys.
Obey(c) ==
  /\ At(c, "wait") /\ Alive(run[c].pid) /\ proc[run[c].pid] # "zombie"
  /\ proc' = Dead(run[c].pid)
  /\ UNCHANGED <<pidfile, service, enrolled, run, spent>>

Gone(c) ==
  /\ At(c, "wait") /\ ~Alive(run[c].pid)
  /\ Goto(c, "clear")
  /\ UNCHANGED <<proc, pidfile, service, enrolled, spent>>

\* Faulty: does not wait for the process and does not force it.
KillNot(c) ==
  /\ At(c, "wait") /\ Alive(run[c].pid)
  /\ Goto(c, "clear")
  /\ UNCHANGED <<proc, pidfile, service, enrolled, spent>>

\* After three seconds, SIGKILL.
Kill(c) ==
  /\ At(c, "wait") /\ Alive(run[c].pid)
  /\ proc' = Dead(run[c].pid)
  /\ Goto(c, "clear")
  /\ UNCHANGED <<pidfile, service, enrolled, spent>>

ClearPid(c) ==
  /\ At(c, "clear")
  /\ pidfile' = None
  /\ Finish(c)
  /\ UNCHANGED <<proc, service, enrolled, spent>>

----------------------------------------------------------------------------
(* The service *)

WithoutService == [p \in Pids |-> IF proc[p] = "service" THEN "free" ELSE proc[p]]

\* systemctl starts the service unless it is up.
Up ==
  /\ active' = TRUE
  /\ IF Services # {} THEN UNCHANGED proc
     ELSE \E p \in Free : proc' = [proc EXCEPT ![p] = "service"]

SystemctlStart(c) ==
  /\ In(c, "start") /\ unit
  /\ Up /\ Finish(c)
  /\ UNCHANGED <<pidfile, unit, unheard, enrolled, spent>>

\* Nothing looks at what systemctl returned.
SystemctlStartFails(c) ==
  /\ In(c, "start") /\ unit /\ May("fails", MaxFails)
  /\ Finish(c)
  /\ UNCHANGED <<proc, pidfile, service, enrolled>>

SystemctlStop(c) ==
  /\ In(c, "stop") /\ unit
  /\ active' = FALSE /\ proc' = WithoutService /\ unheard' = FALSE
  /\ Finish(c)
  /\ UNCHANGED <<pidfile, unit, enrolled, spent>>

\* The command says "stopped" all the same.
SystemctlStopFails(c) ==
  /\ In(c, "stop") /\ unit /\ May("fails", MaxFails)
  /\ unheard' = TRUE
  /\ Finish(c)
  /\ UNCHANGED <<proc, pidfile, unit, active, enrolled>>

\* The reload makes a service that a failed disable left behind systemd's again.
WriteUnit(c) ==
  /\ In(c, "enable")
  /\ unit' = TRUE /\ active' = (active \/ Services # {})
  /\ Goto(c, "activate")
  /\ UNCHANGED <<proc, pidfile, unheard, enrolled, spent>>

Activate(c) ==
  /\ At(c, "activate")
  /\ IF unit THEN Up /\ Finish(c) ELSE Fail(c) /\ UNCHANGED <<proc, active>>
  /\ UNCHANGED <<pidfile, unit, unheard, enrolled, spent>>

ActivateFails(c) ==
  /\ At(c, "activate") /\ May("fails", MaxFails)
  /\ Fail(c)
  /\ UNCHANGED <<proc, pidfile, service, enrolled>>

\* Faulty: removes the unit and leaves the service up.
DeactivateNot(c) ==
  /\ In(c, "disable") /\ unit
  /\ Goto(c, "remove")
  /\ UNCHANGED <<proc, pidfile, service, enrolled, spent>>

Deactivate(c) ==
  /\ In(c, "disable") /\ unit
  /\ active' = FALSE /\ proc' = WithoutService /\ unheard' = FALSE
  /\ Goto(c, "remove")
  /\ UNCHANGED <<pidfile, unit, enrolled, spent>>

\* The unit file goes all the same, under a service that is up.
DeactivateFails(c) ==
  /\ In(c, "disable") /\ unit /\ May("fails", MaxFails)
  /\ unheard' = TRUE
  /\ Goto(c, "remove")
  /\ UNCHANGED <<proc, pidfile, unit, active, enrolled>>

\* After the reload systemd restarts no service that has no unit file.
RemoveUnit(c) ==
  /\ At(c, "remove")
  /\ unit' = FALSE /\ active' = FALSE
  /\ Finish(c)
  /\ UNCHANGED <<proc, pidfile, unheard, enrolled, spent>>

NothingEnabled(c) ==
  /\ In(c, "disable") /\ ~unit
  /\ Finish(c)
  /\ UNCHANGED <<proc, pidfile, service, enrolled, spent>>

----------------------------------------------------------------------------
(* The command ends, and the world around it *)

End(c) ==
  /\ At(c, "done")
  /\ run' = [run EXCEPT ![c] = Idle]
  /\ proc' = Reaped(c)
  /\ UNCHANGED <<pidfile, service, enrolled, spent>>

\* The user interrupts the command, and the registration it may wait for.
Cut(c) ==
  /\ run[c].kind # "idle" /\ May("cuts", MaxCuts)
  /\ run' = [run EXCEPT ![c] = Idle]
  /\ proc' = Reaped(c)
  /\ UNCHANGED <<pidfile, service, enrolled>>

NodeEnds(p) ==
  /\ p \in Nodes /\ May("ends", MaxEnds)
  /\ proc' = Dead(p)
  /\ UNCHANGED <<pidfile, service, enrolled, run>>

ServiceRestarts ==
  /\ active /\ Services = {}
  /\ \E p \in Free : proc' = [proc EXCEPT ![p] = "service"]
  /\ UNCHANGED <<pidfile, service, enrolled, run, spent>>

StrangerStarts(p) ==
  /\ p \in Free /\ May("strangers", MaxStrangers)
  /\ proc' = [proc EXCEPT ![p] = "other"]
  /\ UNCHANGED <<pidfile, service, enrolled, run>>

StrangerEnds(p) ==
  /\ proc[p] = "other"
  /\ proc' = [proc EXCEPT ![p] = "free"]
  /\ UNCHANGED <<pidfile, service, enrolled, run, spent>>

\* Files stay; the service comes up by itself if the unit was enabled and not
\* only written, and if it need not wait for a login.
Reboot ==
  /\ May("ends", MaxEnds)
  /\ proc' = [p \in Pids |-> "free"]
  /\ active' \in {unit, FALSE} /\ unheard' = FALSE
  /\ run' = [c \in Commands |-> Idle]
  /\ UNCHANGED <<pidfile, unit, enrolled>>

Init ==
  /\ proc = [p \in Pids |-> "free"]
  /\ pidfile = None /\ unit = FALSE /\ active = FALSE /\ unheard = FALSE
  /\ keyfile = None /\ identity = None /\ nodes = <<>> /\ made = 0
  /\ run = [c \in Commands |-> Idle]
  /\ spent = [w \in {"fails", "cuts", "ends", "strangers"} |-> 0]

Command(c) ==
  \/ \E kind \in Kinds : Begin(c, kind)
  \/ FindDaemon(c) \/ FindNone(c) \/ FindStale(c) \/ ClearStale(c)
  \/ CheckService(c)
  \/ Registered(c) \/ NotLoggedIn(c) \/ WriteKey(c) \/ Post(c) \/ PostFails(c)
  \/ SaveIdentity(c)
  \/ Spawn(c) \/ WritePid(c) \/ Look(c)
  \/ StopNone(c) \/ Terminate(c) \/ Obey(c) \/ Gone(c) \/ Kill(c) \/ ClearPid(c)
  \/ SystemctlStart(c) \/ SystemctlStartFails(c)
  \/ SystemctlStop(c) \/ SystemctlStopFails(c)
  \/ WriteUnit(c) \/ Activate(c) \/ ActivateFails(c)
  \/ Deactivate(c) \/ DeactivateFails(c) \/ RemoveUnit(c) \/ NothingEnabled(c)
  \/ End(c) \/ Cut(c)

World ==
  \/ \E p \in Pids : NodeEnds(p) \/ StrangerStarts(p) \/ StrangerEnds(p)
  \/ ServiceRestarts
  \/ Reboot

Next == World \/ \E c \in Commands : Command(c)

Spec == Init /\ [][Next]_vars

----------------------------------------------------------------------------
(* Properties *)

\* The type of every variable.
TypeOK ==
  /\ proc \in [Pids -> {"free", "zombie", "node", "service", "other"}]
  /\ pidfile \in {None} \cup Pids
  /\ unit \in BOOLEAN /\ active \in BOOLEAN /\ unheard \in BOOLEAN
  /\ made \in 0..MaxNodes /\ keyfile \in 0..made
  /\ nodes \in Seq(1..made) /\ identity \in 0..Len(nodes)
  /\ \A c \in Commands :
       /\ run[c].kind \in Kinds \cup {"idle"}
       /\ {run[c].pid, run[c].child} \subseteq {None} \cup Pids
       /\ run[c].id \in 0..Len(nodes) /\ run[c].key \in 0..made
  /\ spent \in [{"fails", "cuts", "ends", "strangers"} -> Nat]

Quiet == \A c \in Commands : run[c].kind = "idle"

\* No command was interrupted half-way: the steps of a command leave traces
\* that only its end removes.  (All properties but the last are those of one
\* shell; the code has no lock, and commands that overlap break them.)
Orderly == spent["cuts"] = 0

\* Two nodes with one identity would both poll its queue and both report as it:
\* start refuses when one runs, enable hands over from the daemon, systemd keeps
\* one service.  Only a service that systemctl has failed to disable, and that
\* the command took for gone (node_service.py:551), may run beside a daemon.
OneNode ==
  Orderly => /\ Cardinality(Daemons) <= 1 /\ Cardinality(Services) <= 1
             /\ Daemons = {} \/ Services = {} \/ unheard

\* active_backend looks at the unit file alone (node_service.py:572-577), so
\* between commands every node must be where that leads: in the pid file, or
\* the service of a unit that exists; otherwise no command finds it again.  A
\* daemon always is, a service unless systemctl has failed to stop it.
NodesAreTracked ==
  Orderly /\ Quiet =>
    /\ \A p \in Daemons : pidfile = p /\ ~unit
    /\ Services # {} => (active /\ unit) \/ unheard

\* "Tandem node stopped." or "wasn't running" (commands.py:1255): at that
\* moment no daemon runs, wherever nodes, pids and services came and went, and
\* no service unless systemctl failed to stop it (node_service.py:615).
StoppedMeansStopped ==
  Orderly => \A c \in Commands :
               At(c, "done") /\ run[c].kind = "stop" =>
                 Daemons = {} /\ (Services = {} \/ unheard)

\* What the node signs is checked against the key its id was registered with
\* (registration.rs:36): whenever nothing is registering, the saved private key
\* belongs to the saved id, even if commands were interrupted in between.
KeyFitsIdentity ==
  identity # None /\ (\A c \in Commands : ~At(c, "post") /\ ~At(c, "save"))
    => nodes[identity] = keyfile

\* Every registration sends a key pair of its own (registration.rs:36): whatever
\* shells overlap, fail half-way or are interrupted, no two ids of this machine
\* are registered with one key, so that no two nodes can sign for each other.
KeysRegisteredOnce ==
  \A i, j \in 1..Len(nodes) : nodes[i] = nodes[j] => i = j
=============================================================================
