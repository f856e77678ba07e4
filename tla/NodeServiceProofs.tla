-------------------------- MODULE NodeServiceProofs --------------------------
(***************************************************************************)
(* The node of one machine, for any number of pids, keys and faults.  That *)
(* the types are kept and no key is registered twice is proved for any     *)
(* number of shells (MInv, at the end); the rest is proved for one.  A     *)
(* node is found again through one place, the child of the command that    *)
(* has just spawned it, the pid file or the service, and a command is      *)
(* about to change that place in the middle of its steps; so the inductive *)
(* invariant of one shell says for every point of a command which place is *)
(* the right one there, and at which points there can be no node at all.   *)
(***************************************************************************)
EXTENDS NodeService, FiniteSetTheorems, TLAPS

USE NodeServiceAssumption

\* What is left of a command's phases.
Todos ==
  {<<"check", "register", "start">>, <<"register", "start">>, <<"start">>,
   <<"stop">>, <<"stop", "register", "start">>,
   <<"register", "handoff", "enable">>, <<"handoff", "enable">>, <<"enable">>,
   <<"disable">>}

Runs ==
  [kind : Kinds \cup {"idle"}, todo : Todos \cup {<<>>},
   pc : {"idle", "begin", "stale", "post", "save", "spawn", "track", "look",
         "stopping", "wait", "clear", "activate", "remove", "done"},
   pid : {None} \cup Pids, child : {None} \cup Pids, key : Nat, id : Nat]

\* The type of everything but the command.
WorldTyped ==
  /\ proc \in [Pids -> {"free", "zombie", "node", "service", "other"}]
  /\ pidfile \in {None} \cup Pids
  /\ unit \in BOOLEAN /\ active \in BOOLEAN /\ unheard \in BOOLEAN
  /\ made \in 0..MaxNodes /\ keyfile \in 0..made
  /\ nodes \in Seq(1..made) /\ identity \in 0..Len(nodes)
  /\ spent \in [{"fails", "cuts", "ends", "strangers"} -> Nat]

\* The phase a command is in belongs to the step it is about to take.
Shape(r) ==
  /\ r.pc # "idle" => r.todo # <<>>
  /\ (r.kind = "idle") <=> (r.pc = "idle")
  /\ r.pc = "stale" => Head(r.todo) \in {"check", "start", "handoff"}
  /\ r.pc \in {"post", "save"} => Head(r.todo) = "register"
  /\ r.pc \in {"spawn", "track", "look"} => Head(r.todo) = "start"
  /\ r.pc = "stopping" => Head(r.todo) = "handoff"
  /\ r.pc \in {"wait", "clear"} => Head(r.todo) \in {"stop", "handoff"}
  /\ r.pc = "activate" => Head(r.todo) = "enable"
  /\ r.pc = "remove" => Head(r.todo) = "disable"
  /\ r.kind = "stop" => r.todo = <<"stop">>
  /\ r.pc = "track" => r.child # None

ServiceOK ==
  /\ active => unit
  /\ \A p \in Pids : proc[p] = "service" => (active \/ unheard)
  /\ \A p, q \in Pids : proc[p] = "service" /\ proc[q] = "service" => p = q

\* The saved key belongs to the saved id or, while there is none, to the id
\* that is being registered.
EnrolOK(r) ==
  /\ identity # None => nodes[identity] = keyfile
  /\ r.pc \in {"post", "save"} =>
       identity = None /\ r.key = keyfile /\ r.key # None
  /\ r.pc = "save" => r.id \in 1..Len(nodes) /\ nodes[r.id] = keyfile

\* What a step relies on, found by an earlier one.
PlaceOK(r) ==
  /\ r.pc = "remove" => (~active \/ unheard)
  /\ r.pc = "spawn" => ~unit
  /\ r.pc = "stale" /\ Head(r.todo) = "start" => ~unit
  /\ r.pc \in {"wait", "clear"} /\ Head(r.todo) = "stop" => ~unit
  /\ r.kind = "stop" /\ r.pc = "done" => (~active \/ unheard)

\* The points of a command at which no daemon can be running.
NoDaemon(r) ==
  \/ r.pc \in {"spawn", "stale", "clear", "activate"}
  \/ r.pc = "begin" /\ Head(r.todo) = "enable"
  \/ r.pc = "done" /\ r.kind = "stop"

\* Where the daemon is, if there is one.
DaemonOK(r) ==
  Orderly => \A p \in Pids : proc[p] = "node" =>
    /\ ~unit /\ ~NoDaemon(r)
    /\ p = IF r.pc = "track" THEN r.child ELSE pidfile
    /\ r.pc = "wait" => p = r.pid

RunOK(r) ==
  /\ Shape(r) /\ EnrolOK(r) /\ PlaceOK(r) /\ DaemonOK(r)
  /\ r.id \in 0..Len(nodes) /\ r.key \in 0..made

IInv ==
  /\ WorldTyped /\ ServiceOK
  /\ run \in [Commands -> Runs]
  /\ \A c \in Commands : RunOK(run[c])

----------------------------------------------------------------------------
(* Phases, and commands as a whole *)

LEMMA TodoFacts ==
  ASSUME NEW t \in Todos
  PROVE  /\ t # <<>>
         /\ Head(t) \in {"check", "register", "start", "stop", "handoff",
                         "enable", "disable"}
         /\ Len(t) # 1 => /\ Tail(t) \in Todos
                          /\ Head(Tail(t)) = "enable" => Head(t) = "handoff"
         /\ Head(t) = "handoff" => Len(t) # 1
         /\ t = <<"stop">> => Len(t) = 1 /\ Head(t) = "stop"
<1>1. \A a, b, d : /\ Len(<<a, b, d>>) = 3 /\ Head(<<a, b, d>>) = a
                   /\ Tail(<<a, b, d>>) = <<b, d>>
                   /\ Len(<<a, b>>) = 2 /\ Head(<<a, b>>) = a
                   /\ Tail(<<a, b>>) = <<b>>
                   /\ Len(<<a>>) = 1 /\ Head(<<a>>) = a
  OBVIOUS
<1>2. CASE t = <<"check", "register", "start">>
  BY <1>1, <1>2 DEF Todos
<1>3. CASE t = <<"register", "start">>
  BY <1>1, <1>3 DEF Todos
<1>4. CASE t = <<"start">>
  BY <1>1, <1>4 DEF Todos
<1>5. CASE t = <<"stop">>
  BY <1>1, <1>5 DEF Todos
<1>6. CASE t = <<"stop", "register", "start">>
  BY <1>1, <1>6 DEF Todos
<1>7. CASE t = <<"register", "handoff", "enable">>
  BY <1>1, <1>7 DEF Todos
<1>8. CASE t = <<"handoff", "enable">>
  BY <1>1, <1>8 DEF Todos
<1>9. CASE t = <<"enable">>
  BY <1>1, <1>9 DEF Todos
<1>10. CASE t = <<"disable">>
  BY <1>1, <1>10 DEF Todos
<1> QED
  BY <1>2, <1>3, <1>4, <1>5, <1>6, <1>7, <1>8, <1>9, <1>10 DEF Todos

LEMMA NoPid == None \notin Pids
  BY DEF None, Pids

LEMMA IdleFacts == Idle \in Runs /\ Idle.pc = "idle" /\ Idle.kind = "idle"
                   /\ Idle.id = 0 /\ Idle.key = 0
  BY DEF Idle, Runs, None

LEMMA Here ==
  ASSUME NEW c, Commands = {c}, IInv
  PROVE  /\ c \in Commands /\ DOMAIN run = {c}
         /\ run[c] \in Runs /\ RunOK(run[c])
         /\ run[c].pc # "idle" => run[c].todo \in Todos
<1>1. c \in Commands /\ DOMAIN run = {c} /\ run[c] \in Runs /\ RunOK(run[c])
  BY DEF IInv
<1>2. run[c].todo \in Todos \cup {<<>>}
  BY <1>1 DEF Runs
<1> QED
  BY <1>1, <1>2 DEF RunOK, Shape

\* The command has become r.
LEMMA BecomesInv ==
  ASSUME NEW c, Commands = {c}, IInv, NEW r \in Runs,
         run' = [run EXCEPT ![c] = r] \/ run' = [x \in Commands |-> r],
         WorldTyped', ServiceOK', RunOK(r)'
  PROVE  IInv'
<1>1. run' = [x \in Commands |-> r]
  BY DEF IInv
<1>2. run' \in [Commands -> Runs]
  BY <1>1
<1>3. \A x \in Commands : RunOK(run[x])'
  BY <1>1
<1> QED
  BY <1>2, <1>3 DEF IInv

\* It has, and nothing else has changed.
LEMMA MoveInv ==
  ASSUME NEW c, Commands = {c}, IInv, NEW r \in Runs,
         run' = [run EXCEPT ![c] = r] \/ run' = [x \in Commands |-> r],
         UNCHANGED <<proc, pidfile, service, enrolled>>,
         spent' = spent \/ (\E b \in Nat : May("fails", b)),
         RunOK(r)
  PROVE  IInv'
<1>1. WorldTyped /\ ServiceOK
  BY DEF IInv
<1>2. /\ spent' \in [{"fails", "cuts", "ends", "strangers"} -> Nat]
      /\ spent'["cuts"] = spent["cuts"]
  BY <1>1 DEF WorldTyped, May
<1>3. WorldTyped'
  BY <1>1, <1>2 DEF WorldTyped, service, enrolled
<1>4. ServiceOK'
  BY <1>1 DEF ServiceOK, service
<1>5. RunOK(r)'
  BY <1>2 DEF RunOK, Shape, EnrolOK, PlaceOK, NoDaemon, DaemonOK, Orderly,
              service, enrolled
<1> QED
  BY <1>3, <1>4, <1>5, BecomesInv

LEMMA IdleOK == ASSUME NEW c, Commands = {c}, IInv, RunOK(run[c]),
                       run[c].pc # "track"
                PROVE  RunOK(Idle)
<1>1. Idle.todo = <<>> /\ Idle.child = None
  BY DEF Idle
<1> QED
  BY <1>1, IdleFacts DEF IInv, WorldTyped, RunOK, Shape, EnrolOK, PlaceOK,
                         NoDaemon, DaemonOK

LEMMA AfterFacts ==
  ASSUME NEW c, Commands = {c}, IInv, run[c].pc # "idle"
  PROVE  LET r == After(c) IN
         /\ r \in Runs /\ Shape(r)
         /\ r.pc \in {"begin", "done"}
         /\ r.kind = run[c].kind /\ r.key = run[c].key /\ r.id = run[c].id
         /\ r.pc = "begin" /\ Head(r.todo) = "enable" =>
              Head(run[c].todo) = "handoff"
         /\ r.kind = "stop" => Head(run[c].todo) = "stop"
<1>1. run[c] \in Runs /\ run[c].todo \in Todos /\ Shape(run[c])
  BY Here DEF RunOK
<1>2. PICK t \in Todos : t = run[c].todo
  BY <1>1
<1>3. CASE Len(t) = 1
  <2>1. After(c) = [run[c] EXCEPT !.pc = "done"]
    BY <1>2, <1>3 DEF After
  <2> QED
    BY <1>1, <1>2, <2>1, TodoFacts DEF Runs, Shape
<1>4. CASE Len(t) # 1
  <2>1. PICK u \in Todos : u = Tail(t) /\ u # <<>>
                           /\ (Head(u) = "enable" => Head(t) = "handoff")
    BY <1>4, TodoFacts
  <2>2. After(c) = [run[c] EXCEPT !.todo = u, !.pc = "begin"]
    BY <1>2, <1>4, <2>1 DEF After
  <2>3. run[c].kind # "stop"
    BY <1>1, <1>2, <1>4, TodoFacts DEF Shape
  <2> QED
    BY <1>1, <1>2, <2>1, <2>2, <2>3 DEF Runs, Shape
<1> QED
  BY <1>3, <1>4

\* A phase that needs no daemon to be gone has been done.
LEMMA AfterOK ==
  ASSUME NEW c, Commands = {c}, IInv, run[c].pc \notin {"idle", "track"},
         Head(run[c].todo) \notin {"handoff", "stop"}
  PROVE  RunOK(After(c))
<1>1. PICK r \in Runs : r = After(c)
  BY AfterFacts
<1>2. /\ Shape(r) /\ r.pc \in {"begin", "done"}
      /\ r.key = run[c].key /\ r.id = run[c].id
      /\ ~(r.pc = "begin" /\ Head(r.todo) = "enable") /\ r.kind # "stop"
  BY <1>1, AfterFacts
<1>3. RunOK(run[c])
  BY Here
<1>4. EnrolOK(r) /\ PlaceOK(r)
  BY <1>2, <1>3 DEF RunOK, EnrolOK, PlaceOK
<1>5. DaemonOK(r)
  BY <1>2, <1>3 DEF RunOK, DaemonOK, NoDaemon
<1> QED
  BY <1>1, <1>2, <1>3, <1>4, <1>5 DEF RunOK

\* The command goes on at pc, in the same phase.
LEMMA GotoFacts ==
  ASSUME NEW c, Commands = {c}, IInv,
         NEW pc \in {"stale", "stopping", "clear", "look", "done", "activate",
                     "remove"},
         Goto(c, pc)
  PROVE  \E r \in Runs : /\ run' = [run EXCEPT ![c] = r] /\ r.pc = pc
                         /\ r.todo = run[c].todo /\ r.kind = run[c].kind
                         /\ r.key = run[c].key /\ r.id = run[c].id
<1>1. run[c] \in Runs /\ c \in DOMAIN run
  BY Here
<1> DEFINE r == [run[c] EXCEPT !.pc = pc]
<1>2. r \in Runs /\ r.pc = pc
  BY <1>1 DEF Runs
<1>3. /\ r.todo = run[c].todo /\ r.kind = run[c].kind
      /\ r.key = run[c].key /\ r.id = run[c].id
  BY <1>1 DEF Runs
<1>4. run' = [run EXCEPT ![c] = r]
  BY <1>1 DEF Goto
<1> QED
  BY <1>2, <1>3, <1>4

\* The command is abandoned.
LEMMA FailInv ==
  ASSUME NEW c, Commands = {c}, IInv, Fail(c), run[c].pc # "track",
         UNCHANGED <<proc, pidfile, service, enrolled>>,
         spent' = spent \/ (\E b \in Nat : May("fails", b))
  PROVE  IInv'
<1>1. RunOK(Idle) /\ Idle \in Runs
  BY Here, IdleOK, IdleFacts
<1> QED
  BY <1>1, MoveInv DEF Fail

\* A phase that needs no daemon to be gone ends.
LEMMA FinishInv ==
  ASSUME NEW c, Commands = {c}, IInv, Finish(c),
         run[c].pc \notin {"idle", "track"},
         Head(run[c].todo) \notin {"handoff", "stop"},
         UNCHANGED <<proc, pidfile, service, enrolled>>,
         spent' = spent \/ (\E b \in Nat : May("fails", b))
  PROVE  IInv'
<1>1. PICK r \in Runs : r = After(c) /\ RunOK(r)
  BY AfterFacts, AfterOK
<1> QED
  BY <1>1, MoveInv DEF Finish

LEMMA BeginInv ==
  ASSUME NEW c, Commands = {c}, IInv, NEW kind \in Kinds, Begin(c, kind)
  PROVE  IInv'
<1> DEFINE t == Phases[kind]
<1> DEFINE r == [Idle EXCEPT !.kind = kind, !.pc = "begin", !.todo = t]
<1>1. Kinds = {"start", "stop", "restart", "enable", "disable"}
  BY DEF Kinds, Phases
<1>2. t \in Todos /\ (kind = "stop" => t = <<"stop">>)
  BY <1>1 DEF Phases, Todos
<1>3. t # <<>> /\ Head(t) # "enable"
  <2>1. \A a, b, d : Head(<<a, b, d>>) = a /\ Head(<<a>>) = a
    OBVIOUS
  <2> QED
    BY <1>1, <1>2, <2>1, TodoFacts DEF Phases
<1> HIDE DEF t
<1>4. /\ r \in Runs /\ r.kind = kind /\ r.todo = t /\ r.pc = "begin"
      /\ r.id = 0 /\ r.key = 0
  <2>1. t \in Todos \cup {<<>>} /\ kind \in Kinds \cup {"idle"}
    BY <1>2
  <2> QED
    BY <2>1, IdleFacts DEF Runs
<1>5. kind # "idle"
  BY <1>1
<1>6. 0 \in 0..Len(nodes) /\ 0 \in 0..made
  <2>1. Len(nodes) \in Nat /\ made \in Nat
    BY DEF IInv, WorldTyped
  <2> QED
    BY <2>1
<1>7. RunOK(run[c]) /\ run[c].pc = "idle"
  BY Here DEF Begin, RunOK, Shape
<1>8. Shape(r)
  BY <1>2, <1>3, <1>4, <1>5 DEF Shape
<1>9. r.id \in 0..Len(nodes) /\ r.key \in 0..made
  BY <1>4, <1>6
<1>10. EnrolOK(r) /\ PlaceOK(r)
  BY <1>4, <1>7 DEF RunOK, EnrolOK, PlaceOK
<1>11. DaemonOK(r)
  BY <1>3, <1>4, <1>7 DEF RunOK, DaemonOK, NoDaemon
<1>12. run' = [run EXCEPT ![c] = r]
  BY DEF Begin, t
<1> QED
  BY <1>4, <1>8, <1>9, <1>10, <1>11, <1>12, MoveInv DEF RunOK, Begin

----------------------------------------------------------------------------
(* Looking for the daemon *)

NoNode == Orderly => \A p \in Pids : proc[p] # "node"

LEMMA NoNodeIf ==
  ASSUME NEW c, Commands = {c}, IInv, run[c].pc # "track",
         NoDaemon(run[c]) \/ unit \/ pidfile = None
           \/ proc[pidfile] # "node"
  PROVE  NoNode
  BY Here, NoPid DEF RunOK, DaemonOK, NoNode

\* Any phase may end when there is no daemon.
LEMMA AfterNone ==
  ASSUME NEW c, Commands = {c}, IInv, run[c].pc # "idle", NoNode,
         run[c].kind = "stop" => (~active \/ unheard)
  PROVE  RunOK(After(c))
<1>1. PICK r \in Runs : r = After(c)
  BY AfterFacts
<1>2. /\ Shape(r) /\ r.pc \in {"begin", "done"} /\ r.kind = run[c].kind
      /\ r.key = run[c].key /\ r.id = run[c].id
  BY <1>1, AfterFacts
<1>3. RunOK(run[c])
  BY Here
<1>4. EnrolOK(r) /\ PlaceOK(r)
  BY <1>2, <1>3 DEF RunOK, EnrolOK, PlaceOK
<1>5. DaemonOK(r)
  BY DEF DaemonOK, NoNode
<1> QED
  BY <1>1, <1>2, <1>3, <1>4, <1>5 DEF RunOK

LEMMA NotRunningOK ==
  ASSUME NEW c, Commands = {c}, IInv, run[c].pc \in {"begin", "stale"},
         Phase(c) \in {"check", "start", "handoff"},
         Phase(c) = "start" => ~unit, NoNode
  PROVE  NotRunning(c) \in Runs /\ RunOK(NotRunning(c))
<1>1. RunOK(run[c]) /\ Head(run[c].todo) = Phase(c)
  BY Here DEF Phase
<1>2. run[c].kind # "stop"
  <2>1. run[c].todo \in Todos /\ Shape(run[c])
    BY Here DEF RunOK
  <2> QED
    BY <1>1, <2>1, TodoFacts DEF Shape
<1>3. CASE Phase(c) = "start"
  <2>1. PICK r \in Runs :
          /\ r = [run[c] EXCEPT !.pc = "spawn"] /\ r.pc = "spawn"
          /\ r.todo = run[c].todo /\ r.kind = run[c].kind
          /\ r.key = run[c].key /\ r.id = run[c].id
    <3>1. run[c] \in Runs
      BY Here
    <3>2. [run[c] EXCEPT !.pc = "spawn"] \in Runs
      BY <3>1 DEF Runs
    <3> QED
      BY <3>1, <3>2 DEF Runs
  <2>2. Shape(r) /\ EnrolOK(r) /\ PlaceOK(r)
    BY <1>1, <1>2, <1>3, <2>1 DEF RunOK, Shape, EnrolOK, PlaceOK
  <2>3. DaemonOK(r)
    BY DEF DaemonOK, NoNode
  <2>4. NotRunning(c) = r
    BY <1>3, <2>1 DEF NotRunning
  <2> QED
    BY <1>1, <2>1, <2>2, <2>3, <2>4 DEF RunOK
<1>4. CASE Phase(c) # "start"
  BY <1>2, <1>4, AfterNone, AfterFacts DEF NotRunning
<1> QED
  BY <1>3, <1>4

LEMMA LooksFacts ==
  ASSUME NEW c, LooksAtDaemon(c)
  PROVE  /\ run[c].pc = "begin" /\ Phase(c) = Head(run[c].todo)
         /\ Phase(c) \in {"check", "start", "handoff"}
         /\ Phase(c) # "handoff" => ~unit
  BY DEF LooksAtDaemon, In, At, Phase

LEMMA FindDaemonInv ==
  ASSUME NEW c, Commands = {c}, IInv, FindDaemon(c)
  PROVE  IInv'
<1>1. /\ run[c].pc = "begin" /\ Phase(c) = Head(run[c].todo) /\ RunOK(run[c])
      /\ run[c].todo \in Todos
  BY LooksFacts, Here DEF FindDaemon
<1>2. run[c].kind # "stop"
  BY <1>1, LooksFacts, TodoFacts DEF FindDaemon, RunOK, Shape
<1>3. PICK pc \in {"stopping", "done"} :
        /\ pc = "stopping" => Phase(c) = "handoff"
        /\ Goto(c, pc)
  BY DEF FindDaemon, Goto
<1>4. PICK r \in Runs :
        /\ run' = [run EXCEPT ![c] = r] /\ r.pc = pc /\ r.todo = run[c].todo
        /\ r.kind = run[c].kind /\ r.key = run[c].key /\ r.id = run[c].id
  <2>1. CASE pc = "stopping"
    BY <1>3, <2>1, GotoFacts
  <2>2. CASE pc = "done"
    BY <1>3, <2>2, GotoFacts
  <2> QED
    BY <1>3, <2>1, <2>2
<1>5. Shape(r) /\ EnrolOK(r) /\ PlaceOK(r) /\ DaemonOK(r)
  BY <1>1, <1>2, <1>3, <1>4
     DEF RunOK, Shape, EnrolOK, PlaceOK, DaemonOK, NoDaemon
<1> QED
  BY <1>1, <1>4, <1>5, MoveInv DEF RunOK, FindDaemon

LEMMA FindNoneInv ==
  ASSUME NEW c, Commands = {c}, IInv, FindNone(c)
  PROVE  IInv'
<1>1. NoNode
  BY LooksFacts, NoNodeIf DEF FindNone, IsNode
<1>2. PICK r \in Runs : r = NotRunning(c) /\ RunOK(r)
  BY <1>1, LooksFacts, NotRunningOK DEF FindNone
<1> QED
  BY <1>2, MoveInv DEF FindNone

LEMMA FindStaleInv ==
  ASSUME NEW c, Commands = {c}, IInv, FindStale(c)
  PROVE  IInv'
<1>1. /\ run[c].pc = "begin" /\ Phase(c) = Head(run[c].todo) /\ RunOK(run[c])
      /\ run[c].todo \in Todos
  BY LooksFacts, Here DEF FindStale
<1>2. NoNode
  BY <1>1, NoNodeIf DEF FindStale, Alive
<1>3. PICK r \in Runs :
        /\ run' = [run EXCEPT ![c] = r] /\ r.pc = "stale"
        /\ r.todo = run[c].todo /\ r.kind = run[c].kind
        /\ r.key = run[c].key /\ r.id = run[c].id
  <2>1. Goto(c, "stale")
    BY DEF FindStale
  <2> QED
    BY <2>1, GotoFacts
<1>4. Shape(r) /\ EnrolOK(r) /\ PlaceOK(r)
  BY <1>1, <1>3, LooksFacts DEF FindStale, RunOK, Shape, EnrolOK, PlaceOK
<1>5. DaemonOK(r)
  BY <1>2 DEF DaemonOK, NoNode
<1> QED
  BY <1>1, <1>3, <1>4, <1>5, MoveInv DEF RunOK, FindStale

\* The pid file is cleared when there is no daemon.
LEMMA ClearInv ==
  ASSUME NEW c, Commands = {c}, IInv, NEW r \in Runs,
         run' = [run EXCEPT ![c] = r], pidfile' = None, RunOK(r), NoNode,
         UNCHANGED <<proc, service, enrolled, spent>>
  PROVE  IInv'
<1>1. WorldTyped'
  BY DEF IInv, WorldTyped, service, enrolled
<1>2. ServiceOK'
  BY DEF IInv, ServiceOK, service
<1>3. Shape(r) /\ EnrolOK(r)' /\ PlaceOK(r)'
  BY DEF RunOK, EnrolOK, PlaceOK, service, enrolled
<1>4. DaemonOK(r)'
  BY DEF DaemonOK, NoNode, Orderly
<1>5. RunOK(r)'
  BY <1>3, <1>4 DEF RunOK, Shape, enrolled
<1> QED
  BY <1>1, <1>2, <1>5, BecomesInv

LEMMA ClearStaleInv ==
  ASSUME NEW c, Commands = {c}, IInv, ClearStale(c)
  PROVE  IInv'
<1>1. /\ run[c].pc = "stale" /\ Phase(c) = Head(run[c].todo)
      /\ Shape(run[c]) /\ PlaceOK(run[c])
  BY Here DEF ClearStale, At, Phase, RunOK
<1>2. NoNode
  BY <1>1, NoNodeIf DEF NoDaemon
<1>3. PICK r \in Runs : r = NotRunning(c) /\ RunOK(r)
  BY <1>1, <1>2, NotRunningOK DEF Shape, PlaceOK
<1> QED
  BY <1>2, <1>3, ClearInv DEF ClearStale

LEMMA CheckServiceInv ==
  ASSUME NEW c, Commands = {c}, IInv, CheckService(c)
  PROVE  IInv'
<1>1. /\ run[c].pc = "begin" /\ Head(run[c].todo) = "check" /\ RunOK(run[c])
      /\ run[c].todo \in Todos
  BY Here DEF CheckService, In, At, Phase
<1>2. CASE Services # {}
  <2>1. PICK r \in Runs :
          /\ run' = [run EXCEPT ![c] = r] /\ r.pc = "done"
          /\ r.todo = run[c].todo /\ r.kind = run[c].kind
          /\ r.key = run[c].key /\ r.id = run[c].id
    <3>1. Goto(c, "done")
      BY <1>2 DEF CheckService, Goto
    <3> QED
      BY <3>1, GotoFacts
  <2>2. run[c].kind # "stop"
    BY <1>1, TodoFacts DEF RunOK, Shape
  <2>3. Shape(r) /\ EnrolOK(r) /\ PlaceOK(r) /\ DaemonOK(r)
    BY <1>1, <2>1, <2>2
       DEF RunOK, Shape, EnrolOK, PlaceOK, DaemonOK, NoDaemon
  <2> QED
    BY <1>1, <2>1, <2>3, MoveInv DEF RunOK, CheckService
<1>3. CASE Services = {}
  BY <1>1, <1>3, FinishInv DEF CheckService
<1> QED
  BY <1>2, <1>3

----------------------------------------------------------------------------
(* Registering *)

LEMMA RegisteredInv ==
  ASSUME NEW c, Commands = {c}, IInv, Registered(c)
  PROVE  IInv'
  BY FinishInv DEF Registered, In, At, Phase

LEMMA NotLoggedInInv ==
  ASSUME NEW c, Commands = {c}, IInv, NotLoggedIn(c)
  PROVE  IInv'
  BY FailInv DEF NotLoggedIn, In, At

LEMMA KeyFacts ==
  ASSUME IInv
  PROVE  /\ made \in Nat /\ keyfile \in Nat /\ Len(nodes) \in Nat
         /\ nodes \in Seq(1..(made + 1))
         /\ \A k \in 1..made :
              /\ Append(nodes, k) \in Seq(1..made)
              /\ Len(Append(nodes, k)) = Len(nodes) + 1
              /\ Append(nodes, k)[Len(nodes) + 1] = k
<1>1. made \in Nat /\ keyfile \in Nat /\ nodes \in Seq(1..made)
  BY DEF IInv, WorldTyped
<1>2. PICK s : s = nodes
  OBVIOUS
<1>3. Len(s) \in Nat /\ s \in [1..Len(s) -> 1..made]
  BY <1>1, <1>2
<1>4. PICK K : K = 1..(made + 1)
  OBVIOUS
<1>5. s \in Seq(K)
  <2>1. 1..made \subseteq K
    BY <1>1, <1>4
  <2>2. s \in [1..Len(s) -> K]
    BY <1>3, <2>1
  <2> QED
    BY <1>3, <2>2
<1>6. \A k \in 1..made : /\ Append(s, k) \in Seq(1..made)
                         /\ Len(Append(s, k)) = Len(s) + 1
                         /\ Append(s, k)[Len(s) + 1] = k
  BY <1>1, <1>2
<1> QED
  BY <1>1, <1>2, <1>3, <1>4, <1>5, <1>6

AtPost(q, n) == [q EXCEPT !.pc = "post", !.key = n]
AtSave(q, n) == [q EXCEPT !.pc = "save", !.id = n]

LEMMA RegisteringRuns ==
  ASSUME NEW q \in Runs, NEW n \in Nat
  PROVE  AtPost(q, n) \in Runs /\ AtSave(q, n) \in Runs
  BY DEF Runs, AtPost, AtSave

LEMMA WriteKeyInv ==
  ASSUME NEW c, Commands = {c}, IInv, WriteKey(c)
  PROVE  IInv'
<1>1. /\ run[c] \in Runs /\ RunOK(run[c]) /\ c \in DOMAIN run
      /\ run[c].pc = "begin" /\ Head(run[c].todo) = "register"
      /\ run[c].todo \in Todos
  BY Here DEF WriteKey, In, At, Phase
<1>2. made \in Nat /\ Len(nodes) \in Nat /\ nodes \in Seq(1..(made + 1))
  BY KeyFacts
<1>3. run[c].kind # "stop"
  BY <1>1, TodoFacts DEF RunOK, Shape
<1>4. PICK r \in Runs :
        /\ r = AtPost(run[c], made + 1)
        /\ r.pc = "post" /\ r.key = made + 1 /\ r.id = run[c].id
        /\ r.todo = run[c].todo /\ r.kind = run[c].kind
  <2>1. PICK n \in Nat : n = made + 1
    BY <1>2
  <2>2. PICK q \in Runs : q = run[c]
    BY <1>1
  <2>3. AtPost(q, n) \in Runs
    BY RegisteringRuns
  <2>4. PICK r \in Runs : r = AtPost(q, n)
    BY <2>3
  <2>5. /\ r.pc = "post" /\ r.key = n /\ r.id = q.id
        /\ r.todo = q.todo /\ r.kind = q.kind
    BY <2>1, <2>2, <2>4 DEF AtPost, Runs
  <2> QED
    BY <2>1, <2>2, <2>4, <2>5
<1>5. run' = [run EXCEPT ![c] = r]
  BY <1>1, <1>4 DEF WriteKey, AtPost
<1>6. /\ made' = made + 1 /\ keyfile' = made + 1 /\ identity = 0
      /\ UNCHANGED <<proc, pidfile, service, identity, nodes, spent>>
      /\ made < MaxNodes
  BY DEF WriteKey, None
<1>7. WorldTyped'
  <2>1. made + 1 \in 0..MaxNodes /\ made + 1 \in 0..(made + 1)
    BY <1>2, <1>6
  <2> QED
    BY <2>1, <1>2, <1>6 DEF IInv, WorldTyped, service
<1>8. ServiceOK'
  BY <1>6 DEF IInv, ServiceOK, service
<1>9. Shape(r)
  BY <1>1, <1>4 DEF RunOK, Shape
<1>10. EnrolOK(r)'
  BY <1>2, <1>4, <1>6 DEF EnrolOK, None
<1>11. PlaceOK(r)'
  BY <1>1, <1>3, <1>4, <1>6 DEF RunOK, PlaceOK, service
<1>12. DaemonOK(r)'
  BY <1>1, <1>3, <1>4, <1>6 DEF RunOK, DaemonOK, NoDaemon, Orderly, service
<1>13. r.id \in 0..Len(nodes') /\ r.key \in 0..made'
  BY <1>1, <1>2, <1>4, <1>6 DEF RunOK
<1> QED
  BY <1>4, <1>5, <1>7, <1>8, <1>9, <1>10, <1>11, <1>12, <1>13, BecomesInv
     DEF RunOK, Shape

\* A public key reaches the server while there is no identity.
LEMMA PostedFacts ==
  ASSUME NEW c, Commands = {c}, IInv, At(c, "post")
  PROVE  /\ identity = 0 /\ run[c].key = keyfile /\ run[c].key \in 1..made
         /\ run[c].pc = "post" /\ Head(run[c].todo) = "register"
         /\ run[c].kind # "stop"
<1>1. RunOK(run[c]) /\ run[c].todo \in Todos /\ run[c].pc = "post"
  BY Here DEF At
<1>2. made \in Nat /\ run[c].key \in 0..made /\ run[c].key # 0
  BY <1>1, KeyFacts DEF RunOK, EnrolOK, None
<1>3. Head(run[c].todo) = "register"
  BY <1>1 DEF RunOK, Shape
<1>4. run[c].kind # "stop"
  BY <1>1, <1>3, TodoFacts DEF RunOK, Shape
<1> QED
  BY <1>1, <1>2, <1>3, <1>4 DEF RunOK, EnrolOK, None

LEMMA PostInv ==
  ASSUME NEW c, Commands = {c}, IInv, Post(c)
  PROVE  IInv'
<1>1. run[c] \in Runs /\ RunOK(run[c]) /\ c \in DOMAIN run
  BY Here
<1>2. /\ identity = 0 /\ run[c].key = keyfile /\ run[c].key \in 1..made
      /\ run[c].pc = "post" /\ Head(run[c].todo) = "register"
      /\ run[c].kind # "stop"
  BY PostedFacts DEF Post
<1>3. Len(nodes) \in Nat
  BY KeyFacts
<1>4. PICK r \in Runs :
        /\ r = AtSave(run[c], Len(nodes) + 1)
        /\ r.pc = "save" /\ r.key = run[c].key /\ r.id = Len(nodes) + 1
        /\ r.todo = run[c].todo /\ r.kind = run[c].kind
  <2>1. PICK n \in Nat : n = Len(nodes) + 1
    BY <1>3
  <2>2. PICK q \in Runs : q = run[c]
    BY <1>1
  <2>3. AtSave(q, n) \in Runs
    BY RegisteringRuns
  <2>4. PICK r \in Runs : r = AtSave(q, n)
    BY <2>3
  <2>5. /\ r.pc = "save" /\ r.key = q.key /\ r.id = n
        /\ r.todo = q.todo /\ r.kind = q.kind
    BY <2>1, <2>2, <2>4 DEF AtSave, Runs
  <2> QED
    BY <2>1, <2>2, <2>4, <2>5
<1>5. run' = [run EXCEPT ![c] = r]
  BY <1>1, <1>4 DEF Post, AtSave
<1>6. PICK k \in 1..made : k = run[c].key
  BY <1>2
<1>7. PICK s : s = Append(nodes, k)
  OBVIOUS
<1>8. s \in Seq(1..made) /\ Len(s) = Len(nodes) + 1 /\ s[Len(nodes) + 1] = k
  BY <1>7, KeyFacts
<1>9. /\ nodes' = s
      /\ UNCHANGED <<proc, pidfile, service, keyfile, identity, made, spent>>
  BY <1>6, <1>7 DEF Post
<1>10. WorldTyped'
  <2>1. WorldTyped /\ UNCHANGED <<unit, active, unheard>>
    BY <1>9 DEF IInv, service
  <2>2. /\ nodes' \in Seq(1..made) /\ Len(nodes) \in Nat
        /\ identity \in 0..Len(nodes) /\ Len(nodes') = Len(nodes) + 1
    BY <1>8, <1>9, <2>1 DEF WorldTyped
  <2>3. identity' \in 0..Len(nodes')
    BY <1>9, <2>2
  <2> QED
    BY <1>9, <2>1, <2>2, <2>3 DEF WorldTyped
<1>11. ServiceOK'
  BY <1>9 DEF IInv, ServiceOK, service
<1>12. Shape(r)
  BY <1>1, <1>2, <1>4 DEF RunOK, Shape
<1>13. EnrolOK(r)'
  BY <1>2, <1>3, <1>4, <1>6, <1>8, <1>9 DEF EnrolOK, None
<1>14. PlaceOK(r)'
  BY <1>1, <1>2, <1>4, <1>9 DEF RunOK, PlaceOK, service
<1>15. DaemonOK(r)'
  BY <1>1, <1>2, <1>4, <1>9 DEF RunOK, DaemonOK, NoDaemon, Orderly, service
<1>16. r.id \in 0..Len(nodes') /\ r.key \in 0..made'
  BY <1>2, <1>3, <1>4, <1>8, <1>9
<1> QED
  BY <1>4, <1>5, <1>10, <1>11, <1>12, <1>13, <1>14, <1>15, <1>16, BecomesInv
     DEF RunOK, Shape

LEMMA PostFailsInv ==
  ASSUME NEW c, Commands = {c}, IInv, PostFails(c)
  PROVE  IInv'
<1>1. /\ identity = 0 /\ run[c].key \in 1..made /\ run[c].pc = "post"
  BY PostedFacts DEF PostFails
<1>2. RunOK(Idle) /\ Idle \in Runs /\ Idle.pc = "idle" /\ Idle.kind = "idle"
      /\ Idle.id = 0 /\ Idle.key = 0
  BY <1>1, Here, IdleOK, IdleFacts
<1>3. PICK s : s = nodes'
  OBVIOUS
<1>4. s \in Seq(1..made) /\ Len(s) \in Nat /\ made \in Nat
  <2>1. nodes \in Seq(1..made) /\ Append(nodes, run[c].key) \in Seq(1..made)
    BY <1>1, KeyFacts DEF IInv, WorldTyped
  <2>2. s \in Seq(1..made)
    BY <1>3, <2>1 DEF PostFails
  <2> QED
    BY <2>2, KeyFacts
<1>5. /\ spent' \in [{"fails", "cuts", "ends", "strangers"} -> Nat]
      /\ spent'["cuts"] = spent["cuts"]
  BY DEF IInv, WorldTyped, PostFails, May
<1>6. UNCHANGED <<proc, pidfile, service, keyfile, identity, made>>
  BY DEF PostFails
<1>7. WorldTyped'
  BY <1>1, <1>3, <1>4, <1>5, <1>6 DEF IInv, WorldTyped, service
<1>8. ServiceOK'
  BY <1>6 DEF IInv, ServiceOK, service
<1>9. Shape(Idle) /\ EnrolOK(Idle)' /\ PlaceOK(Idle)'
  BY <1>1, <1>2, <1>6 DEF RunOK, EnrolOK, PlaceOK, None
<1>10. DaemonOK(Idle)'
  BY <1>2, <1>5, <1>6 DEF RunOK, DaemonOK, NoDaemon, Orderly, service
<1>11. Idle.id \in 0..Len(nodes') /\ Idle.key \in 0..made'
  BY <1>2, <1>3, <1>4, <1>6
<1> QED
  BY <1>2, <1>7, <1>8, <1>9, <1>10, <1>11, BecomesInv
     DEF RunOK, Shape, PostFails, Fail

LEMMA SaveIdentityInv ==
  ASSUME NEW c, Commands = {c}, IInv, SaveIdentity(c)
  PROVE  IInv'
<1>1. /\ RunOK(run[c]) /\ run[c].pc = "save"
      /\ Head(run[c].todo) = "register"
  BY Here DEF SaveIdentity, At, RunOK, Shape
<1>2. PICK r \in Runs : r = After(c) /\ RunOK(r) /\ r.pc \in {"begin", "done"}
  BY <1>1, AfterFacts, AfterOK
<1>3. identity' \in 1..Len(nodes) /\ nodes[identity'] = keyfile
  BY <1>1 DEF RunOK, EnrolOK, SaveIdentity
<1>4. UNCHANGED <<proc, pidfile, service, keyfile, nodes, made, spent>>
  BY DEF SaveIdentity
<1>5. WorldTyped'
  BY <1>3, <1>4, KeyFacts DEF IInv, WorldTyped, service
<1>6. ServiceOK'
  BY <1>4 DEF IInv, ServiceOK, service
<1>7. EnrolOK(r)'
  BY <1>2, <1>3, <1>4 DEF EnrolOK
<1>8. Shape(r) /\ PlaceOK(r)' /\ DaemonOK(r)'
  BY <1>2, <1>4 DEF RunOK, PlaceOK, DaemonOK, NoDaemon, Orderly, service
<1> QED
  BY <1>2, <1>4, <1>5, <1>6, <1>7, <1>8, BecomesInv
     DEF RunOK, Shape, SaveIdentity, Finish

----------------------------------------------------------------------------
(* Starting the daemon *)

LEMMA SpawnInv ==
  ASSUME NEW c, Commands = {c}, IInv, Spawn(c)
  PROVE  IInv'
<1>1. /\ run[c] \in Runs /\ RunOK(run[c]) /\ run[c].pc = "spawn" /\ ~unit
      /\ Head(run[c].todo) = "start" /\ c \in DOMAIN run
      /\ run[c].todo \in Todos
  BY Here DEF Spawn, At, RunOK, Shape, PlaceOK
<1>2. run[c].kind # "stop"
  BY <1>1, TodoFacts DEF RunOK, Shape
<1>3. NoNode
  BY <1>1, NoNodeIf DEF NoDaemon
<1>4. PICK p \in Pids :
        /\ proc[p] = "free" /\ proc' = [proc EXCEPT ![p] = "node"]
        /\ run' = [run EXCEPT ![c].pc = "track", ![c].child = p]
  BY DEF Spawn, Free
<1>5. PICK r : r = [run[c] EXCEPT !.pc = "track", !.child = p]
  OBVIOUS
<1>6. /\ r \in Runs /\ r.pc = "track" /\ r.child = p /\ r.key = run[c].key
      /\ r.id = run[c].id /\ r.todo = run[c].todo /\ r.kind = run[c].kind
  BY <1>1, <1>5 DEF Runs
<1>7. run' = [run EXCEPT ![c] = r]
  BY <1>1, <1>4, <1>5
<1>8. UNCHANGED <<pidfile, service, enrolled, spent>>
  BY DEF Spawn
<1>9. WorldTyped'
  BY <1>4, <1>8 DEF IInv, WorldTyped, service, enrolled
<1>10. ServiceOK'
  BY <1>4, <1>8 DEF IInv, WorldTyped, ServiceOK, service
<1>11. Shape(r) /\ EnrolOK(r)' /\ PlaceOK(r)'
  BY <1>1, <1>2, <1>6, <1>8, NoPid
     DEF RunOK, Shape, EnrolOK, PlaceOK, service, enrolled
<1>12. DaemonOK(r)'
  BY <1>1, <1>3, <1>4, <1>6, <1>8
     DEF IInv, WorldTyped, DaemonOK, NoDaemon, NoNode, Orderly, service
<1> QED
  BY <1>1, <1>6, <1>7, <1>8, <1>9, <1>10, <1>11, <1>12, BecomesInv
     DEF RunOK, Shape, enrolled

LEMMA WritePidInv ==
  ASSUME NEW c, Commands = {c}, IInv, WritePid(c)
  PROVE  IInv'
<1>1. /\ run[c] \in Runs /\ RunOK(run[c]) /\ run[c].pc = "track"
      /\ Head(run[c].todo) = "start" /\ run[c].todo \in Todos
      /\ run[c].child \in Pids
  BY Here DEF WritePid, At, RunOK, Shape, Runs
<1>2. run[c].kind # "stop"
  BY <1>1, TodoFacts DEF RunOK, Shape
<1>3. PICK r \in Runs :
        /\ run' = [run EXCEPT ![c] = r] /\ r.pc = "look"
        /\ r.todo = run[c].todo /\ r.kind = run[c].kind
        /\ r.key = run[c].key /\ r.id = run[c].id
  <2>1. Goto(c, "look")
    BY DEF WritePid
  <2> QED
    BY <2>1, GotoFacts
<1>4. /\ pidfile' = run[c].child
      /\ UNCHANGED <<proc, service, enrolled, spent>>
  BY DEF WritePid
<1>5. WorldTyped'
  BY <1>1, <1>4 DEF IInv, WorldTyped, service, enrolled
<1>6. ServiceOK'
  BY <1>4 DEF IInv, ServiceOK, service
<1>7. Shape(r) /\ EnrolOK(r)' /\ PlaceOK(r)'
  BY <1>1, <1>2, <1>3, <1>4
     DEF RunOK, Shape, EnrolOK, PlaceOK, service, enrolled
<1>8. DaemonOK(r)'
  BY <1>1, <1>2, <1>3, <1>4 DEF RunOK, DaemonOK, NoDaemon, Orderly, service
<1> QED
  BY <1>1, <1>3, <1>4, <1>5, <1>6, <1>7, <1>8, BecomesInv
     DEF RunOK, Shape, enrolled

LEMMA LookInv ==
  ASSUME NEW c, Commands = {c}, IInv, Look(c)
  PROVE  IInv'
<1>1. run[c].pc = "look" /\ Head(run[c].todo) = "start"
  BY Here DEF Look, At, RunOK, Shape
<1> QED
  BY <1>1, FinishInv DEF Look

----------------------------------------------------------------------------
(* Stopping it *)

LEMMA StopsFacts ==
  ASSUME NEW c, Commands = {c}, IInv, Stops(c)
  PROVE  /\ run[c] \in Runs /\ RunOK(run[c]) /\ run[c].todo \in Todos
         /\ run[c].pc \in {"begin", "stopping"}
         /\ Head(run[c].todo) \in {"stop", "handoff"}
         /\ Head(run[c].todo) = "stop" => ~unit
  BY Here DEF Stops, In, At, Phase, RunOK, Shape

LEMMA ToClearOK ==
  ASSUME NEW c, Commands = {c}, IInv, NoNode, Goto(c, "clear"),
         run[c].pc # "idle",
         Head(run[c].todo) \in {"stop", "handoff"},
         Head(run[c].todo) = "stop" => ~unit
  PROVE  \E r \in Runs : run' = [run EXCEPT ![c] = r] /\ RunOK(r)
<1>1. PICK r \in Runs :
        /\ run' = [run EXCEPT ![c] = r] /\ r.pc = "clear"
        /\ r.todo = run[c].todo /\ r.kind = run[c].kind
        /\ r.key = run[c].key /\ r.id = run[c].id
  BY GotoFacts
<1>2. RunOK(run[c])
  BY Here
<1>3. Shape(r) /\ EnrolOK(r) /\ PlaceOK(r)
  BY <1>1, <1>2 DEF RunOK, Shape, EnrolOK, PlaceOK
<1>4. DaemonOK(r)
  BY DEF DaemonOK, NoNode
<1> QED
  BY <1>1, <1>2, <1>3, <1>4 DEF RunOK

LEMMA StopNoneInv ==
  ASSUME NEW c, Commands = {c}, IInv, StopNone(c)
  PROVE  IInv'
<1>1. /\ run[c].pc \in {"begin", "stopping"}
      /\ Head(run[c].todo) \in {"stop", "handoff"}
      /\ Head(run[c].todo) = "stop" => ~unit
  BY StopsFacts DEF StopNone
<1>2. NoNode
  BY <1>1, NoNodeIf DEF StopNone, Alive
<1>3. PICK r \in Runs : run' = [run EXCEPT ![c] = r] /\ RunOK(r)
  BY <1>1, <1>2, ToClearOK DEF StopNone
<1> QED
  BY <1>3, MoveInv DEF StopNone

LEMMA TerminateInv ==
  ASSUME NEW c, Commands = {c}, IInv, Terminate(c)
  PROVE  IInv'
<1>1. /\ run[c] \in Runs /\ RunOK(run[c]) /\ run[c].todo \in Todos
      /\ run[c].pc \in {"begin", "stopping"} /\ c \in DOMAIN run
      /\ Head(run[c].todo) \in {"stop", "handoff"}
      /\ Head(run[c].todo) = "stop" => ~unit
  BY StopsFacts, Here DEF Terminate
<1>2. PICK r : r = [run[c] EXCEPT !.pc = "wait", !.pid = pidfile]
  OBVIOUS
<1>3. pidfile \in {None} \cup Pids
  BY DEF IInv, WorldTyped
<1>4. /\ r \in Runs /\ r.pc = "wait" /\ r.pid = pidfile /\ r.key = run[c].key
      /\ r.id = run[c].id /\ r.todo = run[c].todo /\ r.kind = run[c].kind
  BY <1>1, <1>2, <1>3 DEF Runs
<1>5. run' = [run EXCEPT ![c] = r]
  BY <1>1, <1>2 DEF Terminate
<1>6. Shape(r) /\ EnrolOK(r) /\ PlaceOK(r)
  BY <1>1, <1>4 DEF RunOK, Shape, EnrolOK, PlaceOK
<1>7. DaemonOK(r)
  BY <1>1, <1>4 DEF RunOK, DaemonOK, NoDaemon
<1> QED
  BY <1>1, <1>4, <1>5, <1>6, <1>7, MoveInv DEF RunOK, Terminate

LEMMA GoneInv ==
  ASSUME NEW c, Commands = {c}, IInv, Gone(c)
  PROVE  IInv'
<1>1. /\ run[c].pc = "wait" /\ RunOK(run[c]) /\ run[c] \in Runs
      /\ Head(run[c].todo) \in {"stop", "handoff"}
      /\ Head(run[c].todo) = "stop" => ~unit
  BY Here DEF Gone, At, RunOK, Shape, PlaceOK
<1>2. NoNode
  BY <1>1, NoPid DEF Gone, Alive, RunOK, DaemonOK, NoNode
<1>3. PICK r \in Runs : run' = [run EXCEPT ![c] = r] /\ RunOK(r)
  BY <1>1, <1>2, ToClearOK DEF Gone
<1> QED
  BY <1>3, MoveInv DEF Gone

LEMMA ClearPidInv ==
  ASSUME NEW c, Commands = {c}, IInv, ClearPid(c)
  PROVE  IInv'
<1>1. run[c].pc = "clear" /\ RunOK(run[c]) /\ run[c].todo \in Todos
  BY Here DEF ClearPid, At
<1>2. NoNode
  BY <1>1, NoNodeIf DEF NoDaemon
<1>3. run[c].kind = "stop" => ~active
  <2>1. ServiceOK
    BY DEF IInv
  <2> QED
    BY <1>1, <2>1, TodoFacts DEF RunOK, Shape, PlaceOK, ServiceOK
<1>4. PICK r \in Runs : r = After(c) /\ RunOK(r)
  BY <1>1, <1>2, <1>3, AfterNone, AfterFacts
<1> QED
  BY <1>2, <1>4, ClearInv DEF ClearPid, Finish

----------------------------------------------------------------------------
(* Processes come and go *)

Words == {"free", "zombie", "node", "service", "other"}

\* No node is there that was not there before, nor a service.
Fewer(after) ==
  /\ after \in [Pids -> Words]
  /\ \A p \in Pids : after[p] \in {"node", "service"} => after[p] = proc[p]

LEMMA DeadFacts ==
  ASSUME IInv, NEW p \in Pids
  PROVE  /\ Fewer(Dead(p))
         /\ Dead(p)[p] \notin {"node", "service"}
<1>1. proc \in [Pids -> Words]
  BY DEF IInv, WorldTyped, Words
<1>2. PICK w \in {"zombie", "free"} : Dead(p) = [proc EXCEPT ![p] = w]
  BY DEF Dead
<1> QED
  BY <1>1, <1>2 DEF Fewer, Words

LEMMA ReapedFacts ==
  ASSUME IInv, NEW c
  PROVE  Fewer(Reaped(c))
  BY DEF IInv, WorldTyped, Words, Fewer, Reaped

LEMMA WithoutFacts ==
  ASSUME IInv
  PROVE  /\ Fewer(WithoutService)
         /\ \A p \in Pids : WithoutService[p] # "service"
  BY DEF IInv, WorldTyped, Words, Fewer, WithoutService

LEMMA FewerService ==
  ASSUME IInv, Fewer(proc'), UNCHANGED service
  PROVE  ServiceOK'
  BY DEF IInv, ServiceOK, Fewer, service

LEMMA MayFacts ==
  ASSUME IInv, NEW w \in {"fails", "cuts", "ends", "strangers"}, NEW b,
         May(w, b)
  PROVE  /\ spent' \in [{"fails", "cuts", "ends", "strangers"} -> Nat]
         /\ Orderly' => Orderly
         /\ w = "cuts" => ~Orderly'
<1>1. spent \in [{"fails", "cuts", "ends", "strangers"} -> Nat]
  BY DEF IInv, WorldTyped
<1>2. spent' = [spent EXCEPT ![w] = spent[w] + 1]
  BY DEF May
<1>3. spent' \in [{"fails", "cuts", "ends", "strangers"} -> Nat]
  BY <1>1, <1>2
<1>4. CASE w = "cuts"
  <2>1. spent'["cuts"] = spent["cuts"] + 1 /\ spent["cuts"] \in Nat
    BY <1>1, <1>2, <1>4
  <2>2. spent'["cuts"] # 0
    BY <2>1
  <2> QED
    BY <1>3, <1>4, <2>2 DEF Orderly
<1>5. CASE w # "cuts"
  BY <1>1, <1>2, <1>3, <1>5 DEF Orderly
<1> QED
  BY <1>4, <1>5

LEMMA ProcsInv ==
  ASSUME NEW c, Commands = {c}, IInv,
         UNCHANGED <<pidfile, service, enrolled, run>>,
         proc' \in [Pids -> Words], ServiceOK',
         \A p \in Pids : proc'[p] = "node" => proc[p] = "node",
         spent' \in [{"fails", "cuts", "ends", "strangers"} -> Nat],
         Orderly' => Orderly
  PROVE  IInv'
<1>1. PICK r \in Runs : r = run[c] /\ RunOK(r)
  BY Here
<1>2. WorldTyped'
  BY DEF IInv, WorldTyped, Words, service, enrolled
<1>3. EnrolOK(r)' /\ PlaceOK(r)'
  BY <1>1 DEF RunOK, EnrolOK, PlaceOK, service, enrolled
<1>4. DaemonOK(r)'
  BY <1>1 DEF RunOK, DaemonOK, NoDaemon, service
<1>5. RunOK(r)'
  BY <1>1, <1>3, <1>4 DEF RunOK, Shape, enrolled
<1>6. run' = [x \in Commands |-> r]
  BY <1>1 DEF IInv
<1> QED
  BY <1>2, <1>5, <1>6, BecomesInv

LEMMA ObeyInv ==
  ASSUME NEW c, Commands = {c}, IInv, Obey(c)
  PROVE  IInv'
<1>1. run[c].pid \in Pids
  BY Here DEF Runs, Obey, Alive
<1>2. Fewer(proc')
  BY <1>1, DeadFacts DEF Obey
<1>3. ServiceOK'
  BY <1>2, FewerService DEF Obey
<1> QED
  BY <1>2, <1>3, ProcsInv DEF Obey, Fewer, IInv, WorldTyped, Orderly

LEMMA NodeEndsInv ==
  ASSUME NEW c, Commands = {c}, IInv, NEW p \in Pids, NodeEnds(p)
  PROVE  IInv'
<1>1. Fewer(proc')
  BY DeadFacts DEF NodeEnds
<1>2. ServiceOK'
  BY <1>1, FewerService DEF NodeEnds
<1>3. /\ spent' \in [{"fails", "cuts", "ends", "strangers"} -> Nat]
      /\ Orderly' => Orderly
  BY MayFacts DEF NodeEnds
<1> QED
  BY <1>1, <1>2, <1>3, ProcsInv DEF NodeEnds, Fewer

LEMMA StrangerStartsInv ==
  ASSUME NEW c, Commands = {c}, IInv, NEW p \in Pids, StrangerStarts(p)
  PROVE  IInv'
<1>1. Fewer(proc')
  BY DEF StrangerStarts, Fewer, IInv, WorldTyped, Words
<1>2. ServiceOK'
  BY <1>1, FewerService DEF StrangerStarts
<1>3. /\ spent' \in [{"fails", "cuts", "ends", "strangers"} -> Nat]
      /\ Orderly' => Orderly
  BY MayFacts DEF StrangerStarts
<1> QED
  BY <1>1, <1>2, <1>3, ProcsInv DEF StrangerStarts, Fewer

LEMMA StrangerEndsInv ==
  ASSUME NEW c, Commands = {c}, IInv, NEW p \in Pids, StrangerEnds(p)
  PROVE  IInv'
<1>1. Fewer(proc')
  BY DEF StrangerEnds, Fewer, IInv, WorldTyped, Words
<1>2. ServiceOK'
  BY <1>1, FewerService DEF StrangerEnds
<1> QED
  BY <1>1, <1>2, ProcsInv DEF StrangerEnds, Fewer, IInv, WorldTyped, Orderly

\* The service has been started on a free pid, or was up.
Served ==
  /\ active' = TRUE /\ unit' = TRUE /\ UNCHANGED unheard
  /\ \/ UNCHANGED proc
     \/ \E p \in Pids : /\ proc[p] = "free"
                        /\ proc' = [proc EXCEPT ![p] = "service"]
                        /\ \A q \in Pids : proc[q] # "service"

LEMMA ServedFacts ==
  ASSUME IInv, Served
  PROVE  /\ proc' \in [Pids -> Words] /\ ServiceOK'
         /\ \A p \in Pids : proc'[p] = "node" => proc[p] = "node"
<1>1. proc \in [Pids -> Words] /\ ServiceOK
  BY DEF IInv, WorldTyped, Words
<1>2. CASE UNCHANGED proc
  BY <1>1, <1>2 DEF Served, ServiceOK
<1>3. ASSUME NEW p \in Pids, proc[p] = "free",
             proc' = [proc EXCEPT ![p] = "service"],
             \A q \in Pids : proc[q] # "service"
      PROVE  /\ proc' \in [Pids -> Words] /\ ServiceOK'
             /\ \A q \in Pids : proc'[q] = "node" => proc[q] = "node"
  BY <1>1, <1>3 DEF Served, ServiceOK, Words
<1> QED
  BY <1>2, <1>3 DEF Served

LEMMA ServiceRestartsInv ==
  ASSUME NEW c, Commands = {c}, IInv, ServiceRestarts
  PROVE  IInv'
<1>1. active = TRUE /\ unit = TRUE
  BY DEF ServiceRestarts, IInv, WorldTyped, ServiceOK
<1>2. Served
  BY <1>1 DEF ServiceRestarts, Served, Services, Free, service
<1> QED
  BY <1>2, ServedFacts, ProcsInv
     DEF ServiceRestarts, IInv, WorldTyped, Orderly

----------------------------------------------------------------------------
(* Steps after which there is no daemon *)

LEMMA CleanStep ==
  ASSUME NEW c, Commands = {c}, IInv, NEW r \in Runs,
         run' = [run EXCEPT ![c] = r] \/ run' = [x \in Commands |-> r],
         UNCHANGED <<pidfile, enrolled>>,
         proc' \in [Pids -> Words], unit' \in BOOLEAN, active' \in BOOLEAN,
         unheard' \in BOOLEAN,
         spent' \in [{"fails", "cuts", "ends", "strangers"} -> Nat],
         ServiceOK', NoNode', Shape(r), EnrolOK(r), PlaceOK(r)',
         r.id \in 0..Len(nodes), r.key \in 0..made
  PROVE  IInv'
<1>1. WorldTyped'
  BY DEF IInv, WorldTyped, Words, enrolled
<1>2. EnrolOK(r)'
  BY DEF EnrolOK, enrolled
<1>3. DaemonOK(r)'
  BY DEF DaemonOK, NoNode, Orderly
<1>4. RunOK(r)'
  BY <1>2, <1>3 DEF RunOK, Shape, enrolled
<1> QED
  BY <1>1, <1>4, BecomesInv

LEMMA TypedFacts ==
  ASSUME IInv
  PROVE  /\ proc \in [Pids -> Words] /\ unit \in BOOLEAN /\ active \in BOOLEAN
         /\ unheard \in BOOLEAN
         /\ spent \in [{"fails", "cuts", "ends", "strangers"} -> Nat]
         /\ ServiceOK
  BY DEF IInv, WorldTyped, Words

LEMMA NoNodeStays ==
  ASSUME NoNode, Orderly' => Orderly,
         \A p \in Pids : proc'[p] = "node" => proc[p] = "node"
  PROVE  NoNode'
  BY DEF NoNode

LEMMA KillInv ==
  ASSUME NEW c, Commands = {c}, IInv, Kill(c)
  PROVE  IInv'
<1>1. /\ run[c].pc = "wait" /\ RunOK(run[c]) /\ run[c] \in Runs
      /\ Head(run[c].todo) \in {"stop", "handoff"}
      /\ Head(run[c].todo) = "stop" => ~unit
  BY Here DEF Kill, At, RunOK, Shape, PlaceOK
<1>2. PICK p \in Pids : p = run[c].pid
  BY <1>1 DEF Runs, Kill, Alive
<1>3. proc' = Dead(p) /\ UNCHANGED <<pidfile, service, enrolled, spent>>
  BY <1>2 DEF Kill
<1>4. Fewer(proc') /\ proc'[p] # "node"
  BY <1>3, DeadFacts
<1>5. NoNode'
  BY <1>1, <1>2, <1>3, <1>4 DEF RunOK, DaemonOK, NoNode, Orderly, Fewer
<1>6. ServiceOK'
  BY <1>3, <1>4, FewerService
<1>7. PICK r \in Runs :
        /\ run' = [run EXCEPT ![c] = r] /\ r.pc = "clear"
        /\ r.todo = run[c].todo /\ r.kind = run[c].kind
        /\ r.key = run[c].key /\ r.id = run[c].id
  <2>1. Goto(c, "clear")
    BY DEF Kill
  <2> QED
    BY <2>1, GotoFacts
<1>8. Shape(r) /\ EnrolOK(r) /\ PlaceOK(r)'
  BY <1>1, <1>3, <1>7 DEF RunOK, Shape, EnrolOK, PlaceOK, service
<1>9. r.id \in 0..Len(nodes) /\ r.key \in 0..made
  BY <1>1, <1>7 DEF RunOK
<1> QED
  BY <1>3, <1>4, <1>5, <1>6, <1>7, <1>8, <1>9, CleanStep, TypedFacts
     DEF Fewer, service

\* A command that ends where systemd has just been told what to do.
LEMMA AfterStep ==
  ASSUME NEW c, Commands = {c}, IInv, Finish(c), run[c].pc # "idle",
         run[c].kind = "stop" => (~active' \/ unheard'), NoNode,
         UNCHANGED <<pidfile, enrolled>>,
         proc' \in [Pids -> Words], unit' \in BOOLEAN, active' \in BOOLEAN,
         unheard' \in BOOLEAN,
         spent' \in [{"fails", "cuts", "ends", "strangers"} -> Nat],
         Orderly' => Orderly,
         \A p \in Pids : proc'[p] = "node" => proc[p] = "node",
         ServiceOK'
  PROVE  IInv'
<1>1. PICK r \in Runs : r = After(c)
  BY AfterFacts
<1>2. /\ Shape(r) /\ r.pc \in {"begin", "done"} /\ r.kind = run[c].kind
      /\ r.key = run[c].key /\ r.id = run[c].id
  BY <1>1, AfterFacts
<1>3. RunOK(run[c])
  BY Here
<1>4. EnrolOK(r) /\ PlaceOK(r)'
  BY <1>2, <1>3 DEF RunOK, EnrolOK, PlaceOK
<1>5. NoNode'
  BY NoNodeStays
<1>6. r.id \in 0..Len(nodes) /\ r.key \in 0..made
  BY <1>2, <1>3 DEF RunOK
<1>7. run' = [run EXCEPT ![c] = r]
  BY <1>1 DEF Finish
<1> QED
  BY <1>2, <1>4, <1>5, <1>6, <1>7, CleanStep, TypedFacts

\* No event that is counted has happened.
LEMMA SpentSame ==
  ASSUME IInv, UNCHANGED spent
  PROVE  /\ spent' \in [{"fails", "cuts", "ends", "strangers"} -> Nat]
         /\ Orderly' => Orderly
  BY TypedFacts DEF Orderly

LEMMA InFacts ==
  ASSUME NEW c, Commands = {c}, IInv, NEW phase, In(c, phase)
  PROVE  /\ run[c].pc = "begin" /\ Head(run[c].todo) = phase
         /\ run[c].kind = "stop" => phase = "stop"
<1>1. run[c].pc = "begin" /\ Head(run[c].todo) = phase
  BY DEF In, At, Phase
<1>2. run[c].todo \in Todos /\ Shape(run[c])
  BY <1>1, Here DEF RunOK
<1> QED
  BY <1>1, <1>2, TodoFacts DEF Shape

\* systemctl start, with a unit.
LEMMA UpServes ==
  ASSUME IInv, Up, unit' = TRUE, UNCHANGED unheard
  PROVE  Served
<1>1. Services = {} => \A q \in Pids : proc[q] # "service"
  BY DEF Services
<1> QED
  BY <1>1 DEF Up, Served, Free

LEMMA SystemctlStartInv ==
  ASSUME NEW c, Commands = {c}, IInv, SystemctlStart(c)
  PROVE  IInv'
<1>1. run[c].pc = "begin" /\ run[c].kind # "stop" /\ unit
  BY InFacts DEF SystemctlStart
<1>2. /\ unit' = TRUE /\ UNCHANGED <<pidfile, unheard, enrolled, spent>>
      /\ unheard' \in BOOLEAN
  BY <1>1, TypedFacts DEF SystemctlStart
<1>3. Served
  BY <1>2, UpServes DEF SystemctlStart
<1>4. NoNode
  BY <1>1, NoNodeIf
<1>5. /\ spent' \in [{"fails", "cuts", "ends", "strangers"} -> Nat]
      /\ Orderly' => Orderly
  BY <1>2, SpentSame
<1> QED
  BY <1>1, <1>2, <1>3, <1>4, <1>5, ServedFacts, AfterStep
     DEF SystemctlStart, Served

LEMMA SystemctlStartFailsInv ==
  ASSUME NEW c, Commands = {c}, IInv, SystemctlStartFails(c)
  PROVE  IInv'
<1>1. run[c].pc = "begin" /\ Head(run[c].todo) = "start"
  BY InFacts DEF SystemctlStartFails
<1>2. MaxFails \in Nat
  BY DEF NodeServiceAssumption
<1> QED
  BY <1>1, <1>2, FinishInv DEF SystemctlStartFails

LEMMA SystemctlStopInv ==
  ASSUME NEW c, Commands = {c}, IInv, SystemctlStop(c)
  PROVE  IInv'
<1>1. run[c].pc = "begin" /\ unit
  BY InFacts DEF SystemctlStop
<1>2. /\ active' = FALSE /\ proc' = WithoutService /\ unheard' = FALSE
      /\ UNCHANGED <<pidfile, unit, enrolled, spent>>
  BY DEF SystemctlStop
<1>3. Fewer(proc') /\ \A p \in Pids : proc'[p] # "service"
  BY <1>2, WithoutFacts
<1>4. ServiceOK'
  BY <1>2, <1>3 DEF ServiceOK
<1>5. NoNode
  BY <1>1, NoNodeIf
<1>6. /\ spent' \in [{"fails", "cuts", "ends", "strangers"} -> Nat]
      /\ Orderly' => Orderly
  BY <1>2, SpentSame
<1> QED
  BY <1>1, <1>2, <1>3, <1>4, <1>5, <1>6, AfterStep, TypedFacts
     DEF SystemctlStop, Fewer

\* systemctl fails, and is not asked whether it did.
LEMMA SystemctlStopFailsInv ==
  ASSUME NEW c, Commands = {c}, IInv, SystemctlStopFails(c)
  PROVE  IInv'
<1>1. run[c].pc = "begin" /\ unit
  BY InFacts DEF SystemctlStopFails
<1>2. /\ unheard' = TRUE
      /\ UNCHANGED <<proc, pidfile, unit, active, enrolled>>
  BY DEF SystemctlStopFails
<1>3. ServiceOK'
  BY <1>2, TypedFacts DEF ServiceOK
<1>4. NoNode
  BY <1>1, NoNodeIf
<1>5. /\ spent' \in [{"fails", "cuts", "ends", "strangers"} -> Nat]
      /\ Orderly' => Orderly
  BY MayFacts DEF SystemctlStopFails
<1> QED
  BY <1>1, <1>2, <1>3, <1>4, <1>5, AfterStep, TypedFacts
     DEF SystemctlStopFails

LEMMA WriteUnitInv ==
  ASSUME NEW c, Commands = {c}, IInv, WriteUnit(c)
  PROVE  IInv'
<1>1. /\ run[c].pc = "begin" /\ Head(run[c].todo) = "enable"
      /\ run[c].kind # "stop" /\ RunOK(run[c])
  BY InFacts, Here DEF WriteUnit
<1>2. /\ unit' = TRUE /\ active' = (active \/ Services # {})
      /\ UNCHANGED <<proc, pidfile, unheard, enrolled, spent>>
  BY DEF WriteUnit
<1>3. PICK r \in Runs :
        /\ run' = [run EXCEPT ![c] = r] /\ r.pc = "activate"
        /\ r.todo = run[c].todo /\ r.kind = run[c].kind
        /\ r.key = run[c].key /\ r.id = run[c].id
  <2>1. Goto(c, "activate")
    BY DEF WriteUnit
  <2> QED
    BY <2>1, GotoFacts
<1>4. NoNode
  BY <1>1, NoNodeIf DEF NoDaemon
<1>5. NoNode'
  BY <1>2, <1>4, SpentSame, NoNodeStays
<1>6. ServiceOK' /\ active' \in BOOLEAN
  BY <1>2, TypedFacts DEF ServiceOK
<1>7. Shape(r) /\ EnrolOK(r) /\ PlaceOK(r)'
  BY <1>1, <1>3 DEF RunOK, Shape, EnrolOK, PlaceOK
<1>8. r.id \in 0..Len(nodes) /\ r.key \in 0..made
  BY <1>1, <1>3 DEF RunOK
<1> QED
  BY <1>2, <1>3, <1>5, <1>6, <1>7, <1>8, CleanStep, TypedFacts

LEMMA ActivateInv ==
  ASSUME NEW c, Commands = {c}, IInv, Activate(c)
  PROVE  IInv'
<1>1. /\ run[c].pc = "activate" /\ RunOK(run[c]) /\ run[c].todo \in Todos
      /\ Head(run[c].todo) = "enable"
  BY Here DEF Activate, At, RunOK, Shape
<1>2. run[c].kind # "stop"
  BY <1>1, TodoFacts DEF RunOK, Shape
<1>3. UNCHANGED <<pidfile, unit, unheard, enrolled, spent>>
  BY DEF Activate
<1>4. CASE unit
  <2>1. unit' = TRUE /\ Up /\ Finish(c)
    BY <1>3, <1>4, TypedFacts DEF Activate
  <2>2. Served
    BY <1>3, <2>1, UpServes
  <2>3. NoNode
    BY <1>1, NoNodeIf DEF NoDaemon
  <2>4. /\ spent' \in [{"fails", "cuts", "ends", "strangers"} -> Nat]
        /\ Orderly' => Orderly
    BY <1>3, SpentSame
  <2>5. unheard' \in BOOLEAN
    BY <1>3, TypedFacts
  <2> QED
    BY <1>1, <1>2, <1>3, <2>1, <2>2, <2>3, <2>4, <2>5, ServedFacts, AfterStep
       DEF Served
<1>5. CASE ~unit
  <2>1. Fail(c) /\ UNCHANGED <<proc, pidfile, service, enrolled, spent>>
    BY <1>3, <1>5 DEF Activate, service
  <2> QED
    BY <1>1, <2>1, FailInv
<1> QED
  BY <1>4, <1>5

LEMMA ActivateFailsInv ==
  ASSUME NEW c, Commands = {c}, IInv, ActivateFails(c)
  PROVE  IInv'
<1>1. run[c].pc = "activate" /\ MaxFails \in Nat
  BY DEF ActivateFails, At, NodeServiceAssumption
<1> QED
  BY <1>1, FailInv DEF ActivateFails

LEMMA DeactivateInv ==
  ASSUME NEW c, Commands = {c}, IInv, Deactivate(c)
  PROVE  IInv'
<1>1. /\ run[c].pc = "begin" /\ Head(run[c].todo) = "disable"
      /\ run[c].kind # "stop" /\ RunOK(run[c]) /\ unit
  BY InFacts, Here DEF Deactivate
<1>2. /\ active' = FALSE /\ proc' = WithoutService /\ unheard' = FALSE
      /\ UNCHANGED <<pidfile, unit, enrolled, spent>>
  BY DEF Deactivate
<1>3. Fewer(proc') /\ \A p \in Pids : proc'[p] # "service"
  BY <1>2, WithoutFacts
<1>4. ServiceOK'
  BY <1>2, <1>3 DEF ServiceOK
<1>5. NoNode
  BY <1>1, NoNodeIf
<1>6. NoNode'
  BY <1>2, <1>3, <1>5, SpentSame, NoNodeStays DEF Fewer
<1>7. PICK r \in Runs :
        /\ run' = [run EXCEPT ![c] = r] /\ r.pc = "remove"
        /\ r.todo = run[c].todo /\ r.kind = run[c].kind
        /\ r.key = run[c].key /\ r.id = run[c].id
  <2>1. Goto(c, "remove")
    BY DEF Deactivate
  <2> QED
    BY <2>1, GotoFacts
<1>8. Shape(r) /\ EnrolOK(r) /\ PlaceOK(r)'
  BY <1>1, <1>2, <1>7 DEF RunOK, Shape, EnrolOK, PlaceOK
<1>9. r.id \in 0..Len(nodes) /\ r.key \in 0..made
  BY <1>1, <1>7 DEF RunOK
<1> QED
  BY <1>2, <1>3, <1>4, <1>6, <1>7, <1>8, <1>9, CleanStep, TypedFacts DEF Fewer

\* The service stays up, and its unit file is about to go.
LEMMA DeactivateFailsInv ==
  ASSUME NEW c, Commands = {c}, IInv, DeactivateFails(c)
  PROVE  IInv'
<1>1. /\ run[c].pc = "begin" /\ Head(run[c].todo) = "disable"
      /\ run[c].kind # "stop" /\ RunOK(run[c]) /\ unit
  BY InFacts, Here DEF DeactivateFails
<1>2. /\ unheard' = TRUE
      /\ UNCHANGED <<proc, pidfile, unit, active, enrolled>>
  BY DEF DeactivateFails
<1>3. ServiceOK'
  BY <1>2, TypedFacts DEF ServiceOK
<1>4. /\ spent' \in [{"fails", "cuts", "ends", "strangers"} -> Nat]
      /\ Orderly' => Orderly
  BY MayFacts DEF DeactivateFails
<1>5. NoNode
  BY <1>1, NoNodeIf
<1>6. NoNode'
  BY <1>2, <1>4, <1>5, NoNodeStays
<1>7. PICK r \in Runs :
        /\ run' = [run EXCEPT ![c] = r] /\ r.pc = "remove"
        /\ r.todo = run[c].todo /\ r.kind = run[c].kind
        /\ r.key = run[c].key /\ r.id = run[c].id
  <2>1. Goto(c, "remove")
    BY DEF DeactivateFails
  <2> QED
    BY <2>1, GotoFacts
<1>8. Shape(r) /\ EnrolOK(r) /\ PlaceOK(r)'
  BY <1>1, <1>2, <1>7 DEF RunOK, Shape, EnrolOK, PlaceOK
<1>9. r.id \in 0..Len(nodes) /\ r.key \in 0..made
  BY <1>1, <1>7 DEF RunOK
<1> QED
  BY <1>2, <1>3, <1>4, <1>6, <1>7, <1>8, <1>9, CleanStep, TypedFacts

LEMMA RemoveUnitInv ==
  ASSUME NEW c, Commands = {c}, IInv, RemoveUnit(c)
  PROVE  IInv'
<1>1. /\ run[c].pc = "remove" /\ Head(run[c].todo) = "disable"
      /\ ~active \/ unheard
  BY Here DEF RemoveUnit, At, RunOK, Shape, PlaceOK
<1>2. PICK r \in Runs :
        r = After(c) /\ RunOK(r) /\ r.pc \in {"begin", "done"}
  BY <1>1, AfterFacts, AfterOK
<1>3. /\ unit' = FALSE /\ active' = FALSE /\ run' = [run EXCEPT ![c] = r]
      /\ UNCHANGED <<proc, pidfile, unheard, enrolled, spent>>
  BY <1>2 DEF RemoveUnit, Finish
<1>4. WorldTyped'
  BY <1>3 DEF IInv, WorldTyped, enrolled
<1>5. ServiceOK'
  BY <1>1, <1>3, TypedFacts DEF ServiceOK
<1>6. EnrolOK(r)' /\ PlaceOK(r)'
  BY <1>1, <1>2, <1>3 DEF RunOK, EnrolOK, PlaceOK, enrolled
<1>7. DaemonOK(r)'
  BY <1>2, <1>3 DEF RunOK, DaemonOK, NoDaemon, Orderly
<1>8. RunOK(r)'
  BY <1>2, <1>3, <1>6, <1>7 DEF RunOK, Shape, enrolled
<1> QED
  BY <1>3, <1>4, <1>5, <1>8, BecomesInv

LEMMA NothingEnabledInv ==
  ASSUME NEW c, Commands = {c}, IInv, NothingEnabled(c)
  PROVE  IInv'
<1>1. run[c].pc = "begin" /\ Head(run[c].todo) = "disable"
  BY InFacts DEF NothingEnabled
<1> QED
  BY <1>1, FinishInv DEF NothingEnabled

----------------------------------------------------------------------------
(* A command ends, or everything does *)

LEMMA EndsInv ==
  ASSUME NEW c, Commands = {c}, IInv,
         run' = [run EXCEPT ![c] = Idle], proc' = Reaped(c),
         UNCHANGED <<pidfile, service, enrolled>>,
         spent' \in [{"fails", "cuts", "ends", "strangers"} -> Nat],
         Orderly' => Orderly /\ run[c].pc # "track"
  PROVE  IInv'
<1>1. RunOK(run[c])
  BY Here
<1>2. PICK r \in Runs : r = Idle /\ r.pc = "idle" /\ r.id = 0 /\ r.key = 0
  BY IdleFacts
<1>3. RunOK(r) \/ run[c].pc = "track"
  BY <1>1, <1>2, IdleOK
<1>4. Shape(r)
  BY <1>2 DEF Idle, Shape
<1>5. Fewer(proc')
  BY ReapedFacts
<1>6. WorldTyped'
  BY <1>5 DEF IInv, WorldTyped, Fewer, Words, service, enrolled
<1>7. ServiceOK'
  BY <1>5, FewerService
<1>8. EnrolOK(r)'
  BY <1>1, <1>2 DEF RunOK, EnrolOK, enrolled
<1>9. PlaceOK(r)'
  BY <1>2, <1>4 DEF Shape, PlaceOK
<1>10. DaemonOK(r)'
  BY <1>3, <1>5 DEF RunOK, DaemonOK, NoDaemon, Fewer, service
<1>11. r.id \in 0..Len(nodes') /\ r.key \in 0..made'
  <2>1. Len(nodes) \in Nat /\ made \in Nat
    BY KeyFacts
  <2> QED
    BY <1>2, <2>1 DEF enrolled
<1>12. RunOK(r)'
  BY <1>4, <1>8, <1>9, <1>10, <1>11 DEF RunOK, Shape
<1> QED
  BY <1>2, <1>6, <1>7, <1>12, BecomesInv

LEMMA EndInv ==
  ASSUME NEW c, Commands = {c}, IInv, End(c)
  PROVE  IInv'
  BY EndsInv, TypedFacts DEF End, At, Orderly

LEMMA CutInv ==
  ASSUME NEW c, Commands = {c}, IInv, Cut(c)
  PROVE  IInv'
  BY EndsInv, MayFacts DEF Cut

LEMMA RebootInv ==
  ASSUME NEW c, Commands = {c}, IInv, Reboot
  PROVE  IInv'
<1>1. RunOK(run[c])
  BY Here
<1>2. PICK r \in Runs : r = Idle /\ r.pc = "idle" /\ r.id = 0 /\ r.key = 0
  BY IdleFacts
<1>3. /\ proc' = [p \in Pids |-> "free"] /\ active' \in {unit, FALSE}
      /\ unheard' = FALSE /\ run' = [x \in Commands |-> r]
      /\ UNCHANGED <<pidfile, unit, enrolled>>
  BY <1>2 DEF Reboot
<1>4. /\ proc' \in [Pids -> Words] /\ unit' \in BOOLEAN /\ active' \in BOOLEAN
      /\ unheard' \in BOOLEAN
      /\ \A p \in Pids : proc'[p] = "free"
  BY <1>3, TypedFacts DEF Words
<1>5. ServiceOK' /\ NoNode'
  BY <1>3, <1>4 DEF ServiceOK, NoNode
<1>6. Shape(r)
  BY <1>2 DEF Idle, Shape
<1>7. EnrolOK(r) /\ PlaceOK(r)'
  BY <1>1, <1>2, <1>6 DEF RunOK, EnrolOK, PlaceOK, Shape
<1>8. r.id \in 0..Len(nodes) /\ r.key \in 0..made
  <2>1. Len(nodes) \in Nat /\ made \in Nat
    BY KeyFacts
  <2> QED
    BY <1>2, <2>1
<1>9. spent' \in [{"fails", "cuts", "ends", "strangers"} -> Nat]
  BY MayFacts DEF Reboot
<1> QED
  BY <1>3, <1>4, <1>5, <1>6, <1>7, <1>8, <1>9, CleanStep

LEMMA InitInv == Init => IInv
<1> SUFFICES ASSUME Init PROVE IInv
  OBVIOUS
<1>1. PICK r \in Runs : r = Idle /\ r.pc = "idle" /\ r.id = 0 /\ r.key = 0
  BY IdleFacts
<1>2. Shape(r)
  BY <1>1 DEF Idle, Shape
<1>3. WorldTyped
  <2>1. nodes \in Seq(1..made) /\ Len(nodes) = 0 /\ made = 0
    BY DEF Init
  <2>2. MaxNodes \in Nat
    BY DEF NodeServiceAssumption
  <2>3. /\ nodes \in Seq(1..made) /\ identity \in 0..Len(nodes)
        /\ made \in 0..MaxNodes /\ keyfile \in 0..made
    BY <2>1, <2>2 DEF Init, None
  <2>4. spent \in [{"fails", "cuts", "ends", "strangers"} -> Nat]
    BY DEF Init
  <2>5. proc \in [Pids -> {"free", "zombie", "node", "service", "other"}]
    BY DEF Init
  <2> QED
    BY <2>3, <2>4, <2>5 DEF Init, WorldTyped
<1>4. ServiceOK
  BY DEF Init, ServiceOK
<1>5. run = [c \in Commands |-> r] /\ Len(nodes) = 0 /\ made = 0
  BY <1>1 DEF Init
<1>6. EnrolOK(r) /\ PlaceOK(r) /\ DaemonOK(r)
  BY <1>1, <1>2 DEF Init, Shape, EnrolOK, PlaceOK, DaemonOK
<1>7. RunOK(r)
  BY <1>1, <1>2, <1>5, <1>6 DEF RunOK
<1> QED
  BY <1>3, <1>4, <1>5, <1>7 DEF IInv

LEMMA StutterInv ==
  ASSUME NEW c, Commands = {c}, IInv, UNCHANGED vars
  PROVE  IInv'
<1>1. UNCHANGED <<proc, pidfile, service, enrolled, run, spent>>
  BY DEF vars, service, enrolled
<1> QED
  BY <1>1, TypedFacts, ProcsInv DEF ServiceOK, service, Orderly

LEMMA CommandInv ==
  ASSUME NEW c, Commands = {c}, IInv, Command(c)
  PROVE  IInv'
<1>1. ASSUME NEW kind \in Kinds, Begin(c, kind) PROVE IInv'
  BY <1>1, BeginInv
<1>2. CASE \/ FindDaemon(c) \/ FindNone(c) \/ FindStale(c) \/ ClearStale(c)
           \/ CheckService(c)
  BY <1>2, FindDaemonInv, FindNoneInv, FindStaleInv, ClearStaleInv,
     CheckServiceInv
<1>3. CASE \/ Registered(c) \/ NotLoggedIn(c) \/ WriteKey(c) \/ Post(c)
           \/ PostFails(c) \/ SaveIdentity(c)
  BY <1>3, RegisteredInv, NotLoggedInInv, WriteKeyInv, PostInv, PostFailsInv,
     SaveIdentityInv
<1>4. CASE Spawn(c) \/ WritePid(c) \/ Look(c)
  BY <1>4, SpawnInv, WritePidInv, LookInv
<1>5. CASE \/ StopNone(c) \/ Terminate(c) \/ Obey(c) \/ Gone(c) \/ Kill(c)
           \/ ClearPid(c)
  BY <1>5, StopNoneInv, TerminateInv, ObeyInv, GoneInv, KillInv, ClearPidInv
<1>6. CASE \/ SystemctlStart(c) \/ SystemctlStartFails(c) \/ SystemctlStop(c)
           \/ SystemctlStopFails(c)
           \/ WriteUnit(c) \/ Activate(c) \/ ActivateFails(c)
  BY <1>6, SystemctlStartInv, SystemctlStartFailsInv, SystemctlStopInv,
     SystemctlStopFailsInv, WriteUnitInv, ActivateInv, ActivateFailsInv
<1>7. CASE \/ Deactivate(c) \/ DeactivateFails(c) \/ RemoveUnit(c)
           \/ NothingEnabled(c)
  BY <1>7, DeactivateInv, DeactivateFailsInv, RemoveUnitInv, NothingEnabledInv
<1>8. CASE End(c) \/ Cut(c)
  BY <1>8, EndInv, CutInv
<1> QED
  BY <1>1, <1>2, <1>3, <1>4, <1>5, <1>6, <1>7, <1>8 DEF Command

LEMMA NextInv ==
  ASSUME NEW c, Commands = {c}
  PROVE  IInv /\ [Next]_vars => IInv'
<1> SUFFICES ASSUME IInv, [Next]_vars PROVE IInv'
  OBVIOUS
<1>1. CASE Command(c)
  BY <1>1, CommandInv
<1>2. ASSUME NEW p \in Pids,
             NodeEnds(p) \/ StrangerStarts(p) \/ StrangerEnds(p)
      PROVE IInv'
  BY <1>2, NodeEndsInv, StrangerStartsInv, StrangerEndsInv
<1>3. CASE ServiceRestarts
  BY <1>3, ServiceRestartsInv
<1>4. CASE Reboot
  BY <1>4, RebootInv
<1>5. CASE UNCHANGED vars
  BY <1>5, StutterInv
<1> QED
  BY <1>1, <1>2, <1>3, <1>4, <1>5 DEF Next, World

LEMMA Invariance ==
  ASSUME NEW CONSTANT c, Commands = {c}
  PROVE  Spec => []IInv
<1>1. Init => IInv
  BY InitInv
<1>2. IInv /\ [Next]_vars => IInv'
  BY NextInv
<1> QED
  BY <1>1, <1>2, PTL DEF Spec

----------------------------------------------------------------------------
(* What it is for *)

\* Where the nodes are, in a command or between two.
LEMMA NodeFacts ==
  ASSUME NEW c, Commands = {c}, IInv, Orderly
  PROVE  /\ \A p \in Daemons : ~unit /\ ~NoDaemon(run[c])
         /\ run[c].pc # "track" => \A p \in Daemons : p = pidfile
         /\ \A p, q \in Daemons : p = q
         /\ Services # {} => (active /\ unit) \/ unheard
         /\ \A p, q \in Services : p = q
<1>1. ServiceOK /\ DaemonOK(run[c])
  BY Here DEF IInv, RunOK
<1>2. /\ \A p \in Daemons : p \in Pids /\ proc[p] = "node"
      /\ \A p \in Services : p \in Pids /\ proc[p] = "service"
  BY DEF Daemons, Services
<1> QED
  BY <1>1, <1>2 DEF ServiceOK, DaemonOK

LEMMA AtMostOne ==
  ASSUME NEW S, \A p, q \in S : p = q
  PROVE  Cardinality(S) <= 1
<1>1. CASE S = {}
  BY <1>1, FS_EmptySet
<1>2. ASSUME NEW p \in S PROVE Cardinality(S) <= 1
  <2>1. S = {p}
    BY <1>2
  <2>2. Cardinality(S) = 1
    BY <2>1, FS_Singleton
  <2> QED
    BY <2>2
<1> QED
  BY <1>1, <1>2

\* From one shell, and unless a command is interrupted, no sequence of start,
\* stop, restart, enable and disable ever has two daemons or two services run,
\* whatever nodes and other programs come and go meanwhile; nor a service beside
\* a daemon, unless systemctl failed to stop or disable it and the command went
\* on as if it had not (commands.py:1207-1319, node_service.py:290-371, 594-658).
THEOREM OneNodeRuns ==
  ASSUME NEW CONSTANT c, Commands = {c}
  PROVE  Spec => []OneNode
<1>1. IInv => OneNode
  <2> SUFFICES ASSUME IInv, Orderly
               PROVE  /\ Cardinality(Daemons) <= 1 /\ Cardinality(Services) <= 1
                      /\ Daemons = {} \/ Services = {} \/ unheard
    BY DEF OneNode
  <2>1. \A p, q \in Daemons : p = q
    BY NodeFacts
  <2>2. \A p, q \in Services : p = q
    BY NodeFacts
  <2>3. Cardinality(Daemons) <= 1 /\ Cardinality(Services) <= 1
    BY <2>1, <2>2, AtMostOne
  <2>4. Daemons # {} => ~unit
    BY NodeFacts
  <2>5. Services # {} => (active /\ unit) \/ unheard
    BY NodeFacts
  <2> QED
    BY <2>3, <2>4, <2>5
<1> QED
  BY <1>1, Invariance, PTL

\* Between commands a daemon is always where the next command looks for it, and
\* so is a service unless systemctl has failed to stop or disable it
\* (node_service.py:551, 572-577).
THEOREM NodesStayTracked ==
  ASSUME NEW CONSTANT c, Commands = {c}
  PROVE  Spec => []NodesAreTracked
<1>1. IInv => NodesAreTracked
  <2> SUFFICES ASSUME IInv, Orderly, Quiet
               PROVE  /\ \A p \in Daemons : pidfile = p /\ ~unit
                      /\ Services # {} => (active /\ unit) \/ unheard
    BY DEF NodesAreTracked
  <2>1. run[c].pc = "idle"
    BY Here DEF Quiet, RunOK, Shape
  <2>2. \A p \in Daemons : p = pidfile /\ ~unit
    BY <2>1, NodeFacts
  <2>3. Services # {} => (active /\ unit) \/ unheard
    BY NodeFacts
  <2> QED
    BY <2>2, <2>3
<1> QED
  BY <1>1, Invariance, PTL

\* A stop that reports success has left no daemon, and no service either unless
\* systemctl failed to stop it, which the command does not look at
\* (commands.py:1252-1257, node_service.py:615).
THEOREM StopStops ==
  ASSUME NEW CONSTANT c, Commands = {c}
  PROVE  Spec => []StoppedMeansStopped
<1>1. IInv => StoppedMeansStopped
  <2> SUFFICES ASSUME IInv, Orderly, NEW x \in Commands, At(x, "done"),
                      run[x].kind = "stop"
               PROVE  Daemons = {} /\ (Services = {} \/ unheard)
    BY DEF StoppedMeansStopped
  <2>1. x = c /\ NoDaemon(run[c]) /\ (~active \/ unheard)
    BY Here DEF At, NoDaemon, RunOK, PlaceOK
  <2>2. Daemons = {}
    BY <2>1, NodeFacts
  <2>3. Services = {} \/ unheard
    BY <2>1, NodeFacts
  <2> QED
    BY <2>2, <2>3
<1> QED
  BY <1>1, Invariance, PTL

\* However often registrations fail or are interrupted, the saved key is that of
\* the saved id (registration.rs:36-60, main.rs).
THEOREM KeyIsOfIdentity ==
  ASSUME NEW CONSTANT c, Commands = {c}
  PROVE  Spec => []KeyFitsIdentity
<1>1. IInv => KeyFitsIdentity
  BY Here DEF KeyFitsIdentity, RunOK, EnrolOK
<1> QED
  BY <1>1, Invariance, PTL

----------------------------------------------------------------------------
(* Any number of shells: what overlapping commands cannot break *)

\* A key that is being posted is no other command's, and no node's yet.
PostsNew ==
  /\ \A c \in Commands : run[c].pc = "post" =>
       run[c].key \in 1..made /\ \A i \in 1..Len(nodes) : nodes[i] # run[c].key
  /\ \A c, d \in Commands :
       run[c].pc = "post" /\ run[d].pc = "post" /\ run[c].key = run[d].key => c = d

\* A command that goes on has a phase to be in, and knows only keys and ids
\* there are.
Fits(r) ==
  /\ r.pc # "idle" => r.todo \in Todos
  /\ r.id \in 0..Len(nodes) /\ r.key \in 0..made

MInv ==
  /\ WorldTyped
  /\ run \in [Commands -> Runs] /\ \A c \in Commands : Fits(run[c])
  /\ PostsNew /\ KeysRegisteredOnce

\* What a step that registers nothing may make of a command.
Step(q, r) ==
  /\ r \in Runs /\ r.pc # "post"
  /\ r.pc # "idle" => r.todo \in Todos
  /\ r.id \in {0, q.id} /\ r.key \in {0, q.key}

LEMMA OneStep ==
  ASSUME MInv, NEW c \in Commands, NEW r, Step(run[c], r),
         run' = [run EXCEPT ![c] = r], UNCHANGED <<nodes, made>>, WorldTyped'
  PROVE  MInv'
<1>1. r \in Runs /\ r.pc # "post"
  BY DEF Step
<1>2. /\ run' \in [Commands -> Runs] /\ run'[c] = r
      /\ \A d \in Commands \ {c} : run'[d] = run[d]
  BY <1>1 DEF MInv
<1>3. UNCHANGED <<nodes, made>>
  OBVIOUS
<1>4. ASSUME NEW d \in Commands PROVE Fits(run[d])'
  <2>1. CASE d # c
    BY <1>2, <1>3, <2>1 DEF MInv, Fits
  <2>2. CASE d = c
    <3>1. Fits(run[c]) /\ made \in Nat /\ Len(nodes) \in Nat
      BY DEF MInv, WorldTyped
    <3> QED
      BY <1>2, <1>3, <2>2, <3>1 DEF Step, Fits
  <2> QED
    BY <2>1, <2>2
<1>5. PostsNew' /\ KeysRegisteredOnce'
  <2>1. PostsNew /\ KeysRegisteredOnce
    BY DEF MInv
  <2>2. \A d \in Commands : run'[d].pc = "post" => d # c /\ run'[d] = run[d]
    BY <1>1, <1>2
  <2> QED
    BY <1>3, <2>1, <2>2 DEF PostsNew, KeysRegisteredOnce
<1> QED
  BY <1>2, <1>4, <1>5 DEF MInv

\* On to the next phase, or abandoned, or further in this one.
LEMMA StepsOn ==
  ASSUME MInv, NEW c \in Commands
  PROVE  /\ run[c] \in Runs /\ Step(run[c], Idle)
         /\ run[c].pc # "idle" =>
              /\ run[c].todo \in Todos /\ Step(run[c], After(c))
              /\ \A pc \in {"stale", "spawn", "look", "stopping", "wait", "clear",
                            "activate", "remove", "done"} :
                   Step(run[c], [run[c] EXCEPT !.pc = pc])
<1>1. run[c] \in Runs /\ Fits(run[c])
  BY DEF MInv
<1>2. Step(run[c], Idle)
  BY IdleFacts DEF Step
<1>3. CASE run[c].pc # "idle"
  <2> PICK t \in Todos : t = run[c].todo
    BY <1>1, <1>3 DEF Fits
  <2>1. \A pc \in {"stale", "spawn", "look", "stopping", "wait", "clear",
                   "activate", "remove", "done"} :
          Step(run[c], [run[c] EXCEPT !.pc = pc])
    BY <1>1 DEF Step, Runs
  <2>2. CASE Len(t) = 1
    <3>1. After(c) = [run[c] EXCEPT !.pc = "done"]
      BY <2>2 DEF After
    <3> QED
      BY <1>1, <1>2, <2>1, <3>1
  <2>3. CASE Len(t) # 1
    <3>1. PICK u \in Todos : u = Tail(t)
      BY <2>3, TodoFacts
    <3>2. After(c) = [run[c] EXCEPT !.todo = u, !.pc = "begin"]
      BY <2>3, <3>1 DEF After
    <3>3. Step(run[c], After(c))
      BY <1>1, <3>1, <3>2 DEF Step, Runs
    <3> QED
      BY <1>1, <1>2, <2>1, <3>3
  <2> QED
    BY <2>2, <2>3
<1> QED
  BY <1>1, <1>2, <1>3

LEMMA SpentTyped ==
  ASSUME MInv, NEW w \in {"fails", "cuts", "ends", "strangers"}, NEW b, May(w, b)
  PROVE  spent' \in [{"fails", "cuts", "ends", "strangers"} -> Nat]
<1>1. /\ spent \in [{"fails", "cuts", "ends", "strangers"} -> Nat]
      /\ spent' = [spent EXCEPT ![w] = spent[w] + 1]
  BY DEF MInv, WorldTyped, May
<1> QED
  BY <1>1

\* The command moves, and touches nothing else.
LEMMA OnlyTheCommand ==
  ASSUME MInv, NEW c \in Commands, NEW r, Step(run[c], r),
         run' = [run EXCEPT ![c] = r],
         UNCHANGED <<proc, pidfile, service, enrolled>>,
         spent' \in [{"fails", "cuts", "ends", "strangers"} -> Nat]
  PROVE  MInv'
<1>1. WorldTyped' /\ UNCHANGED <<nodes, made>>
  BY DEF MInv, WorldTyped, service, enrolled
<1> QED
  BY <1>1, OneStep

\* It moves, and changes processes, the pid file or the service.
LEMMA TheMachineToo ==
  ASSUME MInv, NEW c \in Commands, NEW r, Step(run[c], r),
         run' = [run EXCEPT ![c] = r],
         proc' \in [Pids -> Words], pidfile' \in {None} \cup Pids,
         unit' \in BOOLEAN, active' \in BOOLEAN, unheard' \in BOOLEAN,
         UNCHANGED <<enrolled>>,
         spent' \in [{"fails", "cuts", "ends", "strangers"} -> Nat]
  PROVE  MInv'
<1>1. WorldTyped' /\ UNCHANGED <<nodes, made>>
  BY DEF MInv, WorldTyped, Words, enrolled
<1> QED
  BY <1>1, OneStep

LEMMA WorldFacts ==
  ASSUME MInv
  PROVE  /\ proc \in [Pids -> Words] /\ pidfile \in {None} \cup Pids
         /\ unit \in BOOLEAN /\ active \in BOOLEAN /\ unheard \in BOOLEAN
         /\ spent \in [{"fails", "cuts", "ends", "strangers"} -> Nat]
         /\ WithoutService \in [Pids -> Words]
         /\ \A p \in Pids : Dead(p) \in [Pids -> Words]
         /\ \A c \in Commands : Reaped(c) \in [Pids -> Words]
         /\ \A p \in Pids, w \in Words : [proc EXCEPT ![p] = w] \in [Pids -> Words]
         /\ \A c \in Commands : {run[c].pid, run[c].child} \subseteq {None} \cup Pids
<1>1. proc \in [Pids -> Words] /\ pidfile \in {None} \cup Pids
      /\ unit \in BOOLEAN /\ active \in BOOLEAN /\ unheard \in BOOLEAN
      /\ spent \in [{"fails", "cuts", "ends", "strangers"} -> Nat]
  BY DEF MInv, WorldTyped, Words
<1>2. WithoutService \in [Pids -> Words]
  BY <1>1 DEF WithoutService, Words
<1>3. \A p \in Pids, w \in Words : [proc EXCEPT ![p] = w] \in [Pids -> Words]
  BY <1>1
<1>4. ASSUME NEW p \in Pids PROVE Dead(p) \in [Pids -> Words]
  <2>1. PICK w \in Words : Dead(p) = [proc EXCEPT ![p] = w]
    BY DEF Dead, Words
  <2> QED
    BY <1>3, <2>1
<1>5. \A c \in Commands : Reaped(c) \in [Pids -> Words]
  BY <1>1 DEF Reaped, Words
<1>6. \A c \in Commands : {run[c].pid, run[c].child} \subseteq {None} \cup Pids
  BY DEF MInv, Runs
<1> QED
  BY <1>1, <1>2, <1>3, <1>4, <1>5, <1>6

LEMMA BeginsWell ==
  ASSUME MInv, NEW c \in Commands, NEW kind \in Kinds, Begin(c, kind)
  PROVE  MInv'
<1> PICK t : t = Phases[kind]
  OBVIOUS
<1> PICK r : r = [Idle EXCEPT !.kind = kind, !.pc = "begin", !.todo = t]
  OBVIOUS
<1>1. t \in Todos
  BY DEF Phases, Kinds, Todos
<1>2. Step(run[c], r)
  BY <1>1 DEF Step, Runs, Idle, None
<1> QED
  BY <1>2, OnlyTheCommand, WorldFacts DEF Begin

\* The steps that look, wait, give up or go on, and the registration's end.
LEMMA LooksWell ==
  ASSUME MInv, NEW c \in Commands,
         \/ FindDaemon(c) \/ FindNone(c) \/ FindStale(c) \/ CheckService(c)
         \/ Registered(c) \/ NotLoggedIn(c) \/ Look(c) \/ StopNone(c) \/ Gone(c)
         \/ SystemctlStartFails(c) \/ ActivateFails(c) \/ NothingEnabled(c)
  PROVE  MInv'
<1>1. run[c].pc # "idle"
  BY DEF FindDaemon, FindNone, FindStale, CheckService, Registered, NotLoggedIn,
         Look, StopNone, Gone, SystemctlStartFails, ActivateFails, NothingEnabled,
         LooksAtDaemon, Stops, In, At
<1>2. UNCHANGED <<proc, pidfile, service, enrolled>>
  BY DEF FindDaemon, FindNone, FindStale, CheckService, Registered, NotLoggedIn,
         Look, StopNone, Gone, SystemctlStartFails, ActivateFails, NothingEnabled
<1>3. spent' = spent \/ May("fails", MaxFails)
  BY DEF FindDaemon, FindNone, FindStale, CheckService, Registered, NotLoggedIn,
         Look, StopNone, Gone, SystemctlStartFails, ActivateFails, NothingEnabled
<1>4. spent' \in [{"fails", "cuts", "ends", "strangers"} -> Nat]
  BY <1>3, WorldFacts, SpentTyped
<1>5. PICK r : Step(run[c], r) /\ run' = [run EXCEPT ![c] = r]
  <2>1. \/ run' = [run EXCEPT ![c] = After(c)]
        \/ run' = [run EXCEPT ![c] = Idle]
        \/ \E pc \in {"stale", "spawn", "stopping", "clear", "done"} :
             run' = [run EXCEPT ![c] = [run[c] EXCEPT !.pc = pc]]
    BY DEF FindDaemon, FindNone, FindStale, CheckService, Registered, NotLoggedIn,
           Look, StopNone, Gone, SystemctlStartFails, ActivateFails, NothingEnabled,
           NotRunning, Goto, Finish, Fail
  <2> QED
    BY <1>1, <2>1, StepsOn
<1> QED
  BY <1>2, <1>4, <1>5, OnlyTheCommand

\* The steps that write or clear the pid file or the unit file, or have a
\* process end.
LEMMA FilesWell ==
  ASSUME MInv, NEW c \in Commands,
         \/ ClearStale(c) \/ WritePid(c) \/ ClearPid(c) \/ Kill(c)
         \/ SystemctlStop(c) \/ SystemctlStopFails(c) \/ WriteUnit(c)
         \/ Deactivate(c) \/ DeactivateFails(c) \/ RemoveUnit(c)
  PROVE  MInv'
<1>1. run[c].pc # "idle" /\ UNCHANGED enrolled
  BY DEF ClearStale, WritePid, ClearPid, Kill, SystemctlStop,
         SystemctlStopFails, WriteUnit, Deactivate, DeactivateFails, RemoveUnit,
         In, At
<1>2. spent' \in [{"fails", "cuts", "ends", "strangers"} -> Nat]
  <2>1. spent' = spent \/ May("fails", MaxFails)
    BY DEF ClearStale, WritePid, ClearPid, Kill, SystemctlStop,
           SystemctlStopFails, WriteUnit, Deactivate, DeactivateFails, RemoveUnit
  <2> QED
    BY <2>1, WorldFacts, SpentTyped
<1>3. proc' \in [Pids -> Words]
  <2>1. Kill(c) => run[c].pid \in Pids /\ proc' = Dead(run[c].pid)
    BY WorldFacts DEF Kill, Alive
  <2>2. ~Kill(c) => proc' \in {proc, WithoutService}
    BY DEF ClearStale, WritePid, ClearPid, SystemctlStop, SystemctlStopFails,
           WriteUnit, Deactivate, DeactivateFails, RemoveUnit
  <2> QED
    BY <2>1, <2>2, WorldFacts
<1>4. pidfile' \in {None} \cup Pids
  <2>1. pidfile' \in {pidfile, None, run[c].child}
    BY DEF ClearStale, WritePid, ClearPid, Kill, SystemctlStop,
           SystemctlStopFails, WriteUnit, Deactivate, DeactivateFails, RemoveUnit
  <2> QED
    BY <2>1, WorldFacts
<1>5. unit' \in BOOLEAN /\ active' \in BOOLEAN /\ unheard' \in BOOLEAN
  <2>1. unit' \in {unit, TRUE, FALSE} /\ unheard' \in {unheard, TRUE, FALSE}
    BY DEF ClearStale, WritePid, ClearPid, Kill, SystemctlStop,
           SystemctlStopFails, WriteUnit, Deactivate, DeactivateFails, RemoveUnit,
           service
  <2>2. active' \in {active, FALSE, active \/ Services # {}}
    BY DEF ClearStale, WritePid, ClearPid, Kill, SystemctlStop,
           SystemctlStopFails, WriteUnit, Deactivate, DeactivateFails, RemoveUnit,
           service
  <2> QED
    BY <2>1, <2>2, WorldFacts
<1>6. PICK r : Step(run[c], r) /\ run' = [run EXCEPT ![c] = r]
  <2>1. \/ run' = [run EXCEPT ![c] = After(c)]
        \/ \E pc \in {"spawn", "look", "clear", "activate", "remove"} :
             run' = [run EXCEPT ![c] = [run[c] EXCEPT !.pc = pc]]
    BY DEF ClearStale, WritePid, ClearPid, Kill, SystemctlStop,
           SystemctlStopFails, WriteUnit, Deactivate, DeactivateFails, RemoveUnit,
           NotRunning, Goto, Finish
  <2> QED
    BY <1>1, <2>1, StepsOn
<1> QED
  BY <1>1, <1>2, <1>3, <1>4, <1>5, <1>6, TheMachineToo

LEMMA TerminatesWell ==
  ASSUME MInv, NEW c \in Commands, Terminate(c)
  PROVE  MInv'
<1> PICK p : p = pidfile
  OBVIOUS
<1> PICK r : r = [run[c] EXCEPT !.pc = "wait", !.pid = p]
  OBVIOUS
<1>1. run[c].pc # "idle" /\ p \in {None} \cup Pids
  BY WorldFacts DEF Terminate, Stops, In, At
<1>2. run[c] \in Runs /\ run[c].todo \in Todos
  BY <1>1, StepsOn
<1>3. Step(run[c], r)
  BY <1>1, <1>2 DEF Step, Runs
<1>4. run' = [run EXCEPT ![c] = r]
  BY DEF Terminate
<1> QED
  BY <1>3, <1>4, OnlyTheCommand, WorldFacts DEF Terminate

LEMMA SpawnsWell ==
  ASSUME MInv, NEW c \in Commands, Spawn(c)
  PROVE  MInv'
<1>1. PICK p \in Pids : /\ proc' = [proc EXCEPT ![p] = "node"]
                        /\ run' = [run EXCEPT ![c].pc = "track", ![c].child = p]
  BY DEF Spawn, Free
<1> PICK r : r = [run[c] EXCEPT !.pc = "track", !.child = p]
  OBVIOUS
<1>2. run[c].pc # "idle"
  BY DEF Spawn, At
<1>3. run[c] \in Runs /\ run[c].todo \in Todos
  BY <1>2, StepsOn
<1>4. Step(run[c], r)
  BY <1>3 DEF Step, Runs
<1>5. run' = [run EXCEPT ![c] = r]
  BY <1>1
<1>6. "node" \in Words /\ proc' \in [Pids -> Words]
  BY <1>1, WorldFacts DEF Words
<1>7. UNCHANGED <<pidfile, unit, active, unheard, enrolled, spent>>
  BY DEF Spawn, service
<1> QED
  BY <1>4, <1>5, <1>6, <1>7, TheMachineToo, WorldFacts

LEMMA UpTyped ==
  ASSUME MInv, Up
  PROVE  proc' \in [Pids -> Words] /\ active' = TRUE
<1>1. proc' = proc \/ \E p \in Pids : proc' = [proc EXCEPT ![p] = "service"]
  BY DEF Up, Free
<1>2. "service" \in Words
  BY DEF Words
<1> QED
  BY <1>1, <1>2, WorldFacts DEF Up

LEMMA ServesWell ==
  ASSUME MInv, NEW c \in Commands, SystemctlStart(c) \/ Activate(c)
  PROVE  MInv'
<1>1. run[c].pc # "idle" /\ UNCHANGED <<pidfile, unit, unheard, enrolled, spent>>
  BY DEF SystemctlStart, Activate, In, At
<1>2. Up \/ UNCHANGED <<proc, active>>
  BY DEF SystemctlStart, Activate
<1>3. proc' \in [Pids -> Words] /\ active' \in BOOLEAN
  BY <1>2, UpTyped, WorldFacts
<1>4. PICK r : Step(run[c], r) /\ run' = [run EXCEPT ![c] = r]
  <2>1. \/ run' = [run EXCEPT ![c] = After(c)]
        \/ run' = [run EXCEPT ![c] = Idle]
    BY DEF SystemctlStart, Activate, Finish, Fail
  <2> QED
    BY <1>1, <2>1, StepsOn
<1> QED
  BY <1>1, <1>3, <1>4, TheMachineToo, WorldFacts

LEMMA EndsWell ==
  ASSUME MInv, NEW c \in Commands, End(c) \/ Cut(c)
  PROVE  MInv'
<1>1. /\ run' = [run EXCEPT ![c] = Idle] /\ proc' = Reaped(c)
      /\ UNCHANGED <<pidfile, unit, active, unheard, enrolled>>
  BY DEF End, Cut, service
<1>2. spent' \in [{"fails", "cuts", "ends", "strangers"} -> Nat]
  BY SpentTyped, WorldFacts DEF End, Cut
<1>3. PICK r : r = Idle /\ Step(run[c], r)
  BY StepsOn
<1> QED
  BY <1>1, <1>2, <1>3, TheMachineToo, WorldFacts
\* No command moves; processes, or the service, may.
LEMMA NoCommandMoves ==
  ASSUME MInv, UNCHANGED <<pidfile, unit, active, unheard, enrolled, run>>,
         proc' \in [Pids -> Words],
         spent' \in [{"fails", "cuts", "ends", "strangers"} -> Nat]
  PROVE  MInv'
<1>1. WorldTyped'
  BY DEF MInv, WorldTyped, Words, enrolled
<1>2. UNCHANGED <<nodes, made, run>>
  BY DEF enrolled
<1> QED
  BY <1>1, <1>2 DEF MInv, Fits, PostsNew, KeysRegisteredOnce

LEMMA ListFacts ==
  ASSUME MInv
  PROVE  /\ made \in Nat /\ made \in 0..MaxNodes /\ nodes \in Seq(1..made)
         /\ Len(nodes) \in Nat /\ \A i \in 1..Len(nodes) : nodes[i] \in 1..made
         /\ nodes \in Seq(1..(made + 1))
<1>1. made \in 0..MaxNodes /\ nodes \in Seq(1..made)
  BY DEF MInv, WorldTyped
<1>2. made \in Nat
  BY <1>1
<1>3. PICK s : s = nodes
  OBVIOUS
<1>4. Len(s) \in Nat /\ s \in [1..Len(s) -> 1..made]
  BY <1>1, <1>3
<1>5. \A i \in 1..Len(s) : s[i] \in 1..made
  BY <1>4
<1>6. PICK K : K = 1..(made + 1)
  OBVIOUS
<1>7. s \in Seq(K)
  <2>1. 1..made \subseteq K
    BY <1>2, <1>6
  <2>2. s \in [1..Len(s) -> K]
    BY <1>4, <2>1
  <2> QED
    BY <1>4, <2>2
<1> QED
  BY <1>1, <1>2, <1>3, <1>4, <1>5, <1>6, <1>7

\* A new key pair is none that was posted, or is about to be.
LEMMA WritesKeyWell ==
  ASSUME MInv, NEW c \in Commands, WriteKey(c)
  PROVE  MInv'
<1> PICK m : m = made + 1
  OBVIOUS
<1> PICK r : r = [run[c] EXCEPT !.pc = "post", !.key = m]
  OBVIOUS
<1>1. /\ run[c].pc = "begin" /\ made < MaxNodes /\ made' = m /\ keyfile' = m
      /\ run' = [run EXCEPT ![c] = r]
      /\ UNCHANGED <<proc, pidfile, unit, active, unheard, identity, nodes, spent>>
  BY DEF WriteKey, In, At, service
<1>2. /\ made \in 0..MaxNodes /\ nodes \in Seq(1..made) /\ Len(nodes) \in Nat
      /\ \A i \in 1..Len(nodes) : nodes[i] \in 1..made
  BY ListFacts
<1>3. m \in 1..MaxNodes /\ \A k \in 0..made : k \in 0..m /\ k # m
  BY <1>1, <1>2
<1>4. nodes \in Seq(1..m)
  BY ListFacts
<1>5. WorldTyped'
  <2>1. made' \in 0..MaxNodes /\ keyfile' \in 0..made' /\ nodes' \in Seq(1..made')
    BY <1>1, <1>3, <1>4
  <2>2. identity \in 0..Len(nodes)
    BY DEF MInv, WorldTyped
  <2>3. /\ proc \in [Pids -> {"free", "zombie", "node", "service", "other"}]
        /\ pidfile \in {None} \cup Pids
        /\ unit \in BOOLEAN /\ active \in BOOLEAN /\ unheard \in BOOLEAN
        /\ spent \in [{"fails", "cuts", "ends", "strangers"} -> Nat]
    BY DEF MInv, WorldTyped
  <2> QED
    BY <1>1, <2>1, <2>2, <2>3 DEF WorldTyped
<1>6. run[c] \in Runs /\ run[c].todo \in Todos
  BY <1>1, StepsOn
<1>7. r \in Runs /\ r.pc = "post" /\ r.key = m /\ r.id = run[c].id /\ r.todo \in Todos
  <2>1. m \in Nat
    BY <1>2
  <2> QED
    BY <1>6, <2>1 DEF Runs
<1>8. /\ run' \in [Commands -> Runs] /\ run'[c] = r
      /\ \A d \in Commands \ {c} : run'[d] = run[d]
  BY <1>1, <1>7 DEF MInv
<1>9. ASSUME NEW d \in Commands PROVE Fits(run[d])'
  <2>1. Fits(run[d])
    BY DEF MInv
  <2>2. CASE d # c
    BY <1>1, <1>3, <1>8, <2>1, <2>2 DEF Fits
  <2>3. CASE d = c
    BY <1>1, <1>3, <1>7, <1>8, <2>1, <2>3 DEF Fits
  <2> QED
    BY <2>2, <2>3
<1>10. PostsNew'
  <2>1. \A d \in Commands \ {c} : run[d].pc = "post" =>
          /\ run[d].key \in 1..made /\ run[d].key # m
          /\ \A i \in 1..Len(nodes) : nodes[i] # run[d].key
    BY <1>2, <1>3 DEF MInv, PostsNew
  <2>2. \A i \in 1..Len(nodes) : nodes[i] # m
    BY <1>2, <1>3
  <2>3. ASSUME NEW d \in Commands, run'[d].pc = "post"
        PROVE  run'[d].key \in 1..m /\ \A i \in 1..Len(nodes) : nodes[i] # run'[d].key
    <3>1. CASE d = c
      <4>1. m \in 1..m
        BY <1>2
      <4> QED
        BY <1>7, <1>8, <2>2, <3>1, <4>1
    <3>2. CASE d # c
      <4>1. run'[d] = run[d] /\ run[d].pc = "post"
        BY <1>8, <2>3, <3>2
      <4>2. run[d].key \in 1..made /\ \A i \in 1..Len(nodes) : nodes[i] # run[d].key
        BY <2>1, <3>2, <4>1
      <4>3. run[d].key \in 1..m
        BY <1>2, <4>2
      <4> QED
        BY <4>1, <4>2, <4>3
    <3> QED
      BY <3>1, <3>2
  <2>4. ASSUME NEW d \in Commands, NEW e \in Commands, run'[d].pc = "post",
               run'[e].pc = "post", run'[d].key = run'[e].key
        PROVE  d = e
    <3>1. CASE d # c /\ e # c
      BY <1>8, <2>4, <3>1 DEF MInv, PostsNew
    <3>2. \A x \in Commands \ {c} : run'[x].pc = "post" => run'[x].key # m
      BY <1>8, <2>1
    <3>3. run'[c].key = m
      BY <1>7, <1>8
    <3>4. CASE d = c
      BY <2>4, <3>2, <3>3, <3>4
    <3>5. CASE e = c
      BY <2>4, <3>2, <3>3, <3>5
    <3> QED
      BY <3>1, <3>4, <3>5
  <2> QED
    BY <1>1, <2>3, <2>4 DEF PostsNew
<1>11. KeysRegisteredOnce'
  BY <1>1 DEF MInv, KeysRegisteredOnce
<1> QED
  BY <1>5, <1>8, <1>9, <1>10, <1>11 DEF MInv

\* The server's list of nodes after a key that was new has been posted.
LEMMA PostedOnce ==
  ASSUME MInv, NEW c \in Commands, run[c].pc = "post",
         nodes' = Append(nodes, run[c].key)
  PROVE  /\ nodes' \in Seq(1..made) /\ Len(nodes') = Len(nodes) + 1
         /\ KeysRegisteredOnce'
         /\ \A d \in Commands \ {c} : run[d].pc = "post" =>
              \A i \in 1..Len(nodes') : nodes'[i] # run[d].key
<1> PICK k, n : k = run[c].key /\ n = Len(nodes)
  OBVIOUS
<1>1. /\ k \in 1..made /\ \A i \in 1..n : nodes[i] # k
      /\ \A d \in Commands \ {c} : run[d].pc = "post" =>
           run[d].key # k /\ \A i \in 1..n : nodes[i] # run[d].key
  BY DEF MInv, PostsNew
<1>2. nodes \in Seq(1..made) /\ n \in Nat
  BY DEF MInv, WorldTyped
<1>3. /\ nodes' \in Seq(1..made) /\ Len(nodes') = n + 1
      /\ nodes'[n + 1] = k /\ \A i \in 1..n : nodes'[i] = nodes[i]
  BY <1>1, <1>2
<1>4. \A i \in 1..(n + 1) : i \in 1..n \/ i = n + 1
  BY <1>2
<1>5. ASSUME NEW i \in 1..(n + 1), NEW j \in 1..(n + 1), nodes'[i] = nodes'[j]
      PROVE  i = j
  <2>1. CASE i \in 1..n /\ j \in 1..n
    BY <1>3, <1>5, <2>1 DEF MInv, KeysRegisteredOnce
  <2>2. CASE i = n + 1 \/ j = n + 1
    BY <1>1, <1>3, <1>4, <1>5, <2>2
  <2> QED
    BY <1>4, <2>1, <2>2
<1>6. KeysRegisteredOnce'
  BY <1>3, <1>5 DEF KeysRegisteredOnce
<1>7. \A d \in Commands \ {c} : run[d].pc = "post" =>
        \A i \in 1..(n + 1) : nodes'[i] # run[d].key
  BY <1>1, <1>3, <1>4
<1> QED
  BY <1>3, <1>6, <1>7

\* The command has posted its key, with or without an answer.
LEMMA PostsWell ==
  ASSUME MInv, NEW c \in Commands, Post(c) \/ PostFails(c)
  PROVE  MInv'
<1>1. /\ run[c].pc = "post" /\ nodes' \in {nodes, Append(nodes, run[c].key)}
      /\ UNCHANGED <<proc, pidfile, unit, active, unheard, keyfile, identity,
                     made>>
  BY DEF Post, PostFails, At, service
<1>2. /\ nodes' \in Seq(1..made) /\ Len(nodes) \in Nat
      /\ Len(nodes') \in {Len(nodes), Len(nodes) + 1}
      /\ KeysRegisteredOnce'
      /\ \A d \in Commands \ {c} : run[d].pc = "post" =>
           \A i \in 1..Len(nodes') : nodes'[i] # run[d].key
  <2>1. CASE nodes' = nodes
    BY <2>1 DEF MInv, WorldTyped, PostsNew, KeysRegisteredOnce
  <2>2. CASE nodes' = Append(nodes, run[c].key)
    <3>1. Len(nodes) \in Nat
      BY DEF MInv, WorldTyped
    <3> QED
      BY <1>1, <2>2, <3>1, PostedOnce
  <2> QED
    BY <1>1, <2>1, <2>2
<1>3. /\ run[c] \in Runs /\ run[c].todo \in Todos
      /\ run[c].key \in 0..made /\ run[c].id \in 0..Len(nodes)
  BY <1>1, StepsOn DEF MInv, Fits
<1>4. PICK r : /\ run' = [run EXCEPT ![c] = r] /\ r \in Runs /\ r.pc # "post"
               /\ r.pc # "idle" => r.todo \in Todos
               /\ r.key \in 0..made /\ r.id \in 0..Len(nodes')
  <2>1. CASE PostFails(c)
    <3> PICK r : r = Idle
      OBVIOUS
    <3>1. run' = [run EXCEPT ![c] = r]
      BY <2>1 DEF PostFails, Fail
    <3>2. 0 \in 0..made /\ 0 \in 0..Len(nodes')
      BY <1>2, ListFacts
    <3>3. r \in Runs /\ r.pc = "idle" /\ r.key = 0 /\ r.id = 0
      BY IdleFacts DEF Idle, None
    <3> QED
      BY <3>1, <3>2, <3>3
  <2>2. CASE Post(c)
    <3> PICK i : i = Len(nodes) + 1
      OBVIOUS
    <3> PICK r : r = [run[c] EXCEPT !.pc = "save", !.id = i]
      OBVIOUS
    <3>1. run' = [run EXCEPT ![c] = r] /\ nodes' = Append(nodes, run[c].key)
      BY <2>2 DEF Post
    <3>2. Len(nodes') = i
      BY <1>1, <3>1, PostedOnce
    <3>3. i \in Nat /\ i \in 0..Len(nodes')
      BY <1>2, <3>2
    <3>4. r \in Runs /\ r.pc = "save" /\ r.todo = run[c].todo /\ r.key = run[c].key
          /\ r.id = i
      BY <1>3, <3>3 DEF Runs
    <3> QED
      BY <1>3, <3>1, <3>3, <3>4
  <2> QED
    BY <2>1, <2>2
<1>5. spent' \in [{"fails", "cuts", "ends", "strangers"} -> Nat]
  BY SpentTyped, WorldFacts DEF Post, PostFails
<1>6. identity \in 0..Len(nodes')
  <2>1. identity \in 0..Len(nodes)
    BY DEF MInv, WorldTyped
  <2> QED
    BY <1>2, <2>1
<1>7. WorldTyped'
  BY <1>1, <1>2, <1>5, <1>6 DEF MInv, WorldTyped
<1>8. /\ run' \in [Commands -> Runs] /\ run'[c] = r
      /\ \A d \in Commands \ {c} : run'[d] = run[d]
  BY <1>4 DEF MInv
<1>9. ASSUME NEW d \in Commands PROVE Fits(run[d])'
  <2>1. CASE d # c
    <3>1. Fits(run[d])
      BY DEF MInv
    <3> QED
      BY <1>1, <1>2, <1>8, <2>1, <3>1 DEF Fits
  <2>2. CASE d = c
    BY <1>1, <1>4, <1>8, <2>2 DEF Fits
  <2> QED
    BY <2>1, <2>2
<1>10. PostsNew'
  <2>1. \A d \in Commands : run'[d].pc = "post" => d # c /\ run'[d] = run[d]
    BY <1>4, <1>8
  <2> QED
    BY <1>1, <1>2, <2>1 DEF MInv, PostsNew
<1> QED
  BY <1>2, <1>7, <1>8, <1>9, <1>10 DEF MInv

LEMMA SavesWell ==
  ASSUME MInv, NEW c \in Commands, SaveIdentity(c)
  PROVE  MInv'
<1>1. /\ run[c].pc = "save" /\ identity' = run[c].id
      /\ UNCHANGED <<proc, pidfile, unit, active, unheard, keyfile, nodes, made,
                     spent>>
  BY DEF SaveIdentity, At, service
<1> PICK r : r = After(c)
  OBVIOUS
<1>2. run' = [run EXCEPT ![c] = r] /\ Step(run[c], r)
  BY <1>1, StepsOn DEF SaveIdentity, Finish
<1>3. WorldTyped'
  BY <1>1 DEF MInv, Fits, WorldTyped
<1> QED
  BY <1>1, <1>2, <1>3, OneStep

\* Processes that come and go leave every command as it is; a reboot ends them.
LEMMA WorldWell ==
  ASSUME MInv, World
  PROVE  MInv'
<1>0. /\ \A w \in {"free", "node", "service", "other"} : w \in Words
      /\ [p \in Pids |-> "free"] \in [Pids -> Words]
  BY DEF Words
<1>1. CASE \E p \in Pids : NodeEnds(p) \/ StrangerStarts(p) \/ StrangerEnds(p)
  <2> PICK p \in Pids : NodeEnds(p) \/ StrangerStarts(p) \/ StrangerEnds(p)
    BY <1>1
  <2>1. proc' \in [Pids -> Words]
    BY <1>0, WorldFacts DEF NodeEnds, StrangerStarts, StrangerEnds
  <2>2. spent' \in [{"fails", "cuts", "ends", "strangers"} -> Nat]
    BY SpentTyped, WorldFacts DEF NodeEnds, StrangerStarts, StrangerEnds
  <2>3. UNCHANGED <<pidfile, service, enrolled, run>>
    BY DEF NodeEnds, StrangerStarts, StrangerEnds
  <2> QED
    BY <2>1, <2>2, <2>3, NoCommandMoves DEF service
<1>2. CASE ServiceRestarts
  <2>1. proc' \in [Pids -> Words]
    BY <1>0, <1>2, WorldFacts DEF ServiceRestarts, Free
  <2>2. UNCHANGED <<pidfile, service, enrolled, run, spent>>
    BY <1>2 DEF ServiceRestarts
  <2> QED
    BY <2>1, <2>2, NoCommandMoves, WorldFacts DEF service
<1>3. CASE Reboot
  <2>1. /\ proc' \in [Pids -> Words] /\ active' \in {unit, FALSE}
        /\ unheard' = FALSE
        /\ run' = [c \in Commands |-> Idle] /\ UNCHANGED <<pidfile, unit, enrolled>>
    BY <1>0, <1>3 DEF Reboot
  <2>2. spent' \in [{"fails", "cuts", "ends", "strangers"} -> Nat]
    BY <1>3, SpentTyped DEF Reboot
  <2>3. WorldTyped'
    BY <2>1, <2>2 DEF MInv, WorldTyped, Words, enrolled
  <2>4. made \in Nat /\ Len(nodes) \in Nat /\ UNCHANGED <<nodes, made>>
    BY <2>1 DEF MInv, WorldTyped, enrolled
  <2>5. /\ run' \in [Commands -> Runs]
        /\ \A c \in Commands : Fits(run[c])'
    BY <2>1, <2>4, IdleFacts DEF Fits
  <2>6. PostsNew' /\ KeysRegisteredOnce'
    <3>1. \A c \in Commands : run'[c].pc # "post"
      BY <2>1, IdleFacts
    <3> QED
      BY <2>4, <3>1 DEF MInv, PostsNew, KeysRegisteredOnce
  <2> QED
    BY <2>3, <2>5, <2>6 DEF MInv
<1> QED
  BY <1>1, <1>2, <1>3 DEF World

LEMMA InitWell == Init => MInv
<1> SUFFICES ASSUME Init PROVE MInv
  OBVIOUS
<1>1. <<>> \in Seq(1..0) /\ Len(<<>>) = 0
  OBVIOUS
<1>2. WorldTyped
  <2>1. made = 0 /\ keyfile = 0 /\ identity = 0 /\ nodes = <<>>
    BY DEF Init, None
  <2>2. /\ made \in 0..MaxNodes /\ keyfile \in 0..made
        /\ nodes \in Seq(1..made) /\ identity \in 0..Len(nodes)
    <3>1. MaxNodes \in Nat /\ 0 \in 0..MaxNodes /\ 0 \in 0..0
      OBVIOUS
    <3> QED
      BY <1>1, <2>1, <3>1
  <2>3. /\ proc \in [Pids -> {"free", "zombie", "node", "service", "other"}]
        /\ pidfile \in {None} \cup Pids
        /\ unit \in BOOLEAN /\ active \in BOOLEAN /\ unheard \in BOOLEAN
    BY DEF Init
  <2>4. spent \in [{"fails", "cuts", "ends", "strangers"} -> Nat]
    BY DEF Init
  <2> QED
    BY <2>2, <2>3, <2>4 DEF WorldTyped
<1>3. \A c \in Commands : run[c] = Idle
  BY DEF Init
<1>4. run \in [Commands -> Runs] /\ \A c \in Commands : Fits(run[c])
  BY <1>1, <1>3, IdleFacts DEF Init, Fits
<1>5. PostsNew /\ KeysRegisteredOnce
  BY <1>1, <1>3, IdleFacts DEF Init, PostsNew, KeysRegisteredOnce
<1> QED
  BY <1>2, <1>4, <1>5 DEF MInv

LEMMA NextWell == MInv /\ [Next]_vars => MInv'
<1> SUFFICES ASSUME MInv, [Next]_vars PROVE MInv'
  OBVIOUS
<1>1. CASE UNCHANGED vars
  BY <1>1, NoCommandMoves, WorldFacts DEF vars, enrolled
<1>2. ASSUME NEW c \in Commands, Command(c) PROVE MInv'
  <2>1. CASE \E kind \in Kinds : Begin(c, kind)
    BY <2>1, BeginsWell
  <2>2. CASE \/ FindDaemon(c) \/ FindNone(c) \/ FindStale(c) \/ CheckService(c)
             \/ Registered(c) \/ NotLoggedIn(c) \/ Look(c) \/ StopNone(c) \/ Gone(c)
             \/ SystemctlStartFails(c) \/ ActivateFails(c) \/ NothingEnabled(c)
    BY <2>2, LooksWell
  <2>3. CASE \/ ClearStale(c) \/ WritePid(c) \/ ClearPid(c) \/ Kill(c)
             \/ SystemctlStop(c) \/ SystemctlStopFails(c) \/ WriteUnit(c)
             \/ Deactivate(c) \/ DeactivateFails(c) \/ RemoveUnit(c)
    BY <2>3, FilesWell
  <2>4. CASE WriteKey(c) \/ Post(c) \/ PostFails(c) \/ SaveIdentity(c)
    BY <2>4, WritesKeyWell, PostsWell, SavesWell
  <2>5. CASE \/ Terminate(c) \/ Spawn(c) \/ SystemctlStart(c) \/ Activate(c)
             \/ End(c) \/ Cut(c)
    BY <2>5, TerminatesWell, SpawnsWell, ServesWell, EndsWell
  <2>6. CASE Obey(c)
    <3>1. run[c].pid \in Pids
      BY <2>6, WorldFacts DEF Obey, Alive
    <3>2. proc' \in [Pids -> Words]
      BY <2>6, <3>1, WorldFacts DEF Obey
    <3> QED
      BY <2>6, <3>2, NoCommandMoves, WorldFacts DEF Obey, service
  <2> QED
    BY <1>2, <2>1, <2>2, <2>3, <2>4, <2>5, <2>6 DEF Command
<1> QED
  BY <1>1, <1>2, WorldWell DEF Next

\* Every process, file, key and command keeps its type, and the id in node.json
\* is one the server knows, however many shells overlap.
THEOREM NodeTypeCorrect == Spec => []TypeOK
<1>1. MInv => TypeOK
  <2> SUFFICES ASSUME MInv PROVE TypeOK
    OBVIOUS
  <2>1. ASSUME NEW c \in Commands
        PROVE  /\ run[c].kind \in Kinds \cup {"idle"}
               /\ {run[c].pid, run[c].child} \subseteq {None} \cup Pids
               /\ run[c].id \in 0..Len(nodes) /\ run[c].key \in 0..made
    <3>1. run[c] \in Runs /\ Fits(run[c])
      BY DEF MInv
    <3> QED
      BY <3>1 DEF Runs, Fits
  <2> QED
    BY <2>1 DEF MInv, WorldTyped, TypeOK
<1> QED
  BY <1>1, InitWell, NextWell, PTL DEF Spec

\* No two ids of this machine are registered with one key, whatever shells
\* overlap, fail or are interrupted between a post and its answer
\* (registration.rs:register_node).
THEOREM KeysAreOfOneId == Spec => []KeysRegisteredOnce
<1>1. MInv => KeysRegisteredOnce
  BY DEF MInv
<1> QED
  BY <1>1, InitWell, NextWell, PTL DEF Spec
=============================================================================
