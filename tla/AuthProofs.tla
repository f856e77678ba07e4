----------------------------- MODULE AuthProofs -----------------------------
(***************************************************************************)
(* What the server keeps of accounts: their sessions, and the counters     *)
(* that limit logins and instructions.                                     *)
(*                                                                         *)
(* The sessions come first, for any number of commands, requests,          *)
(* sessions, keys and faults, on any kind of machine: a session that was   *)
(* reported as revoked is gone from the server, and what a logout cleared  *)
(* stays cleared.                                                          *)
(*                                                                         *)
(* The inductive invariant says what a command holds and has still to      *)
(* write (GoodRun): a refresh writes access tokens only and a logout       *)
(* deletes only, so that nothing but a login can bring back what a logout  *)
(* has deleted; no store holds a session that is not yet issued (StoreOK); *)
(* and a logout that no login has overlapped has deleted the refresh token *)
(* of the keyring, or is about to (AloneOK).                               *)
(***************************************************************************)
EXTENDS Sessions, WindowCounters, TLAPS

USE SessionsAssumption

Ops == [at : {"keyring", "file"}, field : Fields, value : Nat]

Runs == [kind : {"idle", "login", "refresh", "logout"},
         pc : {"idle", "register", "ask", "mint", "write", "save"}, up : BOOLEAN,
         sess : Nat, todo : Seq(Ops), data : [Fields -> Nat]]

Elems(s) == {s[i] : i \in 1..Len(s)}

\* A write the command r may have left.
GoodOp(r, op) ==
  /\ op.field = "refresh" => op.value <= issued
  /\ op.value # None => /\ r.kind # "logout"
                        /\ op.field = "access" \/ r.kind = "login"
                        /\ r.up => op.at = "keyring"

GoodRun(r) ==
  /\ r.kind = "idle" <=> r.pc = "idle"
  /\ r.pc \in {"register", "mint"} => r.kind = "login"
  /\ r.sess \in 0..issued
  /\ r.pc = "save" => r.todo # <<>> /\ Head(r.todo).at = "file"
  /\ r.data["refresh"] <= issued
  /\ \A op \in Elems(r.todo) : GoodOp(r, op)
  /\ r.kind = "logout" /\ r.pc # "ask" /\ lost = 0 => r.sess \notin live

RunOK ==
  /\ shells \in Machines
  /\ run \in [Commands -> Runs]
  /\ \A p \in Commands : GoodRun(run[p])

StoreOK ==
  /\ keyring["refresh"] <= issued /\ file["refresh"] <= issued
  /\ shells = {TRUE} =>
       file = Empty /\ \A p \in Commands : run[p].up = TRUE /\ run[p].data = Empty

RevokedOK ==
  /\ \A r \in Requests : scan[r] \subseteq 1..issued
  /\ SessionRevoked

Clears(r) ==
  \/ keyring["refresh"] = None
  \/ Op("keyring", "refresh", None) \in Elems(r.todo)

AloneOK ==
  /\ LoggingIn => alone = {} /\ ~out
  /\ \A p \in alone : run[p].kind = "logout"
  /\ shells = {TRUE} =>
       /\ \A p \in alone : run[p].pc # "ask" => Clears(run[p])
       /\ out => keyring["refresh"] = None

IInv == TypeOK /\ RunOK /\ StoreOK /\ RevokedOK /\ AloneOK

----------------------------------------------------------------------------
(* The writes a command has left *)

LEMMA OneElem ==
  ASSUME NEW a \in Ops
  PROVE  <<a>> \in Seq(Ops) /\ Elems(<<a>>) = {a}
  BY DEF Elems

LEMMA ElemsConcat ==
  ASSUME NEW s \in Seq(Ops), NEW t \in Seq(Ops)
  PROVE  s \o t \in Seq(Ops) /\ Elems(s \o t) = Elems(s) \cup Elems(t)
<1>1. s \o t \in Seq(Ops) /\ Len(s \o t) = Len(s) + Len(t)
      /\ Len(s) \in Nat /\ Len(t) \in Nat
  OBVIOUS
<1>2. \A i \in 1..Len(s \o t) :
        (s \o t)[i] = IF i <= Len(s) THEN s[i] ELSE t[i - Len(s)]
  OBVIOUS
<1>3. Elems(s \o t) \subseteq Elems(s) \cup Elems(t)
  <2> SUFFICES ASSUME NEW i \in 1..Len(s \o t)
               PROVE  (s \o t)[i] \in Elems(s) \cup Elems(t)
    BY DEF Elems
  <2>1. CASE i <= Len(s)
    BY <1>1, <1>2, <2>1 DEF Elems
  <2>2. CASE ~(i <= Len(s))
    <3>1. i - Len(s) \in 1..Len(t)
      BY <1>1, <2>2
    <3> QED
      BY <1>2, <2>2, <3>1 DEF Elems
  <2> QED
    BY <2>1, <2>2
<1>4. Elems(s) \subseteq Elems(s \o t)
  <2> SUFFICES ASSUME NEW i \in 1..Len(s)
               PROVE  s[i] \in Elems(s \o t)
    BY DEF Elems
  <2>1. i \in 1..Len(s \o t) /\ (s \o t)[i] = s[i]
    BY <1>1, <1>2
  <2> QED
    BY <2>1 DEF Elems
<1>5. Elems(t) \subseteq Elems(s \o t)
  <2> SUFFICES ASSUME NEW i \in 1..Len(t)
               PROVE  t[i] \in Elems(s \o t)
    BY DEF Elems
  <2>1. Len(s) + i \in 1..Len(s \o t) /\ (s \o t)[Len(s) + i] = t[i]
    BY <1>1, <1>2
  <2> QED
    BY <2>1 DEF Elems
<1> QED
  BY <1>1, <1>3, <1>4, <1>5

LEMMA ElemsTail ==
  ASSUME NEW s \in Seq(Ops), s # <<>>
  PROVE  /\ Head(s) \in Ops /\ Tail(s) \in Seq(Ops)
         /\ Elems(s) = {Head(s)} \cup Elems(Tail(s))
<1>1. /\ Tail(s) \in Seq(Ops) /\ Len(s) \in Nat \ {0} /\ Len(Tail(s)) = Len(s) - 1
      /\ Head(s) = s[1] /\ Head(s) \in Ops
      /\ \A i \in 1..Len(Tail(s)) : Tail(s)[i] = s[i + 1]
  OBVIOUS
<1>2. \A i \in 1..Len(s) : i = 1 \/ (i - 1 \in 1..Len(Tail(s)) /\ Tail(s)[i - 1] = s[i])
  BY <1>1
<1>3. \A i \in 1..Len(Tail(s)) : i + 1 \in 1..Len(s)
  BY <1>1
<1>4. Elems(s) \subseteq {Head(s)} \cup Elems(Tail(s))
  <2> SUFFICES ASSUME NEW i \in 1..Len(s)
               PROVE  s[i] \in {Head(s)} \cup Elems(Tail(s))
    BY DEF Elems
  <2>1. CASE i = 1
    BY <1>1, <2>1
  <2>2. CASE i # 1
    BY <1>2, <2>2 DEF Elems
  <2> QED
    BY <2>1, <2>2
<1>5. Elems(Tail(s)) \subseteq Elems(s)
  <2> SUFFICES ASSUME NEW i \in 1..Len(Tail(s))
               PROVE  Tail(s)[i] \in Elems(s)
    BY DEF Elems
  <2> QED
    BY <1>1, <1>3 DEF Elems
<1>6. Head(s) \in Elems(s)
  <2>1. 1 \in 1..Len(s) /\ Head(s) = s[1]
    BY <1>1
  <2> QED
    BY <2>1 DEF Elems
<1> QED
  BY <1>1, <1>4, <1>5, <1>6

----------------------------------------------------------------------------
(* The step of a command *)

Others(p) == \A q \in Commands \ {p} : run'[q] = run[q]

LEMMA Numbers ==
  ASSUME IInv
  PROVE  /\ issued \in Nat /\ issued \in 0..MaxSessions
         /\ \A p \in Commands : run[p] \in Runs /\ GoodRun(run[p])
         /\ keyring \in [Fields -> Nat] /\ file \in [Fields -> Nat]
         /\ shells \subseteq BOOLEAN /\ shells # {}
<1>1. shells \in Machines /\ issued \in 0..MaxSessions
  BY DEF IInv, TypeOK, RunOK
<1>2. shells \subseteq BOOLEAN /\ shells # {}
  BY <1>1 DEF SessionsAssumption
<1>3. issued \in Nat
  BY <1>1 DEF SessionsAssumption
<1> QED
  BY <1>1, <1>2, <1>3 DEF IInv, TypeOK, RunOK

LEMMA EmptyFacts == Empty \in [Fields -> Nat] /\ \A f \in Fields : Empty[f] = None
  BY DEF Empty, None

LEMMA IdleFacts ==
  ASSUME issued \in Nat
  PROVE  /\ Idle \in Runs /\ Idle.kind = "idle" /\ Idle.pc = "idle" /\ Idle.up = TRUE
         /\ Idle.todo = <<>> /\ Idle.data = Empty /\ Idle.sess = None
         /\ GoodRun(Idle)
<1>1. Idle \in Runs
  BY EmptyFacts DEF Idle, Runs, None
<1>2. /\ Idle.kind = "idle" /\ Idle.pc = "idle" /\ Idle.up = TRUE
      /\ Idle.todo = <<>> /\ Idle.data = Empty /\ Idle.sess = None
  BY DEF Idle
<1>3. Idle.data["refresh"] <= issued /\ Idle.sess \in 0..issued
  BY <1>2, EmptyFacts DEF Fields, None
<1>4. Elems(Idle.todo) = {}
  BY <1>2 DEF Elems
<1> QED
  BY <1>1, <1>2, <1>3, <1>4 DEF GoodRun

LEMMA RunFacts ==
  ASSUME IInv, NEW p \in Commands, NEW r \in Runs, run' = [run EXCEPT ![p] = r]
  PROVE  run' \in [Commands -> Runs] /\ Others(p) /\ run'[p] = r
  BY DEF IInv, RunOK, Others

\* The server issues sessions in order, forgets others, and loses requests for
\* good.
Later ==
  /\ issued' \in 0..MaxSessions /\ issued <= issued'
  /\ live' \subseteq 1..issued'
  /\ \A s \in live' : s \in live \/ s > issued
  /\ lost' = 0 => lost = 0
  /\ shells' = shells

LEMMA GoodStays ==
  ASSUME IInv, Later, NEW r \in Runs, GoodRun(r)
  PROVE  GoodRun(r)'
<1> PICK i, j : i = issued /\ j = issued'
  OBVIOUS
<1>1. i \in Nat /\ j \in Nat /\ i <= j
  BY Numbers DEF Later
<1>2. \A n \in Nat : n <= i => n <= j
  BY <1>1
<1>3. r.sess \in 0..j /\ r.data["refresh"] <= j
  BY <1>1, <1>2 DEF GoodRun, Runs, Fields
<1>4. \A op \in Elems(r.todo) : op.field = "refresh" => op.value <= j
  <2>1. \A op \in Elems(r.todo) : op \in Ops
    BY DEF Runs, Elems
  <2> QED
    BY <1>2, <2>1 DEF GoodRun, GoodOp, Ops
<1>5. r.kind = "logout" /\ r.pc # "ask" /\ lost' = 0 => r.sess \notin live'
  <2>1. r.sess <= i
    BY <1>1 DEF GoodRun, Runs
  <2>2. \A s \in live' : s \in live \/ s > i
    BY DEF Later
  <2>3. ~(r.sess > i)
    BY <1>1, <2>1 DEF GoodRun, Runs
  <2> QED
    BY <2>2, <2>3 DEF Later, GoodRun
<1> QED
  BY <1>3, <1>4, <1>5 DEF GoodRun, GoodOp

LEMMA RunsInv ==
  ASSUME IInv, Later, NEW p \in Commands, NEW r \in Runs, run' = [run EXCEPT ![p] = r],
         GoodRun(r)'
  PROVE  RunOK'
<1>1. run' \in [Commands -> Runs] /\ Others(p) /\ run'[p] = r
  BY RunFacts
<1>2. \A q \in Commands \ {p} : GoodRun(run[q])'
  <2> SUFFICES ASSUME NEW q \in Commands \ {p}
               PROVE  GoodRun(run[q])'
    OBVIOUS
  <2> PICK v : v = run[q]
    OBVIOUS
  <2>1. v \in Runs /\ GoodRun(v) /\ run'[q] = v
    BY <1>1, Numbers DEF Others
  <2>2. GoodRun(v)'
    BY <2>1, GoodStays
  <2> QED
    BY <2>1, <2>2
<1>3. GoodRun(run[p])'
  BY <1>1
<1> QED
  BY <1>1, <1>2, <1>3 DEF IInv, RunOK, Later

\* Logins, and the logouts they have not overlapped.
AloneStep(p) ==
  /\ run'[p].kind = "login" => run[p].kind = "login" \/ (alone' = {} /\ ~out')
  /\ alone' \subseteq alone \cup {p}
  /\ p \in alone' => /\ run'[p].kind = "logout" /\ ~LoggingIn
                     /\ shells = {TRUE} /\ run'[p].pc # "ask" => Clears(run[p])'
  /\ out' => out \/ (~LoggingIn /\ (shells = {TRUE} => keyring'["refresh"] = None))
  /\ LoggingIn \/ keyring'["refresh"] \in {None, keyring["refresh"]}
  /\ out' \in BOOLEAN

LEMMA AloneInv ==
  ASSUME IInv, NEW p \in Commands, Others(p), shells' = shells, AloneStep(p)
  PROVE  AloneOK'
<1>1. ASSUME LoggingIn'
      PROVE  alone' = {} /\ ~out'
  <2>1. CASE LoggingIn
    BY <2>1 DEF IInv, AloneOK, AloneStep
  <2>2. CASE ~LoggingIn
    BY <1>1, <2>2 DEF LoggingIn, Others, AloneStep
  <2> QED
    BY <2>1, <2>2
<1>2. ASSUME NEW q \in alone'
      PROVE  /\ run'[q].kind = "logout"
             /\ shells = {TRUE} /\ run'[q].pc # "ask" => Clears(run[q])'
  <2>1. CASE q = p
    BY <1>2, <2>1 DEF AloneStep
  <2>2. CASE q # p
    <3>1. q \in alone /\ ~LoggingIn /\ q \in Commands
      BY <1>2, <2>2 DEF AloneStep, IInv, AloneOK, TypeOK
    <3>2. run'[q] = run[q] /\ keyring'["refresh"] \in {None, keyring["refresh"]}
      BY <2>2, <3>1 DEF Others, AloneStep
    <3>3. /\ run[q].kind = "logout"
          /\ shells = {TRUE} /\ run[q].pc # "ask" => Clears(run[q])
      BY <3>1 DEF IInv, AloneOK
    <3> QED
      BY <3>2, <3>3 DEF Clears
  <2> QED
    BY <2>1, <2>2
<1>3. ASSUME shells = {TRUE}, out'
      PROVE  keyring'["refresh"] = None
  <2>1. out => ~LoggingIn /\ keyring["refresh"] = None
    BY <1>3 DEF IInv, AloneOK
  <2> QED
    BY <1>3, <2>1 DEF AloneStep
<1> QED
  BY <1>1, <1>2, <1>3 DEF AloneOK

\* The types of what is neither a store nor a command's.
Rest ==
  /\ account \in BOOLEAN
  /\ minted \in 0..MaxKeys /\ keys \in Seq(1..minted)
  /\ scan \in [Requests -> SUBSET Sessions]
  /\ lost \in Nat /\ cuts \in Nat /\ lost + cuts <= MaxFaults
  /\ out \in BOOLEAN /\ alone \subseteq Commands
  /\ revoked \subseteq 1..issued

LEMMA CommandInv ==
  ASSUME IInv, Later, NEW p \in Commands, NEW r \in Runs, run' = [run EXCEPT ![p] = r],
         GoodRun(r)', r.kind # "idle" => r.up \in shells,
         keyring' \in [Fields -> Nat], file' \in [Fields -> Nat],
         Rest', StoreOK', RevokedOK', AloneStep(p)
  PROVE  IInv'
<1>1. Others(p) /\ run'[p] = r /\ RunOK'
  BY RunFacts, RunsInv
<1>2. AloneOK'
  BY <1>1, AloneInv DEF Later
<1>3. \A q \in Commands : run'[q].kind # "idle" => run'[q].up \in shells'
  BY <1>1 DEF Others, IInv, TypeOK, Later
<1>4. TypeOK'
  BY <1>3 DEF Rest, TypeOK, Later
<1> QED
  BY <1>1, <1>2, <1>4 DEF IInv

LEMMA RestStays ==
  ASSUME IInv, Later, UNCHANGED <<account, minted, keys, scan, lost, cuts, revoked>>,
         out' \in BOOLEAN, alone' \subseteq Commands
  PROVE  Rest' /\ RevokedOK'
<1> PICK i, j : i = issued /\ j = issued'
  OBVIOUS
<1>1. i \in Nat /\ j \in Nat /\ i <= j
  BY Numbers DEF Later
<1>2. \A s \in 1..i : s \in 1..j /\ ~(s > i)
  BY <1>1
<1>3. revoked' \subseteq 1..j /\ \A r \in Requests : scan'[r] \subseteq 1..j
  BY <1>2 DEF IInv, TypeOK, RevokedOK
<1>4. lost' = 0 => revoked' \cap live' = {}
  <2>1. \A s \in revoked : ~(s > i)
    BY <1>2 DEF IInv, TypeOK
  <2>2. lost' = 0 => revoked \cap live = {}
    BY DEF IInv, RevokedOK, SessionRevoked
  <2> QED
    BY <2>1, <2>2 DEF Later
<1>5. Rest'
  BY <1>3 DEF IInv, TypeOK, Rest
<1> QED
  BY <1>3, <1>4, <1>5 DEF RevokedOK, SessionRevoked

\* Neither store is written.
LEMMA StoreStays ==
  ASSUME IInv, Later, NEW p \in Commands, NEW r \in Runs, run' = [run EXCEPT ![p] = r],
         UNCHANGED <<keyring, file>>, shells = {TRUE} => r.up = TRUE /\ r.data = Empty
  PROVE  /\ StoreOK'
         /\ keyring' \in [Fields -> Nat] /\ file' \in [Fields -> Nat]
<1>1. Others(p) /\ run'[p] = r
  BY RunFacts
<1>2. keyring'["refresh"] <= issued' /\ file'["refresh"] <= issued'
  <2> PICK i, j : i = issued /\ j = issued'
    OBVIOUS
  <2>1. i \in Nat /\ j \in Nat /\ i <= j
    BY Numbers DEF Later
  <2>2. \A n \in Nat : n <= i => n <= j
    BY <2>1
  <2>3. keyring["refresh"] \in Nat /\ file["refresh"] \in Nat
    BY Numbers DEF Fields
  <2> QED
    BY <2>2, <2>3 DEF IInv, StoreOK
<1>3. shells' = {TRUE} =>
        file' = Empty /\ \A q \in Commands : run'[q].up = TRUE /\ run'[q].data = Empty
  BY <1>1 DEF Others, IInv, StoreOK, Later
<1> QED
  BY <1>2, <1>3, Numbers DEF StoreOK

\* Nothing changes but what the command does next.
LEMMA StepInv ==
  ASSUME IInv, NEW p \in Commands, NEW r \in Runs, run' = [run EXCEPT ![p] = r],
         UNCHANGED <<minted, keys, scan, lost, cuts, revoked, shells, keyring, file>>,
         UNCHANGED issued, live' \subseteq live, account' \in {TRUE, account},
         GoodRun(r), r.kind # "idle" => r.up \in shells,
         shells = {TRUE} => r.up = TRUE /\ r.data = Empty,
         AloneStep(p)
  PROVE  IInv'
<1>1. Later
  BY DEF IInv, TypeOK, Later
<1>2. GoodRun(r)'
  BY <1>1, GoodStays
<1>3. alone' \subseteq Commands /\ out' \in BOOLEAN
  BY DEF AloneStep, IInv, TypeOK
<1>4. Rest' /\ RevokedOK'
  BY <1>3 DEF Rest, RevokedOK, SessionRevoked, IInv, TypeOK
<1>5. StoreOK' /\ keyring' \in [Fields -> Nat] /\ file' \in [Fields -> Nat]
  BY <1>1, StoreStays
<1> QED
  BY <1>1, <1>2, <1>4, <1>5, CommandInv

\* Nothing is known of what a command begins with but its keyring.
Begun(p, kind, step, r) ==
  /\ run' = [run EXCEPT ![p] = r] /\ run'[p] = r /\ run[p].kind = "idle"
  /\ r.kind = kind /\ r.pc = step /\ r.up \in shells
  /\ GoodRun(r)
  /\ shells = {TRUE} => r.up = TRUE /\ r.data = Empty

LEMMA BeginsFacts ==
  ASSUME IInv, NEW p \in Commands, NEW kind \in {"login", "refresh", "logout"},
         NEW step \in {"register", "ask"}, step = "register" => kind = "login",
         Begins(p, kind, step)
  PROVE  \E r \in Runs : Begun(p, kind, step, r)
<1>1. PICK up \in shells :
        run' = [run EXCEPT ![p] = [Idle EXCEPT !.kind = kind, !.up = up, !.pc = step]]
  BY DEF Begins
<1> PICK r : r = [Idle EXCEPT !.kind = kind, !.up = up, !.pc = step]
  OBVIOUS
<1>2. up \in BOOLEAN /\ issued \in Nat
  BY Numbers
<1>3. Idle \in Runs /\ Idle.data = Empty /\ Idle.todo = <<>> /\ Idle.sess = None
  BY <1>2, IdleFacts
<1>4. r \in Runs /\ r.kind = kind /\ r.pc = step /\ r.up = up /\ r.todo = <<>>
      /\ r.data = Empty /\ r.sess = None
  BY <1>2, <1>3 DEF Runs
<1>5. GoodRun(r)
  <2>1. Elems(r.todo) = {} /\ r.data["refresh"] <= issued /\ r.sess \in 0..issued
    BY <1>2, <1>4, EmptyFacts DEF Fields, None, Elems
  <2> QED
    BY <1>4, <2>1 DEF GoodRun
<1>6. run'[p] = r /\ run[p].kind = "idle"
  BY <1>1, <1>4, RunFacts DEF Begins
<1>7. shells = {TRUE} => r.up = TRUE
  BY <1>4
<1>8. r.up \in shells
  BY <1>4
<1> QED
  BY <1>1, <1>4, <1>5, <1>6, <1>7, <1>8 DEF Begun

----------------------------------------------------------------------------
(* The commands *)

LEMMA BeginLoginInv ==
  ASSUME IInv, NEW p \in Commands, BeginLogin(p) \/ BeginRegister(p)
  PROVE  IInv'
<1>1. PICK step \in {"register", "ask"} : Begins(p, "login", step)
  BY DEF BeginLogin, BeginRegister
<1>2. PICK r \in Runs : Begun(p, "login", step, r)
  BY <1>1, BeginsFacts
<1>3. /\ out' = FALSE /\ alone' = {}
      /\ UNCHANGED <<account, issued, live, keys, minted, scan, shells, keyring, file, lost,
                     cuts, revoked>>
  BY DEF BeginLogin, BeginRegister, server, store, bounds
<1>4. AloneStep(p)
  BY <1>3 DEF AloneStep
<1> QED
  BY <1>2, <1>3, <1>4, StepInv DEF Begun

LEMMA BeginLogoutInv ==
  ASSUME IInv, NEW p \in Commands, BeginLogout(p)
  PROVE  IInv'
<1>1. PICK r \in Runs : Begun(p, "logout", "ask", r)
  BY BeginsFacts DEF BeginLogout
<1>2. /\ alone' = (IF LoggingIn \/ shells # {TRUE} THEN alone ELSE alone \cup {p})
      /\ UNCHANGED <<account, issued, live, keys, minted, scan, shells, keyring, file, lost,
                     cuts, revoked, out>>
  BY DEF BeginLogout, server, store, bounds
<1>3. AloneStep(p)
  <2>1. LoggingIn => alone = {}
    BY DEF IInv, AloneOK
  <2> QED
    BY <1>1, <1>2, <2>1 DEF AloneStep, IInv, TypeOK, Begun
<1> QED
  BY <1>1, <1>2, <1>3, StepInv DEF Begun

LEMMA BeginRefreshInv ==
  ASSUME IInv, NEW p \in Commands, BeginRefresh(p)
  PROVE  IInv'
<1>1. PICK r \in Runs : Begun(p, "refresh", "ask", r)
  BY BeginsFacts DEF BeginRefresh
<1>2. UNCHANGED <<account, issued, live, keys, minted, scan, shells, keyring, file, lost,
                  cuts, alone, revoked, out>>
  BY DEF BeginRefresh, server, store, bounds, history
<1>3. AloneStep(p)
  <2>1. p \notin alone
    BY <1>1 DEF IInv, AloneOK, Begun
  <2> QED
    BY <1>1, <1>2, <2>1 DEF AloneStep, IInv, TypeOK, Begun
<1> QED
  BY <1>1, <1>2, <1>3, StepInv DEF Begun

\* A step that writes nothing and is no login's beginning.
LEMMA AloneQuiet ==
  ASSUME IInv, NEW p \in Commands, NEW r \in Runs, run' = [run EXCEPT ![p] = r],
         UNCHANGED <<out, keyring>>, alone' \subseteq alone,
         r.kind = run[p].kind \/ r.kind = "idle",
         p \in alone' => /\ r.kind = "logout"
                         /\ shells = {TRUE} /\ r.pc # "ask" => Clears(r)'
  PROVE  AloneStep(p)
<1>1. run'[p] = r
  BY RunFacts
<1>2. p \in alone => ~LoggingIn
  BY DEF IInv, AloneOK
<1>3. p \in alone' => (shells = {TRUE} /\ run'[p].pc # "ask" => Clears(run[p])')
  BY <1>1
<1> QED
  BY <1>1, <1>2, <1>3 DEF AloneStep, IInv, TypeOK

\* A command that stops has left nothing behind it but what it wrote.
LEMMA StopInv ==
  ASSUME IInv, NEW p \in Commands, run' = [run EXCEPT ![p] = Idle],
         UNCHANGED <<minted, keys, scan, lost, cuts, revoked, shells, keyring, file>>,
         UNCHANGED <<issued, live, account, out>>, alone' \subseteq alone, p \notin alone'
  PROVE  IInv'
<1>1. issued \in Nat
  BY Numbers
<1>2. Idle \in Runs /\ GoodRun(Idle)
      /\ Idle.kind = "idle" /\ Idle.up = TRUE /\ Idle.data = Empty
  BY <1>1, IdleFacts
<1> PICK r \in Runs : r = Idle
  BY <1>2
<1>3. AloneStep(p)
  BY <1>2, AloneQuiet
<1> QED
  BY <1>2, <1>3, StepInv

\* A command goes on to step.
LEMMA GoesOn ==
  ASSUME IInv, NEW p \in Commands,
         NEW step \in {"register", "ask", "mint", "write", "save"},
         run[p].kind # "idle"
  PROVE  \E r \in Runs :
           /\ r = [run[p] EXCEPT !.pc = step]
           /\ r.pc = step /\ r.kind = run[p].kind /\ r.up = run[p].up
           /\ r.sess = run[p].sess /\ r.todo = run[p].todo /\ r.data = run[p].data
<1> PICK r : r = [run[p] EXCEPT !.pc = step]
  OBVIOUS
<1>1. run[p] \in Runs
  BY Numbers
<1>2. /\ r \in Runs /\ r.pc = step /\ r.kind = run[p].kind /\ r.up = run[p].up
      /\ r.sess = run[p].sess /\ r.todo = run[p].todo /\ r.data = run[p].data
  BY <1>1 DEF Runs
<1> QED
  BY <1>2

LEMMA CreateAccountInv ==
  ASSUME IInv, NEW p \in Commands, CreateAccount(p)
  PROVE  IInv'
<1>1. /\ UNCHANGED <<issued, live, keys, minted, scan, shells, keyring, file, lost,
                     cuts, alone, revoked, out>>
      /\ account' = TRUE /\ run[p].pc = "register"
  BY DEF CreateAccount, store, bounds, history
<1>2. run[p] \in Runs /\ GoodRun(run[p]) /\ run[p].kind = "login"
  BY <1>1, Numbers DEF GoodRun
<1>3. p \notin alone
  BY <1>2 DEF IInv, AloneOK
<1>4. CASE account = TRUE
  BY <1>1, <1>3, <1>4, StopInv DEF CreateAccount
<1>5. CASE account # TRUE
  <2>1. PICK r \in Runs :
           /\ r = [run[p] EXCEPT !.pc = "ask"]
           /\ r.pc = "ask" /\ r.kind = run[p].kind /\ r.up = run[p].up
           /\ r.sess = run[p].sess /\ r.todo = run[p].todo /\ r.data = run[p].data
    BY <1>2, GoesOn
  <2>2. run' = [run EXCEPT ![p] = r]
    BY <1>5, <2>1 DEF CreateAccount, IInv, TypeOK
  <2>3. GoodRun(r)
    BY <1>2, <2>1 DEF GoodRun, GoodOp
  <2>4. AloneStep(p)
    BY <1>1, <1>3, <2>1, <2>2, AloneQuiet
  <2>5. r.up \in shells
    BY <1>2, <2>1 DEF IInv, TypeOK
  <2>6. shells = {TRUE} => r.up = TRUE /\ r.data = Empty
    BY <2>1 DEF IInv, StoreOK
  <2> QED
    BY <1>1, <2>2, <2>3, <2>4, <2>5, <2>6, StepInv
<1> QED
  BY <1>4, <1>5

LEMMA RefusedInv ==
  ASSUME IInv, NEW p \in Commands, Refused(p)
  PROVE  IInv'
<1>1. /\ UNCHANGED <<issued, live, keys, minted, scan, shells, keyring, file, lost,
                     cuts, alone, revoked, out, account>>
      /\ run[p].kind = "login" /\ run' = [run EXCEPT ![p] = Idle]
  BY DEF Refused, server, store, bounds, history
<1>2. p \notin alone
  BY <1>1 DEF IInv, AloneOK
<1> QED
  BY <1>1, <1>2, StopInv

----------------------------------------------------------------------------
(* What a login and a refresh have to write *)

LEMMA FoundFacts ==
  ASSUME IInv, NEW p \in Commands, NEW s \in Found(p, "refresh")
  PROVE  s \in Nat /\ s <= issued
<1>1. keyring["refresh"] \in Nat /\ file["refresh"] \in Nat /\ issued \in Nat
  BY Numbers DEF Fields
<1>2. keyring["refresh"] <= issued /\ file["refresh"] <= issued
  BY DEF IInv, StoreOK
<1>3. s \in {keyring["refresh"], file["refresh"], None}
  BY DEF Found, Get
<1> QED
  BY <1>1, <1>2, <1>3 DEF None

LEMMA OpFacts ==
  ASSUME NEW where \in {"keyring", "file"}, NEW f \in Fields, NEW v \in Nat
  PROVE  /\ Op(where, f, v) \in Ops
         /\ Op(where, f, v).at = where /\ Op(where, f, v).field = f
         /\ Op(where, f, v).value = v
  BY DEF Op, Ops

\* A value is set where the command found it could be.
SetOp(p, f, v) == Op(IF run[p].up THEN "keyring" ELSE "file", f, v)

LEMMA SetFacts ==
  ASSUME IInv, NEW p \in Commands, NEW f \in Fields, NEW v \in Nat
  PROVE  /\ SetOp(p, f, v) \in Ops
         /\ SetOp(p, f, v).field = f /\ SetOp(p, f, v).value = v
         /\ run[p].up => SetOp(p, f, v).at = "keyring"
<1> PICK where : where = IF run[p].up THEN "keyring" ELSE "file"
  OBVIOUS
<1>1. run[p].up \in BOOLEAN
  BY Numbers DEF Runs
<1>2. where \in {"keyring", "file"} /\ (run[p].up => where = "keyring")
  BY <1>1
<1>3. SetOp(p, f, v) = Op(where, f, v)
  BY DEF SetOp
<1>4. Op(where, f, v) \in Ops
  BY <1>2, OpFacts
<1>5. Op(where, f, v).field = f /\ Op(where, f, v).value = v /\ Op(where, f, v).at = where
  BY <1>2, OpFacts
<1> QED
  BY <1>2, <1>3, <1>4, <1>5

LEMMA SetElems ==
  ASSUME IInv, NEW p \in Commands, NEW f \in Fields, NEW v \in Nat
  PROVE  Set(p, f, v) \in Seq(Ops) /\ Elems(Set(p, f, v)) = {SetOp(p, f, v)}
<1>1. Set(p, f, v) = <<SetOp(p, f, v)>>
  BY DEF Set, SetOp
<1>2. SetOp(p, f, v) \in Ops
  BY SetFacts
<1> QED
  BY <1>1, <1>2, OneElem

\* The command writes ops next.
Writes(p, ops, r) ==
  /\ r.pc = "write" /\ r.kind = run[p].kind /\ r.up = run[p].up
  /\ r.data = run[p].data /\ Elems(r.todo) = ops

LoginOps(p, s, k) ==
  {SetOp(p, "access", s), SetOp(p, "refresh", s), SetOp(p, "key", k)}

LEMMA StoringFacts ==
  ASSUME IInv, NEW p \in Commands, NEW s \in Nat, NEW k \in Nat
  PROVE  \E r \in Runs :
           Storing(p, s, k) = [run EXCEPT ![p] = r] /\ r.sess = None
           /\ Writes(p, LoginOps(p, s, k), r)
<1> PICK todo : todo = Set(p, "access", s) \o Set(p, "refresh", s) \o Set(p, "key", k)
  OBVIOUS
<1>1. "access" \in Fields /\ "refresh" \in Fields /\ "key" \in Fields
  BY DEF Fields
<1> PICK a, b, c : /\ a = Set(p, "access", s) /\ b = Set(p, "refresh", s)
                   /\ c = Set(p, "key", k)
  OBVIOUS
<1>2. /\ a \in Seq(Ops) /\ Elems(a) = {SetOp(p, "access", s)}
      /\ b \in Seq(Ops) /\ Elems(b) = {SetOp(p, "refresh", s)}
      /\ c \in Seq(Ops) /\ Elems(c) = {SetOp(p, "key", k)}
  <2>1. a \in Seq(Ops) /\ Elems(a) = {SetOp(p, "access", s)}
    <3>1. Set(p, "access", s) \in Seq(Ops) /\ Elems(Set(p, "access", s)) = {SetOp(p, "access", s)}
      BY <1>1, SetElems
    <3> QED
      BY <3>1
  <2>2. b \in Seq(Ops) /\ Elems(b) = {SetOp(p, "refresh", s)}
    <3>1. Set(p, "refresh", s) \in Seq(Ops) /\ Elems(Set(p, "refresh", s)) = {SetOp(p, "refresh", s)}
      BY <1>1, SetElems
    <3> QED
      BY <3>1
  <2>3. c \in Seq(Ops) /\ Elems(c) = {SetOp(p, "key", k)}
    <3>1. Set(p, "key", k) \in Seq(Ops) /\ Elems(Set(p, "key", k)) = {SetOp(p, "key", k)}
      BY <1>1, SetElems
    <3> QED
      BY <3>1
  <2> QED
    BY <2>1, <2>2, <2>3
<1>3. a \o b \in Seq(Ops) /\ Elems(a \o b) = Elems(a) \cup Elems(b)
  BY <1>2, ElemsConcat
<1>4. todo \in Seq(Ops) /\ Elems(todo) = LoginOps(p, s, k)
  <2>1. (a \o b) \o c \in Seq(Ops) /\ Elems((a \o b) \o c) = Elems(a \o b) \cup Elems(c)
    BY <1>2, <1>3, ElemsConcat
  <2>2. Elems(a \o b) \cup Elems(c) = LoginOps(p, s, k)
    BY <1>2, <1>3 DEF LoginOps
  <2> QED
    BY <2>1, <2>2
<1> PICK r : r = [run[p] EXCEPT !.pc = "write", !.sess = None, !.todo = todo]
  OBVIOUS
<1>5. run[p] \in Runs /\ None \in Nat
  BY Numbers DEF None
<1>6. /\ r \in Runs /\ r.pc = "write" /\ r.kind = run[p].kind /\ r.up = run[p].up
      /\ r.data = run[p].data /\ r.todo = todo /\ r.sess = None
  BY <1>4, <1>5 DEF Runs
<1>7. Storing(p, s, k) = [run EXCEPT ![p] = r]
  BY DEF Storing, IInv, RunOK
<1> QED
  BY <1>4, <1>6, <1>7 DEF Writes

\* A login that writes what it was given: what it had before is of no more account.
LEMMA StoringGood ==
  ASSUME IInv, Later, NEW p \in Commands, run[p].kind = "login",
         NEW s \in Nat, NEW k \in Nat, s <= issued',
         NEW r \in Runs, r.sess = None, Writes(p, LoginOps(p, s, k), r)
  PROVE  GoodRun(r)'
<1> PICK j : j = issued'
  OBVIOUS
<1>1. j \in Nat /\ issued \in Nat /\ issued <= j
  BY Numbers DEF Later, SessionsAssumption
<1>2. run[p] \in Runs /\ GoodRun(run[p])
  BY Numbers
<1>3. r.data["refresh"] <= j /\ r.sess \in 0..j
  <2>1. r.data["refresh"] \in Nat /\ r.data["refresh"] <= issued
    BY <1>2 DEF Writes, GoodRun, Runs, Fields
  <2> QED
    BY <1>1, <2>1 DEF None
<1>4. ASSUME NEW op \in Elems(r.todo)
      PROVE  /\ op.field = "refresh" => op.value <= j
             /\ r.up => op.at = "keyring"
  <2>1. op \in LoginOps(p, s, k)
    BY <1>4 DEF Writes
  <2>2. /\ SetOp(p, "access", s).field = "access"
        /\ run[p].up => SetOp(p, "access", s).at = "keyring"
        /\ SetOp(p, "refresh", s).value = s
        /\ run[p].up => SetOp(p, "refresh", s).at = "keyring"
        /\ SetOp(p, "key", k).field = "key"
        /\ run[p].up => SetOp(p, "key", k).at = "keyring"
    <3>1. "access" \in Fields /\ "refresh" \in Fields /\ "key" \in Fields
      BY DEF Fields
    <3>2. /\ SetOp(p, "access", s).field = "access"
          /\ run[p].up => SetOp(p, "access", s).at = "keyring"
      BY <3>1, SetFacts
    <3>3. /\ SetOp(p, "refresh", s).value = s
          /\ run[p].up => SetOp(p, "refresh", s).at = "keyring"
      BY <3>1, SetFacts
    <3>4. /\ SetOp(p, "key", k).field = "key"
          /\ run[p].up => SetOp(p, "key", k).at = "keyring"
      BY <3>1, SetFacts
    <3> QED
      BY <3>2, <3>3, <3>4
  <2> QED
    BY <2>1, <2>2 DEF LoginOps, Writes
<1>5. r.kind = "login" /\ r.pc = "write"
  BY DEF Writes
<1>6. \A op \in Elems(r.todo) : GoodOp(r, op)'
  BY <1>4, <1>5 DEF GoodOp
<1> QED
  BY <1>3, <1>5, <1>6 DEF GoodRun

LEMMA IssueSessionInv ==
  ASSUME IInv, NEW p \in Commands, IssueSession(p)
  PROVE  IInv'
<1> PICK i, v : i = issued /\ v = run[p]
  OBVIOUS
<1>1. /\ UNCHANGED <<account, minted, keys, scan, shells, keyring, file, lost, cuts, alone,
                     revoked, out>>
      /\ v.kind = "login" /\ issued < MaxSessions
      /\ issued' = i + 1 /\ live' = live \cup {i + 1}
  BY DEF IssueSession, store, bounds, AddSession
<1>2. v \in Runs /\ GoodRun(v) /\ i \in Nat /\ i \in 0..MaxSessions
  BY Numbers
<1>3. i + 1 \in Nat /\ i <= i + 1 /\ i + 1 > i /\ i + 1 <= i + 1 /\ i + 1 \in 0..(i + 1)
  BY <1>2
<1>4. Later
  <2>1. i + 1 \in 0..MaxSessions
    BY <1>1, <1>2 DEF SessionsAssumption
  <2>2. live \subseteq 1..i
    BY DEF IInv, TypeOK
  <2>3. \A n \in 1..i : n \in 1..(i + 1)
    BY <1>2
  <2>4. i + 1 \in 1..(i + 1)
    BY <1>2
  <2>5. live' \subseteq 1..issued'
    BY <1>1, <2>2, <2>3, <2>4
  <2> QED
    BY <1>1, <1>3, <2>1, <2>5 DEF Later
<1>5. p \notin alone
  BY <1>1 DEF IInv, AloneOK
<1>6. Rest' /\ RevokedOK'
  BY <1>1, <1>4, RestStays DEF IInv, TypeOK
<1>7. v.up \in shells /\ (shells = {TRUE} => v.up = TRUE /\ v.data = Empty)
  BY <1>1 DEF IInv, TypeOK, StoreOK
<1>8. ASSUME NEW r \in Runs, run' = [run EXCEPT ![p] = r], GoodRun(r)',
             r.kind = v.kind, r.up = v.up, r.data = v.data
      PROVE  IInv'
  <2>1. AloneStep(p)
    BY <1>1, <1>5, <1>8, AloneQuiet
  <2>2. StoreOK' /\ keyring' \in [Fields -> Nat] /\ file' \in [Fields -> Nat]
    BY <1>1, <1>4, <1>7, <1>8, StoreStays
  <2>3. r.up \in shells
    BY <1>7, <1>8
  <2> QED
    BY <1>4, <1>6, <1>8, <2>1, <2>2, <2>3, CommandInv
<1>9. CASE keys = <<>>
  <2> PICK r : r = [v EXCEPT !.pc = "mint", !.sess = i + 1]
    OBVIOUS
  <2>1. /\ r \in Runs /\ r.pc = "mint" /\ r.sess = i + 1 /\ r.kind = v.kind
        /\ r.up = v.up /\ r.data = v.data /\ r.todo = v.todo
    BY <1>2, <1>3 DEF Runs
  <2>2. run' = [run EXCEPT ![p] = r]
    BY <1>9 DEF IssueSession, IInv, RunOK
  <2>3. GoodRun(v)'
    BY <1>2, <1>4, GoodStays
  <2>4. GoodRun(r)'
    BY <1>1, <1>3, <2>1, <2>3 DEF GoodRun, GoodOp
  <2> QED
    BY <1>8, <2>1, <2>2, <2>4
<1>10. CASE keys # <<>>
  <2>1. keys[1] \in Nat
    <3>1. keys \in Seq(1..minted) /\ minted \in 0..MaxKeys
      BY DEF IInv, TypeOK
    <3>2. keys[1] \in 1..minted
      BY <1>10, <3>1
    <3> QED
      BY <3>1, <3>2
  <2> PICK k : k = keys[1]
    OBVIOUS
  <2>2. PICK r \in Runs :
          Storing(p, i + 1, k) = [run EXCEPT ![p] = r] /\ r.sess = None
          /\ Writes(p, LoginOps(p, i + 1, k), r)
    BY <1>3, <2>1, StoringFacts
  <2>3. run' = [run EXCEPT ![p] = r]
    BY <1>10, <2>2 DEF IssueSession
  <2>4. GoodRun(r)'
    BY <1>1, <1>3, <1>4, <2>1, <2>2, StoringGood
  <2> QED
    BY <1>8, <2>2, <2>3, <2>4 DEF Writes
<1> QED
  BY <1>9, <1>10

\* The keys of an account are kept by their ids.
LEMMA MintedKeys ==
  ASSUME IInv, minted < MaxKeys, minted' = minted + 1,
         keys' = Append(keys, minted + 1) \/ keys' = <<minted + 1>>
  PROVE  minted' \in 0..MaxKeys /\ keys' \in Seq(1..minted') /\ minted + 1 \in Nat
<1> PICK m, n : m = minted /\ n = m + 1
  OBVIOUS
<1>1. m \in 0..MaxKeys /\ keys \in Seq(1..m) /\ m < MaxKeys
  BY DEF IInv, TypeOK
<1>2. m \in Nat /\ n \in 1..n /\ n \in 0..MaxKeys /\ n \in Nat
  BY <1>1 DEF SessionsAssumption
<1>3. \A e \in 1..m : e \in 1..n
  BY <1>2
<1>4. keys \in Seq(1..n)
  <2>1. \A e \in 1..Len(keys) : keys[e] \in 1..n
    BY <1>1, <1>3
  <2>2. Len(keys) \in Nat /\ keys \in [1..Len(keys) -> 1..m]
    BY <1>1
  <2>3. keys \in [1..Len(keys) -> 1..n]
    BY <2>1, <2>2
  <2> QED
    BY <2>2, <2>3
<1>5. Append(keys, n) \in Seq(1..n) /\ <<n>> \in Seq(1..n)
  BY <1>2, <1>4
<1> QED
  BY <1>2, <1>5

LEMMA MintKeyInv ==
  ASSUME IInv, NEW p \in Commands, MintKey(p)
  PROVE  IInv'
<1> PICK k, v : k = minted + 1 /\ v = run[p]
  OBVIOUS
<1>1. /\ UNCHANGED <<account, issued, live, scan, shells, keyring, file, lost, cuts, alone,
                     revoked, out>>
      /\ v.pc = "mint" /\ run' = Storing(p, v.sess, k)
  BY DEF MintKey, store, bounds, history
<1>2. v \in Runs /\ GoodRun(v) /\ v.kind = "login" /\ issued \in Nat
  BY <1>1, Numbers DEF GoodRun
<1>3. minted' \in 0..MaxKeys /\ keys' \in Seq(1..minted') /\ k \in Nat
  BY MintedKeys DEF MintKey
<1>4. Later
  BY <1>1, <1>2 DEF Later, IInv, TypeOK
<1>5. p \notin alone
  BY <1>2 DEF IInv, AloneOK
<1>6. v.sess \in Nat /\ v.sess <= issued'
  BY <1>1, <1>2 DEF GoodRun
<1>7. PICK r \in Runs :
        Storing(p, v.sess, k) = [run EXCEPT ![p] = r] /\ r.sess = None
        /\ Writes(p, LoginOps(p, v.sess, k), r)
  BY <1>3, <1>6, StoringFacts
<1>8. run' = [run EXCEPT ![p] = r]
  BY <1>1, <1>7
<1>9. GoodRun(r)'
  BY <1>2, <1>3, <1>4, <1>6, <1>7, StoringGood
<1>10. r.kind = v.kind /\ r.up = v.up /\ r.data = v.data
  BY <1>7 DEF Writes
<1>11. r.up \in shells /\ (shells = {TRUE} => r.up = TRUE /\ r.data = Empty)
  BY <1>2, <1>10 DEF IInv, TypeOK, StoreOK
<1>12. AloneStep(p)
  BY <1>1, <1>5, <1>8, <1>10, AloneQuiet
<1>13. StoreOK' /\ keyring' \in [Fields -> Nat] /\ file' \in [Fields -> Nat]
  BY <1>1, <1>4, <1>8, <1>11, StoreStays
<1>14. Rest' /\ RevokedOK'
  BY <1>1, <1>3 DEF IInv, TypeOK, Rest, RevokedOK, SessionRevoked
<1> QED
  BY <1>4, <1>8, <1>9, <1>11, <1>12, <1>13, <1>14, CommandInv

LEMMA RefreshInv ==
  ASSUME IInv, NEW p \in Commands, Refresh(p)
  PROVE  IInv'
<1> PICK v : v = run[p]
  OBVIOUS
<1> PICK s \in Found(p, "refresh") :
      run' = IF Valid(s)
             THEN [run EXCEPT ![p].pc = "write", ![p].todo = Set(p, "access", s)]
             ELSE [run EXCEPT ![p] = Idle]
  BY DEF Refresh
<1>1. /\ UNCHANGED <<issued, live, keys, minted, scan, shells, keyring, file, lost,
                     cuts, alone, revoked, out, account>>
      /\ v.kind = "refresh" /\ v.pc = "ask"
  BY DEF Refresh, server, store, bounds, history
<1>2. v \in Runs /\ GoodRun(v)
  BY Numbers
<1>3. v.up \in BOOLEAN
  BY <1>2 DEF Runs
<1>4. p \notin alone
  BY <1>1 DEF IInv, AloneOK
<1>5. s \in Nat
  BY FoundFacts
<1>6. CASE Valid(s)
  <2> PICK todo : todo = Set(p, "access", s)
    OBVIOUS
  <2> PICK r : r = [v EXCEPT !.pc = "write", !.todo = todo]
    OBVIOUS
  <2>1. todo \in Seq(Ops) /\ Elems(todo) = {SetOp(p, "access", s)}
    <3>1. "access" \in Fields
      BY DEF Fields
    <3>2. Set(p, "access", s) \in Seq(Ops) /\ Elems(Set(p, "access", s)) = {SetOp(p, "access", s)}
      BY <1>5, <3>1, SetElems
    <3> QED
      BY <3>2
  <2>2. /\ r \in Runs /\ r.pc = "write" /\ r.todo = todo /\ r.kind = v.kind
        /\ r.up = v.up /\ r.data = v.data /\ r.sess = v.sess
    BY <1>2, <2>1 DEF Runs
  <2>3. run' = [run EXCEPT ![p] = r]
    BY <1>6 DEF Refresh, IInv, RunOK
  <2>4. GoodRun(r)
    <3>1. /\ SetOp(p, "access", s).field = "access"
          /\ v.up => SetOp(p, "access", s).at = "keyring"
      BY <1>5, SetFacts DEF Fields
    <3>2. \A op \in Elems(r.todo) : GoodOp(r, op)
      BY <1>1, <2>1, <2>2, <3>1 DEF GoodOp
    <3> QED
      BY <1>1, <1>2, <2>2, <3>2 DEF GoodRun
  <2>5. AloneStep(p)
    <3>1. /\ r \in Runs /\ r.kind = run[p].kind /\ UNCHANGED <<out, keyring>>
          /\ alone' \subseteq alone /\ p \notin alone'
      BY <1>1, <1>4, <2>2
    <3> QED
      BY <2>3, <3>1, AloneQuiet
  <2>6. r.up \in shells /\ (shells = {TRUE} => r.up = TRUE /\ r.data = Empty)
    BY <1>1, <2>2 DEF IInv, TypeOK, StoreOK
  <2> QED
    BY <1>1, <2>2, <2>3, <2>4, <2>5, <2>6, StepInv
<1>7. CASE ~Valid(s)
  <2>1. run' = [run EXCEPT ![p] = Idle]
    BY <1>7 DEF Refresh
  <2> QED
    BY <1>1, <1>4, <2>1, StopInv
<1> QED
  BY <1>6, <1>7

----------------------------------------------------------------------------
(* What a logout has to write *)

LEMMA DeleteElems ==
  ASSUME IInv, NEW p \in Commands, NEW f \in Fields
  PROVE  /\ Delete(p, f) \in Seq(Ops)
         /\ Elems(Delete(p, f)) \subseteq {Op("keyring", f, None), Op("file", f, None)}
         /\ run[p].up => Op("keyring", f, None) \in Elems(Delete(p, f))
<1> PICK a, b : a = Op("keyring", f, None) /\ b = Op("file", f, None)
  OBVIOUS
<1>1. a \in Ops /\ b \in Ops
  <2>1. None \in Nat
    BY DEF None
  <2> QED
    BY <2>1, OpFacts
<1> PICK s, t, e : s = <<a>> /\ t = <<b>> /\ e = <<>>
  OBVIOUS
<1>2. s \in Seq(Ops) /\ Elems(s) = {a} /\ t \in Seq(Ops) /\ Elems(t) = {b}
  BY <1>1, OneElem
<1>3. e \in Seq(Ops) /\ Elems(e) = {}
  BY DEF Elems
<1>4. CASE run[p].up
  <2>1. Delete(p, f) = s \o t
    BY <1>4 DEF Delete
  <2>2. s \o t \in Seq(Ops) /\ Elems(s \o t) = Elems(s) \cup Elems(t)
    BY <1>2, ElemsConcat
  <2> QED
    BY <1>2, <2>1, <2>2
<1>5. CASE ~run[p].up
  <2>1. Delete(p, f) = e \o t
    BY <1>5 DEF Delete
  <2>2. e \o t \in Seq(Ops) /\ Elems(e \o t) = Elems(e) \cup Elems(t)
    BY <1>2, <1>3, ElemsConcat
  <2> QED
    BY <1>2, <1>3, <1>5, <2>1, <2>2
<1> QED
  BY <1>4, <1>5

\* The command deletes next.
Deletes(p, s, r) ==
  /\ r.pc = "write" /\ r.kind = run[p].kind /\ r.up = run[p].up /\ r.sess = s
  /\ r.data = run[p].data
  /\ \A op \in Elems(r.todo) : op.value = None
  /\ run[p].up => Op("keyring", "refresh", None) \in Elems(r.todo)

LEMMA ClearingFacts ==
  ASSUME IInv, NEW p \in Commands, NEW s \in Nat
  PROVE  \E r \in Runs : Clearing(p, s) = [run EXCEPT ![p] = r] /\ Deletes(p, s, r)
<1> PICK a, b, c : /\ a = Delete(p, "access") /\ b = Delete(p, "refresh")
                   /\ c = Delete(p, "key")
  OBVIOUS
<1> PICK todo : todo = (a \o b) \o c
  OBVIOUS
<1>1. "access" \in Fields /\ "refresh" \in Fields /\ "key" \in Fields /\ None \in Nat
  BY DEF Fields, None
<1>2. \A f \in Fields, where \in {"keyring", "file"} : Op(where, f, None).value = None
  BY <1>1, OpFacts
<1>3. ASSUME NEW f \in Fields
      PROVE  /\ Delete(p, f) \in Seq(Ops)
             /\ \A op \in Elems(Delete(p, f)) : op.value = None
  <2>1. /\ Delete(p, f) \in Seq(Ops)
        /\ Elems(Delete(p, f)) \subseteq {Op("keyring", f, None), Op("file", f, None)}
    BY DeleteElems
  <2>2. Op("keyring", f, None).value = None /\ Op("file", f, None).value = None
    BY <1>2
  <2> QED
    BY <2>1, <2>2
<1>4. /\ a \in Seq(Ops) /\ b \in Seq(Ops) /\ c \in Seq(Ops)
      /\ \A op \in Elems(a) \cup Elems(b) \cup Elems(c) : op.value = None
  BY <1>1, <1>3
<1>5. run[p].up => Op("keyring", "refresh", None) \in Elems(b)
  BY <1>1, DeleteElems
<1>6. a \o b \in Seq(Ops) /\ Elems(a \o b) = Elems(a) \cup Elems(b)
  BY <1>4, ElemsConcat
<1>7. todo \in Seq(Ops) /\ Elems(todo) = Elems(a \o b) \cup Elems(c)
  BY <1>4, <1>6, ElemsConcat
<1> PICK r : r = [run[p] EXCEPT !.pc = "write", !.sess = s, !.todo = todo]
  OBVIOUS
<1>8. run[p] \in Runs
  BY Numbers
<1>9. /\ r \in Runs /\ r.pc = "write" /\ r.kind = run[p].kind /\ r.up = run[p].up
      /\ r.data = run[p].data /\ r.todo = todo /\ r.sess = s
  BY <1>7, <1>8 DEF Runs
<1>10. Clearing(p, s) = [run EXCEPT ![p] = r]
  BY DEF Clearing, IInv, RunOK
<1>11. Deletes(p, s, r)
  BY <1>4, <1>5, <1>6, <1>7, <1>9 DEF Deletes
<1> QED
  BY <1>9, <1>10, <1>11

LEMMA RevokeInv ==
  ASSUME IInv, NEW p \in Commands, Revoke(p)
  PROVE  IInv'
<1> PICK v : v = run[p]
  OBVIOUS
<1> PICK s \in Found(p, "refresh") :
      /\ run' = Clearing(p, s)
      /\ \/ live' = live \ {s} /\ UNCHANGED lost
         \/ s # None /\ lost + cuts < MaxFaults /\ lost' = lost + 1 /\ UNCHANGED live
  BY DEF Revoke
<1>1. /\ UNCHANGED <<account, cuts, issued, keys, minted, scan, shells, keyring, file, alone,
                     out, revoked>>
      /\ v.kind = "logout" /\ v.pc = "ask" /\ run' = Clearing(p, s)
      /\ live' \subseteq live
      /\ (s \notin live' /\ lost' = lost)
           \/ (lost + cuts < MaxFaults /\ lost' = lost + 1)
  BY DEF Revoke, store, history
<1>2. v \in Runs /\ GoodRun(v)
  BY Numbers
<1>3. v.up \in BOOLEAN
  BY <1>2 DEF Runs
<1>4. s \in Nat /\ s <= issued
  BY FoundFacts
<1>5. PICK r \in Runs : Clearing(p, s) = [run EXCEPT ![p] = r] /\ Deletes(p, s, r)
  BY <1>4, ClearingFacts
<1>6. run' = [run EXCEPT ![p] = r] /\ r.kind = "logout" /\ r.up = v.up /\ r.data = v.data
      /\ r.pc = "write" /\ r.sess = s
  BY <1>1, <1>5 DEF Deletes
<1>7. lost' \in Nat /\ lost' + cuts' <= MaxFaults /\ (lost' = 0 => lost = 0 /\ s \notin live')
  <2> PICK l, c : l = lost /\ c = cuts
    OBVIOUS
  <2>1. l \in Nat /\ c \in Nat /\ l + c <= MaxFaults /\ MaxFaults \in Nat
    BY DEF IInv, TypeOK, SessionsAssumption
  <2>2. CASE s \notin live' /\ lost' = l
    BY <1>1, <2>1, <2>2
  <2>3. CASE l + c < MaxFaults /\ lost' = l + 1
    BY <1>1, <2>1, <2>3
  <2> QED
    BY <1>1, <2>2, <2>3
<1>8. Later
  <2>1. issued \in 0..MaxSessions /\ issued <= issued /\ live \subseteq 1..issued
    <3>1. issued \in Nat /\ issued \in 0..MaxSessions
      BY Numbers
    <3> QED
      BY <3>1 DEF IInv, TypeOK
  <2> QED
    BY <1>1, <1>7, <2>1 DEF Later
<1>9. GoodRun(r)'
  <2>1. r.data["refresh"] <= issued'
    BY <1>1, <1>2, <1>6 DEF GoodRun
  <2>2. \A op \in Elems(r.todo) : GoodOp(r, op)'
    <3> SUFFICES ASSUME NEW op \in Elems(r.todo)
                 PROVE  GoodOp(r, op)'
      OBVIOUS
    <3>1. op.value = None
      BY <1>5 DEF Deletes
    <3>2. op.value <= issued'
      BY <1>1, <1>4, <3>1, Numbers DEF None
    <3> QED
      BY <3>1, <3>2 DEF GoodOp
  <2>3. r.sess \in 0..issued'
    BY <1>1, <1>4, <1>6, Numbers
  <2> QED
    BY <1>6, <1>7, <2>1, <2>2, <2>3 DEF GoodRun
<1>10. r.up \in shells /\ (shells = {TRUE} => r.up = TRUE /\ r.data = Empty)
  BY <1>1, <1>6 DEF IInv, TypeOK, StoreOK
<1>11. AloneStep(p)
  <2>1. shells = {TRUE} => Clears(r)'
    BY <1>5, <1>6, <1>10 DEF Deletes, Clears
  <2> QED
    BY <1>1, <1>6, <2>1, AloneQuiet
<1>12. StoreOK' /\ keyring' \in [Fields -> Nat] /\ file' \in [Fields -> Nat]
  BY <1>1, <1>6, <1>8, <1>10, StoreStays
<1>13. Rest' /\ RevokedOK'
  BY <1>1, <1>7 DEF IInv, TypeOK, Rest, RevokedOK, SessionRevoked
<1> QED
  BY <1>6, <1>8, <1>9, <1>10, <1>11, <1>12, <1>13, CommandInv

----------------------------------------------------------------------------
(* The writes *)

LEMMA HeadFacts ==
  ASSUME IInv, NEW p \in Commands, NEW v \in Runs, v = run[p], v.todo # <<>>
  PROVE  /\ NextOp(p) \in Ops /\ NextOp(p) = Head(v.todo) /\ GoodOp(v, NextOp(p))
         /\ Tail(v.todo) \in Seq(Ops)
         /\ Elems(v.todo) = {NextOp(p)} \cup Elems(Tail(v.todo))
         /\ NextOp(p).at \in {"keyring", "file"} /\ NextOp(p).field \in Fields
         /\ NextOp(p).value \in Nat
<1>1. GoodRun(v) /\ v.todo \in Seq(Ops) /\ NextOp(p) = Head(v.todo)
  BY Numbers DEF Runs, NextOp
<1>2. /\ NextOp(p) \in Ops /\ Tail(v.todo) \in Seq(Ops)
      /\ Elems(v.todo) = {NextOp(p)} \cup Elems(Tail(v.todo))
  BY <1>1, ElemsTail
<1>3. GoodOp(v, NextOp(p))
  BY <1>1, <1>2 DEF GoodRun
<1>4. /\ NextOp(p).at \in {"keyring", "file"} /\ NextOp(p).field \in Fields
      /\ NextOp(p).value \in Nat
  BY <1>2 DEF Ops
<1> QED
  BY <1>1, <1>2, <1>3, <1>4

\* What a logout that no login has overlapped has done, or is about to do.
LEMMA AloneClears ==
  ASSUME IInv, NEW p \in alone, run[p].pc # "ask", shells = {TRUE}
  PROVE  run[p].kind = "logout" /\ Clears(run[p])
  BY DEF IInv, AloneOK

LEMMA ReadFileInv ==
  ASSUME IInv, NEW p \in Commands, ReadFile(p)
  PROVE  IInv'
<1> PICK v : v = run[p]
  OBVIOUS
<1>1. /\ UNCHANGED <<issued, live, keys, minted, scan, shells, keyring, file, lost,
                     cuts, alone, revoked, out, account>>
      /\ v.pc = "write" /\ v.todo # <<>> /\ NextOp(p).at = "file"
  BY DEF ReadFile, server, store, bounds, history
<1>2. v \in Runs /\ GoodRun(v) /\ file \in [Fields -> Nat]
  BY Numbers
<1> PICK r : r = [v EXCEPT !.pc = "save", !.data = file]
  OBVIOUS
<1>3. /\ r \in Runs /\ r.pc = "save" /\ r.data = file /\ r.kind = v.kind /\ r.up = v.up
      /\ r.sess = v.sess /\ r.todo = v.todo
  BY <1>2 DEF Runs
<1>4. run' = [run EXCEPT ![p] = r]
  BY DEF ReadFile, IInv, RunOK
<1>5. v.kind # "idle"
  BY <1>1, <1>2 DEF GoodRun
<1>6. GoodRun(r)
  <2>1. Head(v.todo).at = "file"
    BY <1>1, <1>2, HeadFacts
  <2>2. r.data["refresh"] <= issued
    BY <1>3 DEF IInv, StoreOK
  <2> QED
    BY <1>1, <1>2, <1>3, <1>5, <2>1, <2>2 DEF GoodRun, GoodOp
<1>7. AloneStep(p)
  <2>1. p \in alone => r.kind = "logout" /\ (shells = {TRUE} => Clears(r)')
    BY <1>1, <1>3, AloneClears DEF Clears, IInv, AloneOK
  <2> QED
    BY <1>1, <1>3, <1>4, <2>1, AloneQuiet
<1>8. r.up \in shells /\ (shells = {TRUE} => r.up = TRUE /\ r.data = Empty)
  BY <1>3, <1>5 DEF IInv, TypeOK, StoreOK
<1> QED
  BY <1>1, <1>3, <1>4, <1>6, <1>7, <1>8, StepInv

LEMMA ReadTornFileInv ==
  ASSUME IInv, NEW p \in Commands, ReadTornFile(p)
  PROVE  IInv'
<1> PICK v : v = run[p]
  OBVIOUS
<1>1. /\ UNCHANGED <<issued, live, keys, minted, scan, shells, keyring, file, lost,
                     cuts, alone, revoked, out, account>>
      /\ v.pc = "write" /\ v.todo # <<>> /\ NextOp(p).at = "file"
  BY DEF ReadTornFile, server, store, bounds, history
<1>2. v \in Runs /\ GoodRun(v)
  BY Numbers
<1>3. v.kind # "idle"
  BY <1>1, <1>2 DEF GoodRun
<1>4. /\ NextOp(p) = Head(v.todo) /\ Tail(v.todo) \in Seq(Ops)
      /\ Elems(v.todo) = {NextOp(p)} \cup Elems(Tail(v.todo))
  BY <1>1, <1>2, HeadFacts
<1>5. ASSUME NEW r \in Runs, run' = [run EXCEPT ![p] = r], GoodRun(r), r.kind = v.kind,
             r.pc # "ask", r.up = v.up, r.data = v.data \/ r.data = Empty,
             Elems(r.todo) \cup {NextOp(p)} = Elems(v.todo)
      PROVE  IInv'
  <2>1. ASSUME p \in alone
        PROVE  r.kind = "logout" /\ (shells = {TRUE} => Clears(r)')
    <3>1. r.kind = "logout"
      BY <1>5, <2>1 DEF IInv, AloneOK
    <3>2. shells = {TRUE} => Clears(v)
      BY <1>1, <2>1, AloneClears
    <3>3. NextOp(p) # Op("keyring", "refresh", None)
      BY <1>1 DEF Op
    <3> QED
      BY <1>1, <1>5, <3>1, <3>2, <3>3 DEF Clears
  <2>2. AloneStep(p)
    BY <1>1, <1>5, <2>1, AloneQuiet
  <2>3. r.up \in shells /\ (shells = {TRUE} => r.up = TRUE /\ r.data = Empty)
    BY <1>3, <1>5 DEF IInv, TypeOK, StoreOK
  <2> QED
    BY <1>1, <1>5, <2>2, <2>3, StepInv
<1>6. CASE NextOp(p).value = None
  <2> PICK r : r = [v EXCEPT !.todo = Tail(v.todo)]
    OBVIOUS
  <2>1. /\ r \in Runs /\ r.pc = "write" /\ r.data = v.data /\ r.kind = v.kind /\ r.up = v.up
        /\ r.sess = v.sess /\ r.todo = Tail(v.todo)
    BY <1>1, <1>2, <1>4 DEF Runs
  <2>2. run' = [run EXCEPT ![p] = r]
    BY <1>6 DEF ReadTornFile
  <2>3. GoodRun(r)
    BY <1>1, <1>2, <1>3, <1>4, <2>1 DEF GoodRun, GoodOp
  <2> QED
    BY <1>4, <1>5, <2>1, <2>2, <2>3
<1>7. CASE NextOp(p).value # None
  <2> PICK r : r = [v EXCEPT !.pc = "save", !.data = Empty]
    OBVIOUS
  <2>1. /\ r \in Runs /\ r.pc = "save" /\ r.data = Empty /\ r.kind = v.kind /\ r.up = v.up
        /\ r.sess = v.sess /\ r.todo = v.todo
    BY <1>2, EmptyFacts DEF Runs
  <2>2. run' = [run EXCEPT ![p] = r]
    BY <1>7 DEF ReadTornFile
  <2>3. GoodRun(r)
    <3>1. r.data["refresh"] <= issued
      BY <2>1, EmptyFacts, Numbers DEF Fields, None
    <3> QED
      BY <1>1, <1>2, <1>3, <1>4, <2>1, <3>1 DEF GoodRun, GoodOp
  <2>4. Elems(r.todo) \cup {NextOp(p)} = Elems(v.todo)
    BY <1>4, <2>1
  <2> QED
    BY <1>5, <2>1, <2>2, <2>3, <2>4
<1> QED
  BY <1>6, <1>7

LEMMA InterruptInv ==
  ASSUME IInv, NEW p \in Commands, Interrupt(p)
  PROVE  IInv'
<1>1. /\ UNCHANGED <<issued, live, keys, minted, scan, shells, keyring, file, lost,
                     revoked, out, account>>
      /\ run' = [run EXCEPT ![p] = Idle] /\ alone' = alone \ {p}
      /\ lost + cuts < MaxFaults /\ cuts' = cuts + 1
  BY DEF Interrupt, server, store
<1>2. issued \in Nat /\ issued \in 0..MaxSessions
  BY Numbers
<1> PICK r : r = Idle
  OBVIOUS
<1>3. r \in Runs /\ GoodRun(r) /\ r.kind = "idle" /\ r.up = TRUE /\ r.data = Empty
  BY <1>2, IdleFacts
<1>4. Later
  BY <1>1, <1>2 DEF Later, IInv, TypeOK
<1>5. GoodRun(r)'
  BY <1>3, <1>4, GoodStays
<1>6. AloneStep(p)
  BY <1>1, <1>3, AloneQuiet
<1>7. StoreOK' /\ keyring' \in [Fields -> Nat] /\ file' \in [Fields -> Nat]
  BY <1>1, <1>3, <1>4, StoreStays
<1>8. cuts' \in Nat /\ lost' + cuts' <= MaxFaults
  <2> PICK l, c : l = lost /\ c = cuts
    OBVIOUS
  <2>1. l \in Nat /\ c \in Nat /\ MaxFaults \in Nat /\ l + c < MaxFaults
    BY <1>1 DEF IInv, TypeOK, SessionsAssumption
  <2>2. c + 1 \in Nat /\ l + (c + 1) <= MaxFaults
    BY <2>1
  <2> QED
    BY <1>1, <2>2
<1>9. Rest' /\ RevokedOK'
  BY <1>1, <1>8 DEF IInv, TypeOK, Rest, RevokedOK, SessionRevoked
<1> QED
  BY <1>1, <1>3, <1>4, <1>5, <1>6, <1>7, <1>9, CommandInv

LEMMA EndInv ==
  ASSUME IInv, NEW p \in Commands, End(p)
  PROVE  IInv'
<1> PICK v : v = run[p]
  OBVIOUS
<1>1. /\ UNCHANGED <<issued, live, keys, minted, scan, shells, keyring, file, lost, cuts,
                     account>>
      /\ run' = [run EXCEPT ![p] = Idle] /\ alone' = alone \ {p}
      /\ v.pc = "write" /\ v.todo = <<>>
  BY DEF End, server, store, bounds
<1>2. v \in Runs /\ GoodRun(v) /\ issued \in Nat /\ issued \in 0..MaxSessions
  BY Numbers
<1>3. CASE v.kind # "logout"
  <2>1. UNCHANGED <<out, revoked>>
    BY <1>3 DEF End
  <2> QED
    BY <1>1, <2>1, StopInv
<1>4. CASE v.kind = "logout"
  <2>1. /\ out' = (p \in alone)
        /\ revoked' = revoked \/ (v.sess # None /\ revoked' = revoked \cup {v.sess})
    BY <1>4 DEF End
  <2> PICK r : r = Idle
    OBVIOUS
  <2>2. r \in Runs /\ GoodRun(r) /\ r.kind = "idle" /\ r.up = TRUE /\ r.data = Empty
    BY <1>2, IdleFacts
  <2>3. Later
    BY <1>1, <1>2 DEF Later, IInv, TypeOK
  <2>4. GoodRun(r)'
    BY <2>2, <2>3, GoodStays
  <2>5. run'[p] = r
    BY <1>1, <2>2, RunFacts
  <2>6. AloneStep(p)
    <3>1. out' => ~LoggingIn /\ (shells = {TRUE} => keyring["refresh"] = None)
      <4>1. Elems(v.todo) = {}
        BY <1>1 DEF Elems
      <4>2. p \in alone => ~LoggingIn
        BY DEF IInv, AloneOK
      <4> QED
        BY <1>1, <2>1, <4>1, <4>2, AloneClears DEF Clears
    <3>2. out' \in BOOLEAN
      BY <2>1
    <3>3. alone' \subseteq alone \cup {p} /\ p \notin alone' /\ run'[p].kind # "login"
      BY <1>1, <2>2, <2>5
    <3>4. keyring' = keyring
      BY <1>1
    <3> QED
      BY <3>1, <3>2, <3>3, <3>4 DEF AloneStep
  <2>7. StoreOK' /\ keyring' \in [Fields -> Nat] /\ file' \in [Fields -> Nat]
    BY <1>1, <2>2, <2>3, StoreStays
  <2>8. revoked' \subseteq 1..issued /\ (lost = 0 => revoked' \cap live = {})
    <3>1. v.sess # None => v.sess \in 1..issued
      BY <1>2 DEF GoodRun, None
    <3>2. lost = 0 => v.sess \notin live
      BY <1>1, <1>2, <1>4 DEF GoodRun
    <3>3. revoked \subseteq 1..issued /\ (lost = 0 => revoked \cap live = {})
      BY DEF IInv, TypeOK, RevokedOK, SessionRevoked
    <3>4. CASE revoked' = revoked
      BY <3>3, <3>4
    <3>5. CASE v.sess # None /\ revoked' = revoked \cup {v.sess}
      <4>1. v.sess \in 1..issued /\ (lost = 0 => v.sess \notin live)
        BY <3>1, <3>2, <3>5
      <4>2. revoked' \subseteq 1..issued
        BY <3>3, <3>5, <4>1
      <4>3. lost = 0 => revoked' \cap live = {}
        BY <3>3, <3>5, <4>1
      <4> QED
        BY <4>2, <4>3
    <3> QED
      BY <2>1, <3>4, <3>5
  <2>9. Rest' /\ RevokedOK'
    BY <1>1, <2>1, <2>8 DEF IInv, TypeOK, Rest, RevokedOK, SessionRevoked
  <2> QED
    BY <1>1, <2>2, <2>3, <2>4, <2>6, <2>7, <2>9, CommandInv
<1> QED
  BY <1>3, <1>4

LEMMA WriteKeyringInv ==
  ASSUME IInv, NEW p \in Commands, WriteKeyring(p)
  PROVE  IInv'
<1> PICK v, op : v = run[p] /\ op = NextOp(p)
  OBVIOUS
<1>1. /\ UNCHANGED <<issued, live, keys, minted, scan, shells, file, lost, cuts, alone,
                     revoked, out, account>>
      /\ v.pc = "write" /\ v.todo # <<>> /\ op.at = "keyring"
      /\ keyring' = [keyring EXCEPT ![op.field] = op.value]
  BY DEF WriteKeyring, server, bounds, history
<1>2. v \in Runs /\ GoodRun(v) /\ issued \in Nat /\ keyring \in [Fields -> Nat]
      /\ issued \in 0..MaxSessions
  BY Numbers
<1>3. v.kind # "idle"
  BY <1>1, <1>2 DEF GoodRun
<1>4. /\ op \in Ops /\ GoodOp(v, op) /\ Tail(v.todo) \in Seq(Ops)
      /\ Elems(v.todo) = {op} \cup Elems(Tail(v.todo))
      /\ op.field \in Fields /\ op.value \in Nat
  BY <1>1, <1>2, HeadFacts
<1> PICK r : r = [v EXCEPT !.todo = Tail(v.todo)]
  OBVIOUS
<1>5. /\ r \in Runs /\ r.pc = "write" /\ r.data = v.data /\ r.kind = v.kind /\ r.up = v.up
      /\ r.sess = v.sess /\ r.todo = Tail(v.todo)
  BY <1>1, <1>2, <1>4 DEF Runs
<1>6. run' = [run EXCEPT ![p] = r]
  BY DEF WriteKeyring, IInv, RunOK
<1>7. run'[p] = r /\ Others(p)
  BY <1>5, <1>6, RunFacts
<1>8. Later
  BY <1>1, <1>2 DEF Later, IInv, TypeOK
<1>9. GoodRun(r)
  BY <1>1, <1>2, <1>3, <1>4, <1>5 DEF GoodRun, GoodOp
<1>10. GoodRun(r)'
  BY <1>5, <1>8, <1>9, GoodStays
<1>11. keyring' \in [Fields -> Nat]
  BY <1>1, <1>2, <1>4
<1>12. keyring'["refresh"] = IF op.field = "refresh" THEN op.value ELSE keyring["refresh"]
  BY <1>1, <1>2 DEF Fields
<1>13. keyring'["refresh"] <= issued
  BY <1>4, <1>12 DEF GoodOp, IInv, StoreOK
<1>14. StoreOK'
  <2>1. keyring'["refresh"] <= issued' /\ file'["refresh"] <= issued'
    BY <1>1, <1>13 DEF IInv, StoreOK
  <2>2. ASSUME shells' = {TRUE}
        PROVE  file' = Empty /\ \A q \in Commands : run'[q].up = TRUE /\ run'[q].data = Empty
    <3>1. /\ shells = {TRUE} /\ file = Empty
          /\ \A q \in Commands : run[q].up = TRUE /\ run[q].data = Empty
      BY <1>1, <2>2 DEF IInv, StoreOK
    <3>2. file' = Empty
      BY <1>1, <3>1
    <3> QED
      BY <1>5, <1>7, <3>1, <3>2 DEF Others
  <2> QED
    BY <2>1, <2>2 DEF StoreOK
<1>15. LoggingIn \/ keyring'["refresh"] \in {None, keyring["refresh"]}
  BY <1>4, <1>12 DEF GoodOp, LoggingIn
<1>16. ASSUME p \in alone
       PROVE  r.kind = "logout" /\ ~LoggingIn /\ (shells = {TRUE} => Clears(run[p])')
  <2>1. v.kind = "logout" /\ ~LoggingIn
    BY <1>16 DEF IInv, AloneOK
  <2>2. ASSUME shells = {TRUE}
        PROVE  Clears(r)'
    <3>1. Clears(v)
      BY <1>1, <1>16, <2>2, AloneClears
    <3>2. CASE keyring["refresh"] = None
      BY <1>15, <2>1, <3>2 DEF Clears
    <3>3. CASE op = Op("keyring", "refresh", None)
      <4>1. op.field = "refresh" /\ op.value = None
        BY <3>3 DEF Op
      <4> QED
        BY <1>12, <4>1 DEF Clears
    <3>4. CASE Op("keyring", "refresh", None) \in Elems(Tail(v.todo))
      BY <1>5, <3>4 DEF Clears
    <3> QED
      BY <1>4, <3>1, <3>2, <3>3, <3>4 DEF Clears
  <2>3. shells = {TRUE} => Clears(run[p])'
    BY <1>7, <2>2
  <2> QED
    BY <1>5, <2>1, <2>3
<1>17. AloneStep(p)
  BY <1>1, <1>5, <1>7, <1>15, <1>16 DEF AloneStep, IInv, TypeOK, LoggingIn
<1>18. Rest' /\ RevokedOK'
  BY <1>1 DEF IInv, TypeOK, Rest, RevokedOK, SessionRevoked
<1>19. file' \in [Fields -> Nat] /\ r.up \in shells
  BY <1>1, <1>3, <1>5 DEF IInv, TypeOK
<1> QED
  BY <1>5, <1>6, <1>8, <1>10, <1>11, <1>14, <1>17, <1>18, <1>19, CommandInv

LEMMA SaveFileInv ==
  ASSUME IInv, NEW p \in Commands, SaveFile(p)
  PROVE  IInv'
<1> PICK v, op : v = run[p] /\ op = NextOp(p)
  OBVIOUS
<1>1. /\ UNCHANGED <<issued, live, keys, minted, scan, shells, keyring, lost, cuts, alone,
                     revoked, out, account>>
      /\ v.pc = "save"
      /\ file' = [v.data EXCEPT ![op.field] = op.value]
  BY DEF SaveFile, server, bounds, history
<1>2. v \in Runs /\ GoodRun(v) /\ issued \in Nat /\ issued \in 0..MaxSessions
  BY Numbers
<1>3. v.kind # "idle" /\ v.todo # <<>> /\ Head(v.todo).at = "file"
      /\ v.data \in [Fields -> Nat]
  BY <1>1, <1>2 DEF GoodRun, Runs
<1>4. /\ op \in Ops /\ GoodOp(v, op) /\ Tail(v.todo) \in Seq(Ops) /\ op = Head(v.todo)
      /\ Elems(v.todo) = {op} \cup Elems(Tail(v.todo))
      /\ op.field \in Fields /\ op.value \in Nat
  BY <1>2, <1>3, HeadFacts
<1> PICK r : r = [v EXCEPT !.pc = "write", !.todo = Tail(v.todo), !.data = Empty]
  OBVIOUS
<1>5. /\ r \in Runs /\ r.pc = "write" /\ r.data = Empty /\ r.kind = v.kind /\ r.up = v.up
      /\ r.sess = v.sess /\ r.todo = Tail(v.todo)
  BY <1>2, <1>4, EmptyFacts DEF Runs
<1>6. run' = [run EXCEPT ![p] = r]
  BY DEF SaveFile, IInv, RunOK
<1>7. run'[p] = r /\ Others(p)
  BY <1>5, <1>6, RunFacts
<1>8. Later
  BY <1>1, <1>2 DEF Later, IInv, TypeOK
<1>9. GoodRun(r)
  <2>1. r.data["refresh"] <= issued
    BY <1>2, <1>5, EmptyFacts DEF Fields, None
  <2> QED
    BY <1>1, <1>2, <1>3, <1>4, <1>5, <2>1 DEF GoodRun, GoodOp
<1>10. GoodRun(r)'
  BY <1>5, <1>8, <1>9, GoodStays
<1>11. file' \in [Fields -> Nat]
  BY <1>1, <1>3, <1>4
<1>12. file'["refresh"] = IF op.field = "refresh" THEN op.value ELSE v.data["refresh"]
  BY <1>1, <1>3 DEF Fields
<1>13. file'["refresh"] <= issued
  BY <1>2, <1>4, <1>12 DEF GoodOp, GoodRun
<1>14. ASSUME shells = {TRUE}
       PROVE  file' = Empty
  <2>1. v.up = TRUE /\ v.data = Empty
    BY <1>14 DEF IInv, StoreOK
  <2>2. op.value = None
    BY <1>3, <1>4, <2>1 DEF GoodOp
  <2> QED
    BY <1>1, <1>4, <2>1, <2>2 DEF Empty
<1>15. StoreOK'
  <2>1. keyring'["refresh"] <= issued' /\ file'["refresh"] <= issued'
    BY <1>1, <1>13 DEF IInv, StoreOK
  <2>2. ASSUME shells' = {TRUE}
        PROVE  file' = Empty /\ \A q \in Commands : run'[q].up = TRUE /\ run'[q].data = Empty
    <3>1. /\ shells = {TRUE} /\ file = Empty
          /\ \A q \in Commands : run[q].up = TRUE /\ run[q].data = Empty
      BY <1>1, <2>2 DEF IInv, StoreOK
    <3>2. file' = Empty
      BY <1>1, <3>1, <1>14
    <3> QED
      BY <1>5, <1>7, <3>1, <3>2 DEF Others
  <2> QED
    BY <2>1, <2>2 DEF StoreOK
<1>16. AloneStep(p)
  <2>1. ASSUME p \in alone
        PROVE  r.kind = "logout" /\ (shells = {TRUE} => Clears(r)')
    <3>1. v.kind = "logout"
      BY <2>1 DEF IInv, AloneOK
    <3>2. shells = {TRUE} => Clears(v)
      BY <1>1, <2>1, AloneClears
    <3>3. op # Op("keyring", "refresh", None)
      BY <1>3, <1>4 DEF Op
    <3> QED
      BY <1>1, <1>4, <1>5, <3>1, <3>2, <3>3 DEF Clears
  <2> QED
    BY <1>1, <1>5, <1>6, <2>1, AloneQuiet
<1>17. Rest' /\ RevokedOK'
  BY <1>1 DEF IInv, TypeOK, Rest, RevokedOK, SessionRevoked
<1>18. keyring' \in [Fields -> Nat] /\ r.up \in shells
  BY <1>1, <1>3, <1>5 DEF IInv, TypeOK
<1> QED
  BY <1>5, <1>6, <1>8, <1>10, <1>11, <1>15, <1>16, <1>17, <1>18, CommandInv

----------------------------------------------------------------------------
(* The server *)

\* What the server does of its own leaves the commands and the stores alone.
LEMMA ServerInv ==
  ASSUME IInv, UNCHANGED <<shells, issued, keyring, file, run, lost, cuts, alone, out>>,
         live' \subseteq live, Rest', RevokedOK'
  PROVE  IInv'
<1>1. issued \in Nat /\ issued \in 0..MaxSessions
  BY Numbers
<1>2. Later
  BY <1>1 DEF Later, IInv, TypeOK
<1>3. \A p \in Commands : GoodRun(run[p])'
  <2> SUFFICES ASSUME NEW p \in Commands
               PROVE  GoodRun(run[p])'
    OBVIOUS
  <2> PICK v : v = run[p]
    OBVIOUS
  <2>1. v \in Runs /\ GoodRun(v) /\ run'[p] = v
    BY Numbers
  <2>2. GoodRun(v)'
    BY <1>2, <2>1, GoodStays
  <2> QED
    BY <2>1, <2>2
<1>4. RunOK'
  BY <1>3 DEF IInv, RunOK
<1>5. TypeOK'
  BY DEF IInv, TypeOK, Rest
<1>6. StoreOK' /\ AloneOK'
  BY DEF IInv, StoreOK, AloneOK, Clears, LoggingIn
<1> QED
  BY <1>4, <1>5, <1>6 DEF IInv

LEMMA RequestInv ==
  ASSUME IInv, NEW r \in Requests,
         BeginRevokeAll(r) \/ RevokePage(r) \/ EndRevokeAll(r)
  PROVE  IInv'
<1>1. /\ UNCHANGED <<account, issued, keys, minted, shells, keyring, file, run, lost, cuts,
                     alone, out>>
  BY DEF BeginRevokeAll, RevokePage, EndRevokeAll, store, bounds, history
<1>2. /\ scan \in [Requests -> SUBSET Sessions] /\ live \subseteq 1..issued
      /\ revoked \subseteq 1..issued /\ issued \in 0..MaxSessions /\ MaxSessions \in Nat
      /\ \A q \in Requests : scan[q] \subseteq 1..issued
      /\ (lost = 0 => revoked \cap live = {})
  BY DEF IInv, TypeOK, RevokedOK, SessionRevoked, SessionsAssumption
<1>3. CASE BeginRevokeAll(r)
  <2>1. scan' = [scan EXCEPT ![r] = live] /\ live' = live /\ revoked' = revoked
    BY <1>3 DEF BeginRevokeAll, history
  <2>2. live \subseteq Sessions
    BY <1>2 DEF Sessions
  <2>3. scan' \in [Requests -> SUBSET Sessions]
    BY <1>2, <2>1, <2>2
  <2>4. \A q \in Requests : scan'[q] \subseteq 1..issued
    BY <1>2, <2>1
  <2>5. Rest' /\ RevokedOK'
    BY <1>1, <1>2, <2>1, <2>3, <2>4 DEF IInv, TypeOK, Rest, RevokedOK, SessionRevoked
  <2> QED
    BY <1>1, <2>1, <2>5, ServerInv
<1>4. CASE RevokePage(r)
  <2>1. scan' = scan /\ live' \subseteq live /\ revoked' = revoked
    BY <1>4 DEF RevokePage, history
  <2>2. Rest' /\ RevokedOK'
    BY <1>1, <1>2, <2>1 DEF IInv, TypeOK, Rest, RevokedOK, SessionRevoked
  <2> QED
    BY <1>1, <2>1, <2>2, ServerInv
<1>5. CASE EndRevokeAll(r)
  <2>1. /\ scan' = [scan EXCEPT ![r] = {}] /\ live' = live
        /\ revoked' = revoked \cup scan[r] /\ scan[r] \cap live = {}
    BY <1>5 DEF EndRevokeAll
  <2>2. scan' \in [Requests -> SUBSET Sessions]
    BY <1>2, <2>1
  <2>3. \A q \in Requests : scan'[q] \subseteq 1..issued
    BY <1>2, <2>1
  <2>4. revoked' \subseteq 1..issued /\ (lost = 0 => revoked' \cap live = {})
    BY <1>2, <2>1
  <2>5. Rest' /\ RevokedOK'
    BY <1>1, <2>1, <2>2, <2>3, <2>4 DEF IInv, TypeOK, Rest, RevokedOK, SessionRevoked
  <2> QED
    BY <1>1, <2>1, <2>5, ServerInv
<1> QED
  BY <1>3, <1>4, <1>5

LEMMA RotateKeyInv ==
  ASSUME IInv, RotateKey
  PROVE  IInv'
<1>1. UNCHANGED <<account, issued, live, scan, shells, keyring, file, run, lost, cuts,
                  alone, out, revoked>>
  BY DEF RotateKey, store, bounds, history
<1>2. minted' \in 0..MaxKeys /\ keys' \in Seq(1..minted')
  BY MintedKeys DEF RotateKey
<1>3. Rest' /\ RevokedOK'
  BY <1>1, <1>2 DEF IInv, TypeOK, Rest, RevokedOK, SessionRevoked
<1> QED
  BY <1>1, <1>3, ServerInv

----------------------------------------------------------------------------
(* The theorems *)

LEMMA InitInv == Init => IInv
<1> SUFFICES ASSUME Init
             PROVE  IInv
  OBVIOUS
<1>1. issued = 0 /\ 0 \in Nat
  BY DEF Init
<1>2. /\ Idle \in Runs /\ GoodRun(Idle) /\ Idle.kind = "idle" /\ Idle.up = TRUE
      /\ Idle.data = Empty
  BY <1>1, IdleFacts
<1>3. run \in [Commands -> Runs] /\ \A p \in Commands : run[p] = Idle
  BY <1>2 DEF Init
<1>4. Empty \in [Fields -> Nat] /\ Empty["refresh"] = 0
  BY EmptyFacts DEF Fields, None
<1>5. TypeOK
  <2>1. keys \in Seq(1..minted) /\ minted \in 0..MaxKeys
    BY DEF Init, SessionsAssumption
  <2>2. issued \in 0..MaxSessions /\ lost + cuts <= MaxFaults /\ live \subseteq 1..issued
    BY DEF Init, SessionsAssumption
  <2> QED
    BY <1>2, <1>3, <1>4, <2>1, <2>2 DEF Init, TypeOK
<1>6. RunOK
  BY <1>2, <1>3 DEF Init, RunOK
<1>7. StoreOK
  <2>1. keyring["refresh"] <= issued /\ file["refresh"] <= issued
    BY <1>1, <1>4 DEF Init
  <2>2. file = Empty /\ \A p \in Commands : run[p].up = TRUE /\ run[p].data = Empty
    BY <1>2, <1>3 DEF Init
  <2> QED
    BY <2>1, <2>2 DEF StoreOK
<1>8. RevokedOK
  BY DEF Init, RevokedOK, SessionRevoked
<1>9. AloneOK
  BY <1>2, <1>3 DEF Init, AloneOK, LoggingIn
<1> QED
  BY <1>5, <1>6, <1>7, <1>8, <1>9 DEF IInv

LEMMA CommandsInv ==
  ASSUME IInv, NEW p \in Commands, Command(p)
  PROVE  IInv'
  BY BeginLoginInv, CreateAccountInv, IssueSessionInv, MintKeyInv, RefusedInv,
     BeginRefreshInv, RefreshInv, BeginLogoutInv, RevokeInv, WriteKeyringInv, ReadFileInv,
     ReadTornFileInv, SaveFileInv, EndInv, InterruptInv
  DEF Command

LEMMA NextInv == IInv /\ [Next]_vars => IInv'
<1> SUFFICES ASSUME IInv, [Next]_vars
             PROVE  IInv'
  OBVIOUS
<1>1. CASE UNCHANGED vars
  <2>1. TypeOK'
    BY <1>1 DEF vars, IInv, TypeOK
  <2>2. RunOK'
    BY <1>1 DEF vars, IInv, RunOK, GoodRun, GoodOp
  <2>3. StoreOK' /\ RevokedOK'
    BY <1>1 DEF vars, IInv, StoreOK, RevokedOK, SessionRevoked
  <2>4. AloneOK'
    BY <1>1 DEF vars, IInv, AloneOK, Clears, LoggingIn
  <2> QED
    BY <2>1, <2>2, <2>3, <2>4 DEF IInv
<1>2. CASE \E p \in Commands : Command(p)
  BY <1>2, CommandsInv
<1>3. CASE \E r \in Requests : BeginRevokeAll(r) \/ RevokePage(r) \/ EndRevokeAll(r)
  BY <1>3, RequestInv
<1>4. CASE RotateKey
  BY <1>4, RotateKeyInv
<1> QED
  BY <1>1, <1>2, <1>3, <1>4 DEF Next

LEMMA Invariance == Spec => []IInv
<1>1. Init => IInv
  BY InitInv
<1>2. IInv /\ [Next]_vars => IInv'
  BY NextInv
<1> QED
  BY <1>1, <1>2, PTL DEF Spec

\* Every variable of the account, of the stores and of the commands keeps its type,
\* and no more sessions, keys or faults come up than there can be.
THEOREM SessionsTypeCorrect == Spec => []TypeOK
<1>1. IInv => TypeOK
  BY DEF IInv
<1> QED
  BY <1>1, Invariance, PTL

\* "Session revoked on server" and "All sessions revoked" are true when they are
\* said and stay true: no login and no refresh that runs meanwhile brings a
\* revoked session back (auth.py:308-364, cli/commands.py:783-815).
THEOREM RevokedForGood == Spec => []SessionRevoked
<1>1. IInv => SessionRevoked
  BY DEF IInv, RevokedOK
<1> QED
  BY <1>1, Invariance, PTL

\* On a machine with a keyring, "all local credentials cleared" stays true until
\* the next login, however many commands refresh their tokens meanwhile
\* (cli/auth.py:166-262, cli/commands.py:815).
THEOREM LogoutStands == Spec => []LoggedOutStaysOut
<1>1. IInv => LoggedOutStaysOut
  <2> SUFFICES ASSUME IInv, shells = {TRUE}, out
               PROVE  ~Loads(TRUE)
    BY DEF LoggedOutStaysOut
  <2>1. keyring["refresh"] = None /\ file = Empty
    BY DEF IInv, AloneOK, StoreOK
  <2>2. Empty["refresh"] = None /\ "refresh" \in Fields
    BY EmptyFacts DEF Fields
  <2> QED
    BY <2>1, <2>2 DEF Loads, Get
<1> QED
  BY <1>1, Invariance, PTL

----------------------------------------------------------------------------
(***************************************************************************)
(* The counters with a window, for any number of them, of threads and of   *)
(* attempts, and any window and limit.  A burst is bounded because two     *)
(* lifetimes of a counter never fit into one window with a third: of any   *)
(* span some last part falls into the lifetime of the counter at hand, and *)
(* what was let in before belongs to the one before it (BurstFits).        *)
(***************************************************************************)

USE WindowCountersAssumption

\* What k let in over the last j ticks.
Since(k, j) == IF j = 0 THEN 0 ELSE recent[k][j]

\* The counter exists since j ticks, this one included; it is there for a whole
\* window after its expiry is set.
BurstFits(k, j) ==
  /\ Since(k, j) <= count[k] /\ Since(k, j) <= MaxAttempts
  /\ Spent(k) - Since(k, j) <= MaxAttempts
  /\ ttl[k] = Absent <=> j = 0
  /\ ttl[k] \in Span => ttl[k] + j > Window
  /\ ttl[k] = Absent => count[k] = 0 /\ recent[k][1] = 0

\* A longer past has seen no less.
Grows(k) == \A i \in Span : i # Window => recent[k][i] <= recent[k][i + 1]

CountersInv ==
  /\ CountersTypeOK
  /\ \A k \in Limiters : Grows(k) /\ \E j \in 0..Window : BurstFits(k, j)

\* What the type of a counter gives.
LEMMA CounterFacts ==
  ASSUME CountersTypeOK, NEW k \in Counters
  PROVE  /\ count[k] \in Nat
         /\ ttl[k] = Absent \/ ttl[k] = Forever \/ ttl[k] \in Span
         /\ 1 \in Span /\ Window \in Span
         /\ \A i \in Span : recent[k][i] \in Nat
BY DEF CountersTypeOK, Span, Absent, Forever

\* What is counted by one is let in at most by one.
LEMMA CountOne ==
  ASSUME CountersInv, NEW k \in Limiters,
         Increment(k, 1), LetIn(k, IF count'[k] <= MaxAttempts THEN 1 ELSE 0)
  PROVE  Grows(k)' /\ \E j \in 0..Window : BurstFits(k, j)'
<1>1. CountersTypeOK /\ k \in Counters /\ Grows(k)
  BY DEF CountersInv, Counters
<1>2. PICK j \in 0..Window : BurstFits(k, j)
  BY DEF CountersInv
<1> DEFINE a == IF count'[k] <= MaxAttempts THEN 1 ELSE 0
<1>3. /\ count'[k] = count[k] + 1
      /\ ttl'[k] = IF ttl[k] = Absent THEN Forever ELSE ttl[k]
      /\ recent'[k] = [i \in Span |-> recent[k][i] + a]
  BY <1>1 DEF CountersTypeOK, Increment, LetIn
<1>4. /\ a \in {0, 1} /\ (count[k] + 1 > MaxAttempts => a = 0)
      /\ count[k] \in Nat /\ Window \in Nat \ {0} /\ MaxAttempts \in Nat
      /\ 1 \in Span /\ Window \in Span /\ j \in Nat /\ j <= Window
  BY <1>1, <1>3, CounterFacts DEF WindowCountersAssumption
<1>5. \A i \in Span : recent[k][i] \in Nat /\ recent'[k][i] = recent[k][i] + a
  BY <1>1, <1>3, CounterFacts
<1> HIDE DEF a
<1>6. Grows(k)'
  <2>1. \A i \in Span : i # Window => i + 1 \in Span
    BY <1>4 DEF Span
  <2> QED
    BY <1>1, <1>4, <1>5, <2>1 DEF Grows, Span
<1>7. CASE j = 0
  <2>1. /\ ttl[k] = Absent /\ count[k] = 0 /\ recent[k][1] = 0
        /\ Spent(k) <= MaxAttempts
    BY <1>2, <1>4, <1>5, <1>7 DEF BurstFits, Since, Spent
  <2>2. count'[k] = 1 /\ ttl'[k] = -1 /\ -1 \notin Span
    BY <1>3, <2>1 DEF Forever, Span
  <2>3. recent'[k][1] = a /\ a <= 1 /\ a <= MaxAttempts
    BY <1>4, <1>5, <2>1
  <2>4. Spent(k)' - recent'[k][1] <= MaxAttempts
    BY <1>4, <1>5, <2>1, <2>3 DEF Spent
  <2>5. BurstFits(k, 1)'
    BY <2>2, <2>3, <2>4 DEF BurstFits, Since, Absent
  <2> QED
    BY <1>4, <1>6, <2>5
<1>8. CASE j # 0
  <2>1. j \in Span
    BY <1>4, <1>8 DEF Span
  <2>2. /\ ttl[k] # Absent /\ recent[k][j] <= count[k] /\ recent[k][j] <= MaxAttempts
        /\ Spent(k) - recent[k][j] <= MaxAttempts
        /\ ttl[k] \in Span => ttl[k] + j > Window
    BY <1>2, <1>8 DEF BurstFits, Since
  <2>3. a = 1 => recent[k][j] < MaxAttempts
    BY <1>4, <1>5, <2>1, <2>2
  <2>4. BurstFits(k, j)'
    BY <1>3, <1>4, <1>5, <1>8, <2>1, <2>2, <2>3 DEF BurstFits, Since, Spent
  <2> QED
    BY <1>2, <1>6, <2>4
<1> QED
  BY <1>7, <1>8

\* A tick ends the counter, or makes it older.
LEMMA TickBursts ==
  ASSUME CountersInv, Tick, NEW k \in Limiters
  PROVE  Grows(k)' /\ \E j \in 0..Window : BurstFits(k, j)'
<1>1. CountersTypeOK /\ k \in Counters /\ Grows(k)
  BY DEF CountersInv, Counters
<1>2. PICK j \in 0..Window : BurstFits(k, j)
  BY DEF CountersInv
<1>3. /\ count'[k] = IF ttl[k] = 1 THEN 0 ELSE count[k]
      /\ ttl'[k] = CASE ttl[k] = 1 -> Absent
                     [] ttl[k] > 1 -> ttl[k] - 1
                     [] OTHER -> ttl[k]
  BY <1>1 DEF Tick, Ends
<1>4. \A i \in Span : recent'[k][i] = (IF i = 1 THEN 0 ELSE recent[k][i - 1])
  BY <1>1 DEF Tick
<1>5. /\ count[k] \in Nat /\ Window \in Nat \ {0} /\ MaxAttempts \in Nat
      /\ 1 \in Span /\ Window \in Span /\ j \in Nat /\ j <= Window
      /\ \A i \in Span : i \in Nat /\ 1 <= i /\ i <= Window /\ recent[k][i] \in Nat
      /\ \A i \in Nat : 1 <= i /\ i <= Window => i \in Span
      /\ ttl[k] = -2 \/ ttl[k] = -1 \/ ttl[k] \in Span
  BY <1>1, CounterFacts DEF WindowCountersAssumption, Span, Absent, Forever
<1>6. \A i \in Span : i # Window => recent[k][i] <= recent[k][i + 1]
  BY <1>1 DEF Grows
<1>7. Grows(k)'
  <2> SUFFICES ASSUME NEW i \in Span, i # Window
               PROVE  recent'[k][i] <= recent'[k][i + 1]
    BY DEF Grows
  <2>1. i + 1 \in Span /\ i + 1 # 1 /\ i + 1 - 1 = i
    BY <1>5
  <2>2. recent'[k][i + 1] = recent[k][i]
    <3> PICK m \in Span : m = i + 1
      BY <2>1
    <3>1. recent'[k][m] = recent[k][m - 1] /\ m - 1 = i
      BY <1>4, <2>1
    <3> QED
      BY <3>1
  <2>3. CASE i = 1
    BY <1>4, <1>5, <2>2, <2>3
  <2>4. CASE i # 1
    <3>1. i - 1 \in Span /\ i - 1 # Window /\ i - 1 + 1 = i
      BY <1>5, <2>4
    <3>2. recent[k][i - 1] <= recent[k][i]
      BY <1>6, <3>1
    <3> QED
      BY <1>4, <1>5, <2>2, <2>4, <3>2
  <2> QED
    BY <2>3, <2>4
<1>8. Spent(k)' = (IF Window = 1 THEN 0 ELSE recent[k][Window - 1]) /\ Spent(k)' <= Spent(k)
  <2>1. Spent(k)' = IF Window = 1 THEN 0 ELSE recent[k][Window - 1]
    BY <1>4, <1>5 DEF Spent
  <2>2. Window # 1 => recent[k][Window - 1] <= recent[k][Window]
    <3> SUFFICES ASSUME Window # 1 PROVE recent[k][Window - 1] <= recent[k][Window]
      OBVIOUS
    <3>1. Window - 1 \in Span /\ Window - 1 # Window /\ Window - 1 + 1 = Window
      BY <1>5
    <3> QED
      BY <1>6, <3>1
  <2> QED
    BY <1>5, <2>1, <2>2 DEF Spent
<1>9. Spent(k)' \in Nat /\ Spent(k) \in Nat
  <2>1. Window # 1 => Window - 1 \in Span
    BY <1>5
  <2> QED
    BY <1>5, <1>8, <2>1 DEF Spent
<1>10. CASE ttl[k] = 1
  <2>1. j = Window
    BY <1>2, <1>5, <1>10 DEF BurstFits, Absent
  <2>2. Spent(k) <= MaxAttempts
    BY <1>2, <1>5, <2>1 DEF BurstFits, Since, Spent
  <2>3. BurstFits(k, 0)'
    BY <1>3, <1>4, <1>5, <1>8, <1>9, <1>10, <2>2 DEF BurstFits, Since, Absent, Span
  <2> QED
    BY <1>5, <1>7, <2>3
<1>11. CASE ttl[k] # 1 /\ j = 0
  <2>1. ttl[k] = -2 /\ count[k] = 0 /\ Spent(k) <= MaxAttempts
    BY <1>2, <1>5, <1>9, <1>11 DEF BurstFits, Since, Absent
  <2>2. BurstFits(k, 0)'
    BY <1>3, <1>4, <1>5, <1>8, <1>9, <1>11, <2>1 DEF BurstFits, Since, Absent, Span
  <2> QED
    BY <1>5, <1>7, <2>2
<1>12. CASE ttl[k] # 1 /\ j # 0
  <2> DEFINE i == IF j = Window THEN j ELSE j + 1
  <2>1. i \in Span /\ i # 0 /\ i \in 0..Window /\ j \in Span
    BY <1>5, <1>12
  <2>2. /\ ttl[k] # -2
        /\ ttl[k] \in Span => ttl[k] + j > Window
        /\ recent[k][j] <= count[k] /\ recent[k][j] <= MaxAttempts
        /\ Spent(k) - recent[k][j] <= MaxAttempts
    BY <1>2, <1>12 DEF BurstFits, Since, Absent
  <2>3. ttl'[k] # -2 /\ (ttl'[k] \in Span => ttl'[k] + i > Window)
    <3>1. CASE ttl[k] = -1
      BY <1>3, <3>1 DEF Span
    <3>2. CASE ttl[k] \in Span
      <4>1. ttl'[k] = ttl[k] - 1 /\ ttl[k] \in Nat /\ ttl[k] >= 2
        BY <1>3, <1>5, <1>12, <3>2
      <4>2. ttl[k] + j > Window
        BY <2>2, <3>2
      <4> QED
        BY <1>5, <4>1, <4>2 DEF Span
    <3> QED
      BY <1>5, <2>2, <3>1, <3>2
  <2>4. CASE j = Window
    <3>1. Spent(k) <= MaxAttempts /\ Spent(k) <= count[k]
      BY <2>2, <2>4 DEF Spent
    <3>2. recent'[k][i] = Spent(k)'
      BY <2>4 DEF Spent
    <3> QED
      BY <1>3, <1>5, <1>7, <1>8, <1>9, <1>12, <2>1, <2>3, <3>1, <3>2
         DEF BurstFits, Since, Absent
  <2>5. CASE j # Window
    <3>1. recent'[k][i] = recent[k][j]
      BY <1>4, <1>5, <2>1, <2>5, <1>12
    <3>2. Spent(k)' - recent[k][j] <= MaxAttempts
      BY <1>5, <1>8, <1>9, <2>1, <2>2
    <3> QED
      BY <1>3, <1>5, <1>7, <1>12, <2>1, <2>2, <2>3, <3>1, <3>2
         DEF BurstFits, Since, Absent
  <2> QED
    BY <2>4, <2>5
<1> QED
  BY <1>10, <1>11, <1>12

\* The counters keep their types.
LEMMA CountersTypes ==
  ASSUME CountersTypeOK, [CountersNext]_counterVars
  PROVE  CountersTypeOK'
<1>1. Window \in Nat \ {0} /\ 1 \in Span /\ Window \in Span
  BY DEF Span, WindowCountersAssumption
<1>2. ASSUME NEW p \in Threads, NEW k \in Counters, NEW next \in {"idle", "ttl", "expire"},
             Proceed(p, k, next)
      PROVE  /\ pc' \in [Threads -> {"idle", "ttl", "expire"}]
             /\ at' \in [Threads -> Counters \cup {NoCounter}]
             /\ \A q \in Threads : pc'[q] = "idle" <=> at'[q] = NoCounter
  BY <1>2 DEF Proceed, CountersTypeOK, WindowCountersAssumption
<1>3. ASSUME NEW k \in Counters, NEW by \in Nat, Increment(k, by)
      PROVE  /\ count' \in [Counters -> Nat]
             /\ ttl' \in [Counters -> {Absent, Forever} \cup Span]
  BY <1>3 DEF Increment, CountersTypeOK
<1>4. ASSUME NEW k \in Counters, NEW amount \in Nat, LetIn(k, amount)
      PROVE  recent' \in [Counters -> [Span -> Nat]]
  BY <1>4 DEF LetIn, CountersTypeOK
<1>5. ASSUME NEW p \in Threads, NEW k \in Counters, Attempt(p, k)
      PROVE  CountersTypeOK'
  <2>1. (IF count'[k] <= MaxAttempts THEN 1 ELSE 0) \in Nat
    OBVIOUS
  <2>2. (IF count'[k] = 1 THEN "expire" ELSE "idle") \in {"idle", "ttl", "expire"}
    OBVIOUS
  <2> QED
    BY <1>2, <1>3, <1>4, <1>5, <2>1, <2>2 DEF Attempt, CountersTypeOK
<1>6. ASSUME NEW p \in Threads, NEW k \in Counters, RecordUsage(p, k)
      PROVE  CountersTypeOK'
  <2>1. owed' \in [Counters -> 0..MaxOwed]
    BY <1>6 DEF RecordUsage, CountersTypeOK, WindowCountersAssumption
  <2> QED
    BY <1>2, <1>3, <1>4, <1>6, <2>1 DEF RecordUsage, CountersTypeOK, WindowCountersAssumption
<1>7. ASSUME NEW k \in Counters, StartTask(k)
      PROVE  CountersTypeOK'
  BY <1>7 DEF StartTask, CountersTypeOK, WindowCountersAssumption
<1>8. ASSUME NEW p \in Threads, ReadTtl(p) \/ SetExpiry(p) \/ Crash(p)
      PROVE  CountersTypeOK'
  <2>1. at[p] \in Counters
    BY <1>8 DEF ReadTtl, SetExpiry, Crash, CountersTypeOK
  <2>2. PICK next \in {"idle", "ttl", "expire"} : Proceed(p, at[p], next)
    BY <1>8 DEF ReadTtl, SetExpiry, Crash
  <2>3. ttl' \in [Counters -> {Absent, Forever} \cup Span]
    BY <1>1, <1>8 DEF ReadTtl, SetExpiry, Crash, CountersTypeOK
  <2>4. crashes' \in 0..MaxCrashes
    BY <1>8 DEF ReadTtl, SetExpiry, Crash, CountersTypeOK, WindowCountersAssumption
  <2> QED
    BY <1>2, <1>8, <2>1, <2>2, <2>3, <2>4 DEF ReadTtl, SetExpiry, Crash, CountersTypeOK
<1>9. CASE Tick
  <2>1. ASSUME NEW k \in Counters
        PROVE  (CASE Ends(k) -> Absent [] ttl[k] > 1 -> ttl[k] - 1 [] OTHER -> ttl[k])
                 \in {Absent, Forever} \cup Span
    <3>1. ttl[k] \in {Absent, Forever} \cup Span /\ -2 = Absent /\ -1 = Forever
      BY DEF CountersTypeOK, Absent, Forever
    <3>2. CASE ttl[k] \in Span
      <4>1. ttl[k] \in Nat /\ ttl[k] >= 1 /\ ttl[k] <= Window
        BY <1>1, <3>2 DEF Span
      <4>2. ttl[k] > 1 => ttl[k] - 1 \in Span
        BY <1>1, <4>1 DEF Span
      <4> QED
        BY <3>1, <4>1, <4>2 DEF Ends
    <3>3. CASE ttl[k] \in {Absent, Forever}
      BY <3>1, <3>3 DEF Ends
    <3> QED
      BY <3>1, <3>2, <3>3
  <2>2. ttl' \in [Counters -> {Absent, Forever} \cup Span]
    BY <1>9, <2>1 DEF Tick
  <2>3. count' \in [Counters -> Nat]
    BY <1>9 DEF Tick, CountersTypeOK
  <2>4. ASSUME NEW k \in Counters, NEW i \in Span
        PROVE  (IF i = 1 THEN 0 ELSE recent[k][i - 1]) \in Nat
    BY <1>1 DEF CountersTypeOK, Span
  <2>5. recent' \in [Counters -> [Span -> Nat]]
    BY <1>9, <2>4 DEF Tick
  <2> QED
    BY <1>9, <2>2, <2>3, <2>5 DEF Tick, CountersTypeOK
<1>10. CASE UNCHANGED counterVars
  BY <1>10 DEF counterVars, CountersTypeOK
<1> QED
  BY <1>5, <1>6, <1>7, <1>8, <1>9, <1>10 DEF CountersNext

\* A limiter that is left alone, or whose expiry is set, keeps what it has.
LEMMA BurstsStay ==
  ASSUME CountersInv, NEW k \in Limiters,
         count'[k] = count[k], recent'[k] = recent[k],
         ttl'[k] = ttl[k] \/ (ttl[k] # Absent /\ ttl'[k] = Window)
  PROVE  Grows(k)' /\ \E j \in 0..Window : BurstFits(k, j)'
<1>1. Grows(k)'
  BY DEF CountersInv, Grows
<1>2. PICK j \in 0..Window : BurstFits(k, j)
  BY DEF CountersInv
<1>3. Window \in Nat \ {0} /\ j \in Nat
  BY <1>2 DEF WindowCountersAssumption
<1>4. BurstFits(k, j)'
  BY <1>2, <1>3 DEF BurstFits, Since, Spent, Absent
<1> QED
  BY <1>1, <1>2, <1>4

LEMMA CountersNextInv ==
  ASSUME CountersInv, [CountersNext]_counterVars
  PROVE  CountersInv'
<1>1. CountersTypeOK /\ CountersTypeOK'
  BY CountersTypes DEF CountersInv
<1> SUFFICES ASSUME NEW k \in Limiters
             PROVE  Grows(k)' /\ \E j \in 0..Window : BurstFits(k, j)'
  BY <1>1 DEF CountersInv
<1>2. k \in Counters /\ k \notin Budgets
  BY DEF Counters, WindowCountersAssumption
<1>3. ASSUME NEW p \in Threads, NEW c \in Counters, Attempt(p, c)
      PROVE  Grows(k)' /\ \E j \in 0..Window : BurstFits(k, j)'
  <2>1. CASE c = k
    BY <1>3, <2>1, CountOne DEF Attempt
  <2>2. CASE c # k
    <3>1. count'[k] = count[k] /\ ttl'[k] = ttl[k] /\ recent'[k] = recent[k]
      BY <1>1, <1>2, <1>3, <2>2 DEF Attempt, Increment, LetIn, CountersTypeOK
    <3> QED
      BY <3>1, BurstsStay
  <2> QED
    BY <2>1, <2>2
<1>4. ASSUME NEW p \in Threads, NEW c \in Counters, RecordUsage(p, c)
      PROVE  Grows(k)' /\ \E j \in 0..Window : BurstFits(k, j)'
  <2>1. c # k
    BY <1>2, <1>4 DEF RecordUsage
  <2>2. count'[k] = count[k] /\ ttl'[k] = ttl[k] /\ recent'[k] = recent[k]
    BY <1>1, <1>2, <1>4, <2>1 DEF RecordUsage, Increment, LetIn, CountersTypeOK
  <2> QED
    BY <2>2, BurstsStay
<1>5. ASSUME NEW p \in Threads, SetExpiry(p)
      PROVE  Grows(k)' /\ \E j \in 0..Window : BurstFits(k, j)'
  <2>1. /\ UNCHANGED <<count, recent>>
        /\ ttl'[k] = ttl[k] \/ (ttl[k] # Absent /\ ttl'[k] = Window)
    BY <1>1, <1>2, <1>5 DEF SetExpiry, CountersTypeOK
  <2> QED
    BY <2>1, BurstsStay
<1>6. CASE \/ \E c \in Counters : StartTask(c)
           \/ \E p \in Threads : ReadTtl(p) \/ Crash(p)
           \/ UNCHANGED counterVars
  <2>1. UNCHANGED <<count, ttl, recent>>
    BY <1>6 DEF StartTask, ReadTtl, Crash, counterVars
  <2> QED
    BY <2>1, BurstsStay
<1>7. CASE Tick
  BY <1>7, TickBursts
<1> QED
  BY <1>3, <1>4, <1>5, <1>6, <1>7 DEF CountersNext

LEMMA CountersInitInv == CountersInit => CountersInv
<1> SUFFICES ASSUME CountersInit PROVE CountersInv
  OBVIOUS
<1>1. CountersTypeOK
  BY DEF CountersInit, CountersTypeOK, WindowCountersAssumption
<1>2. ASSUME NEW k \in Limiters PROVE Grows(k) /\ BurstFits(k, 0)
  <2>1. /\ k \in Counters /\ count[k] = 0 /\ ttl[k] = Absent
        /\ \A i \in Span : recent[k][i] = 0
    BY DEF CountersInit, Counters
  <2>2. /\ 1 \in Span /\ Window \in Span /\ Window \in Nat \ {0} /\ MaxAttempts \in Nat
        /\ \A i \in Span : i # Window => i + 1 \in Span
    BY DEF Span, WindowCountersAssumption
  <2> QED
    BY <2>1, <2>2 DEF Grows, BurstFits, Since, Spent, Absent, Span
<1> QED
  BY <1>1, <1>2 DEF CountersInv, WindowCountersAssumption

\* The counters, their expiry and the threads keep their types (_check_rate_limit,
\* auth.py:159-178; record_usage, quota.py:43-54).
THEOREM CountersTypeCorrect == CountersSpec => []CountersTypeOK
<1>1. CountersInv => CountersTypeOK
  BY DEF CountersInv
<1> QED
  BY <1>1, CountersInitInv, CountersNextInv, PTL DEF CountersSpec

\* "max attempts per window" (auth.py:47) for any window, limit and number of
\* requests: however count, expiry and clock interleave, and whichever requests
\* die before they set the expiry, no span of a window lets in more than twice
\* the limit.
THEOREM BurstsBounded == CountersSpec => []BurstsAreBounded
<1>1. CountersInv => BurstsAreBounded
  <2> SUFFICES ASSUME CountersInv, NEW k \in Limiters
               PROVE  Spent(k) <= 2 * MaxAttempts
    BY DEF BurstsAreBounded
  <2>1. PICK j \in 0..Window : BurstFits(k, j)
    BY DEF CountersInv
  <2>2. Spent(k) \in Nat /\ Since(k, j) \in Nat /\ MaxAttempts \in Nat
    <3>1. CountersTypeOK /\ k \in Counters
      BY DEF CountersInv, Counters
    <3>2. j = 0 \/ j \in Span
      BY <2>1 DEF Span, WindowCountersAssumption
    <3> QED
      BY <3>1, <3>2, CounterFacts DEF Spent, Since, WindowCountersAssumption
  <2> QED
    BY <2>1, <2>2 DEF BurstFits
<1> QED
  BY <1>1, CountersInitInv, CountersNextInv, PTL DEF CountersSpec
=============================================================================
