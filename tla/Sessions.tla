------------------------------ MODULE Sessions ------------------------------
(***************************************************************************)
(* The sessions of one account: the refresh tokens the server keeps in     *)
(* Redis (server/app/blueprints/auth.py) and the copy the command line     *)
(* keeps of its own in the keyring of the system or, in a shell without    *)
(* one, in ~/.tandem/credentials.json (cli/auth.py).                       *)
(*                                                                         *)
(* Commands of one machine run side by side and change the store one field *)
(* at a time; the file is read and written back whole.  An access token is *)
(* identified with the session it was issued for, and may be near its      *)
(* expiry whenever a command looks.  The user name and the server url are  *)
(* stored and deleted like the API key and left out.                       *)
(***************************************************************************)
EXTENDS Integers, FiniteSets, Sequences

CONSTANTS
  Commands,     \* command processes on the machine
  Requests,     \* requests to revoke all sessions
  Machines,     \* the machines to consider: for each, whether the shells on it
                \* have a working keyring (a nonempty subset of BOOLEAN)
  MaxSessions,  \* bound: sessions issued
  MaxKeys,      \* bound: API keys issued
  MaxFaults     \* bound: requests to revoke that fail on the way, and
                \* commands interrupted

None == 0
Fields == {"access", "refresh", "key"}
Sessions == 1..MaxSessions

ASSUME SessionsAssumption ==
  /\ Machines \subseteq (SUBSET BOOLEAN) \ {{}}
  /\ MaxSessions \in Nat /\ MaxKeys \in Nat \ {0} /\ MaxFaults \in Nat

VARIABLES
  shells,         \* the machine at hand
  account,        \* whether the server knows the user
  issued, live,   \* sessions issued so far, and session:{user}:{jti} in Redis
  keys, minted,   \* the API keys of the account by id, and those ever made
  scan,           \* the sessions each request to revoke all set out to delete
  keyring, file,  \* the two stores
  run,            \* what each command is, does next and has in hand: whether
                  \* it found a keyring, the session it was given or revokes, the
                  \* writes it has left and the file as it read it
  lost, cuts,
  alone,          \* history: logouts that no login has overlapped, on a
                  \* machine with a keyring
  out,            \* history: one of them has ended and no login begun since
  revoked         \* history: sessions reported as revoked

vars == <<shells, account, issued, live, keys, minted, scan, keyring, file, run, lost, cuts,
          alone, out, revoked>>
server == <<account, issued, live, keys, minted, scan>>
store == <<shells, keyring, file>>
bounds == <<lost, cuts>>
history == <<alone, out, revoked>>

Empty == [f \in Fields |-> None]
Idle == [kind |-> "idle", pc |-> "idle", up |-> TRUE, sess |-> None,
         todo |-> <<>>, data |-> Empty]

LoggingIn == \E p \in Commands : run[p].kind = "login"

\* What a shell with (up) or without a keyring finds in the store.
Get(up, f) == IF up /\ keyring[f] # None THEN keyring[f] ELSE file[f]

\* Another command has emptied the file and not yet written it; who reads the
\* file now finds nothing in it.
Torn(p) == \E q \in Commands \ {p} : run[q].pc = "save"

\* What a command may read in a field.
Found(p, f) ==
  {Get(run[p].up, f)}
    \cup {v \in {IF run[p].up THEN keyring[f] ELSE None} : Torn(p)}

\* load_auth_session: all or nothing.
Loads(up) == \A f \in Fields : Get(up, f) # None

Begins(p, kind, pc) ==
  /\ run[p].kind = "idle"
  /\ \E up \in shells :
       run' = [run EXCEPT ![p] = [Idle EXCEPT !.kind = kind, !.up = up,
                                              !.pc = pc]]

Op(where, f, v) == [at |-> where, field |-> f, value |-> v]

\* A field is set in one store, and deleted from both.
Set(p, f, v) == <<Op(IF run[p].up THEN "keyring" ELSE "file", f, v)>>
Delete(p, f) == (IF run[p].up THEN <<Op("keyring", f, None)>> ELSE <<>>)
                  \o <<Op("file", f, None)>>

----------------------------------------------------------------------------
(* tandem auth register and login: the server issues a session and looks   *)
(* for a key; the flag --rotate-api-key is sent along and not looked at    *)

BeginLogin(p) ==
  /\ Begins(p, "login", "ask")
  /\ out' = FALSE
  /\ alone' = {}
  /\ UNCHANGED <<server, store, bounds, revoked>>

\* tandem auth register makes the account and goes on as a login.
BeginRegister(p) ==
  /\ Begins(p, "login", "register")
  /\ out' = FALSE
  /\ alone' = {}
  /\ UNCHANGED <<server, store, bounds, revoked>>

\* A name that is taken ends the command, also when it was taken just now.
CreateAccount(p) ==
  /\ run[p].pc = "register"
  /\ account' = TRUE
  /\ run' = IF account THEN [run EXCEPT ![p] = Idle]
                       ELSE [run EXCEPT ![p].pc = "ask"]
  /\ UNCHANGED <<issued, live, keys, minted, scan, store, bounds, history>>

\* _issue_refresh_token registers a session, which its token is good for as long
\* as it is there.
AddSession(s) == live' = live \cup {s}
Valid(s) == s \in live

\* login_user stores what it was given, field by field.
Storing(p, s, k) ==
  [run EXCEPT ![p].pc = "write", ![p].sess = None,
              ![p].todo = Set(p, "access", s) \o Set(p, "refresh", s)
                            \o Set(p, "key", k)]

IssueSession(p) ==
  /\ run[p].kind = "login" /\ run[p].pc = "ask" /\ account
  /\ issued < MaxSessions
  /\ issued' = issued + 1
  /\ AddSession(issued + 1)
  /\ run' = IF keys = <<>>
            THEN [run EXCEPT ![p].pc = "mint", ![p].sess = issued + 1]
            ELSE Storing(p, issued + 1, keys[1])
  /\ UNCHANGED <<account, keys, minted, scan, store, bounds, alone, out, revoked>>

\* The second half of _ensure_api_key_for_user, on what the first half read.
MintKey(p) ==
  /\ run[p].pc = "mint" /\ minted < MaxKeys
  /\ minted' = minted + 1
  /\ keys' = Append(keys, minted + 1)
  /\ run' = Storing(p, run[p].sess, minted + 1)
  /\ UNCHANGED <<account, issued, live, scan, store, bounds, history>>

\* Too many attempts, wrong credentials, or an error of the server.
Refused(p) ==
  /\ run[p].kind = "login" /\ run[p].pc \in {"register", "ask", "mint"}
  /\ run' = [run EXCEPT ![p] = Idle]
  /\ UNCHANGED <<server, store, bounds, history>>

\* /api/v1/login with rotate_api_key: one transaction, behind the CLI's back.
RotateKey ==
  /\ account /\ minted < MaxKeys
  /\ minted' = minted + 1
  /\ keys' = <<minted + 1>>
  /\ UNCHANGED <<account, issued, live, scan, store, run, bounds, history>>

----------------------------------------------------------------------------
(* A command that finds its access token near expiry *)

BeginRefresh(p) ==
  /\ Begins(p, "refresh", "ask")
  /\ Loads(run'[p].up)
  /\ UNCHANGED <<server, store, bounds, history>>

\* Faulty: stores the session again, as a login does.
RefreshStoresAll(p) ==
  /\ run[p].kind = "refresh" /\ run[p].pc = "ask"
  /\ LET s == Get(run[p].up, "refresh")
     IN  run' = IF s \in live THEN Storing(p, s, 1)
                              ELSE [run EXCEPT ![p] = Idle]
  /\ UNCHANGED <<server, store, bounds, history>>

\* The server gives a live session another access token; only that is stored.
Refresh(p) ==
  /\ run[p].kind = "refresh" /\ run[p].pc = "ask"
  /\ \E s \in Found(p, "refresh") :
       run' = IF Valid(s)
              THEN [run EXCEPT ![p].pc = "write",
                               ![p].todo = Set(p, "access", s)]
              ELSE [run EXCEPT ![p] = Idle]
  /\ UNCHANGED <<server, store, bounds, history>>

----------------------------------------------------------------------------
(* tandem auth logout *)

BeginLogout(p) ==
  /\ Begins(p, "logout", "ask")
  /\ alone' = IF LoggingIn \/ shells # {TRUE} THEN alone ELSE alone \cup {p}
  /\ UNCHANGED <<server, store, bounds, out, revoked>>

Clearing(p, s) ==
  [run EXCEPT ![p].pc = "write", ![p].sess = s,
              ![p].todo = Delete(p, "access") \o Delete(p, "refresh")
                            \o Delete(p, "key")]

\* The request may fail, and the logout goes on.
Revoke(p) ==
  /\ run[p].kind = "logout" /\ run[p].pc = "ask"
  /\ \E s \in Found(p, "refresh") :
       /\ run' = Clearing(p, s)
       /\ \/ live' = live \ {s} /\ UNCHANGED lost
          \/ s # None /\ lost + cuts < MaxFaults /\ lost' = lost + 1 /\ UNCHANGED live
  /\ UNCHANGED <<account, cuts, issued, keys, minted, scan, store, history>>

\* POST /api/v1/auth/logout with logout_all: page after page of the keys.
BeginRevokeAll(r) ==
  /\ scan[r] = {} /\ live # {}
  /\ scan' = [scan EXCEPT ![r] = live]
  /\ UNCHANGED <<account, issued, live, keys, minted, store, run, bounds, history>>

RevokePage(r) ==
  /\ scan[r] # {}
  /\ \E page \in SUBSET live : page # {} /\ live' = live \ page
  /\ UNCHANGED <<account, issued, keys, minted, scan, store, run, bounds, history>>

\* Faulty: takes the first page for the last.
EndRevokeAllEarly(r) ==
  /\ scan[r] # {} /\ scan[r] \ live # {}
  /\ scan' = [scan EXCEPT ![r] = {}]
  /\ revoked' = revoked \cup scan[r]
  /\ UNCHANGED <<account, issued, live, keys, minted, store, run, bounds, alone, out>>

\* The last page: SCAN has returned every key that was there throughout.
EndRevokeAll(r) ==
  /\ scan[r] # {} /\ scan[r] \cap live = {}
  /\ scan' = [scan EXCEPT ![r] = {}]
  /\ revoked' = revoked \cup scan[r]
  /\ UNCHANGED <<account, issued, live, keys, minted, store, run, bounds, alone, out>>

----------------------------------------------------------------------------
(* The writes of a command, one field at a time *)

NextOp(p) == Head(run[p].todo)

WriteKeyring(p) ==
  /\ run[p].pc = "write" /\ run[p].todo # <<>>
  /\ NextOp(p).at = "keyring"
  /\ keyring' = [keyring EXCEPT ![NextOp(p).field] = NextOp(p).value]
  /\ run' = [run EXCEPT ![p].todo = Tail(@)]
  /\ UNCHANGED <<server, shells, file, bounds, history>>

ReadFile(p) ==
  /\ run[p].pc = "write" /\ run[p].todo # <<>>
  /\ NextOp(p).at = "file"
  /\ run' = [run EXCEPT ![p].pc = "save", ![p].data = file]
  /\ UNCHANGED <<server, store, bounds, history>>

\* A value is then set in an empty file, and a deletion gives up.
ReadTornFile(p) ==
  /\ run[p].pc = "write" /\ run[p].todo # <<>>
  /\ NextOp(p).at = "file"
  /\ Torn(p)
  /\ run' = [run EXCEPT ![p] =
       IF NextOp(p).value = None
       THEN [run[p] EXCEPT !.todo = Tail(@)]
       ELSE [run[p] EXCEPT !.pc = "save", !.data = Empty]]
  /\ UNCHANGED <<server, store, bounds, history>>

SaveFile(p) ==
  /\ run[p].pc = "save"
  /\ file' = [run[p].data EXCEPT ![NextOp(p).field] = NextOp(p).value]
  /\ run' = [run EXCEPT ![p].pc = "write", ![p].todo = Tail(@),
                        ![p].data = Empty]
  /\ UNCHANGED <<server, shells, keyring, bounds, history>>

\* A logout says "Session revoked on server and all local credentials cleared".
End(p) ==
  /\ run[p].pc = "write" /\ run[p].todo = <<>>
  /\ run' = [run EXCEPT ![p] = Idle]
  /\ IF run[p].kind = "logout"
     THEN /\ out' = (p \in alone)
          /\ revoked' = IF run[p].sess = None THEN revoked
                                              ELSE revoked \cup {run[p].sess}
     ELSE UNCHANGED <<out, revoked>>
  /\ alone' = alone \ {p}
  /\ UNCHANGED <<server, store, bounds>>

\* A command is interrupted, or its answer does not arrive.
Interrupt(p) ==
  /\ run[p].kind # "idle" /\ lost + cuts < MaxFaults
  /\ cuts' = cuts + 1
  /\ run' = [run EXCEPT ![p] = Idle]
  /\ alone' = alone \ {p}
  /\ UNCHANGED <<server, store, lost, out, revoked>>

Init ==
  /\ shells \in Machines
  /\ account = FALSE
  /\ issued = 0 /\ live = {} /\ keys = <<>> /\ minted = 0
  /\ scan = [r \in Requests |-> {}]
  /\ keyring = Empty /\ file = Empty
  /\ run = [p \in Commands |-> Idle]
  /\ lost = 0 /\ cuts = 0
  /\ alone = {} /\ out = FALSE /\ revoked = {}

Command(p) ==
  \/ BeginRegister(p) \/ CreateAccount(p) \/ BeginLogin(p)
  \/ IssueSession(p) \/ MintKey(p) \/ Refused(p)
  \/ BeginRefresh(p) \/ Refresh(p)
  \/ BeginLogout(p) \/ Revoke(p)
  \/ WriteKeyring(p) \/ ReadFile(p) \/ ReadTornFile(p) \/ SaveFile(p)
  \/ End(p) \/ Interrupt(p)

Next ==
  \/ \E p \in Commands : Command(p)
  \/ \E r \in Requests : BeginRevokeAll(r) \/ RevokePage(r) \/ EndRevokeAll(r)
  \/ RotateKey

Spec == Init /\ [][Next]_vars

----------------------------------------------------------------------------
(* Properties *)

\* The type of every variable.
TypeOK ==
  /\ account \in BOOLEAN
  /\ issued \in 0..MaxSessions /\ live \subseteq 1..issued
  /\ minted \in 0..MaxKeys /\ keys \in Seq(1..minted)
  /\ scan \in [Requests -> SUBSET Sessions]
  /\ keyring \in [Fields -> Nat] /\ file \in [Fields -> Nat]
  /\ lost \in Nat /\ cuts \in Nat /\ lost + cuts <= MaxFaults
  /\ out \in BOOLEAN /\ alone \subseteq Commands
  /\ revoked \subseteq 1..issued
  /\ \A p \in Commands : run[p].kind # "idle" => run[p].up \in shells

\* "Session revoked on server" (commands.py:815) and "All sessions revoked"
\* (auth.py:354): a session reported as revoked gives no more access tokens,
\* whatever logins and refreshes ran meanwhile, unless the request was lost.
SessionRevoked == lost = 0 => revoked \cap live = {}

\* "all local credentials cleared" (commands.py:815): on a machine with a
\* keyring, after a logout no command finds a session in the store, even if a
\* refresh was under way, until someone logs in again.
LoggedOutStaysOut == shells = {TRUE} /\ out => ~Loads(TRUE)
============================================================================
