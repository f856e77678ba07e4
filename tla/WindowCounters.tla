--------------------------- MODULE WindowCounters ---------------------------
(***************************************************************************)
(* The counters the server keeps in Redis for a window of time and lets    *)
(* Redis forget: the login and registration limiters of                    *)
(* server/app/blueprints/auth.py and the instruction quota of              *)
(* server/app/utils/quota.py.  Both count with one command and set the TTL *)
(* with another; a limiter sets it when it has counted to one, the quota   *)
(* when it finds that there is none.                                       *)
(*                                                                         *)
(* Time passes in ticks.  A thread may be delayed for any number of them.  *)
(***************************************************************************)
EXTENDS Integers

CONSTANTS
  Limiters,    \* ratelimit:{endpoint}:{ip}
  Budgets,     \* quota:{api_key}:instructions_used
  Threads,
  NoCounter,
  Window,      \* the TTL, in ticks
  MaxAttempts, \* _RATE_LIMIT_MAX_ATTEMPTS
  Limit, Cost, \* the quota, and what one task reports against it
  MaxCount,    \* bound: attempts in one window
  MaxOwed,     \* bound: tasks started and not yet reported
  MaxCrashes   \* bound: threads that die on the way

Counters == Limiters \cup Budgets

ASSUME WindowCountersAssumption ==
  /\ Limiters \cap Budgets = {} /\ NoCounter \notin Counters
  /\ Window \in Nat \ {0} /\ MaxAttempts \in Nat /\ MaxCount \in Nat
  /\ Limit \in Nat /\ Cost \in Nat
  /\ MaxOwed \in Nat /\ MaxCrashes \in Nat

\* What TTL answers for a key that does not exist, or has no expiry.
Absent == -2
Forever == -1

VARIABLES
  count,    \* the value of each counter; 0 when it is absent
  ttl,
  pc, at,   \* what each thread does next, and to which counter
  owed,     \* tasks of each API key that will still report their usage
  crashes,
  recent    \* history: what each counter let in over the last 1, 2, ... ticks,
            \* this one included

counterVars == <<count, ttl, pc, at, owed, crashes, recent>>

Span == 1..Window
Spent(k) == recent[k][Window]

\* INCRBY: a counter it creates has no expiry.
Increment(k, by) ==
  /\ count' = [count EXCEPT ![k] = @ + by]
  /\ ttl' = [ttl EXCEPT ![k] = IF @ = Absent THEN Forever ELSE @]

LetIn(k, amount) ==
  recent' = [recent EXCEPT ![k] = [i \in Span |-> @[i] + amount]]

Proceed(p, k, next) ==
  /\ pc' = [pc EXCEPT ![p] = next]
  /\ at' = [at EXCEPT ![p] = IF next = "idle" THEN NoCounter ELSE k]

----------------------------------------------------------------------------
(* _check_rate_limit *)

\* Faulty: lets one attempt too many in.
AttemptOneMore(p, k) ==
  /\ pc[p] = "idle" /\ k \in Limiters /\ count[k] < MaxCount
  /\ Increment(k, 1)
  /\ LetIn(k, IF count[k] <= MaxAttempts THEN 1 ELSE 0)
  /\ Proceed(p, k, IF count'[k] = 1 THEN "expire" ELSE "idle")
  /\ UNCHANGED <<owed, crashes>>

\* Faulty: sets the TTL when the limit is reached.
AttemptLateTtl(p, k) ==
  /\ pc[p] = "idle" /\ k \in Limiters /\ count[k] < MaxCount
  /\ Increment(k, 1)
  /\ LetIn(k, IF count'[k] <= MaxAttempts THEN 1 ELSE 0)
  /\ Proceed(p, k, IF count'[k] = MaxAttempts THEN "expire" ELSE "idle")
  /\ UNCHANGED <<owed, crashes>>

Attempt(p, k) ==
  /\ pc[p] = "idle" /\ k \in Limiters /\ count[k] < MaxCount
  /\ Increment(k, 1)
  /\ LetIn(k, IF count'[k] <= MaxAttempts THEN 1 ELSE 0)
  /\ Proceed(p, k, IF count'[k] = 1 THEN "expire" ELSE "idle")
  /\ UNCHANGED <<owed, crashes>>

----------------------------------------------------------------------------
(* check_quota, when a job is started, and record_usage, when it reports *)

UnderQuota(k) == count[k] < Limit

StartTask(k) ==
  /\ k \in Budgets /\ owed[k] < MaxOwed
  /\ UnderQuota(k)
  /\ owed' = [owed EXCEPT ![k] = @ + 1]
  /\ UNCHANGED <<count, ttl, pc, at, crashes, recent>>

RecordUsage(p, k) ==
  /\ pc[p] = "idle" /\ k \in Budgets /\ owed[k] > 0
  /\ owed' = [owed EXCEPT ![k] = @ - 1]
  /\ Increment(k, Cost)
  /\ LetIn(k, Cost)
  /\ Proceed(p, k, "ttl")
  /\ UNCHANGED crashes

ReadTtl(p) ==
  /\ pc[p] = "ttl"
  /\ Proceed(p, at[p], IF ttl[at[p]] < 0 THEN "expire" ELSE "idle")
  /\ UNCHANGED <<count, ttl, owed, crashes, recent>>

----------------------------------------------------------------------------

\* EXPIRE does nothing to a key that is gone.
SetExpiry(p) ==
  /\ pc[p] = "expire"
  /\ ttl' = [ttl EXCEPT ![at[p]] = IF @ = Absent THEN Absent ELSE Window]
  /\ Proceed(p, at[p], "idle")
  /\ UNCHANGED <<count, owed, crashes, recent>>

Ends(k) == ttl[k] = 1

Tick ==
  /\ count' = [k \in Counters |-> IF Ends(k) THEN 0 ELSE count[k]]
  /\ ttl' = [k \in Counters |-> CASE Ends(k) -> Absent
                                  [] ttl[k] > 1 -> ttl[k] - 1
                                  [] OTHER -> ttl[k]]
  /\ recent' = [k \in Counters |->
                  [i \in Span |-> IF i = 1 THEN 0 ELSE recent[k][i - 1]]]
  /\ UNCHANGED <<pc, at, owed, crashes>>

\* The connection fails, or the server dies, between two commands.
Crash(p) ==
  /\ pc[p] # "idle" /\ crashes < MaxCrashes
  /\ crashes' = crashes + 1
  /\ Proceed(p, at[p], "idle")
  /\ UNCHANGED <<count, ttl, owed, recent>>

CountersInit ==
  /\ count = [k \in Counters |-> 0]
  /\ ttl = [k \in Counters |-> Absent]
  /\ pc = [p \in Threads |-> "idle"]
  /\ at = [p \in Threads |-> NoCounter]
  /\ owed = [k \in Counters |-> 0]
  /\ crashes = 0
  /\ recent = [k \in Counters |-> [i \in Span |-> 0]]

CountersNext ==
  \/ \E p \in Threads, k \in Counters : Attempt(p, k) \/ RecordUsage(p, k)
  \/ \E k \in Counters : StartTask(k)
  \/ \E p \in Threads : ReadTtl(p) \/ SetExpiry(p) \/ Crash(p)
  \/ Tick

CountersSpec == CountersInit /\ [][CountersNext]_counterVars

\* Time passes, and a request that has begun goes on.
CountersFairSpec ==
  /\ CountersSpec
  /\ WF_counterVars(Tick)
  /\ \A p \in Threads : WF_counterVars(ReadTtl(p) \/ SetExpiry(p))

----------------------------------------------------------------------------
(* Properties *)

\* The type of every variable.
CountersTypeOK ==
  /\ count \in [Counters -> Nat]
  /\ ttl \in [Counters -> {Absent, Forever} \cup Span]
  /\ pc \in [Threads -> {"idle", "ttl", "expire"}]
  /\ at \in [Threads -> Counters \cup {NoCounter}]
  /\ \A p \in Threads : pc[p] = "idle" <=> at[p] = NoCounter
  /\ owed \in [Counters -> 0..MaxOwed]
  /\ crashes \in 0..MaxCrashes
  /\ recent \in [Counters -> [Span -> Nat]]

\* "max attempts per window" (auth.py:47): the window is fixed, not sliding,
\* so any span of its length lets in at most twice that, however requests and
\* expiry interleave.
BurstsAreBounded == \A k \in Limiters : Spent(k) <= 2 * MaxAttempts

\* "Please wait 60 seconds." (auth.py:251) and "so the window automatically
\* resets" (quota.py:46-47): every counter is forgotten in the end, and its
\* callers let in again, unless a thread died.
WindowsReset ==
  \A k \in Counters : count[k] > 0 ~> count[k] = 0 \/ crashes > 0
============================================================================
