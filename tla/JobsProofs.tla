----------------------------- MODULE JobsProofs -----------------------------
(***************************************************************************)
(* A job end to end, for any number of shards, any retention window and    *)
(* any lifetime of rows.                                                   *)
(*                                                                         *)
(* Rows appear in the order of the shards and a node works on a row only   *)
(* once (RowsOK, NodesOK), so that a task which was settled stays settled. *)
(* A result may be taken from a task that is Condemned: its row has        *)
(* reached the end of its life or it was finished for longer than the      *)
(* window.  The script is only ever about to remove the result of such a   *)
(* task (FilesOK), and a caller whose poll has seen the job finished       *)
(* reads results of settled tasks (FutureOK), whose rows were all there    *)
(* when the job's own row was: those of a task that is neither condemned   *)
(* nor gone are on disk.                                                   *)
(***************************************************************************)
EXTENDS Jobs, WellFoundedInduction, TLAPS

USE JobsAssumption

Contents == {None, "plain", "cipher", "value"}

Purges == [pc : {"idle", "look", "unlink", "rmdir"}, old : SUBSET Shards,
           kind : Kinds \cup {None}, todo : SUBSET Shards, t : {0} \cup Shards]

PurgeOK ==
  /\ purge \in Purges
  /\ purge.pc \in {"look", "unlink"} => purge.kind \in Kinds
  /\ purge.pc = "unlink" => purge.t \in Shards

\* The request has made the row of shard t.
Come(t) == start.pc # "idle" /\ (t < start.t \/ (t = start.t /\ start.pc = "done"))

RowsOK == \A t \in Shards :
  /\ status[t] # None <=> Come(t)
  /\ status[t] = None => life[t] = 0 /\ age[t] = 0
  /\ life[t] <= life[Job]
  /\ status[t] = "gone" => life[t] = Lifetime
  /\ age[t] > 0 => status[t] \in Finished \/ life[t] = Lifetime

NodesOK == \A t \in Shards :
  /\ node[t] # "idle" => status[t] # None
  /\ node[t] \in {"ran", "fail"} \cup Finished => status[t] \notin Finished
  /\ node[t] = "cleanup" => status[t] \in Finished \cup {"gone"}

\* Taking the result of t deprives nobody of it.
Condemned(t) == life[t] = Lifetime \/ age[t] > Retention

PayloadOK(t) == t \in hit \/ disk["tasks"][t] = "cipher"

FilesOK ==
  /\ \A t \in Shards : status[t] \in {"queued", "running"} => PayloadOK(t)
  /\ start.pc = "row" => PayloadOK(start.t)
  /\ purge.pc = "unlink" => purge.t \in hit \/ status[purge.t] \in Finished \cup {"gone"}
  /\ purge.pc = "unlink" /\ purge.kind = "results" => Condemned(purge.t)
  /\ \A t \in purge.old : Condemned(t)
  /\ \A t \in Shards :
       /\ disk["results"][t] # None => status[t] # None
       /\ (status[t] = "completed" \/ node[t] = "completed") /\ ~Condemned(t)
            => disk["results"][t] = "value"

Settled(t) ==
  /\ node[t] \in {"idle", "cleanup"}
  /\ status[t] = "gone" \/ (status[t] \in Finished /\ life[t] < Lifetime)

FutureOK ==
  /\ future.sees \in Finished \/ future.holds = "empty" => \A t \in Shards : Settled(t)
  /\ ValuesAreComputed

IInv == TypeOK /\ PurgeOK /\ RowsOK /\ NodesOK /\ FilesOK /\ FutureOK

----------------------------------------------------------------------------
(* The rows, the clock and the first of several shards *)

LEMMA Constants ==
  /\ NumShards \in Nat /\ NumShards >= 1 /\ Retention \in Nat /\ Lifetime \in Nat
  /\ Lifetime > 0 /\ Shards = 1..NumShards /\ Shards \subseteq Nat /\ Job = 0
  /\ Job \notin Shards
  BY DEF JobsAssumption, Shards, Job

\* Older never goes back, and stops at its cap.
LEMMA OlderFacts ==
  ASSUME NEW cap \in Nat, NEW n \in 0..cap
  PROVE  /\ Older(n, cap) \in 0..cap /\ n <= Older(n, cap)
         /\ n = cap => Older(n, cap) = cap
         /\ \A m \in 0..cap : m <= n => Older(m, cap) <= Older(n, cap)
  BY DEF Older

\* The smallest of the shards that are left.
LEMMA FirstShard ==
  ASSUME NEW S \in SUBSET Shards, S # {}
  PROVE  \E t \in S : \A u \in S : t <= u
<1> DEFINE less == OpToRel(<, Nat)
<1>1. IsWellFoundedOn(less, Nat)
  BY NatLessThanWellFounded
<1>2. S \subseteq Nat
  BY Constants
<1>3. PICK t \in S : \A u \in S : <<u, t>> \notin less
  BY <1>1, <1>2, WFMin
<1>4. \A u \in S : ~(u < t)
  BY <1>2, <1>3 DEF OpToRel
<1> QED
  BY <1>2, <1>4

\* What the two blob directories hold, before a file is written or removed.
LEMMA DiskType ==
  ASSUME IInv
  PROVE  disk \in [Kinds -> [Shards -> Contents]]
  BY DEF IInv, TypeOK, Contents

----------------------------------------------------------------------------
(* The request *)

LEMMA BeginInv ==
  ASSUME IInv, Begin
  PROVE  IInv'
<1> USE Constants
<1>1. /\ start.pc = "idle" /\ dirs' = dirs \cup {"tasks"}
      /\ start' = [pc |-> "plain", t |-> 1]
      /\ UNCHANGED <<status, age, life, disk, node, purge, future, hit>>
  BY DEF Begin, rows
<1>2. start'.pc = "plain" /\ start'.t = 1
  BY <1>1
<1>3. TypeOK'
  <2>1. TypeOK /\ dirs' \subseteq Kinds
    BY <1>1 DEF IInv, TypeOK, Kinds
  <2>2. start' \in [pc : {"idle", "plain", "cipher", "row", "done", "dead"}, t : Shards]
    <3>1. 1 \in Shards
      BY Constants
    <3> QED
      BY <1>1, <3>1
  <2> QED
    BY <1>1, <2>1, <2>2 DEF TypeOK
<1>4. \A t \in Shards : Come(t)' <=> Come(t)
  BY <1>1, <1>2 DEF Come
<1>5. PurgeOK' /\ RowsOK' /\ NodesOK'
  BY <1>1, <1>4 DEF IInv, PurgeOK, RowsOK, NodesOK
<1>6. FilesOK'
  BY <1>1, <1>2 DEF IInv, FilesOK, PayloadOK, Condemned
<1>7. FutureOK'
  BY <1>1 DEF IInv, FutureOK, Settled, ValuesAreComputed
<1> QED
  BY <1>3, <1>5, <1>6, <1>7 DEF IInv

\* The caller's future gets an error, and nothing else changes but the request.
LEMMA RefusedInv ==
  ASSUME IInv, Refused, start.pc \in {"plain", "cipher", "row"},
         UNCHANGED <<status, age, life, disk, dirs, node, purge, hit>>
  PROVE  IInv'
<1> USE Constants
<1>1. /\ start' = [start EXCEPT !.pc = "dead"]
      /\ future' = [future EXCEPT !.holds = "error"]
  BY DEF Refused
<1>2. /\ start'.pc = "dead" /\ start'.t = start.t
      /\ future'.holds = "error" /\ future'.sees = future.sees
  BY <1>1 DEF IInv, TypeOK
<1>3. TypeOK'
  BY <1>1 DEF IInv, TypeOK
<1>4. \A t \in Shards : Come(t)' <=> Come(t)
  BY <1>2 DEF Come
<1>5. PurgeOK' /\ RowsOK' /\ NodesOK'
  BY <1>4 DEF IInv, PurgeOK, RowsOK, NodesOK
<1>6. FilesOK'
  BY <1>2 DEF IInv, FilesOK, PayloadOK, Condemned
<1>7. FutureOK'
  BY <1>2 DEF IInv, FutureOK, Settled, ValuesAreComputed
<1> QED
  BY <1>3, <1>5, <1>6, <1>7 DEF IInv

LEMMA StartDiesInv ==
  ASSUME IInv, StartDies
  PROVE  IInv'
  BY RefusedInv DEF StartDies, rows, files

LEMMA WritePlainInv ==
  ASSUME IInv, WritePlain
  PROVE  IInv'
<1> USE Constants
<1>1. CASE Refused /\ UNCHANGED files
  BY <1>1, RefusedInv DEF WritePlain, rows, files
<1>2. CASE /\ Write("tasks", start.t, "plain")
           /\ start' = [start EXCEPT !.pc = "cipher"] /\ UNCHANGED future
  <2> PICK u : u = start.t
    OBVIOUS
  <2>1. /\ disk' = [disk EXCEPT !["tasks"][u] = "plain"] /\ dirs' = dirs \cup {"tasks"}
        /\ start' = [start EXCEPT !.pc = "cipher"] /\ start.pc = "plain"
        /\ UNCHANGED <<status, age, life, node, purge, future, hit>>
    BY <1>2 DEF WritePlain, Write, rows
  <2>2. start'.pc = "cipher" /\ start'.t = start.t /\ u \in Shards
    BY <2>1 DEF IInv, TypeOK
  <2>3. /\ disk' \in [Kinds -> [Shards -> Contents]]
        /\ \A t \in Shards : disk'["tasks"][t] = IF t = u THEN "plain" ELSE disk["tasks"][t]
        /\ disk'["results"] = disk["results"]
    <3>1. "tasks" \in Kinds /\ "results" \in Kinds \ {"tasks"} /\ "plain" \in Contents
      BY DEF Kinds, Contents
    <3>2. disk \in [Kinds -> [Shards -> Contents]]
      BY DiskType
    <3>3. /\ disk' \in [Kinds -> [Shards -> Contents]]
          /\ \A t \in Shards : disk'["tasks"][t] = IF t = u THEN "plain" ELSE disk["tasks"][t]
          /\ \A l \in Kinds \ {"tasks"} : disk'[l] = disk[l]
      BY <2>1, <2>2, <3>1, <3>2
    <3> QED
      BY <3>1, <3>3
  <2>4. TypeOK'
    BY <2>1, <2>2, <2>3 DEF IInv, TypeOK, Kinds, Contents
  <2>5. \A t \in Shards : Come(t)' <=> Come(t)
    BY <2>1, <2>2 DEF Come
  <2>6. status[u] = None
    BY <2>1, <2>2 DEF IInv, RowsOK, Come
  <2>7. PurgeOK' /\ RowsOK' /\ NodesOK'
    BY <2>1, <2>5 DEF IInv, PurgeOK, RowsOK, NodesOK
  <2>8. FilesOK'
    BY <2>1, <2>2, <2>3, <2>6 DEF IInv, FilesOK, PayloadOK, Condemned, None
  <2>9. FutureOK'
    BY <2>1 DEF IInv, FutureOK, Settled, ValuesAreComputed
  <2> QED
    BY <2>4, <2>7, <2>8, <2>9 DEF IInv
<1> QED
  BY <1>1, <1>2 DEF WritePlain

LEMMA WriteCipherInv ==
  ASSUME IInv, WriteCipher
  PROVE  IInv'
<1> USE Constants
<1> PICK u : u = start.t
  OBVIOUS
<1>1. /\ disk' = [disk EXCEPT !["tasks"][u] = "cipher"] /\ dirs' = dirs \cup {"tasks"}
      /\ start' = [start EXCEPT !.pc = "row"] /\ start.pc = "cipher"
      /\ UNCHANGED <<status, age, life, node, purge, future, hit>>
  BY DEF WriteCipher, Write, rows
<1>2. start'.pc = "row" /\ start'.t = start.t /\ u \in Shards
  BY <1>1 DEF IInv, TypeOK
<1>3. /\ disk' \in [Kinds -> [Shards -> Contents]]
      /\ \A t \in Shards : disk'["tasks"][t] = IF t = u THEN "cipher" ELSE disk["tasks"][t]
      /\ disk'["results"] = disk["results"]
  <2>1. "tasks" \in Kinds /\ "results" \in Kinds \ {"tasks"} /\ "cipher" \in Contents
    BY DEF Kinds, Contents
  <2>2. disk \in [Kinds -> [Shards -> Contents]]
    BY DiskType
  <2>3. /\ disk' \in [Kinds -> [Shards -> Contents]]
        /\ \A t \in Shards : disk'["tasks"][t] = IF t = u THEN "cipher" ELSE disk["tasks"][t]
        /\ \A l \in Kinds \ {"tasks"} : disk'[l] = disk[l]
    BY <1>1, <1>2, <2>1, <2>2
  <2> QED
    BY <2>1, <2>3
<1>4. TypeOK'
  BY <1>1, <1>2, <1>3 DEF IInv, TypeOK, Kinds, Contents
<1>5. \A t \in Shards : Come(t)' <=> Come(t)
  BY <1>1, <1>2 DEF Come
<1>6. PurgeOK' /\ RowsOK' /\ NodesOK'
  BY <1>1, <1>5 DEF IInv, PurgeOK, RowsOK, NodesOK
<1>7. FilesOK'
  BY <1>1, <1>2, <1>3 DEF IInv, FilesOK, PayloadOK, Condemned
<1>8. FutureOK'
  BY <1>1 DEF IInv, FutureOK, Settled, ValuesAreComputed
<1> QED
  BY <1>4, <1>6, <1>7, <1>8 DEF IInv

LEMMA CreateRowInv ==
  ASSUME IInv, CreateRow
  PROVE  IInv'
<1> USE Constants
<1> PICK u : u = start.t
  OBVIOUS
<1>1. /\ status' = [status EXCEPT ![u] = "queued"] /\ life' = [life EXCEPT ![u] = 0]
      /\ start.pc = "row" /\ UNCHANGED <<age, disk, node, purge, hit>>
  BY DEF CreateRow, Set
<1>2. u \in Shards /\ u \in Nat /\ u <= NumShards
  BY DEF IInv, TypeOK
<1>3. \/ /\ u = NumShards /\ start' = [start EXCEPT !.pc = "done"]
         /\ future' = [future EXCEPT !.holds = "pending"] /\ dirs' = dirs
      \/ /\ u # NumShards /\ start' = [pc |-> "plain", t |-> u + 1]
         /\ dirs' = dirs \cup {"tasks"} /\ future' = future
  BY DEF CreateRow
<1>4. \/ start'.pc = "done" /\ start'.t = u /\ u = NumShards
      \/ start'.pc = "plain" /\ start'.t = u + 1 /\ u # NumShards
  BY <1>2, <1>3 DEF IInv, TypeOK
<1>5. /\ future'.sees = future.sees /\ (future'.holds = future.holds \/ future'.holds = "pending")
      /\ future' \in [holds : {None, "pending", "value", "empty", "error"},
                      sees : {None, "raises"} \cup Finished]
  BY <1>3 DEF IInv, TypeOK
<1>6. start' \in [pc : {"idle", "plain", "cipher", "row", "done", "dead"}, t : Shards]
      /\ dirs' \subseteq Kinds
  <2>1. u # NumShards => u + 1 \in Shards
    BY <1>2
  <2>2. "tasks" \in Kinds /\ dirs \subseteq Kinds
    BY DEF IInv, TypeOK, Kinds
  <2>3. start \in [pc : {"idle", "plain", "cipher", "row", "done", "dead"}, t : Shards]
    BY DEF IInv, TypeOK
  <2> QED
    BY <1>3, <2>1, <2>2, <2>3
<1>7. /\ status' \in [Shards -> {None, "queued", "running", "gone"} \cup Finished]
      /\ status'[u] = "queued" /\ \A t \in Shards : t # u => status'[t] = status[t]
  BY <1>1, <1>2 DEF IInv, TypeOK
<1>8. /\ life' \in [{Job} \cup Shards -> 0..Lifetime]
      /\ life'[u] = 0 /\ \A t \in {Job} \cup Shards : t # u => life'[t] = life[t]
  BY <1>1, <1>2 DEF IInv, TypeOK
<1>9. TypeOK'
  BY <1>1, <1>5, <1>6, <1>7, <1>8 DEF IInv, TypeOK
<1>10. \A t \in Shards : Come(t)' <=> Come(t) \/ t = u
  BY <1>1, <1>2, <1>4 DEF Come
<1>11. status[u] = None /\ age[u] \in Nat
  BY <1>1, <1>2 DEF IInv, TypeOK, RowsOK, Come
<1>12. life[u] # Lifetime /\ age[u] = 0
  BY <1>2, <1>11 DEF IInv, RowsOK
<1>13. PurgeOK' /\ NodesOK'
  BY <1>1, <1>7, <1>11 DEF IInv, PurgeOK, NodesOK, None, Finished
<1>14. RowsOK'
  BY <1>1, <1>7, <1>8, <1>10, <1>12 DEF IInv, TypeOK, RowsOK, None, Finished
<1>15. \A t \in Shards : Condemned(t)' <=> Condemned(t)
  BY <1>1, <1>8, <1>12 DEF Condemned
<1>16. start'.pc # "row" /\ ~Condemned(u)
  BY <1>4, <1>12 DEF Condemned
<1>17. FilesOK'
  BY <1>1, <1>7, <1>11, <1>15, <1>16 DEF IInv, FilesOK, PayloadOK, PurgeOK, Purges, None, Finished
<1>18. future.sees \notin Finished /\ future.holds # "empty"
  BY <1>2, <1>11 DEF IInv, FutureOK, Settled, None, Finished
<1>19. FutureOK'
  BY <1>5, <1>18 DEF FutureOK, ValuesAreComputed
<1> QED
  BY <1>9, <1>13, <1>14, <1>17, <1>19 DEF IInv

----------------------------------------------------------------------------
(* The nodes *)

\* A step of the node that runs t, which may write or remove a file.
LEMMA NodeFacts ==
  ASSUME IInv, NEW t \in Shards, NEW n \in {"idle", "ran", "fail", "cleanup"} \cup Finished,
         node' = Set(node, t, n)
  PROVE  /\ node' \in [Shards -> {"idle", "ran", "fail", "cleanup"} \cup Finished]
         /\ node'[t] = n /\ \A u \in Shards : u # t => node'[u] = node[u]
  BY DEF IInv, TypeOK, Set

LEMMA FetchInv ==
  ASSUME IInv, NEW t \in Shards, Fetch(t)
  PROVE  IInv'
<1> USE Constants
<1>1. /\ status[t] = "queued" /\ node[t] = "idle"
      /\ UNCHANGED <<age, life, disk, dirs, start, purge, future, hit>>
  BY DEF Fetch, files
<1>2. \/ node' = Set(node, t, "fail") /\ status' = status
      \/ node' = Set(node, t, "ran") /\ status' = Set(status, t, "running")
  BY DEF Fetch
<1>3. PICK n \in {"ran", "fail"} : node' = Set(node, t, n)
  BY <1>2
<1>4. /\ node' \in [Shards -> {"idle", "ran", "fail", "cleanup"} \cup Finished]
      /\ node'[t] \in {"ran", "fail"} /\ \A u \in Shards : u # t => node'[u] = node[u]
  BY <1>3, NodeFacts
<1>5. /\ status' \in [Shards -> {None, "queued", "running", "gone"} \cup Finished]
      /\ status'[t] \in {"queued", "running"}
      /\ \A u \in Shards : u # t => status'[u] = status[u]
  <2>1. status \in [Shards -> {None, "queued", "running", "gone"} \cup Finished]
    BY DEF IInv, TypeOK
  <2>2. CASE status' = status
    BY <1>1, <2>1, <2>2
  <2>3. CASE status' = Set(status, t, "running")
    BY <2>1, <2>3 DEF Set
  <2> QED
    BY <1>2, <2>2, <2>3
<1>6. TypeOK'
  BY <1>1, <1>4, <1>5 DEF IInv, TypeOK
<1>7. \A u \in Shards : /\ Come(u)' <=> Come(u)
                        /\ Condemned(u)' <=> Condemned(u)
                        /\ PayloadOK(u)' <=> PayloadOK(u)
  BY <1>1 DEF Come, Condemned, PayloadOK
<1>8. PurgeOK' /\ NodesOK'
  BY <1>1, <1>4, <1>5 DEF IInv, PurgeOK, NodesOK, None, Finished
<1>9. RowsOK'
  BY <1>1, <1>5, <1>7 DEF IInv, RowsOK, None, Finished
<1>10. FilesOK'
  <2>1. purge.pc = "unlink" => purge.t \in Shards
    BY DEF IInv, PurgeOK
  <2>2. start.pc = "row" => start.t \in Shards
    BY DEF IInv, TypeOK
  <2>3. \A u \in purge.old : u \in Shards
    BY DEF IInv, PurgeOK, Purges
  <2> QED
    BY <1>1, <1>4, <1>5, <1>7, <2>1, <2>2, <2>3 DEF IInv, FilesOK, None, Finished
<1>11. FutureOK'
  <2>1. ~Settled(t)
    BY <1>1 DEF Settled, Finished
  <2> QED
    BY <1>1, <2>1 DEF IInv, FutureOK, ValuesAreComputed
<1> QED
  BY <1>6, <1>8, <1>9, <1>10, <1>11 DEF IInv

\* A node that is at work on t is why t is not settled.
LEMMA AtWork ==
  ASSUME IInv, NEW t \in Shards, node[t] \in {"ran", "fail"} \cup Finished
  PROVE  future.sees \notin Finished /\ future.holds # "empty"
  BY DEF IInv, FutureOK, Settled, Finished

LEMMA ReportInv ==
  ASSUME IInv, NEW t \in Shards, Report(t)
  PROVE  IInv'
<1> USE Constants
<1>1. /\ node[t] \in {"ran", "fail"}
      /\ UNCHANGED <<status, age, life, start, purge, future, hit>>
  BY DEF Report, rows
<1>2. \/ /\ status[t] \in {"queued", "running"} /\ disk' = [disk EXCEPT !["results"][t] = "value"]
         /\ dirs' = dirs \cup {"results"} /\ node' = Set(node, t, "completed")
      \/ node' = Set(node, t, "failed") /\ UNCHANGED <<disk, dirs>>
      \/ node' = Set(node, t, "idle") /\ UNCHANGED <<disk, dirs>>
  BY DEF Report, Write, files
<1>3. PICK n \in {"idle"} \cup Finished : node' = Set(node, t, n)
  BY <1>2 DEF Finished
<1>4. /\ node' \in [Shards -> {"idle", "ran", "fail", "cleanup"} \cup Finished]
      /\ node'[t] = n /\ \A u \in Shards : u # t => node'[u] = node[u]
  BY <1>3, NodeFacts
<1>5. /\ disk' \in [Kinds -> [Shards -> Contents]] /\ dirs' \subseteq Kinds
      /\ disk'["tasks"] = disk["tasks"]
      /\ \A u \in Shards : u # t => disk'["results"][u] = disk["results"][u]
      /\ disk'["results"][t] = disk["results"][t] \/ disk'["results"][t] = "value"
      /\ n = "completed" => disk'["results"][t] = "value"
  <2>1. /\ "results" \in Kinds /\ "tasks" \in Kinds \ {"results"} /\ "value" \in Contents
        /\ disk \in [Kinds -> [Shards -> Contents]] /\ dirs \subseteq Kinds
    BY DEF Kinds, Contents, IInv, TypeOK
  <2>2. CASE disk' = [disk EXCEPT !["results"][t] = "value"] /\ dirs' = dirs \cup {"results"}
    <3>1. /\ disk' \in [Kinds -> [Shards -> Contents]]
          /\ \A u \in Shards :
               disk'["results"][u] = IF u = t THEN "value" ELSE disk["results"][u]
          /\ \A l \in Kinds \ {"results"} : disk'[l] = disk[l]
      BY <2>1, <2>2
    <3> QED
      BY <2>1, <2>2, <3>1
  <2>3. CASE UNCHANGED <<disk, dirs>> /\ n # "completed"
    BY <2>1, <2>3
  <2>4. node' = Set(node, t, "failed") \/ node' = Set(node, t, "idle") => n # "completed"
    BY <1>3, <1>4, NodeFacts DEF Finished
  <2> QED
    BY <1>2, <2>2, <2>3, <2>4
<1>6. TypeOK'
  BY <1>1, <1>4, <1>5 DEF IInv, TypeOK, Contents
<1>7. \A u \in Shards : /\ Come(u)' <=> Come(u)
                        /\ Condemned(u)' <=> Condemned(u)
                        /\ PayloadOK(u)' <=> PayloadOK(u)
  BY <1>1, <1>5 DEF Come, Condemned, PayloadOK
<1>8. status[t] # None /\ status[t] \notin Finished
  BY <1>1 DEF IInv, NodesOK
<1>9. PurgeOK' /\ RowsOK'
  BY <1>1, <1>7 DEF IInv, PurgeOK, RowsOK
<1>10. NodesOK'
  BY <1>1, <1>4, <1>8 DEF IInv, NodesOK, Finished
<1>11. FilesOK'
  <2>1. purge.pc = "unlink" => purge.t \in Shards
    BY DEF IInv, PurgeOK
  <2>2. start.pc = "row" => start.t \in Shards
    BY DEF IInv, TypeOK
  <2>3. \A u \in purge.old : u \in Shards
    BY DEF IInv, PurgeOK, Purges
  <2> QED
    BY <1>1, <1>4, <1>5, <1>7, <1>8, <2>1, <2>2, <2>3 DEF IInv, FilesOK, None, Finished
<1>12. FutureOK'
  BY <1>1, AtWork DEF FutureOK, ValuesAreComputed
<1> QED
  BY <1>6, <1>9, <1>10, <1>11, <1>12 DEF IInv

LEMMA SettleInv ==
  ASSUME IInv, NEW t \in Shards, Settle(t)
  PROVE  IInv'
<1> USE Constants
<1>1. /\ node[t] \in Finished /\ status' = [status EXCEPT ![t] = node[t]]
      /\ age' = [age EXCEPT ![t] = 0] /\ node' = Set(node, t, "cleanup")
      /\ UNCHANGED <<life, disk, dirs, start, purge, future, hit>>
  BY DEF Settle, files, Set
<1>2. /\ node' \in [Shards -> {"idle", "ran", "fail", "cleanup"} \cup Finished]
      /\ node'[t] = "cleanup" /\ \A u \in Shards : u # t => node'[u] = node[u]
  BY <1>1, NodeFacts
<1>3. /\ status' \in [Shards -> {None, "queued", "running", "gone"} \cup Finished]
      /\ status'[t] = node[t] /\ \A u \in Shards : u # t => status'[u] = status[u]
  BY <1>1 DEF IInv, TypeOK
<1>4. /\ age' \in [Shards -> 0..Retention + 1]
      /\ age'[t] = 0 /\ \A u \in Shards : u # t => age'[u] = age[u]
  BY <1>1 DEF IInv, TypeOK
<1>5. TypeOK'
  BY <1>1, <1>2, <1>3, <1>4 DEF IInv, TypeOK
<1>6. status[t] # None /\ status[t] \notin Finished
  BY <1>1 DEF IInv, NodesOK, Finished
<1>7. \A u \in Shards : /\ Come(u)' <=> Come(u)
                        /\ PayloadOK(u)' <=> PayloadOK(u)
  BY <1>1 DEF Come, PayloadOK
<1>8. age[t] \in Nat /\ (Condemned(t) => life[t] = Lifetime)
  BY <1>6 DEF IInv, TypeOK, RowsOK, Condemned
<1>9. \A u \in Shards : Condemned(u)' <=> Condemned(u)
  BY <1>1, <1>4, <1>8 DEF Condemned
<1>10. PurgeOK' /\ NodesOK'
  BY <1>1, <1>2, <1>3, <1>6 DEF IInv, PurgeOK, NodesOK, None, Finished
<1>11. RowsOK'
  BY <1>1, <1>3, <1>4, <1>6, <1>7 DEF IInv, RowsOK, None, Finished
<1>12. FilesOK'
  <2>1. purge.pc = "unlink" => purge.t \in Shards
    BY DEF IInv, PurgeOK
  <2>2. start.pc = "row" => start.t \in Shards
    BY DEF IInv, TypeOK
  <2>3. \A u \in purge.old : u \in Shards
    BY DEF IInv, PurgeOK, Purges
  <2> QED
    BY <1>1, <1>2, <1>3, <1>6, <1>7, <1>9, <2>1, <2>2, <2>3 DEF IInv, FilesOK, None, Finished
<1>13. FutureOK'
  BY <1>1, AtWork DEF FutureOK, ValuesAreComputed
<1> QED
  BY <1>5, <1>10, <1>11, <1>12, <1>13 DEF IInv

LEMMA CleanUpInv ==
  ASSUME IInv, NEW t \in Shards, CleanUp(t)
  PROVE  IInv'
<1> USE Constants
<1>1. /\ node[t] = "cleanup" /\ node' = Set(node, t, "idle")
      /\ disk' = [disk EXCEPT !["tasks"][t] = None]
      /\ UNCHANGED <<status, age, life, dirs, start, purge, future, hit>>
  BY DEF CleanUp, Remove, rows
<1>2. /\ node' \in [Shards -> {"idle", "ran", "fail", "cleanup"} \cup Finished]
      /\ node'[t] = "idle" /\ \A u \in Shards : u # t => node'[u] = node[u]
  BY <1>1, NodeFacts
<1>3. /\ disk' \in [Kinds -> [Shards -> Contents]]
      /\ \A u \in Shards : disk'["tasks"][u] = IF u = t THEN None ELSE disk["tasks"][u]
      /\ disk'["results"] = disk["results"]
  <2>1. "tasks" \in Kinds /\ "results" \in Kinds \ {"tasks"} /\ None \in Contents
    BY DEF Kinds, Contents
  <2>2. disk \in [Kinds -> [Shards -> Contents]]
    BY DiskType
  <2>3. /\ disk' \in [Kinds -> [Shards -> Contents]]
        /\ \A u \in Shards : disk'["tasks"][u] = IF u = t THEN None ELSE disk["tasks"][u]
        /\ \A l \in Kinds \ {"tasks"} : disk'[l] = disk[l]
    BY <1>1, <2>1, <2>2
  <2> QED
    BY <2>1, <2>3
<1>4. status[t] \in Finished \cup {"gone"}
  BY <1>1 DEF IInv, NodesOK
<1>5. TypeOK'
  BY <1>1, <1>2, <1>3 DEF IInv, TypeOK, Contents
<1>6. \A u \in Shards : /\ Come(u)' <=> Come(u)
                        /\ Condemned(u)' <=> Condemned(u)
                        /\ PayloadOK(u) /\ u # t => PayloadOK(u)'
  BY <1>1, <1>3 DEF Come, Condemned, PayloadOK
<1>7. start.pc = "row" => start.t \in Shards /\ start.t # t
  BY <1>4 DEF IInv, TypeOK, RowsOK, Come, None, Finished
<1>8. PurgeOK' /\ NodesOK'
  BY <1>1, <1>2, <1>4 DEF IInv, PurgeOK, NodesOK, None, Finished
<1>9. RowsOK'
  BY <1>1, <1>6 DEF IInv, RowsOK
<1>10. FilesOK'
  <2>1. purge.pc = "unlink" => purge.t \in Shards
    BY DEF IInv, PurgeOK
  <2>3. \A u \in purge.old : u \in Shards
    BY DEF IInv, PurgeOK, Purges
  <2> QED
    BY <1>1, <1>2, <1>3, <1>4, <1>6, <1>7, <2>1, <2>3 DEF IInv, FilesOK, None, Finished
<1>11. FutureOK'
  BY <1>1, <1>2 DEF IInv, FutureOK, Settled, ValuesAreComputed
<1> QED
  BY <1>5, <1>8, <1>9, <1>10, <1>11 DEF IInv

----------------------------------------------------------------------------
(* The script *)

LEMMA AsleepFacts == Asleep \in Purges /\ Asleep.pc = "idle" /\ Asleep.old = {}
  BY DEF Asleep, Purges

\* A step of the script that leaves the files alone.
LEMMA ScriptInv ==
  ASSUME IInv, UNCHANGED <<status, age, life, disk, start, node, future>>,
         dirs' \subseteq dirs, hit' \in SUBSET Shards, hit \subseteq hit', PurgeOK',
         purge'.pc = "unlink" =>
           purge'.t \in hit' \/ status[purge'.t] \in Finished \cup {"gone"},
         purge'.pc = "unlink" /\ purge'.kind = "results" => Condemned(purge.t)',
         \A t \in purge'.old : Condemned(t)
  PROVE  IInv'
<1> USE Constants
<1>1. TypeOK'
  BY DEF IInv, TypeOK, PurgeOK, Purges
<1>2. \A u \in Shards : /\ Come(u)' <=> Come(u)
                        /\ Condemned(u)' <=> Condemned(u)
                        /\ PayloadOK(u) => PayloadOK(u)'
  BY DEF Come, Condemned, PayloadOK
<1>3. RowsOK' /\ NodesOK'
  BY <1>2 DEF IInv, RowsOK, NodesOK
<1>4. FilesOK'
  <2>1. \A u \in purge'.old : u \in Shards
    BY DEF PurgeOK, Purges
  <2>2. start.pc = "row" => start.t \in Shards
    BY DEF IInv, TypeOK
  <2> QED
    BY <1>2, <2>1, <2>2 DEF IInv, FilesOK
<1>5. FutureOK'
  BY DEF IInv, FutureOK, Settled, ValuesAreComputed
<1> QED
  BY <1>1, <1>3, <1>4, <1>5 DEF IInv

LEMMA BeginPurgeInv ==
  ASSUME IInv, BeginPurge
  PROVE  IInv'
<1> USE Constants
<1>1. /\ UNCHANGED <<status, age, life, disk, dirs, start, node, future, hit>>
      /\ purge' = [pc |-> "look", old |-> {t \in Shards : age[t] > Retention},
                   kind |-> "tasks", todo |-> Present("tasks"), t |-> 0]
  BY DEF BeginPurge, rows, files
<1>2. purge'.pc = "look" /\ purge'.kind = "tasks"
      /\ purge'.old = {t \in Shards : age[t] > Retention}
  BY <1>1
<1>3. purge' \in Purges
  BY <1>1 DEF Purges, Kinds, Present
<1>4. PurgeOK'
  BY <1>2, <1>3 DEF PurgeOK, Kinds
<1>5. \A t \in purge'.old : Condemned(t)
  BY <1>2 DEF Condemned
<1>6. hit' \in SUBSET Shards
  BY <1>1 DEF IInv, TypeOK
<1> QED
  BY <1>1, <1>2, <1>4, <1>5, <1>6, ScriptInv

LEMMA NextKindInv ==
  ASSUME IInv, NextKind
  PROVE  IInv'
<1> USE Constants
<1>1. /\ UNCHANGED <<status, age, life, disk, dirs, start, node, future, hit>>
      /\ purge.pc = "look"
      /\ \/ purge' = [purge EXCEPT !.kind = "results", !.todo = Present("results")]
         \/ purge' = [Asleep EXCEPT !.pc = "rmdir"]
  BY DEF NextKind, rows, files
<1>2. purge \in Purges /\ Present("results") \in SUBSET Shards /\ "results" \in Kinds
  BY DEF IInv, PurgeOK, Present, Kinds
<1>3. /\ purge' \in Purges
      /\ \/ purge'.pc = "look" /\ purge'.kind = "results" /\ purge'.old = purge.old
         \/ purge'.pc = "rmdir" /\ purge'.old = {}
  <2>1. CASE purge' = [purge EXCEPT !.kind = "results", !.todo = Present("results")]
    BY <1>1, <1>2, <2>1 DEF Purges
  <2>2. CASE purge' = [Asleep EXCEPT !.pc = "rmdir"]
    BY <2>2, AsleepFacts DEF Purges
  <2> QED
    BY <1>1, <2>1, <2>2
<1>4. PurgeOK'
  BY <1>2, <1>3 DEF PurgeOK
<1>5. \A t \in purge'.old : Condemned(t)
  BY <1>3 DEF IInv, FilesOK
<1>6. hit' \in SUBSET Shards
  BY <1>1 DEF IInv, TypeOK
<1> QED
  BY <1>1, <1>3, <1>4, <1>5, <1>6, ScriptInv

LEMMA RemoveDirsInv ==
  ASSUME IInv, RemoveDirs
  PROVE  IInv'
<1>1. /\ UNCHANGED <<status, age, life, disk, start, node, future, hit>>
      /\ dirs' \subseteq dirs /\ purge' = Asleep
  BY DEF RemoveDirs, rows
<1>2. PurgeOK' /\ purge'.pc = "idle" /\ purge'.old = {}
  BY <1>1, AsleepFacts DEF PurgeOK
<1>3. hit' \in SUBSET Shards
  BY <1>1 DEF IInv, TypeOK
<1> QED
  BY <1>1, <1>2, <1>3, ScriptInv

LEMMA LookInv ==
  ASSUME IInv, NEW t \in Shards, Look(t)
  PROVE  IInv'
<1> USE Constants
<1>1. UNCHANGED <<status, age, life, disk, dirs, start, node, future>> /\ purge.pc = "look"
  BY DEF Look, rows, files
<1>2. purge \in Purges /\ purge.kind \in Kinds /\ hit \subseteq Shards
  BY <1>1 DEF IInv, PurgeOK, TypeOK
<1>3. CASE disk[purge.kind][t] # None /\ Orphaned(t)
  <2>1. /\ purge' = [purge EXCEPT !.todo = @ \ {t}, !.t = t, !.pc = "unlink"]
        /\ hit' = IF status[t] = None THEN hit \cup {t} ELSE hit
    BY <1>3 DEF Look
  <2>2. /\ purge' \in Purges /\ purge'.pc = "unlink" /\ purge'.t = t
        /\ purge'.kind = purge.kind /\ purge'.old = purge.old
    BY <1>2, <2>1 DEF Purges
  <2>3. PurgeOK'
    BY <1>2, <2>2 DEF PurgeOK
  <2>4. t \in hit' \/ status[t] \in Finished \cup {"gone"}
    BY <1>3, <2>1 DEF Orphaned
  <2>5. purge.kind = "results" => Condemned(t)
    <3>1. purge.kind = "results" => status[t] # None
      BY <1>3 DEF IInv, FilesOK
    <3>2. status[t] = "gone" => Condemned(t)
      BY DEF IInv, RowsOK, Condemned
    <3>3. t \in purge.old => Condemned(t)
      BY DEF IInv, FilesOK
    <3> QED
      BY <1>3, <3>1, <3>2, <3>3 DEF Orphaned
  <2>6. purge'.pc = "unlink" /\ purge'.kind = "results" => Condemned(purge.t)'
    BY <1>1, <2>2, <2>5 DEF Condemned
  <2>7. \A u \in purge'.old : Condemned(u)
    BY <2>2 DEF IInv, FilesOK
  <2>8. hit' \in SUBSET Shards /\ hit \subseteq hit'
    BY <1>2, <2>1
  <2> QED
    BY <1>1, <2>2, <2>3, <2>4, <2>6, <2>7, <2>8, ScriptInv
<1>4. CASE ~(disk[purge.kind][t] # None /\ Orphaned(t))
  <2>1. /\ purge' = [purge EXCEPT !.todo = @ \ {t}, !.t = 0, !.pc = "look"]
        /\ hit' = hit
    BY <1>4 DEF Look
  <2>2. /\ purge' \in Purges /\ purge'.pc = "look"
        /\ purge'.kind = purge.kind /\ purge'.old = purge.old
    BY <1>2, <2>1 DEF Purges
  <2>3. PurgeOK'
    BY <1>2, <2>2 DEF PurgeOK
  <2>4. \A u \in purge'.old : Condemned(u)
    BY <2>2 DEF IInv, FilesOK
  <2>5. hit' \in SUBSET Shards /\ hit \subseteq hit'
    BY <1>2, <2>1
  <2> QED
    BY <1>1, <2>2, <2>3, <2>4, <2>5, ScriptInv
<1> QED
  BY <1>3, <1>4

LEMMA UnlinkInv ==
  ASSUME IInv, Unlink
  PROVE  IInv'
<1> USE Constants
<1> PICK k, u : k = purge.kind /\ u = purge.t
  OBVIOUS
<1>1. /\ UNCHANGED <<status, age, life, dirs, start, node, future, hit>>
      /\ purge.pc = "unlink" /\ disk' = [disk EXCEPT ![k][u] = None]
      /\ purge' = Asleep \/ purge' = [purge EXCEPT !.pc = "look", !.t = 0]
  BY DEF Unlink, Remove, rows
<1>2. purge \in Purges /\ k \in Kinds /\ u \in Shards
  BY <1>1 DEF IInv, PurgeOK
<1>3. /\ disk' \in [Kinds -> [Shards -> Contents]]
      /\ \A t \in Shards : disk'[k][t] = IF t = u THEN None ELSE disk[k][t]
      /\ \A l \in Kinds \ {k} : disk'[l] = disk[l]
  <2>1. None \in Contents /\ TypeOK
    BY DEF Contents, IInv
  <2>2. disk' = [disk EXCEPT ![k][u] = None]
    BY <1>1
  <2> QED
    BY <1>2, <2>1, <2>2 DEF TypeOK, Contents
<1>4. /\ purge' \in Purges /\ purge'.pc # "unlink" /\ purge'.old \subseteq purge.old
      /\ purge'.pc = "look" => purge'.kind = k
  <2>1. CASE purge' = Asleep
    BY <2>1, AsleepFacts
  <2>2. CASE purge' = [purge EXCEPT !.pc = "look", !.t = 0]
    BY <1>2, <2>2 DEF Purges
  <2> QED
    BY <1>1, <2>1, <2>2
<1>5. PurgeOK'
  BY <1>2, <1>4 DEF PurgeOK
<1>6. TypeOK'
  BY <1>1, <1>3, <1>4 DEF IInv, TypeOK, Contents, Purges
<1>7. \A t \in Shards : /\ Come(t)' <=> Come(t)
                        /\ Condemned(t)' <=> Condemned(t)
  BY <1>1 DEF Come, Condemned
<1>8. RowsOK' /\ NodesOK'
  BY <1>1, <1>7 DEF IInv, RowsOK, NodesOK
<1>9. u \in hit \/ status[u] \in Finished \cup {"gone"}
  BY <1>1 DEF IInv, FilesOK
<1>10. ASSUME NEW t \in Shards, PayloadOK(t), status[t] \notin Finished \cup {"gone"}
       PROVE  PayloadOK(t)'
  <2>1. CASE t = u
    BY <1>1, <1>9, <1>10, <2>1 DEF PayloadOK
  <2>2. CASE t # u
    <3>1. disk'["tasks"][t] = disk["tasks"][t]
      BY <1>2, <1>3, <2>2 DEF Kinds
    <3> QED
      BY <1>1, <1>10, <3>1 DEF PayloadOK
  <2> QED
    BY <2>1, <2>2
<1>11. ASSUME start.pc = "row"
       PROVE  PayloadOK(start.t)'
  <2> PICK s : s = start.t
    OBVIOUS
  <2>1. s \in Shards /\ PayloadOK(s) /\ status[s] = None
    BY <1>11 DEF IInv, TypeOK, FilesOK, RowsOK, Come
  <2>2. PayloadOK(s)'
    BY <1>10, <2>1 DEF None, Finished
  <2> QED
    BY <1>1, <2>2
<1>12. ASSUME NEW t \in Shards
       PROVE  /\ disk'["results"][t] # None => disk["results"][t] # None
              /\ disk'["results"][t] = disk["results"][t] \/ Condemned(t)
  <2>1. CASE k = "results" /\ t = u
    <3>1. Condemned(u)
      BY <1>1, <2>1 DEF IInv, FilesOK
    <3> QED
      BY <1>3, <2>1, <3>1
  <2>2. CASE ~(k = "results" /\ t = u)
    <3>1. disk'["results"][t] = disk["results"][t]
      BY <1>2, <1>3, <2>2 DEF Kinds
    <3> QED
      BY <3>1
  <2> QED
    BY <2>1, <2>2
<1>13. FilesOK'
  <2>1. \A t \in purge'.old : t \in Shards /\ Condemned(t)
    BY <1>2, <1>4 DEF IInv, FilesOK, Purges
  <2>2. \A t \in Shards : status'[t] \in {"queued", "running"} => PayloadOK(t)'
    BY <1>1, <1>10 DEF IInv, FilesOK, Finished
  <2>3. start'.pc = "row" => PayloadOK(start.t)'
    BY <1>1, <1>11
  <2> QED
    BY <1>1, <1>4, <1>7, <1>12, <2>1, <2>2, <2>3 DEF IInv, FilesOK
<1>14. FutureOK'
  BY <1>1 DEF IInv, FutureOK, Settled, ValuesAreComputed
<1> QED
  BY <1>5, <1>6, <1>8, <1>13, <1>14 DEF IInv

----------------------------------------------------------------------------
(* The caller *)

LEMMA PollInv ==
  ASSUME IInv, Poll
  PROVE  IInv'
<1> USE Constants
<1>1. /\ UNCHANGED <<status, age, life, disk, dirs, start, node, purge, hit>>
      /\ future.holds = "pending"
      /\ future' = [future EXCEPT !.sees =
                      IF ~JobLives THEN "raises"
                      ELSE IF Summary = "queued" THEN None ELSE Summary]
  BY DEF Poll, rows, files
<1>2. Summary \in {"queued"} \cup Finished
  BY DEF Summary, Finished
<1>3. /\ future' \in [holds : {None, "pending", "value", "empty", "error"},
                      sees : {None, "raises"} \cup Finished]
      /\ future'.holds = "pending"
      /\ future'.sees \in Finished => JobLives /\ Summary # "queued"
  BY <1>1, <1>2 DEF IInv, TypeOK, Finished, None
<1>4. TypeOK'
  BY <1>1, <1>3 DEF IInv, TypeOK
<1>5. \A t \in Shards : /\ Come(t)' <=> Come(t)
                        /\ Condemned(t)' <=> Condemned(t)
                        /\ PayloadOK(t)' <=> PayloadOK(t)
  BY <1>1 DEF Come, Condemned, PayloadOK
<1>6. PurgeOK' /\ RowsOK' /\ NodesOK'
  BY <1>1, <1>5 DEF IInv, PurgeOK, RowsOK, NodesOK
<1>7. FilesOK'
  BY <1>1 DEF IInv, FilesOK, PayloadOK, Condemned
<1>8. ASSUME future'.sees \in Finished, NEW t \in Shards
      PROVE  Settled(t)'
  <2>1. status[t] \in Finished
    BY <1>3, <1>8 DEF Summary
  <2>2. life[Job] \in 0..Lifetime /\ life[t] \in 0..Lifetime /\ life[Job] < Lifetime
        /\ life[t] <= life[Job]
    BY <1>3, <1>8 DEF JobLives, IInv, TypeOK, RowsOK
  <2>3. life[t] < Lifetime
    BY <2>2
  <2>4. node[t] \in {"idle", "cleanup"}
    BY <2>1 DEF IInv, TypeOK, NodesOK
  <2> QED
    BY <1>1, <2>1, <2>3, <2>4 DEF Settled
<1>9. FutureOK'
  BY <1>3, <1>8 DEF FutureOK, ValuesAreComputed
<1> QED
  BY <1>4, <1>6, <1>7, <1>9 DEF IInv

LEMMA ReadResultsInv ==
  ASSUME IInv, ReadResults
  PROVE  IInv'
<1> USE Constants
<1> PICK left : left = {t \in Shards : status[t] # "gone"}
  OBVIOUS
<1> PICK first : first = CHOOSE t \in left : \A u \in left : t <= u
  OBVIOUS
<1>1. /\ UNCHANGED <<status, age, life, disk, dirs, start, node, purge, hit>>
      /\ future.sees \in Finished
      /\ future' = [sees |-> None, holds |->
           IF future.sees = "failed" \/ left = {} \/ status[first] # "completed"
           THEN "error"
           ELSE IF disk["results"][first] = None THEN "empty" ELSE "value"]
  BY DEF ReadResults, rows, files
<1>2. /\ future' \in [holds : {None, "pending", "value", "empty", "error"},
                      sees : {None, "raises"} \cup Finished]
      /\ future'.sees = None
      /\ future'.holds = "empty" =>
           left # {} /\ status[first] = "completed" /\ disk["results"][first] = None
  BY <1>1
<1>3. TypeOK'
  BY <1>1, <1>2 DEF IInv, TypeOK
<1>4. \A t \in Shards : /\ Come(t)' <=> Come(t)
                        /\ Condemned(t)' <=> Condemned(t)
                        /\ PayloadOK(t)' <=> PayloadOK(t)
  BY <1>1 DEF Come, Condemned, PayloadOK
<1>5. PurgeOK' /\ RowsOK' /\ NodesOK'
  BY <1>1, <1>4 DEF IInv, PurgeOK, RowsOK, NodesOK
<1>6. FilesOK'
  BY <1>1 DEF IInv, FilesOK, PayloadOK, Condemned
<1>7. \A t \in Shards : Settled(t) /\ Settled(t)'
  BY <1>1 DEF IInv, FutureOK, Settled
<1>8. ASSUME future'.holds = "empty"
      PROVE  \E t \in Shards : age'[t] > Retention \/ status'[t] = "gone"
  <2>1. first \in left
    BY <1>2, <1>8, FirstShard
  <2>2. /\ first \in Shards /\ status[first] = "completed"
        /\ disk["results"][first] = None
    BY <1>2, <1>8, <2>1
  <2>3. Condemned(first)
    BY <2>2 DEF IInv, FilesOK, None
  <2>4. life[first] < Lifetime /\ life[first] \in 0..Lifetime
    BY <1>7, <2>2 DEF Settled, IInv, TypeOK
  <2>5. age[first] > Retention
    BY <2>3, <2>4 DEF Condemned
  <2> QED
    BY <1>1, <2>2, <2>5
<1>9. FutureOK'
  BY <1>7, <1>8 DEF FutureOK, ValuesAreComputed
<1> QED
  BY <1>3, <1>5, <1>6, <1>9 DEF IInv

----------------------------------------------------------------------------
(* Time passes *)

LEMMA TickInv ==
  ASSUME IInv, Tick
  PROVE  IInv'
<1> USE Constants
<1>1. /\ UNCHANGED <<disk, dirs, start, node, purge, future, hit>>
      /\ age' = [t \in Shards |-> IF status[t] \in Finished
                                  THEN Older(age[t], Retention + 1) ELSE 0]
      /\ life' = [x \in {Job} \cup Shards |->
                    IF x = Job THEN IF start.pc = "idle" THEN 0 ELSE Older(life[x], Lifetime)
                    ELSE IF status[x] = None THEN 0 ELSE Older(life[x], Lifetime)]
      /\ status' = [t \in Shards |->
                      IF life'[t] = Lifetime /\ life[t] < Lifetime THEN "gone" ELSE status[t]]
  BY DEF Tick, files, IInv, TypeOK
<1>2. /\ \A t \in Shards : age[t] \in 0..(Retention + 1)
      /\ \A x \in {Job} \cup Shards : life[x] \in 0..Lifetime
      /\ \A t \in Shards : status[t] \in {None, "queued", "running", "gone"} \cup Finished
  BY DEF IInv, TypeOK
<1>3. ASSUME NEW t \in Shards
      PROVE  /\ age'[t] \in 0..(Retention + 1)
             /\ status[t] \notin Finished => age'[t] = 0
             /\ status[t] \in Finished /\ age[t] > Retention => age'[t] > Retention
  <2>1. Retention + 1 \in Nat /\ age[t] \in 0..(Retention + 1)
    BY <1>2
  <2>2. Older(age[t], Retention + 1) \in 0..(Retention + 1) /\ age[t] <= Older(age[t], Retention + 1)
    BY <2>1, OlderFacts
  <2>3. age'[t] = IF status[t] \in Finished THEN Older(age[t], Retention + 1) ELSE 0
    BY <1>1
  <2> QED
    BY <2>1, <2>2, <2>3
<1>4. /\ life'[Job] \in 0..Lifetime
      /\ start.pc # "idle" => life'[Job] = Older(life[Job], Lifetime)
  <2>1. Older(life[Job], Lifetime) \in 0..Lifetime
    BY <1>2, OlderFacts
  <2>2. life'[Job] = IF start.pc = "idle" THEN 0 ELSE Older(life[Job], Lifetime)
    BY <1>1
  <2> QED
    BY <2>1, <2>2
<1>5. ASSUME NEW t \in Shards
      PROVE  /\ life'[t] \in 0..Lifetime
             /\ status[t] = None => life'[t] = 0
             /\ status[t] # None => life'[t] = Older(life[t], Lifetime)
             /\ status[t] # None /\ life[t] = Lifetime => life'[t] = Lifetime
  <2>1. life'[t] = IF status[t] = None THEN 0 ELSE Older(life[t], Lifetime)
    BY <1>1
  <2>2. /\ Older(life[t], Lifetime) \in 0..Lifetime
        /\ life[t] = Lifetime => Older(life[t], Lifetime) = Lifetime
    BY <1>2, OlderFacts
  <2> QED
    BY <2>1, <2>2
<1>6. \A t \in Shards : status'[t] = IF life'[t] = Lifetime /\ life[t] < Lifetime
                                     THEN "gone" ELSE status[t]
  BY <1>1
<1>7. TypeOK'
  <2>1. status' \in [Shards -> {None, "queued", "running", "gone"} \cup Finished]
    BY <1>1, <1>2
  <2>2. age' \in [Shards -> 0..(Retention + 1)]
    BY <1>1, <1>3
  <2>3. life' \in [{Job} \cup Shards -> 0..Lifetime]
    BY <1>1, <1>4, <1>5
  <2> QED
    BY <1>1, <2>1, <2>2, <2>3 DEF IInv, TypeOK
<1>8. \A t \in Shards : /\ Come(t)' <=> Come(t)
                        /\ PayloadOK(t)' <=> PayloadOK(t)
  BY <1>1 DEF Come, PayloadOK
<1>9. ASSUME NEW t \in Shards
      PROVE  /\ status'[t] = None <=> status[t] = None
             /\ status'[t] \in Finished => status'[t] = status[t]
             /\ status'[t] \in {"queued", "running"} => status'[t] = status[t]
             /\ status[t] \in Finished \cup {"gone"} => status'[t] \in Finished \cup {"gone"}
             /\ status'[t] = "gone" => life'[t] = Lifetime
  <2>1. status[t] = None => life'[t] # Lifetime
    BY <1>5
  <2>2. status[t] = "gone" => life'[t] = Lifetime
    BY <1>5 DEF IInv, RowsOK, None
  <2> QED
    BY <1>6, <2>1, <2>2 DEF Finished, None
<1>10. ASSUME NEW t \in Shards, Condemned(t)
       PROVE  Condemned(t)'
  <2>1. status[t] # None
    BY <1>10 DEF IInv, RowsOK, Condemned
  <2>2. CASE life[t] = Lifetime
    BY <1>5, <2>1, <2>2 DEF Condemned
  <2>3. CASE age[t] > Retention /\ status[t] \in Finished
    BY <1>3, <2>3 DEF Condemned
  <2>4. age[t] > Retention => status[t] \in Finished \/ life[t] = Lifetime
    BY <1>2 DEF IInv, RowsOK
  <2> QED
    BY <1>10, <2>2, <2>3, <2>4 DEF Condemned
<1>11. PurgeOK' /\ NodesOK'
  BY <1>1, <1>9 DEF IInv, PurgeOK, NodesOK
<1>12. RowsOK'
  <2> SUFFICES ASSUME NEW t \in Shards
               PROVE  /\ status'[t] # None <=> Come(t)'
                      /\ status'[t] = None => life'[t] = 0 /\ age'[t] = 0
                      /\ life'[t] <= life'[Job]
                      /\ status'[t] = "gone" => life'[t] = Lifetime
                      /\ age'[t] > 0 => status'[t] \in Finished \/ life'[t] = Lifetime
    BY DEF RowsOK
  <2>1. status'[t] # None <=> Come(t)'
    BY <1>8, <1>9 DEF IInv, RowsOK
  <2>2. status'[t] = None => life'[t] = 0 /\ age'[t] = 0
    BY <1>3, <1>5, <1>9 DEF Finished, None
  <2>3. life'[t] <= life'[Job]
    <3>1. CASE status[t] = None
      BY <1>4, <1>5, <3>1
    <3>2. CASE status[t] # None
      <4>1. start.pc # "idle" /\ life[t] <= life[Job]
        BY <3>2 DEF IInv, RowsOK, Come
      <4>2. Older(life[t], Lifetime) <= Older(life[Job], Lifetime)
        BY <1>2, <4>1, OlderFacts
      <4> QED
        BY <1>4, <1>5, <3>2, <4>1, <4>2
    <3> QED
      BY <3>1, <3>2
  <2>4. age'[t] > 0 => status'[t] \in Finished \/ life'[t] = Lifetime
    <3>1. age'[t] > 0 => status[t] \in Finished
      BY <1>3
    <3> QED
      BY <1>6, <3>1
  <2> QED
    BY <1>9, <2>1, <2>2, <2>3, <2>4
<1>13. FilesOK'
  <2>1. purge.pc = "unlink" => purge.t \in Shards
    BY DEF IInv, PurgeOK
  <2>2. start.pc = "row" => start.t \in Shards
    BY DEF IInv, TypeOK
  <2>3. \A u \in purge.old : u \in Shards
    BY DEF IInv, PurgeOK, Purges
  <2>4. \A t \in Shards : status'[t] = "completed" => status[t] = "completed"
    BY <1>9 DEF Finished
  <2> QED
    BY <1>1, <1>8, <1>9, <1>10, <2>1, <2>2, <2>3, <2>4 DEF IInv, FilesOK
<1>14. ASSUME NEW t \in Shards, Settled(t)
       PROVE  Settled(t)'
  <2>1. CASE status[t] = "gone"
    BY <1>1, <1>6, <1>14, <2>1 DEF Settled
  <2>2. CASE status[t] \in Finished /\ life[t] < Lifetime
    <3>1. status'[t] = "gone" \/ (status'[t] = status[t] /\ life'[t] # Lifetime)
      BY <1>6, <2>2
    <3>2. life'[t] # Lifetime => life'[t] < Lifetime
      BY <1>5
    <3> QED
      BY <1>1, <1>14, <2>2, <3>1, <3>2 DEF Settled
  <2> QED
    BY <1>14, <2>1, <2>2 DEF Settled
<1>15. ValuesAreComputed'
  <2> SUFFICES ASSUME future'.holds = "empty"
               PROVE  \E t \in Shards : age'[t] > Retention \/ status'[t] = "gone"
    BY DEF ValuesAreComputed
  <2>1. PICK t \in Shards : age[t] > Retention \/ status[t] = "gone"
    BY <1>1 DEF IInv, FutureOK, ValuesAreComputed
  <2>2. Settled(t)
    BY <1>1 DEF IInv, FutureOK
  <2>3. CASE status[t] = "gone"
    BY <1>6, <2>3
  <2>4. CASE status[t] \in Finished
    BY <1>3, <2>1, <2>4 DEF Finished
  <2> QED
    BY <2>2, <2>3, <2>4 DEF Settled
<1>16. FutureOK'
  BY <1>1, <1>14, <1>15 DEF IInv, FutureOK
<1> QED
  BY <1>7, <1>11, <1>12, <1>13, <1>16 DEF IInv

----------------------------------------------------------------------------
(* The theorems *)

LEMMA InitInv == Init => IInv
<1> USE Constants
<1> SUFFICES ASSUME Init
             PROVE  IInv
  OBVIOUS
<1>1. TypeOK
  BY AsleepFacts DEF Init, TypeOK, Purges
<1>2. PurgeOK
  BY AsleepFacts DEF Init, PurgeOK
<1>3. RowsOK /\ NodesOK
  BY DEF Init, RowsOK, NodesOK, Come, None, Finished
<1>4. FilesOK
  BY AsleepFacts DEF Init, FilesOK, PayloadOK, Condemned, Kinds, None
<1>5. FutureOK
  BY DEF Init, FutureOK, ValuesAreComputed, None, Finished
<1> QED
  BY <1>1, <1>2, <1>3, <1>4, <1>5 DEF IInv

LEMMA NextInv == IInv /\ [Next]_vars => IInv'
<1> SUFFICES ASSUME IInv, [Next]_vars
             PROVE  IInv'
  OBVIOUS
<1>1. CASE UNCHANGED vars
  BY <1>1 DEF vars, IInv, TypeOK, PurgeOK, RowsOK, Come, NodesOK, FilesOK, PayloadOK,
              Condemned, FutureOK, Settled, ValuesAreComputed
<1>2. CASE Request
  BY <1>2, BeginInv, WritePlainInv, WriteCipherInv, CreateRowInv DEF Request
<1>3. CASE StartDies
  BY <1>3, StartDiesInv
<1>4. CASE \E t \in Shards : RunTask(t)
  BY <1>4, FetchInv, ReportInv, SettleInv, CleanUpInv DEF RunTask
<1>5. CASE Purge
  BY <1>5, BeginPurgeInv, LookInv, UnlinkInv, NextKindInv, RemoveDirsInv DEF Purge
<1>6. CASE Await
  BY <1>6, PollInv, ReadResultsInv DEF Await
<1>7. CASE Tick
  BY <1>7, TickInv
<1> QED
  BY <1>1, <1>2, <1>3, <1>4, <1>5, <1>6, <1>7 DEF Next

LEMMA Invariance == Spec => []IInv
<1>1. Init => IInv
  BY InitInv
<1>2. IInv /\ [Next]_vars => IInv'
  BY NextInv
<1> QED
  BY <1>1, <1>2, PTL DEF Spec

\* Every row, file, request and walk of the script keeps its type.
THEOREM JobsTypeCorrect == Spec => []TypeOK
<1>1. IInv => TypeOK
  BY DEF IInv
<1> QED
  BY <1>1, Invariance, PTL

\* Whatever the script removes and wherever the request, the nodes and the clock
\* are meanwhile, a task that is waiting or running has its payload, encrypted,
\* unless the script took it before its row was there (task_queue.py:285-349,
\* purge_orphans.py).
THEOREM PayloadsStay == Spec => []PayloadsAreKept
<1>1. IInv => PayloadsAreKept
  BY DEF IInv, FilesOK, PayloadOK, PayloadsAreKept
<1> QED
  BY <1>1, Invariance, PTL

\* For any number of shards a caller that is given the empty string in place of
\* a value came after the window had closed (task_queue.py:787, rpc.py:135-139).
THEOREM EmptyMeansLate == Spec => []ValuesAreComputed
<1>1. IInv => ValuesAreComputed
  BY DEF IInv, FutureOK
<1> QED
  BY <1>1, Invariance, PTL
=============================================================================
