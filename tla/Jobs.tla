-------------------------------- MODULE Jobs --------------------------------
(***************************************************************************)
(* One call of a split function, end to end: ComputeFuture polls            *)
(* (sdk/python-sdk/tandem/rpc.py, future.py), POST /start/ queues a task    *)
(* for each shard (server/app/blueprints/start.py), create_task and         *)
(* complete_task keep payloads and results in files and everything else in  *)
(* Redis rows that expire, and the operator's purge_orphans.py walks the    *)
(* same directories.                                                        *)
(*                                                                         *)
(* Files and rows are written by separate steps, in the order of the code.  *)
(* Claiming is TaskQueue's; here a task is run by whichever node gets it.    *)
(***************************************************************************)
EXTENDS Integers, Sequences, FiniteSets

CONSTANTS
  NumShards,  \* _planned_wasm_shards
  Retention,  \* --retention-hours, in ticks
  Lifetime,   \* TTL of the rows of jobs and tasks, in ticks
  Faulty      \* shards whose program may fail

Shards == 1..NumShards
Kinds == {"tasks", "results"}

ASSUME JobsAssumption ==
  /\ NumShards \in Nat \ {0} /\ Faulty \subseteq Shards
  /\ Retention \in Nat /\ Lifetime \in Nat \ {0}

VARIABLES
  status,  \* of each task row
  age,     \* ticks since a task was finished, as far as Retention tells them apart
  life,    \* ticks since each row was created; the job's row is 0
  disk,    \* what each file holds: [Kinds -> [Shards -> contents]]
  dirs,    \* the job's directories that exist
  start,   \* the request: what it does next, and for which shard
  node,    \* where the node that runs each task is
  purge,   \* the script: what it does next, the tasks old enough when it began,
           \* the kind of file it walks, those still to look at, its verdict
  future,  \* what the caller's future holds, and what its poll has seen
  hit      \* history: files the script took for orphans before their row came

vars == <<status, age, life, disk, dirs, start, node, purge, future, hit>>
rows == <<status, age, life>>
files == <<disk, dirs>>

None == "none"
Finished == {"completed", "failed"}
Job == 0
JobLives == life[Job] < Lifetime /\ start.pc # "idle"

Set(f, x, v) == [f EXCEPT ![x] = v]
Write(k, t, contents) ==
  /\ disk' = [disk EXCEPT ![k][t] = contents]
  /\ dirs' = dirs \cup {k}
Remove(k, t) == disk' = [disk EXCEPT ![k][t] = None]

----------------------------------------------------------------------------
(* POST /start/: create_job, then create_task for one shard after the other *)

\* task_blob_path makes the directory before anything is written to it.
Begin ==
  /\ start.pc = "idle"
  /\ dirs' = dirs \cup {"tasks"}
  /\ start' = [pc |-> "plain", t |-> 1]
  /\ UNCHANGED <<rows, disk, node, purge, future, hit>>

\* The caller learns that the request failed, and no more.
Refused ==
  /\ start' = [start EXCEPT !.pc = "dead"]
  /\ future' = [future EXCEPT !.holds = "error"]

\* Faulty: makes the row before it encrypts the payload.
WritePlainAndRow ==
  /\ start.pc = "plain"
  /\ Write("tasks", start.t, "plain")
  /\ status' = Set(status, start.t, "queued") /\ life' = Set(life, start.t, 0)
  /\ start' = [start EXCEPT !.pc = "cipher"]
  /\ UNCHANGED <<age, node, purge, future, hit>>

\* The directory may have been removed since it was made.
WritePlain ==
  /\ start.pc = "plain"
  /\ \/ /\ "tasks" \in dirs
        /\ Write("tasks", start.t, "plain")
        /\ start' = [start EXCEPT !.pc = "cipher"] /\ UNCHANGED future
     \/ "tasks" \notin dirs /\ Refused /\ UNCHANGED files
  /\ UNCHANGED <<rows, node, purge, hit>>

WriteCipher ==
  /\ start.pc = "cipher"
  /\ Write("tasks", start.t, "cipher")
  /\ start' = [start EXCEPT !.pc = "row"]
  /\ UNCHANGED <<rows, node, purge, future, hit>>

\* The row and the entry in a queue; the last one ends in the reply that
\* gives the caller the id of the job.
CreateRow ==
  /\ start.pc = "row"
  /\ status' = Set(status, start.t, "queued")
  /\ life' = Set(life, start.t, 0)
  /\ IF start.t = NumShards
     THEN /\ start' = [start EXCEPT !.pc = "done"]
          /\ future' = [future EXCEPT !.holds = "pending"]
          /\ UNCHANGED dirs
     ELSE /\ start' = [pc |-> "plain", t |-> start.t + 1]
          /\ dirs' = dirs \cup {"tasks"}
          /\ UNCHANGED future
  /\ UNCHANGED <<age, disk, node, purge, hit>>

\* The server dies in the middle of the request.
StartDies ==
  /\ start.pc \in {"plain", "cipher", "row"}
  /\ Refused
  /\ UNCHANGED <<rows, files, node, purge, hit>>

----------------------------------------------------------------------------
(* download_task_blob, and submit_task_result with complete_task or fail_task *)

\* Faulty: leaves a task whose payload is missing to itself.
FetchOrSkip(t) ==
  /\ status[t] = "queued" /\ node[t] = "idle"
  /\ disk["tasks"][t] # None
  /\ node' = Set(node, t, "ran") /\ status' = Set(status, t, "running")
  /\ UNCHANGED <<age, life, files, start, purge, future, hit>>

\* A payload that is missing is a 404, which the worker reports as a failure.
Fetch(t) ==
  /\ status[t] = "queued" /\ node[t] = "idle"
  /\ IF disk["tasks"][t] = None
     THEN node' = Set(node, t, "fail") /\ UNCHANGED status
     ELSE node' = Set(node, t, "ran") /\ status' = Set(status, t, "running")
  /\ UNCHANGED <<age, life, files, start, purge, future, hit>>

\* The worker reports; a row that has expired is a 404, and that is the end of it.
Report(t) ==
  /\ node[t] \in {"ran", "fail"}
  /\ \/ /\ status[t] \in {"queued", "running"} /\ node[t] = "ran"
        /\ Write("results", t, "value")
        /\ node' = Set(node, t, "completed")
     \/ /\ status[t] \in {"queued", "running"} /\ (node[t] = "fail" \/ t \in Faulty)
        /\ node' = Set(node, t, "failed") /\ UNCHANGED files
     \/ /\ status[t] \notin {"queued", "running"}
        /\ node' = Set(node, t, "idle") /\ UNCHANGED files
  /\ UNCHANGED <<rows, start, purge, future, hit>>

\* HSET makes the row again when it expired after it was looked up; such a row
\* has no TTL.
Settle(t) ==
  /\ node[t] \in Finished
  /\ status' = Set(status, t, node[t])
  /\ age' = Set(age, t, 0)
  /\ node' = Set(node, t, "cleanup")
  /\ UNCHANGED <<life, files, start, purge, future, hit>>

\* remove_file(task.get("blob_path")); only then is the job's status refreshed.
CleanUp(t) ==
  /\ node[t] = "cleanup"
  /\ Remove("tasks", t)
  /\ node' = Set(node, t, "idle")
  /\ UNCHANGED <<rows, dirs, start, purge, future, hit>>

----------------------------------------------------------------------------
(* purge_orphans.py --execute *)

Asleep == [pc |-> "idle", old |-> {}, kind |-> None, todo |-> {}, t |-> 0]

Present(k) == {t \in Shards : disk[k][t] # None}

\* "now" is read once, so later completions count as young; rglob lists a
\* directory when it comes to it.
BeginPurge ==
  /\ purge.pc = "idle"
  /\ purge' = [pc |-> "look", old |-> {t \in Shards : age[t] > Retention},
               kind |-> "tasks", todo |-> Present("tasks"), t |-> 0]
  /\ UNCHANGED <<rows, files, start, node, future, hit>>

\* Faulty: forgets the retention window.
OrphanedAtOnce(t) == status[t] \in {None, "gone"} \cup Finished

\* Faulty: keeps whatever has no row.
OrphanedIfFinished(t) == status[t] \in Finished /\ t \in purge.old

Orphaned(t) ==
  \/ status[t] \in {None, "gone"}
  \/ status[t] \in Finished /\ t \in purge.old

Look(t) ==
  /\ purge.pc = "look" /\ t \in purge.todo
  /\ LET condemned == disk[purge.kind][t] # None /\ Orphaned(t)
     IN  /\ purge' = [purge EXCEPT !.todo = @ \ {t},
                        !.t = IF condemned THEN t ELSE 0,
                        !.pc = IF condemned THEN "unlink" ELSE "look"]
         /\ hit' = IF condemned /\ status[t] = None THEN hit \cup {t} ELSE hit
  /\ UNCHANGED <<rows, files, start, node, future>>

\* stat() raises on a file that is gone, which ends the script.
Unlink ==
  /\ purge.pc = "unlink"
  /\ Remove(purge.kind, purge.t)
  /\ purge' = IF disk[purge.kind][purge.t] = None THEN Asleep
              ELSE [purge EXCEPT !.pc = "look", !.t = 0]
  /\ UNCHANGED <<rows, dirs, start, node, future, hit>>

NextKind ==
  /\ purge.pc = "look" /\ purge.todo = {}
  /\ purge' = IF purge.kind = "tasks"
              THEN [purge EXCEPT !.kind = "results", !.todo = Present("results")]
              ELSE [Asleep EXCEPT !.pc = "rmdir"]
  /\ UNCHANGED <<rows, files, start, node, future, hit>>

Empty(k) == Present(k) = {}

\* The rmdir of a directory that was filled after it was found empty would raise
\* and end the script; here the look and the rmdir are one step.
RemoveDirs ==
  /\ purge.pc = "rmdir"
  /\ dirs' = {k \in dirs : ~Empty(k)}
  /\ purge' = Asleep
  /\ UNCHANGED <<rows, disk, start, node, future, hit>>

----------------------------------------------------------------------------
(* ComputeFuture.result: _make_poll's poll, and GET /start/<job_id>/results *)

\* refresh_job_status: rows that are gone still count as tasks of the job.
Summary ==
  IF \E t \in Shards : status[t] \notin Finished THEN "queued"
  ELSE IF \E t \in Shards : status[t] = "failed" THEN "failed" ELSE "completed"

\* The first request for a job whose row has expired is a 404, and result()
\* raises; what the future holds does not change.
Poll ==
  /\ future.holds = "pending" /\ future.sees = None
  /\ future' = [future EXCEPT !.sees =
                  IF ~JobLives THEN "raises"
                  ELSE IF Summary = "queued" THEN None ELSE Summary]
  /\ UNCHANGED <<rows, files, start, node, purge, hit>>

\* get_job_results reads the files; the future takes the first task of its
\* name, which of several shards is the first whose row is left.  A file that
\* is missing reads as no bytes, and no bytes are a value.
ReadResults ==
  /\ future.sees \in Finished
  /\ LET left == {t \in Shards : status[t] # "gone"}
         first == CHOOSE t \in left : \A u \in left : t <= u
     IN  future' = [sees |-> None, holds |->
           IF future.sees = "failed" \/ left = {} \/ status[first] # "completed"
           THEN "error"
           ELSE IF disk["results"][first] = None THEN "empty" ELSE "value"]
  /\ UNCHANGED <<rows, files, start, node, purge, hit>>

----------------------------------------------------------------------------

Older(n, cap) == IF n < cap THEN n + 1 ELSE cap

\* A row is gone at the end of its TTL; the job's is the oldest.
Tick ==
  /\ age' = [t \in Shards |-> IF status[t] \in Finished THEN Older(age[t], Retention + 1)
                              ELSE 0]
  /\ life' = [x \in DOMAIN life |->
                IF x = Job THEN IF start.pc = "idle" THEN 0 ELSE Older(life[x], Lifetime)
                ELSE IF status[x] = None THEN 0 ELSE Older(life[x], Lifetime)]
  /\ status' = [t \in Shards |->
                  IF life'[t] = Lifetime /\ life[t] < Lifetime THEN "gone" ELSE status[t]]
  /\ UNCHANGED <<files, start, node, purge, future, hit>>

Init ==
  /\ status = [t \in Shards |-> None]
  /\ age = [t \in Shards |-> 0]
  /\ life = [x \in {Job} \cup Shards |-> 0]
  /\ disk = [k \in Kinds |-> [t \in Shards |-> None]]
  /\ dirs = {}
  /\ start = [pc |-> "idle", t |-> 1]
  /\ node = [t \in Shards |-> "idle"]
  /\ purge = Asleep
  /\ future = [holds |-> None, sees |-> None]
  /\ hit = {}

Request == Begin \/ WritePlain \/ WriteCipher \/ CreateRow
RunTask(t) == Fetch(t) \/ Report(t) \/ Settle(t) \/ CleanUp(t)
Purge == BeginPurge \/ (\E t \in Shards : Look(t)) \/ Unlink
           \/ NextKind \/ RemoveDirs
Await == Poll \/ ReadResults

Next ==
  \/ Request
  \/ StartDies
  \/ \E t \in Shards : RunTask(t)
  \/ Purge
  \/ Await
  \/ Tick

Spec == Init /\ [][Next]_vars

\* Requests and reports in progress end, nodes take tasks, the caller waits in
\* result(), and the operator runs the script again and again.
FairSpec ==
  /\ Spec
  /\ WF_vars(WritePlain \/ WriteCipher \/ CreateRow)
  /\ \A t \in Shards : WF_vars(RunTask(t))
  /\ WF_vars(Purge) /\ WF_vars(Await)

----------------------------------------------------------------------------
(* Properties *)

\* The type of every variable; at most one row of purge's walk at a time.
TypeOK ==
  /\ status \in [Shards -> {None, "queued", "running", "gone"} \cup Finished]
  /\ age \in [Shards -> 0..Retention + 1]
  /\ life \in [{Job} \cup Shards -> 0..Lifetime]
  /\ disk \in [Kinds -> [Shards -> {None, "plain", "cipher", "value"}]]
  /\ dirs \subseteq Kinds
  /\ start \in [pc : {"idle", "plain", "cipher", "row", "done", "dead"}, t : Shards]
  /\ node \in [Shards -> {"idle", "ran", "fail", "cleanup"} \cup Finished]
  /\ purge.pc \in {"idle", "look", "unlink", "rmdir"}
  /\ purge.old \subseteq Shards /\ purge.todo \subseteq Shards
  /\ future \in [holds : {None, "pending", "value", "empty", "error"},
                 sees : {None, "raises"} \cup Finished]
  /\ hit \subseteq Shards

\* "Overwrite plaintext on disk so it never lingers" (task_queue.py:324): a task
\* that is waiting or running has its payload, encrypted, unless the script
\* took the file for an orphan before the row was there.
PayloadsAreKept ==
  \A t \in Shards :
    status[t] \in {"queued", "running"} /\ node[t] # "cleanup" /\ t \notin hit
      => disk["tasks"][t] = "cipher"

\* A future holds a value that a node computed.  It holds the empty string, in
\* place of an error, only when the script had a right to take the result: the
\* first poll after the end came later than the retention window
\* (task_queue.py:787, rpc.py:135-139).
ValuesAreComputed ==
  future.holds = "empty" =>
    \E t \in Shards : age[t] > Retention \/ status[t] = "gone"

\* "waits for the node to answer": as long as someone waits in result(), the
\* future gets its outcome, or the poll raises because the job is gone.
FuturesResolve ==
  future.holds = "pending" ~>
    future.holds \in {"value", "empty", "error"} \/ future.sees = "raises"

\* Whatever the script, requests and reports do to each other, and wherever
\* the script dies, no file is kept for ever, if time passes.
FilesAreReclaimed ==
  WF_vars(Tick) => (start.pc \in {"done", "dead"} ~> [](\A k \in Kinds : Empty(k)))

============================================================================
