------------------------------- MODULE Builds -------------------------------
(***************************************************************************)
(* `tandem build`, `tandem clean` and the uploads of `tandem start`        *)
(* (cli/build.py, cli/wasm.py, cli/remote.py) over the compile engine and  *)
(* its cache (sdk/core/src), for several checkouts on one machine: each    *)
(* has its own sources and output directory, and a shell that builds it,   *)
(* while all share the cache in ~/.tandem/compile-cache.  Users edit their *)
(* sources at any time and a build may die at any step.                    *)
(*                                                                         *)
(* componentize-py is external: from the same sources it makes the same    *)
(* component, or fails.  A file is written in place; what others may find  *)
(* of it until it is complete is nothing, or its beginning.                *)
(***************************************************************************)
EXTENDS Integers, FiniteSets

CONSTANTS
  Shells,
  TaskNames,
  Sources,     \* what the .py files of a checkout may contain
  Exports,     \* the tasks discovery finds in each of them
  Rejected,    \* those the analysis finds errors in
  None,
  MaxEdits,    \* bound: edits of the sources
  MaxCrashes   \* bound: builds that die

ASSUME BuildsAssumption ==
  /\ Exports \in [Sources -> SUBSET TaskNames] /\ Rejected \subseteq Sources
  /\ MaxEdits \in Nat /\ MaxCrashes \in Nat

VARIABLES
  inPlace,   \* the shells whose project has no bundled SDK; fixed
  source,    \* the sources of each checkout
  pc,        \* what each shell does next
  plan,      \* the sources it discovered its tasks in, and analysed
  staged,    \* the copy it compiles from; kept as history until the next
  todo,      \* the tasks it has yet to compile
  job,       \* the key that missed, and the component made for it
  cache,     \* the entry of each key
  out,       \* tasks/*.wasm in each output directory
  manifest,  \* .tandem/manifest.json: what it was made from
  edits, crashes

locals == <<pc, plan, staged, todo, job>>
files == <<cache, out, manifest>>
vars == <<inPlace, source, pc, plan, staged, todo, job, cache, out, manifest,
          edits, crashes>>

Artifacts == [task : TaskNames, from : Sources]

\* What hash_source_dir sees is the sources and, in a staged copy, the SDK.
Keys == [task : TaskNames, from : Sources, sdk : BOOLEAN]

\* An entry that has been opened, begun, and completed.
Entries == [fill : {"short", "torn", "whole"}, art : Artifacts]

\* What a task's file in an output directory holds.
TaskFiles == [art : Artifacts, whole : BOOLEAN]

ASSUME NoneAssumption == None \notin Sources /\ None \notin TaskFiles

Idle(s) == pc[s] = "idle"
Goto(s, next) == pc' = [pc EXCEPT ![s] = next]

\* The command ends, and with it all but the files.
Leave(s) ==
  /\ Goto(s, "idle")
  /\ plan' = [plan EXCEPT ![s] = None]
  /\ todo' = [todo EXCEPT ![s] = {}]
  /\ job' = [job EXCEPT ![s] = None]

\* The directory handed to the compiler: the copy, or the sources themselves.
View(s) == IF s \in inPlace THEN source[s] ELSE staged[s]

----------------------------------------------------------------------------
(* The project *)

Edit(s, c) ==
  /\ edits < MaxEdits /\ c # source[s]
  /\ source' = [source EXCEPT ![s] = c]
  /\ edits' = edits + 1
  /\ UNCHANGED <<inPlace, locals, files, crashes>>

\* The tasks describe_target finds in the module, which is imported for it.
Discovered(c) == Exports[c]

\* inspect_project; without a task the build stops here, and with errors too
\* unless the user allows them.
Inspect(s, strict) ==
  /\ Idle(s)
  /\ Discovered(source[s]) # {}
  /\ strict => source[s] \notin Rejected
  /\ plan' = [plan EXCEPT ![s] = source[s]]
  /\ Goto(s, "clear")
  /\ UNCHANGED <<inPlace, source, staged, todo, job, files, edits, crashes>>

Clean(s) ==
  /\ Idle(s)
  /\ Goto(s, "clean")
  /\ UNCHANGED <<inPlace, source, plan, staged, todo, job, files, edits, crashes>>

OutFiles(s) == {t \in TaskNames : out[s][t] # None}

\* shutil.rmtree takes one file after the other, in any order.
RemoveFile(s) ==
  /\ pc[s] \in {"clear", "clean"}
  /\ \/ \E t \in OutFiles(s) :
          /\ out' = [out EXCEPT ![s][t] = None]
          /\ UNCHANGED manifest
     \/ /\ manifest[s] # None
        /\ manifest' = [manifest EXCEPT ![s] = None]
        /\ UNCHANGED out
  /\ UNCHANGED <<inPlace, source, locals, cache, edits, crashes>>

Removed(s) == OutFiles(s) = {} /\ manifest[s] = None

Cleaned(s) ==
  /\ pc[s] = "clean" /\ Removed(s)
  /\ Leave(s)
  /\ UNCHANGED <<inPlace, source, staged, files, edits, crashes>>

\* Faulty: the previous build is left where it is.
StageOver(s) ==
  /\ pc[s] = "clear"
  /\ staged' = [staged EXCEPT ![s] = source[s]]
  /\ todo' = [todo EXCEPT ![s] = Discovered(plan[s])]
  /\ Goto(s, "task")
  /\ UNCHANGED <<inPlace, source, plan, job, files, edits, crashes>>

\* The new directories, and the copy of the sources beside the bundled SDK,
\* both after the analysis.
Stage(s) ==
  /\ pc[s] = "clear" /\ Removed(s)
  /\ staged' = [staged EXCEPT ![s] = source[s]]
  /\ todo' = [todo EXCEPT ![s] = Discovered(plan[s])]
  /\ Goto(s, "task")
  /\ UNCHANGED <<inPlace, source, plan, job, files, edits, crashes>>

----------------------------------------------------------------------------
(* One task: build_wasm and, in tandem-compile, compile_with_cache *)

\* Faulty: the entry function is not part of the key.
KeyWithoutFunction(s, t) ==
  [task |-> CHOOSE u \in TaskNames : TRUE, from |-> View(s), sdk |-> s \notin inPlace]

KeyFor(s, t) == [task |-> t, from |-> View(s), sdk |-> s \notin inPlace]

\* BuildCache::get checks the header, which the beginning of a file has too.
Usable(key) == cache[key] # None /\ cache[key].fill # "short"

\* The artifact goes through a file of its own into the output directory.
Write(s, t, art, whole) ==
  /\ out' = [out EXCEPT ![s][t] = [art |-> art, whole |-> whole]]
  /\ todo' = [todo EXCEPT ![s] = @ \ {t}]
  /\ Goto(s, "task")

Hit(s, t) ==
  /\ pc[s] = "task" /\ t \in todo[s]
  /\ Usable(KeyFor(s, t))
  /\ Write(s, t, cache[KeyFor(s, t)].art, cache[KeyFor(s, t)].fill = "whole")
  /\ UNCHANGED <<inPlace, source, plan, staged, job, cache, manifest, edits, crashes>>

Miss(s, t) ==
  /\ pc[s] = "task" /\ t \in todo[s]
  /\ ~Usable(KeyFor(s, t))
  /\ job' = [job EXCEPT ![s] = [key |-> KeyFor(s, t), art |-> None]]
  /\ Goto(s, "compile")
  /\ UNCHANGED <<inPlace, source, plan, staged, todo, files, edits, crashes>>

Made(s) == [task |-> job[s].key.task, from |-> View(s)]

\* The shim names the function, which the sources must still have.
Compile(s) ==
  /\ pc[s] = "compile" /\ job[s].key.task \in Exports[View(s)]
  /\ job' = [job EXCEPT ![s].art = Made(s)]
  /\ Goto(s, "open")
  /\ UNCHANGED <<inPlace, source, plan, staged, todo, files, edits, crashes>>

\* Faulty: the entry is opened for the backend to write to, and stays.
CompileFailsOpen(s) ==
  /\ pc[s] = "compile"
  /\ cache' = [cache EXCEPT ![job[s].key] = [fill |-> "torn", art |-> Made(s)]]
  /\ Leave(s)
  /\ UNCHANGED <<inPlace, source, staged, out, manifest, edits, crashes>>

\* The toolchain is missing or fails; the command ends with an error.
CompileFails(s) ==
  /\ pc[s] = "compile"
  /\ Leave(s)
  /\ UNCHANGED <<inPlace, source, staged, files, edits, crashes>>

\* BuildCache::put is fs::write: it truncates the entry, then fills it.
Put(s, from, to, fill) ==
  /\ pc[s] = from
  /\ cache' = [cache EXCEPT ![job[s].key] = [fill |-> fill, art |-> job[s].art]]
  /\ Goto(s, to)
  /\ UNCHANGED <<inPlace, source, plan, staged, todo, job, out, manifest, edits, crashes>>

PutOpen(s) == Put(s, "open", "fill", "short")
PutSome(s) == Put(s, "fill", "close", "torn")

Writing(s, key) == pc[s] \in {"fill", "close"} /\ job[s].key = key

\* If another writer has truncated the entry in between, it is complete only
\* when that one is done.
PutRest(s) ==
  /\ pc[s] = "close"
  /\ LET key == job[s].key IN
       /\ \E fill \in {"torn", "whole"} :
            /\ fill = "torn" => \E r \in Shells \ {s} : Writing(r, key)
            /\ cache' = [cache EXCEPT ![key] = [fill |-> fill, art |-> job[s].art]]
       /\ Write(s, key.task, job[s].art, TRUE)
  /\ job' = [job EXCEPT ![s] = None]
  /\ UNCHANGED <<inPlace, source, plan, staged, manifest, edits, crashes>>

\* The discovered tasks with their files and hints, all of it from the sources
\* that were inspected; these stand for it.
Manifest(s) == plan[s]

\* The manifest comes last, when every task has its file.
WriteManifest(s) ==
  /\ pc[s] = "task" /\ todo[s] = {}
  /\ manifest' = [manifest EXCEPT ![s] = Manifest(s)]
  /\ Leave(s)
  /\ UNCHANGED <<inPlace, source, staged, cache, out, edits, crashes>>

\* Interrupted, killed, or out of disk space.
Crash(s) ==
  /\ ~Idle(s) /\ crashes < MaxCrashes
  /\ Leave(s)
  /\ crashes' = crashes + 1
  /\ UNCHANGED <<inPlace, source, staged, files, edits>>

NothingBuilt ==
  /\ pc = [s \in Shells |-> "idle"]
  /\ plan = [s \in Shells |-> None]
  /\ staged = [s \in Shells |-> None]
  /\ todo = [s \in Shells |-> {}]
  /\ job = [s \in Shells |-> None]
  /\ cache = [k \in Keys |-> None]
  /\ out = [s \in Shells |-> [t \in TaskNames |-> None]]
  /\ manifest = [s \in Shells |-> None]
  /\ edits = 0 /\ crashes = 0

Init ==
  /\ inPlace \in SUBSET Shells
  /\ source \in [Shells -> Sources]
  /\ NothingBuilt

Next == \E s \in Shells :
  \/ \E c \in Sources : Edit(s, c)
  \/ \E strict \in BOOLEAN : Inspect(s, strict)
  \/ Clean(s) \/ RemoveFile(s) \/ Cleaned(s) \/ Stage(s)
  \/ \E t \in TaskNames : Hit(s, t) \/ Miss(s, t)
  \/ Compile(s) \/ CompileFails(s)
  \/ PutOpen(s) \/ PutSome(s) \/ PutRest(s)
  \/ WriteManifest(s) \/ Crash(s)

Spec == Init /\ [][Next]_vars

----------------------------------------------------------------------------
(* What a node makes of a task file: start_project frames it with an empty *)
(* input, and execute_wasm takes the two apart and calls `run`.            *)

Frame(file) == [wasm |-> file, input |-> <<>>]

\* A component that is cut off does not load.
Loads(file) == file.whole

\* The results: none or one.
Execute(blob) == IF Loads(blob.wasm) THEN {<<blob.wasm.art, blob.input>>} ELSE {}

----------------------------------------------------------------------------
(* Properties *)

\* The type of every variable.
TypeOK ==
  /\ inPlace \subseteq Shells
  /\ source \in [Shells -> Sources]
  /\ pc \in [Shells -> {"idle", "clear", "clean", "task", "compile", "open",
                         "fill", "close"}]
  /\ plan \in [Shells -> Sources \cup {None}]
  /\ staged \in [Shells -> Sources \cup {None}]
  /\ todo \in [Shells -> SUBSET TaskNames]
  /\ job \in [Shells -> [key : Keys, art : Artifacts \cup {None}] \cup {None}]
  /\ cache \in [Keys -> Entries \cup {None}]
  /\ out \in [Shells -> [TaskNames -> TaskFiles \cup {None}]]
  /\ manifest \in [Shells -> Sources \cup {None}]
  /\ edits \in 0..MaxEdits /\ crashes \in 0..MaxCrashes

\* "Everything that can change the output is folded into the key so a stale
\* entry never gets reused by mistake" (cache.rs:29-31), "To keep builds
\* hermetic we stage the user's sources" (build.py:63-66): what a node computes
\* with a file built from a copy is the task the file is named for, as it was
\* in that copy, or it fails; whatever else was compiled on the machine, by
\* whom, and whichever sources were edited in the meantime.
BuildsGetTheirOwn ==
  \A s \in Shells \ inPlace, t \in TaskNames : out[s][t] # None =>
    Execute(Frame(out[s][t])) \subseteq
      {<<[task |-> t, from |-> staged[s]], <<>> >>}

\* "A missing or corrupt cache file is treated as a miss ... so a bad entry can
\* never wedge a build" (cache.rs:58-62).  A build that is interrupted between
\* two writes does leave such an entry, and get takes it for a hit for good;
\* short of that an incomplete entry has somebody who will complete it.
TornHasAWriter ==
  crashes = 0 =>
    \A k \in Keys : cache[k] # None /\ cache[k].fill # "whole" =>
      \E s \in Shells : Writing(s, k)

\* A manifest stands beside the files of its own tasks only, and, unless it is
\* being removed or that was interrupted, beside all of them: rmtree comes
\* first (build.py:114-115) and the manifest last (build.py:148).
ManifestFits ==
  \A s \in Shells : manifest[s] # None =>
    /\ OutFiles(s) \subseteq Exports[manifest[s]]
    /\ pc[s] \notin {"clear", "clean"} /\ crashes = 0 =>
         OutFiles(s) = Exports[manifest[s]]
=============================================================================
