------------------------------ MODULE Analysis ------------------------------
(***************************************************************************)
(* The static analysis `tandem build` runs over the tasks of a module      *)
(* before it compiles them (cli/analysis.py): a depth-first walk through    *)
(* the functions a task mentions, which remembers what it found of each    *)
(* helper and takes a helper that is on its own stack for an error.        *)
(*                                                                         *)
(* A program is, for each function of the module, the functions of the     *)
(* same module its body names and the codes of the errors in the body      *)
(* itself.  What the walk never opens is not in `calls`: functions of      *)
(* other modules, and the bodies of nested functions and lambdas.          *)
(***************************************************************************)
EXTENDS Integers, Sequences, FiniteSets

CONSTANTS
  Functions,  \* the functions of the module
  Tasks       \* those that are decorated with a Tandem marker

ASSUME AnalysisAssumption == IsFiniteSet(Functions) /\ Tasks \subseteq Functions

\* Captures a variable, reads a plain global, does I/O, has no source.
Codes == {"TANDEM001", "TANDEM002", "TANDEM004", "TANDEM005"}
Verdicts == {"unknown", "clean", "bad"}

VARIABLES
  calls, faults,  \* the program; it does not change
  stack,          \* the calls of _analyze_function under way, innermost last
  known,          \* _helper_cache
  report          \* the TaskAnalysis of each task

program == <<calls, faults>>
analysisVars == <<calls, faults, stack, known, report>>

\* What a name stands for: the function itself or, when the name is that of a
\* task and another function uses it, the decorator's wrapper, which captures
\* the function it wraps and names nothing of the module.
Wrapped(f, helper) == helper /\ f \in Tasks
OwnFaults(f, helper) == IF Wrapped(f, helper) THEN {"TANDEM001"} ELSE faults[f]
Named(f, helper) == IF Wrapped(f, helper) THEN {} ELSE calls[f]

\* A function without source is not looked into.
Visit(f, helper) ==
  [fn |-> f, helper |-> helper,
   todo |-> IF "TANDEM005" \in OwnFaults(f, helper) THEN {} ELSE Named(f, helper),
   bad |-> OwnFaults(f, helper) # {}]

Visits == [fn : Functions, helper : BOOLEAN, todo : SUBSET Functions, bad : BOOLEAN]

Top == stack[Len(stack)]

\* _helper_stack: the function of a task is analysed without entering it.
InProgress(h) == \E i \in DOMAIN stack : stack[i].helper /\ stack[i].fn = h

\* The frame on top goes on without h, which it may count against itself.
Passed(h, bad) ==
  [stack EXCEPT ![Len(stack)] =
     [Top EXCEPT !.todo = @ \ {h}, !.bad = Top.bad \/ bad]]

----------------------------------------------------------------------------

\* The tasks come in the order of their names, which is left open here.
AnalyzeTask(t) ==
  /\ stack = <<>> /\ report[t] = "unknown"
  /\ stack' = <<Visit(t, FALSE)>>
  /\ UNCHANGED <<program, known, report>>

UseKnown(h) ==
  /\ stack # <<>> /\ h \in Top.todo
  /\ known[h] # "unknown"
  /\ stack' = Passed(h, known[h] = "bad")
  /\ UNCHANGED <<program, known, report>>

\* Faulty: takes a helper that is being analysed for a good one.
TrustRecursion(h) ==
  /\ stack # <<>> /\ h \in Top.todo
  /\ known[h] = "unknown" /\ InProgress(h)
  /\ stack' = Passed(h, FALSE)
  /\ UNCHANGED <<program, known, report>>

\* TANDEM006; the answer is for this use of the helper and is not kept.
Recursive(h) ==
  /\ stack # <<>> /\ h \in Top.todo
  /\ known[h] = "unknown" /\ InProgress(h)
  /\ stack' = Passed(h, TRUE)
  /\ UNCHANGED <<program, known, report>>

AnalyzeHelper(h) ==
  /\ stack # <<>> /\ h \in Top.todo
  /\ known[h] = "unknown" /\ ~InProgress(h)
  /\ stack' = Append(Passed(h, FALSE), Visit(h, TRUE))
  /\ UNCHANGED <<program, known, report>>

Verdict(bad) == IF bad THEN "bad" ELSE "clean"

\* Faulty: the helper's errors do not reach the function that uses it.
FinishHelperQuietly ==
  /\ stack # <<>> /\ Top.todo = {} /\ Top.helper
  /\ known' = [known EXCEPT ![Top.fn] = Verdict(Top.bad)]
  /\ stack' = SubSeq(stack, 1, Len(stack) - 1)
  /\ UNCHANGED <<program, report>>

\* The helper leaves the stack for the cache; its user, one below, has
\* TANDEM003 if there was an error.
FinishHelper ==
  /\ stack # <<>> /\ Top.todo = {} /\ Top.helper
  /\ known' = [known EXCEPT ![Top.fn] = Verdict(Top.bad)]
  /\ stack' = [i \in 1..(Len(stack) - 1) |->
                 IF i = Len(stack) - 1
                   THEN [stack[i] EXCEPT !.bad = @ \/ Top.bad]
                   ELSE stack[i]]
  /\ UNCHANGED <<program, report>>

FinishTask ==
  /\ stack # <<>> /\ Top.todo = {} /\ ~Top.helper
  /\ report' = [report EXCEPT ![Top.fn] = Verdict(Top.bad)]
  /\ stack' = <<>>
  /\ UNCHANGED <<program, known>>

NothingKnown ==
  /\ stack = <<>>
  /\ known = [f \in Functions |-> "unknown"]
  /\ report = [t \in Tasks |-> "unknown"]

AnalysisInit ==
  /\ calls \in [Functions -> SUBSET Functions]
  /\ faults \in [Functions -> SUBSET Codes]
  /\ NothingKnown

AnalysisNext ==
  \/ \E t \in Tasks : AnalyzeTask(t)
  \/ \E h \in Functions : UseKnown(h) \/ Recursive(h) \/ AnalyzeHelper(h)
  \/ FinishHelper \/ FinishTask

AnalysisSpec == AnalysisInit /\ [][AnalysisNext]_analysisVars

----------------------------------------------------------------------------
(* Properties *)

\* The type of every variable.
AnalysisTypeOK ==
  /\ calls \in [Functions -> SUBSET Functions]
  /\ faults \in [Functions -> SUBSET Codes]
  /\ stack \in Seq(Visits)
  /\ known \in [Functions -> Verdicts]
  /\ report \in [Tasks -> Verdicts]

Passes(h) == known[h] = "clean"

\* "Run static validation over all discovered Tandem tasks" (analysis.py:512):
\* what passes does so with everything it uses.  The helpers found clean have
\* no error of their own and use clean helpers only, whatever the order they
\* were met in and whichever of them were on the stack at the time; and a task
\* that passes uses clean helpers only.
CleanIsClosed ==
  /\ \A h \in Functions : Passes(h) =>
       /\ OwnFaults(h, TRUE) = {}
       /\ \A g \in Named(h, TRUE) : Passes(g)
  /\ \A t \in Tasks : report[t] = "clean" =>
       /\ faults[t] = {}
       /\ \A g \in calls[t] : Passes(g)

\* A set that contains a helper with no error whenever it has all it uses.
Closed(S) ==
  \A h \in Functions :
    OwnFaults(h, TRUE) = {} /\ Named(h, TRUE) \subseteq S => h \in S

\* The reference, the least of these sets: what is on a cycle, or leads to one, or
\* leads to an error, is not forced into it.
Independent ==
  {h \in Functions : \A S \in SUBSET Functions : Closed(S) => h \in S}

\* "is recursive or mutually recursive" (analysis.py:390), "violates the Tandem
\* independence rule" (analysis.py:483): every verdict, kept or reported, is
\* that of the reference, so none depends on the order of the tasks or on what
\* the cache held.
VerdictsAreRight ==
  /\ \A h \in Functions : known[h] # "unknown" =>
       (Passes(h) <=> h \in Independent)
  /\ \A t \in Tasks : report[t] # "unknown" =>
       (report[t] = "clean" <=> faults[t] = {} /\ calls[t] \subseteq Independent)
=============================================================================
