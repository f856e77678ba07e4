---------------------------- MODULE ProjectsProofs ----------------------------
(***************************************************************************)
(* What happens to a project, one part after the other: the analysis       *)
(* (analysis.py), the compile engine and its cache (lib.rs) and the        *)
(* deployments (deploy.py, serve.py, api.py).  The parts share no state;   *)
(* each has an inductive invariant of its own.                             *)
(***************************************************************************)
EXTENDS Analysis, Builds, Deployments, SequenceTheorems, FiniteSetTheorems, TLAPS

----------------------------------------------------------------------------
(***************************************************************************)
(* The analysis, for every module, however many functions it has and       *)
(* however they use each other.  A clean verdict is given when the frame   *)
(* of a function is finished, and rests on what happened to each of the    *)
(* functions it names since the frame was opened; so the inductive         *)
(* invariant says of every frame on the stack what it has made sure of so  *)
(* far (FrameOK), and that no verdict it relies on is still to come, but   *)
(* for the one of the frame above it.                                      *)
(***************************************************************************)

USE AnalysisAssumption

\* The functions a frame has dealt with.
Done(v) == Named(v.fn, v.helper) \ v.todo

\* Frame i of stack s, when the cache holds k.
FrameOK(s, k, i) ==
  /\ s[i].helper <=> i # 1
  /\ i = 1 => s[i].fn \in Tasks
  /\ s[i].todo \subseteq Named(s[i].fn, s[i].helper)
  /\ s[i].helper => k[s[i].fn] = "unknown"
  /\ ~s[i].bad =>
       /\ OwnFaults(s[i].fn, s[i].helper) = {}
       /\ \A g \in Done(s[i]) :
            k[g] = "clean" \/ (i < Len(s) /\ s[i + 1].fn = g)

StackOK ==
  /\ \A i \in 1..Len(stack) : FrameOK(stack, known, i)
  /\ \A i, j \in 2..Len(stack) : i # j => stack[i].fn # stack[j].fn

AnalysisInv == AnalysisTypeOK /\ StackOK /\ CleanIsClosed

----------------------------------------------------------------------------
(* The stack *)

\* The frame on top, and what it names.
LEMMA TopFacts ==
  ASSUME AnalysisTypeOK, stack # <<>>
  PROVE  /\ Len(stack) \in Nat \ {0}
         /\ Len(stack) \in 1..Len(stack)
         /\ \A i \in 1..Len(stack) : stack[i] \in Visits
         /\ Top = stack[Len(stack)]
         /\ Top.fn \in Functions /\ Top.helper \in BOOLEAN
         /\ Top.todo \subseteq Functions /\ Top.bad \in BOOLEAN
<1>1. stack \in Seq(Visits)
  BY DEF AnalysisTypeOK
<1>2. Len(stack) \in Nat \ {0} /\ \A i \in 1..Len(stack) : stack[i] \in Visits
  BY <1>1
<1>3. Top \in Visits
  BY <1>2 DEF Top
<1> QED
  BY <1>2, <1>3 DEF Top, Visits

\* The functions an opened frame names are functions of the module.
LEMMA VisitFacts ==
  ASSUME AnalysisTypeOK, NEW f \in Functions, NEW helper \in BOOLEAN
  PROVE  /\ Named(f, helper) \subseteq Functions
         /\ Visit(f, helper) \in Visits
         /\ Visit(f, helper).fn = f /\ Visit(f, helper).helper = helper
         /\ Visit(f, helper).todo \subseteq Named(f, helper)
         /\ ~Visit(f, helper).bad =>
              OwnFaults(f, helper) = {} /\ Visit(f, helper).todo = Named(f, helper)
<1>1. Named(f, helper) \subseteq Functions
  BY DEF AnalysisTypeOK, Named
<1>2. (OwnFaults(f, helper) # {}) \in BOOLEAN
  OBVIOUS
<1> QED
  BY <1>1, <1>2 DEF Visit, Visits

\* Going on without h changes the frame on top only.
LEMMA PassedFacts ==
  ASSUME AnalysisTypeOK, stack # <<>>, NEW h \in Functions, NEW b \in BOOLEAN
  PROVE  /\ Passed(h, b) \in Seq(Visits)
         /\ Len(Passed(h, b)) = Len(stack)
         /\ \A i \in 1..Len(stack) :
              /\ Passed(h, b)[i].fn = stack[i].fn
              /\ Passed(h, b)[i].helper = stack[i].helper
              /\ i # Len(stack) => Passed(h, b)[i] = stack[i]
              /\ i = Len(stack) =>
                   /\ Passed(h, b)[i].todo = stack[i].todo \ {h}
                   /\ Passed(h, b)[i].bad = (stack[i].bad \/ b)
<1> DEFINE n == Len(stack)
           v == [Top EXCEPT !.todo = @ \ {h}, !.bad = Top.bad \/ b]
<1>1. stack \in Seq(Visits) /\ n \in 1..n
  BY TopFacts DEF AnalysisTypeOK
<1>2. Top \in Visits /\ Top = stack[n]
  BY <1>1, TopFacts
<1>3. /\ v \in Visits
      /\ v.fn = Top.fn /\ v.helper = Top.helper
      /\ v.todo = Top.todo \ {h} /\ v.bad = (Top.bad \/ b)
  BY <1>2 DEF Visits
<1>4. Passed(h, b) = [stack EXCEPT ![n] = v]
  BY DEF Passed
<1>5. /\ Passed(h, b) \in Seq(Visits)
      /\ Len(Passed(h, b)) = n
      /\ \A j \in 1..n : Passed(h, b)[j] = IF j = n THEN v ELSE stack[j]
  <2> HIDE DEF v
  <2> QED
    BY <1>1, <1>3, <1>4, ExceptSeq
<1> QED
  BY <1>2, <1>3, <1>5

\* A clean verdict stays closed under what does not touch the cache, the program
\* or the reports.
LEMMA ClosedStays ==
  ASSUME AnalysisInv, UNCHANGED <<calls, faults, known, report>>
  PROVE  CleanIsClosed'
BY DEF AnalysisInv, CleanIsClosed, Passes, OwnFaults, Named, Wrapped

\* It is enough to look at the new stack and the new cache: the program stays.
LEMMA NewStack ==
  ASSUME UNCHANGED program,
         \A i \in 1..Len(stack') : FrameOK(stack', known', i),
         \A i, j \in 2..Len(stack') : i # j => stack'[i].fn # stack'[j].fn
  PROVE  StackOK'
BY DEF StackOK, FrameOK, Done, Named, OwnFaults, Wrapped, program

\* A stack of one frame.
LEMMA OneFrame ==
  ASSUME NEW v \in Visits
  PROVE  <<v>> \in Seq(Visits) /\ Len(<<v>>) = 1 /\ <<v>>[1] = v
OBVIOUS

----------------------------------------------------------------------------
(* The steps *)

\* Before the first task nothing is on the stack and nothing is clean.
LEMMA AnalysisInitInv == AnalysisInit => AnalysisInv
<1> SUFFICES ASSUME AnalysisInit PROVE AnalysisInv
  OBVIOUS
<1>1. stack = <<>> /\ stack \in Seq(Visits) /\ Len(stack) = 0
  BY DEF AnalysisInit, NothingKnown
<1>2. AnalysisTypeOK
  BY <1>1 DEF AnalysisInit, NothingKnown, AnalysisTypeOK, Verdicts
<1>3. StackOK
  BY <1>1 DEF StackOK
<1>4. CleanIsClosed
  BY DEF AnalysisInit, NothingKnown, CleanIsClosed, Passes
<1> QED
  BY <1>2, <1>3, <1>4 DEF AnalysisInv

\* A task's own frame is the first.
LEMMA AnalyzeTaskInv ==
  ASSUME AnalysisInv, NEW t \in Tasks, AnalyzeTask(t)
  PROVE  AnalysisInv'
<1>1. t \in Functions /\ AnalysisTypeOK
  BY DEF AnalysisInv, AnalysisAssumption
<1>2. /\ stack' = <<Visit(t, FALSE)>>
      /\ UNCHANGED <<calls, faults, known, report>>
  BY DEF AnalyzeTask, program
<1>3. Visit(t, FALSE) \in Visits
  BY <1>1, VisitFacts
<1>4. /\ stack' \in Seq(Visits) /\ Len(stack') = 1
      /\ stack'[1] = Visit(t, FALSE)
  BY <1>2, <1>3, OneFrame
<1>5. AnalysisTypeOK'
  BY <1>1, <1>2, <1>4 DEF AnalysisTypeOK
<1>6. StackOK'
  <2>1. FrameOK(stack', known', 1)
    <3> PICK v : v = Visit(t, FALSE)
      OBVIOUS
    <3>2. /\ v.fn = t /\ v.helper = FALSE /\ v.todo \subseteq Named(t, FALSE)
          /\ ~v.bad => OwnFaults(t, FALSE) = {} /\ v.todo = Named(t, FALSE)
      BY <1>1, VisitFacts
    <3>1. /\ stack'[1].fn = t /\ stack'[1].helper = FALSE
          /\ stack'[1].todo \subseteq Named(t, FALSE)
          /\ ~stack'[1].bad => OwnFaults(t, FALSE) = {} /\ stack'[1].todo = Named(t, FALSE)
      BY <1>4, <3>2
    <3> QED
      BY <3>1 DEF FrameOK, Done
  <2>2. \A i \in 1..Len(stack') : FrameOK(stack', known', i)
    BY <1>4, <2>1
  <2>3. \A i, j \in 2..Len(stack') : i # j => stack'[i].fn # stack'[j].fn
    BY <1>4
  <2> QED
    BY <1>2, <2>2, <2>3, NewStack DEF program
<1>7. CleanIsClosed'
  BY <1>2, ClosedStays
<1> QED
  BY <1>5, <1>6, <1>7 DEF AnalysisInv

\* What a frame goes on without is clean, or counts against it.
LEMMA PassInv ==
  ASSUME AnalysisInv, stack # <<>>, NEW h \in Top.todo, NEW b \in BOOLEAN,
         b \/ known[h] = "clean",
         stack' = Passed(h, b), UNCHANGED <<program, known, report>>
  PROVE  AnalysisInv'
<1> DEFINE n == Len(stack)
<1>1. AnalysisTypeOK /\ StackOK /\ h \in Functions
  BY TopFacts DEF AnalysisInv
<1>2. n \in Nat \ {0}
  BY <1>1, TopFacts
<1>3. /\ stack' \in Seq(Visits) /\ Len(stack') = n
      /\ \A i \in 1..n :
           /\ stack'[i].fn = stack[i].fn
           /\ stack'[i].helper = stack[i].helper
           /\ i # n => stack'[i] = stack[i]
           /\ i = n => /\ stack'[i].todo = stack[i].todo \ {h}
                       /\ stack'[i].bad = (stack[i].bad \/ b)
  BY <1>1, PassedFacts
<1>4. UNCHANGED <<calls, faults, known, report>>
  BY DEF program
<1>5. AnalysisTypeOK'
  BY <1>1, <1>3, <1>4 DEF AnalysisTypeOK
<1>6. ASSUME NEW i \in 1..n PROVE FrameOK(stack', known', i)
  <2>1. FrameOK(stack, known, i)
    BY <1>1 DEF StackOK
  <2>2. CASE i # n
    <3>1. i + 1 \in 1..n /\ stack'[i + 1].fn = stack[i + 1].fn
      BY <1>2, <1>3, <2>2
    <3> QED
      BY <1>3, <1>4, <2>1, <2>2, <3>1 DEF FrameOK
  <2>3. CASE i = n
    <3>1. ~stack'[i].bad => ~stack[i].bad /\ known[h] = "clean"
      BY <1>3, <2>3
    <3>2. Done(stack'[i]) \subseteq Done(stack[i]) \cup {h}
      BY <1>3, <2>3 DEF Done
    <3> QED
      BY <1>2, <1>3, <1>4, <2>1, <2>3, <3>1, <3>2 DEF FrameOK
  <2> QED
    BY <2>2, <2>3
<1>7. \A i, j \in 2..n : i # j => stack'[i].fn # stack'[j].fn
  BY <1>1, <1>2, <1>3 DEF StackOK
<1>8. StackOK'
  BY <1>3, <1>6, <1>7, NewStack
<1>9. CleanIsClosed'
  BY <1>4, ClosedStays
<1> QED
  BY <1>5, <1>8, <1>9 DEF AnalysisInv

\* A helper is entered when it has no verdict and is not on the stack.
LEMMA AnalyzeHelperInv ==
  ASSUME AnalysisInv, NEW h \in Functions, AnalyzeHelper(h)
  PROVE  AnalysisInv'
<1> DEFINE n == Len(stack)
           v == Visit(h, TRUE)
           p == Passed(h, FALSE)
<1>1. /\ AnalysisTypeOK /\ StackOK
      /\ stack # <<>> /\ h \in Top.todo
      /\ known[h] = "unknown" /\ ~InProgress(h)
      /\ stack' = Append(p, v)
      /\ UNCHANGED <<calls, faults, known, report>>
  BY DEF AnalysisInv, AnalyzeHelper, program
<1>2. n \in Nat \ {0} /\ stack \in Seq(Visits)
  BY <1>1, TopFacts DEF AnalysisTypeOK
<1>3. /\ v \in Visits /\ v.fn = h /\ v.helper = TRUE
      /\ v.todo \subseteq Named(h, TRUE)
      /\ ~v.bad => OwnFaults(h, TRUE) = {} /\ v.todo = Named(h, TRUE)
  BY <1>1, VisitFacts
<1>4. /\ p \in Seq(Visits) /\ Len(p) = n
      /\ \A i \in 1..n :
           /\ p[i].fn = stack[i].fn
           /\ p[i].helper = stack[i].helper
           /\ i # n => p[i] = stack[i]
           /\ i = n => /\ p[i].todo = stack[i].todo \ {h}
                       /\ p[i].bad = (stack[i].bad \/ FALSE)
  BY <1>1, PassedFacts
<1>5. /\ stack' \in Seq(Visits) /\ Len(stack') = n + 1
      /\ stack'[n + 1] = v
      /\ \A i \in 1..n : stack'[i] = p[i]
  <2> HIDE DEF v, p, n
  <2> QED
    BY <1>1, <1>2, <1>3, <1>4
<1> HIDE DEF v, p
<1>6. AnalysisTypeOK'
  BY <1>1, <1>5 DEF AnalysisTypeOK
<1>7. ASSUME NEW i \in 1..n PROVE FrameOK(stack', known', i)
  <2>1. FrameOK(stack, known, i)
    BY <1>1 DEF StackOK
  <2>2. CASE i # n
    <3>2. i \in 1..n /\ i + 1 \in 1..n
      BY <1>2, <2>2
    <3>1. /\ i + 1 \in 1..n /\ stack'[i + 1].fn = stack[i + 1].fn
          /\ stack'[i] = stack[i]
      BY <1>4, <1>5, <2>2, <3>2
    <3> QED
      BY <1>1, <1>2, <1>5, <2>1, <2>2, <3>1 DEF FrameOK
  <2>3. CASE i = n
    <3>1. /\ stack'[i].fn = stack[i].fn /\ stack'[i].helper = stack[i].helper
          /\ stack'[i].todo = stack[i].todo \ {h}
          /\ ~stack'[i].bad => ~stack[i].bad
          /\ stack'[i + 1].fn = h
      BY <1>3, <1>4, <1>5, <2>3
    <3>2. Done(stack'[i]) \subseteq Done(stack[i]) \cup {h}
      BY <3>1 DEF Done
    <3> QED
      BY <1>1, <1>2, <1>5, <2>1, <2>3, <3>1, <3>2 DEF FrameOK
  <2> QED
    BY <2>2, <2>3
<1>8. FrameOK(stack', known', n + 1)
  <2>1. n + 1 # 1 /\ ~(n + 1 < Len(stack'))
    BY <1>2, <1>5
  <2>2. /\ stack'[n + 1].fn = h /\ stack'[n + 1].helper = TRUE
        /\ stack'[n + 1].todo \subseteq Named(h, TRUE)
        /\ ~stack'[n + 1].bad =>
             OwnFaults(h, TRUE) = {} /\ stack'[n + 1].todo = Named(h, TRUE)
    BY <1>3, <1>5
  <2>3. known'[h] = "unknown"
    BY <1>1
  <2> QED
    BY <2>1, <2>2, <2>3 DEF FrameOK, Done
<1>9. \A i \in 1..Len(stack') : FrameOK(stack', known', i)
  BY <1>2, <1>5, <1>7, <1>8
<1>10. \A i, j \in 2..Len(stack') : i # j => stack'[i].fn # stack'[j].fn
  <2>1. \A i \in 2..n : stack'[i].fn = stack[i].fn /\ stack'[i].fn # h
    <3> SUFFICES ASSUME NEW i \in 2..n
                 PROVE  stack'[i].fn = stack[i].fn /\ stack'[i].fn # h
      OBVIOUS
    <3>1. i \in 1..n /\ i # 1 /\ i \in DOMAIN stack
      BY <1>2
    <3>2. stack[i].helper
      BY <1>1, <3>1 DEF StackOK, FrameOK
    <3> QED
      BY <1>1, <1>4, <1>5, <3>1, <3>2 DEF InProgress
  <2>2. \A i, j \in 2..n : i # j => stack[i].fn # stack[j].fn
    BY <1>1 DEF StackOK
  <2>3. stack'[n + 1].fn = h
    BY <1>3, <1>5
  <2>4. \A i \in 2..Len(stack') : i \in 2..n \/ i = n + 1
    BY <1>2, <1>5
  <2> QED
    BY <2>1, <2>2, <2>3, <2>4
<1>11. StackOK'
  BY <1>1, <1>9, <1>10, NewStack DEF program
<1>12. CleanIsClosed'
  BY <1>1, ClosedStays
<1> QED
  BY <1>6, <1>11, <1>12 DEF AnalysisInv

\* The verdict on the helper on top is kept, and an error of it counts against
\* the frame below, which was waiting for it.
LEMMA FinishHelperInv ==
  ASSUME AnalysisInv, FinishHelper
  PROVE  AnalysisInv'
<1> DEFINE n == Len(stack)
           f == Top.fn
<1>1. /\ AnalysisTypeOK /\ StackOK /\ CleanIsClosed
      /\ stack # <<>> /\ Top.todo = {} /\ Top.helper
      /\ known' = [known EXCEPT ![f] = Verdict(Top.bad)]
      /\ stack' = [i \in 1..(n - 1) |->
                     IF i = n - 1 THEN [stack[i] EXCEPT !.bad = @ \/ Top.bad]
                                  ELSE stack[i]]
      /\ UNCHANGED <<calls, faults, report>>
  BY DEF AnalysisInv, FinishHelper, program
<1>2. /\ n \in Nat \ {0} /\ n \in 1..n /\ stack \in Seq(Visits)
      /\ \A i \in 1..n : stack[i] \in Visits
      /\ Top = stack[n] /\ f \in Functions /\ Top.bad \in BOOLEAN
  BY <1>1, TopFacts DEF AnalysisTypeOK
<1>3. FrameOK(stack, known, n)
  BY <1>1, <1>2 DEF StackOK
<1>4. n # 1 /\ n - 1 \in 1..n /\ n - 1 \in Nat
  <2>1. stack[n].helper
    BY <1>1, <1>2
  <2>2. n # 1
    BY <1>3, <2>1 DEF FrameOK
  <2>3. n \in Nat \ {0}
    BY <1>2
  <2> HIDE DEF n
  <2> QED
    BY <2>2, <2>3
<1>5. known[f] = "unknown"
  BY <1>1, <1>2, <1>3 DEF FrameOK
<1>6. ~Top.bad =>
        /\ OwnFaults(f, TRUE) = {}
        /\ \A g \in Named(f, TRUE) : known[g] = "clean"
  <2>1. stack[n].helper = TRUE /\ stack[n].todo = {} /\ stack[n].fn = f
    BY <1>1, <1>2 DEF Visits
  <2>2. Done(stack[n]) = Named(f, TRUE)
    <3> HIDE DEF n, f
    <3> QED
      BY <2>1 DEF Done
  <2>3. ~(n < Len(stack))
    BY <1>2
  <2> HIDE DEF f
  <2> QED
    BY <1>2, <1>3, <2>1, <2>2, <2>3 DEF FrameOK
<1>7. /\ known' \in [Functions -> Verdicts]
      /\ known'[f] = Verdict(Top.bad)
      /\ \A g \in Functions \ {f} : known'[g] = known[g]
      /\ \A g \in Functions : known[g] = "clean" => known'[g] = "clean"
  <2>1. Verdict(Top.bad) \in Verdicts
    BY DEF Verdict, Verdicts
  <2> QED
    BY <1>1, <1>2, <1>5, <2>1 DEF AnalysisTypeOK
<1>8. \A i \in 1..(n - 1) :
        /\ stack'[i] \in Visits
        /\ stack'[i].fn = stack[i].fn
        /\ stack'[i].helper = stack[i].helper
        /\ stack'[i].todo = stack[i].todo
        /\ i # n - 1 => stack'[i] = stack[i]
        /\ i = n - 1 => stack'[i].bad = (stack[i].bad \/ Top.bad)
  <2> SUFFICES ASSUME NEW i \in 1..(n - 1)
               PROVE  /\ stack'[i] \in Visits
                      /\ stack'[i].fn = stack[i].fn
                      /\ stack'[i].helper = stack[i].helper
                      /\ stack'[i].todo = stack[i].todo
                      /\ i # n - 1 => stack'[i] = stack[i]
                      /\ i = n - 1 => stack'[i].bad = (stack[i].bad \/ Top.bad)
    OBVIOUS
  <2>1. stack[i] \in Visits
    BY <1>2
  <2>2. CASE i # n - 1
    BY <1>1, <2>1, <2>2
  <2>3. CASE i = n - 1
    <3>1. stack'[i] = [stack[i] EXCEPT !.bad = stack[i].bad \/ Top.bad]
      BY <1>1, <2>3
    <3> QED
      BY <1>2, <2>1, <2>3, <3>1 DEF Visits
  <2> QED
    BY <2>2, <2>3
<1>9. stack' \in Seq(Visits) /\ Len(stack') = n - 1
  <2> HIDE DEF n, f
  <2>1. stack' \in [1..(n - 1) -> Visits]
    BY <1>1, <1>8
  <2> QED
    BY <1>4, <2>1, IsASeq
<1>10. AnalysisTypeOK'
  BY <1>1, <1>7, <1>9 DEF AnalysisTypeOK
<1>11. \A i, j \in 2..n : i # j => stack[i].fn # stack[j].fn
  BY <1>1 DEF StackOK
<1>12. ASSUME NEW i \in 1..(n - 1) PROVE FrameOK(stack', known', i)
  <2>1. FrameOK(stack, known, i) /\ i \in 1..n /\ stack[i] \in Visits
    BY <1>1, <1>2 DEF StackOK
  <2>2. stack[i].helper => known'[stack[i].fn] = "unknown"
    <3> SUFFICES ASSUME stack[i].helper PROVE known'[stack[i].fn] = "unknown"
      OBVIOUS
    <3>1. i # 1 /\ known[stack[i].fn] = "unknown"
      BY <2>1 DEF FrameOK
    <3>2. stack[i].fn # f
      BY <1>2, <1>4, <1>11, <3>1
    <3> QED
      BY <1>7, <2>1, <3>1, <3>2 DEF Visits
  <2>3. ASSUME ~stack'[i].bad
        PROVE  /\ OwnFaults(stack'[i].fn, stack'[i].helper) = {}
               /\ \A g \in Done(stack'[i]) :
                    known'[g] = "clean" \/ (i < n - 1 /\ stack'[i + 1].fn = g)
    <3>1. ~stack[i].bad /\ (i = n - 1 => ~Top.bad)
      BY <1>8, <2>1, <2>3
    <3>2. Done(stack'[i]) = Done(stack[i])
      BY <1>8 DEF Done
    <3>3. ASSUME NEW g \in Done(stack[i])
          PROVE  known'[g] = "clean" \/ (i < n - 1 /\ stack'[i + 1].fn = g)
      <4>1. g \in Functions
        BY <1>1, <2>1, VisitFacts DEF Done, Visits
      <4>2. CASE known[g] = "clean"
        BY <1>7, <4>1, <4>2
      <4>3. CASE i < n - 1 /\ stack[i + 1].fn = g
        BY <1>2, <1>8, <4>3
      <4>4. CASE i = n - 1 /\ stack[i + 1].fn = g
        BY <1>2, <1>7, <3>1, <4>4 DEF Verdict
      <4> QED
        BY <1>2, <2>1, <3>1, <4>2, <4>3, <4>4 DEF FrameOK
    <3>4. OwnFaults(stack'[i].fn, stack'[i].helper) = {}
      BY <1>8, <2>1, <3>1 DEF FrameOK
    <3> QED
      BY <3>2, <3>3, <3>4
  <2> QED
    BY <1>8, <1>9, <2>1, <2>2, <2>3 DEF FrameOK
<1>13. StackOK'
  <2>1. \A i, j \in 2..Len(stack') : i # j => stack'[i].fn # stack'[j].fn
    BY <1>2, <1>8, <1>9, <1>11
  <2> QED
    BY <1>1, <1>9, <1>12, <2>1, NewStack DEF program
<1>14. CleanIsClosed'
  <2>1. \A g \in Functions : known'[g] = "clean" =>
          /\ OwnFaults(g, TRUE) = {}
          /\ \A k \in Named(g, TRUE) : known'[k] = "clean"
    <3> SUFFICES ASSUME NEW g \in Functions, known'[g] = "clean"
                 PROVE  /\ OwnFaults(g, TRUE) = {}
                        /\ \A k \in Named(g, TRUE) : known'[k] = "clean"
      OBVIOUS
    <3>1. Named(g, TRUE) \subseteq Functions
      BY <1>1, VisitFacts
    <3>2. CASE g = f
      BY <1>6, <1>7, <3>1, <3>2 DEF Verdict
    <3>3. CASE g # f
      BY <1>1, <1>7, <3>1, <3>3 DEF CleanIsClosed, Passes
    <3> QED
      BY <3>2, <3>3
  <2>2. \A t \in Tasks : report[t] = "clean" =>
          faults[t] = {} /\ \A g \in calls[t] : known'[g] = "clean"
    <3>1. \A t \in Tasks : calls[t] \subseteq Functions
      BY <1>1, AnalysisAssumption DEF AnalysisTypeOK
    <3> QED
      BY <1>1, <1>7, <3>1 DEF CleanIsClosed, Passes
  <2> QED
    BY <1>1, <2>1, <2>2 DEF CleanIsClosed, Passes, OwnFaults, Named, Wrapped
<1> QED
  BY <1>10, <1>13, <1>14 DEF AnalysisInv

\* The task's own frame is the last to go.
LEMMA FinishTaskInv ==
  ASSUME AnalysisInv, FinishTask
  PROVE  AnalysisInv'
<1> DEFINE n == Len(stack)
           t == Top.fn
<1>1. /\ AnalysisTypeOK /\ StackOK /\ CleanIsClosed
      /\ stack # <<>> /\ Top.todo = {} /\ ~Top.helper
      /\ report' = [report EXCEPT ![t] = Verdict(Top.bad)]
      /\ stack' = <<>>
      /\ UNCHANGED <<calls, faults, known>>
  BY DEF AnalysisInv, FinishTask, program
<1>2. n \in 1..n /\ Top = stack[n] /\ Top.bad \in BOOLEAN
  BY <1>1, TopFacts
<1>3. FrameOK(stack, known, n)
  BY <1>1, <1>2 DEF StackOK
<1>4. n = 1 /\ t \in Tasks
  BY <1>1, <1>2, <1>3 DEF FrameOK
<1>5. ~Top.bad => faults[t] = {} /\ \A g \in calls[t] : known[g] = "clean"
  BY <1>1, <1>2, <1>3, <1>4 DEF FrameOK, Done, OwnFaults, Named, Wrapped
<1>6. /\ report' \in [Tasks -> Verdicts]
      /\ report'[t] = Verdict(Top.bad)
      /\ \A u \in Tasks \ {t} : report'[u] = report[u]
  <2>1. Verdict(Top.bad) \in Verdicts
    BY DEF Verdict, Verdicts
  <2> QED
    BY <1>1, <1>4, <2>1 DEF AnalysisTypeOK
<1>7. stack' \in Seq(Visits) /\ Len(stack') = 0
  BY <1>1
<1>8. AnalysisTypeOK'
  BY <1>1, <1>6, <1>7 DEF AnalysisTypeOK
<1>9. StackOK'
  BY <1>7 DEF StackOK
<1>10. CleanIsClosed'
  <2>1. \A u \in Tasks : report'[u] = "clean" =>
          faults[u] = {} /\ \A g \in calls[u] : known[g] = "clean"
    BY <1>1, <1>5, <1>6 DEF CleanIsClosed, Passes, Verdict
  <2> QED
    BY <1>1, <2>1 DEF CleanIsClosed, Passes, OwnFaults, Named, Wrapped
<1> QED
  BY <1>8, <1>9, <1>10 DEF AnalysisInv

\* A helper whose verdict is known counts as the cache says.
LEMMA UseKnownInv ==
  ASSUME AnalysisInv, NEW h \in Functions, UseKnown(h)
  PROVE  AnalysisInv'
<1> DEFINE b == known[h] = "bad"
<1>1. stack # <<>> /\ h \in Top.todo /\ stack' = Passed(h, b)
  BY DEF UseKnown
<1>2. b \in BOOLEAN /\ UNCHANGED <<program, known, report>>
  BY DEF UseKnown
<1>3. b \/ known[h] = "clean"
  BY DEF AnalysisInv, AnalysisTypeOK, Verdicts, UseKnown
<1> HIDE DEF b
<1> QED
  BY <1>1, <1>2, <1>3, PassInv

\* A helper that is on the stack is an error of the function that uses it.
LEMMA RecursiveInv ==
  ASSUME AnalysisInv, NEW h \in Functions, Recursive(h)
  PROVE  AnalysisInv'
<1>1. /\ stack # <<>> /\ h \in Top.todo /\ stack' = Passed(h, TRUE)
      /\ UNCHANGED <<program, known, report>>
  BY DEF Recursive
<1> QED
  BY <1>1, PassInv

\* Every step preserves the invariant.
LEMMA AnalysisNextInv == AnalysisInv /\ [AnalysisNext]_analysisVars => AnalysisInv'
<1> SUFFICES ASSUME AnalysisInv, [AnalysisNext]_analysisVars PROVE AnalysisInv'
  OBVIOUS
<1>1. CASE \E t \in Tasks : AnalyzeTask(t)
  BY <1>1, AnalyzeTaskInv
<1>2. CASE \E h \in Functions : UseKnown(h)
  BY <1>2, UseKnownInv
<1>3. CASE \E h \in Functions : Recursive(h)
  BY <1>3, RecursiveInv
<1>4. CASE \E h \in Functions : AnalyzeHelper(h)
  BY <1>4, AnalyzeHelperInv
<1>5. CASE FinishHelper
  BY <1>5, FinishHelperInv
<1>6. CASE FinishTask
  BY <1>6, FinishTaskInv
<1>7. CASE UNCHANGED analysisVars
  <2>1. UNCHANGED <<calls, faults, stack, known, report>>
    BY <1>7 DEF analysisVars
  <2>2. AnalysisTypeOK' /\ CleanIsClosed'
    BY <2>1, ClosedStays DEF AnalysisInv, AnalysisTypeOK
  <2>3. StackOK'
    BY <2>1 DEF AnalysisInv, StackOK, FrameOK, Done, Named, OwnFaults, Wrapped
  <2> QED
    BY <2>2, <2>3 DEF AnalysisInv
<1> QED
  BY <1>1, <1>2, <1>3, <1>4, <1>5, <1>6, <1>7 DEF AnalysisNext

----------------------------------------------------------------------------
(* That the verdicts are right.  A clean verdict rests on what FrameOK says;  *)
(* a bad one on ChainOK: the functions on the stack use each other, so a     *)
(* helper met again while it is on the stack is on a cycle, and no cycle     *)
(* reaches into the least closed set.                                        *)

\* A frame whose function has no place in the reference.
Unfit(v) ==
  ~(OwnFaults(v.fn, v.helper) = {} /\ Named(v.fn, v.helper) \subseteq Independent)

\* Each function on the stack is used by the one below.
ChainOK ==
  \A i \in 1..Len(stack) - 1 : stack[i + 1].fn \in Named(stack[i].fn, stack[i].helper)

BadOK == \A i \in 1..Len(stack) : stack[i].bad => Unfit(stack[i])

VerdictsInv == ChainOK /\ BadOK /\ VerdictsAreRight

\* The reference has a helper exactly when it has no error and all it uses.
LEMMA IndependentFixed ==
  ASSUME NEW h \in Functions
  PROVE  h \in Independent <=> OwnFaults(h, TRUE) = {} /\ Named(h, TRUE) \subseteq Independent
<1>1. Closed(Independent) /\ Independent \in SUBSET Functions
  BY DEF Closed, Independent
<1>2. ASSUME NEW g \in Functions,
             OwnFaults(g, TRUE) = {}, Named(g, TRUE) \subseteq Independent
      PROVE  g \in Independent
  BY <1>1, <1>2 DEF Closed
<1>3. ASSUME h \in Independent,
             ~(OwnFaults(h, TRUE) = {} /\ Named(h, TRUE) \subseteq Independent)
      PROVE  FALSE
  <2> DEFINE S == Independent \ {h}
  <2>1. S \in SUBSET Functions /\ S \subseteq Independent /\ h \notin S
    BY <1>1
  <2>2. Closed(S)
    <3> SUFFICES ASSUME NEW g \in Functions,
                        OwnFaults(g, TRUE) = {}, Named(g, TRUE) \subseteq S
                 PROVE  g \in S
      BY DEF Closed
    <3>1. Named(g, TRUE) \subseteq Independent
      BY <2>1
    <3> QED
      BY <1>2, <1>3, <3>1
  <2> HIDE DEF S
  <2> QED
    BY <1>3, <2>1, <2>2 DEF Independent
<1> QED
  BY <1>2, <1>3

\* No set of functions that each use another of them meets the reference.
LEMMA CyclesStayOut ==
  ASSUME NEW C, \A c \in C : Named(c, TRUE) \cap C # {}
  PROVE  Independent \cap C = {}
<1> DEFINE S == Independent \ C
<1>1. S \in SUBSET Functions
  BY DEF Independent
<1>2. Closed(S)
  <2> SUFFICES ASSUME NEW g \in Functions,
                      OwnFaults(g, TRUE) = {}, Named(g, TRUE) \subseteq S
               PROVE  g \in S
    BY DEF Closed
  <2>1. g \in Independent
    BY IndependentFixed
  <2>2. g \notin C
    OBVIOUS
  <2> QED
    BY <2>1, <2>2
<1> HIDE DEF S
<1>3. Independent \subseteq S
  BY <1>1, <1>2 DEF Independent
<1> QED
  BY <1>3 DEF S

\* The reference is that of the program, which stays.
LEMMA ReferenceStays ==
  ASSUME UNCHANGED program
  PROVE  /\ Independent' = Independent
         /\ \A f, b : OwnFaults(f, b)' = OwnFaults(f, b) /\ Named(f, b)' = Named(f, b)
BY DEF program, Independent, Closed, OwnFaults, Named, Wrapped

\* A helper that is met again while it is on the stack is on a cycle.
LEMMA RecursionIsUnfit ==
  ASSUME AnalysisInv, ChainOK, stack # <<>>, NEW h \in Top.todo, InProgress(h)
  PROVE  h \notin Independent
<1>1. AnalysisTypeOK /\ StackOK
  BY DEF AnalysisInv
<1> DEFINE n == Len(stack)
<1>2. n \in Nat \ {0} /\ Top = stack[n] /\ DOMAIN stack = 1..n
  BY <1>1, TopFacts DEF AnalysisTypeOK
<1>3. PICK i \in 1..n : stack[i].helper /\ stack[i].fn = h
  BY <1>2 DEF InProgress
<1>4. \A j \in i..n : j \in 1..n /\ stack[j].helper = TRUE
  <2>1. \A j \in 1..n : stack[j].helper \in BOOLEAN /\ (stack[j].helper <=> j # 1)
    BY <1>1, TopFacts DEF Visits, StackOK, FrameOK
  <2>2. i # 1
    BY <1>3, <2>1
  <2>3. \A j \in i..n : j \in 1..n /\ j # 1
    BY <1>2, <1>3, <2>2
  <2> QED
    BY <2>1, <2>3
<1>5. h \in Named(stack[n].fn, TRUE)
  <2>1. n \in 1..n /\ n \in i..n
    BY <1>2, <1>3
  <2>2. stack[n].todo \subseteq Named(stack[n].fn, stack[n].helper)
    BY <1>1, <2>1 DEF StackOK, FrameOK
  <2> QED
    BY <1>2, <1>4, <2>1, <2>2
<1> DEFINE C == {stack[j].fn : j \in i..n}
<1>6. \A c \in C : Named(c, TRUE) \cap C # {}
  <2> SUFFICES ASSUME NEW j \in i..n
               PROVE  \E k \in i..n : stack[k].fn \in Named(stack[j].fn, TRUE)
    OBVIOUS
  <2>1. CASE j = n
    <3>1. i \in i..n
      BY <1>2, <1>3
    <3> QED
      BY <1>3, <1>5, <2>1, <3>1
  <2>2. CASE j # n
    <3>1. n \in Nat /\ i \in Nat /\ j \in Nat /\ i <= j /\ j <= n /\ 1 <= i
      BY <1>2, <1>3
    <3>2. j \in 1..n - 1 /\ j + 1 \in i..n
      BY <2>2, <3>1
    <3>3. stack[j].helper = TRUE
      BY <1>4
    <3> QED
      BY <3>2, <3>3 DEF ChainOK
  <2> QED
    BY <2>1, <2>2
<1>7. h \in C
  BY <1>2, <1>3
<1> HIDE DEF C
<1> QED
  BY <1>6, <1>7, CyclesStayOut

\* It is enough to look at the new stack: the program stays.
LEMMA NewFrames ==
  ASSUME UNCHANGED program,
         \A i \in 1..Len(stack') - 1 :
           stack'[i + 1].fn \in Named(stack'[i].fn, stack'[i].helper),
         \A i \in 1..Len(stack') : stack'[i].bad => Unfit(stack'[i])
  PROVE  ChainOK' /\ BadOK'
BY ReferenceStays DEF ChainOK, BadOK, Unfit, OwnFaults, Named, Wrapped, program

\* Verdicts stay right as long as none is given.
LEMMA VerdictsStay ==
  ASSUME VerdictsAreRight, UNCHANGED <<program, known, report>>
  PROVE  VerdictsAreRight'
BY ReferenceStays DEF VerdictsAreRight, Passes, program

LEMMA AnalyzeTaskVerdicts ==
  ASSUME AnalysisInv, VerdictsInv, NEW t \in Tasks, AnalyzeTask(t)
  PROVE  VerdictsInv'
<1>1. t \in Functions /\ AnalysisTypeOK
  BY DEF AnalysisInv, AnalysisAssumption
<1>2. stack' = <<Visit(t, FALSE)>> /\ UNCHANGED <<program, known, report>>
  BY DEF AnalyzeTask
<1>3. Visit(t, FALSE) \in Visits /\ Visit(t, FALSE).fn = t /\ Visit(t, FALSE).helper = FALSE
  BY <1>1, VisitFacts
<1>4. Len(stack') = 1 /\ stack'[1] = Visit(t, FALSE)
  BY <1>2, <1>3, OneFrame
<1>5. Visit(t, FALSE).bad => Unfit(Visit(t, FALSE))
  BY <1>3 DEF Visit, Unfit
<1>6. ChainOK' /\ BadOK'
  <2>1. ASSUME NEW i \in 1..Len(stack') PROVE stack'[i] = Visit(t, FALSE)
    <3>1. i = 1
      BY <1>4
    <3> QED
      BY <1>4, <3>1
  <2>2. ASSUME NEW i \in 1..Len(stack') - 1 PROVE FALSE
    BY <1>4
  <2> QED
    BY <1>2, <1>5, <2>1, <2>2, NewFrames
<1> QED
  BY <1>2, <1>6, VerdictsStay DEF VerdictsInv

\* What is counted against a frame is a function it uses that is not in the reference.
LEMMA PassVerdicts ==
  ASSUME AnalysisInv, VerdictsInv, stack # <<>>, NEW h \in Top.todo, NEW b \in BOOLEAN,
         b => h \notin Independent,
         stack' = Passed(h, b), UNCHANGED <<program, known, report>>
  PROVE  VerdictsInv'
<1> DEFINE n == Len(stack)
<1>1. AnalysisTypeOK /\ StackOK /\ h \in Functions
  BY TopFacts DEF AnalysisInv
<1>2. n \in Nat \ {0} /\ n \in 1..n /\ Top = stack[n]
  BY <1>1, TopFacts
<1>3. /\ Len(stack') = n
      /\ \A i \in 1..n :
           /\ stack'[i].fn = stack[i].fn
           /\ stack'[i].helper = stack[i].helper
           /\ i # n => stack'[i] = stack[i]
           /\ i = n => stack'[i].bad = (stack[i].bad \/ b)
  BY <1>1, PassedFacts
<1>4. h \in Named(stack[n].fn, stack[n].helper)
  BY <1>1, <1>2 DEF StackOK, FrameOK
<1>5. ASSUME NEW i \in 1..n, stack'[i].bad PROVE Unfit(stack'[i])
  <2>1. stack[i].bad => Unfit(stack[i])
    BY DEF VerdictsInv, BadOK
  <2>2. Unfit(stack[i]) => Unfit(stack'[i])
    BY <1>3 DEF Unfit
  <2>3. CASE i # n
    BY <1>3, <1>5, <2>1, <2>3
  <2>4. CASE i = n
    <3>1. stack[i].bad \/ h \notin Independent
      BY <1>3, <1>5, <2>4
    <3>2. h \notin Independent => Unfit(stack[i])
      BY <1>4, <2>4 DEF Unfit
    <3> QED
      BY <2>1, <2>2, <3>1, <3>2
  <2> QED
    BY <2>3, <2>4
<1>6. ASSUME NEW i \in 1..n - 1
      PROVE  stack'[i + 1].fn \in Named(stack'[i].fn, stack'[i].helper)
  <2>1. i \in 1..n /\ i + 1 \in 1..n
    BY <1>2
  <2> QED
    BY <1>3, <2>1 DEF VerdictsInv, ChainOK
<1>7. ChainOK' /\ BadOK'
  BY <1>3, <1>5, <1>6, NewFrames
<1> QED
  BY <1>7, VerdictsStay DEF VerdictsInv

LEMMA UseKnownVerdicts ==
  ASSUME AnalysisInv, VerdictsInv, NEW h \in Functions, UseKnown(h)
  PROVE  VerdictsInv'
<1>1. /\ stack # <<>> /\ h \in Top.todo /\ known[h] # "unknown"
      /\ stack' = Passed(h, known[h] = "bad") /\ UNCHANGED <<program, known, report>>
  BY DEF UseKnown
<1>2. (known[h] = "bad") \in BOOLEAN /\ (known[h] = "bad" => h \notin Independent)
  BY <1>1 DEF VerdictsInv, VerdictsAreRight, Passes
<1> QED
  BY <1>1, <1>2, PassVerdicts

LEMMA RecursiveVerdicts ==
  ASSUME AnalysisInv, VerdictsInv, NEW h \in Functions, Recursive(h)
  PROVE  VerdictsInv'
<1>1. /\ stack # <<>> /\ h \in Top.todo /\ InProgress(h)
      /\ stack' = Passed(h, TRUE) /\ UNCHANGED <<program, known, report>>
  BY DEF Recursive
<1>2. h \notin Independent
  BY <1>1, RecursionIsUnfit DEF VerdictsInv
<1> QED
  BY <1>1, <1>2, PassVerdicts

LEMMA AnalyzeHelperVerdicts ==
  ASSUME AnalysisInv, VerdictsInv, NEW h \in Functions, AnalyzeHelper(h)
  PROVE  VerdictsInv'
<1> DEFINE n == Len(stack)
           v == Visit(h, TRUE)
           p == Passed(h, FALSE)
<1>1. /\ AnalysisTypeOK /\ StackOK
      /\ stack # <<>> /\ h \in Top.todo
      /\ stack' = Append(p, v)
      /\ UNCHANGED <<program, known, report>>
  BY DEF AnalysisInv, AnalyzeHelper
<1>2. n \in Nat \ {0} /\ n \in 1..n /\ Top = stack[n]
  BY <1>1, TopFacts
<1>3. v \in Visits /\ v.fn = h /\ v.helper = TRUE
  BY <1>1, VisitFacts
<1>4. v.bad => Unfit(v)
  BY <1>3 DEF Visit, Unfit
<1>5. /\ p \in Seq(Visits) /\ Len(p) = n
      /\ \A i \in 1..n :
           /\ p[i].fn = stack[i].fn
           /\ p[i].helper = stack[i].helper
           /\ i # n => p[i] = stack[i]
           /\ i = n => p[i].bad = (stack[i].bad \/ FALSE)
  <2> PICK b \in BOOLEAN : b = FALSE
    OBVIOUS
  <2>1. /\ Passed(h, b) \in Seq(Visits) /\ Len(Passed(h, b)) = n
        /\ \A i \in 1..n :
             /\ Passed(h, b)[i].fn = stack[i].fn
             /\ Passed(h, b)[i].helper = stack[i].helper
             /\ i # n => Passed(h, b)[i] = stack[i]
             /\ i = n => Passed(h, b)[i].bad = (stack[i].bad \/ b)
    BY <1>1, PassedFacts
  <2>2. p = Passed(h, b)
    OBVIOUS
  <2> HIDE DEF p
  <2> QED
    BY <2>1, <2>2
<1>6. /\ Len(stack') = n + 1 /\ stack'[n + 1] = v
      /\ \A i \in 1..n : stack'[i] = p[i]
  <2> HIDE DEF v, p, n
  <2> QED
    BY <1>1, <1>2, <1>3, <1>5
<1>7. h \in Named(stack[n].fn, stack[n].helper)
  BY <1>1, <1>2 DEF StackOK, FrameOK
<1> HIDE DEF v, p
<1>8. ASSUME NEW i \in 1..Len(stack'), stack'[i].bad PROVE Unfit(stack'[i])
  <2>1. CASE i = n + 1
    BY <1>4, <1>6, <1>8, <2>1
  <2>2. CASE i # n + 1
    <3>1. i \in 1..n
      BY <1>2, <1>6, <2>2
    <3>2. stack[i].bad
      BY <1>5, <1>6, <1>8, <3>1
    <3>3. Unfit(stack[i])
      BY <3>1, <3>2 DEF VerdictsInv, BadOK
    <3> QED
      BY <1>5, <1>6, <3>1, <3>3 DEF Unfit
  <2> QED
    BY <2>1, <2>2
<1>9. ASSUME NEW i \in 1..Len(stack') - 1
      PROVE  stack'[i + 1].fn \in Named(stack'[i].fn, stack'[i].helper)
  <2>1. i \in 1..n
    BY <1>2, <1>6
  <2>2. CASE i = n
    BY <1>3, <1>5, <1>6, <1>7, <2>1, <2>2
  <2>3. CASE i # n
    <3>1. i \in 1..n - 1 /\ i + 1 \in 1..n
      BY <1>2, <2>1, <2>3
    <3> QED
      BY <1>5, <1>6, <2>1, <3>1 DEF VerdictsInv, ChainOK
  <2> QED
    BY <2>2, <2>3
<1>10. ChainOK' /\ BadOK'
  BY <1>1, <1>8, <1>9, NewFrames
<1> QED
  BY <1>1, <1>10, VerdictsStay DEF VerdictsInv

\* The frame on top is finished: what its function uses was found clean, or it
\* has no place in the reference.
LEMMA FinishedIsRight ==
  ASSUME AnalysisInv, VerdictsInv, stack # <<>>, Top.todo = {}
  PROVE  ~Top.bad <=> /\ OwnFaults(Top.fn, Top.helper) = {}
                      /\ Named(Top.fn, Top.helper) \subseteq Independent
<1> DEFINE n == Len(stack)
<1>1. AnalysisTypeOK /\ StackOK
  BY DEF AnalysisInv
<1>2. n \in Nat \ {0} /\ n \in 1..n /\ Top = stack[n] /\ Top.fn \in Functions
      /\ Top.helper \in BOOLEAN
  BY <1>1, TopFacts
<1>3. Top.bad => Unfit(Top)
  BY <1>2 DEF VerdictsInv, BadOK
<1>4. ASSUME ~Top.bad
      PROVE  /\ OwnFaults(Top.fn, Top.helper) = {}
             /\ Named(Top.fn, Top.helper) \subseteq Independent
  <2>1. /\ OwnFaults(Top.fn, Top.helper) = {}
        /\ \A g \in Named(Top.fn, Top.helper) : known[g] = "clean"
    <3>1. FrameOK(stack, known, n) /\ ~(n < Len(stack)) /\ stack[n] = Top
      BY <1>1, <1>2 DEF StackOK
    <3>2. Done(Top) = Named(Top.fn, Top.helper)
      BY DEF Done
    <3>3. /\ OwnFaults(Top.fn, Top.helper) = {}
          /\ \A g \in Done(Top) : known[g] = "clean"
      BY <1>4, <3>1 DEF FrameOK
    <3> QED
      BY <3>2, <3>3
  <2>2. Named(Top.fn, Top.helper) \subseteq Functions
    BY <1>1, <1>2, VisitFacts
  <2> QED
    BY <2>1, <2>2 DEF VerdictsInv, VerdictsAreRight, Passes
<1> QED
  BY <1>3, <1>4 DEF Unfit

LEMMA FinishHelperVerdicts ==
  ASSUME AnalysisInv, VerdictsInv, FinishHelper
  PROVE  VerdictsInv'
<1> DEFINE n == Len(stack)
<1>1. /\ AnalysisTypeOK /\ StackOK
      /\ stack # <<>> /\ Top.todo = {} /\ Top.helper
      /\ known' = [known EXCEPT ![Top.fn] = Verdict(Top.bad)]
      /\ UNCHANGED <<program, report>>
  BY DEF AnalysisInv, FinishHelper
<1>2. /\ n \in Nat \ {0} /\ n \in 1..n /\ Top = stack[n] /\ Top.fn \in Functions
      /\ Top.helper = TRUE /\ Top.bad \in BOOLEAN
      /\ \A i \in 1..n : stack[i] \in Visits
  BY <1>1, TopFacts
<1>3. ~Top.bad <=> Top.fn \in Independent
  BY <1>1, <1>2, FinishedIsRight, IndependentFixed
<1>4. /\ Len(stack') = n - 1
      /\ \A i \in 1..n - 1 :
           /\ stack'[i].fn = stack[i].fn
           /\ stack'[i].helper = stack[i].helper
           /\ stack'[i].bad => stack[i].bad \/ (i = n - 1 /\ Top.bad)
  <2>1. stack' = [i \in 1..(n - 1) |->
                    IF i = n - 1 THEN [stack[i] EXCEPT !.bad = @ \/ Top.bad]
                                 ELSE stack[i]]
    BY DEF FinishHelper
  <2>2. Len(stack') = n - 1
    <3> HIDE DEF n
    <3> QED
      BY <1>2, <2>1
  <2>3. ASSUME NEW i \in 1..n - 1
        PROVE  /\ stack'[i].fn = stack[i].fn
               /\ stack'[i].helper = stack[i].helper
               /\ stack'[i].bad => stack[i].bad \/ (i = n - 1 /\ Top.bad)
    <3>1. i \in 1..n /\ stack[i] \in Visits
      BY <1>2
    <3>2. stack'[i] = IF i = n - 1 THEN [stack[i] EXCEPT !.bad = @ \/ Top.bad]
                                   ELSE stack[i]
      BY <2>1
    <3> QED
      BY <3>1, <3>2 DEF Visits
  <2> QED
    BY <2>2, <2>3
<1>5. ASSUME NEW i \in 1..Len(stack'), stack'[i].bad PROVE Unfit(stack'[i])
  <2>1. i \in 1..n - 1 /\ i \in 1..n
    BY <1>2, <1>4
  <2>2. Unfit(stack[i]) => Unfit(stack'[i])
    BY <1>4, <2>1 DEF Unfit
  <2>3. stack[i].bad => Unfit(stack[i])
    BY <2>1 DEF VerdictsInv, BadOK
  <2>4. ASSUME i = n - 1, Top.bad PROVE Unfit(stack[i])
    <3>1. stack[i + 1].fn \in Named(stack[i].fn, stack[i].helper)
      BY <2>1 DEF VerdictsInv, ChainOK
    <3>2. Top.fn \in Named(stack[i].fn, stack[i].helper)
      BY <1>2, <2>4, <3>1
    <3> QED
      BY <1>3, <2>4, <3>2 DEF Unfit
  <2> QED
    BY <1>4, <1>5, <2>1, <2>2, <2>3, <2>4
<1>6. ASSUME NEW i \in 1..Len(stack') - 1
      PROVE  stack'[i + 1].fn \in Named(stack'[i].fn, stack'[i].helper)
  <2>1. i \in 1..n - 1 /\ i + 1 \in 1..n - 1
    BY <1>2, <1>4
  <2> QED
    BY <1>4, <2>1 DEF VerdictsInv, ChainOK
<1>7. ChainOK' /\ BadOK'
  BY <1>1, <1>5, <1>6, NewFrames
<1>8. VerdictsAreRight'
  <2>1. \A h \in Functions : known'[h] = IF h = Top.fn THEN Verdict(Top.bad) ELSE known[h]
    BY <1>1 DEF AnalysisTypeOK
  <2>2. Verdict(Top.bad) = "clean" <=> ~Top.bad
    BY DEF Verdict
  <2>3. ASSUME NEW h \in Functions, known'[h] # "unknown"
        PROVE  known'[h] = "clean" <=> h \in Independent
    BY <1>3, <2>1, <2>2, <2>3 DEF VerdictsInv, VerdictsAreRight, Passes
  <2>4. Independent' = Independent /\ UNCHANGED <<calls, faults, report>>
    BY <1>1, ReferenceStays DEF program
  <2> QED
    BY <2>3, <2>4 DEF VerdictsInv, VerdictsAreRight, Passes
<1> QED
  BY <1>7, <1>8 DEF VerdictsInv

LEMMA FinishTaskVerdicts ==
  ASSUME AnalysisInv, VerdictsInv, FinishTask
  PROVE  VerdictsInv'
<1>1. /\ AnalysisTypeOK /\ StackOK
      /\ stack # <<>> /\ Top.todo = {} /\ ~Top.helper
      /\ report' = [report EXCEPT ![Top.fn] = Verdict(Top.bad)]
      /\ stack' = <<>> /\ UNCHANGED <<program, known>>
  BY DEF AnalysisInv, FinishTask
<1>2. Top.fn \in Functions /\ Top.helper = FALSE
  BY <1>1, TopFacts
<1>3. ~Top.bad <=> faults[Top.fn] = {} /\ calls[Top.fn] \subseteq Independent
  BY <1>1, <1>2, FinishedIsRight DEF OwnFaults, Named, Wrapped
<1>4. ChainOK' /\ BadOK'
  <2>1. Len(stack') = 0
    BY <1>1
  <2> QED
    BY <2>1 DEF ChainOK, BadOK
<1>5. VerdictsAreRight'
  <2>1. \A t \in Tasks : report'[t] = IF t = Top.fn THEN Verdict(Top.bad) ELSE report[t]
    BY <1>1 DEF AnalysisTypeOK
  <2>2. Verdict(Top.bad) = "clean" <=> ~Top.bad
    BY DEF Verdict
  <2>3. ASSUME NEW t \in Tasks, report'[t] # "unknown"
        PROVE  report'[t] = "clean" <=> faults[t] = {} /\ calls[t] \subseteq Independent
    BY <1>3, <2>1, <2>2, <2>3 DEF VerdictsInv, VerdictsAreRight
  <2>4. Independent' = Independent /\ UNCHANGED <<calls, faults, known>>
    BY <1>1, ReferenceStays DEF program
  <2> QED
    BY <2>3, <2>4 DEF VerdictsInv, VerdictsAreRight, Passes
<1> QED
  BY <1>4, <1>5 DEF VerdictsInv

\* Every step preserves it.
LEMMA VerdictsNextInv ==
  ASSUME AnalysisInv, VerdictsInv, [AnalysisNext]_analysisVars
  PROVE  VerdictsInv'
<1>1. CASE UNCHANGED analysisVars
  <2>1. UNCHANGED <<program, stack, known, report>>
    BY <1>1 DEF analysisVars, program
  <2>2. ChainOK' /\ BadOK'
    BY <2>1, NewFrames DEF VerdictsInv, ChainOK, BadOK
  <2> QED
    BY <2>1, <2>2, VerdictsStay DEF VerdictsInv
<1> QED
  BY <1>1, AnalyzeTaskVerdicts, UseKnownVerdicts, RecursiveVerdicts,
     AnalyzeHelperVerdicts, FinishHelperVerdicts, FinishTaskVerdicts DEF AnalysisNext

----------------------------------------------------------------------------
(* The theorems *)

\* The invariant holds throughout the analysis of a module
\* (cli/analysis.py:_analyze_function and _analyze_helper).
THEOREM AnalysisInvariance == AnalysisSpec => []AnalysisInv
<1>1. AnalysisInit => AnalysisInv
  BY AnalysisInitInv
<1>2. AnalysisInv /\ [AnalysisNext]_analysisVars => AnalysisInv'
  BY AnalysisNextInv
<1> QED
  BY <1>1, <1>2, PTL DEF AnalysisSpec

\* The stack holds frames of the module's functions, the cache and the reports
\* hold verdicts: type correctness of the walk (analysis.py:368-495).
THEOREM AnalysisTypeCorrect == AnalysisSpec => []AnalysisTypeOK
<1>1. AnalysisInv => AnalysisTypeOK
  BY DEF AnalysisInv
<1> QED
  BY <1>1, AnalysisInvariance, PTL

\* A clean verdict is closed under use: a function that the analysis passes
\* (_analyze_helper's cache, or the report of a task) has no error and uses
\* only helpers that the cache has as clean, recursion and the order of the
\* walk notwithstanding.
THEOREM CleanStaysClosed == AnalysisSpec => []CleanIsClosed
<1>1. AnalysisInv => CleanIsClosed
  BY DEF AnalysisInv
<1> QED
  BY <1>1, AnalysisInvariance, PTL

\* Every verdict of the cache and every report (analysis.py:397-400, 512-519) is
\* that of the least closed set, for any module: the order of the tasks, what the
\* cache held and which functions were on the stack at the time do not matter.
THEOREM AnalysisIsRight == AnalysisSpec => []VerdictsAreRight
<1>1. AnalysisInit => VerdictsInv
  <2> SUFFICES ASSUME AnalysisInit PROVE VerdictsInv
    OBVIOUS
  <2>1. Len(stack) = 0
    BY DEF AnalysisInit, NothingKnown
  <2> QED
    BY <2>1 DEF AnalysisInit, NothingKnown, VerdictsInv, ChainOK, BadOK, VerdictsAreRight
<1>2. AnalysisInv /\ VerdictsInv /\ [AnalysisNext]_analysisVars => VerdictsInv'
  BY VerdictsNextInv
<1>3. VerdictsInv => VerdictsAreRight
  BY DEF VerdictsInv
<1> QED
  BY <1>1, <1>2, <1>3, AnalysisInvariance, PTL DEF AnalysisSpec

----------------------------------------------------------------------------
(***************************************************************************)
(* Builds that share a cache, for any number of checkouts, tasks and       *)
(* sources.  The argument is made shell by shell: what is true of one      *)
(* (ShellFits) speaks of its own checkout, job and output directory only,  *)
(* so that the steps of the others cannot disturb it.  All they share is   *)
(* the cache, of which CacheFits says that an entry keyed for a staged     *)
(* copy holds the component of its key, however much of it is written.     *)
(***************************************************************************)

USE BuildsAssumption, NoneAssumption

\* What the compiler makes of the sources a key names.
Component(k) == [task |-> k.task, from |-> k.from]

Compiling(s) == pc[s] \in {"compile", "open", "fill", "close"}
Building(s) == pc[s] = "task" \/ Compiling(s)

Jobs == [key : Keys, art : Artifacts \cup {None}]

JobFits(s) ==
  Compiling(s) =>
    /\ job[s] \in Jobs
    /\ job[s].key.sdk = TRUE <=> s \notin inPlace
    /\ s \notin inPlace => job[s].key.from = staged[s]
    /\ pc[s] # "compile" => job[s].art \in Artifacts
    /\ pc[s] # "compile" /\ s \notin inPlace => job[s].art = Component(job[s].key)

PlanFits(s) ==
  /\ pc[s] = "clear" => plan[s] \in Sources
  /\ Building(s) =>
       /\ plan[s] \in Sources /\ staged[s] \in Sources
       /\ manifest[s] = None
       /\ todo[s] \subseteq Exports[plan[s]]
       /\ OutFiles(s) = Exports[plan[s]] \ todo[s]
  /\ Compiling(s) => job[s].key.task \in todo[s]

\* The conjuncts of BuildsGetTheirOwn and of ManifestFits that are about s.
OutFits(s) ==
  s \notin inPlace =>
    \A t \in TaskNames : out[s][t] # None /\ out[s][t].whole = TRUE =>
      out[s][t].art = [task |-> t, from |-> staged[s]]

ManifestOf(s) ==
  manifest[s] # None =>
    /\ OutFiles(s) \subseteq Exports[manifest[s]]
    /\ pc[s] \notin {"clear", "clean"} /\ crashes = 0 =>
         OutFiles(s) = Exports[manifest[s]]

ShellFits(s) == JobFits(s) /\ PlanFits(s) /\ OutFits(s) /\ ManifestOf(s)

CacheFits ==
  \A k \in Keys : cache[k] # None /\ k.sdk = TRUE => cache[k].art = Component(k)

BuildsIInv ==
  /\ TypeOK /\ CacheFits /\ TornHasAWriter
  /\ \A s \in Shells : ShellFits(s)

----------------------------------------------------------------------------
(* What a step of one shell leaves of the others *)

\* Everything of r but its sources.
Untouched(r) ==
  /\ pc'[r] = pc[r] /\ plan'[r] = plan[r] /\ staged'[r] = staged[r]
  /\ todo'[r] = todo[r] /\ job'[r] = job[r]
  /\ out'[r] = out[r] /\ manifest'[r] = manifest[r]

\* A shell that is left alone, in a step that undoes no crash, fits as before.
LEMMA UntouchedFits ==
  ASSUME NEW r \in Shells, ShellFits(r), Untouched(r),
         inPlace' = inPlace, crashes' = 0 => crashes = 0
  PROVE  ShellFits(r)'
<1>1. OutFiles(r)' = OutFiles(r)
  BY DEF Untouched, OutFiles
<1>2. JobFits(r)'
  BY DEF ShellFits, Untouched, JobFits, Compiling
<1>3. PlanFits(r)'
  BY <1>1 DEF ShellFits, Untouched, PlanFits, Compiling, Building
<1>4. OutFits(r)'
  BY DEF ShellFits, Untouched, OutFits
<1>5. ManifestOf(r)'
  BY <1>1 DEF ShellFits, Untouched, ManifestOf
<1> QED
  BY <1>2, <1>3, <1>4, <1>5 DEF ShellFits

\* A writer that is left alone goes on writing.
LEMMA UntouchedWrites ==
  ASSUME NEW r \in Shells, NEW k, Untouched(r), Writing(r, k)
  PROVE  Writing(r, k)'
  BY DEF Untouched, Writing

\* The key of a task is one, and names what is compiled.
LEMMA KeyForFacts ==
  ASSUME TypeOK, NEW s \in Shells, PlanFits(s), Building(s), NEW t \in TaskNames
  PROVE  /\ View(s) \in Sources
         /\ KeyFor(s, t) \in Keys
         /\ KeyFor(s, t).task = t /\ KeyFor(s, t).from = View(s)
         /\ KeyFor(s, t).sdk = TRUE <=> s \notin inPlace
         /\ s \notin inPlace => View(s) = staged[s]
<1>1. View(s) \in Sources /\ (s \notin inPlace => View(s) = staged[s])
  BY DEF TypeOK, PlanFits, View
<1> QED
  BY <1>1 DEF KeyFor, Keys

\* A step that leaves the cache, the crashes and the writers alone leaves torn
\* entries with theirs.
LEMMA WritersStay ==
  ASSUME TornHasAWriter, cache' = cache, crashes' = 0 => crashes = 0,
         \A r \in Shells, k \in Keys : Writing(r, k) => Writing(r, k)'
  PROVE  TornHasAWriter'
  BY DEF TornHasAWriter

----------------------------------------------------------------------------
(* The steps *)

LEMMA BuildsInitInv == Init => BuildsIInv
<1> SUFFICES ASSUME Init PROVE BuildsIInv
  OBVIOUS
<1>1. TypeOK
  BY DEF Init, NothingBuilt, TypeOK
<1>2. CacheFits /\ TornHasAWriter
  BY DEF Init, NothingBuilt, CacheFits, TornHasAWriter
<1>3. ASSUME NEW s \in Shells PROVE ShellFits(s)
  BY DEF Init, NothingBuilt, ShellFits, JobFits, PlanFits, OutFits, ManifestOf,
         Compiling, Building
<1> QED
  BY <1>1, <1>2, <1>3 DEF BuildsIInv

\* Whoever edits, what is in the works was made from a copy.
LEMMA EditInv ==
  ASSUME BuildsIInv, NEW s \in Shells, NEW c \in Sources, Edit(s, c)
  PROVE  BuildsIInv'
<1>1. /\ edits < MaxEdits /\ edits' = edits + 1
      /\ source' = [source EXCEPT ![s] = c]
      /\ UNCHANGED <<inPlace, pc, plan, staged, todo, job, cache, out, manifest, crashes>>
  BY DEF Edit, locals, files
<1>2. TypeOK'
  BY <1>1 DEF BuildsIInv, TypeOK
<1>3. CacheFits' /\ TornHasAWriter'
  BY <1>1 DEF BuildsIInv, CacheFits, TornHasAWriter, Writing
<1>4. ASSUME NEW r \in Shells PROVE ShellFits(r)'
  BY <1>1, UntouchedFits DEF BuildsIInv, Untouched
<1> QED
  BY <1>2, <1>3, <1>4 DEF BuildsIInv

\* The plan is made from the sources as they are.
LEMMA InspectInv ==
  ASSUME BuildsIInv, NEW s \in Shells, NEW strict \in BOOLEAN, Inspect(s, strict)
  PROVE  BuildsIInv'
<1>1. /\ pc[s] = "idle" /\ pc' = [pc EXCEPT ![s] = "clear"]
      /\ plan' = [plan EXCEPT ![s] = source[s]]
      /\ UNCHANGED <<inPlace, source, staged, todo, job, cache, out, manifest,
                     edits, crashes>>
  BY DEF Inspect, Idle, Goto, files
<1>2. /\ pc'[s] = "clear" /\ plan'[s] = source[s] /\ source[s] \in Sources
      /\ \A r \in Shells \ {s} : Untouched(r)
  BY <1>1 DEF BuildsIInv, TypeOK, Untouched
<1>3. TypeOK'
  BY <1>1 DEF BuildsIInv, TypeOK
<1>4. CacheFits' /\ TornHasAWriter'
  BY <1>1, <1>2, WritersStay DEF BuildsIInv, CacheFits, Writing, Untouched
<1>5. ShellFits(s)'
  BY <1>1, <1>2 DEF BuildsIInv, ShellFits, JobFits, PlanFits, OutFits, ManifestOf,
                    Compiling, Building, OutFiles
<1>6. ASSUME NEW r \in Shells \ {s} PROVE ShellFits(r)'
  BY <1>1, <1>2, UntouchedFits DEF BuildsIInv
<1> QED
  BY <1>3, <1>4, <1>5, <1>6 DEF BuildsIInv

LEMMA CleanInv ==
  ASSUME BuildsIInv, NEW s \in Shells, Clean(s)
  PROVE  BuildsIInv'
<1>1. /\ pc[s] = "idle" /\ pc' = [pc EXCEPT ![s] = "clean"]
      /\ UNCHANGED <<inPlace, source, plan, staged, todo, job, cache, out, manifest,
                     edits, crashes>>
  BY DEF Clean, Idle, Goto, files
<1>2. /\ pc'[s] = "clean"
      /\ \A r \in Shells \ {s} : Untouched(r)
  BY <1>1 DEF BuildsIInv, TypeOK, Untouched
<1>3. TypeOK'
  BY <1>1 DEF BuildsIInv, TypeOK
<1>4. CacheFits' /\ TornHasAWriter'
  BY <1>1, <1>2, WritersStay DEF BuildsIInv, CacheFits, Writing, Untouched
<1>5. ShellFits(s)'
  BY <1>1, <1>2 DEF BuildsIInv, ShellFits, JobFits, PlanFits, OutFits, ManifestOf,
                    Compiling, Building, OutFiles
<1>6. ASSUME NEW r \in Shells \ {s} PROVE ShellFits(r)'
  BY <1>1, <1>2, UntouchedFits DEF BuildsIInv
<1> QED
  BY <1>3, <1>4, <1>5, <1>6 DEF BuildsIInv

\* What a clearing shell still has of the last build shrinks.
LEMMA RemoveFileInv ==
  ASSUME BuildsIInv, NEW s \in Shells, RemoveFile(s)
  PROVE  BuildsIInv'
<1>1. /\ pc[s] \in {"clear", "clean"}
      /\ UNCHANGED <<inPlace, source, pc, plan, staged, todo, job, cache, edits, crashes>>
  BY DEF RemoveFile, locals
<1>2. /\ out' \in [Shells -> [TaskNames -> TaskFiles \cup {None}]]
      /\ manifest' \in [Shells -> Sources \cup {None}]
      /\ \A t \in TaskNames : out'[s][t] = out[s][t] \/ out'[s][t] = None
      /\ manifest'[s] = manifest[s] \/ manifest'[s] = None
      /\ \A r \in Shells \ {s} : out'[r] = out[r] /\ manifest'[r] = manifest[r]
  <2>1. CASE \E t \in OutFiles(s) : /\ out' = [out EXCEPT ![s][t] = None]
                                    /\ UNCHANGED manifest
    <3>1. PICK t \in TaskNames : out' = [out EXCEPT ![s][t] = None] /\ UNCHANGED manifest
      BY <2>1 DEF OutFiles
    <3>2. out \in [Shells -> [TaskNames -> TaskFiles \cup {None}]]
      BY DEF BuildsIInv, TypeOK
    <3>3. out' \in [Shells -> [TaskNames -> TaskFiles \cup {None}]]
      BY <3>1, <3>2
    <3>4. /\ \A t1 \in TaskNames : out'[s][t1] = out[s][t1] \/ out'[s][t1] = None
          /\ \A r \in Shells \ {s} : out'[r] = out[r]
      BY <3>1, <3>2
    <3> QED
      BY <3>1, <3>3, <3>4 DEF BuildsIInv, TypeOK
  <2>2. CASE manifest' = [manifest EXCEPT ![s] = None] /\ UNCHANGED out
    BY <2>2 DEF BuildsIInv, TypeOK
  <2> QED
    BY <2>1, <2>2 DEF RemoveFile
<1>3. TypeOK'
  BY <1>1, <1>2 DEF BuildsIInv, TypeOK
<1>4. \A r \in Shells \ {s} : Untouched(r)
  BY <1>1, <1>2 DEF Untouched
<1>5. CacheFits' /\ TornHasAWriter'
  BY <1>1, WritersStay DEF BuildsIInv, CacheFits, Writing
<1>6. OutFiles(s)' \subseteq OutFiles(s)
  BY <1>2 DEF OutFiles
<1>7. ShellFits(s)
  BY DEF BuildsIInv
<1>8. JobFits(s)' /\ PlanFits(s)' /\ OutFits(s)'
  BY <1>1, <1>2, <1>7 DEF ShellFits, JobFits, PlanFits, OutFits, Compiling, Building
<1>9. ManifestOf(s)'
  BY <1>1, <1>2, <1>6, <1>7 DEF ShellFits, ManifestOf
<1>10. ASSUME NEW r \in Shells \ {s} PROVE ShellFits(r)'
  BY <1>1, <1>4, UntouchedFits DEF BuildsIInv
<1> QED
  BY <1>3, <1>5, <1>8, <1>9, <1>10 DEF BuildsIInv, ShellFits

\* What a shell that ends its command without a file of its own leaves behind.
LEMMA LeaveFacts ==
  ASSUME TypeOK, NEW s \in Shells, Leave(s)
  PROVE  /\ pc'[s] = "idle" /\ plan'[s] = None /\ todo'[s] = {} /\ job'[s] = None
         /\ \A r \in Shells \ {s} : /\ pc'[r] = pc[r] /\ plan'[r] = plan[r]
                                    /\ todo'[r] = todo[r] /\ job'[r] = job[r]
         /\ pc' \in [Shells -> {"idle", "clear", "clean", "task", "compile", "open",
                                "fill", "close"}]
         /\ plan' \in [Shells -> Sources \cup {None}]
         /\ todo' \in [Shells -> SUBSET TaskNames]
         /\ job' \in [Shells -> Jobs \cup {None}]
  BY DEF TypeOK, Leave, Goto, Jobs

\* A command that ends with the files as they are: after a clean, with an error,
\* or in a crash.
LEMMA EndInv ==
  ASSUME BuildsIInv, NEW s \in Shells, Leave(s),
         UNCHANGED <<inPlace, source, staged, cache, out, manifest, edits>>,
         \/ pc[s] \in {"clean", "compile"} /\ (pc[s] = "clean" => Removed(s))
            /\ crashes' = crashes
         \/ crashes < MaxCrashes /\ crashes' = crashes + 1
  PROVE  BuildsIInv'
<1>1. /\ pc'[s] = "idle" /\ plan'[s] = None /\ todo'[s] = {} /\ job'[s] = None
      /\ \A r \in Shells \ {s} : Untouched(r)
  BY LeaveFacts DEF BuildsIInv, Untouched
<1>2. crashes' \in 0..MaxCrashes /\ (crashes' = 0 => crashes = 0)
  BY DEF BuildsIInv, TypeOK
<1>3. TypeOK'
  BY <1>2, LeaveFacts DEF BuildsIInv, TypeOK, Jobs
<1>4. TornHasAWriter'
  <2>1. CASE crashes' = 0
    <3>1. \A k \in Keys : ~Writing(s, k)
      BY <2>1 DEF BuildsIInv, TypeOK, Writing
    <3> QED
      BY <1>1, <1>2, <3>1, WritersStay, UntouchedWrites DEF BuildsIInv
  <2> QED
    BY <2>1 DEF TornHasAWriter
<1>5. CacheFits'
  BY DEF BuildsIInv, CacheFits
<1>6. ShellFits(s)
  BY DEF BuildsIInv
<1>7. JobFits(s)' /\ PlanFits(s)' /\ OutFits(s)'
  BY <1>1, <1>6 DEF ShellFits, JobFits, PlanFits, OutFits, Compiling, Building
<1>8. ManifestOf(s)'
  <2>1. OutFiles(s)' = OutFiles(s)
    BY DEF OutFiles
  <2>2. manifest[s] # None /\ crashes' = 0 => FALSE
    BY <1>2, <1>6 DEF BuildsIInv, TypeOK, ShellFits, PlanFits, Building, Compiling, Removed
  <2> QED
    BY <1>6, <2>1, <2>2 DEF ShellFits, ManifestOf
<1>9. ASSUME NEW r \in Shells \ {s} PROVE ShellFits(r)'
  BY <1>1, <1>2, UntouchedFits DEF BuildsIInv
<1> QED
  BY <1>3, <1>4, <1>5, <1>7, <1>8, <1>9 DEF BuildsIInv, ShellFits

LEMMA CleanedInv ==
  ASSUME BuildsIInv, NEW s \in Shells, Cleaned(s) PROVE BuildsIInv'
<1>1. /\ pc[s] = "clean" /\ Removed(s) /\ Leave(s)
      /\ UNCHANGED <<inPlace, source, staged, cache, out, manifest, edits, crashes>>
  BY DEF Cleaned, files
<1> QED
  BY <1>1, EndInv

LEMMA CompileFailsInv ==
  ASSUME BuildsIInv, NEW s \in Shells, CompileFails(s) PROVE BuildsIInv'
<1>1. /\ pc[s] = "compile" /\ Leave(s)
      /\ UNCHANGED <<inPlace, source, staged, cache, out, manifest, edits, crashes>>
  BY DEF CompileFails, files
<1> QED
  BY <1>1, EndInv

LEMMA CrashInv ==
  ASSUME BuildsIInv, NEW s \in Shells, Crash(s) PROVE BuildsIInv'
<1>1. /\ Leave(s) /\ crashes < MaxCrashes /\ crashes' = crashes + 1
      /\ UNCHANGED <<inPlace, source, staged, cache, out, manifest, edits>>
  BY DEF Crash, files
<1> QED
  BY <1>1, EndInv

\* The copy is made when nothing of the last build is left.
LEMMA StageInv ==
  ASSUME BuildsIInv, NEW s \in Shells, Stage(s)
  PROVE  BuildsIInv'
<1>1. /\ pc[s] = "clear" /\ pc' = [pc EXCEPT ![s] = "task"]
      /\ OutFiles(s) = {} /\ manifest[s] = None
      /\ staged' = [staged EXCEPT ![s] = source[s]]
      /\ todo' = [todo EXCEPT ![s] = Exports[plan[s]]]
      /\ UNCHANGED <<inPlace, source, plan, job, cache, out, manifest, edits, crashes>>
  BY DEF Stage, Removed, Goto, Discovered, files
<1>2. plan[s] \in Sources /\ source[s] \in Sources
  BY <1>1 DEF BuildsIInv, TypeOK, ShellFits, PlanFits
<1>3. /\ pc'[s] = "task" /\ staged'[s] = source[s] /\ todo'[s] = Exports[plan[s]]
      /\ \A r \in Shells \ {s} : Untouched(r)
  BY <1>1 DEF BuildsIInv, TypeOK, Untouched
<1>4. TypeOK'
  BY <1>1, <1>2 DEF BuildsIInv, TypeOK
<1>5. TornHasAWriter'
  BY <1>1, <1>3, WritersStay DEF BuildsIInv, Writing, Untouched
<1>6. CacheFits'
  BY <1>1 DEF BuildsIInv, CacheFits
<1>7. OutFiles(s)' = {} /\ \A t \in TaskNames : out'[s][t] = None
  BY <1>1 DEF OutFiles
<1>8. ShellFits(s)'
  BY <1>1, <1>2, <1>3, <1>7 DEF ShellFits, JobFits, PlanFits, OutFits, ManifestOf,
                                Compiling, Building
<1>9. ASSUME NEW r \in Shells \ {s} PROVE ShellFits(r)'
  BY <1>1, <1>3, UntouchedFits DEF BuildsIInv
<1> QED
  BY <1>4, <1>5, <1>6, <1>8, <1>9 DEF BuildsIInv

\* What has changed once s has written the file of t.
Written(s, t, art, whole) ==
  /\ pc'[s] = "task" /\ todo'[s] = todo[s] \ {t}
  /\ out'[s][t] = [art |-> art, whole |-> whole]
  /\ \A u \in TaskNames \ {t} : out'[s][u] = out[s][u]
  /\ PlanFits(s)'
  /\ pc' \in [Shells -> {"idle", "clear", "clean", "task", "compile", "open",
                         "fill", "close"}]
  /\ todo' \in [Shells -> SUBSET TaskNames]
  /\ out' \in [Shells -> [TaskNames -> TaskFiles \cup {None}]]
  /\ \A r \in Shells \ {s} :
       /\ pc'[r] = pc[r] /\ plan'[r] = plan[r] /\ staged'[r] = staged[r]
       /\ todo'[r] = todo[r] /\ out'[r] = out[r] /\ manifest'[r] = manifest[r]

\* A file that is written is one of the plan's that was to be compiled.
LEMMA WriteFacts ==
  ASSUME BuildsIInv, NEW s \in Shells, Building(s), NEW t \in todo[s],
         NEW art \in Artifacts, NEW whole \in BOOLEAN, Write(s, t, art, whole),
         UNCHANGED <<plan, staged, manifest>>
  PROVE  Written(s, t, art, whole)
<1> DEFINE file == [art |-> art, whole |-> whole]
<1>1. /\ out' = [out EXCEPT ![s][t] = file]
      /\ todo' = [todo EXCEPT ![s] = todo[s] \ {t}]
      /\ pc' = [pc EXCEPT ![s] = "task"]
  BY DEF Write, Goto
<1>2. file \in TaskFiles /\ file # None /\ t \in TaskNames
  BY DEF TaskFiles, BuildsIInv, TypeOK
<1> HIDE DEF file
<1>3. /\ pc \in [Shells -> {"idle", "clear", "clean", "task", "compile", "open",
                            "fill", "close"}]
      /\ todo \in [Shells -> SUBSET TaskNames]
      /\ out \in [Shells -> [TaskNames -> TaskFiles \cup {None}]]
  BY DEF BuildsIInv, TypeOK
<1>4. /\ pc'[s] = "task" /\ todo'[s] = todo[s] \ {t}
      /\ out'[s][t] = file /\ \A u \in TaskNames \ {t} : out'[s][u] = out[s][u]
  BY <1>1, <1>2, <1>3
<1>5. \A r \in Shells \ {s} :
         /\ pc'[r] = pc[r] /\ plan'[r] = plan[r] /\ staged'[r] = staged[r]
         /\ todo'[r] = todo[r] /\ out'[r] = out[r] /\ manifest'[r] = manifest[r]
  BY <1>1, <1>3
<1>6. /\ pc' \in [Shells -> {"idle", "clear", "clean", "task", "compile", "open",
                             "fill", "close"}]
      /\ todo' \in [Shells -> SUBSET TaskNames]
  BY <1>1, <1>3
<1>7. out' \in [Shells -> [TaskNames -> TaskFiles \cup {None}]]
  BY <1>1, <1>2, <1>3
<1>8. OutFiles(s)' = OutFiles(s) \cup {t}
  BY <1>2, <1>4 DEF OutFiles
<1>9. PlanFits(s)'
  BY <1>4, <1>8 DEF BuildsIInv, ShellFits, PlanFits, Building, Compiling
<1> QED
  BY <1>4, <1>5, <1>6, <1>7, <1>9 DEF file, Written

\* What the cache holds for a staged copy is what a compiler would make of it.
LEMMA HitInv ==
  ASSUME BuildsIInv, NEW s \in Shells, NEW t \in TaskNames, Hit(s, t)
  PROVE  BuildsIInv'
<1> DEFINE k == KeyFor(s, t)
           art == cache[k].art
           whole == cache[k].fill = "whole"
<1>1. /\ pc[s] = "task" /\ t \in todo[s] /\ cache[k] # None
      /\ Write(s, t, art, whole)
      /\ UNCHANGED <<inPlace, source, plan, staged, job, cache, manifest, edits, crashes>>
  BY DEF Hit, Usable
<1>2. Building(s) /\ ShellFits(s)
  BY <1>1 DEF Building, BuildsIInv
<1>3. /\ k \in Keys /\ k.task = t
      /\ k.sdk = TRUE <=> s \notin inPlace
      /\ s \notin inPlace => k.from = staged[s]
  BY <1>2, KeyForFacts DEF BuildsIInv, ShellFits
<1> HIDE DEF k
<1>4. cache[k] \in Entries
  BY <1>1, <1>3 DEF BuildsIInv, TypeOK
<1>5. art \in Artifacts /\ whole \in BOOLEAN
  BY <1>4 DEF Entries
<1>6. s \notin inPlace => art = [task |-> t, from |-> staged[s]]
  BY <1>1, <1>3 DEF BuildsIInv, CacheFits, Component
<1> HIDE DEF art, whole
<1>7. Written(s, t, art, whole)
  BY <1>1, <1>2, <1>5, WriteFacts
<1>8. TypeOK'
  BY <1>1, <1>7 DEF BuildsIInv, TypeOK, Written
<1>9. \A r \in Shells \ {s} : Untouched(r)
  BY <1>1, <1>7 DEF Untouched, Written
<1>10. TornHasAWriter' /\ CacheFits'
  BY <1>1, <1>9, WritersStay DEF BuildsIInv, Writing, Untouched, CacheFits
<1>11. OutFits(s)'
  BY <1>1, <1>2, <1>6, <1>7 DEF ShellFits, OutFits, Written
<1>12. JobFits(s)' /\ ManifestOf(s)'
  BY <1>1, <1>2, <1>7 DEF ShellFits, JobFits, ManifestOf, PlanFits, Building,
                          Compiling, Written
<1>13. ASSUME NEW r \in Shells \ {s} PROVE ShellFits(r)'
  BY <1>1, <1>9, UntouchedFits DEF BuildsIInv
<1> QED
  BY <1>7, <1>8, <1>10, <1>11, <1>12, <1>13 DEF BuildsIInv, ShellFits, Written

\* The key is taken from what is about to be compiled.
LEMMA MissInv ==
  ASSUME BuildsIInv, NEW s \in Shells, NEW t \in TaskNames, Miss(s, t)
  PROVE  BuildsIInv'
<1> DEFINE j == [key |-> KeyFor(s, t), art |-> None]
<1>1. /\ pc[s] = "task" /\ t \in todo[s]
      /\ job' = [job EXCEPT ![s] = j]
      /\ pc' = [pc EXCEPT ![s] = "compile"]
      /\ UNCHANGED <<inPlace, source, plan, staged, todo, cache, out, manifest,
                     edits, crashes>>
  BY DEF Miss, Goto, files
<1>2. Building(s) /\ ShellFits(s)
  BY <1>1 DEF Building, BuildsIInv
<1>3. /\ KeyFor(s, t) \in Keys /\ KeyFor(s, t).task = t
      /\ KeyFor(s, t).sdk = TRUE <=> s \notin inPlace
      /\ s \notin inPlace => KeyFor(s, t).from = staged[s]
  BY <1>2, KeyForFacts DEF BuildsIInv, ShellFits
<1>4. j \in Jobs /\ j.key = KeyFor(s, t)
  BY <1>3 DEF Jobs
<1> HIDE DEF j
<1>5. /\ pc'[s] = "compile" /\ job'[s] = j
      /\ \A r \in Shells \ {s} : Untouched(r)
  BY <1>1 DEF BuildsIInv, TypeOK, Untouched
<1>6. TypeOK'
  BY <1>1, <1>4 DEF BuildsIInv, TypeOK, Jobs
<1>7. TornHasAWriter' /\ CacheFits'
  BY <1>1, <1>5, WritersStay DEF BuildsIInv, Writing, Untouched, CacheFits
<1>8. OutFiles(s)' = OutFiles(s)
  BY <1>1 DEF OutFiles
<1>9. JobFits(s)'
  BY <1>1, <1>3, <1>4, <1>5 DEF JobFits
<1>10. PlanFits(s)'
  BY <1>1, <1>2, <1>3, <1>4, <1>5, <1>8 DEF ShellFits, PlanFits, Building, Compiling
<1>11. OutFits(s)' /\ ManifestOf(s)'
  BY <1>1, <1>2, <1>5, <1>8 DEF ShellFits, PlanFits, OutFits, ManifestOf
<1>12. ASSUME NEW r \in Shells \ {s} PROVE ShellFits(r)'
  BY <1>1, <1>5, UntouchedFits DEF BuildsIInv
<1> QED
  BY <1>6, <1>7, <1>9, <1>10, <1>11, <1>12 DEF BuildsIInv, ShellFits

\* From a copy, the compiler makes the component of the key.
LEMMA CompileInv ==
  ASSUME BuildsIInv, NEW s \in Shells, Compile(s)
  PROVE  BuildsIInv'
<1> DEFINE j == [key |-> job[s].key, art |-> Made(s)]
<1>1. /\ pc[s] = "compile"
      /\ job' = [job EXCEPT ![s].art = Made(s)]
      /\ pc' = [pc EXCEPT ![s] = "open"]
      /\ UNCHANGED <<inPlace, source, plan, staged, todo, cache, out, manifest,
                     edits, crashes>>
  BY DEF Compile, Goto, files
<1>2. Building(s) /\ Compiling(s) /\ ShellFits(s)
  BY <1>1 DEF Building, Compiling, BuildsIInv
<1>3. /\ job[s] \in Jobs /\ View(s) \in Sources
      /\ job[s].key.sdk = TRUE <=> s \notin inPlace
      /\ s \notin inPlace => job[s].key.from = staged[s] /\ View(s) = staged[s]
  BY <1>2 DEF ShellFits, JobFits, PlanFits, View, BuildsIInv, TypeOK
<1>4. /\ job[s].key \in Keys /\ job[s].key.task \in TaskNames
      /\ job[s].key.from \in Sources
  BY <1>3 DEF Jobs, Keys
<1>5. Made(s) \in Artifacts /\ (s \notin inPlace => Made(s) = Component(job[s].key))
  BY <1>3, <1>4 DEF Made, Artifacts, Component
<1>6. j \in Jobs /\ j.key = job[s].key /\ j.art = Made(s)
  BY <1>4, <1>5 DEF Jobs
<1>7. job' = [job EXCEPT ![s] = j]
  <2>1. [job[s] EXCEPT !.art = Made(s)] = j
    BY <1>3 DEF Jobs
  <2> HIDE DEF j
  <2> QED
    BY <1>1, <2>1 DEF BuildsIInv, TypeOK
<1> HIDE DEF j
<1>8. /\ pc'[s] = "open" /\ job'[s] = j
      /\ \A r \in Shells \ {s} : Untouched(r)
  BY <1>1, <1>7 DEF BuildsIInv, TypeOK, Untouched
<1>9. TypeOK'
  <2>1. job \in [Shells -> Jobs \cup {None}]
    BY DEF BuildsIInv, TypeOK, Jobs
  <2>2. job' \in [Shells -> Jobs \cup {None}]
    BY <1>6, <1>7, <2>1
  <2>3. job' \in [Shells -> [key : Keys, art : Artifacts \cup {None}] \cup {None}]
    BY <2>2 DEF Jobs
  <2>4. pc' \in [Shells -> {"idle", "clear", "clean", "task", "compile", "open",
                            "fill", "close"}]
    BY <1>1 DEF BuildsIInv, TypeOK
  <2> QED
    BY <1>1, <2>3, <2>4 DEF BuildsIInv, TypeOK
<1>10. TornHasAWriter' /\ CacheFits'
  BY <1>1, <1>8, WritersStay DEF BuildsIInv, Writing, Untouched, CacheFits
<1>11. OutFiles(s)' = OutFiles(s)
  BY <1>1 DEF OutFiles
<1>12. JobFits(s)'
  BY <1>1, <1>3, <1>5, <1>6, <1>8 DEF JobFits
<1>13. PlanFits(s)'
  BY <1>1, <1>2, <1>6, <1>8, <1>11 DEF ShellFits, PlanFits, Building, Compiling
<1>14. OutFits(s)' /\ ManifestOf(s)'
  BY <1>1, <1>2, <1>8, <1>11 DEF ShellFits, PlanFits, OutFits, ManifestOf
<1>15. ASSUME NEW r \in Shells \ {s} PROVE ShellFits(r)'
  BY <1>1, <1>8, UntouchedFits DEF BuildsIInv
<1> QED
  BY <1>9, <1>10, <1>12, <1>13, <1>14, <1>15 DEF BuildsIInv, ShellFits

\* What is put in the cache is of its key; the one who puts it there is still
\* writing, unless it is complete.
LEMMA PutInv ==
  ASSUME BuildsIInv, NEW s \in Shells, NEW from \in {"open", "fill"},
         NEW to \in {"fill", "close"}, NEW fill \in {"short", "torn"},
         Put(s, from, to, fill)
  PROVE  BuildsIInv'
<1> PICK k, e : k = job[s].key /\ e = [fill |-> fill, art |-> job[s].art]
  OBVIOUS
<1>1. /\ pc[s] = from
      /\ cache' = [cache EXCEPT ![k] = e]
      /\ pc' = [pc EXCEPT ![s] = to]
      /\ UNCHANGED <<inPlace, source, plan, staged, todo, job, out, manifest,
                     edits, crashes>>
  BY DEF Put, Goto
<1>2. Compiling(s) /\ ShellFits(s)
  BY <1>1 DEF Compiling, BuildsIInv
<1>3. /\ job[s] \in Jobs /\ job[s].art \in Artifacts
      /\ k.sdk = TRUE => job[s].art = Component(k)
  BY <1>1, <1>2 DEF ShellFits, JobFits
<1>4. k \in Keys /\ e \in Entries /\ e.art = job[s].art
  BY <1>3 DEF Jobs, Entries
<1>5. /\ pc'[s] = to
      /\ \A r \in Shells \ {s} : Untouched(r)
  BY <1>1 DEF BuildsIInv, TypeOK, Untouched
<1>6. cache'[k] = e /\ \A l \in Keys \ {k} : cache'[l] = cache[l]
  BY <1>1, <1>4 DEF BuildsIInv, TypeOK
<1>7. TypeOK'
  BY <1>1, <1>4 DEF BuildsIInv, TypeOK
<1>8. CacheFits'
  BY <1>3, <1>4, <1>6 DEF BuildsIInv, CacheFits
<1>9. Writing(s, k)'
  BY <1>1, <1>5 DEF Writing
<1>10. \A r \in Shells, l \in Keys \ {k} : Writing(r, l) => Writing(r, l)'
  <2> SUFFICES ASSUME NEW r \in Shells, NEW l \in Keys \ {k}, Writing(r, l)
               PROVE  Writing(r, l)'
    OBVIOUS
  <2>1. r # s
    BY DEF Writing
  <2> QED
    BY <1>5, <2>1, UntouchedWrites
<1>11. TornHasAWriter'
  BY <1>1, <1>6, <1>9, <1>10 DEF BuildsIInv, TornHasAWriter
<1>12. OutFiles(s)' = OutFiles(s)
  BY <1>1 DEF OutFiles
<1>13. JobFits(s)'
  BY <1>1, <1>2, <1>3 DEF ShellFits, JobFits
<1>14. PlanFits(s)'
  BY <1>1, <1>2, <1>5, <1>12 DEF ShellFits, PlanFits, Building, Compiling
<1>15. OutFits(s)' /\ ManifestOf(s)'
  BY <1>1, <1>2, <1>5, <1>12 DEF ShellFits, PlanFits, OutFits, ManifestOf, Building
<1>16. ASSUME NEW r \in Shells \ {s} PROVE ShellFits(r)'
  BY <1>1, <1>5, UntouchedFits DEF BuildsIInv
<1> QED
  BY <1>7, <1>8, <1>11, <1>13, <1>14, <1>15, <1>16 DEF BuildsIInv, ShellFits

\* The entry is complete unless another is writing it.
LEMMA PutRestInv ==
  ASSUME BuildsIInv, NEW s \in Shells, PutRest(s)
  PROVE  BuildsIInv'
<1> PICK k, art : k = job[s].key /\ art = job[s].art
  OBVIOUS
<1>1. /\ pc[s] = "close" /\ Write(s, k.task, art, TRUE)
      /\ job' = [job EXCEPT ![s] = None]
      /\ UNCHANGED <<inPlace, source, plan, staged, manifest, edits, crashes>>
  BY DEF PutRest
<1>2. PICK fill \in {"torn", "whole"} :
        /\ fill = "torn" => \E r \in Shells \ {s} : Writing(r, k)
        /\ cache' = [cache EXCEPT ![k] = [fill |-> fill, art |-> art]]
  BY DEF PutRest
<1> DEFINE e == [fill |-> fill, art |-> art]
<1>3. Compiling(s) /\ Building(s) /\ ShellFits(s)
  BY <1>1 DEF Compiling, Building, BuildsIInv
<1>4. /\ job[s] \in Jobs /\ art \in Artifacts
      /\ k.sdk = TRUE <=> s \notin inPlace
      /\ s \notin inPlace => k.from = staged[s] /\ art = Component(k)
      /\ k.task \in todo[s]
  BY <1>1, <1>3 DEF ShellFits, JobFits, PlanFits
<1>5. k \in Keys /\ e \in Entries /\ e.art = art /\ e.fill = fill
  BY <1>4 DEF Jobs, Entries
<1> HIDE DEF e
<1>6. Written(s, k.task, art, TRUE)
  BY <1>1, <1>3, <1>4, WriteFacts
<1>7. cache' = [cache EXCEPT ![k] = e]
  BY <1>2 DEF e
<1>8. cache'[k] = e /\ \A l \in Keys \ {k} : cache'[l] = cache[l]
  BY <1>5, <1>7 DEF BuildsIInv, TypeOK
<1>9. TypeOK'
  <2>1. job' \in [Shells -> Jobs \cup {None}]
    BY <1>1 DEF BuildsIInv, TypeOK, Jobs
  <2>2. cache' \in [Keys -> Entries \cup {None}]
    BY <1>5, <1>7 DEF BuildsIInv, TypeOK
  <2> QED
    BY <1>1, <1>6, <2>1, <2>2 DEF BuildsIInv, TypeOK, Written, Jobs
<1>10. CacheFits'
  BY <1>4, <1>5, <1>8 DEF BuildsIInv, CacheFits
<1>11. \A r \in Shells \ {s} : Untouched(r)
  BY <1>1, <1>6 DEF BuildsIInv, TypeOK, Untouched, Written
<1>12. \A r \in Shells, l \in Keys \ {k} : Writing(r, l) => Writing(r, l)'
  <2> SUFFICES ASSUME NEW r \in Shells, NEW l \in Keys \ {k}, Writing(r, l)
               PROVE  Writing(r, l)'
    OBVIOUS
  <2>1. r # s
    BY DEF Writing
  <2> QED
    BY <1>11, <2>1, UntouchedWrites
<1>13. fill # "whole" => \E r \in Shells : Writing(r, k)'
  BY <1>2, <1>11, UntouchedWrites
<1>14. TornHasAWriter'
  BY <1>1, <1>5, <1>8, <1>12, <1>13 DEF BuildsIInv, TornHasAWriter
<1>15. OutFits(s)'
  BY <1>1, <1>3, <1>4, <1>6 DEF ShellFits, OutFits, Written, Component
<1>16. JobFits(s)' /\ ManifestOf(s)'
  BY <1>1, <1>3, <1>6 DEF ShellFits, JobFits, ManifestOf, PlanFits, Compiling, Written
<1>17. ASSUME NEW r \in Shells \ {s} PROVE ShellFits(r)'
  BY <1>1, <1>11, UntouchedFits DEF BuildsIInv
<1> QED
  BY <1>6, <1>9, <1>10, <1>14, <1>15, <1>16, <1>17 DEF BuildsIInv, ShellFits, Written

\* The manifest is written when every task of the plan has its file.
LEMMA WriteManifestInv ==
  ASSUME BuildsIInv, NEW s \in Shells, WriteManifest(s)
  PROVE  BuildsIInv'
<1>1. /\ pc[s] = "task" /\ todo[s] = {} /\ Leave(s)
      /\ manifest' = [manifest EXCEPT ![s] = plan[s]]
      /\ UNCHANGED <<inPlace, source, staged, cache, out, edits, crashes>>
  BY DEF WriteManifest, Manifest
<1>2. Building(s) /\ ShellFits(s)
  BY <1>1 DEF Building, BuildsIInv
<1>3. plan[s] \in Sources /\ OutFiles(s) = Exports[plan[s]]
  BY <1>1, <1>2 DEF ShellFits, PlanFits
<1>4. /\ pc'[s] = "idle" /\ manifest'[s] = plan[s]
      /\ \A r \in Shells \ {s} : Untouched(r)
  BY <1>1, LeaveFacts DEF BuildsIInv, TypeOK, Untouched
<1>5. TypeOK'
  <2>1. manifest' \in [Shells -> Sources \cup {None}]
    BY <1>1, <1>3 DEF BuildsIInv, TypeOK
  <2> QED
    BY <1>1, <2>1, LeaveFacts DEF BuildsIInv, TypeOK, Jobs
<1>6. CacheFits'
  BY <1>1 DEF BuildsIInv, CacheFits
<1>7. TornHasAWriter'
  <2>1. \A k \in Keys : ~Writing(s, k)
    BY <1>1 DEF Writing
  <2> QED
    BY <1>1, <1>4, <2>1, WritersStay, UntouchedWrites DEF BuildsIInv
<1>8. OutFiles(s)' = OutFiles(s)
  BY <1>1 DEF OutFiles
<1>9. ShellFits(s)'
  BY <1>1, <1>2, <1>3, <1>4, <1>8 DEF ShellFits, JobFits, PlanFits, OutFits,
                                      ManifestOf, Building, Compiling
<1>10. ASSUME NEW r \in Shells \ {s} PROVE ShellFits(r)'
  BY <1>1, <1>4, UntouchedFits DEF BuildsIInv
<1> QED
  BY <1>5, <1>6, <1>7, <1>9, <1>10 DEF BuildsIInv

----------------------------------------------------------------------------
(* The theorems *)

LEMMA BuildsNextInv == BuildsIInv /\ [Next]_vars => BuildsIInv'
<1> SUFFICES ASSUME BuildsIInv, [Next]_vars PROVE BuildsIInv'
  OBVIOUS
<1>1. ASSUME NEW s \in Shells, NEW t \in TaskNames, Hit(s, t) \/ Miss(s, t)
      PROVE  BuildsIInv'
  BY <1>1, HitInv, MissInv
<1>2. ASSUME NEW s \in Shells, Clean(s) \/ RemoveFile(s) \/ Cleaned(s) \/ Stage(s)
      PROVE  BuildsIInv'
  BY <1>2, CleanInv, RemoveFileInv, CleanedInv, StageInv
<1>3. ASSUME NEW s \in Shells, PutOpen(s) \/ PutSome(s) \/ PutRest(s)
      PROVE  BuildsIInv'
  BY <1>3, PutInv, PutRestInv DEF PutOpen, PutSome
<1>4. ASSUME NEW s \in Shells, Compile(s) \/ CompileFails(s) \/ WriteManifest(s) \/ Crash(s)
      PROVE  BuildsIInv'
  BY <1>4, CompileInv, CompileFailsInv, WriteManifestInv, CrashInv
<1>5. CASE UNCHANGED vars
  <2>1. UNCHANGED <<inPlace, source, pc, plan, staged, todo, job, cache, out,
                    manifest, edits, crashes>>
    BY <1>5 DEF vars
  <2>2. TypeOK' /\ CacheFits' /\ TornHasAWriter'
    BY <2>1 DEF BuildsIInv, TypeOK, CacheFits, TornHasAWriter, Writing
  <2>3. ASSUME NEW s \in Shells PROVE ShellFits(s)'
    BY <2>1, UntouchedFits DEF BuildsIInv, Untouched
  <2> QED
    BY <2>2, <2>3 DEF BuildsIInv
<1> QED
  BY <1>1, <1>2, <1>3, <1>4, <1>5, EditInv, InspectInv DEF Next

\* A component loads only when it is whole, and then it is the one OutFits says.
LEMMA BuildsIInvImplies ==
  BuildsIInv => TypeOK /\ BuildsGetTheirOwn /\ TornHasAWriter /\ ManifestFits /\ CacheFits
<1> SUFFICES ASSUME BuildsIInv
             PROVE  TypeOK /\ BuildsGetTheirOwn /\ TornHasAWriter /\ ManifestFits /\ CacheFits
  OBVIOUS
<1>1. ASSUME NEW s \in Shells \ inPlace, NEW t \in TaskNames, out[s][t] # None
      PROVE  Execute(Frame(out[s][t])) \subseteq {<<[task |-> t, from |-> staged[s]], <<>> >>}
  <2>1. out[s][t].whole = TRUE => out[s][t].art = [task |-> t, from |-> staged[s]]
    BY <1>1 DEF BuildsIInv, ShellFits, OutFits
  <2> QED
    BY <2>1 DEF Execute, Frame, Loads
<1>2. ManifestFits
  BY DEF BuildsIInv, ShellFits, ManifestOf, ManifestFits
<1> QED
  BY <1>1, <1>2 DEF BuildsIInv, BuildsGetTheirOwn

\* Every variable keeps its type: in particular every job, plan and entry is
\* there when a step of tandem build reads it.
THEOREM BuildsTypeCorrect == Spec => []TypeOK
<1> QED
  BY BuildsInitInv, BuildsNextInv, BuildsIInvImplies, PTL DEF Spec

\* Builds are hermetic (cli/build.py:63-66, cache.rs:29-31): a component that is
\* built from a staged copy computes what its task is in that copy, however
\* many shells edit, build, and share the cache at the same time.
THEOREM BuildsAreTheirOwn == Spec => []BuildsGetTheirOwn
<1> QED
  BY BuildsInitInv, BuildsNextInv, BuildsIInvImplies, PTL DEF Spec

\* The cache never serves the component of other sources or of another task
\* under the key of a staged copy, complete or not: what compile_with_cache
\* relies on.
THEOREM CacheServesItsKey == Spec => []CacheFits
<1> QED
  BY BuildsInitInv, BuildsNextInv, BuildsIInvImplies, PTL DEF Spec

\* Short of a crash an incomplete entry (BuildCache::put truncates, then fills)
\* has somebody who completes it.
THEOREM TornEntriesHaveWriters == Spec => []TornHasAWriter
<1> QED
  BY BuildsInitInv, BuildsNextInv, BuildsIInvImplies, PTL DEF Spec

\* A manifest stands beside the files of its tasks, and no others.
THEOREM ManifestsFit == Spec => []ManifestFits
<1> QED
  BY BuildsInitInv, BuildsNextInv, BuildsIInvImplies, PTL DEF Spec

----------------------------------------------------------------------------
(***************************************************************************)
(* Who owns what is deployed, for any number of users, machines, keys and  *)
(* deployments.  Two things carry the argument.  A pid is known to nobody  *)
(* but the request that makes it until the deployment is complete, so a    *)
(* removal never meets a deployment that is half made (PidsFit).  And a    *)
(* key is only ever one user's: there is an assignment of users to keys    *)
(* that every stored key, row and pending request agrees with, live or     *)
(* revoked (KeysFit).                                                      *)
(***************************************************************************)

USE DeploymentsAssumption

\* A request that makes a deployment, and one that was given the pid of one.
Making(m) == Waiting(m, "deploy") \/ Waiting(m, "serve") \/ Waiting(m, "host")
Using(m) == Waiting(m, "start") \/ Waiting(m, "unhost") \/ Waiting(m, "delete")

\* Pids are handed out in their order.
Numbered ==
  \E n \in 0..MaxPids : {p \in Pids : maker[p] # Nobody} = 1..n

PidsFit ==
  /\ Numbered
  /\ hosted \subseteq told
  /\ \A p \in told : maker[p] # Nobody
  /\ \A p \in Pids : rows[p] # Nobody => maker[p] # Nobody
  /\ \A m \in Machines : Making(m) =>
       /\ maker[request[m].pid] = UserOf[m] /\ request[m].pid \notin told
       /\ Waiting(m, "host") => rows[request[m].pid] # Nobody
  /\ \A m, n \in Machines : m # n /\ Making(m) /\ Making(n) =>
       request[m].pid # request[n].pid
  /\ \A m \in Machines : Using(m) => request[m].pid \in told
  /\ \A m \in Machines : Waiting(m, "delete") => request[m].pid \notin hosted
  /\ \A j \in jobs : maker[j[2]] = j[1]

\* The user each key was made for, and what became of it.
KeysFit(who) ==
  /\ \A k \in ApiKeys : owner[k] \in {who[k], Nobody}
  /\ \A k \in ApiKeys : k > generated => who[k] = Nobody
  /\ \A m \in Machines : held[m] # Nobody => who[held[m]] = UserOf[m]
  /\ \A p \in Pids : rows[p] # Nobody =>
       /\ who[rows[p]] = maker[p]
       /\ p \notin revoked => owner[rows[p]] # Nobody
  /\ \A m \in Machines : Making(m) =>
       /\ who[request[m].key] = UserOf[m]
       /\ request[m].pid \notin revoked => owner[request[m].key] # Nobody
  /\ \A m \in Machines : Waiting(m, "login") =>
       /\ \A k \in request[m].drop : who[k] = UserOf[m]
       /\ request[m].rotate \/ request[m].drop = {}

Histories == [ApiKeys -> Users \cup {Nobody}]

DeploymentsIInv(who) ==
  DeploymentsTypeOK /\ PidsFit /\ HostedAppsHaveRows /\ KeysFit(who)

DeploymentsInv == \E who \in Histories : DeploymentsIInv(who)

----------------------------------------------------------------------------
(* Requests *)

\* What a pending request holds.
LEMMA RequestFacts ==
  ASSUME DeploymentsTypeOK, NEW m \in Machines
  PROVE  /\ Waiting(m, "login") => /\ request[m].rotate \in BOOLEAN
                                   /\ request[m].drop \subseteq ApiKeys
         /\ Making(m) => request[m].key \in ApiKeys /\ request[m].pid \in Pids
         /\ Using(m) => request[m].pid \in Pids
<1>1. request[m] \in Requests \cup {Nobody}
  BY DEF DeploymentsTypeOK
<1> QED
  BY <1>1 DEF Waiting, Making, Using, Requests

\* What a step of m leaves of the requests of the others: all.
OthersWait(m) ==
  \A n \in Machines \ {m} :
    /\ request'[n] = request[n]
    /\ Making(n)' <=> Making(n)
    /\ Using(n)' <=> Using(n)
    /\ Waiting(n, "login")' <=> Waiting(n, "login")
    /\ Waiting(n, "host")' <=> Waiting(n, "host")
    /\ Waiting(n, "delete")' <=> Waiting(n, "delete")

USE DEF OthersWait

\* A step of one machine leaves the requests of the others as they are.
LEMMA OtherRequests ==
  ASSUME DeploymentsTypeOK, NEW m \in Machines, NEW r, Proceed(m, r)
  PROVE  OthersWait(m)
<1>1. \A n \in Machines \ {m} : request'[n] = request[n]
  BY DEF DeploymentsTypeOK, Proceed
<1> QED
  BY <1>1 DEF Making, Using, Waiting

\* A request that is answered is over.
LEMMA AfterAnswer ==
  ASSUME DeploymentsTypeOK, NEW m \in Machines, Answer(m)
  PROVE  /\ request' \in [Machines -> Requests \cup {Nobody}]
         /\ ~Making(m)' /\ ~Using(m)'
         /\ ~Waiting(m, "login")' /\ ~Waiting(m, "host")' /\ ~Waiting(m, "delete")'
         /\ OthersWait(m)
<1>1. Proceed(m, Nobody)
  BY DEF Answer
<1>2. request' = [request EXCEPT ![m] = Nobody]
  BY <1>1 DEF Proceed
<1>3. request'[m] = Nobody /\ request' \in [Machines -> Requests \cup {Nobody}]
  BY <1>2 DEF DeploymentsTypeOK
<1>4. OthersWait(m)
  BY <1>1, OtherRequests
<1> QED
  BY <1>3, <1>4 DEF Making, Using, Waiting

\* A request that goes on as r is one for r.op.
LEMMA AfterStage ==
  ASSUME DeploymentsTypeOK, NEW m \in Machines, NEW r \in Requests, Proceed(m, r)
  PROVE  /\ request' \in [Machines -> Requests \cup {Nobody}]
         /\ request'[m] = r
         /\ Making(m)' => r.op \in {"deploy", "serve", "host"}
         /\ Using(m)' => r.op \in {"start", "unhost", "delete"}
         /\ Waiting(m, "login")' => r.op = "login"
         /\ Waiting(m, "host")' => r.op = "host"
         /\ Waiting(m, "delete")' => r.op = "delete"
         /\ OthersWait(m)
<1>1. request' = [request EXCEPT ![m] = r]
  BY DEF Proceed
<1>2. request'[m] = r /\ request' \in [Machines -> Requests \cup {Nobody}]
  BY <1>1 DEF DeploymentsTypeOK
<1>3. OthersWait(m)
  BY OtherRequests
<1> QED
  BY <1>2, <1>3 DEF Making, Using, Waiting

----------------------------------------------------------------------------
(* The steps *)

\* Nothing is deployed, and no key is anyone's.
LEMMA DeploymentsInitInv == DeploymentsInit => DeploymentsInv
<1> SUFFICES ASSUME DeploymentsInit PROVE DeploymentsInv
  OBVIOUS
<1> DEFINE none == [k \in ApiKeys |-> Nobody]
<1>1. none \in Histories
  BY DEF Histories
<1>2. DeploymentsTypeOK
  BY DEF DeploymentsInit, DeploymentsTypeOK, ApiKeys, Pids
<1>3. Numbered
  <2>1. {p \in Pids : maker[p] # Nobody} = 1..0
    BY DEF DeploymentsInit
  <2>2. 0 \in 0..MaxPids
    OBVIOUS
  <2> QED
    BY <2>1, <2>2 DEF Numbered
<1>4. \A m \in Machines : request[m] = Nobody
  BY DEF DeploymentsInit
<1>5. PidsFit /\ HostedAppsHaveRows
  BY <1>3, <1>4 DEF DeploymentsInit, PidsFit, HostedAppsHaveRows, Making, Using, Waiting
<1>6. KeysFit(none)
  BY <1>4 DEF DeploymentsInit, KeysFit, Making, Waiting
<1> QED
  BY <1>1, <1>2, <1>5, <1>6 DEF DeploymentsInv, DeploymentsIInv

\* A key that is handed out once more is its user's.
LEMMA LoginWithKeyInv ==
  ASSUME NEW w \in Histories, DeploymentsIInv(w), NEW m \in Machines, LoginWithKey(m)
  PROVE  DeploymentsIInv(w)'
<1>1. DeploymentsTypeOK /\ PidsFit /\ HostedAppsHaveRows /\ KeysFit(w)
  BY DEF DeploymentsIInv
<1>2. PICK k \in KeysOf(UserOf[m]) : held' = [held EXCEPT ![m] = k]
  BY DEF LoginWithKey
<1>3. /\ logins < MaxLogins /\ logins' = logins + 1
      /\ UNCHANGED <<owner, request, rows, hosted, told, jobs, maker, revoked, generated>>
  BY DEF LoginWithKey
<1>4. k \in ApiKeys /\ w[k] = UserOf[m]
  BY <1>1, <1>2 DEF KeysOf, KeysFit
<1>5. DeploymentsTypeOK'
  BY <1>1, <1>2, <1>3, <1>4 DEF DeploymentsTypeOK
<1>6. PidsFit' /\ HostedAppsHaveRows'
  BY <1>1, <1>3 DEF PidsFit, HostedAppsHaveRows, Numbered, Making, Using, Waiting
<1>7. \A n \in Machines : held'[n] # Nobody => w[held'[n]] = UserOf[n]
  BY <1>1, <1>2, <1>4 DEF DeploymentsTypeOK, KeysFit
<1>8. KeysFit(w)'
  BY <1>1, <1>3, <1>7 DEF KeysFit, Making, Waiting
<1> QED
  BY <1>5, <1>6, <1>8 DEF DeploymentsIInv

\* The keys that a login is going to replace are its user's.
LEMMA LoginInv ==
  ASSUME NEW w \in Histories, DeploymentsIInv(w), NEW m \in Machines,
         NEW rotate \in BOOLEAN, Login(m, rotate)
  PROVE  DeploymentsIInv(w)'
<1> DEFINE r == [op |-> "login", rotate |-> rotate, drop |-> KeysOf(UserOf[m])]
<1>1. DeploymentsTypeOK /\ PidsFit /\ HostedAppsHaveRows /\ KeysFit(w)
  BY DEF DeploymentsIInv
<1>2. /\ rotate \/ KeysOf(UserOf[m]) = {}
      /\ Proceed(m, r)
      /\ logins < MaxLogins /\ logins' = logins + 1
      /\ UNCHANGED <<owner, held, rows, hosted, told, jobs, maker, revoked, generated>>
  BY DEF Login
<1>3. /\ r \in Requests /\ r.op = "login"
      /\ r.rotate = rotate /\ r.drop = KeysOf(UserOf[m])
  BY DEF Requests, KeysOf
<1> HIDE DEF r
<1>4. /\ request' \in [Machines -> Requests \cup {Nobody}]
      /\ request'[m] = r /\ ~Making(m)' /\ ~Using(m)'
      /\ ~Waiting(m, "host")' /\ ~Waiting(m, "delete")'
  BY <1>1, <1>2, <1>3, AfterStage
<1>5. OthersWait(m)
  BY <1>1, <1>2, OtherRequests
<1>6. DeploymentsTypeOK'
  BY <1>1, <1>2, <1>4 DEF DeploymentsTypeOK
<1>7. PidsFit' /\ HostedAppsHaveRows'
  BY <1>1, <1>2, <1>4, <1>5 DEF PidsFit, HostedAppsHaveRows, Numbered
<1>8. \A k \in r.drop : w[k] = UserOf[m]
  BY <1>1, <1>3 DEF KeysOf, KeysFit
<1>9. KeysFit(w)'
  BY <1>1, <1>2, <1>3, <1>4, <1>5, <1>8 DEF KeysFit
<1> QED
  BY <1>6, <1>7, <1>9 DEF DeploymentsIInv

\* A new key has been nobody's; the deployments that lose theirs are those of
\* the user who rotates.
LEMMA IssueKeyInv ==
  ASSUME NEW w \in Histories, DeploymentsIInv(w), NEW m \in Machines, IssueKey(m)
  PROVE  DeploymentsInv'
<1> DEFINE g == generated + 1
           drop == request[m].drop
<1>1. DeploymentsTypeOK /\ PidsFit /\ HostedAppsHaveRows /\ KeysFit(w)
  BY DEF DeploymentsIInv
<1>2. /\ Waiting(m, "login")
      /\ generated < MaxKeys /\ generated' = g
      /\ owner' = [k \in ApiKeys |-> IF k = g THEN UserOf[m]
                                     ELSE IF k \in drop THEN Nobody ELSE owner[k]]
      /\ held' = [held EXCEPT ![m] = g]
      /\ revoked' = revoked \cup
           {p \in Pids : request[m].rotate /\ maker[p] = UserOf[m]}
      /\ Answer(m)
      /\ UNCHANGED <<rows, hosted, told, jobs, maker, logins>>
  BY DEF IssueKey
<1>3. g \in ApiKeys /\ generated \in Nat /\ UserOf[m] \in Users
  BY <1>1, <1>2 DEF DeploymentsTypeOK, ApiKeys
<1>4. w[g] = Nobody
  BY <1>1, <1>3 DEF KeysFit
<1>5. PICK v \in Histories :
        v[g] = UserOf[m] /\ \A k \in ApiKeys \ {g} : v[k] = w[k]
  <2> DEFINE x == [w EXCEPT ![g] = UserOf[m]]
  <2>1. /\ x \in Histories
        /\ x[g] = UserOf[m] /\ \A k \in ApiKeys \ {g} : x[k] = w[k]
    BY <1>3 DEF Histories
  <2> QED
    BY <2>1
<1>6. \A k \in ApiKeys : owner'[k] = IF k = g THEN UserOf[m]
                                     ELSE IF k \in drop THEN Nobody ELSE owner[k]
  BY <1>2
<1>7. /\ \A k \in drop : w[k] = UserOf[m]
      /\ request[m].rotate \/ drop = {}
      /\ drop \subseteq ApiKeys
  BY <1>1, <1>2, RequestFacts DEF KeysFit
<1>8. /\ request' \in [Machines -> Requests \cup {Nobody}]
      /\ ~Making(m)' /\ ~Using(m)' /\ ~Waiting(m, "login")'
      /\ ~Waiting(m, "host")' /\ ~Waiting(m, "delete")'
  BY <1>1, <1>2, AfterAnswer
<1>9. OthersWait(m)
  BY <1>1, <1>2, AfterAnswer
<1> HIDE DEF g, drop
<1>10. DeploymentsTypeOK'
  <2>1. owner' \in [ApiKeys -> Users \cup {Nobody}]
    BY <1>1, <1>2, <1>3 DEF DeploymentsTypeOK
  <2>2. held' \in [Machines -> ApiKeys \cup {Nobody}]
    BY <1>1, <1>2, <1>3 DEF DeploymentsTypeOK
  <2>3. revoked' \subseteq Pids /\ generated' \in 0..MaxKeys
    BY <1>1, <1>2, <1>3 DEF DeploymentsTypeOK, g
  <2> QED
    BY <1>1, <1>2, <1>8, <2>1, <2>2, <2>3 DEF DeploymentsTypeOK
<1>11. PidsFit' /\ HostedAppsHaveRows'
  BY <1>1, <1>2, <1>8, <1>9 DEF PidsFit, HostedAppsHaveRows, Numbered
<1>12. \A k \in ApiKeys : owner'[k] \in {v[k], Nobody}
  BY <1>1, <1>5, <1>6 DEF KeysFit
<1>13. \A k \in ApiKeys : k > generated' => v[k] = Nobody
  BY <1>1, <1>2, <1>3, <1>5 DEF KeysFit, g, ApiKeys
<1>14. \A n \in Machines : held'[n] # Nobody => v[held'[n]] = UserOf[n]
  <2> SUFFICES ASSUME NEW n \in Machines, held'[n] # Nobody
               PROVE  v[held'[n]] = UserOf[n]
    OBVIOUS
  <2>1. CASE n = m
    BY <1>1, <1>2, <1>5, <2>1 DEF DeploymentsTypeOK
  <2>2. CASE n # m
    <3>1. held'[n] = held[n] /\ held[n] \in ApiKeys
      BY <1>1, <1>2, <2>2 DEF DeploymentsTypeOK
    <3>2. w[held[n]] = UserOf[n] /\ UserOf[n] # Nobody
      BY <1>1, <3>1 DEF KeysFit
    <3> QED
      BY <1>4, <1>5, <3>1, <3>2
  <2> QED
    BY <2>1, <2>2
<1>15. ASSUME NEW p \in Pids, NEW k \in ApiKeys, w[k] = maker[p], maker[p] # Nobody,
              p \notin revoked => owner[k] # Nobody
       PROVE  v[k] = maker[p] /\ (p \notin revoked' => owner'[k] # Nobody)
  <2>1. k # g /\ v[k] = maker[p]
    BY <1>4, <1>5, <1>15
  <2>2. k \in drop => p \in revoked'
    BY <1>2, <1>7, <1>15
  <2> QED
    BY <1>2, <1>6, <1>15, <2>1, <2>2
<1>16. \A p \in Pids : rows'[p] # Nobody =>
         /\ v[rows'[p]] = maker'[p]
         /\ p \notin revoked' => owner'[rows'[p]] # Nobody
  <2> SUFFICES ASSUME NEW p \in Pids, rows'[p] # Nobody
               PROVE  /\ v[rows'[p]] = maker'[p]
                      /\ p \notin revoked' => owner'[rows'[p]] # Nobody
    OBVIOUS
  <2>1. rows'[p] = rows[p] /\ maker'[p] = maker[p] /\ rows[p] \in ApiKeys
    BY <1>1, <1>2 DEF DeploymentsTypeOK
  <2>2. /\ w[rows[p]] = maker[p] /\ maker[p] # Nobody
        /\ p \notin revoked => owner[rows[p]] # Nobody
    BY <1>1, <2>1 DEF KeysFit, PidsFit
  <2> QED
    BY <1>15, <2>1, <2>2
<1>17. \A n \in Machines : Making(n)' =>
         /\ v[request'[n].key] = UserOf[n]
         /\ request'[n].pid \notin revoked' => owner'[request'[n].key] # Nobody
  <2> SUFFICES ASSUME NEW n \in Machines, Making(n)'
               PROVE  /\ v[request'[n].key] = UserOf[n]
                      /\ request'[n].pid \notin revoked' => owner'[request'[n].key] # Nobody
    OBVIOUS
  <2>1. n # m /\ request'[n] = request[n] /\ Making(n)
    BY <1>8, <1>9
  <2>2. /\ request[n].key \in ApiKeys /\ request[n].pid \in Pids
        /\ w[request[n].key] = UserOf[n] /\ maker[request[n].pid] = UserOf[n]
        /\ request[n].pid \notin revoked => owner[request[n].key] # Nobody
        /\ UserOf[n] # Nobody
    BY <1>1, <2>1, RequestFacts DEF KeysFit, PidsFit
  <2> QED
    BY <1>15, <2>1, <2>2
<1>18. \A n \in Machines : Waiting(n, "login")' =>
         /\ \A k \in request'[n].drop : v[k] = UserOf[n]
         /\ request'[n].rotate \/ request'[n].drop = {}
  <2> SUFFICES ASSUME NEW n \in Machines, Waiting(n, "login")'
               PROVE  /\ \A k \in request'[n].drop : v[k] = UserOf[n]
                      /\ request'[n].rotate \/ request'[n].drop = {}
    OBVIOUS
  <2>1. n # m /\ request'[n] = request[n] /\ Waiting(n, "login")
    BY <1>8, <1>9
  <2>2. /\ request[n].drop \subseteq ApiKeys
        /\ \A k \in request[n].drop : w[k] = UserOf[n]
        /\ request[n].rotate \/ request[n].drop = {}
        /\ UserOf[n] # Nobody
    BY <1>1, <2>1, RequestFacts DEF KeysFit
  <2> QED
    BY <1>4, <1>5, <2>1, <2>2
<1>19. KeysFit(v)'
  BY <1>12, <1>13, <1>14, <1>16, <1>17, <1>18 DEF KeysFit
<1> QED
  BY <1>5, <1>10, <1>11, <1>19 DEF DeploymentsInv, DeploymentsIInv

\* A deployment is begun under a pid that nobody knows, with a live key of its
\* maker's.
LEMMA BeginInv ==
  ASSUME NEW w \in Histories, DeploymentsIInv(w), NEW m \in Machines,
         NEW op \in {"deploy", "serve"}, Begin(m, op)
  PROVE  DeploymentsIInv(w)'
<1> DEFINE r == [op |-> op, key |-> held[m], pid |-> NewPid]
<1>1. DeploymentsTypeOK /\ PidsFit /\ HostedAppsHaveRows /\ KeysFit(w)
  BY DEF DeploymentsIInv
<1>2. /\ held[m] # Nobody /\ owner[held[m]] # Nobody
      /\ NewPid \in Pids
      /\ maker' = [maker EXCEPT ![NewPid] = UserOf[m]]
      /\ Proceed(m, r)
      /\ UNCHANGED <<owner, held, generated, logins, rows, hosted, told, jobs, revoked>>
  BY DEF Begin, Authenticated, accounts
<1>3. PICK n \in 0..MaxPids : {p \in Pids : maker[p] # Nobody} = 1..n
  BY <1>1 DEF PidsFit, Numbered
<1>4. NewPid = n + 1
  <2>1. Cardinality(1..n) = n
    BY FS_Interval
  <2> QED
    BY <1>3, <2>1 DEF NewPid
<1>5. maker[NewPid] = Nobody
  BY <1>2, <1>3, <1>4
<1>6. /\ r \in Requests /\ r.op = op /\ r.key = held[m] /\ r.pid = NewPid
      /\ held[m] \in ApiKeys
  BY <1>1, <1>2 DEF Requests, DeploymentsTypeOK
<1>7. /\ UserOf[m] # Nobody
      /\ maker' \in [Pids -> Users \cup {Nobody}]
      /\ maker'[NewPid] = UserOf[m]
      /\ \A p \in Pids \ {NewPid} : maker'[p] = maker[p]
  BY <1>1, <1>2 DEF DeploymentsTypeOK
<1> HIDE DEF r
<1>8. /\ request' \in [Machines -> Requests \cup {Nobody}]
      /\ request'[m] = r /\ ~Using(m)' /\ ~Waiting(m, "login")'
      /\ ~Waiting(m, "host")' /\ ~Waiting(m, "delete")'
  BY <1>1, <1>2, <1>6, AfterStage
<1>9. OthersWait(m)
  BY <1>1, <1>2, OtherRequests
<1>10. \A k \in Machines : Making(k) =>
         request[k].pid \in Pids \ {NewPid} /\ request[k].key \in ApiKeys
  <2> SUFFICES ASSUME NEW k \in Machines, Making(k)
               PROVE  request[k].pid \in Pids \ {NewPid} /\ request[k].key \in ApiKeys
    OBVIOUS
  <2>1. maker[request[k].pid] = UserOf[k] /\ UserOf[k] # Nobody
    BY <1>1 DEF PidsFit
  <2> QED
    BY <1>1, <1>5, <2>1, RequestFacts
<1>11. NewPid \notin told /\ rows[NewPid] = Nobody
       /\ (\A j \in jobs : j[2] # NewPid)
  <2>1. \A j \in jobs : j[1] \in Users /\ maker[j[2]] = j[1]
    BY <1>1 DEF DeploymentsTypeOK, PidsFit
  <2> QED
    BY <1>1, <1>2, <1>5, <2>1 DEF PidsFit
<1>12. DeploymentsTypeOK'
  BY <1>1, <1>2, <1>7, <1>8 DEF DeploymentsTypeOK
<1>13. Numbered'
  <2>1. {p \in Pids : maker'[p] # Nobody} = 1..(n + 1)
    BY <1>2, <1>3, <1>4, <1>7 DEF Pids
  <2>2. n + 1 \in 0..MaxPids
    BY <1>2, <1>4 DEF Pids
  <2> QED
    BY <2>1, <2>2 DEF Numbered
<1>14. /\ \A k \in Machines : Making(k)' =>
            /\ maker'[request'[k].pid] = UserOf[k] /\ request'[k].pid \notin told'
            /\ Waiting(k, "host")' => rows'[request'[k].pid] # Nobody
       /\ \A k, l \in Machines : k # l /\ Making(k)' /\ Making(l)' =>
            request'[k].pid # request'[l].pid
  BY <1>1, <1>2, <1>6, <1>7, <1>8, <1>9, <1>10, <1>11 DEF PidsFit
<1>15. \A j \in jobs' : maker'[j[2]] = j[1]
  BY <1>1, <1>2, <1>7, <1>11 DEF PidsFit, DeploymentsTypeOK
<1>16. PidsFit' /\ HostedAppsHaveRows'
  <2>1. /\ \A p \in told' : maker'[p] # Nobody
        /\ \A p \in Pids : rows'[p] # Nobody => maker'[p] # Nobody
    BY <1>1, <1>2, <1>7, <1>11 DEF PidsFit, DeploymentsTypeOK
  <2>2. /\ \A k \in Machines : Using(k)' => request'[k].pid \in told'
        /\ \A k \in Machines : Waiting(k, "delete")' => request'[k].pid \notin hosted'
    BY <1>1, <1>2, <1>8, <1>9 DEF PidsFit
  <2> QED
    BY <1>1, <1>2, <1>13, <1>14, <1>15, <2>1, <2>2 DEF PidsFit, HostedAppsHaveRows
<1>17. \A p \in Pids : rows'[p] # Nobody =>
         /\ w[rows'[p]] = maker'[p]
         /\ p \notin revoked' => owner'[rows'[p]] # Nobody
  BY <1>1, <1>2, <1>7, <1>11 DEF KeysFit
<1>18. \A k \in Machines : Making(k)' =>
         /\ w[request'[k].key] = UserOf[k]
         /\ request'[k].pid \notin revoked' => owner'[request'[k].key] # Nobody
  BY <1>1, <1>2, <1>6, <1>8, <1>9 DEF KeysFit
<1>19. KeysFit(w)'
  BY <1>1, <1>2, <1>8, <1>9, <1>17, <1>18 DEF KeysFit
<1> QED
  BY <1>12, <1>16, <1>19 DEF DeploymentsIInv

\* The row of a deployment has its maker's key; the row of an app is there when
\* Redis hears of it.
LEMMA CommitRowInv ==
  ASSUME NEW w \in Histories, DeploymentsIInv(w), NEW m \in Machines, CommitRow(m)
  PROVE  DeploymentsIInv(w)'
<1> DEFINE p == request[m].pid
           k == request[m].key
           r == [request[m] EXCEPT !.op = "host"]
<1>1. DeploymentsTypeOK /\ PidsFit /\ HostedAppsHaveRows /\ KeysFit(w)
  BY DEF DeploymentsIInv
<1>2. /\ \/ Waiting(m, "deploy") /\ told' = told \cup {p} /\ Answer(m)
         \/ Waiting(m, "serve") /\ told' = told /\ Proceed(m, r)
      /\ rows' = [rows EXCEPT ![p] = k]
      /\ UNCHANGED <<owner, held, generated, logins, hosted, jobs, maker, revoked>>
  BY DEF CommitRow, Tell, accounts
<1>3. Making(m) /\ p \in Pids /\ k \in ApiKeys
  BY <1>1, <1>2, RequestFacts DEF Making
<1>4. /\ maker[p] = UserOf[m] /\ UserOf[m] # Nobody /\ p \notin told
      /\ w[k] = UserOf[m] /\ (p \notin revoked => owner[k] # Nobody)
      /\ \A n \in Machines \ {m} : Making(n) => request[n].pid # p
  BY <1>1, <1>3 DEF PidsFit, KeysFit
<1>5. /\ rows' \in [Pids -> ApiKeys \cup {Nobody}]
      /\ rows'[p] = k /\ k # Nobody
      /\ \A q \in Pids \ {p} : rows'[q] = rows[q]
  BY <1>1, <1>2, <1>3 DEF DeploymentsTypeOK
<1>6. /\ told \subseteq told' /\ told' \subseteq told \cup {p}
      /\ request' \in [Machines -> Requests \cup {Nobody}]
      /\ ~Using(m)' /\ ~Waiting(m, "login")' /\ ~Waiting(m, "delete")'
      /\ Making(m)' => told' = told /\ request'[m].pid = p /\ request'[m].key = k
      /\ OthersWait(m)
  <2>1. CASE Waiting(m, "deploy") /\ told' = told \cup {p} /\ Answer(m)
    BY <1>1, <2>1, AfterAnswer
  <2>2. CASE Waiting(m, "serve") /\ told' = told /\ Proceed(m, r)
    <3>1. r \in Requests /\ r.op = "host" /\ r.pid = p /\ r.key = k
      BY <1>1, <1>3, <2>2 DEF DeploymentsTypeOK, Waiting, Requests
    <3> HIDE DEF r
    <3> QED
      BY <1>1, <2>2, <3>1, AfterStage
  <2> QED
    BY <1>2, <2>1, <2>2
<1> HIDE DEF p, k, r
<1>7. DeploymentsTypeOK'
  BY <1>1, <1>2, <1>3, <1>5, <1>6 DEF DeploymentsTypeOK
<1>8. \A n \in Machines : Making(n)' =>
        /\ maker'[request'[n].pid] = UserOf[n] /\ request'[n].pid \notin told'
        /\ Waiting(n, "host")' => rows'[request'[n].pid] # Nobody
  <2> SUFFICES ASSUME NEW n \in Machines, Making(n)'
               PROVE  /\ maker'[request'[n].pid] = UserOf[n]
                      /\ request'[n].pid \notin told'
                      /\ Waiting(n, "host")' => rows'[request'[n].pid] # Nobody
    OBVIOUS
  <2>1. CASE n = m
    BY <1>2, <1>4, <1>5, <1>6, <2>1
  <2>2. CASE n # m
    <3>1. request'[n] = request[n] /\ Making(n) /\ request[n].pid \in Pids \ {p}
      BY <1>1, <1>4, <1>6, <2>2, RequestFacts
    <3> QED
      BY <1>1, <1>2, <1>5, <1>6, <2>2, <3>1 DEF PidsFit
  <2> QED
    BY <2>1, <2>2
<1>9. \A n, l \in Machines : n # l /\ Making(n)' /\ Making(l)' =>
        request'[n].pid # request'[l].pid
  BY <1>1, <1>4, <1>6 DEF PidsFit
<1>10. PidsFit' /\ HostedAppsHaveRows'
  <2>1. /\ \A q \in told' : maker'[q] # Nobody
        /\ \A q \in Pids : rows'[q] # Nobody => maker'[q] # Nobody
    BY <1>1, <1>2, <1>4, <1>5, <1>6 DEF PidsFit
  <2>2. /\ \A n \in Machines : Using(n)' => request'[n].pid \in told'
        /\ \A n \in Machines : Waiting(n, "delete")' => request'[n].pid \notin hosted'
    BY <1>1, <1>2, <1>6 DEF PidsFit
  <2>3. /\ hosted' \subseteq told'
        /\ \A q \in hosted' : rows'[q] # Nobody
    BY <1>1, <1>2, <1>5, <1>6 DEF PidsFit, HostedAppsHaveRows, DeploymentsTypeOK
  <2>4. Numbered'
    BY <1>1, <1>2 DEF PidsFit, Numbered
  <2> QED
    BY <1>1, <1>2, <1>8, <1>9, <2>1, <2>2, <2>3, <2>4 DEF PidsFit, HostedAppsHaveRows
<1>11. KeysFit(w)'
  <2>1. \A q \in Pids : rows'[q] # Nobody =>
          /\ w[rows'[q]] = maker'[q]
          /\ q \notin revoked' => owner'[rows'[q]] # Nobody
    BY <1>1, <1>2, <1>4, <1>5 DEF KeysFit
  <2>2. \A n \in Machines : Making(n)' =>
          /\ w[request'[n].key] = UserOf[n]
          /\ request'[n].pid \notin revoked' => owner'[request'[n].key] # Nobody
    BY <1>1, <1>2, <1>4, <1>6 DEF KeysFit
  <2> QED
    BY <1>1, <1>2, <1>6, <2>1, <2>2 DEF KeysFit
<1> QED
  BY <1>7, <1>10, <1>11 DEF DeploymentsIInv

\* An app is hosted when its row is there, and only then is its pid known.
LEMMA HostAppInv ==
  ASSUME NEW w \in Histories, DeploymentsIInv(w), NEW m \in Machines, HostApp(m)
  PROVE  DeploymentsIInv(w)'
<1> DEFINE p == request[m].pid
<1>1. DeploymentsTypeOK /\ PidsFit /\ HostedAppsHaveRows /\ KeysFit(w)
  BY DEF DeploymentsIInv
<1>2. /\ Waiting(m, "host") /\ Answer(m)
      /\ hosted' = hosted \cup {p} /\ told' = told \cup {p}
      /\ UNCHANGED <<owner, held, generated, logins, rows, jobs, maker, revoked>>
  BY DEF HostApp, Tell, accounts
<1>3. Making(m) /\ p \in Pids
  BY <1>1, <1>2, RequestFacts DEF Making
<1>4. /\ maker[p] = UserOf[m] /\ UserOf[m] # Nobody /\ p \notin told
      /\ rows[p] # Nobody
      /\ \A n \in Machines \ {m} : Making(n) => request[n].pid # p
  BY <1>1, <1>2, <1>3 DEF PidsFit
<1>5. /\ request' \in [Machines -> Requests \cup {Nobody}]
      /\ ~Making(m)' /\ ~Using(m)'
      /\ ~Waiting(m, "login")' /\ ~Waiting(m, "host")' /\ ~Waiting(m, "delete")'
      /\ OthersWait(m)
  BY <1>1, <1>2, AfterAnswer
<1> HIDE DEF p
<1>6. DeploymentsTypeOK'
  BY <1>1, <1>2, <1>3, <1>5 DEF DeploymentsTypeOK
<1>7. \A n \in Machines : Waiting(n, "delete")' => request'[n].pid \notin hosted'
  <2>1. \A n \in Machines : Waiting(n, "delete") =>
          request[n].pid \in told /\ request[n].pid \notin hosted
    BY <1>1 DEF PidsFit, Using
  <2> QED
    BY <1>2, <1>4, <1>5, <2>1
<1>8. PidsFit' /\ HostedAppsHaveRows'
  <2>1. /\ hosted' \subseteq told'
        /\ \A q \in told' : maker'[q] # Nobody
        /\ \A q \in hosted' : rows'[q] # Nobody
        /\ Numbered'
    BY <1>1, <1>2, <1>4 DEF PidsFit, HostedAppsHaveRows, Numbered
  <2> QED
    BY <1>1, <1>2, <1>4, <1>5, <1>7, <2>1 DEF PidsFit, HostedAppsHaveRows
<1>9. KeysFit(w)'
  BY <1>1, <1>2, <1>5 DEF KeysFit
<1> QED
  BY <1>6, <1>8, <1>9 DEF DeploymentsIInv

\* A request for a pid that its user was given.
LEMMA UseInv ==
  ASSUME NEW w \in Histories, DeploymentsIInv(w), NEW m \in Machines, NEW p \in told,
         NEW r \in Requests, r.op \in {"start", "unhost"}, r.pid = p, Proceed(m, r),
         UNCHANGED <<accounts, rows, hosted, told, jobs, maker, revoked>>
  PROVE  DeploymentsIInv(w)'
<1>1. DeploymentsTypeOK /\ PidsFit /\ HostedAppsHaveRows /\ KeysFit(w)
  BY DEF DeploymentsIInv
<1>2. UNCHANGED <<owner, held, generated, logins, rows, hosted, told, jobs, maker, revoked>>
  BY DEF accounts
<1>3. /\ request' \in [Machines -> Requests \cup {Nobody}]
      /\ request'[m] = r
      /\ ~Making(m)'
      /\ ~Waiting(m, "login")' /\ ~Waiting(m, "host")' /\ ~Waiting(m, "delete")'
      /\ OthersWait(m)
  BY <1>1, AfterStage
<1>4. DeploymentsTypeOK'
  BY <1>1, <1>2, <1>3 DEF DeploymentsTypeOK
<1>5. PidsFit' /\ HostedAppsHaveRows'
  BY <1>1, <1>2, <1>3 DEF PidsFit, HostedAppsHaveRows, Numbered
<1>6. KeysFit(w)'
  BY <1>1, <1>2, <1>3 DEF KeysFit
<1> QED
  BY <1>4, <1>5, <1>6 DEF DeploymentsIInv

\* Whoever may access a deployment made it.
LEMMA StartJobInv ==
  ASSUME NEW w \in Histories, DeploymentsIInv(w), NEW m \in Machines, StartJob(m)
  PROVE  DeploymentsIInv(w)'
<1> DEFINE p == request[m].pid
<1>1. DeploymentsTypeOK /\ PidsFit /\ HostedAppsHaveRows /\ KeysFit(w)
  BY DEF DeploymentsIInv
<1>2. /\ Waiting(m, "start") /\ rows[p] # Nobody /\ owner[rows[p]] = UserOf[m]
      /\ jobs' = jobs \cup {<<UserOf[m], p>>} /\ Answer(m)
      /\ UNCHANGED <<owner, held, generated, logins, rows, hosted, told, maker, revoked>>
  BY DEF StartJob, MayAccess, accounts
<1>3. p \in Pids /\ UserOf[m] \in Users
  BY <1>1, <1>2, RequestFacts DEF Using
<1>4. maker[p] = UserOf[m]
  <2>1. rows[p] \in ApiKeys
    BY <1>1, <1>2, <1>3 DEF DeploymentsTypeOK
  <2>2. w[rows[p]] = maker[p] /\ owner[rows[p]] \in {w[rows[p]], Nobody}
    BY <1>1, <1>2, <1>3, <2>1 DEF KeysFit
  <2> QED
    BY <1>2, <1>3, <2>2
<1>5. /\ request' \in [Machines -> Requests \cup {Nobody}]
      /\ ~Making(m)' /\ ~Using(m)'
      /\ ~Waiting(m, "login")' /\ ~Waiting(m, "host")' /\ ~Waiting(m, "delete")'
      /\ OthersWait(m)
  BY <1>1, <1>2, AfterAnswer
<1> HIDE DEF p
<1>6. DeploymentsTypeOK'
  BY <1>1, <1>2, <1>3, <1>5 DEF DeploymentsTypeOK
<1>7. \A j \in jobs' : maker'[j[2]] = j[1]
  BY <1>1, <1>2, <1>4 DEF PidsFit
<1>8. PidsFit' /\ HostedAppsHaveRows'
  BY <1>1, <1>2, <1>5, <1>7 DEF PidsFit, HostedAppsHaveRows, Numbered
<1>9. KeysFit(w)'
  BY <1>1, <1>2, <1>5 DEF KeysFit
<1> QED
  BY <1>6, <1>8, <1>9 DEF DeploymentsIInv

\* The entry in Redis goes before the row.
LEMMA UnhostInv ==
  ASSUME NEW w \in Histories, DeploymentsIInv(w), NEW m \in Machines, Unhost(m)
  PROVE  DeploymentsIInv(w)'
<1> DEFINE p == request[m].pid
           r == [request[m] EXCEPT !.op = "delete"]
<1>1. DeploymentsTypeOK /\ PidsFit /\ HostedAppsHaveRows /\ KeysFit(w)
  BY DEF DeploymentsIInv
<1>2. /\ Waiting(m, "unhost") /\ hosted' = hosted \ {p} /\ Proceed(m, r)
      /\ UNCHANGED <<owner, held, generated, logins, rows, told, jobs, maker, revoked>>
  BY DEF Unhost, accounts
<1>3. Using(m) /\ p \in told
  BY <1>1, <1>2 DEF PidsFit, Using
<1>4. r \in Requests /\ r.op = "delete" /\ r.pid = p
  BY <1>1, <1>2 DEF DeploymentsTypeOK, Waiting, Requests
<1> HIDE DEF r
<1>5. /\ request' \in [Machines -> Requests \cup {Nobody}]
      /\ request'[m] = r
      /\ ~Making(m)'
      /\ ~Waiting(m, "login")' /\ ~Waiting(m, "host")'
      /\ OthersWait(m)
  BY <1>1, <1>2, <1>4, AfterStage
<1> HIDE DEF p
<1>6. DeploymentsTypeOK'
  BY <1>1, <1>2, <1>5 DEF DeploymentsTypeOK
<1>7. PidsFit' /\ HostedAppsHaveRows'
  BY <1>1, <1>2, <1>3, <1>4, <1>5 DEF PidsFit, HostedAppsHaveRows, Numbered
<1>8. KeysFit(w)'
  BY <1>1, <1>2, <1>5 DEF KeysFit
<1> QED
  BY <1>6, <1>7, <1>8 DEF DeploymentsIInv

\* A row that goes is that of an app no longer hosted, and nobody is about to
\* host it: its pid is known.
LEMMA DeleteRowInv ==
  ASSUME NEW w \in Histories, DeploymentsIInv(w), NEW m \in Machines, DeleteRow(m)
  PROVE  DeploymentsIInv(w)'
<1> DEFINE p == request[m].pid
<1>1. DeploymentsTypeOK /\ PidsFit /\ HostedAppsHaveRows /\ KeysFit(w)
  BY DEF DeploymentsIInv
<1>2. /\ Waiting(m, "delete") /\ rows' = [rows EXCEPT ![p] = Nobody] /\ Answer(m)
      /\ UNCHANGED <<owner, held, generated, logins, hosted, told, jobs, maker, revoked>>
  BY DEF DeleteRow, accounts
<1>3. Using(m) /\ p \in told /\ p \notin hosted /\ p \in Pids
  BY <1>1, <1>2, RequestFacts DEF PidsFit, Using
<1>4. /\ rows' \in [Pids -> ApiKeys \cup {Nobody}]
      /\ rows'[p] = Nobody
      /\ \A q \in Pids \ {p} : rows'[q] = rows[q]
  BY <1>1, <1>2, <1>3 DEF DeploymentsTypeOK
<1>5. /\ request' \in [Machines -> Requests \cup {Nobody}]
      /\ ~Making(m)' /\ ~Using(m)'
      /\ ~Waiting(m, "login")' /\ ~Waiting(m, "host")' /\ ~Waiting(m, "delete")'
      /\ OthersWait(m)
  BY <1>1, <1>2, AfterAnswer
<1> HIDE DEF p
<1>6. DeploymentsTypeOK'
  BY <1>1, <1>2, <1>4, <1>5 DEF DeploymentsTypeOK
<1>7. \A n \in Machines : Making(n)' =>
        /\ maker'[request'[n].pid] = UserOf[n] /\ request'[n].pid \notin told'
        /\ Waiting(n, "host")' => rows'[request'[n].pid] # Nobody
  <2> SUFFICES ASSUME NEW n \in Machines, Making(n)'
               PROVE  /\ maker'[request'[n].pid] = UserOf[n]
                      /\ request'[n].pid \notin told'
                      /\ Waiting(n, "host")' => rows'[request'[n].pid] # Nobody
    OBVIOUS
  <2>1. n # m /\ request'[n] = request[n] /\ Making(n)
    BY <1>5
  <2>2. request[n].pid \in Pids \ {p}
    BY <1>1, <1>3, <2>1, RequestFacts DEF PidsFit
  <2> QED
    BY <1>1, <1>2, <1>4, <1>5, <2>1, <2>2 DEF PidsFit
<1>8. PidsFit' /\ HostedAppsHaveRows'
  <2>1. /\ \A q \in Pids : rows'[q] # Nobody => maker'[q] # Nobody
        /\ \A q \in hosted' : rows'[q] # Nobody
        /\ Numbered'
    BY <1>1, <1>2, <1>3, <1>4 DEF PidsFit, HostedAppsHaveRows, Numbered, DeploymentsTypeOK
  <2> QED
    BY <1>1, <1>2, <1>5, <1>7, <2>1 DEF PidsFit, HostedAppsHaveRows
<1>9. KeysFit(w)'
  <2>1. \A q \in Pids : rows'[q] # Nobody =>
          /\ w[rows'[q]] = maker'[q]
          /\ q \notin revoked' => owner'[rows'[q]] # Nobody
    BY <1>1, <1>2, <1>4 DEF KeysFit
  <2> QED
    BY <1>1, <1>2, <1>5, <2>1 DEF KeysFit
<1> QED
  BY <1>6, <1>8, <1>9 DEF DeploymentsIInv

\* A request that breaks off leaves what it committed.
LEMMA BreakOffInv ==
  ASSUME NEW w \in Histories, DeploymentsIInv(w), NEW m \in Machines, BreakOff(m)
  PROVE  DeploymentsIInv(w)'
<1>1. DeploymentsTypeOK /\ PidsFit /\ HostedAppsHaveRows /\ KeysFit(w)
  BY DEF DeploymentsIInv
<1>2. /\ Answer(m)
      /\ UNCHANGED <<owner, held, generated, logins, rows, hosted, told, jobs, maker, revoked>>
  BY DEF BreakOff, accounts
<1>3. /\ request' \in [Machines -> Requests \cup {Nobody}]
      /\ ~Making(m)' /\ ~Using(m)'
      /\ ~Waiting(m, "login")' /\ ~Waiting(m, "host")' /\ ~Waiting(m, "delete")'
      /\ OthersWait(m)
  BY <1>1, <1>2, AfterAnswer
<1>4. DeploymentsTypeOK'
  BY <1>1, <1>2, <1>3 DEF DeploymentsTypeOK
<1>5. PidsFit' /\ HostedAppsHaveRows'
  BY <1>1, <1>2, <1>3 DEF PidsFit, HostedAppsHaveRows, Numbered
<1>6. KeysFit(w)'
  BY <1>1, <1>2, <1>3 DEF KeysFit
<1> QED
  BY <1>4, <1>5, <1>6 DEF DeploymentsIInv

\* Every step preserves the invariant.
LEMMA DeploymentsNextInv == DeploymentsInv /\ [DeploymentsNext]_deploymentsVars => DeploymentsInv'
<1> SUFFICES ASSUME DeploymentsInv, [DeploymentsNext]_deploymentsVars PROVE DeploymentsInv'
  OBVIOUS
<1>1. PICK w \in Histories : DeploymentsIInv(w)
  BY DEF DeploymentsInv
<1>2. SUFFICES (\E v \in Histories : DeploymentsIInv(v)') \/ DeploymentsInv'
  BY DEF DeploymentsInv
<1>3. CASE UNCHANGED deploymentsVars
  <2>1. DeploymentsTypeOK' /\ HostedAppsHaveRows'
    BY <1>1, <1>3 DEF DeploymentsIInv, deploymentsVars, DeploymentsTypeOK, HostedAppsHaveRows
  <2>2. PidsFit'
    BY <1>1, <1>3 DEF DeploymentsIInv, deploymentsVars, PidsFit, Numbered, Making, Using, Waiting
  <2>3. KeysFit(w)'
    BY <1>1, <1>3 DEF DeploymentsIInv, deploymentsVars, KeysFit, Making, Waiting
  <2> QED
    BY <2>1, <2>2, <2>3 DEF DeploymentsIInv
<1>4. ASSUME NEW m \in Machines,
             \/ LoginWithKey(m) \/ IssueKey(m)
             \/ \E rotate \in BOOLEAN : Login(m, rotate)
             \/ BeginDeploy(m) \/ BeginServe(m)
             \/ CommitRow(m) \/ HostApp(m)
             \/ \E p \in Pids : BeginStart(m, p) \/ BeginRemove(m, p)
             \/ StartJob(m) \/ Unhost(m) \/ DeleteRow(m) \/ BreakOff(m)
      PROVE  (\E v \in Histories : DeploymentsIInv(v)') \/ DeploymentsInv'
  <2>1. CASE LoginWithKey(m)
    BY <1>1, <2>1, LoginWithKeyInv
  <2>2. CASE IssueKey(m)
    BY <1>1, <2>2, IssueKeyInv
  <2>3. CASE \E rotate \in BOOLEAN : Login(m, rotate)
    BY <1>1, <2>3, LoginInv
  <2>4. CASE BeginDeploy(m) \/ BeginServe(m)
    BY <1>1, <2>4, BeginInv DEF BeginDeploy, BeginServe
  <2>5. CASE CommitRow(m)
    BY <1>1, <2>5, CommitRowInv
  <2>6. CASE HostApp(m)
    BY <1>1, <2>6, HostAppInv
  <2>7. ASSUME NEW p \in Pids, BeginStart(m, p) \/ BeginRemove(m, p)
        PROVE  DeploymentsIInv(w)'
    <3>1. PICK op \in {"start", "unhost"} : Proceed(m, [op |-> op, pid |-> p])
      BY <2>7 DEF BeginStart, BeginRemove
    <3> DEFINE r == [op |-> op, pid |-> p]
    <3>2. r \in Requests /\ r.op \in {"start", "unhost"} /\ r.pid = p
      BY DEF Requests
    <3>3. p \in told /\ UNCHANGED <<accounts, rows, hosted, told, jobs, maker, revoked>>
      BY <2>7 DEF BeginStart, BeginRemove
    <3> HIDE DEF r
    <3> QED
      BY <1>1, <3>1, <3>2, <3>3, UseInv DEF r
  <2>8. CASE StartJob(m)
    BY <1>1, <2>8, StartJobInv
  <2>9. CASE Unhost(m)
    BY <1>1, <2>9, UnhostInv
  <2>10. CASE DeleteRow(m)
    BY <1>1, <2>10, DeleteRowInv
  <2>11. CASE BreakOff(m)
    BY <1>1, <2>11, BreakOffInv
  <2> QED
    BY <1>1, <1>4, <2>1, <2>2, <2>3, <2>4, <2>5, <2>6, <2>7, <2>8, <2>9, <2>10, <2>11
<1> QED
  BY <1>3, <1>4 DEF DeploymentsNext

----------------------------------------------------------------------------
(* The theorems *)

\* The invariant holds whatever the users of a server do (blueprints/api.py,
\* deploy.py, serve.py, start.py).
THEOREM DeploymentsInvariance == DeploymentsSpec => []DeploymentsInv
<1>1. DeploymentsInit => DeploymentsInv
  BY DeploymentsInitInv
<1>2. DeploymentsInv /\ [DeploymentsNext]_deploymentsVars => DeploymentsInv'
  BY DeploymentsNextInv
<1> QED
  BY <1>1, <1>2, PTL DEF DeploymentsSpec

\* An app in Redis has its row in the database, however many users deploy and
\* remove at the same time and wherever their requests break off
\* (serve.py:62-70, serve.py:189-200).
THEOREM HostedHaveRows == DeploymentsSpec => []HostedAppsHaveRows
<1>1. DeploymentsInv => HostedAppsHaveRows
  BY DEF DeploymentsInv, DeploymentsIInv
<1> QED
  BY <1>1, DeploymentsInvariance, PTL

\* A deployment stays its maker's, who alone starts jobs of it and lists it,
\* until the maker rotates keys, and is nobody's after that (usage.py:7-8,
\* utils/auth.py:ensure_deployment_access, api.py:_issue_api_key).
THEOREM DeploymentsKept == DeploymentsSpec => []DeploymentsStayTheirMakers
<1>1. ASSUME DeploymentsInv PROVE DeploymentsStayTheirMakers
  <2>1. PICK w \in Histories : DeploymentsIInv(w)
    BY <1>1 DEF DeploymentsInv
  <2>2. DeploymentsTypeOK /\ PidsFit /\ KeysFit(w)
    BY <2>1 DEF DeploymentsIInv
  <2>3. \A p \in Pids : rows[p] # Nobody =>
          /\ owner[rows[p]] \in {maker[p], Nobody}
          /\ p \notin revoked => owner[rows[p]] = maker[p]
    BY <2>2 DEF DeploymentsTypeOK, KeysFit
  <2>4. \A j \in jobs : maker[j[2]] = j[1]
    BY <2>2 DEF PidsFit
  <2>5. \A m \in Machines, p \in Pids :
          held[m] # Nobody /\ p \in Listed(m) => maker[p] = UserOf[m]
    BY <2>2 DEF DeploymentsTypeOK, KeysFit, Listed
  <2> QED
    BY <2>3, <2>4, <2>5 DEF DeploymentsStayTheirMakers
<1>2. DeploymentsInv => DeploymentsStayTheirMakers
  BY <1>1
<1> QED
  BY <1>2, DeploymentsInvariance, PTL
==============================================================================
