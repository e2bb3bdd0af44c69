-------------------------- MODULE StopWatchProofs --------------------------
(***************************************************************************)
(* What holds of the in-process fixtures for every graph, every kind of    *)
(* node and any number of retries: the order of setups and releases, one   *)
(* release per BeforeAll entered, and that a failure has a culprit.        *)
(*                                                                         *)
(* And of the test process told to stop around them, for any number of     *)
(* suites, methods and signals, under the runner or without it.  What the  *)
(* process does to its fixtures is what FixtureDAG allows, so the graph's  *)
(* own theorems carry over.                                                *)
(***************************************************************************)
EXTENDS StopWatch, TLAPS, WellFoundedInduction

(* The fixture graph *)


Ready(d) == node[d] = "ended" /\ errs[d] = "none"
Culprit  == \E g \in Fixtures : errs[g] = g

(* The inductive invariant, conjunct by conjunct.                          *)

\* An attempt is begun only while one is left.
AttemptsLeft ==
    \A f \in Fixtures :
        /\ node[f] \in {"waiting", "init"} => attempt[f] = 0
        /\ node[f] \in {"begin", "delay", "between"} => attempt[f] <= Retries

\* The tracker names exactly what is entered and not released.
TrackerCounts ==
    \A f \in Fixtures :
        entered[f] = IF f \in attempted /\ teardown[f] # "ended"
                       THEN released[f] + 1 ELSE released[f]

\* Where a setup goroutine is tells whether the tracker names its fixture.
TrackerFollows ==
    \A f \in Fixtures :
        /\ node[f] \in {"waiting", "init", "begin"} => f \notin attempted
        /\ node[f] \in {"entered", "delay", "between"} => f \in attempted
        /\ Ready(f) => f \in attempted \cup Unnamed
        /\ node[f] # "ended" => errs[f] = "none"

\* Dependencies that were awaited are ready, and all were before Init.
OnTop ==
    \A f \in Fixtures :
        /\ \A i \in 1..(at[f] - 1) : Ready(DependsOn[f][i])
        /\ f \in attempted \/ node[f] \in {"init", "begin"} =>
              \A d \in Deps(f) : Ready(d)

\* What each phase of the one caller leaves for the goroutines to do.
PhaseTells ==
    /\ phase = "idle" => \A f \in Fixtures : node[f] = "waiting"
    /\ \A f \in Fixtures : node[f] \notin {"waiting", "ended"} => phase = "setup"
    /\ phase \in {"undo", "up", "tearing", "torn"} =>
          \A f \in Fixtures : node[f] = "ended"
    /\ phase = "up" => \A f \in Fixtures : errs[f] = "none"
    /\ phase \in {"failed", "torn"} =>
          attempted = {} \/ \A f \in Fixtures : teardown[f] = "ended"

\* Releases go from the dependents down.
ReleaseOrder ==
    \A f \in Fixtures :
        /\ teardown[f] # "waiting" =>
              /\ phase \in {"undo", "failed", "tearing", "torn"}
              /\ \A d \in Dependents(f) : teardown[d] = "ended"
        /\ teardown[f] = "release" => f \in attempted

\* Without a stop, every cancel and every error goes back to a culprit.
Blamed ==
    ~stopping =>
        /\ cause # "none" => Culprit
        /\ (\E f \in Fixtures : errs[f] # "none") => Culprit
        /\ phase = "undo" => Culprit

IInv ==
    /\ DagTypeOK /\ AttemptsLeft /\ TrackerCounts /\ TrackerFollows
    /\ OnTop /\ PhaseTells /\ ReleaseOrder /\ Blamed

-----------------------------------------------------------------------------
\* Nothing is set up, released or blamed when the graph is made.
LEMMA InitInv == DagInit => IInv
  <1> SUFFICES ASSUME DagInit PROVE IInv
    OBVIOUS
  <1> USE DEF DagInit
  <1>1. DagTypeOK
    <2>1. Retries \in Nat /\ \A f \in Fixtures : Len(DependsOn[f]) \in Nat
      BY OrderAssumption
    <2>2. \A f \in Fixtures : at[f] \in 1..(Len(DependsOn[f]) + 1)
      BY <2>1
    <2>3. attempt \in [Fixtures -> 0..(Retries + 1)]
      BY <2>1
    <2> QED BY <2>2, <2>3 DEF DagTypeOK, Phases, Errors, NodeSteps, TearSteps
  <1>2. AttemptsLeft /\ TrackerCounts /\ TrackerFollows
    BY OrderAssumption DEF AttemptsLeft, TrackerCounts, TrackerFollows, Ready
  <1>3. OnTop /\ PhaseTells /\ ReleaseOrder /\ Blamed
    BY DEF OnTop, PhaseTells, ReleaseOrder, Blamed
  <1> QED BY <1>1, <1>2, <1>3 DEF IInv

-----------------------------------------------------------------------------
(* A goroutine in setup.  Whatever it does, nothing is being released, and *)
(* what is ready stays ready.                                              *)

Others(f) ==
    \A g \in Fixtures : g # f => node'[g] = node[g] /\ errs'[g] = errs[g]

\* A node still running is not ready, so what it does disturbs no ready one.
LEMMA ReadyKept ==
    ASSUME NEW f \in Fixtures, Running(f), Others(f),
           NEW d \in Fixtures, Ready(d)
    PROVE  Ready(d)'
  BY DEF Running, Others, Ready

\* The culprit has ended, so what a running node does leaves it the culprit.
LEMMA CulpritKept ==
    ASSUME TrackerFollows, NEW f \in Fixtures, Running(f), Others(f), Culprit
    PROVE  Culprit'
  <1>1. PICK g \in Fixtures : errs[g] = g
    BY DEF Culprit
  <1>2. g # f
    BY <1>1, NamesAssumption DEF TrackerFollows, Running
  <1> QED BY <1>1, <1>2 DEF Others, Culprit

\* Nor does it pull away what another fixture stands on.
LEMMA OnTopKept ==
    ASSUME DagTypeOK, OnTop, NEW f \in Fixtures, Running(f), Others(f),
           UNCHANGED at,
           \A g \in Fixtures :
               g \in attempted' \/ node'[g] \in {"init", "begin"} =>
                  \/ g \in attempted \/ node[g] \in {"init", "begin"}
                  \/ \A d \in Deps(g) : Ready(d)
    PROVE  OnTop'
  <1> SUFFICES ASSUME NEW g \in Fixtures
               PROVE  /\ \A i \in 1..(at'[g] - 1) : Ready(DependsOn[g][i])'
                      /\ g \in attempted' \/ node'[g] \in {"init", "begin"} =>
                            \A d \in Deps(g) : Ready(d)'
    BY DEF OnTop
  <1>1. ASSUME NEW i \in 1..(at'[g] - 1) PROVE Ready(DependsOn[g][i])'
    <2>1. at'[g] = at[g] /\ DependsOn[g] \in Seq(Fixtures)
      BY OrderAssumption
    <2>2. i \in 1..Len(DependsOn[g])
      BY <2>1 DEF DagTypeOK
    <2>3. DependsOn[g][i] \in Fixtures /\ Ready(DependsOn[g][i])
      BY <2>1, <2>2 DEF OnTop
    <2> QED BY <2>3, ReadyKept
  <1>2. ASSUME g \in attempted' \/ node'[g] \in {"init", "begin"},
               NEW d \in Deps(g)
        PROVE  Ready(d)'
    <2>1. d \in Fixtures
      BY OrderAssumption DEF Deps, ToSet
    <2>2. Ready(d)
      BY <1>2 DEF OnTop
    <2> QED BY <2>1, <2>2, ReadyKept
  <1> QED BY <1>1, <1>2

\* Phases and releases are not the goroutines' business.
LEMMA SetupKeepsPhase ==
    ASSUME IInv, phase = "setup", UNCHANGED <<phase, teardown>>
    PROVE  PhaseTells' /\ ReleaseOrder'
  BY DEF IInv, PhaseTells, ReleaseOrder, Dependents, Deps

\* The goroutine ends with an error: its own, or one that has a culprit.
LEMMA EndsInError ==
    ASSUME IInv, NEW f \in Fixtures, Running(f), NEW e \in Errors \ {"none"},
           NodeGoes(f, "ended"), errs' = [errs EXCEPT ![f] = e],
           cause' \in {cause, e},
           e = f \/ stopping \/ Culprit,
           UNCHANGED <<phase, stopping, at, attempt, relErr, attempted, result,
                       tearVars, entered, released>>
    PROVE  IInv'
  <1> USE DEF NodeGoes, tearVars
  <1>0. Others(f) /\ phase = "setup"
    BY DEF Others, IInv, DagTypeOK, Running
  <1>1. DagTypeOK'
    BY DEF IInv, DagTypeOK, NodeSteps
  <1>2. AttemptsLeft' /\ TrackerCounts' /\ TrackerFollows'
    BY DEF IInv, DagTypeOK, AttemptsLeft, TrackerCounts, TrackerFollows, Ready
  <1>3. OnTop'
    <2>1. \A g \in Fixtures :
             g \in attempted' \/ node'[g] \in {"init", "begin"} =>
                g \in attempted \/ node[g] \in {"init", "begin"}
      BY DEF IInv, DagTypeOK
    <2> QED BY <1>0, <2>1, OnTopKept DEF IInv
  <1>4. PhaseTells' /\ ReleaseOrder'
    BY <1>0, SetupKeepsPhase
  <1>5. Blamed'
    <2>1. stopping \/ Culprit'
      <3>1. CASE e = f
        BY <3>1 DEF IInv, DagTypeOK, Culprit
      <3>2. CASE Culprit
        BY <3>2, <1>0, CulpritKept DEF IInv
      <3> QED BY <3>1, <3>2
    <2> QED BY <2>1 DEF Blamed, Culprit
  <1> QED BY <1>1, <1>2, <1>3, <1>4, <1>5 DEF IInv

\* The goroutine goes on, or ends with its fixture up, with no error.
LEMMA GoesOn ==
    ASSUME IInv, NEW f \in Fixtures, Running(f), NEW s \in NodeSteps,
           NodeGoes(f, s),
           \/ node[f] = "waiting" /\ s = "init" /\ AllAwaited(f)
           \/ node[f] = "waiting" /\ s = "ended" /\ f \in Unnamed
           \/ node[f] = "entered" /\ s = "ended"
           \/ node[f] = "entered" /\ s = "delay" /\ attempt[f] <= Retries
           \/ node[f] = "delay" /\ s = "between",
           UNCHANGED <<phase, stopping, cause, at, attempt, relErr, errs,
                       attempted, result, tearVars, entered, released>>
    PROVE  IInv'
  <1> USE DEF NodeGoes, tearVars
  <1>0. Others(f) /\ phase = "setup"
    BY DEF Others, IInv, DagTypeOK, Running
  <1>1. DagTypeOK'
    BY DEF IInv, DagTypeOK
  <1>2. AttemptsLeft' /\ TrackerCounts'
    BY DEF IInv, DagTypeOK, AttemptsLeft, TrackerCounts
  <1>3. TrackerFollows'
    BY DEF IInv, DagTypeOK, TrackerFollows, Ready
  <1>4. OnTop'
    <2>1. ASSUME node[f] = "waiting", AllAwaited(f), NEW d \in Deps(f)
          PROVE  Ready(d)
      <3>1. PICK i \in DOMAIN DependsOn[f] : d = DependsOn[f][i]
        BY DEF Deps, ToSet
      <3>2. DependsOn[f] \in Seq(Fixtures)
        BY OrderAssumption
      <3>3. i \in 1..Len(DependsOn[f]) /\ Len(DependsOn[f]) \in Nat
        BY <3>1, <3>2
      <3>4. at[f] \in Nat /\ at[f] > Len(DependsOn[f])
        BY <2>1 DEF IInv, DagTypeOK, AllAwaited
      <3>5. i \in 1..(at[f] - 1)
        BY <3>3, <3>4
      <3> QED BY <3>1, <3>5 DEF IInv, OnTop
    <2>2. \A g \in Fixtures :
             g \in attempted' \/ node'[g] \in {"init", "begin"} =>
                \/ g \in attempted \/ node[g] \in {"init", "begin"}
                \/ \A d \in Deps(g) : Ready(d)
      BY <2>1 DEF IInv, DagTypeOK
    <2> QED BY <1>0, <2>2, OnTopKept DEF IInv
  <1>5. PhaseTells' /\ ReleaseOrder'
    BY <1>0, SetupKeepsPhase
  <1>6. Blamed'
    BY DEF IInv, Blamed, Culprit
  <1> QED BY <1>1, <1>2, <1>3, <1>4, <1>5, <1>6 DEF IInv

\* BeforeAll or Hydrate is entered, and the tracker is told.
LEMMA Enters ==
    ASSUME IInv, NEW f \in Fixtures, Running(f), node[f] \in {"init", "begin"},
           Enter(f),
           UNCHANGED <<phase, stopping, at, relErr, result, tearVars, released>>
    PROVE  IInv'
  <1> USE DEF Enter, NodeGoes, tearVars
  <1>0. Others(f) /\ phase = "setup"
    BY DEF Others, IInv, DagTypeOK, Running
  <1>1. DagTypeOK'
    <2>1. attempt[f] + 1 \in 0..(Retries + 1)
      BY OrderAssumption DEF IInv, DagTypeOK, AttemptsLeft
    <2> QED BY <2>1 DEF IInv, DagTypeOK, NodeSteps
  <1>2. AttemptsLeft'
    BY DEF IInv, DagTypeOK, AttemptsLeft
  <1>3. TrackerFollows'
    BY DEF IInv, DagTypeOK, TrackerFollows, Ready
  <1>4. TrackerCounts'
    <2>1. f \notin attempted /\ teardown[f] = "waiting"
      BY <1>0 DEF IInv, DagTypeOK, TearSteps, TrackerFollows, ReleaseOrder
    <2> QED BY <2>1 DEF IInv, DagTypeOK, TrackerCounts
  <1>5. OnTop'
    <2>1. \A g \in Fixtures :
             g \in attempted' \/ node'[g] \in {"init", "begin"} =>
                g \in attempted \/ node[g] \in {"init", "begin"}
      BY DEF IInv, DagTypeOK
    <2> QED BY <1>0, <2>1, OnTopKept DEF IInv
  <1>6. PhaseTells' /\ ReleaseOrder'
    BY <1>0, SetupKeepsPhase
  <1>7. Blamed'
    BY DEF IInv, Blamed, Culprit
  <1> QED BY <1>1, <1>2, <1>3, <1>4, <1>5, <1>6, <1>7 DEF IInv

-----------------------------------------------------------------------------
(* One lemma per action of a setup goroutine.                              *)

LEMMA DependencyDoneInv ==
    ASSUME IInv, NEW f \in Fixtures, DependencyDone(f)
    PROVE  IInv'
  <1> DEFINE dep == DependsOn[f][at[f]]
  <1>0. DependsOn[f] \in Seq(Fixtures) /\ at[f] \in 1..Len(DependsOn[f])
    BY OrderAssumption DEF DependencyDone, IInv, DagTypeOK, AllAwaited
  <1>1. dep \in Fixtures /\ Running(f) /\ node[dep] = "ended"
    BY <1>0 DEF DependencyDone
  <1>2. CASE errs[dep] # "none"
    <2>1. stopping \/ Culprit
      BY <1>1, <1>2 DEF IInv, Blamed
    <2> QED BY <1>1, <1>2, <2>1, EndsInError DEF DependencyDone, Fails, Errors
  <1>3. CASE errs[dep] = "none"
    <2> USE DEF DependencyDone, tearVars
    <2>1. /\ at' = [at EXCEPT ![f] = at[f] + 1]
          /\ UNCHANGED <<node, errs, cause, phase, stopping, attempt, relErr,
                         attempted, result, teardown, entered, released>>
      BY <1>3
    <2>2. DagTypeOK'
      <3>1. at[f] + 1 \in 1..(Len(DependsOn[f]) + 1) /\ at[f] + 1 \in Nat
        BY <1>0
      <3> QED BY <2>1, <3>1 DEF IInv, DagTypeOK
    <2>3. OnTop'
      <3>1. \A g \in Fixtures : \A i \in 1..(at'[g] - 1) : Ready(DependsOn[g][i])
        <4> SUFFICES ASSUME NEW g \in Fixtures, NEW i \in 1..(at'[g] - 1)
                     PROVE  Ready(DependsOn[g][i])
          OBVIOUS
        <4>1. i \in 1..(at[g] - 1) \/ (g = f /\ i = at[f])
          BY <2>1 DEF IInv, DagTypeOK
        <4> QED BY <1>1, <1>3, <4>1 DEF IInv, OnTop, Ready
      <3> QED BY <2>1, <3>1 DEF IInv, OnTop, Ready
    <2>4. AttemptsLeft' /\ TrackerCounts' /\ TrackerFollows'
      BY <2>1 DEF IInv, AttemptsLeft, TrackerCounts, TrackerFollows, Ready
    <2>5. PhaseTells' /\ ReleaseOrder' /\ Blamed'
      BY <2>1 DEF IInv, PhaseTells, ReleaseOrder, Dependents, Deps, Blamed, Culprit
    <2> QED BY <2>2, <2>3, <2>4, <2>5 DEF IInv
  <1> QED BY <1>2, <1>3

LEMMA WaitCanceledInv ==
    ASSUME IInv, NEW f \in Fixtures, WaitCanceled(f)
    PROVE  IInv'
  <1>1. cause \in Errors \ {"none"} /\ (stopping \/ Culprit)
    BY DEF WaitCanceled, Ctx, IInv, DagTypeOK, Blamed
  <1> QED BY <1>1, EndsInError DEF WaitCanceled, Gives

\* Whatever made the context done has a culprit, or is the stop.
LEMMA EndsCanceled ==
    ASSUME IInv, NEW f \in Fixtures, Running(f), Ctx, Fails(f, "canceled"),
           UNCHANGED <<phase, stopping, at, attempt, relErr, attempted, result,
                       tearVars, entered, released>>
    PROVE  IInv'
  <1>1. stopping \/ Culprit
    BY DEF Ctx, IInv, Blamed
  <1> QED BY <1>1, EndsInError DEF Fails, Errors

\* A fixture that fails by itself is the culprit.
LEMMA EndsByItself ==
    ASSUME IInv, NEW f \in Fixtures, Running(f), Fails(f, f),
           UNCHANGED <<phase, stopping, at, attempt, relErr, attempted, result,
                       tearVars, entered, released>>
    PROVE  IInv'
  <1>1. f \in Errors \ {"none"}
    BY NamesAssumption DEF Errors
  <1> QED BY <1>1, EndsInError DEF Fails

LEMMA InitialiseInv ==
    ASSUME IInv, NEW f \in Fixtures, Initialise(f)
    PROVE  IInv'
  <1>1. CASE Fails(f, f)
    BY <1>1, EndsByItself DEF Initialise
  <1>2. CASE NodeGoes(f, "ended") /\ f \in Unnamed /\ UNCHANGED <<errs, cause>>
    BY <1>2, GoesOn DEF Initialise, NodeSteps
  <1>3. CASE NodeGoes(f, "init") /\ UNCHANGED <<errs, cause>>
    BY <1>3, GoesOn DEF Initialise, NodeSteps
  <1> QED BY <1>1, <1>2, <1>3 DEF Initialise

LEMMA BeginAttemptInv ==
    ASSUME IInv, NEW f \in Fixtures, BeginAttempt(f) \/ Hydrate(f)
    PROVE  IInv'
  <1>1. CASE Ctx /\ BeginAttempt(f)
    BY <1>1, EndsCanceled DEF BeginAttempt
  <1>2. CASE (~Ctx /\ BeginAttempt(f)) \/ Hydrate(f)
    BY <1>2, Enters DEF BeginAttempt, Hydrate
  <1> QED BY <1>1, <1>2

LEMMA AttemptEndsInv ==
    ASSUME IInv, NEW f \in Fixtures,
           AttemptSucceeds(f) \/ AttemptOverruns(f) \/ AttemptFails(f)
    PROVE  IInv'
  <1> USE DEF AttemptSucceeds, AttemptOverruns, AttemptFails
  <1>1. CASE Fails(f, f)
    BY <1>1, EndsByItself
  <1>2. CASE Ctx /\ Fails(f, "canceled")
    BY <1>2, EndsCanceled
  <1>3. CASE NodeGoes(f, "ended") /\ UNCHANGED <<errs, cause>>
    BY <1>3, GoesOn DEF NodeSteps
  <1>4. CASE /\ NodeGoes(f, "delay") /\ attempt[f] <= Retries
             /\ UNCHANGED <<errs, cause>>
    BY <1>4, GoesOn DEF NodeSteps
  <1> QED BY <1>1, <1>2, <1>3, <1>4

LEMMA RetryDelayInv ==
    ASSUME IInv, NEW f \in Fixtures, RetryDelay(f)
    PROVE  IInv'
  <1>1. CASE Ctx /\ Fails(f, "canceled")
    BY <1>1, EndsCanceled DEF RetryDelay
  <1>2. CASE NodeGoes(f, "between") /\ UNCHANGED <<errs, cause>>
    BY <1>2, GoesOn DEF RetryDelay, NodeSteps
  <1> QED BY <1>1, <1>2 DEF RetryDelay

LEMMA ReleaseBetweenInv ==
    ASSUME IInv, NEW f \in Fixtures, ReleaseBetween(f)
    PROVE  IInv'
  <1> USE DEF ReleaseBetween, NodeGoes, tearVars
  <1>0. Others(f) /\ phase = "setup" /\ Running(f)
    BY DEF Others, IInv, DagTypeOK, Running
  <1>1. DagTypeOK'
    BY DEF IInv, DagTypeOK, NodeSteps
  <1>2. AttemptsLeft'
    BY DEF IInv, DagTypeOK, AttemptsLeft
  <1>3. TrackerFollows'
    BY DEF IInv, DagTypeOK, TrackerFollows, Ready
  <1>4. TrackerCounts'
    <2>1. f \in attempted /\ teardown[f] = "waiting"
      BY <1>0 DEF IInv, DagTypeOK, TearSteps, TrackerFollows, ReleaseOrder
    <2> QED BY <2>1 DEF IInv, DagTypeOK, TrackerCounts
  <1>5. OnTop'
    <2>1. \A g \in Fixtures :
             g \in attempted' \/ node'[g] \in {"init", "begin"} =>
                g \in attempted \/ node[g] \in {"init", "begin"}
      BY DEF IInv, DagTypeOK, TrackerFollows
    <2> QED BY <1>0, <2>1, OnTopKept DEF IInv
  <1>6. PhaseTells' /\ ReleaseOrder'
    BY <1>0, SetupKeepsPhase
  <1>7. Blamed'
    BY DEF IInv, Blamed, Culprit
  <1> QED BY <1>1, <1>2, <1>3, <1>4, <1>5, <1>6, <1>7 DEF IInv

-----------------------------------------------------------------------------
(* The caller, the stop and the teardown goroutines.                       *)

\* A stop only lifts the demand for a culprit, and reaches the context.
LEMMA StopInv ==
    ASSUME IInv, Stop \/ StopReaches
    PROVE  IInv'
  <1> USE DEF Stop, StopReaches, setupVars, tearVars
  <1>1. DagTypeOK'
    BY DEF IInv, DagTypeOK, Errors
  <1>2. AttemptsLeft' /\ TrackerCounts' /\ TrackerFollows' /\ OnTop'
    BY DEF IInv, AttemptsLeft, TrackerCounts, TrackerFollows, OnTop, Ready
  <1>3. PhaseTells' /\ ReleaseOrder'
    BY DEF IInv, PhaseTells, ReleaseOrder, Dependents, Deps
  <1>4. Blamed'
    BY DEF Blamed
  <1> QED BY <1>1, <1>2, <1>3, <1>4 DEF IInv

\* Only the phase changes, so only what the phase tells is at stake.
LEMMA PhaseInv ==
    ASSUME IInv, phase' \in Phases, result' \in Errors,
           UNCHANGED <<stopping, setupVars, attempted, tearVars, released>>,
           PhaseTells', ReleaseOrder', phase' = "undo" /\ ~stopping => Culprit
    PROVE  IInv'
  <1> USE DEF setupVars, tearVars
  <1>1. DagTypeOK'
    BY DEF IInv, DagTypeOK
  <1>2. AttemptsLeft' /\ TrackerCounts' /\ TrackerFollows' /\ OnTop'
    BY DEF IInv, AttemptsLeft, TrackerCounts, TrackerFollows, OnTop, Ready
  <1>3. Blamed'
    BY DEF IInv, Blamed, Culprit
  <1> QED BY <1>1, <1>2, <1>3 DEF IInv

LEMMA CallInv ==
    ASSUME IInv, BeginSetup \/ RefuseSetup \/ Teardown
    PROVE  IInv'
  <1> USE DEF BeginSetup, RefuseSetup, Teardown, setupVars, tearVars
  <1>1. phase' \in Phases /\ phase' # "undo" /\ result' \in Errors
    BY DEF Phases, IInv, DagTypeOK
  <1>2. \A f \in Fixtures : teardown[f] = "waiting"
    BY DEF IInv, ReleaseOrder
  <1>3. ReleaseOrder'
    BY <1>2 DEF ReleaseOrder
  <1>4. PhaseTells'
    <2>1. CASE BeginSetup \/ Teardown
      BY <2>1 DEF IInv, DagTypeOK, NodeSteps, PhaseTells
    <2>2. CASE RefuseSetup
      <3>1. attempted = {}
        BY <2>2 DEF IInv, DagTypeOK, PhaseTells, TrackerFollows
      <3> QED BY <2>2, <3>1 DEF IInv, PhaseTells
    <2> QED BY <2>1, <2>2
  <1> QED BY <1>1, <1>3, <1>4, PhaseInv

\* Of several fixtures one comes first in the order.
LEMMA FirstExists ==
    ASSUME NEW S, S \subseteq Fixtures, S # {}
    PROVE  \E f \in S : \A g \in S : Place(f) <= Place(g)
  <1> DEFINE T == {Place(f) : f \in S}
  <1>1. \A f \in Fixtures : Place(f) \in Nat
    BY OrderAssumption DEF Place, Fixtures, ToSet
  <1>2. T \subseteq Nat /\ T # {}
    BY <1>1
  <1>3. PICK x \in T : \A y \in T : ~(<<y, x>> \in OpToRel(<, Nat))
    BY <1>2, NatLessThanWellFounded, WFMin
  <1>4. ASSUME NEW y \in T PROVE x <= y
    <2>1. x \in Nat /\ y \in Nat /\ <<y, x>> \in Nat \X Nat
      BY <1>2
    <2>2. ~(y < x)
      BY <1>3, <2>1 DEF OpToRel
    <2> QED BY <2>1, <2>2
  <1> QED BY <1>4

\* What setupDAG returns is an error that was recorded, and none only if none
\* was.
LEMMA ReportedIsRecorded ==
    ASSUME errs \in [Fixtures -> Errors]
    PROVE  \/ Reported(errs) = "none" /\ \A f \in Fixtures : errs[f] = "none"
           \/ Reported(errs) # "none" /\ \E f \in Fixtures : errs[f] = Reported(errs)
  <1> DEFINE failed == {f \in Fixtures : errs[f] # "none"}
             real == {f \in failed : errs[f] # "canceled"}
             First(S) == CHOOSE f \in S : \A g \in S : Place(f) <= Place(g)
  <1>1. ASSUME NEW S, S \subseteq Fixtures, S # {} PROVE First(S) \in S
    BY <1>1, FirstExists
  <1>2. CASE real # {}
    <2>1. First(real) \in real
      BY <1>1, <1>2
    <2>2. Reported(errs) = errs[First(real)]
      BY <1>2 DEF Reported
    <2> QED BY <2>1, <2>2
  <1>3. CASE real = {} /\ failed # {}
    <2>1. First(failed) \in failed
      BY <1>1, <1>3
    <2>2. Reported(errs) = errs[First(failed)]
      BY <1>3 DEF Reported
    <2> QED BY <2>1, <2>2
  <1>4. CASE failed = {}
    <2>1. Reported(errs) = "none"
      BY <1>4 DEF Reported
    <2> QED BY <1>4, <2>1
  <1> QED BY <1>2, <1>3, <1>4

LEMMA SetupReturnsInv ==
    ASSUME IInv, SetupReturns
    PROVE  IInv'
  <1> USE DEF SetupReturns, setupVars, tearVars
  <1>1. phase' \in {"up", "undo"} /\ phase' \in Phases
    BY DEF Phases
  <1>2. \A f \in Fixtures : teardown[f] = "waiting"
    BY DEF IInv, ReleaseOrder
  <1>3. ReleaseOrder'
    BY <1>2 DEF ReleaseOrder
  <1>4. result' \in Errors
    BY ReportedIsRecorded DEF IInv, DagTypeOK, Errors
  <1>5. PhaseTells'
    <2>1. phase' = "up" => \A f \in Fixtures : errs'[f] = "none"
      BY ReportedIsRecorded DEF IInv, DagTypeOK
    <2> QED BY <1>1, <2>1 DEF PhaseTells
  <1>6. phase' = "undo" /\ ~stopping => Culprit
    <2>1. phase' = "undo" => \E f \in Fixtures : errs[f] # "none"
      BY ReportedIsRecorded DEF IInv, DagTypeOK
    <2> QED BY <2>1 DEF IInv, Blamed
  <1> QED BY <1>1, <1>3, <1>4, <1>5, <1>6, PhaseInv

LEMMA TeardownReturnsInv ==
    ASSUME IInv, TeardownReturns
    PROVE  IInv'
  <1> USE DEF TeardownReturns, Releasing, setupVars, tearVars
  <1>1. phase' \in {"failed", "torn"} /\ phase' \in Phases /\ result' \in Errors
    BY DEF Phases, IInv, DagTypeOK
  <1>2. PhaseTells'
    BY <1>1 DEF IInv, PhaseTells
  <1>3. ReleaseOrder'
    BY <1>1 DEF IInv, ReleaseOrder, Dependents, Deps
  <1> QED BY <1>1, <1>2, <1>3, PhaseInv

\* The goroutine of f moves on only when the dependents have ended, and ends
\* with nothing of f held.
LEMMA ReleaseInv ==
    ASSUME IInv, NEW f \in Fixtures, BeginRelease(f) \/ ReleaseReturns(f)
    PROVE  IInv'
  <1> USE DEF BeginRelease, ReleaseReturns, setupVars
  <1>1. DagTypeOK'
    <2>1. teardown' \in [Fixtures -> TearSteps]
      BY DEF IInv, DagTypeOK, TearSteps
    <2>2. released' \in [Fixtures -> Nat]
      <3>1. released[f] + 1 \in Nat /\ released \in [Fixtures -> Nat]
        BY DEF IInv, DagTypeOK
      <3> QED BY <3>1
    <2> QED BY <2>1, <2>2 DEF IInv, DagTypeOK
  <1>2. AttemptsLeft' /\ TrackerFollows' /\ OnTop'
    BY DEF IInv, AttemptsLeft, TrackerFollows, OnTop, Ready
  <1>3. TrackerCounts'
    BY DEF IInv, DagTypeOK, TrackerCounts, ReleaseOrder
  <1>4. PhaseTells'
    BY DEF IInv, PhaseTells, Releasing
  <1>5. ReleaseOrder'
    <2>1. \A d \in Dependents(f) : teardown[d] = "ended"
      BY DEF IInv, ReleaseOrder
    <2>2. f \notin Dependents(f)
      BY <2>1
    <2> QED BY <2>1, <2>2 DEF IInv, DagTypeOK, ReleaseOrder, Releasing, Dependents, Deps
  <1>6. Blamed'
    BY DEF IInv, Blamed, Culprit
  <1> QED BY <1>1, <1>2, <1>3, <1>4, <1>5, <1>6 DEF IInv

\* Every step of the graph keeps the invariant.
LEMMA StepInv == IInv /\ [DagNext]_dagVars => IInv'
  <1> SUFFICES ASSUME IInv, [DagNext]_dagVars PROVE IInv'
    OBVIOUS
  <1>1. CASE BeginSetup \/ RefuseSetup \/ Teardown
    BY <1>1, CallInv
  <1>2. CASE Stop \/ StopReaches
    BY <1>2, StopInv
  <1>3. CASE SetupReturns
    BY <1>3, SetupReturnsInv
  <1>4. CASE TeardownReturns
    BY <1>4, TeardownReturnsInv
  <1>5. CASE \E f \in Fixtures :
                DependencyDone(f) \/ WaitCanceled(f) \/ Initialise(f)
                \/ Hydrate(f) \/ BeginAttempt(f) \/ RetryDelay(f)
    BY <1>5, DependencyDoneInv, WaitCanceledInv, InitialiseInv,
       BeginAttemptInv, RetryDelayInv
  <1>6. CASE \E f \in Fixtures :
                \/ AttemptSucceeds(f) \/ AttemptOverruns(f) \/ AttemptFails(f)
                \/ ReleaseBetween(f)
    BY <1>6, AttemptEndsInv, ReleaseBetweenInv
  <1>7. CASE \E f \in Fixtures : BeginRelease(f) \/ ReleaseReturns(f)
    BY <1>7, ReleaseInv
  <1>8. CASE UNCHANGED dagVars
    <2> USE <1>8 DEF dagVars
    <2>1. DagTypeOK' /\ AttemptsLeft' /\ TrackerCounts' /\ TrackerFollows'
      BY DEF IInv, DagTypeOK, AttemptsLeft, TrackerCounts, TrackerFollows, Ready
    <2>2. OnTop' /\ PhaseTells' /\ ReleaseOrder' /\ Blamed'
      BY DEF IInv, OnTop, PhaseTells, ReleaseOrder, Blamed, Ready, Culprit,
             Dependents, Deps
    <2> QED BY <2>1, <2>2 DEF IInv
  <1> QED BY <1>1, <1>2, <1>3, <1>4, <1>5, <1>6, <1>7, <1>8
          DEF DagNext, DagCode, UserReturns, DagEnded

-----------------------------------------------------------------------------
\* What the invariant is for, state by state.
LEMMA InvImplies ==
    IInv => /\ DagTypeOK /\ SetUpOnDependencies /\ ReleasedOnceEach
            /\ UpMeansUp /\ FailureHasCulprit
  <1> SUFFICES ASSUME IInv
               PROVE  /\ SetUpOnDependencies /\ ReleasedOnceEach
                      /\ UpMeansUp /\ FailureHasCulprit
    BY DEF IInv
  <1>1. \A f \in Fixtures : Held(f) <=> f \in attempted /\ teardown[f] # "ended"
    BY DEF IInv, DagTypeOK, TrackerCounts, Held
  <1>2. SetUpOnDependencies
    <2> SUFFICES ASSUME NEW f \in Fixtures, InUse(f), NEW d \in Deps(f)
                 PROVE  Ready(d) /\ (d \notin Unnamed => Held(d))
      BY DEF SetUpOnDependencies, Ready
    <2>1. d \in Fixtures /\ f \in Dependents(d)
      BY OrderAssumption DEF Deps, ToSet, Dependents
    <2>2. f \in attempted
      BY DEF IInv, InUse, TrackerFollows, ReleaseOrder
    <2>3. Ready(d)
      BY <2>2 DEF IInv, OnTop
    <2>4. teardown[d] # "ended"
      <3>1. CASE teardown[f] = "release"
        BY <2>1, <3>1 DEF IInv, ReleaseOrder
      <3>2. CASE node[f] \in {"entered", "delay", "between"}
        BY <2>1, <3>2 DEF IInv, PhaseTells, ReleaseOrder
      <3> QED BY <3>1, <3>2 DEF InUse
    <2>5. d \in attempted \cup Unnamed
      BY <2>1, <2>3 DEF IInv, TrackerFollows
    <2> QED BY <1>1, <2>1, <2>3, <2>4, <2>5
  <1>3. ReleasedOnceEach
    <2>1. \A f \in Fixtures : released[f] <= entered[f] /\ entered[f] <= released[f] + 1
      <3> SUFFICES ASSUME NEW f \in Fixtures
                   PROVE  released[f] <= entered[f] /\ entered[f] <= released[f] + 1
        OBVIOUS
      <3>1. released[f] \in Nat /\ entered[f] \in {released[f], released[f] + 1}
        BY DEF IInv, DagTypeOK, TrackerCounts
      <3> QED BY <3>1
    <2>2. phase \in {"failed", "torn"} => \A f \in Fixtures : ~Held(f)
      BY <1>1 DEF IInv, PhaseTells
    <2> QED BY <2>1, <2>2 DEF ReleasedOnceEach
  <1>4. UpMeansUp
    BY <1>1 DEF IInv, PhaseTells, TrackerFollows, ReleaseOrder, Ready, UpMeansUp
  <1>5. FailureHasCulprit
    BY DEF IInv, Blamed, Culprit, FailureHasCulprit
  <1> QED BY <1>2, <1>3, <1>4, <1>5

\* The invariant holds of every behaviour of the graph.
THEOREM InvHolds == DagSpec => []IInv
  <1>1. DagInit => IInv
    BY InitInv
  <1>2. IInv /\ [DagNext]_dagVars => IInv'
    BY StepInv
  <1> QED BY <1>1, <1>2, PTL DEF DagSpec

\* For every graph and any number of retries the state of setupDAG and
\* teardownDAG is well formed: no fixture is attempted more than Retries + 1
\* times, no goroutine waits beyond its last dependency.
THEOREM GraphTypeCorrect == DagSpec => []DagTypeOK
  BY InvHolds, InvImplies, PTL

\* For every graph, a BeforeAll or a release of a fixture runs only on top of
\* dependencies that are up and held, in setupDAG and in teardownDAG.
THEOREM SetUpOnDependenciesHolds == DagSpec => []SetUpOnDependencies
  BY InvHolds, InvImplies, PTL

\* For every graph, whatever fails, retries or is cancelled, RunFixtureSetup
\* and teardownDAG release each BeforeAll entered once, and none is left when
\* the graph reports failure or is torn down.
THEOREM EachReleasedOnce == DagSpec => []ReleasedOnceEach
  BY InvHolds, InvImplies, PTL

\* For every graph, HoldFixtures is handed it only with every fixture up.
THEOREM HeldGraphIsUp == DagSpec => []UpMeansUp
  BY InvHolds, InvImplies, PTL

\* For every graph, a setup nobody stopped fails only with a fixture that
\* failed by itself.
THEOREM FailuresHaveCulprits == DagSpec => []FailureHasCulprit
  BY InvHolds, InvImplies, PTL
-----------------------------------------------------------------------------
(* The graph implements the life of its fixtures (FixtureLife).            *)

\* The life of a fixture, read from the tracker instead of the history.
LifeAt(f) ==
    IF f \notin attempted THEN "down"
    ELSE IF teardown[f] = "release" THEN "going"
    ELSE IF teardown[f] = "ended" THEN "over"
    ELSE IF node[f] = "between" THEN "back"
    ELSE IF Ready(f) THEN "serving" ELSE "coming"

LEMMA LifeRead == IInv => \A f \in Fixtures : LifeOf(f) = LifeAt(f)
  <1> SUFFICES ASSUME IInv, NEW f \in Fixtures PROVE LifeOf(f) = LifeAt(f)
    OBVIOUS
  <1>1. Held(f) <=> f \in attempted /\ teardown[f] # "ended"
    BY DEF IInv, DagTypeOK, TrackerCounts, Held
  <1>2. teardown[f] = "release" => f \in attempted
    BY DEF IInv, ReleaseOrder
  <1> QED BY <1>1, <1>2 DEF LifeOf, LifeAt, Ready

LEMMA LifeReadNext == IInv' => (\A f \in Fixtures : LifeOf(f) = LifeAt(f))'
  BY LifeRead, PTL

\* A step that leaves every life as it is stutters.
LEMMA LifeStutters ==
    ASSUME IInv, IInv', \A g \in Named : LifeAt(g)' = LifeAt(g)
    PROVE  UNCHANGED Lived
  BY LifeRead, LifeReadNext DEF Lived, Named

\* A step that takes one life on and leaves the others.
LEMMA OneLives ==
    ASSUME IInv, IInv', NEW f \in Named,
           \A g \in Named \ {f} : LifeAt(g)' = LifeAt(g)
    PROVE  /\ Lived' = [Lived EXCEPT ![f] = LifeAt(f)']
           /\ \A g \in Named : Lived[g] = LifeAt(g)
  BY LifeRead, LifeReadNext DEF Lived, Named

\* While setup runs nothing is released, so what is attempted and ready serves.
LEMMA ReadyServes ==
    ASSUME IInv, phase = "setup", NEW d \in Named, Ready(d)
    PROVE  LifeAt(d) = "serving"
  BY DEF IInv, DagTypeOK, TearSteps, TrackerFollows, ReleaseOrder, LifeAt, Ready, Named

\* Attempting a fixture is to come up, on dependencies that serve.
LEMMA EnterComes ==
    ASSUME IInv, IInv', NEW f \in Fixtures, Running(f),
           node[f] \in {"init", "begin"}, Enter(f), UNCHANGED tearVars
    PROVE  [Life!LifeNext]_Lived
  <1> USE DEF Enter, NodeGoes, tearVars
  <1>1. \A g \in Named \ {f} : LifeAt(g)' = LifeAt(g)
    BY DEF IInv, DagTypeOK, LifeAt, Ready, Named
  <1>2. CASE f \notin Named
    BY <1>1, <1>2, LifeStutters
  <1>3. CASE f \in Named
    <2>1. LifeAt(f) = "down" /\ LifeAt(f)' = "coming"
      BY DEF IInv, DagTypeOK, TearSteps, TrackerFollows, ReleaseOrder, Running,
             LifeAt, Ready
    <2>2. \A d \in Deps(f) \ Unnamed : d \in Named /\ LifeAt(d) = "serving"
      <3> SUFFICES ASSUME NEW d \in Deps(f) \ Unnamed
                   PROVE  d \in Named /\ LifeAt(d) = "serving"
        OBVIOUS
      <3>1. d \in Named
        BY OrderAssumption DEF Deps, ToSet, Named
      <3>2. Ready(d)
        BY DEF IInv, OnTop
      <3> QED BY <3>1, <3>2, ReadyServes DEF Running
    <2>3. Lived'[f] # Lived[f] /\ Life!Come(f)
      BY <1>1, <1>3, <2>1, <2>2, OneLives DEF Life!Come, Life!Becomes, Lived
    <2> QED BY <1>3, <2>3 DEF Life!LifeNext
  <1> QED BY <1>2, <1>3

\* A setup goroutine that does not enter, between attempts or by success,
\* leaves its fixture where it was.
LEMMA NodeStutters ==
    ASSUME IInv, IInv', NEW f \in Fixtures, Running(f), Others(f),
           UNCHANGED <<attempted, teardown>>,
           \/ f \notin attempted
           \/ node[f] # "between" /\ node'[f] # "between" /\ ~Ready(f)'
    PROVE  UNCHANGED Lived
  <1>1. ASSUME NEW g \in Named PROVE LifeAt(g)' = LifeAt(g)
    BY DEF Others, Running, LifeAt, Ready, Named
  <1> QED BY <1>1, LifeStutters

LEMMA FailsStutters ==
    ASSUME IInv, IInv', NEW f \in Fixtures, Running(f), node[f] # "between",
           NEW e \in Errors \ {"none"},
           NodeGoes(f, "ended"), errs' = [errs EXCEPT ![f] = e],
           UNCHANGED <<attempted, teardown>>
    PROVE  UNCHANGED Lived
  <1>1. Others(f) /\ node'[f] = "ended" /\ ~Ready(f)'
    BY DEF Others, NodeGoes, Ready, IInv, DagTypeOK
  <1> QED BY <1>1, NodeStutters

-----------------------------------------------------------------------------
(* Every step of the graph is one of its life, or none.                    *)

\* A step of the setup goroutine of a fixture.
LEMMA SetupLives ==
    ASSUME IInv, IInv', NEW f \in Fixtures,
           \/ DependencyDone(f) \/ WaitCanceled(f) \/ Initialise(f) \/ Hydrate(f)
           \/ BeginAttempt(f) \/ RetryDelay(f) \/ AttemptSucceeds(f)
           \/ AttemptOverruns(f) \/ AttemptFails(f) \/ ReleaseBetween(f)
    PROVE  [Life!LifeNext]_Lived
  <1>0. Running(f) /\ UNCHANGED teardown
    BY DEF DependencyDone, WaitCanceled, Initialise, Hydrate, BeginAttempt,
           RetryDelay, AttemptSucceeds, AttemptOverruns, AttemptFails,
           ReleaseBetween, tearVars
  <1>f. \A e \in Errors \ {"none"} :
           /\ Fails(f, e) \/ Gives(f, e)
           /\ node[f] # "between" /\ UNCHANGED attempted
           => UNCHANGED Lived
    BY <1>0, FailsStutters DEF Fails, Gives
  <1>c. /\ f \in Errors \ {"none"} /\ "skipped" \in Errors \ {"none"}
        /\ "canceled" \in Errors \ {"none"}
    BY NamesAssumption DEF Errors
  <1>g. ASSUME NEW s \in NodeSteps, NodeGoes(f, s), UNCHANGED errs,
               UNCHANGED attempted,
               f \notin attempted \/ (node[f] = "entered" /\ s = "delay")
        PROVE  UNCHANGED Lived
    <2>1. Others(f) /\ node'[f] = s
      BY <1>g DEF Others, NodeGoes, IInv, DagTypeOK
    <2> QED BY <1>0, <1>g, <2>1, NodeStutters DEF Ready
  <1>1. CASE DependencyDone(f)
    <2>1. CASE UNCHANGED <<node, errs>>
      BY <1>1, <2>1, <1>0, NodeStutters DEF DependencyDone, Others, IInv, TrackerFollows
    <2> QED BY <1>1, <2>1, <1>f, <1>c DEF DependencyDone
  <1>2. CASE WaitCanceled(f)
    <2>1. cause \in Errors \ {"none"}
      BY <1>2 DEF WaitCanceled, Ctx, IInv, DagTypeOK
    <2> QED BY <1>2, <2>1, <1>f DEF WaitCanceled
  <1>3. CASE Initialise(f)
    <2>1. f \notin attempted /\ UNCHANGED attempted
      BY <1>3 DEF Initialise, IInv, TrackerFollows
    <2>2. CASE Fails(f, f)
      BY <1>3, <2>2, <1>f, <1>c DEF Initialise
    <2>3. CASE NodeGoes(f, "ended") /\ UNCHANGED errs
      <3>1. UNCHANGED Lived
        BY <2>1, <2>3, <1>g DEF NodeSteps
      <3> QED BY <3>1
    <2>4. CASE NodeGoes(f, "init") /\ UNCHANGED errs
      <3>1. UNCHANGED Lived
        BY <2>1, <2>4, <1>g DEF NodeSteps
      <3> QED BY <3>1
    <2> QED BY <1>3, <2>2, <2>3, <2>4 DEF Initialise
  <1>4. CASE Hydrate(f)
    BY <1>4, EnterComes DEF Hydrate
  <1>5. CASE BeginAttempt(f)
    BY <1>5, <1>f, <1>c, EnterComes DEF BeginAttempt
  <1>6. CASE RetryDelay(f)
    <2>1. CASE Fails(f, "canceled")
      BY <1>6, <2>1, <1>f, <1>c DEF RetryDelay
    <2>2. CASE NodeGoes(f, "between") /\ UNCHANGED <<errs, cause>>
      <3> USE <1>6, <2>2 DEF RetryDelay, NodeGoes, tearVars
      <3>1. \A g \in Named \ {f} : LifeAt(g)' = LifeAt(g)
        BY DEF IInv, DagTypeOK, LifeAt, Ready, Named
      <3>2. CASE f \in Named
        <4>1. LifeAt(f) = "coming" /\ LifeAt(f)' = "back"
          BY <1>0 DEF IInv, DagTypeOK, TearSteps, TrackerFollows, ReleaseOrder,
                      Running, LifeAt, Ready
        <4>2. Lived'[f] # Lived[f] /\ Life!GiveBack(f)
          BY <3>1, <3>2, <4>1, OneLives DEF Life!GiveBack, Life!Becomes, Lived
        <4> QED BY <3>2, <4>2 DEF Life!LifeNext
      <3> QED BY <3>1, <3>2, LifeStutters
    <2> QED BY <1>6, <2>1, <2>2 DEF RetryDelay
  <1>7. CASE AttemptSucceeds(f)
    <2>1. CASE Fails(f, f)
      BY <1>7, <2>1, <1>f, <1>c DEF AttemptSucceeds
    <2>2. CASE NodeGoes(f, "ended") /\ UNCHANGED <<errs, cause>>
      <3> USE <1>7, <2>2 DEF AttemptSucceeds, NodeGoes, tearVars
      <3>1. \A g \in Named \ {f} : LifeAt(g)' = LifeAt(g)
        BY DEF IInv, DagTypeOK, LifeAt, Ready, Named
      <3>2. CASE f \in Named
        <4>1. LifeAt(f) = "coming" /\ LifeAt(f)' = "serving"
          BY <1>0 DEF IInv, DagTypeOK, TearSteps, TrackerFollows, ReleaseOrder,
                      Running, LifeAt, Ready
        <4>2. Lived'[f] # Lived[f] /\ Life!Serve(f)
          BY <3>1, <3>2, <4>1, OneLives DEF Life!Serve, Life!Becomes, Lived
        <4> QED BY <3>2, <4>2 DEF Life!LifeNext
      <3> QED BY <3>1, <3>2, LifeStutters
    <2> QED BY <1>7, <2>1, <2>2 DEF AttemptSucceeds
  <1>8. CASE AttemptOverruns(f) \/ AttemptFails(f)
    BY <1>8, <1>f, <1>c, <1>g DEF AttemptOverruns, AttemptFails, NodeSteps
  <1>9. CASE ReleaseBetween(f)
    <2> USE <1>9 DEF ReleaseBetween, NodeGoes, tearVars
    <2>1. \A g \in Named \ {f} : LifeAt(g)' = LifeAt(g)
      BY DEF IInv, DagTypeOK, LifeAt, Ready, Named
    <2>2. CASE f \in Named
      <3>1. LifeAt(f) = "back" /\ LifeAt(f)' = "down"
        BY <1>0 DEF IInv, DagTypeOK, TearSteps, TrackerFollows, ReleaseOrder,
                    Running, LifeAt, Ready
      <3>2. Lived'[f] # Lived[f] /\ Life!Retry(f)
        BY <2>1, <2>2, <3>1, OneLives DEF Life!Retry, Life!Becomes, Lived
      <3> QED BY <2>2, <3>2 DEF Life!LifeNext
    <2> QED BY <2>1, <2>2, LifeStutters
  <1> QED BY <1>1, <1>2, <1>3, <1>4, <1>5, <1>6, <1>7, <1>8, <1>9

\* A step of its teardown goroutine.
LEMMA TeardownLives ==
    ASSUME IInv, IInv', NEW f \in Fixtures, BeginRelease(f) \/ ReleaseReturns(f)
    PROVE  [Life!LifeNext]_Lived
  <1> USE DEF BeginRelease, ReleaseReturns, setupVars
  <1>1. \A g \in Named \ {f} : LifeAt(g)' = LifeAt(g)
    BY DEF IInv, DagTypeOK, LifeAt, Ready, Named
  <1>2. CASE f \notin Named \/ f \notin attempted
    <2>1. \A g \in Named : LifeAt(g)' = LifeAt(g)
      BY <1>1, <1>2 DEF LifeAt
    <2> QED BY <2>1, LifeStutters
  <1>3. CASE f \in Named /\ f \in attempted /\ BeginRelease(f)
    <2>1. LifeAt(f) \in {"coming", "serving"} /\ LifeAt(f)' = "going"
      BY <1>3 DEF IInv, DagTypeOK, PhaseTells, Releasing, LifeAt
    <2>2. ASSUME NEW g \in Named, f \in Deps(g) PROVE LifeAt(g) \in {"down", "over"}
      BY <1>3, <2>2 DEF Dependents, LifeAt, Named
    <2>3. Lived'[f] # Lived[f] /\ Life!Release(f)
      BY <1>1, <1>3, <2>1, <2>2, OneLives
         DEF Life!Release, Life!Holds, Life!Becomes, Lived
    <2> QED BY <1>3, <2>3 DEF Life!LifeNext
  <1>4. CASE f \in Named /\ f \in attempted /\ ReleaseReturns(f)
    <2>1. LifeAt(f) = "going" /\ LifeAt(f)' = "over"
      BY <1>4 DEF IInv, DagTypeOK, LifeAt
    <2>2. Lived'[f] # Lived[f] /\ Life!Released(f)
      BY <1>1, <1>4, <2>1, OneLives DEF Life!Released, Life!Becomes, Lived
    <2> QED BY <1>4, <2>2 DEF Life!LifeNext
  <1> QED BY <1>2, <1>3, <1>4

LEMMA StepLives ==
    IInv /\ IInv' /\ [DagNext]_dagVars => [Life!LifeNext]_Lived
  <1> SUFFICES ASSUME IInv, IInv', [DagNext]_dagVars PROVE [Life!LifeNext]_Lived
    OBVIOUS
  <1>1. CASE UNCHANGED <<node, errs, attempted, teardown>>
    <2>1. \A g \in Named : LifeAt(g)' = LifeAt(g)
      BY <1>1 DEF LifeAt, Ready
    <2> QED BY <2>1, LifeStutters
  <1>2. CASE \E f \in Fixtures :
                \/ DependencyDone(f) \/ WaitCanceled(f) \/ Initialise(f)
                \/ Hydrate(f) \/ BeginAttempt(f) \/ RetryDelay(f)
                \/ AttemptSucceeds(f) \/ AttemptOverruns(f) \/ AttemptFails(f)
                \/ ReleaseBetween(f)
    BY <1>2, SetupLives
  <1>3. CASE \E f \in Fixtures : BeginRelease(f) \/ ReleaseReturns(f)
    BY <1>3, TeardownLives
  <1> QED BY <1>1, <1>2, <1>3
          DEF DagNext, DagCode, UserReturns, DagEnded, dagVars, setupVars, tearVars,
              BeginSetup, RefuseSetup, Teardown, Stop, StopReaches, SetupReturns,
              TeardownReturns

\* For every graph, any number of retries and any cancel, setupDAG and
\* teardownDAG implement the life of a graph: a BeforeAll is entered only while
\* what it rests on serves, a failed attempt is given back before the next one,
\* and a fixture is released once, after everything on top of it.
THEOREM GraphImplementsLife == DagSpec => GraphLives
  <1>1. DagInit => Life!LifeInit
    BY InitInv, LifeRead DEF DagInit, Life!LifeInit, Lived, LifeAt, Named
  <1>2. IInv /\ IInv' /\ [DagNext]_dagVars => [Life!LifeNext]_Lived
    BY StepLives
  <1> QED BY <1>1, <1>2, InvHolds, PTL DEF DagSpec, GraphLives, Life!LifeSpec

-----------------------------------------------------------------------------
(* The test process told to stop *)

\* A stop under way; whoever stopped the run left stopping set.
StopBegins ==
    /\ stopping' = TRUE
    /\ UNCHANGED <<phase, setupVars, attempted, result, tearVars, released>>

\* Setting stopping again is no step of the graph.
LEMMA StopBeginsIsDag ==
    ASSUME stopping \in BOOLEAN, StopBegins
    PROVE  [DagNext]_dagVars
  <1>1. CASE stopping = TRUE
    BY <1>1 DEF StopBegins, dagVars, setupVars, tearVars
  <1>2. CASE ~stopping
    BY <1>2 DEF StopBegins, DagNext, Stop
  <1> QED BY <1>1, <1>2

\* Every step of the process is a step of the graph, or none of its business.
LEMMA StepIsDag ==
    ASSUME stopping \in BOOLEAN, [Next]_vars
    PROVE  [DagNext]_dagVars
  <1>1. CASE MainCode
    <2>1. CASE HoldFixtures
      BY <2>1 DEF HoldFixtures, DagNext
    <2>2. CASE CleanupTeardown
      BY <2>2 DEF CleanupTeardown, DagNext
    <2>3. CASE ~HoldFixtures /\ ~CleanupTeardown
      BY <1>1, <2>3
      DEF MainCode, OpenSuite, AllSuitesRan, CountSuite, Hold, SetupDone,
          BeginBeforeAll, MethodsDone, Unhold, CloseSuite, StopWatching,
          WatchClosed, StartMethod, MethodGoes
    <2> QED BY <2>1, <2>2, <2>3
  <1>2. CASE GraphCode
    BY <1>2 DEF GraphCode, DagNext
  <1>3. CASE WatchCode
    <2>1. CASE TakeSignal
      BY <2>1, StopBeginsIsDag
      DEF TakeSignal, BeginStop, NoStop, StopBegins, dagVars, setupVars, tearVars
    <2>2. CASE TakeFound
      BY <2>2, StopBeginsIsDag
      DEF TakeFound, BeginStop, NoStop, StopBegins, dagVars, setupVars, tearVars
    <2>3. CASE ForcedTeardown
      BY <2>3 DEF ForcedTeardown, DagNext
    <2>4. CASE WatcherQuits \/ ReadFinished \/ TakeHeld \/ Reraise
      BY <2>4 DEF WatcherQuits, ReadFinished, TakeHeld, Reraise
    <2> QED BY <1>3, <2>1, <2>2, <2>3, <2>4 DEF WatchCode
  <1>4. CASE SettleSignal \/ Clock \/ Poll \/ Outside
    BY <1>4 DEF SettleSignal, Clock, SettleEnds, ReleaseEnds, Poll, Outside,
                Signal, Announce, ParentDies
  <1>5. CASE UserCode
    <2>1. CASE UserReturns
      BY <2>1 DEF DagNext
    <2>2. CASE ~UserReturns
      BY <1>5, <2>2
      DEF UserCode, BeforeAllReturns, AfterAllReturns, MethodReturns, MethodGoes
    <2> QED BY <2>1, <2>2
  <1>6. CASE UNCHANGED vars
    BY <1>6 DEF vars
  <1> QED BY <1>1, <1>2, <1>3, <1>4, <1>5, <1>6 DEF Next, Over

\* The process drives its fixture graph as FixtureDAG allows, so that all that
\* is proved of setupDAG and teardownDAG holds under stops, forced releases
\* and signals (HoldFixtures, releaseHeld).
THEOREM ProcessDrivesGraph == Spec => DagSpec
  <1>1. Init => DagInit /\ stopping \in BOOLEAN
    BY DEF Init, DagInit
  <1>2. stopping \in BOOLEAN /\ [Next]_vars =>
           [DagNext]_dagVars /\ (stopping \in BOOLEAN)'
    <2> SUFFICES ASSUME stopping \in BOOLEAN, [Next]_vars
                 PROVE  [DagNext]_dagVars /\ (stopping \in BOOLEAN)'
      OBVIOUS
    <2>1. [DagNext]_dagVars
      BY StepIsDag
    <2>2. (stopping \in BOOLEAN)'
      BY <2>1
      DEF DagNext, dagVars, BeginSetup, RefuseSetup, Teardown, Stop, DagCode,
          StopReaches, SetupReturns, TeardownReturns, DependencyDone,
          WaitCanceled, Initialise, Hydrate, BeginAttempt, RetryDelay,
          BeginRelease, UserReturns, AttemptSucceeds, AttemptOverruns,
          AttemptFails, ReleaseBetween, ReleaseReturns, DagEnded
    <2> QED BY <2>1, <2>2
  <1> QED BY <1>1, <1>2, PTL DEF Spec, DagSpec

-----------------------------------------------------------------------------
(* The inductive invariant of the process, conjunct by conjunct.           *)

OpenSteps == {"opened", "setup", "holding", "wired", "beforeAll", "methods",
              "afterAll", "cleanup", "close"}
HeldSteps == {"holding", "wired", "beforeAll", "methods", "afterAll", "cleanup"}
AtRest    == phase \in {"idle", "failed", "torn"}

\* Where the testing goroutine is tells what is open, in flight and held; away
\* from a setup and without a hold the graph is at rest.
MainTells ==
    /\ openSuites = IF main \in OpenSteps THEN 1 ELSE 0
    /\ inFlight <=> main \in {"setup", "holding"}
    /\ held => main \in HeldSteps /\ phase \in {"up", "tearing", "torn"}
    /\ main = "setup" => phase \in {"setup", "undo", "failed", "up"}
    /\ main # "setup" /\ ~held => AtRest
    /\ watcher = "releasing" => held \/ phase = "torn"
    /\ main # "start" => suite <= Suites

\* A stop is over only between suites, and signals go uncaught only when there
\* is no suite, or the stop is settled or forced.
WatchTells ==
    /\ watcher \in {"settle", "release", "releasing", "raise"} => stopping
    /\ ~GapStops => (main = "watching" => ~stopping)
    /\ ~GapStops => (settled => stopping /\ main \in {"start", "unwatch", "closing"})
    /\ ~caught => main \in {"start", "closing"} \/ settled \/ forcedBy # "none"
    /\ watcher = "off" \/ closing => main \in {"start", "closing"}

\* Signals are counted before they are taken.
SignalsTell ==
    /\ ch => signals >= 1
    /\ watcher = "settle" /\ ~unasked => signals >= IF ch THEN 2 ELSE 1
    /\ forcedBy = "signal" => signals >= 2

\* After a stop forced outside a setup no setup begins, and once the watcher
\* is done releasing the graph is at rest or it said otherwise.
ForceTells ==
    /\ watcher \in {"release", "releasing", "raise"} /\ ~early => main # "setup"
    /\ watcher = "raise" /\ ~early /\ ~said => AtRest

\* How the process ended tells where it was.
EndTells ==
    /\ ended \in {"status", "signal"} => main \in {"start", "closing"}
    /\ ended = "forced" => watcher = "raise"
    /\ ended = "default" =>
          main \in {"start", "closing"} \/ settled \/ forcedBy # "none"

SInv ==
    /\ StopTypes /\ MainTells /\ WatchTells /\ SignalsTell /\ ForceTells
    /\ EndTells

\* A process that has opened no suite.
LEMMA StopInit == Init => SInv
  <1> SUFFICES ASSUME Init PROVE SInv
    OBVIOUS
  <1> USE DEF Init, DagInit
  <1>1. StopTypes
    <2>1. suite \in 1..(Suites + 1) /\ signals \in 0..MaxSignals
      BY SuiteAssumption
    <2>2. method \in [Methods -> MethodSteps]
      BY DEF MethodSteps
    <2>3. SuiteTypes
      <3>1. main \in MainSteps /\ openSuites \in 0..1
        BY DEF MainSteps
      <3>2. inFlight \in BOOLEAN /\ held \in BOOLEAN
        OBVIOUS
      <3> QED BY <2>1, <2>2, <3>1, <3>2 DEF SuiteTypes
    <2>4. WatchTypes
      BY DEF WatchTypes, WatchSteps
    <2>5. FlagTypes
      BY DEF FlagTypes
    <2> QED BY <2>3, <2>4, <2>5 DEF StopTypes
  <1>2. MainTells /\ WatchTells
    BY DEF MainTells, WatchTells, OpenSteps, HeldSteps, AtRest
  <1>3. SignalsTell /\ ForceTells /\ EndTells
    BY DEF SignalsTell, ForceTells, EndTells
  <1> QED BY <1>1, <1>2, <1>3 DEF SInv

-----------------------------------------------------------------------------
(* The testing goroutine.                                                  *)

LEMMA OpenSuiteInv ==
    ASSUME SInv, OpenSuite
    PROVE  SInv'
  <1> USE DEF OpenSuite, dagVars, envVars
  <1>1. CASE stopping
    <2> USE <1>1 DEF NextSuite, watchVars
    <2>1. StopTypes'
      BY SuiteAssumption
      DEF SInv, StopTypes, SuiteTypes, WatchTypes, FlagTypes, MethodSteps
    <2>2. MainTells' /\ WatchTells'
      BY DEF SInv, MainTells, WatchTells, AtRest
    <2>3. SignalsTell' /\ ForceTells' /\ EndTells'
      BY DEF SInv, SignalsTell, ForceTells, EndTells, AtRest
    <2> QED BY <2>1, <2>2, <2>3 DEF SInv
  <1>2. CASE ~stopping
    <2> USE <1>2
    <2>1. StopTypes'
      <3>1. SuiteTypes' /\ WatchTypes'
        BY DEF SInv, StopTypes, SuiteTypes, WatchTypes, MainSteps, WatchSteps
      <3>2. FlagTypes'
        BY DEF SInv, StopTypes, FlagTypes
      <3> QED BY <3>1, <3>2 DEF StopTypes
    <2>2. MainTells' /\ WatchTells'
      BY DEF SInv, MainTells, WatchTells, OpenSteps, HeldSteps, AtRest
    <2>3. SignalsTell' /\ ForceTells' /\ EndTells'
      BY DEF SInv, SignalsTell, ForceTells, EndTells, Alive
    <2> QED BY <2>1, <2>2, <2>3 DEF SInv
  <1> QED BY <1>1, <1>2

\* The steps of a suite that touch neither the graph nor the watcher.
LEMMA SuiteInv ==
    ASSUME SInv,
           \/ CountSuite \/ Hold \/ SetupDone \/ BeginBeforeAll
           \/ BeforeAllReturns \/ MethodsDone \/ AfterAllReturns \/ Unhold
           \/ CloseSuite
    PROVE  SInv'
  <1> USE DEF CountSuite, Hold, SetupDone, BeginBeforeAll, BeforeAllReturns,
              MethodsDone, AfterAllReturns, Unhold, CloseSuite, MainGoes,
              dagVars, watchVars, envVars
  <1>1. StopTypes'
    <2>1. openSuites' \in 0..1
      BY DEF SInv, StopTypes, SuiteTypes, MainTells, OpenSteps
    <2>2. main' \in MainSteps /\ inFlight' \in BOOLEAN /\ held' \in BOOLEAN
      BY DEF SInv, StopTypes, SuiteTypes, MainSteps
    <2>3. SuiteTypes'
      BY <2>1, <2>2 DEF SInv, StopTypes, SuiteTypes
    <2>4. WatchTypes' /\ FlagTypes'
      BY DEF SInv, StopTypes, WatchTypes, FlagTypes
    <2> QED BY <2>3, <2>4 DEF StopTypes
  <1>2. MainTells'
    BY DEF SInv, MainTells, OpenSteps, HeldSteps, AtRest
  <1>3. WatchTells'
    BY DEF SInv, WatchTells, MainTells
  <1>4. SignalsTell' /\ ForceTells' /\ EndTells'
    BY DEF SInv, SignalsTell, ForceTells, EndTells, AtRest, Alive
  <1> QED BY <1>1, <1>2, <1>3, <1>4 DEF SInv

LEMMA MethodInv ==
    ASSUME SInv, NEW m \in Methods, StartMethod(m) \/ MethodReturns(m)
    PROVE  SInv'
  <1>1. PICK from \in MethodSteps, to \in MethodSteps : MethodGoes(m, from, to)
    BY DEF StartMethod, MethodReturns, MethodSteps
  <1> USE <1>1 DEF MethodGoes, dagVars, watchVars, envVars
  <1>2. StopTypes'
    BY DEF SInv, StopTypes, SuiteTypes, WatchTypes, FlagTypes
  <1>3. MainTells' /\ WatchTells'
    BY DEF SInv, MainTells, WatchTells, AtRest
  <1>4. SignalsTell' /\ ForceTells' /\ EndTells'
    BY DEF SInv, SignalsTell, ForceTells, EndTells, AtRest
  <1> QED BY <1>2, <1>3, <1>4 DEF SInv

\* The hold is refused once the stop has begun, and no other setup begins.
LEMMA HoldFixturesInv ==
    ASSUME SInv, HoldFixtures
    PROVE  SInv'
  <1> USE DEF HoldFixtures, BeginSetup, RefuseSetup, MainGoes, watchVars, envVars
  <1>1. StopTypes'
    <2>1. main' \in MainSteps /\ inFlight' \in BOOLEAN
      BY DEF SInv, StopTypes, SuiteTypes, MainSteps
    <2> QED BY <2>1 DEF SInv, StopTypes, SuiteTypes, WatchTypes, FlagTypes
  <1>2. MainTells'
    BY DEF SInv, MainTells, OpenSteps, HeldSteps, AtRest
  <1>3. WatchTells'
    BY DEF SInv, WatchTells
  <1>4. SignalsTell' /\ ForceTells' /\ EndTells'
    BY DEF SInv, WatchTells, SignalsTell, ForceTells, EndTells, AtRest, Alive
  <1> QED BY <1>1, <1>2, <1>3, <1>4 DEF SInv

\* Teardown, by the cleanup or by the watcher: a hold is what it is made of.
LEMMA TeardownInv ==
    ASSUME SInv, CleanupTeardown \/ ForcedTeardown
    PROVE  SInv'
  <1> USE DEF CleanupTeardown, ForcedTeardown, Teardown, suiteVars, watchVars,
              envVars
  <1>1. StopTypes'
    BY DEF SInv, StopTypes, SuiteTypes, WatchTypes, FlagTypes
  <1>2. MainTells'
    BY DEF SInv, MainTells, HeldSteps, AtRest
  <1>3. WatchTells' /\ SignalsTell' /\ EndTells'
    BY DEF SInv, WatchTells, SignalsTell, EndTells
  <1>4. ForceTells'
    BY DEF SInv, ForceTells, AtRest
  <1> QED BY <1>1, <1>2, <1>3, <1>4 DEF SInv

LEMMA EndInv ==
    ASSUME SInv, AllSuitesRan \/ StopWatching \/ WatchClosed \/ Reraise
    PROVE  SInv'
  <1> USE DEF AllSuitesRan, StopWatching, WatchClosed, Reraise, NextSuite,
              MainGoes, dagVars, suiteVars, watchVars, envVars
  <1>1. StopTypes'
    <2>1. main' \in MainSteps /\ method' \in [Methods -> MethodSteps]
      BY DEF SInv, StopTypes, SuiteTypes, MainSteps, MethodSteps
    <2>2. suite' \in 1..(Suites + 1)
      BY SuiteAssumption DEF SInv, StopTypes, SuiteTypes, MainTells
    <2>3. SuiteTypes'
      BY <2>1, <2>2 DEF SInv, StopTypes, SuiteTypes
    <2>4. WatchTypes' /\ FlagTypes'
      <3>1. CASE StopWatching
        <4>1. caught' \in BOOLEAN /\ closing' \in BOOLEAN
          BY <3>1
        <4>2. WatchTypes'
          BY <3>1 DEF SInv, StopTypes, WatchTypes
        <4> QED BY <3>1, <4>1, <4>2 DEF SInv, StopTypes, FlagTypes
      <3>2. CASE ~StopWatching
        BY <3>2 DEF SInv, StopTypes, WatchTypes, FlagTypes
      <3> QED BY <3>1, <3>2
    <2> QED BY <2>3, <2>4 DEF StopTypes
  <1>2. MainTells' /\ WatchTells'
    BY DEF SInv, MainTells, WatchTells, OpenSteps, HeldSteps, AtRest
  <1>3. SignalsTell' /\ ForceTells' /\ EndTells'
    BY DEF SInv, SignalsTell, ForceTells, EndTells, AtRest, Alive
  <1> QED BY <1>1, <1>2, <1>3 DEF SInv

-----------------------------------------------------------------------------
(* The watcher and its poll.                                               *)

\* A stop begins outside the gap of OpenSuite, with the signal it took, if any.
LEMMA TakeInv ==
    ASSUME SInv, TakeSignal \/ TakeFound
    PROVE  SInv'
  <1> USE DEF TakeSignal, TakeFound, BeginStop, NoStop, setupVars, tearVars,
              suiteVars, envVars
  <1>1. StopTypes'
    <2>1. SuiteTypes' /\ WatchTypes'
      BY DEF SInv, StopTypes, SuiteTypes, WatchTypes, WatchSteps
    <2>2. FlagTypes'
      <3>1. unasked' \in BOOLEAN /\ ch' \in BOOLEAN
        BY DEF SInv, StopTypes, FlagTypes
      <3>2. found' \in BOOLEAN /\ death' \in BOOLEAN
        BY DEF SInv, StopTypes, FlagTypes
      <3> QED BY <3>1, <3>2 DEF SInv, StopTypes, FlagTypes
    <2> QED BY <2>1, <2>2 DEF StopTypes
  <1>2. MainTells'
    BY DEF SInv, MainTells, AtRest
  <1>3. WatchTells'
    BY DEF SInv, WatchTells, Gap
  <1>4. SignalsTell'
    <2>1. CASE TakeSignal
      BY <2>1 DEF SInv, SignalsTell
    <2>2. CASE TakeFound
      BY <2>2 DEF SInv, SignalsTell
    <2> QED BY <2>1, <2>2
  <1>5. ForceTells' /\ EndTells'
    BY DEF SInv, ForceTells, EndTells, AtRest, Alive
  <1> QED BY <1>1, <1>2, <1>3, <1>4, <1>5 DEF SInv

LEMMA WatcherQuitsInv ==
    ASSUME SInv, WatcherQuits \/ Poll
    PROVE  SInv'
  <1> USE DEF WatcherQuits, Poll, dagVars, suiteVars, envVars
  <1>1. StopTypes'
    <2>1. SuiteTypes' /\ WatchTypes'
      BY DEF SInv, StopTypes, SuiteTypes, WatchTypes, WatchSteps
    <2>2. FlagTypes'
      <3>1. found' \in BOOLEAN
        BY DEF SInv, StopTypes, FlagTypes
      <3> QED BY <3>1 DEF SInv, StopTypes, FlagTypes
    <2> QED BY <2>1, <2>2 DEF StopTypes
  <1>2. MainTells' /\ WatchTells'
    BY DEF SInv, MainTells, WatchTells, AtRest
  <1>3. SignalsTell' /\ ForceTells' /\ EndTells'
    BY DEF SInv, SignalsTell, ForceTells, EndTells, AtRest, Alive
  <1> QED BY <1>1, <1>2, <1>3 DEF SInv

\* The last of the four reads is the one that counts: no suite is open, and
\* none opens once the run is stopping.
LEMMA ReadFinishedInv ==
    ASSUME SInv, ReadFinished
    PROVE  SInv'
  <1> USE DEF ReadFinished, dagVars, suiteVars, envVars
  <1>1. StopTypes'
    <2>1. SuiteTypes' /\ WatchTypes'
      BY DEF SInv, StopTypes, SuiteTypes, WatchTypes, WatchSteps
    <2>2. FlagTypes'
      BY DEF SInv, StopTypes, FlagTypes
    <2> QED BY <2>1, <2>2 DEF StopTypes
  <1>2. MainTells'
    BY DEF SInv, MainTells, AtRest
  <1>3. WatchTells'
    <2>1. CASE Look /\ seen = 3
      <3>1. openSuites = 0
        <4>1. <<Bodies = {}, ~inFlight, ~held, openSuites = 0>>[4]
          BY <2>1 DEF Look
        <4> QED BY <4>1
      <3>2. main \in {"start", "watching", "unwatch", "closing"}
        BY <3>1 DEF SInv, StopTypes, SuiteTypes, MainSteps, MainTells, OpenSteps
      <3> QED BY <2>1, <3>2 DEF SInv, WatchTells
    <2>2. CASE ~(Look /\ seen = 3)
      BY <2>2 DEF SInv, WatchTells
    <2> QED BY <2>1, <2>2
  <1>4. SignalsTell' /\ ForceTells' /\ EndTells'
    BY DEF SInv, SignalsTell, ForceTells, EndTells, AtRest, Alive
  <1> QED BY <1>1, <1>2, <1>3, <1>4 DEF SInv

\* A forced stop: early is whether a setup was in flight, and a second signal
\* is one more than the one that asked.
LEMMA SettleInv ==
    ASSUME SInv, SettleEnds \/ SettleSignal
    PROVE  SInv'
  <1> USE DEF SettleEnds, SettleSignal, ForceStop, dagVars, suiteVars, envVars
  <1>1. StopTypes'
    <2>1. SuiteTypes' /\ WatchTypes'
      BY DEF SInv, StopTypes, SuiteTypes, WatchTypes, WatchSteps
    <2>2. FlagTypes'
      <3>1. unasked' \in BOOLEAN /\ ch' \in BOOLEAN
        BY DEF SInv, StopTypes, FlagTypes
      <3>2. caught' \in BOOLEAN /\ early' \in BOOLEAN
        BY DEF SInv, StopTypes, SuiteTypes, FlagTypes
      <3> QED BY <3>1, <3>2 DEF SInv, StopTypes, FlagTypes
    <2> QED BY <2>1, <2>2 DEF StopTypes
  <1>2. MainTells'
    BY DEF SInv, MainTells, AtRest
  <1>3. WatchTells'
    BY DEF SInv, WatchTells
  <1>4. SignalsTell'
    <2>1. CASE SettleEnds
      BY <2>1 DEF SInv, SignalsTell
    <2>2. CASE SettleSignal
      BY <2>2 DEF SInv, SignalsTell
    <2> QED BY <2>1, <2>2
  <1>5. ForceTells' /\ EndTells'
    BY DEF SInv, MainTells, ForceTells, EndTells, AtRest, Alive
  <1> QED BY <1>1, <1>2, <1>3, <1>4, <1>5 DEF SInv

\* The watcher reads the holds once; without one, and outside a setup, there
\* is nothing to release.
LEMMA ReleaseHeldInv ==
    ASSUME SInv, TakeHeld \/ ReleaseEnds
    PROVE  SInv'
  <1> USE DEF TakeHeld, ReleaseEnds, dagVars, suiteVars, envVars
  <1>1. StopTypes'
    <2>1. SuiteTypes' /\ WatchTypes'
      BY DEF SInv, StopTypes, SuiteTypes, WatchTypes, WatchSteps
    <2>2. FlagTypes'
      <3>1. said' \in BOOLEAN
        BY DEF SInv, StopTypes, FlagTypes
      <3> QED BY <3>1 DEF SInv, StopTypes, FlagTypes
    <2> QED BY <2>1, <2>2 DEF StopTypes
  <1>2. MainTells' /\ WatchTells'
    BY DEF SInv, MainTells, WatchTells, AtRest
  <1>3. SignalsTell' /\ EndTells'
    BY DEF SInv, SignalsTell, EndTells, Alive
  <1>4. ForceTells'
    BY DEF SInv, MainTells, ForceTells, AtRest
  <1> QED BY <1>1, <1>2, <1>3, <1>4 DEF SInv

-----------------------------------------------------------------------------
(* What comes from outside, and the graph.                                 *)

LEMMA SignalInv ==
    ASSUME SInv, Signal
    PROVE  SInv'
  <1> USE DEF Signal, dagVars, suiteVars
  <1>0. signals \in Nat /\ signals' = signals + 1
    BY DEF SInv, StopTypes, SuiteTypes
  <1>1. StopTypes'
    <2>1. signals' \in 0..MaxSignals
      BY SuiteAssumption DEF SInv, StopTypes, SuiteTypes
    <2>2. SuiteTypes' /\ WatchTypes'
      BY <2>1 DEF SInv, StopTypes, SuiteTypes, WatchTypes
    <2>3. FlagTypes'
      BY DEF SInv, StopTypes, FlagTypes
    <2> QED BY <2>2, <2>3 DEF StopTypes
  <1>2. MainTells' /\ WatchTells'
    BY DEF SInv, MainTells, WatchTells, AtRest
  <1>3. SignalsTell'
    BY <1>0 DEF SInv, SignalsTell
  <1>4. ForceTells'
    BY DEF SInv, ForceTells, AtRest
  <1>5. EndTells'
    BY DEF SInv, WatchTells, EndTells, Alive
  <1> QED BY <1>1, <1>2, <1>3, <1>4, <1>5 DEF SInv

LEMMA RunnerInv ==
    ASSUME SInv, Announce \/ ParentDies
    PROVE  SInv'
  <1> USE DEF Announce, ParentDies, dagVars, suiteVars, watchVars
  <1>1. StopTypes'
    <2>1. SuiteTypes' /\ WatchTypes'
      BY DEF SInv, StopTypes, SuiteTypes, WatchTypes
    <2>2. FlagTypes'
      <3>1. announced' \in BOOLEAN /\ orphan' \in BOOLEAN /\ death' \in BOOLEAN
        BY DEF SInv, StopTypes, FlagTypes
      <3> QED BY <3>1 DEF SInv, StopTypes, FlagTypes
    <2> QED BY <2>1, <2>2 DEF StopTypes
  <1>2. MainTells' /\ WatchTells'
    BY DEF SInv, MainTells, WatchTells, AtRest
  <1>3. SignalsTell' /\ ForceTells'
    BY DEF SInv, SignalsTell, ForceTells, AtRest
  <1>4. EndTells'
    BY DEF SInv, WatchTells, EndTells, Alive
  <1> QED BY <1>1, <1>2, <1>3, <1>4 DEF SInv

\* By itself the graph leaves setup, undo and tearing, and nothing else.
LEMMA GraphPhases ==
    ASSUME DagCode \/ UserReturns
    PROVE  /\ UNCHANGED stopping
           /\ \/ UNCHANGED phase
              \/ phase = "setup" /\ phase' \in {"up", "undo"}
              \/ phase = "undo" /\ phase' = "failed"
              \/ phase = "tearing" /\ phase' = "torn"
  BY DEF DagCode, UserReturns, StopReaches, SetupReturns, TeardownReturns,
         Releasing, DependencyDone, WaitCanceled, Initialise, Hydrate,
         BeginAttempt, RetryDelay, BeginRelease, AttemptSucceeds,
         AttemptOverruns, AttemptFails, ReleaseBetween, ReleaseReturns

LEMMA GraphInv ==
    ASSUME SInv, DagCode \/ UserReturns, NotGraph
    PROVE  SInv'
  <1> USE GraphPhases DEF NotGraph, suiteVars, watchVars, envVars
  <1>1. StopTypes'
    BY DEF SInv, StopTypes, SuiteTypes, WatchTypes, FlagTypes
  <1>2. MainTells'
    BY DEF SInv, MainTells, HeldSteps, AtRest
  <1>3. WatchTells' /\ SignalsTell' /\ EndTells'
    BY DEF SInv, WatchTells, SignalsTell, EndTells
  <1>4. ForceTells'
    BY DEF SInv, ForceTells, AtRest
  <1> QED BY <1>1, <1>2, <1>3, <1>4 DEF SInv

\* Every step of the process keeps the invariant.
LEMMA StopStep == SInv /\ [Next]_vars => SInv'
  <1> SUFFICES ASSUME SInv, [Next]_vars PROVE SInv'
    OBVIOUS
  <1>1. CASE MainCode
    BY <1>1, OpenSuiteInv, SuiteInv, MethodInv, HoldFixturesInv, TeardownInv,
       EndInv
    DEF MainCode
  <1>2. CASE GraphCode
    BY <1>2, GraphInv DEF GraphCode
  <1>3. CASE WatchCode
    BY <1>3, TakeInv, WatcherQuitsInv, ReadFinishedInv, ReleaseHeldInv,
       TeardownInv, EndInv
    DEF WatchCode
  <1>4. CASE SettleSignal \/ Clock \/ Poll
    BY <1>4, SettleInv, ReleaseHeldInv, WatcherQuitsInv DEF Clock
  <1>5. CASE UserCode
    BY <1>5, SuiteInv, MethodInv, GraphInv DEF UserCode
  <1>6. CASE Outside
    BY <1>6, SignalInv, RunnerInv DEF Outside
  <1>7. CASE UNCHANGED vars
    <2> USE <1>7 DEF vars, dagVars, suiteVars, watchVars, envVars
    <2>1. StopTypes'
      BY DEF SInv, StopTypes, SuiteTypes, WatchTypes, FlagTypes
    <2>2. MainTells' /\ WatchTells'
      BY DEF SInv, MainTells, WatchTells, AtRest
    <2>3. SignalsTell' /\ ForceTells' /\ EndTells'
      BY DEF SInv, SignalsTell, ForceTells, EndTells, AtRest
    <2> QED BY <2>1, <2>2, <2>3 DEF SInv
  <1> QED BY <1>1, <1>2, <1>3, <1>4, <1>5, <1>6, <1>7 DEF Next, Over

-----------------------------------------------------------------------------
\* The process's invariant and its graph's, together.
THEOREM StopInvHolds == Spec => [](SInv /\ IInv)
  <1>1. Spec => []SInv
    BY StopInit, StopStep, PTL DEF Spec
  <1>2. Spec => []IInv
    BY ProcessDrivesGraph, InvHolds, PTL
  <1> QED BY <1>1, <1>2, PTL

\* A graph at rest holds nothing.
LEMMA RestHoldsNothing ==
    ASSUME IInv, AtRest
    PROVE  \A f \in Fixtures : ~Held(f)
  <1>1. \A f \in Fixtures : f \in attempted => teardown[f] = "ended"
    BY DEF IInv, DagTypeOK, PhaseTells, TrackerFollows, AtRest
  <1>2. \A f \in Fixtures : released[f] \in Nat /\ entered[f] = released[f]
    BY <1>1 DEF IInv, DagTypeOK, TrackerCounts
  <1> QED BY <1>2 DEF Held

\* What the two invariants are for, state by state.
LEMMA StopImplies ==
    SInv /\ IInv =>
        /\ TypeOK /\ NothingLeftBehind /\ ForcedReleases /\ OneSignalNeverForces
        /\ ~GapStops => SettledMeansOver /\ DefaultKillsNothingHeld
  <1> SUFFICES ASSUME SInv, IInv
               PROVE  /\ NothingLeftBehind /\ ForcedReleases
                      /\ OneSignalNeverForces
                      /\ ~GapStops => SettledMeansOver /\ DefaultKillsNothingHeld
    BY DEF SInv, IInv, TypeOK
  <1>1. main \in {"start", "unwatch", "closing"} => \A f \in Fixtures : ~Held(f)
    BY RestHoldsNothing DEF SInv, MainTells, HeldSteps
  <1>2. NothingLeftBehind
    BY <1>1 DEF SInv, EndTells, NothingLeftBehind
  <1>3. ForcedReleases
    BY RestHoldsNothing DEF SInv, EndTells, ForceTells, ForcedReleases
  <1>4. OneSignalNeverForces
    BY DEF SInv, SignalsTell, OneSignalNeverForces
  <1>5. ~GapStops => SettledMeansOver
    BY <1>1 DEF SInv, WatchTells, SettledMeansOver, SuiteOpen
  <1>6. ~GapStops => DefaultKillsNothingHeld
    BY <1>1 DEF SInv, WatchTells, EndTells, DefaultKillsNothingHeld
  <1> QED BY <1>2, <1>3, <1>4, <1>5, <1>6

\* The process's state is well formed: at most one suite is open, and the
\* watcher has no more signals than were sent.
THEOREM StopTypeCorrect == Spec => []TypeOK
  BY StopInvHolds, StopImplies, PTL

\* However the run was stopped, a process that ends with the tests' status or
\* by the signal it was stopped with leaves no fixture behind (the cleanup of
\* HoldFixtures runs before the watcher closes).
THEOREM NothingIsLeftBehind == Spec => []NothingLeftBehind
  BY StopInvHolds, StopImplies, PTL

\* A stop forced outside a setup releases every fixture before reraise ends
\* the process, or has said that it did not (releaseHeld, releaseWithin).
THEOREM ForcedStopReleases == Spec => []ForcedReleases
  BY StopInvHolds, StopImplies, PTL

\* One signal never forces a stop, whatever the poll found first (settle).
THEOREM OneSignalIsNotTwo == Spec => []OneSignalNeverForces
  BY StopInvHolds, StopImplies, PTL

\* If no stop falls into the gap of OpenSuite, finished() is right: a stop it
\* found settled is over for good.
THEOREM SettledIsOver ==
    ASSUME ~GapStops PROVE Spec => []SettledMeansOver
  BY StopInvHolds, StopImplies, PTL

\* If no stop falls into the gap of OpenSuite, the default action of a signal
\* strikes no process that holds a fixture, except after a forced stop.
THEOREM DefaultKillsNothing ==
    ASSUME ~GapStops PROVE Spec => []DefaultKillsNothingHeld
  BY StopInvHolds, StopImplies, PTL
=============================================================================
