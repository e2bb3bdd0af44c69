----------------------------- MODULE FixtureDAG -----------------------------
(***************************************************************************)
(* The package fixtures of one suite inside the test process: setupDAG,    *)
(* teardownDAG and the hold around them (pkg/gotestruntime/runtime.go,     *)
(* hold.go), with every fixture under the policy of RunFixtureSetup.       *)
(*                                                                         *)
(* One goroutine per fixture waits for the dependencies, sets the fixture  *)
(* up, and on failure cancels the siblings with its error as the cause.    *)
(* The node tracker remembers which BeforeAll was entered with nothing     *)
(* released since; teardownDAG releases exactly those, dependents first.   *)
(*                                                                         *)
(* A goroutine that fails records its error, cancels and closes its done   *)
(* channel in that order; nobody reads the error before the channel is     *)
(* closed and a dependent may act on the cancel either way, so the three   *)
(* are one step.  StopWatch composes the graph with the run around it.     *)
(***************************************************************************)
EXTENDS Integers, Sequences, SequencesExt

CONSTANTS
    Order,       \* the fixtures, in the order of MainConfig.Fixtures
    DependsOn,   \* DependsOn[f]: the fixtures f depends on, a sequence
    Shared,      \* the nodes with a SharedState: hydrated, not set up
    Unnamed,     \* shared nodes the state file does not name
    Retries      \* FixtureConfig.Retries, the same for every fixture

Fixtures == ToSet(Order)
Deps(f) == ToSet(DependsOn[f])
Dependents(f) == {d \in Fixtures : f \in Deps(d)}
Place(f) == CHOOSE i \in DOMAIN Order : Order[i] = f

\* The generator lists dependencies first, without repetition; that every name
\* in DependsOn exists is what setupDAG checks before it starts a goroutine.
ASSUME OrderAssumption ==
    /\ \A i, j \in DOMAIN Order : Order[i] = Order[j] => i = j
    /\ \A i \in DOMAIN Order : \A d \in Deps(Order[i]) :
          \E j \in DOMAIN Order : j < i /\ Order[j] = d
    /\ Order \in Seq(Fixtures) /\ DependsOn \in [Fixtures -> Seq(Fixtures)]
    /\ Unnamed \subseteq Shared /\ Shared \subseteq Fixtures
    /\ Retries \in Nat

\* The names of fixtures are not those of the other errors.
ASSUME NamesAssumption == Fixtures \cap {"none", "skipped", "canceled"} = {}

VARIABLES
    phase,      \* where the one caller of setupFixtureDAG is
    stopping,   \* the run was told to stop (stopping, runstate.Stop)
    cause,      \* why childCtx is done, "none" while it is not
    node,       \* node[f]: where the setup goroutine of f is
    at,         \* at[f]: the dependency f waits for, an index of DependsOn[f]
    attempt,    \* attempt[f]: BeforeAll attempts begun
    relErr,     \* fixtures whose release between attempts failed
    errs,       \* errs[f]: the error recorded for f, "none" without one
    attempted,  \* nodeTracker.attempted
    result,     \* what setupDAG returned
    teardown,   \* teardown[f]: where the teardown goroutine of f is
    entered,    \* history: BeforeAll or Hydrate calls of f
    released    \* history: AfterAll or Dehydrate calls of f that returned

setupVars == <<node, at, attempt, relErr, errs, cause, entered>>
tearVars  == <<teardown>>
dagVars   == <<phase, stopping, cause, node, at, attempt, relErr, errs,
               attempted, result, teardown, entered, released>>

Phases    == {"idle", "setup", "undo", "failed", "up", "tearing", "torn"}
NodeSteps == {"waiting", "init", "begin", "entered", "delay", "between",
              "ended"}
TearSteps == {"waiting", "release", "ended"}

\* An error is named by the fixture whose own failure it reports; "skipped" is
\* the report of a failed dependency, "canceled" is context.Canceled.
Errors == Fixtures \cup {"none", "skipped", "canceled"}

DagTypeOK ==
    /\ phase \in Phases /\ stopping \in BOOLEAN
    /\ cause \in Errors /\ result \in Errors
    /\ node \in [Fixtures -> NodeSteps]
    /\ at \in [Fixtures -> Nat]
    /\ \A f \in Fixtures : at[f] \in 1..(Len(DependsOn[f]) + 1)
    /\ attempt \in [Fixtures -> 0..(Retries + 1)]
    /\ errs \in [Fixtures -> Errors]
    /\ relErr \subseteq Fixtures /\ attempted \subseteq Fixtures
    /\ teardown \in [Fixtures -> TearSteps]
    /\ entered \in [Fixtures -> Nat] /\ released \in [Fixtures -> Nat]

DagInit ==
    /\ phase = "idle" /\ stopping = FALSE
    /\ cause = "none" /\ result = "none"
    /\ node = [f \in Fixtures |-> "waiting"]
    /\ at = [f \in Fixtures |-> 1]
    /\ attempt = [f \in Fixtures |-> 0]
    /\ errs = [f \in Fixtures |-> "none"]
    /\ relErr = {} /\ attempted = {}
    /\ teardown = [f \in Fixtures |-> "waiting"]
    /\ entered = [f \in Fixtures |-> 0]
    /\ released = [f \in Fixtures |-> 0]

-----------------------------------------------------------------------------
(* setupFixtureDAG *)

\* Mutant: a setup is admitted whatever stopping says.
BeginSetup_AnyTime ==
    /\ phase = "idle"
    /\ phase' = "setup"
    /\ UNCHANGED <<stopping, setupVars, attempted, result, tearVars, released>>

\* beginSetup refuses once a stop has begun; otherwise setupDAG starts the
\* goroutines.  Both happen under setupMu.
BeginSetup ==
    /\ phase = "idle" /\ ~stopping
    /\ phase' = "setup"
    /\ UNCHANGED <<stopping, setupVars, attempted, result, tearVars, released>>

RefuseSetup ==
    /\ phase = "idle" /\ stopping
    /\ phase' = "failed"
    /\ UNCHANGED <<stopping, setupVars, attempted, result, tearVars, released>>

Running(f) == phase = "setup" /\ node[f] # "ended"
Ctx == cause # "none"

\* The stop cancels the context of the setup through AfterFunc, on its own
\* goroutine: some time after the stop.
StopReaches ==
    /\ phase = "setup" /\ stopping /\ ~Ctx
    /\ cause' = "canceled"
    /\ UNCHANGED <<phase, stopping, node, at, attempt, relErr, errs, attempted,
                   result, tearVars, entered, released>>

NodeGoes(f, step) == node' = [node EXCEPT ![f] = step]

\* The first cancel sets the cause, a later one does nothing.
Fails(f, err) ==
    /\ NodeGoes(f, "ended")
    /\ errs' = [errs EXCEPT ![f] = err]
    /\ cause' = IF Ctx THEN cause ELSE err

\* Waiting for a dependency only ends with the context: no cancel of its own.
Gives(f, err) ==
    /\ NodeGoes(f, "ended")
    /\ errs' = [errs EXCEPT ![f] = err]
    /\ UNCHANGED cause

AllAwaited(f) == at[f] > Len(DependsOn[f])

\* select: the channel of the dependency, its error read once it is closed.
DependencyDone(f) ==
    /\ Running(f) /\ node[f] = "waiting" /\ ~AllAwaited(f)
    /\ LET dep == DependsOn[f][at[f]] IN
       /\ node[dep] = "ended"
       /\ IF errs[dep] # "none"
            THEN Fails(f, "skipped") /\ UNCHANGED at
            ELSE /\ at' = [at EXCEPT ![f] = at[f] + 1]
                 /\ UNCHANGED <<node, errs, cause>>
    /\ UNCHANGED <<phase, stopping, attempt, relErr, attempted, result,
                   tearVars, entered, released>>

\* select: the context, whose cause is the error recorded.
WaitCanceled(f) ==
    /\ Running(f) /\ node[f] = "waiting" /\ ~AllAwaited(f) /\ Ctx
    /\ Gives(f, cause)
    /\ UNCHANGED <<phase, stopping, at, attempt, relErr, attempted, result,
                   tearVars, entered, released>>

\* Unmarshal of the state of a shared node, and Init: either may fail, Init by
\* a panic the goroutine recovers.  A shared node the file does not name is
\* left alone.
Initialise(f) ==
    /\ Running(f) /\ node[f] = "waiting" /\ AllAwaited(f)
    /\ \/ NodeGoes(f, IF f \in Unnamed THEN "ended" ELSE "init")
          /\ UNCHANGED <<errs, cause>>
       \/ f \notin Unnamed /\ Fails(f, f)
    /\ UNCHANGED <<phase, stopping, at, attempt, relErr, attempted, result,
                   tearVars, entered, released>>

\* Attempted once BeforeAll, or Hydrate, is entered.
Enter(f) ==
    /\ NodeGoes(f, "entered")
    /\ attempt' = [attempt EXCEPT ![f] = attempt[f] + 1]
    /\ attempted' = attempted \cup {f}
    /\ entered' = [entered EXCEPT ![f] = entered[f] + 1]
    /\ UNCHANGED <<errs, cause>>

\* Hydrate is entered whatever its context says.
Hydrate(f) ==
    /\ Running(f) /\ node[f] = "init" /\ f \in Shared
    /\ Enter(f)
    /\ UNCHANGED <<phase, stopping, at, relErr, result, tearVars, released>>

\* RunFixtureSetup reads the context before the first attempt and after each
\* release between attempts.
BeginAttempt(f) ==
    /\ Running(f)
    /\ (node[f] = "init" /\ f \notin Shared) \/ node[f] = "begin"
    /\ IF Ctx
         THEN Fails(f, "canceled") /\ UNCHANGED <<attempt, attempted, entered>>
         ELSE Enter(f)
    /\ UNCHANGED <<phase, stopping, at, relErr, result, tearVars, released>>

\* A BeforeAll that succeeds after a release that failed fails the setup.
AttemptSucceeds(f) ==
    /\ Running(f) /\ node[f] = "entered"
    /\ IF f \in relErr THEN Fails(f, f)
                       ELSE NodeGoes(f, "ended") /\ UNCHANGED <<errs, cause>>
    /\ UNCHANGED <<phase, stopping, at, attempt, relErr, attempted, result,
                   tearVars, entered, released>>

\* The verdict of a declared budget, passed only while the context lives.
AttemptOverruns(f) ==
    /\ Running(f) /\ node[f] = "entered" /\ f \notin Shared /\ ~Ctx
    /\ Fails(f, f)
    /\ UNCHANGED <<phase, stopping, at, attempt, relErr, attempted, result,
                   tearVars, entered, released>>

AttemptFails_AsCancel(f) ==
    /\ Running(f) /\ node[f] = "entered"
    /\ Fails(f, "canceled")
    /\ UNCHANGED <<phase, stopping, at, attempt, relErr, attempted, result,
                   tearVars, entered, released>>

\* An error or a panic.  A setup whose context is done reports the context; an
\* error of Hydrate is reported as it is, and may wrap the context's.
AttemptFails(f) ==
    /\ Running(f) /\ node[f] = "entered"
    /\ \/ f \in Shared /\ (Fails(f, f) \/ (Ctx /\ Fails(f, "canceled")))
       \/ f \notin Shared /\ Ctx /\ Fails(f, "canceled")
       \/ /\ f \notin Shared /\ ~Ctx
          /\ IF attempt[f] <= Retries
               THEN NodeGoes(f, "delay") /\ UNCHANGED <<errs, cause>>
               ELSE Fails(f, f)
    /\ UNCHANGED <<phase, stopping, at, attempt, relErr, attempted, result,
                   tearVars, entered, released>>

\* The delay ends by the clock or, with the attempt still held, by the context.
RetryDelay(f) ==
    /\ Running(f) /\ node[f] = "delay"
    /\ \/ NodeGoes(f, "between") /\ UNCHANGED <<errs, cause>>
       \/ Ctx /\ Fails(f, "canceled")
    /\ UNCHANGED <<phase, stopping, at, attempt, relErr, attempted, result,
                   tearVars, entered, released>>

\* Mutant: Held(false) is not reported after the release between attempts.
ReleaseBetween_StillHeld(f) ==
    /\ Running(f) /\ node[f] = "between"
    /\ NodeGoes(f, "begin")
    /\ relErr' \in {relErr, relErr \cup {f}}
    /\ released' = [released EXCEPT ![f] = released[f] + 1]
    /\ UNCHANGED <<phase, stopping, cause, at, attempt, attempted, errs, result,
                   tearVars, entered>>

\* AfterAll between attempts has returned; the fixture is no longer held.
ReleaseBetween(f) ==
    /\ Running(f) /\ node[f] = "between"
    /\ NodeGoes(f, "begin")
    /\ relErr' \in {relErr, relErr \cup {f}}
    /\ attempted' = attempted \ {f}
    /\ released' = [released EXCEPT ![f] = released[f] + 1]
    /\ UNCHANGED <<phase, stopping, cause, at, attempt, errs, result, tearVars,
                   entered>>

\* The error setupDAG returns: the first that is not a cancellation, else the
\* first.
Reported(e) ==
    LET failed == {f \in Fixtures : e[f] # "none"}
        real   == {f \in failed : e[f] # "canceled"}
        First(S) == CHOOSE f \in S : \A g \in S : Place(f) <= Place(g)
    IN IF real # {} THEN e[First(real)]
       ELSE IF failed # {} THEN e[First(failed)] ELSE "none"

\* wg.Wait is over.  A graph that is up is held before its setup stops
\* counting as in flight; one that failed is torn down first.
SetupReturns ==
    /\ phase = "setup" /\ \A f \in Fixtures : node[f] = "ended"
    /\ result' = Reported(errs)
    /\ phase' = IF result' = "none" THEN "up" ELSE "undo"
    /\ UNCHANGED <<stopping, setupVars, attempted, tearVars, released>>

-----------------------------------------------------------------------------
(* teardownDAG: after a failed setup, or once from FixtureDAG.Teardown *)

Teardown ==
    /\ phase = "up"
    /\ phase' = "tearing"
    /\ UNCHANGED <<stopping, setupVars, attempted, result, tearVars, released>>

Releasing == phase \in {"undo", "tearing"}

\* Mutants: no wait for the dependents; a wait in both directions.
BeginRelease_AnyOrder(f) ==
    /\ Releasing /\ teardown[f] = "waiting"
    /\ teardown' = [teardown EXCEPT
                      ![f] = IF f \in attempted THEN "release" ELSE "ended"]
    /\ UNCHANGED <<phase, stopping, setupVars, attempted, result, released>>

BeginRelease_BothWays(f) ==
    /\ Releasing /\ teardown[f] = "waiting"
    /\ \A d \in Dependents(f) \cup Deps(f) : teardown[d] = "ended"
    /\ teardown' = [teardown EXCEPT
                      ![f] = IF f \in attempted THEN "release" ELSE "ended"]
    /\ UNCHANGED <<phase, stopping, setupVars, attempted, result, released>>

\* The goroutine of f waits for the dependents, then releases f if attempted.
BeginRelease(f) ==
    /\ Releasing /\ teardown[f] = "waiting"
    /\ \A d \in Dependents(f) : teardown[d] = "ended"
    /\ teardown' = [teardown EXCEPT
                      ![f] = IF f \in attempted THEN "release" ELSE "ended"]
    /\ UNCHANGED <<phase, stopping, setupVars, attempted, result, released>>

\* AfterAll or Dehydrate returns, whatever came of it.
ReleaseReturns(f) ==
    /\ Releasing /\ teardown[f] = "release"
    /\ teardown' = [teardown EXCEPT ![f] = "ended"]
    /\ released' = [released EXCEPT ![f] = released[f] + 1]
    /\ UNCHANGED <<phase, stopping, setupVars, attempted, result>>

TeardownReturns ==
    /\ Releasing /\ \A f \in Fixtures : teardown[f] = "ended"
    /\ phase' = IF phase = "undo" THEN "failed" ELSE "torn"
    /\ UNCHANGED <<stopping, setupVars, attempted, result, tearVars, released>>

-----------------------------------------------------------------------------
Stop ==
    /\ ~stopping
    /\ stopping' = TRUE
    /\ UNCHANGED <<phase, setupVars, attempted, result, tearVars, released>>

\* What the runtime does by itself, and what returns from user code.
DagCode ==
    \/ StopReaches \/ SetupReturns \/ TeardownReturns
    \/ \E f \in Fixtures :
          \/ DependencyDone(f) \/ WaitCanceled(f) \/ Initialise(f)
          \/ Hydrate(f) \/ BeginAttempt(f) \/ RetryDelay(f) \/ BeginRelease(f)

UserReturns ==
    \E f \in Fixtures :
        \/ AttemptSucceeds(f) \/ AttemptOverruns(f) \/ AttemptFails(f)
        \/ ReleaseBetween(f) \/ ReleaseReturns(f)

DagEnded == phase \in {"failed", "torn"} /\ UNCHANGED dagVars

DagNext ==
    BeginSetup \/ RefuseSetup \/ Teardown \/ Stop \/ DagCode \/ UserReturns
    \/ DagEnded

DagSpec == DagInit /\ [][DagNext]_dagVars
DagFairness == WF_dagVars(DagCode) /\ WF_dagVars(UserReturns)
DagFairSpec == DagSpec /\ DagFairness

-----------------------------------------------------------------------------
(* Properties *)

Held(f) == entered[f] > released[f]
InUse(f) == node[f] \in {"entered", "delay", "between"} \/ teardown[f] = "release"

\* A fixture is set up on top of dependencies that are up: while its BeforeAll
\* may run, each dependency has been set up without error and is still held
\* (a shared node the state file does not name excepted).
SetUpOnDependencies ==
    \A f \in Fixtures : InUse(f) => \A d \in Deps(f) :
        /\ node[d] = "ended" /\ errs[d] = "none"
        /\ d \notin Unnamed => Held(d)

\* What the graph promises (FixtureLife), read from the state of the runtime.
\* Shared nodes the state file does not name are left alone, and are no part.
Named == Fixtures \ Unnamed

LifeOf(f) ==
    IF teardown[f] = "release" THEN "going"
    ELSE IF teardown[f] = "ended" /\ f \in attempted THEN "over"
    ELSE IF ~Held(f) THEN "down"
    ELSE IF node[f] = "between" THEN "back"
    ELSE IF node[f] = "ended" /\ errs[f] = "none" THEN "serving"
    ELSE "coming"

Lived == [f \in Named |-> LifeOf(f)]

Life == INSTANCE FixtureLife
            WITH Fixtures <- Named,
                 Needs    <- [f \in Named |-> Deps(f) \ Unnamed],
                 life     <- Lived

\* setupDAG and teardownDAG implement the life of a graph: with retries and
\* cancels, a BeforeAll is entered only while what it rests on serves, a failed
\* attempt is given back before the next one, and a fixture is released once,
\* after everything on top of it.
GraphLives == Life!LifeSpec

\* Every BeforeAll entered is released once, retries and cancels included: at
\* no time two, and none left when the graph reports failure or is torn down.
ReleasedOnceEach ==
    \A f \in Fixtures :
        /\ released[f] <= entered[f] /\ entered[f] <= released[f] + 1
        /\ phase \in {"failed", "torn"} => ~Held(f)

\* The hold is handed a graph only when every fixture of it is up.
UpMeansUp ==
    phase = "up" => \A f \in Fixtures :
        errs[f] = "none" /\ (f \notin Unnamed => Held(f))

\* A setup nobody stopped fails only if some fixture failed by itself: the
\* cancel of the siblings never feeds on itself.
FailureHasCulprit ==
    phase = "undo" /\ ~stopping => \E f \in Fixtures : errs[f] = f

\* A setup nobody stopped reports the failure of a fixture that failed by
\* itself: "Prefer the causal error over a victim's" (runtime.go:91).
CausalErrorReported ==
    phase = "undo" /\ ~stopping => result \in Fixtures

\* Setup comes to an end, with or without a stop, if user code returns.
SetupEnds == phase = "setup" ~> phase \in {"up", "failed"}
=============================================================================
