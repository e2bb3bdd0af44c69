---------------------------- MODULE MethodBudget ----------------------------
(***************************************************************************)
(* The test methods of one suite under a declared Timeout: RunMethods,     *)
(* openMethod and the watch of pkg/gotestruntime.  The method's goroutine  *)
(* goes through the fixtures' BeforeEach, the suite's, the body and the    *)
(* AfterEach hooks; the watch goroutine judges an overrun; the timer marks *)
(* the deadline; a stop ends the method's context.  The methods run one    *)
(* after the other (Parallel is left out).                                 *)
(*                                                                         *)
(* Below them, the goroutines a suite starts with gotest.Go from BeforeAll *)
(* and who waits for them: internal/setupwaits, Go of pkg/gotest and the   *)
(* drain of pkg/gotestruntime that follows AfterAll.  A goroutine is       *)
(* started by the suite, by another one of them, or by a plain goroutine   *)
(* nobody waits for.  The two share no state.                              *)
(***************************************************************************)
EXTENDS Naturals, Sequences, FiniteSets

CONSTANTS MethodTotal,   \* the suite's methods, 1..MethodTotal
          HookTotal,     \* its fixtures with BeforeEach and AfterEach hooks
          Goers          \* the goroutines that may be started with gotest.Go

ASSUME MethodAssumption == MethodTotal \in Nat /\ HookTotal \in Nat

Hooks == 1..HookTotal

VARIABLES
    mpos,       \* where the method's goroutine is
    hook,       \* the fixture whose turn it is
    held,       \* the fixtures with a deferred AfterEach, innermost last
    suiteHeld,  \* whether the suite's own AfterEach is deferred
    method,    \* the current method
    failFast,   \* SuiteConfig.FailFast
    failedFirst,\* whether a method of the suite failed already
    watching,   \* the watch goroutine's state
    done,       \* whether the watch was told to end
    expired,    \* whether the deadline has passed (due is closed)
    methodCtx,  \* the method's context
    afterCtx,   \* the context of its AfterEach
    runStopped, \* whether the run is asked to stop
    reports,    \* the overruns reported on this method
    methodFails,\* whether this method's T has failed
    acquired,   \* what this method's BeforeEach hooks acquired
    released    \* the AfterEach hooks this method ran, in order

methodVars == <<mpos, hook, held, suiteHeld, method, failFast, failedFirst, watching,
                done, expired, methodCtx, afterCtx, runStopped, reports, methodFails,
                acquired, released>>

MethodTypeOK ==
    /\ mpos \in {"next", "turn", "before", "suite", "look", "body", "unwind", "after",
                 "told", "cleanup", "over"}
    /\ hook \in 1..(HookTotal + 1) /\ method \in 1..(MethodTotal + 1)
    /\ held \in Seq(Hooks) /\ released \in Seq(0..HookTotal)
    /\ watching \in {"off", "waiting", "seen", "judging", "reported", "stopped"}
    /\ {methodCtx, afterCtx} \subseteq {"live", "deadline", "canceled"}
    /\ {suiteHeld, failFast, failedFirst, done, expired, runStopped, methodFails} \subseteq BOOLEAN
    /\ reports \in Nat /\ acquired \subseteq 0..HookTotal

MethodIn(where) ==
    /\ mpos = where /\ hook = 1 /\ held = <<>> /\ suiteHeld = FALSE /\ method = 1
    /\ failFast \in (IF where = "next" THEN BOOLEAN ELSE {FALSE})
    /\ failedFirst = FALSE /\ watching = "off" /\ done = FALSE /\ expired = FALSE
    /\ methodCtx = "live" /\ afterCtx = "live" /\ runStopped = FALSE
    /\ reports = 0 /\ methodFails = FALSE /\ acquired = {} /\ released = <<>>

MethodInit == MethodIn("next")

------------------------------------------------------------------------------
\* A context ends once; what ends it later changes nothing.
Ended(ctx, err) == IF ctx = "live" THEN err ELSE ctx

EndContexts ==
    /\ methodCtx' = Ended(methodCtx, "deadline")
    /\ afterCtx' = Ended(afterCtx, "deadline")

Overran == methodCtx = "deadline"

\* A method that FailFast or a stop keeps from starting is skipped.
SkipMethod ==
    /\ mpos = "next" /\ method <= MethodTotal
    /\ (failFast /\ failedFirst) \/ runStopped
    /\ method' = method + 1
    /\ UNCHANGED <<mpos, hook, held, suiteHeld, failFast, failedFirst, watching, done, expired,
                   methodCtx, afterCtx, runStopped, reports, methodFails, acquired, released>>

\* openMethod: the contexts, the watch, then the timer.
OpenMethod ==
    /\ mpos = "next" /\ method <= MethodTotal
    /\ ~(failFast /\ failedFirst) /\ ~runStopped
    /\ mpos' = "turn" /\ hook' = 1 /\ held' = <<>> /\ suiteHeld' = FALSE
    /\ watching' = "waiting" /\ done' = FALSE /\ expired' = FALSE
    /\ methodCtx' = "live" /\ afterCtx' = "live"
    /\ reports' = 0 /\ methodFails' = FALSE /\ acquired' = {} /\ released' = <<>>
    /\ UNCHANGED <<method, failFast, failedFirst, runStopped>>

AllRun ==
    /\ mpos = "next" /\ method > MethodTotal
    /\ mpos' = "over"
    /\ UNCHANGED <<hook, held, suiteHeld, method, failFast, failedFirst, watching, done, expired,
                   methodCtx, afterCtx, runStopped, reports, methodFails, acquired, released>>

watchState == <<watching, done, expired, methodCtx, afterCtx, runStopped, reports>>

\* A fixture's turn: not after an overrun; past the last fixture the suite's
\* own BeforeEach is next.
Turn ==
    /\ mpos = "turn"
    /\ mpos' = IF Overran THEN "unwind" ELSE IF hook \in Hooks THEN "before" ELSE "suite"
    /\ UNCHANGED <<hook, held, suiteHeld, method, failFast, failedFirst, watchState,
                   methodFails, acquired, released>>

\* The fixture's BeforeEach returns; only without an error is its AfterEach
\* deferred.
Before ==
    /\ mpos = "before"
    /\ \/ /\ held' = Append(held, hook) /\ acquired' = acquired \cup {hook}
          /\ hook' = hook + 1 /\ mpos' = "turn"
          /\ UNCHANGED methodFails
       \/ /\ methodFails' = TRUE /\ mpos' = "unwind"
          /\ UNCHANGED <<held, acquired, hook>>
    /\ UNCHANGED <<suiteHeld, method, failFast, failedFirst, watchState, released>>

\* The suite's AfterEach is deferred, then its BeforeEach runs: it returns, or
\* leaves by a fatal assertion.
SuiteBefore ==
    /\ mpos = "suite"
    /\ suiteHeld' = TRUE /\ acquired' = acquired \cup {0}
    /\ \/ mpos' = "look" /\ UNCHANGED methodFails
       \/ mpos' = "unwind" /\ methodFails' = TRUE
    /\ UNCHANGED <<hook, held, method, failFast, failedFirst, watchState, released>>

LookAtBody ==
    /\ mpos = "look"
    /\ mpos' = IF Overran THEN "unwind" ELSE "body"
    /\ UNCHANGED <<hook, held, suiteHeld, method, failFast, failedFirst, watchState,
                   methodFails, acquired, released>>

Body ==
    /\ mpos = "body" /\ mpos' = "unwind"
    /\ methodFails' \in {methodFails, TRUE}
    /\ UNCHANGED <<hook, held, suiteHeld, method, failFast, failedFirst, watchState,
                   acquired, released>>

\* The deferred AfterEach hooks: the suite's first, then the fixtures' from
\* the last; an error is reported and the next one runs.
Unwind ==
    /\ mpos = "unwind"
    /\ suiteHeld \/ held # <<>>
    /\ released' = Append(released, IF suiteHeld THEN 0 ELSE held[Len(held)])
    /\ suiteHeld' = FALSE
    /\ held' = IF suiteHeld THEN held ELSE SubSeq(held, 1, Len(held) - 1)
    /\ methodFails' \in {methodFails, TRUE}
    /\ UNCHANGED <<mpos, hook, method, failFast, failedFirst, watchState, acquired>>

\* end, deferred first and so run last: watchOff tells the watch to end ...
TellWatch ==
    /\ mpos = "unwind" /\ ~suiteHeld /\ held = <<>>
    /\ done' = TRUE /\ mpos' = "told"
    /\ UNCHANGED <<hook, held, suiteHeld, method, failFast, failedFirst, watching, expired,
                   methodCtx, afterCtx, runStopped, reports, methodFails, acquired, released>>

\* ... waits until it has, and ends the contexts the watch left alone.
WatchOff ==
    /\ mpos = "told" /\ watching = "stopped"
    /\ watching' = "off" /\ mpos' = "cleanup"
    /\ IF expired THEN EndContexts ELSE UNCHANGED <<methodCtx, afterCtx>>
    /\ UNCHANGED <<hook, held, suiteHeld, method, failFast, failedFirst, done, expired,
                   runStopped, reports, methodFails, acquired, released>>

\* The test's cleanup stops the timer and cancels the context; the method's
\* verdict is known.
MethodEnds ==
    /\ mpos = "cleanup" /\ mpos' = "next"
    /\ methodCtx' = Ended(methodCtx, "canceled")
    /\ failedFirst' = (failedFirst \/ methodFails) /\ method' = method + 1
    /\ UNCHANGED <<hook, held, suiteHeld, failFast, watching, done, expired, afterCtx,
                   runStopped, reports, methodFails, acquired, released>>

------------------------------------------------------------------------------
\* The context ends at the deadline whether the watch has judged or not.
DeadlinePassed_AtOnce ==
    /\ mpos \notin {"next", "over"} /\ ~expired
    /\ expired' = TRUE
    /\ EndContexts
    /\ UNCHANGED <<mpos, hook, held, suiteHeld, method, failFast, failedFirst, watching, done,
                   runStopped, reports, methodFails, acquired, released>>

\* deadlinePassed, on the timer: the watch, while there is one, ends the
\* contexts.
DeadlinePassed ==
    /\ mpos \notin {"next", "over"} /\ ~expired
    /\ expired' = TRUE
    /\ IF watching = "off" THEN EndContexts ELSE UNCHANGED <<methodCtx, afterCtx>>
    /\ UNCHANGED <<mpos, hook, held, suiteHeld, method, failFast, failedFirst, watching, done,
                   runStopped, reports, methodFails, acquired, released>>

\* watchDeadline: a select over done and due picks at random when both are
\* ready; past due it looks at done again, then writes the verdict, and only
\* then the contexts end.
WatchDeadline ==
    /\ \/ watching = "waiting" /\ done /\ watching' = "stopped"
       \/ watching = "waiting" /\ expired /\ watching' = "seen"
       \/ watching = "seen" /\ watching' = IF done THEN "stopped" ELSE "judging"
    /\ UNCHANGED <<mpos, hook, held, suiteHeld, method, failFast, failedFirst, done, expired,
                   methodCtx, afterCtx, runStopped, reports, methodFails, acquired, released>>

ReportOverrun ==
    /\ watching = "judging" /\ watching' = "reported"
    /\ reports' = reports + 1 /\ methodFails' = TRUE
    /\ UNCHANGED <<mpos, hook, held, suiteHeld, method, failFast, failedFirst, done, expired,
                   methodCtx, afterCtx, runStopped, acquired, released>>

WatchEnds ==
    /\ watching = "reported" /\ watching' = "stopped"
    /\ EndContexts
    /\ UNCHANGED <<mpos, hook, held, suiteHeld, method, failFast, failedFirst, done, expired,
                   runStopped, reports, methodFails, acquired, released>>

\* The run is asked to stop; the AfterFunc of the stop context follows.
StopRun ==
    /\ mpos # "over" /\ ~runStopped /\ runStopped' = TRUE
    /\ UNCHANGED <<mpos, hook, held, suiteHeld, method, failFast, failedFirst, watching, done,
                   expired, methodCtx, afterCtx, reports, methodFails, acquired, released>>

StopReaches ==
    /\ runStopped /\ mpos \notin {"next", "over"} /\ methodCtx = "live"
    /\ methodCtx' = "canceled"
    /\ UNCHANGED <<mpos, hook, held, suiteHeld, method, failFast, failedFirst, watching, done,
                   expired, afterCtx, runStopped, reports, methodFails, acquired, released>>

MethodNext ==
    \/ SkipMethod \/ OpenMethod \/ AllRun \/ Turn \/ Before \/ SuiteBefore \/ LookAtBody
    \/ Body \/ Unwind \/ TellWatch \/ WatchOff \/ MethodEnds \/ DeadlinePassed
    \/ WatchDeadline \/ ReportOverrun \/ WatchEnds \/ StopRun \/ StopReaches
    \/ (mpos = "over" /\ UNCHANGED methodVars)

MethodSpec == MethodInit /\ [][MethodNext]_methodVars

------------------------------------------------------------------------------
\* A method's overrun is judged at most once, only while its test is open (the
\* testing package panics on a report after the end), and before the context
\* it waits on ends at the deadline; an AfterEach is never cut off by a stop.
OverrunJudgedFirst ==
    /\ reports <= 1
    /\ reports = 1 => methodFails
    /\ mpos \in {"cleanup", "next"} => watching = "off"
    /\ mpos \notin {"told", "cleanup", "next", "over"} /\ methodCtx = "deadline" => reports = 1
    /\ mpos \in {"before", "suite", "body", "unwind"} => afterCtx # "canceled"
    /\ mpos = "cleanup" /\ expired => afterCtx = "deadline" /\ methodCtx # "live"

\* A method releases, innermost first, exactly what its BeforeEach hooks
\* acquired, whatever overran, failed or was stopped.
HooksPaired ==
    mpos = "cleanup" =>
        /\ {released[i] : i \in DOMAIN released} = acquired
        /\ \A i, j \in DOMAIN released :
              i < j => released[i] = 0 \/ released[i] > released[j]
------------------------------------------------------------------------------
(* Goroutines of gotest.Go *)

Suite == "suite"
Plain == "plain"

VARIABLES
    suiteAt,   \* "setup", "teardown", "take", "drain", "over"
    goerAt,     \* each goroutine: "no", "runs", "ended"
    starter,   \* who started it
    blocked,   \* who waits itself for the goroutine it started: starter -> goroutine
    waits,     \* Set.waits
    closed,    \* Set.closed
    toRun      \* the waits the drain took and has not run yet

waitVars == <<suiteAt, goerAt, starter, blocked, waits, closed, toRun>>

Waiters == Goers \cup {Suite, Plain}

WaitTypeOK ==
    /\ suiteAt \in {"setup", "teardown", "take", "drain", "over"}
    /\ goerAt \in [Goers -> {"no", "runs", "ended"}]
    /\ starter \in [Goers -> Waiters]
    /\ blocked \in [Waiters -> SUBSET Goers]
    /\ waits \in Seq(Goers) /\ toRun \in Seq(Goers) /\ closed \in BOOLEAN

WaitsIn(where) ==
    /\ suiteAt = where /\ closed = (where = "over") /\ waits = <<>> /\ toRun = <<>>
    /\ goerAt = [g \in Goers |-> "no"]
    /\ starter = [g \in Goers |-> Suite]
    /\ blocked = [w \in Waiters |-> {}]

WaitInit == WaitsIn("setup")

\* Who can call gotest.Go now: the suite from its hooks, a goroutine of the
\* suite's, or a plain one for as long as the process lives.
MayStart(w) ==
    /\ blocked[w] = {}
    /\ \/ w = Suite /\ suiteAt \in {"setup", "teardown"}
       \/ w = Plain
       \/ w \in Goers /\ goerAt[w] = "runs"

\* Go: the wait is registered, or, the set drained, its caller waits itself.
Go(w, g) ==
    /\ MayStart(w) /\ goerAt[g] = "no"
    /\ goerAt' = [goerAt EXCEPT ![g] = "runs"]
    /\ starter' = [starter EXCEPT ![g] = w]
    /\ IF closed
       THEN blocked' = [blocked EXCEPT ![w] = {g}] /\ UNCHANGED waits
       ELSE waits' = Append(waits, g) /\ UNCHANGED blocked
    /\ UNCHANGED <<suiteAt, closed, toRun>>

\* fn returns; a caller that waits itself goes on.
GoEnds(g) ==
    /\ goerAt[g] = "runs" /\ blocked[g] = {}
    /\ goerAt' = [goerAt EXCEPT ![g] = "ended"]
    /\ blocked' = [w \in Waiters |-> blocked[w] \ {g}]
    /\ UNCHANGED <<suiteAt, starter, waits, closed, toRun>>

\* BeforeAll and the methods are over; then AfterAll, and the drain.
HookReturns ==
    /\ \/ suiteAt = "setup" /\ suiteAt' = "teardown"
       \/ suiteAt = "teardown" /\ suiteAt' = "take"
    /\ UNCHANGED <<goerAt, starter, blocked, waits, closed, toRun>>

\* Without the refusal: the set never closes.
Take_NeverCloses ==
    /\ suiteAt = "take"
    /\ toRun' = waits /\ waits' = <<>> /\ UNCHANGED closed
    /\ suiteAt' = IF waits = <<>> THEN "over" ELSE "drain"
    /\ UNCHANGED <<goerAt, starter, blocked>>

\* Take hands over what is registered; with nothing it closes the set and the
\* drain is over.
Take ==
    /\ suiteAt = "take"
    /\ toRun' = waits /\ waits' = <<>> /\ closed' = (waits = <<>>)
    /\ suiteAt' = IF waits = <<>> THEN "over" ELSE "drain"
    /\ UNCHANGED <<goerAt, starter, blocked>>

\* drain: the waits of a batch, last first; past the first one the set is
\* asked again.
DrainWaits ==
    /\ suiteAt = "drain"
    /\ IF toRun = <<>>
       THEN suiteAt' = "take" /\ UNCHANGED toRun
       ELSE /\ goerAt[toRun[Len(toRun)]] = "ended"
            /\ toRun' = SubSeq(toRun, 1, Len(toRun) - 1) /\ UNCHANGED suiteAt
    /\ UNCHANGED <<goerAt, starter, blocked, waits, closed>>

WaitNext ==
    \/ \E w \in Waiters, g \in Goers : Go(w, g)
    \/ \E g \in Goers : GoEnds(g)
    \/ HookReturns \/ Take \/ DrainWaits
    \/ (suiteAt = "over" /\ \A g \in Goers : goerAt[g] # "runs") /\ UNCHANGED waitVars

WaitSpec == WaitInit /\ [][WaitNext]_waitVars

\* Once the drain is over every goroutine started with gotest.Go is waited for:
\* it has ended, or whoever started it is still waiting for it.  A goroutine
\* started by one the drain is waiting for is in a later batch.
NoneLeftUnawaited ==
    suiteAt = "over" =>
        \A g \in Goers : goerAt[g] = "runs" => \E w \in Waiters : g \in blocked[w]

\* A method's overrun is judged once, by the watch, before the context ends;
\* a method releases exactly what its BeforeEach hooks acquired; and no
\* goroutine started with gotest.Go outlives the suite unawaited
\* (methodbudget.go:122, methods.go:92, setupwaits.go:71).
MethodsAreBounded == OverrunJudgedFirst /\ HooksPaired /\ NoneLeftUnawaited
=============================================================================
