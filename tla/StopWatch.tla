----------------------------- MODULE StopWatch -----------------------------
(***************************************************************************)
(* A test process that is told to stop: the stop watcher                   *)
(* (pkg/gotestruntime/stop.go), the suites it watches over (OpenSuite in   *)
(* harness.go, RunMethods in methods.go), the hold on their fixtures       *)
(* (hold.go) and the fixture graph itself (FixtureDAG).                    *)
(*                                                                         *)
(* Three threads interleave: the testing goroutine, which runs the suites  *)
(* one after the other; the watcher's loop; and its poll for the stop file *)
(* and a dead parent.  Signals, the runner's announcement and the parent's *)
(* death come at any time.  A wait bounded by a clock may end by the clock *)
(* at any moment; user code may never return.                              *)
(***************************************************************************)
EXTENDS FixtureDAG, FiniteSets

CONSTANTS
    Suites,      \* bound: how many suites the process runs
    Binding,     \* the suite that binds fixtures, of 1..Suites, if any
    Methods,     \* the test methods of every suite
    Parallel,    \* SuiteConfig.Parallel
    Runner,      \* under the gotest runner, or under plain go test
    MaxSignals,  \* bound: how many stop signals arrive
    GapStops     \* a stop may fall between startWatch and openSuites.Add

\* Every hold sets up a graph of its own; one hold per behaviour is modelled.
ASSUME SuiteAssumption ==
    /\ Suites \in Nat /\ Binding \subseteq 1..Suites
    /\ Cardinality(Binding) <= 1
    /\ {Parallel, Runner, GapStops} \subseteq BOOLEAN
    /\ MaxSignals \in Nat

VARIABLES
    main,        \* where the testing goroutine is
    suite,       \* the suite it runs
    method,      \* method[m]: how far method m of that suite is
    openSuites,  \* suites opened and not yet torn down
    inFlight,    \* setupInFlight
    held,        \* the graph is in the map of held ones
    watcher,     \* where the watcher's loop is
    seen,        \* how many of its four reads finished() has made
    caught,      \* the stop signals reach the watcher
    closing,     \* the watcher was told to quit
    ch, found, death,  \* what waits in the watcher's channels
    poll,        \* where the poll is
    unasked,     \* the stop under way is one no signal asked for
    settled,     \* a stop was found settled
    said,        \* the watcher said what it could not release
    announced,   \* the runner's stop file exists
    orphan,      \* the parent, or the reader of the stream, is gone
    signals,     \* stop signals that arrived
    forcedBy,    \* what forced the stop
    early,       \* history: a setup was in flight when the stop was forced
    ended        \* how the process ended, "no" while it lives

suiteVars == <<main, suite, method, openSuites, inFlight, held>>
watchVars == <<watcher, seen, caught, closing, ch, found, death, poll, unasked,
               settled, said, forcedBy, early>>
envVars   == <<announced, orphan, signals>>
vars      == <<dagVars, suiteVars, watchVars, envVars, ended>>

MainSteps   == {"start", "watching", "opened", "setup", "holding", "wired",
                "beforeAll", "methods", "afterAll", "cleanup", "close",
                "unwatch", "closing"}
MethodSteps == {"todo", "hooks", "body", "afterEach", "done", "skipped"}
WatchSteps  == {"off", "loop", "settle", "release", "releasing", "raise"}

SuiteTypes ==
    /\ main \in MainSteps /\ suite \in 1..(Suites + 1)
    /\ method \in [Methods -> MethodSteps]
    /\ openSuites \in 0..1 /\ inFlight \in BOOLEAN /\ held \in BOOLEAN
    /\ signals \in 0..MaxSignals
    /\ ended \in {"no", "status", "signal", "forced", "default"}

WatchTypes ==
    /\ watcher \in WatchSteps /\ seen \in 0..3
    /\ poll \in {"off", "polling", "sent"}
    /\ forcedBy \in {"none", "overdue", "budget", "signal"}

FlagTypes ==
    /\ caught \in BOOLEAN /\ closing \in BOOLEAN
    /\ ch \in BOOLEAN /\ found \in BOOLEAN /\ death \in BOOLEAN
    /\ unasked \in BOOLEAN /\ settled \in BOOLEAN
    /\ said \in BOOLEAN /\ early \in BOOLEAN
    /\ announced \in BOOLEAN /\ orphan \in BOOLEAN

StopTypes == SuiteTypes /\ WatchTypes /\ FlagTypes

TypeOK == DagTypeOK /\ StopTypes

Init ==
    /\ DagInit
    /\ main = "start" /\ suite = 1 /\ method = [m \in Methods |-> "todo"]
    /\ openSuites = 0 /\ inFlight = FALSE /\ held = FALSE
    /\ watcher = "off" /\ seen = 0 /\ caught = FALSE /\ closing = FALSE
    /\ ch = FALSE /\ found = FALSE /\ death = FALSE /\ poll = "off"
    /\ unasked = FALSE /\ settled = FALSE /\ said = FALSE
    /\ announced = FALSE /\ orphan = FALSE /\ signals = 0
    /\ forcedBy = "none" /\ early = FALSE /\ ended = "no"

Alive == ended = "no"
MainGoes(from, to) == Alive /\ main = from /\ main' = to

-----------------------------------------------------------------------------
(* The testing goroutine: OpenSuite, RunMethods and the cleanups *)

\* A suite that opens after the stop is skipped; the process of the last ends
\* with the tests' own status.
NextSuite ==
    /\ suite' = suite + 1
    /\ method' = [m \in Methods |-> "todo"]

OpenSuite ==
    /\ main = "start" /\ Alive /\ suite <= Suites
    /\ IF stopping
         THEN NextSuite /\ UNCHANGED <<main, watchVars>>
         ELSE \* startWatch, from none: signals are caught, the loop runs
              /\ main' = "watching" /\ UNCHANGED <<suite, method>>
              /\ watcher' = "loop" /\ caught' = TRUE /\ closing' = FALSE
              /\ ch' = FALSE /\ found' = FALSE /\ death' = FALSE
              /\ poll' = IF Runner THEN "polling" ELSE "off"
              /\ UNCHANGED <<seen, unasked, settled, said, forcedBy, early>>
    /\ UNCHANGED <<dagVars, openSuites, inFlight, held, envVars, ended>>

AllSuitesRan ==
    /\ main = "start" /\ Alive /\ suite > Suites
    /\ ended' = "status"
    /\ UNCHANGED <<dagVars, suiteVars, watchVars, envVars>>

CountSuite ==
    /\ MainGoes("watching", "opened")
    /\ openSuites' = openSuites + 1
    /\ UNCHANGED <<dagVars, suite, method, inFlight, held, watchVars, envVars,
                   ended>>

\* HoldFixtures: a stop already begun refuses the setup, which fails the suite.
HoldFixtures ==
    /\ suite \in Binding
    /\ \/ MainGoes("opened", "setup") /\ BeginSetup /\ inFlight' = TRUE
       \/ MainGoes("opened", "close") /\ RefuseSetup /\ UNCHANGED inFlight
    /\ UNCHANGED <<suite, method, openSuites, held, watchVars, envVars,
                   ended>>

\* hold, while the setup still counts as in flight; then done().
Hold ==
    /\ phase = "up" /\ MainGoes("setup", "holding")
    /\ held' = TRUE
    /\ UNCHANGED <<dagVars, suite, method, openSuites, inFlight, watchVars,
                   envVars, ended>>

SetupDone ==
    /\ \/ MainGoes("holding", "wired")
       \/ phase = "failed" /\ MainGoes("setup", "close")
    /\ inFlight' = FALSE
    /\ UNCHANGED <<dagVars, suite, method, openSuites, held, watchVars,
                   envVars, ended>>

\* The suite's BeforeAll is a body; failing, it leaves only the cleanups.
BeginBeforeAll ==
    /\ MainGoes("wired", "beforeAll")
       \/ (suite \notin Binding /\ MainGoes("opened", "beforeAll"))
    /\ UNCHANGED <<dagVars, suite, method, openSuites, inFlight, held,
                   watchVars, envVars, ended>>

BeforeAllReturns ==
    /\ MainGoes("beforeAll", "methods") \/ MainGoes("beforeAll", "afterAll")
    /\ UNCHANGED <<dagVars, suite, method, openSuites, inFlight, held,
                   watchVars, envVars, ended>>

MethodGoes(m, from, to) ==
    /\ Alive /\ main = "methods" /\ method[m] = from
    /\ method' = [method EXCEPT ![m] = to]
    /\ UNCHANGED <<dagVars, main, suite, openSuites, inFlight, held,
                   watchVars, envVars, ended>>

\* A method not started when the run stops is skipped.
StartMethod(m) ==
    /\ Parallel \/ \A n \in Methods : method[n] \in {"todo", "done", "skipped"}
    /\ MethodGoes(m, "todo", IF stopping THEN "skipped" ELSE "hooks")

\* BeforeEach returns, or fails; the body returns; AfterEach returns.
MethodReturns(m) ==
    \/ MethodGoes(m, "hooks", "body") \/ MethodGoes(m, "hooks", "done")
    \/ MethodGoes(m, "body", "afterEach") \/ MethodGoes(m, "afterEach", "done")

MethodsDone ==
    /\ \A m \in Methods : method[m] \in {"done", "skipped"}
    /\ MainGoes("methods", "afterAll")
    /\ UNCHANGED <<dagVars, suite, method, openSuites, inFlight, held,
                   watchVars, envVars, ended>>

\* Mutant: the hold registers no cleanup.
AfterAllReturns_NoCleanup ==
    /\ MainGoes("afterAll", "close")
    /\ UNCHANGED <<dagVars, suite, method, openSuites, inFlight, held,
                   watchVars, envVars, ended>>

AfterAllReturns ==
    /\ MainGoes("afterAll", IF held THEN "cleanup" ELSE "close")
    /\ UNCHANGED <<dagVars, suite, method, openSuites, inFlight, held,
                   watchVars, envVars, ended>>

\* The hold's cleanup: Teardown, by it or by a forced stop, then unhold.
CleanupTeardown ==
    /\ Alive /\ main = "cleanup" /\ Teardown
    /\ UNCHANGED <<suiteVars, watchVars, envVars, ended>>

Unhold ==
    /\ phase = "torn" /\ MainGoes("cleanup", "close")
    /\ held' = FALSE
    /\ UNCHANGED <<dagVars, suite, method, openSuites, inFlight, watchVars,
                   envVars, ended>>

CloseSuite ==
    /\ MainGoes("close", "unwatch")
    /\ openSuites' = openSuites - 1
    /\ UNCHANGED <<dagVars, suite, method, inFlight, held, watchVars, envVars,
                   ended>>

\* stopWatch: the last one closes the watcher and waits for its goroutines.
StopWatching ==
    /\ MainGoes("unwatch", "closing")
    /\ caught' = FALSE /\ closing' = TRUE
    /\ UNCHANGED <<dagVars, suite, method, openSuites, inFlight, held,
                   watcher, seen, ch, found, death, poll, unasked, settled,
                   said, forcedBy, early, envVars, ended>>

\* Under plain go test a stopped process then ends by the signal.
WatchClosed ==
    /\ Alive /\ main = "closing" /\ watcher = "off" /\ poll # "polling"
    /\ IF ~Runner /\ stopping
         THEN ended' = "signal" /\ UNCHANGED <<main, suite, method>>
         ELSE main' = "start" /\ NextSuite /\ UNCHANGED ended
    /\ UNCHANGED <<dagVars, openSuites, inFlight, held, watchVars, envVars>>

-----------------------------------------------------------------------------
(* The watcher *)

\* Under the runner a signal counts once the stop is announced or nobody is
\* left to announce it.
Counts == ~Runner \/ announced \/ orphan

Gap == main = "watching" /\ ~GapStops

BeginStop(requested) ==
    /\ watcher' = "settle" /\ seen' = 0
    /\ unasked' = ~requested
    /\ stopping' = TRUE

NoStop == UNCHANGED <<watcher, seen, unasked, stopping>>

TakeSignal ==
    /\ Alive /\ watcher = "loop" /\ ch /\ ~Gap
    /\ ch' = FALSE
    /\ IF Counts THEN BeginStop(TRUE) ELSE NoStop
    /\ UNCHANGED <<phase, setupVars, attempted, result, tearVars, released,
                   suiteVars, caught, closing, found, death, poll, settled,
                   said, forcedBy, early, envVars, ended>>

\* Mutant: a stop the poll found counts as requested.
TakeFound_Requested ==
    /\ Alive /\ watcher = "loop" /\ ~Gap /\ found
    /\ found' = FALSE
    /\ IF ~stopping /\ Counts THEN BeginStop(TRUE) ELSE NoStop
    /\ UNCHANGED <<phase, setupVars, attempted, result, tearVars, released,
                   suiteVars, caught, closing, ch, death, poll, settled, said,
                   forcedBy, early, envVars, ended>>

\* A stop the poll found, or the death signal brought: nobody's request.
TakeFound ==
    /\ Alive /\ watcher = "loop" /\ ~Gap
    /\ \/ found /\ found' = FALSE /\ UNCHANGED death
          /\ IF ~stopping /\ Counts THEN BeginStop(FALSE) ELSE NoStop
       \/ death /\ death' = FALSE /\ UNCHANGED found
          /\ IF ~stopping /\ orphan THEN BeginStop(FALSE) ELSE NoStop
    /\ UNCHANGED <<phase, setupVars, attempted, result, tearVars, released,
                   suiteVars, caught, closing, ch, poll, settled, said,
                   forcedBy, early, envVars, ended>>

WatcherQuits ==
    /\ Alive /\ watcher = "loop" /\ closing
    /\ watcher' = "off"
    /\ UNCHANGED <<dagVars, suiteVars, seen, caught, closing, ch, found,
                   death, poll, unasked, settled, said, forcedBy, early,
                   envVars, ended>>

\* runstate.Bodies: method bodies, and a suite's BeforeAll.
Bodies == {m \in Methods : method[m] = "body"}
          \cup (IF main = "beforeAll" THEN {"BeforeAll"} ELSE {})

\* Mutant: only the bodies are looked at.
Look_BodiesOnly == seen > 0 \/ Bodies = {}

\* finished() reads under one lock after the other: the bodies, the setups in
\* flight, the holds, the open suites.
Look == <<Bodies = {}, ~inFlight, ~held, openSuites = 0>>[seen + 1]

ReadFinished ==
    /\ Alive /\ watcher = "settle"
    /\ IF Look /\ seen = 3
         THEN \* settled: the handlers are reset
              /\ settled' = TRUE /\ watcher' = "loop" /\ seen' = 0
              /\ caught' = FALSE
         ELSE /\ seen' = IF Look THEN seen + 1 ELSE 0
              /\ UNCHANGED <<settled, watcher, caught>>
    /\ UNCHANGED <<dagVars, suiteVars, closing, ch, found, death, poll,
                   unasked, said, forcedBy, early, envVars, ended>>

ForceStop(why) ==
    /\ watcher' = "release" /\ caught' = FALSE
    /\ forcedBy' = why /\ early' = inFlight

\* Mutant: nothing bounds a run without an overdue body.
SettleEnds_NoBudget ==
    /\ Alive /\ watcher = "settle" /\ seen = 0
    /\ Bodies # {} /\ ForceStop("overdue")
    /\ UNCHANGED <<dagVars, suiteVars, seen, closing, ch, found, death, poll,
                   unasked, settled, said, envVars, ended>>

\* A body still running at the end of its grace, or a run still going when the
\* release bound is down to the fixtures' own time.
SettleEnds ==
    /\ Alive /\ watcher = "settle" /\ seen = 0
    /\ \/ Bodies # {} /\ ForceStop("overdue")
       \/ ForceStop("budget")
    /\ UNCHANGED <<dagVars, suiteVars, seen, closing, ch, found, death, poll,
                   unasked, settled, said, envVars, ended>>

\* Another signal: the request the poll ran ahead of, or a second one.
SettleSignal ==
    /\ Alive /\ watcher = "settle" /\ seen = 0 /\ ch
    /\ ch' = FALSE
    /\ \/ ~Counts /\ UNCHANGED <<unasked, watcher, caught, forcedBy, early>>
       \/ Counts /\ unasked /\ unasked' = FALSE
          /\ UNCHANGED <<watcher, caught, forcedBy, early>>
       \/ Counts /\ ~unasked /\ ForceStop("signal") /\ UNCHANGED unasked
    /\ UNCHANGED <<dagVars, suiteVars, seen, closing, found, death, poll,
                   settled, said, envVars, ended>>

\* releaseHeld takes the held graphs once, and tears each down or waits for the
\* teardown under way.
TakeHeld ==
    /\ Alive /\ watcher = "release"
    /\ watcher' = IF held THEN "releasing" ELSE "raise"
    /\ UNCHANGED <<dagVars, suiteVars, seen, caught, closing, ch, found,
                   death, poll, unasked, settled, said, forcedBy, early,
                   envVars, ended>>

ForcedTeardown ==
    /\ Alive /\ watcher = "releasing" /\ Teardown
    /\ UNCHANGED <<suiteVars, watchVars, envVars, ended>>

\* The release is over, or its time is.
ReleaseEnds ==
    /\ Alive /\ watcher = "releasing"
    /\ watcher' = "raise"
    /\ said' = (phase # "torn")
    /\ UNCHANGED <<dagVars, suiteVars, seen, caught, closing, ch, found,
                   death, poll, unasked, settled, forcedBy, early, envVars,
                   ended>>

Reraise ==
    /\ Alive /\ watcher = "raise"
    /\ ended' = "forced"
    /\ UNCHANGED <<dagVars, suiteVars, watchVars, envVars>>

\* The poll fires once, or quits with the watcher.
Poll ==
    /\ Alive /\ poll = "polling"
    /\ \/ (announced \/ orphan) /\ poll' = "sent" /\ found' = TRUE
       \/ closing /\ poll' = "off" /\ UNCHANGED found
    /\ UNCHANGED <<dagVars, suiteVars, watcher, seen, caught, closing, ch,
                   death, unasked, settled, said, forcedBy, early, envVars,
                   ended>>

-----------------------------------------------------------------------------
(* Outside the process *)

\* A stop signal nobody catches has its default action.
Signal ==
    /\ Alive /\ signals < MaxSignals
    /\ signals' = signals + 1
    /\ IF caught THEN ch' = TRUE /\ UNCHANGED ended
                 ELSE ended' = "default" /\ UNCHANGED ch
    /\ UNCHANGED <<dagVars, suiteVars, watcher, seen, caught, closing, found,
                   death, poll, unasked, settled, said, forcedBy, early,
                   announced, orphan>>

Announce ==
    /\ Alive /\ Runner /\ ~announced
    /\ announced' = TRUE
    /\ UNCHANGED <<dagVars, suiteVars, watchVars, orphan, signals, ended>>

\* The kernel sends the death signal; between suites that ends the process.
ParentDies ==
    /\ Alive /\ Runner /\ ~orphan
    /\ orphan' = TRUE
    /\ IF watcher # "off" /\ ~closing
         THEN death' = TRUE /\ UNCHANGED ended
         ELSE ended' = "default" /\ UNCHANGED death
    /\ UNCHANGED <<dagVars, suiteVars, watcher, seen, caught, closing, ch,
                   found, poll, unasked, settled, said, forcedBy, early,
                   announced, signals>>

-----------------------------------------------------------------------------
MainCode ==
    \/ OpenSuite \/ AllSuitesRan \/ CountSuite \/ HoldFixtures \/ Hold
    \/ SetupDone \/ BeginBeforeAll \/ MethodsDone \/ CleanupTeardown \/ Unhold
    \/ CloseSuite \/ StopWatching \/ WatchClosed
    \/ \E m \in Methods : StartMethod(m)

NotGraph == UNCHANGED <<suiteVars, watchVars, envVars, ended>>

GraphCode == Alive /\ DagCode /\ NotGraph

WatchCode ==
    \/ TakeSignal \/ TakeFound \/ WatcherQuits \/ ReadFinished
    \/ TakeHeld \/ ForcedTeardown \/ Reraise

Clock == SettleEnds \/ ReleaseEnds

UserCode ==
    \/ BeforeAllReturns \/ AfterAllReturns
    \/ \E m \in Methods : MethodReturns(m)
    \/ Alive /\ UserReturns /\ NotGraph

Outside == Signal \/ Announce \/ ParentDies

Over == ~Alive /\ UNCHANGED vars

Next ==
    \/ MainCode \/ GraphCode \/ WatchCode \/ SettleSignal \/ Clock \/ Poll
    \/ UserCode \/ Outside \/ Over

Spec == Init /\ [][Next]_vars

\* The scheduler runs every goroutine and a clock that started runs out.  User
\* code owes nothing: a body may ignore its context for ever.
Fairness ==
    /\ WF_vars(MainCode) /\ WF_vars(GraphCode) /\ WF_vars(WatchCode)
    /\ WF_vars(Poll) /\ SF_vars(Clock)

FairSpec == Spec /\ Fairness

-----------------------------------------------------------------------------
(* Properties *)

SuiteOpen == main \in {"opened", "setup", "holding", "wired", "beforeAll",
                       "methods", "afterAll", "cleanup"}

\* A stop found settled is over for good: no fixture is being set up, held or
\* released, no suite is open, then or later (finished, stop.go:320).
SettledMeansOver ==
    settled => ~SuiteOpen /\ \A f \in Fixtures : ~Held(f)

\* A process that ends by itself, stopped or not, leaves no fixture behind.
NothingLeftBehind ==
    ended \in {"status", "signal"} => \A f \in Fixtures : ~Held(f)

\* A stop forced once the setup is over releases every fixture before the
\* process ends, or says that it did not.
ForcedReleases ==
    ended = "forced" /\ ~early /\ ~said => \A f \in Fixtures : ~Held(f)

\* One stop signal never forces: the runner's own, after its stop file, is not
\* taken for a second.
OneSignalNeverForces == forcedBy = "signal" => signals >= 2

\* The default action of a signal, or of the death signal, never strikes while
\* a fixture is held, except after a stop was forced.
DefaultKillsNothingHeld ==
    ended = "default" /\ forcedBy = "none" => \A f \in Fixtures : ~Held(f)

\* A stop ends the process, whatever the code under test does: a body or a
\* BeforeAll that ignores its context is cut short (stop.go:238).
StopEnds == stopping ~> ended # "no"
=============================================================================
