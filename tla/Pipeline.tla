------------------------------ MODULE Pipeline ------------------------------
(***************************************************************************)
(* A run of test suites from the compiled packages to the exit code        *)
(* (internal/gotestrunner: runStreaming and runBench of pipeline.go,       *)
(* groups.go, output_collector.go, the census of census.go).               *)
(*                                                                         *)
(* Suites are numbered in the order sortDeferred dispatches them, packages *)
(* in the flush order.  A goroutine per streamed suite waits for its       *)
(* fixture and for a slot of the semaphore; every other suite is deferred  *)
(* past the stream and runs scope by scope: a group's bulk, then its       *)
(* exclusive suites one at a time.  Every outcome goes through the         *)
(* collector, whose lock makes each record one step.  The shared fixtures  *)
(* are one fixture here; SharedRun models them in full.                    *)
(***************************************************************************)
EXTENDS Naturals, Sequences, FiniteSets

CONSTANTS
    NSuites, NPackages,
    PackageOf,    \* PackageOf[s]: the package of suite s
    GroupOf,      \* GroupOf[s]: 0 for the default group
    Exclusive,    \* the suites that run alone
    Selections,   \* the sets of suites -run, -skip and --group may leave
    NeedSets,     \* the sets of suites that may read the shared fixture
    MaxParallel   \* the slots of the semaphore

RunSuites == 1..NSuites
Packages == 1..NPackages

ASSUME PipelineAssumption ==
    /\ NSuites \in Nat /\ NPackages \in Nat /\ MaxParallel \in Nat \ {0}
    /\ PackageOf \in [RunSuites -> Packages] /\ GroupOf \in [RunSuites -> Nat]
    /\ Exclusive \subseteq RunSuites
    /\ Selections \subseteq SUBSET RunSuites /\ NeedSets \subseteq SUBSET RunSuites

VARIABLES
    bench,       \* a bench run
    text,        \* RunBatchText; else the verdicts are JSON events
    planned,     \* the suites the selection leaves
    needs,       \* those among them that read the shared fixture
    broken,      \* packages that did not load
    context,     \* the run's context: "live", "canceled" or "deadline"
    fixtureUp,   \* "none", "starting", "up", "failed" or "stopped"
    compiled,    \* compiled[p]: what came out of the compile channel
    at,          \* at[s]: where suite s is
    outcome,     \* outcome[s]: what was recorded of it
    cutShort,    \* suites whose process the context ended
    stage,       \* where runStreaming is
    scopeAt,     \* the scope being run after the stream
    expected, completed, fixed,  \* pkgState
    flushed,     \* how many packages text output has gone past
    reported,    \* the packages whose verdict was written, in order
    worst,       \* the worst exit code recorded
    dispatchErr, \* what the context said when the last verdict came in
    runExit      \* PipelineResult.ExitCode; 99 until the run returns

pipelineVars == <<bench, text, planned, needs, broken, context, fixtureUp,
                  compiled, at, outcome, cutShort, stage, scopeAt, expected,
                  completed, fixed, flushed, reported, worst, dispatchErr, runExit>>
inputs == <<bench, text, planned, needs, broken>>
collector == <<expected, completed, fixed, flushed, reported, worst, outcome>>

SuitesIn(p) == {s \in RunSuites : PackageOf[s] = p}

PipelineTypeOK ==
    /\ at \in [RunSuites -> {"out", "waiting", "queued", "deferred", "running", "over"}]
    /\ outcome \in [RunSuites -> {"none", "pass", "silent", "fail", "unstarted", "stopped", "given up"}]
    /\ stage \in {"stream", "drain", "scopes", "prepare", "bench", "teardown", "returned"}
    /\ compiled \in [Packages -> {"pending", "built", "failed"}]
    /\ flushed \in 0..NPackages /\ worst \in 0..2 /\ runExit \in {0, 1, 2, 99, 130}

-----------------------------------------------------------------------------
(* The collector *)

Ready(p, exp, com, fix) == fix[p] \/ (exp[p] > 0 /\ com[p] >= exp[p])

\* flushReadyText goes on over every package that is ready, from the head.
FlushedFrom(f, exp, com, fix) ==
    CHOOSE k \in f..NPackages :
        /\ \A p \in (f + 1)..k : Ready(p, exp, com, fix)
        /\ k = NPackages \/ ~Ready(k + 1, exp, com, fix)

\* Mutant: every ready package is written at once.
Write_NoOrder(exp, com, fix, p) ==
    /\ UNCHANGED flushed
    /\ reported' = IF Ready(p, exp, com, fix) THEN Append(reported, p) ELSE reported

\* A text run writes a package once all before it are, the JSON stream as soon
\* as p's own suites are in.
Write(exp, com, fix, p) ==
    IF text
      THEN LET k == FlushedFrom(flushed, exp, com, fix) IN
           /\ flushed' = k
           /\ reported' = reported \o [i \in 1..(k - flushed) |-> flushed + i]
      ELSE /\ UNCHANGED flushed
           /\ reported' = IF Ready(p, exp, com, fix) THEN Append(reported, p) ELSE reported

CodeOf(o) == CASE o \in {"pass", "silent"} -> 0 [] o = "unstarted" -> 2 [] OTHER -> 1

\* recordResultLocked: a status the binary did not choose counts as 1.
RecordResult(s, o) ==
    LET p == PackageOf[s]
        com == [completed EXCEPT ![p] = @ + 1] IN
    /\ outcome' = [outcome EXCEPT ![s] = o]
    /\ worst' = IF CodeOf(o) > worst THEN CodeOf(o) ELSE worst
    /\ completed' = com /\ UNCHANGED <<expected, fixed>>
    /\ Write(expected, com, fixed, p)

\* A suite whose fixture never came up fails; one the stop kept from starting
\* has no verdict of its own, and does not pass either.
RecordGivenUp(s) == RecordResult(s, "given up")
RecordStopped(s) == RecordResult(s, "stopped")

\* RecordNothingToRun and RecordNoSuite: a verdict that needs no run.
RecordFixed(p) ==
    LET fix == [fixed EXCEPT ![p] = TRUE] IN
    /\ fixed' = fix /\ UNCHANGED <<expected, completed, worst, outcome>>
    /\ Write(expected, completed, fix, p)

\* RecordBuildFailure: one suite that failed with code 2.
RecordBuildFailure(p) ==
    LET exp == [expected EXCEPT ![p] = 1]
        com == [completed EXCEPT ![p] = 1] IN
    /\ expected' = exp /\ completed' = com /\ worst' = 2
    /\ UNCHANGED <<fixed, outcome>>
    /\ Write(exp, com, fixed, p)

Register(p, n) ==
    /\ expected' = [expected EXCEPT ![p] = n]
    /\ UNCHANGED <<completed, fixed, flushed, reported, worst, outcome>>

-----------------------------------------------------------------------------
(* The plan *)

\* planSuiteScopes: the default group first, then the named ones.
Groups == {GroupOf[s] : s \in planned}
Streamed == IF Groups = {} THEN 0 ELSE CHOOSE g \in Groups : \A h \in Groups : g <= h
BulkOf(g) == {s \in planned : GroupOf[s] = g /\ s \notin Exclusive}
TailOf(g) == {s \in planned : GroupOf[s] = g /\ s \in Exclusive}

\* The fixtures the streamed bulk needs come up front; a bench run's too.
UpFront == IF bench THEN needs # {} ELSE needs \cap BulkOf(Streamed) # {}

PackagesWithSuites == {PackageOf[s] : s \in RunSuites}

Ascending(ps) ==
    CHOOSE q \in [1..Cardinality(ps) -> ps] : \A i, j \in DOMAIN q : i < j => q[i] < q[j]

\* Broken packages, and those without suites, have their verdict before
\* anything runs; a bench run books them with what did not build.
PipelineIn(where, err) ==
    /\ bench \in BOOLEAN /\ text \in BOOLEAN
    /\ planned \in Selections /\ needs \in {n \cap planned : n \in NeedSets}
    /\ broken \in SUBSET (Packages \ PackagesWithSuites)
    /\ context = "live" /\ fixtureUp = IF UpFront THEN "starting" ELSE "none"
    /\ compiled = [p \in Packages |-> "pending"]
    /\ at = [s \in RunSuites |-> "out"] /\ outcome = [s \in RunSuites |-> "none"]
    /\ cutShort = {} /\ scopeAt = 0
    /\ stage = where
    /\ expected = [p \in Packages |-> IF p \in broken /\ ~bench THEN 1 ELSE 0]
    /\ completed = expected
    /\ fixed = [p \in Packages |-> ~bench /\ p \notin broken \cup PackagesWithSuites]
    /\ worst = IF broken = {} \/ bench THEN 0 ELSE 2
    /\ flushed = IF bench \/ ~text THEN 0 ELSE FlushedFrom(0, expected, completed, fixed)
    /\ reported = Ascending(IF text THEN 1..flushed
                            ELSE {p \in Packages : Ready(p, expected, completed, fixed)})
    /\ dispatchErr = err /\ runExit = 99

PipelineInit ==
    \/ PipelineIn("prepare", "none") /\ bench
    \/ PipelineIn("stream", "none") /\ ~bench

-----------------------------------------------------------------------------
(* The stream *)

\* Ctrl-C, or the run's deadline.
ContextEnds(how) ==
    /\ context = "live" /\ stage # "returned" /\ context' = how
    /\ UNCHANGED <<inputs, fixtureUp, compiled, at, cutShort, stage, scopeAt,
                   collector, dispatchErr, runExit>>

\* WaitSetup returns: up, failed or timed out, or the context ended it.
FixtureSettles(how) ==
    /\ fixtureUp = "starting" /\ stage # "returned" /\ fixtureUp' = how
    /\ how = "stopped" => context # "live"
    /\ UNCHANGED <<inputs, context, compiled, at, cutShort, stage, scopeAt,
                   collector, dispatchErr, runExit>>

\* Mutant: the exclusive suites of the default group are streamed with it.
Defers_Groups(s) == GroupOf[s] # Streamed

Defers(s) == s \in Exclusive \/ GroupOf[s] # Streamed

\* One outcome of the compile channel.  Once the context is done the loop may
\* still take one, whose failure is noise.
TakeCompiled(p) ==
    /\ stage = "stream" /\ p \in PackagesWithSuites /\ compiled[p] = "pending"
    /\ \/ /\ compiled' = [compiled EXCEPT ![p] = "failed"]
          /\ UNCHANGED at
          /\ IF context = "live" THEN RecordBuildFailure(p) ELSE UNCHANGED collector
       \/ /\ compiled' = [compiled EXCEPT ![p] = "built"]
          /\ LET targets == planned \cap SuitesIn(p) IN
             IF targets = {} THEN RecordFixed(p) /\ UNCHANGED at
             ELSE /\ Register(p, Cardinality(targets))
                  /\ at' = [s \in RunSuites |->
                              IF s \notin targets THEN at[s]
                              ELSE IF Defers(s) THEN "deferred" ELSE "waiting"]
    /\ UNCHANGED <<inputs, context, fixtureUp, cutShort, stage, scopeAt,
                   dispatchErr, runExit>>

\* The channel is closed, or the context done.
StreamOver ==
    /\ stage = "stream"
    /\ context # "live" \/ \A p \in PackagesWithSuites : compiled[p] # "pending"
    /\ stage' = "drain"
    /\ UNCHANGED <<inputs, context, fixtureUp, compiled, at, cutShort, scopeAt,
                   collector, dispatchErr, runExit>>

\* The suite's goroutine: its fixture came up, and the state file is written.
FixtureThere(s) ==
    /\ at[s] = "waiting" /\ (s \in needs => fixtureUp = "up")
    /\ at' = [at EXCEPT ![s] = "queued"]
    /\ UNCHANGED <<inputs, context, fixtureUp, compiled, cutShort, stage,
                   scopeAt, collector, dispatchErr, runExit>>

\* It is given up, stopped, or its state file cannot be written; the deferred
\* function records it.
NeverRuns(s) ==
    /\ \/ /\ at[s] = "waiting" /\ s \in needs /\ fixtureUp = "failed"
          /\ RecordGivenUp(s)
       \/ /\ at[s] = "waiting" /\ s \in needs /\ fixtureUp = "up"
          /\ IF context = "live" THEN RecordResult(s, "fail") ELSE RecordStopped(s)
       \/ /\ at[s] = "waiting" /\ s \in needs /\ context # "live"
          /\ RecordStopped(s)
       \/ at[s] = "queued" /\ context # "live" /\ RecordStopped(s)
    /\ at' = [at EXCEPT ![s] = "over"]
    /\ UNCHANGED <<inputs, context, fixtureUp, compiled, cutShort, stage,
                   scopeAt, dispatchErr, runExit>>

Running == {s \in RunSuites : at[s] = "running"}

\* A slot of the semaphore; a select takes it even when the context is done.
\* runDeferred looks at the context and at the fixtures once more.
SuiteStarts(s) ==
    /\ at[s] = "queued" /\ Cardinality(Running) < MaxParallel
    /\ stage = "scopes" => context = "live" /\ (s \in needs => fixtureUp = "up")
    /\ at' = [at EXCEPT ![s] = "running"]
    /\ UNCHANGED <<inputs, context, fixtureUp, compiled, cutShort, stage,
                   scopeAt, collector, dispatchErr, runExit>>

\* RunSingleSuite: a process that ends by itself or by the context, one that
\* reports nothing for its tests, or none at all.
SuiteEnds(s) ==
    /\ at[s] = "running" /\ at' = [at EXCEPT ![s] = "over"]
    /\ \/ \E o \in {"pass", "fail", "silent"} :
             /\ RecordResult(s, o)
             /\ cutShort' \in IF context = "live" THEN {cutShort}
                                ELSE {cutShort, cutShort \cup {s}}
       \/ RecordResult(s, "unstarted") /\ UNCHANGED cutShort
    /\ UNCHANGED <<inputs, context, fixtureUp, compiled, stage, scopeAt,
                   dispatchErr, runExit>>

-----------------------------------------------------------------------------
(* Past the stream *)

Left == {s \in RunSuites : at[s] \in {"waiting", "queued", "running", "deferred"}}

\* allIn, when the last verdict is in; only the first call counts.
AllIn(left) ==
    dispatchErr' = IF left = {} /\ dispatchErr = "none"
                     THEN (IF context = "live" THEN "none" ELSE context)
                     ELSE dispatchErr

\* wg.Wait and fixtureWg.Wait.
Drain ==
    /\ stage = "drain" /\ fixtureUp # "starting"
    /\ \A s \in RunSuites : at[s] \in {"out", "deferred", "over"}
    /\ stage' = "scopes" /\ scopeAt' = Streamed
    /\ UNCHANGED <<inputs, context, fixtureUp, compiled, at, cutShort,
                   collector, dispatchErr, runExit>>

BulkOver(g) == \A s \in BulkOf(g) : at[s] \in {"out", "over"}
TailOver(g) == \A s \in TailOf(g) : at[s] \in {"out", "over"}
Later == {g \in Groups : g > scopeAt}

NextScope ==
    /\ stage = "scopes" /\ BulkOver(scopeAt) /\ TailOver(scopeAt) /\ Later # {}
    /\ scopeAt' = CHOOSE g \in Later : \A h \in Later : g <= h
    /\ UNCHANGED <<inputs, context, fixtureUp, compiled, at, cutShort, stage,
                   collector, dispatchErr, runExit>>

\* startFor: what these suites need and nobody started comes up now, or fails.
StartFor(ss) ==
    IF ss \cap needs # {} /\ fixtureUp = "none" /\ context = "live"
      THEN fixtureUp' \in {"up", "failed"}
      ELSE UNCHANGED fixtureUp

\* A later group's bulk: the fixtures, then all of its goroutines.
BulkStarts ==
    /\ stage = "scopes" /\ scopeAt # Streamed
    /\ LET bulk == {s \in BulkOf(scopeAt) : at[s] = "deferred"} IN
       /\ bulk # {} /\ StartFor(bulk)
       /\ at' = [s \in RunSuites |-> IF s \in bulk THEN "queued" ELSE at[s]]
    /\ UNCHANGED <<inputs, context, compiled, cutShort, stage, scopeAt,
                   collector, dispatchErr, runExit>>

\* runDeferred gives a queued suite of a later group up, with its slot held,
\* or cannot write its state file.
DeferredGivenUp(s) ==
    /\ stage = "scopes" /\ at[s] = "queued" /\ s \in needs /\ context = "live"
    /\ Cardinality(Running) < MaxParallel
    /\ IF fixtureUp = "up" THEN RecordResult(s, "fail") ELSE RecordGivenUp(s)
    /\ at' = [at EXCEPT ![s] = "over"]
    /\ UNCHANGED <<inputs, context, fixtureUp, compiled, cutShort, stage,
                   scopeAt, dispatchErr, runExit>>

TailMayStart(s) ==
    /\ BulkOver(scopeAt) /\ at[s] = "deferred" /\ s \in TailOf(scopeAt)
    /\ \A r \in TailOf(scopeAt) : r < s => at[r] \in {"out", "over"}

\* An exclusive suite in its slot: fixtures, then the suite, or its reason.
TailStarts(s) ==
    /\ stage = "scopes" /\ TailMayStart(s)
    /\ StartFor({s})
    /\ \/ /\ context = "live" /\ (s \in needs => fixtureUp' = "up")
          /\ at' = [at EXCEPT ![s] = "running"] /\ UNCHANGED collector
       \/ /\ context # "live" /\ RecordStopped(s)
          /\ at' = [at EXCEPT ![s] = "over"]
       \/ /\ context = "live" /\ s \in needs /\ fixtureUp' # "up"
          /\ RecordGivenUp(s)
          /\ at' = [at EXCEPT ![s] = "over"]
       \/ /\ context = "live" /\ s \in needs /\ fixtureUp' = "up"
          /\ RecordResult(s, "fail")
          /\ at' = [at EXCEPT ![s] = "over"]
    /\ UNCHANGED <<inputs, context, compiled, cutShort, stage, scopeAt,
                   dispatchErr, runExit>>

\* The verdicts are in: what the context says is read once.
VerdictsIn ==
    /\ stage = "scopes" /\ Later = {} /\ Left = {}
    /\ stage' = "teardown" /\ AllIn(Left)
    /\ UNCHANGED <<inputs, context, fixtureUp, compiled, at, cutShort, scopeAt,
                   collector, runExit>>

-----------------------------------------------------------------------------
(* A bench run *)

\* prepareBenchRun: all is compiled before anything is dispatched.
BenchCompiled(p) ==
    /\ stage = "prepare" /\ p \in PackagesWithSuites /\ compiled[p] = "pending"
    /\ context = "live"
    /\ \E how \in {"built", "failed"} : compiled' = [compiled EXCEPT ![p] = how]
    /\ UNCHANGED <<inputs, context, fixtureUp, at, cutShort, stage, scopeAt,
                   collector, dispatchErr, runExit>>

\* Every verdict that needs no run is booked, and the targets registered.
BenchBooks ==
    /\ stage = "prepare" /\ context = "live" /\ fixtureUp # "starting"
    /\ \A p \in PackagesWithSuites : compiled[p] # "pending"
    /\ stage' = "bench"
    /\ LET unbuilt == broken \cup {p \in Packages : compiled[p] = "failed"}
           targets == {s \in planned : PackageOf[s] \notin unbuilt}
           exp == [p \in Packages |-> IF p \in unbuilt THEN 1
                                      ELSE Cardinality(targets \cap SuitesIn(p))]
           com == [p \in Packages |-> IF p \in unbuilt THEN 1 ELSE 0]
           fix == [p \in Packages |-> exp[p] = 0]
           k == FlushedFrom(0, exp, com, fix) IN
       /\ expected' = exp /\ completed' = com /\ fixed' = fix
       /\ worst' = IF unbuilt = {} THEN 0 ELSE 2
       /\ at' = [s \in RunSuites |-> IF s \in targets THEN "deferred" ELSE "out"]
       /\ flushed' = IF text THEN k ELSE 0
       /\ reported' = Ascending(IF text THEN 1..k
                                ELSE {p \in Packages : Ready(p, exp, com, fix)})
    /\ UNCHANGED <<inputs, context, fixtureUp, compiled, outcome, cutShort,
                   scopeAt, dispatchErr, runExit>>

\* RunBenchSuites: the next target, alone.
BenchSlot(s) ==
    /\ stage = "bench" /\ context = "live" /\ Running = {}
    /\ at[s] = "deferred" /\ \A r \in RunSuites : at[r] = "deferred" => s <= r
    /\ IF s \in needs /\ fixtureUp # "up"
         THEN RecordGivenUp(s) /\ at' = [at EXCEPT ![s] = "over"]
         ELSE at' = [at EXCEPT ![s] = "running"] /\ UNCHANGED collector
    /\ UNCHANGED <<inputs, context, fixtureUp, compiled, cutShort, stage,
                   scopeAt, dispatchErr, runExit>>

\* All have run, or the context is done, maybe before the first slot: the rest
\* has no verdict.
BenchOver ==
    /\ stage \in {"prepare", "bench"} /\ Running = {} /\ fixtureUp # "starting"
    /\ \/ context # "live"
       \/ stage = "bench" /\ \A s \in RunSuites : at[s] # "deferred"
    /\ stage' = "teardown" /\ dispatchErr' = IF context = "live" THEN "none" ELSE context
    /\ UNCHANGED <<inputs, context, fixtureUp, compiled, at, cutShort, scopeAt,
                   collector, runExit>>

-----------------------------------------------------------------------------
(* The verdict *)

Failing(code, yes) == IF yes /\ code = 0 THEN 1 ELSE code

\* exitCodeAfterDispatch
AfterDispatch(code) == IF dispatchErr = "canceled" THEN 130 ELSE code

\* Mutant: no census is taken.
TakeCensus_Not(code) == code

\* takeCensus: a green JSON run without a selection must have a verdict of
\* every declared unit.
TakeCensus(code) ==
    IF ~text /\ code = 0 /\ dispatchErr = "none" /\ planned = RunSuites
       /\ \E s \in RunSuites : outcome[s] = "silent"
      THEN 2 ELSE code

NothingRan ==
    /\ \A p \in Packages : ~fixed[p] /\ expected[p] = 0

\* Finalize drains what waits behind a package that never reported.
FinalOrder ==
    Ascending({p \in (flushed + 1)..NPackages : Ready(p, expected, completed, fixed)})

\* The releases are over, the process torn down; the exit code is made up.
Returns(tornDown) ==
    /\ stage = "teardown" /\ stage' = "returned"
    /\ LET setup == fixtureUp = "failed"
           judged == IF NothingRan THEN AfterDispatch(0)
                     ELSE TakeCensus(Failing(AfterDispatch(worst), setup)) IN
       runExit' = Failing(judged, dispatchErr = "deadline" \/ setup \/ ~tornDown)
    /\ IF text /\ ~NothingRan
         THEN flushed' = NPackages /\ reported' = reported \o FinalOrder
         ELSE UNCHANGED <<flushed, reported>>
    /\ UNCHANGED <<inputs, context, fixtureUp, compiled, at, outcome, cutShort,
                   scopeAt, expected, completed, fixed, worst, dispatchErr>>

PipelineNext ==
    \/ \E how \in {"canceled", "deadline"} : ContextEnds(how)
    \/ \E how \in {"up", "failed", "stopped"} : FixtureSettles(how)
    \/ \E p \in Packages : TakeCompiled(p) \/ BenchCompiled(p)
    \/ \E s \in RunSuites :
          \/ FixtureThere(s) \/ NeverRuns(s) \/ SuiteStarts(s) \/ SuiteEnds(s)
          \/ DeferredGivenUp(s) \/ TailStarts(s) \/ BenchSlot(s)
    \/ StreamOver \/ Drain \/ NextScope \/ BulkStarts \/ VerdictsIn
    \/ BenchBooks \/ BenchOver \/ \E ok \in BOOLEAN : Returns(ok)
    \/ stage = "returned" /\ UNCHANGED pipelineVars

PipelineSpec == PipelineInit /\ [][PipelineNext]_pipelineVars

-----------------------------------------------------------------------------
(* Properties *)

\* Suites that must not meet never run at the same time: an exclusive suite
\* runs alone, groups do not overlap, a bench run is serial, and the semaphore
\* bounds the rest (runStreaming, pipeline.go:835-1049).
ExclusiveAlone ==
    /\ Cardinality(Running) <= MaxParallel
    /\ \A s, r \in Running : s # r =>
          /\ ~bench /\ s \notin Exclusive /\ GroupOf[s] = GroupOf[r]

\* Every package is reported at most once, in the flush order if the output is
\* text, and a run nothing cut short reports every package
\* (flushReadyText, output_collector.go:454; Finalize, :372).
ReportedOnceInOrder ==
    /\ \A i, j \in DOMAIN reported : i < j =>
          /\ reported[i] # reported[j]
          /\ text => reported[i] < reported[j]
    /\ stage = "returned" /\ dispatchErr = "none" => Len(reported) = NPackages

\* Exit code 0 means that every package built, every suite the selection left
\* ran to its end and passed, nothing was cut short, and a JSON run that made
\* no selection saw every unit's verdict; a run stopped before its last
\* verdict exits 130 or fails (runStreaming, pipeline.go:1097-1111; takeCensus,
\* census.go:377).
GreenIsTrue ==
    stage = "returned" /\ runExit = 0 =>
        /\ broken = {} /\ cutShort = {} /\ dispatchErr = "none"
        /\ \A p \in PackagesWithSuites : compiled[p] = "built"
        /\ \A s \in planned :
              \/ outcome[s] = "pass"
              \/ outcome[s] = "silent" /\ (text \/ planned # RunSuites)
        /\ fixtureUp # "failed"
=============================================================================
