# A verification of gotest

gotest discovers test suites, generates the code that runs them, compiles one
binary per package, brings shared fixtures up in a process of their own, and
runs every suite in an OS process of its own. Beside a run it has commands
that fuzz, benchmark, watch, lint, migrate and drill mutants, and an extension
for an editor that drives all of it.

This directory holds TLA+ modules of the parts of it that are concurrent, that
can fail halfway, that must end, or that decide what a green result means. TLC
checks the modules on small instances, and TLAPS proves the results that
matter most for every instance.

## 1. The system

### 1.1 Parts, the state they keep, and what makes them correct

| Part (source) | State | Operations | What must hold |
|---|---|---|---|
| Shared fixture process (`internal/gotestgen/static/sharedfixture.go.tpl`) | per fixture: started, attempted, torn, error, done channels; starts in flight; commands read from stdin | up-front setups, `start` and `teardown` commands, terminal teardown | one setup per fixture; no AfterAll beside a BeforeAll; dependencies outlive dependents; every fixture released once; a shutdown ends |
| Setup and teardown policy (`pkg/gotestruntime/fixturesetup.go`, `fixtureteardown.go`) | attempts, held flag, budget | attempt, retry, release between attempts, overrun, cancel | attempts bounded; whatever a BeforeAll reached is released once |
| Runner side (`internal/gotestrunner/sharedfixture.go`) | commands sent, starts given up, held and overdue keys, deadlines | WaitSetup, StartKeys, TeardownKeys, late acks, Teardown, exit verdict | a command never sent too early; a green verdict is proof of release; every wait is as long as was promised, and ends |
| Ledger, releaser, windows (`fixtureledger.go`, `fixturewindow.go`) | suites left per key, batches pending | Done, release batches, start keys of a slot | no fixture released while a suite needs it |
| Streaming run (`pipeline.go`, `groups.go`) | compile stream, slots, verdicts, stop | dispatch, give up, stop, next slot | exclusive suites alone; every suite ends in one verdict |
| Selection (`namefilter.go`, `groups.go`, `suiterun.go`) | patterns, groups, plan, targets | plan before the compiler, targets after it | what runs is what `go test` would run; the plan covers it |
| Command line (`cmd/gotest/args.go`, `internal/gotestrunner/args.go`, `flags.go`) | the words | split, classify, lift out, write the binary's words | every reader of the words reads them alike |
| Discovery and generation (`internal/gotestast`, `internal/gotestgen`, `overlay.go`) | packages, suites, focus, fixtures of a package | load, refuse, reduce, bind, render | a green run is held to what the source declares; no fixture field is left nil |
| Census and output collector (`census.go`, `output_collector.go`) | verdict index, packages, flush order, results | register, record, flush, finalize, book a deadline | each package told once, in order; green is true; what was cut is named |
| Binary cache (`bincache*.go`, `compile.go`) | key directory, lock file, binary, `.cwd` | lock, link, copy, scan, evict, remove an empty key | links into one output never overlap; nothing in use is evicted; the cache never fails a compile |
| In-process fixture graph (`pkg/gotestruntime/runtime.go`, `hold.go`) | attempted nodes, held graphs | setupDAG, teardownDAG, hold, forced release | as the shared process, inside one test process |
| Stop watcher (`stop.go`, `harness.go`, `internal/runstate`) | stopping flag, setups in flight, bodies, open suites, watcher count | settle, force, second signal | no setup is missed by a stop; a first request is never taken for a second |
| Method budgets, setup waits (`methodbudget.go`, `internal/setupwaits`) | deadline, watch, phase, goroutines registered | watch on and off, deadline, drain | an overrun is judged once; hooks are paired; no goroutine is left unawaited |
| Snapshots (`pkg/gotest/snapshot.go`, `internal/snapfile`) | files of baselines, what the process read | compare, generate, update, rename | a change is caught, a baseline is not lost |
| Managed process, process tree (`managed_process.go`, `internal/proctree`) | tree adopted, interrupted, released | Start, Terminate, WaitWithGrace, End, Release | nothing is signalled after release; output is drained |
| Signals, abandon, write gate (`cmd/gotest/signals.go`, `abandon.go`) | first and second signal, live trees, gate | Abandon, forced stop, Exit | an event reaches both streams or neither; no tree outlives the CLI |
| Work directories (`overlay.go`, `overlay_cleanup.go`, `prepare.go`) | stamps and files of every run's directory | make, stamp, sweep, remove | a directory is removed when its owner is dead and never before |
| Fuzzing (`fuzzrun.go`, `fuzzsession.go`, `cmd/gotest/fuzz*.go`) | corpus, session record, its lock | fuzz, record, promote | no find is lost |
| Bench (`cmd/gotest/bench.go`, `internal/gotestbench`) | samples, baseline files | save, compare, gate | a gate judges what was measured |
| Lint, migrate (`internal/lint`, `internal/migrate`, `internal/filewrite`) | edits, files staged | fix passes, mapping of suites and assertions, commit, restore | a rewrite keeps what is tested; files are written whole or named |
| Drill (`internal/drill`) | queues, slots, supervisors, scratch directory, shards' selections | take, judge, steal, stop, prune, check | a verdict is its mutant's own; shards split the mutants exactly |
| Watch (`cmd/gotest/watch.go`) | watched directories, dependents, debounce | event, rerun | every change is tested |
| Spec rendering (`internal/gotestspec`, `cmd/gotest/spec.go`, `summary.go`) | the tree of a stream; recording and cover profiles | build, count, measure; record, replay, judge the coverage | the tree agrees with the stream; the exit code is that of what is shown |
| Editor extension (`vscode-gotest/src`) | process records, runs, discovery cache, pinned versions, watcher | spawn, reap, run, discover, upgrade, watch | only own children are signalled; the tree shows what was said |

What is not modelled: refactoring and scaffolding and the Markdown renderers
turn one text into another, sequentially and in memory, and what matters there
is the text; help, configuration and test doubles are tables. `PROJECT.json`
lists them with the rest.

### 1.2 How the parts interact

The runner starts the shared fixture process with a pipe on its stdin and reads
its stdout. Fixtures the first suites need are set up at once (the *up-front
phase*), the others are *deferred* to the slot whose suites first need them.
While the process brings fixtures up, the runner compiles packages into the
binary cache and dispatches the suites whose fixtures are published. A suite
that ends leaves the *ledger*; keys nobody needs any more go to the *releaser*,
which sends them as `teardown` commands. At the end the runner interrupts the
process, waits for its terminal teardown within a budget, and judges its exit.

What a run owes is read from the source first: discovery says which suites and
cases there are, generation writes the harness, and the census holds the
stream of events to it. Every process the run starts is the root of a process
tree that a second signal ends (*abandon*). Concurrent gotest processes share
the binary cache, the directory of work directories, the fuzz record and the
drill's scratch directory, each under a lock or a stamp. The editor starts
gotest as child processes and reads their streams.

What is hard: the fixture process serves every command on a goroutine of its
own, while setups, teardowns and the shutdown wait for each other; the runner
gives up on commands that go on; a stop, a death or a deadline can come between
any two steps; files are shared between processes that may be killed; and what
is green depends on several readings of one source, one command line and one
stream that must agree. `PROJECT.json` lists 40 such hazards line by line, with
the properties that would catch each one.

## 2. The modules

| Module | Models |
|---|---|
| `SharedSetup` | the shared fixture process under any client |
| `SharedRun` | `SharedSetup` driven by the runner: commands, ledger, releaser, verdict |
| `SharedProtocol` | the runner's end of the protocol with its clocks |
| `FixtureDAG` | the package fixtures of one suite inside a test process |
| `StopWatch` | a test process told to stop: `FixtureDAG`, the suites and the stop watcher |
| `FixtureLife` | the abstract life of a fixture graph, implemented by `FixtureDAG` and by `SharedRun` |
| `MethodBudget` | methods under a timeout, their hooks, and the goroutines a suite waits for |
| `Snapshots` | `MatchSnapshot` and its files |
| `BinCache` | the binary cache under concurrent runs and sweeps |
| `Shutdown`, `CliStop` | the command line's signals; process trees, abandon, write gate, exit |
| `Pipeline` | suites from the compiled packages to the exit code |
| `Verdicts` | the verdict index and what a deadline books from it; with `Pipeline`, what the stream says |
| `CommandLine`, `Selection` | from the words typed to those of the test binary; what a run runs |
| `Collector`, `Declared`, `Binding` | what is read in a package; what a run owes; which fixtures are bound to what |
| `SpecTree` | from a stream of events to the tree, its counts and its verdict; the commands that show it and their exit codes |
| `LintFix` | the passes of `lint -fix`, and the file rewriting below it |
| `Assertions`, `Migrate` | rewritten assertions; a migration from testify |
| `Drill`, `WatchLoop`, `Fuzzing`, `Bench` | the commands of these names |
| `WorkDirs` | the work directories of runs and the drill's scratch directory |
| `EditorProcs`, `EditorRun`, `EditorDiscovery`, `EditorCli`, `EditorWatch` | the editor's registry of child processes, its runs, discovery, choice of command line, and watcher |
| `MC...` | instances for TLC; `MCRun`, `MCCommands` and `MCTools` choose one part per behaviour |
| `...Proofs`, `FixtureLife` | theorems |

`PROJECT.json` maps every definition that models code to its lines. What
follows says how state and actions correspond to the code where this is not
plain, and what is abstracted.

### 2.1 SharedSetup

One program counter per setup goroutine (`setup[f]`), per once-only teardown
(`teardown[f]`) and per command goroutine (`cstate[c]`), and one for `main`
(`phase`). The flags `started`, `attempted` and `torn` are the generated
program's three arrays, as sets; what the code does under one hold of `stateMu`
is one step, and what it reads in one hold and uses in another is two
(`TeardownEnter`, `ReadDependent`, `ClaimTeardown`). `RunFixtureSetup` is
inlined: `FirstAttempt` to `NextAttempt`, with `attempted` as its `Held`
callback. `entered` and `released` count BeforeAll and AfterAll calls; no
action reads them. User code may fail, panic (a panic is recovered into a
failure), overrun or never return. The client is open: any command with any
keys at any time, a signal, the end of stdin, the death of the process.

Abstracted: durations (which of two events comes first is a choice), the text
and the parsing of protocol lines (unknown verbs and unknown keys are refused
before anything is read, and are left out), the number of the signal.

### 2.2 SharedRun and SharedProtocol

`SharedRun` extends `SharedSetup` with the runner. `slot` is the dispatch's
position: slot 0 is the streamed bulk, later slots the groups and exclusive
suites. `counts` is the ledger, `pending` the releaser's queue, `begun`,
`held`, `unstarted` and `overdue` the maps of `sharedfixture.go`. The
environment of `SharedSetup` is replaced by the runner's own commands
(`StartKeys`, `TeardownKeys`) and its `Teardown` (`AskToEnd`, `JudgeOverdue`,
`KillAtBudget`); every wait may also end by the run's cancellation, by the
process's death, or by its deadline, as the selects of `command`, `WaitSetup`
and `awaitExit` allow. A wait for setups has a deadline unless `--setup-timeout`
is negative, or is left at zero and a setup of it has reported that it has no
budget (`SetupTimeout`, `Untimed`, `Unbounded`). A package holds one suite, and
the protocol stream is read as it is written.

`SharedProtocol` is the same conversation with time: the reader of the stream,
every deadline and how the reported budgets move it, and the end, which is an
interrupt and a budget, or a kill at once when all that is held is in a release
that was given up. Time passes only when what was written has been read and what
was read has been acted upon.

### 2.3 BinCache

One cached binary and its lock file, with flock bound to the inode a process
opened and not to the path, so a lock file that was removed or replaced is a
different file. A run is `binaryCacheDir` followed by `compilePackage`; a sweep
is `sweepBinaryCache` on that key; nothing keeps two sweeps apart. System calls
are separate steps: a sweep's open and flock, its check and its removals, a
run's flock and its `stillAt`. `taken` remembers that a sweep removed a lock
file other than the one it had locked; no step reads it.
`go test -c` is external: it writes the output (and makes its directory), with
a new modification time, or fails. The size cap depends on the other keys, so
a sweep may or may not reach for a young binary. Windows' locks differ and are
not modelled.

### 2.4 FixtureDAG and FixtureLife

`setupDAG` and `teardownDAG` of `runtime.go`, one goroutine per fixture in each
direction. `node[f]` and `teardown[f]` are their program counters, `at[f]` the
dependency a setup waits for, `errs` the slice of errors, `cause` the cause of
the setup's context, `attempted` the node tracker. `select` with two ready
cases is two actions (`DependencyDone`, `WaitCanceled`). `RunFixtureSetup` is
inlined as in `SharedSetup`; a node with a `SharedState` is hydrated instead,
without retries and without reading the context first (`Hydrate`). `Reported`
is the choice of the error to return. The graph is torn down after a failed
setup (`phase = "undo"`) or once by `Teardown`.

Recording an error, cancelling and closing the done channel are one step: the
error is read only after the close, and a dependent that sees the cancel first
takes a step the model has as well. An error is named by the fixture that
failed, or is a skip, or is `context.Canceled`; its text is left out.

`FixtureLife` is what a graph of fixtures promises whoever runs it: a fixture
comes up on fixtures that serve and is released before any of them. The
refinement mappings are `GraphLives` in `FixtureDAG` and the second part of
`FixturesServe` in `SharedRun`: the life of a fixture as a function of its
program counters and flags. A process that dies takes every life with it.

### 2.5 StopWatch, MethodBudget, Snapshots

`StopWatch` extends `FixtureDAG` with three threads. The testing goroutine runs
the suites (`main`, `suite`, `method[m]`): watch, count the suite, hold the
fixtures, BeforeAll, methods, AfterAll, cleanups, close. The watcher's loop
takes what its channels hold, settles (`ReadFinished` makes the four reads of
`finished()` one by one, each under its own lock in the code) and forces. The
poll looks for the stop file and a dead parent. `Signal`, `Announce` and
`ParentDies` are the outside; a signal nobody catches has its default action,
which is the death of the process. `Clock` is every bounded wait of the
watcher: it may end at any moment. One suite of a behaviour holds fixtures
(`Binding`), since each hold has a graph of its own. Left out: how long a grace
or a budget is, the wording (`said` is whether anything was), fuzzing, panics
of benchmarks.

`MethodBudget` has the methods of a suite one after the other: the method's
goroutine through the hooks, the watch that judges an overrun, the timer, the
stop. Below it, sharing no state, the goroutines started with `gotest.Go` and
the drain (`waits` part). `Snapshots` has the tests of one process over shared
files; two processes over one file are not serialized by the code and not
modelled, and no two tests share a key.

### 2.6 A run around the suites

`CliStop` extends `Shutdown`: a tree is one process group with the goroutine
that runs it, the one that waits for its root and exec's watch of the context.
Nothing is assumed of processes: they may ignore every request to stop. The
one timing assumption is `Prompt`: a goroutine that can run gets to run before
the next bound of the second signal passes; the bounds are 300 ms and more.

`Pipeline` has one fixture, standing for those `SharedRun` has in full, and
one step per record of the collector, which holds its lock for it. `Verdicts`
is the index of one run's stream: what the processes write, and what it makes
of it.

`SharedProtocol`, `Selection` and the settling of `LintFix` are written without
recursive operators, so that they can be proved about: the sums of budgets and
the fixtures alive are sets, the order of dependencies is chosen among all
listings, and `Settle` is a recursive function over the fixes.

`Collector` and `Declared` read a package as the generator does: a method is
its name taken apart, its receiver and its types; a hook body is the
statements that have to do with its `T`, without loops and closures. That
rendering fails, and the faults of fixtures, are inputs of `Declared`;
`Binding` has the fixtures: numbers ordered as identifiers and keys are, with
the fields, methods and embeddings the binding tells apart. `CommandLine` has
one word per way of being read. `Selection` has patterns of alternatives with
subtests one level deep; the windows, the groups and the slots of a bench run
are computed from it as the runner does before and after the compiler.

`WorkDirs` has a directory per run with what it holds and whether it is
younger than a minute, than a week, or older; boots, pid namespaces and the
directories of earlier versions. Its second half is the drill's scratch
directory, with locks on files as in `BinCache`.

### 2.7 Commands and the editor

`LintFix` numbers fixes in the order the analysis lists them; what edits do to
each other is a relation, what compiles a family of sets. Writing is staged and
committed by rename or in place; a name may be a symbolic link to a file
another name reaches. A signal that comes before the handler is installed, or
after `stop` took it away, ends the command by default (`SignalUncaught`), and
`lastSaid` keeps what the second one prints. `Drill` has the slots of one shard
and below it the shards of a sharded run; `left` is what a worker finds in its
directory, of which it may fail to remove the cache unnoticed, and a slot steals
from any queue, whichever has the most seconds left. `Fuzzing` has sessions starting in their order and a
user who edits corpus files. `Assertions` has every type by its kind and every
value by what an assertion may tell of it, with testify's verdicts (external)
and gotest's side by side: what either compiler takes is an input, and `lost`
remembers a rewrite known to change a verdict. `Migrate` has a directory of up
to three files and suites in two build configurations, a base's methods in
other files than the base among them. `SpecTree` has go test write a
stream and the tree read it; its second part (`Ask` to `RunFromInput`) has up
to `MaxShows` commands after each other that share an events file and a cover
profile: a command may be refused, killed, fail to read or to write at each
step, and only what its exit code is computed from is kept of the stream. A
cover profile the caller names is judged as an earlier run left it when this one
merged nothing. `Bench` has runs of a terminal and of the editor
over shared baseline files.

`EditorProcs` assumes of a pid that it is given to another process only after
its own is gone; the start token tells them apart. `EditorRun` has one test
per package, and one request waiting at a time; VS Code keeps the graver of two
verdicts of an item. In `EditorWatch` every child that runs writes lines in any
pieces into the one buffer, and is heard until its pipes close, whatever became
of the watcher; a line put together from pieces of two children is skipped or
says anything (`garbled`). `beside` and `astray` are history. `EditorCli` has a user who edits go.mod only while the dialog asks.

`EditorDiscovery` extends `EditorRun`, `EditorWatch` and `EditorProcs`,
`EditorCli` extends `EditorProcs` and `WorkDirs` extends `Drill` to state a
property of all of them together; they share no state, and each has a
specification of its own.

### 2.8 Naming

A definition whose name ends in `_Something` and is commented "Mutant:" is a
plausible bug in the definition below it. No specification uses it: it is
there to show that the property named for it in `PROJECT.json` would notice.

## 3. What TLC checks

| Run | Instance | Shows |
|---|---|---|
| `shared_setup` | two fixtures in a chain, one deferred, one retry, two commands | under any client a setup runs once (`NeverRestarted`), the terminal teardown begins only when no setup runs (`TerminalTeardownAlone`), and a process told to stop exits (`ShutdownEnds`) |
| `shared_run` | a database and a service on top of it, three suites in three slots, four commands | with the real runner no AfterAll runs beside its BeforeAll (`NoAfterAllBesideBeforeAll`), every fixture is released once (`ReleasedOnce`), suites have their fixtures and the whole implements `FixtureLife` (`FixturesServe`), `OnlyOverdueIsKilledAtOnce`, `GreenMeansReleased`; the run ends with a verdict, or waits for a setup as long as it was asked to (`RunEnds`) |
| `fixture_dag` | `MCFixtureDAG`, one of three parts: five fixtures, one on a package fixture and on a hydrated shared one, an independent one, a shared one the state file does not name, one retry; or two runs and a sweep of the binary cache, with kills, ages and a checkout that is deleted; or two runs and two sweeps that found an orphan lock file | `ReleasedOnceEach`, `FailureHasCulprit`; the graph implements `FixtureLife` (`GraphLives`); setup ends (`SetupEnds`). Until a lock file is taken from another: `LinksAloneUntilTaken`, `ServesUntilTaken`, `EvictsOnlyUnused`; always: every compile ends (`RunsEnd`) |
| `fixture_dag_cause` | three fixtures, no retry | finding 1 below |
| `cache_sweeps` | the two sweeps alone | finding 4 below |
| `stop` | `MCStopWatch`, one of two settings: under the runner, two suites, the second with fixtures, stop file, dead parent, two signals; or plain `go test`, the first suite with fixtures, two parallel methods, three signals | `NothingLeftBehind`, `ForcedReleases`, `SettledMeansOver`, `OneSignalNeverForces`; the process ends whatever user code does (`StopEnds`) |
| `stop_gap` | one suite without fixtures, a stop in the gap of `OpenSuite` | finding 2 below |
| `run` | `MCRun`, one of eight parts per behaviour | the run around the suites, below |
| `commands` | `MCCommands`, one of seven parts | the commands beside it, below |
| `tools` | `MCTools`, one of fourteen parts | the plan of a run, reports, rewrites and the editor, below |
| `editor_watch` | the editor's watcher, three spawns, one cycle | finding 3 below |
| `verdicts` | `MCTools` with the assertions alone | finding 5 below |

`run`, `commands` and `tools` choose a part in their initial state; the other parts stay
where nothing is left to do. Each property is of one part, or of several that
together answer one question:

| Run | Property | Stands for |
|---|---|---|
| `run` | `ExitIsClean` | `NoProcessOutlives`, `EventsWhole` (`CliStop`) |
| | `StopIsGraceful`, `GivenUpEnds` | one signal kills nobody within its grace; a teardown given up ends (`CliStop`) |
| | `ExclusiveAlone` | exclusive suites, groups, bench slots and the semaphore (`Pipeline`) |
| | `StreamIsTrue` | `ReportedOnceInOrder` (`Pipeline`) and `CutUnitsNamed`, stated together in `Verdicts` |
| | `GreenRanDeclared` | `GreenIsTrue` (`Pipeline`), `DeclaredIsOwed` (`Declared`), `FixturesAreBound` (`Binding`), `SnapshotsAreTrue` (`Snapshots`) |
| | `MethodsAreBounded` | `OverrunJudgedFirst`, `HooksPaired`, `NoneLeftUnawaited` (`MethodBudget`) |
| `commands` | `LintFixIsSafe` | `FixesSettle`, `FixesAllOrNamed` (`LintFix`) |
| | `NothingIsShared` | `DrillIsSound`, `ShardsSplitAll` (`Drill`), `ScratchAlone`, `DirsAreOwned`, stated together in `WorkDirs` |
| | `DrillFinishes`, `ChangeIsTested` | liveness of `Drill` and `WatchLoop` |
| `tools` | `FindsAreKept` | `Fuzzing` |
| | `EditorIsTrue` | `OnlyOwnAreSignalled` (`EditorProcs`), `RunIsTold`, `SaveIsMeasured` (`EditorRun`), `EventsToTheirCycle` (`EditorWatch`), `LastRequestServed`, stated together in `EditorDiscovery` |
| | `BudgetsAreHonoured` | every wait for the fixtures' process lasts as promised (`SharedProtocol`) |
| | `RunIsSelected` | `SelectionIsGoTests`, `FixturesArePlanned` (`Selection`) |
| | `CommandsAreTrue` | `CommandLineIsRead` (`CommandLine`), `TreeIsTrue`, `ShownIsTrue` (`SpecTree`), `BenchIsTrue` (`Bench`) |
| | `RewritesAreTrue` | `RunsAreKept`, `LeftIsWhole` (`Migrate`), `VerdictsAreKept` (`Assertions`), each but for what it names: `PromotedElsewhere`, and the rewrites `LostBy...` |
| | `EditorKeepsRecords` | `OrphansStayOnRecord` (`EditorProcs`), `UpgradeKeepsGo`, stated together in `EditorCli` |

### 3.1 Bounds

`MaxCommands` bounds the commands of a client; two are enough for a
start racing a release, or two starts of one fixture, and four are all the
runner sends for the three-suite plan (one start, at most three releases: the
ledger frees a key once). Two fixtures in a chain contain every wait between
neighbours of a graph; a setup waits only for dependencies and a teardown only
for dependents. The plan of `MCSharedRun` has a key started up front and needed
to the end, a key started and released in the middle, and a slot that starts
nothing; the setup of `db` reports no budget, that of `api` does
(`SetupTimeout = "own"`), so a wait of each kind is in one run. `Retries` is 1
where attempts matter and 0 elsewhere.

The five fixtures of `MCFixtureDAG` have every kind of node and both kinds of
edge between them; a cancel needs a failing fixture beside a chain, and nothing
in the graph code depends on a longer one. The cache has two runs, since what is
shared is shared by two; beside one sweep all but one run may be killed (two
killed runs show nothing more) and a deleted checkout does not come back. Two
sweeps start where both have read the lock file a failed compile left: from
there every order of their steps and the runs' follows. In `StopWatch`, `Suites = 2` has a
stop fall before, between and after suites; `MaxSignals = 3` has one signal for
the request, one that forces and one too many. `GapStops = FALSE` keeps a stop
out of the two statements of `OpenSuite` where finding 2 is, so that the other
runs show what holds everywhere else.

In `Run.cfg` one tree may be of any kind, under signals without a bound
(`Shutdown` remembers what is still to be told apart of them); four suites in
three packages have a group, an exclusive suite and a package with none; two
suites with one method each have every order of start, pause, verdict and
deadline; two methods under two fixtures, and three goroutines, one of which
may start another. The packages of `Declared`, the fixtures of `Binding` and
the snapshots come in families (`MCRun`), each varying what one step tells
apart while the rest is plain; in `GraphFamily` the second suite names `{}` or
`{3, 5}`. In `Commands.cfg` four fixes in three packages settle within
`FixPassBound` or are given up; two files are written; two slots judge three
mutants; two drills and two prunes take three lock files (`MaxLocks`); two
directories are edited twice; a run, or an earlier version's, works beside
another that sweeps. The mutants of a drill are numbered queue by queue
(`NumberedByQueue`): which numbers two queues have is of no account. In `Tools.cfg` two fuzz sessions and a promote share two
targets, and the user touches one file (`MaxTouches`); three hosts, in any
order and together, have one child; a watcher spawns three children, each of
which announces two cycles; two commands show a run (`MaxShows`), of the kinds in
`MCRequests`; the clock of `SharedProtocol` goes to 2, the longest
budget of an instance; four words are typed (`MaxWords`); the families of `Migrate`,
`Assertions` and `Bench` are in `MCTools`.

What an instance excludes by an assumption about its inputs:

* `CommandLine`: a value written apart is no flag, `--` comes once and before
  `-args`, nothing follows a flag that is refused, the last flag is complete.
* `SpecTree`: top-level tests are not parked, only one of two has subtests, no
  name begins with a parked sibling's name and a slash.
* `Migrate`: `DirectoryOK`: what compiles, and no suite in a file that is never
  built. `Assertions`: what compiles (`Compiles`).
* `Declared`: `main`'s load errors come only beside a variant's.
  `Binding`: at most one odd method per fixture; `Declarable`, what compiles.
* `WorkDirs`: an owner fills its directory within the minute; an earlier
  version's command is a run (`WaysAssumption`), the newest alone knows the
  others.
* `EditorDiscovery`: a package is in one workspace folder (`FoldersAssumption`).
* `Snapshots`: one process at a time, no two tests share a key, the directory
  can be made.
* `Selection`: suites are listed once, fixtures depend on each other without a
  cycle (`SelectionAssumption`). `SharedProtocol`: the fixtures
  are finitely many, and what a setup lasts, the budgets and the command's
  floors are numbers (`ProtocolAssumption`). `Bench`: times are
  positive, and a baseline held at first is of none of the runs
  (`BenchAssumption`). `LintFix`: a file has changes to write
  (`ChangesAssumption`), and a fix is of a package, which imports others
  (`FixAssumption`).
* `Drill`: a shard of the plan names all its mutants; at most three runs are
  checked against each other; a mutant that is missed counts as not judged. A
  shard is one of its number of shards, and no timing is negative
  (`DrillAssumption`).

### 3.2 Fairness

`FairSpec` of `SharedSetup` assumes that goroutines are scheduled
and that BeforeAll and AfterAll return: the process has no deadline of its own
for them while its runner lives. `FairRunSpec` of `SharedRun` assumes nothing
of the fixture process, which may hang for good: only that the runner's
goroutines are scheduled, the timers it armed fire, and a suite process ends (it
is killed after its grace). A setup without a budget arms no timer, so `RunEnds`
has the run that waits for one (`WaitsUnbounded`) as its only way not to end.
`FairSpec` of `BinCache` assumes that every process
is scheduled and that a lock which stays free is taken; no liveness is assumed
of killed processes. `DagFairSpec` of `FixtureDAG` assumes that goroutines are
scheduled and that user code returns: without a stop around it the graph waits
for BeforeAll for as long as it takes. `FairSpec` of `StopWatch` assumes
nothing of user code. The goroutines of the process are scheduled, and a clock
that started runs out even though the watcher's reads keep disabling the step
(strong fairness on `Clock`: a timer fires once its time is over, and the loop
comes back to its select). `CliFairness` of `CliStop` assumes that the command
line's own goroutines are scheduled, each tree's among them, and that a request
repeated is repeated; nothing of the processes. `DrillFairness` schedules the
phases of a shard, its slots and its supervisors; `WatchFairness` the loop, its
timer and the delivery of an event that waits.

### 3.3 Findings

1. *A cancelled fixture's dependent can hide the failure* (`fixture_dag_cause`).
   `setupDAG` passes over `context.Canceled` when it picks the error to return,
   but the dependent of a cancelled fixture may record that it was skipped,
   which is no cancellation and is returned if it comes first. The comment
   there, and a test, say the causal error is preferred.
2. *A stop between two statements of `OpenSuite` is never forced* (`stop_gap`).
   The watcher runs before the suite is counted. A stop that settles in between
   resets the handlers, the suite opens all the same, and a BeforeAll that does
   not return keeps the process alive.
3. *One failed spawn starts two watchers* (`editor_watch`). Node emits `close`
   after `error`; each arms a restart, each restart spawns a child, and the
   first of them is no longer tracked.
4. *Two sweeps of the binary cache let two runs link one output*
   (`cache_sweeps`). `tryLockFile` does not look whether the path still names the
   file it locked. Of two sweeps that found one orphan lock file the second
   removes the one a run made after the first, and the next run makes another and
   links beside it. The comment on the cache says the lock prevents it.
5. *A migrated assertion may judge otherwise than testify's* (`verdicts`).
   `mapAssertion` takes an assertion as it stands wherever it compiles:
   `NotEqual` of two functions fails with testify and passes with gotest. The
   other values are those of `LostByMigrate`. The specification of migrate wants
   verdicts kept.

A property that holds but for such a case names the case, so that it says what
is left of the promise: `LinksAloneUntilTaken`, `ServesUntilTaken` and
`EvictsOnlyUnused` the lock file that was taken, `VerdictsAreKept` the rewrites
`LostByMigrate`, `LostBySimplify` and `LostByDrop`, `RunsAreKept` what is
`PromotedElsewhere`, `FixesAllOrNamed` the second signal that speaks while
files are written, `DrillIsSound` the cache that could not be removed,
`EventsToTheirCycle` the lines of two children and the run made after a stop.

### 3.4 Where the code and its words differ, without a run

Met while modelling, and left to the reader of the code; most need a second
hazard at once, or lie outside what a module has.

*Run.* A release can run AfterAll beside BeforeAll under a client other than
the runner (`sharedfixture.go.tpl:321` says it cannot, `:324` reads the flag an
accepted start sets later); with the runner it cannot, which is proved
(`NeverBesideItsBeforeAll`). A second signal during a setup releases nothing,
since a graph is held only after its setup, while the specification
(`spec.md:205`) wants fixtures released first. `awaitExit`'s comment and its
budget differ (`sharedfixture.go:1029-1039`). A signal that comes after the
command's own `stop`, before the goroutine that waits for a second one has
installed its channel, ends a command by default: modelled in `LintFix`
(`SignalUncaught`), left out of `CliStop` and `Pipeline`, where the run's work
is over by then. The words of a command line: `insertBeforeWords`
may separate a flag from its value (`suiterun.go:578-588`); an early return for
`-args` skips `ValidateTestFlags` (`args.go:121-137`); `hasFlag` looks behind
`-args` (`args.go:45`), and `watch` appends patterns there (`watch.go:588`).
`-run TestFoo` without a slash replays fuzz seeds (`suiterun.go:146-160`);
`-run 'TestFoo/x|FuzzFoo_M'` drops the wrapper; an unanchored `-run TestFoo/x`
runs every matching suite's function in each selected process. A go.mod edited
between lookup and `go get`, and `suggestToolDirective`, are not modelled.

*Discovery.* A suite of one name in `p` and in `p_test`: the external one's
cases are not counted, its skip is not named, its keys override. An unexported
suite with only benchmarks or fuzz targets is accepted and never run
(`spec.go:951-955`). `CheckFocusViolations` refuses an `F_` method of an `X_`
suite (`focusguard.go:84`). A method named exactly `Test`, `Benchmark` or
`Fuzz` is silently no case. A suite without tests whose other methods are all
excluded is named nowhere. In a hook, reassigning an alias after its nil check
is accepted, a `goto` past a check too, and helpers are not followed.

*Binding.* Shared fixtures of other packages are not checked for the config
markers nor for being structs, which a comment says (`fixture.go:152-153`); an
embedded fixture of another package beside a named field of its type leaves one
of the two nil; generic fixtures with arguments of one name from two packages
share a state key; a shared fixture of package main, or one holding another by
value, is not refused; an unexported dependency field fails to compile, loudly;
`nonSerializable` has no visited set (`binding.go:884-916`);
`collectAssignments` uses `Hydrate`'s receiver name in helpers, one level deep;
without source every field is transferred.

*Snapshots.* A section of an earlier release may be taken by a twin key though
the current release wrote it; in CI it serves both (`snapshot.go:290-292`);
`os.WriteFile` truncates, so a kill midway loses baselines; two processes on
one file are not serialized; update goes before CI; two calls with one key
overwrite each other under update.

*Work directories, scratch.* A directory of an earlier version with only a
`.pid` is judged by the pid even from another namespace; an unstamped one goes
after a week even if live; `gotest-stub-overlay` directories are not swept;
those of another boot never are; a failure of `markKept` is ignored. A prune may
refuse a scratch directory (`scratch.go:158`).

*Drill.* A plan cut in a mutant's last run line is read as whole;
`CheckShards` passes when all shards agree on a subset of names. A failed
removal of the worker's `cache/children` is ignored (`worker.go:86`), while the
drill's documentation has each mutant start with it empty
(`tests/drill/README.md:68`): in the model, and the exception in `DrillIsSound`.

*Assertions, migrate, lint.* `Contains(err.Error(), "")` rewritten to
`ErrorContains` fails on the empty needle (`simplify.go:569`), and a needle that
is no string does not compile (`LostBySimplify`); `NotNil` is dropped before
`NotEmpty`, `Len` or `Contains` on an interface that holds a value which cannot
be nil (`redundant.go:105`, `LostByDrop`). What a base promotes only in another
configuration than the first its file is built in gets no forward, and no
marker says so (`collectForwards`, `embed.go:342`; `README.md:1069` excepts
nothing; `PromotedElsewhere`). Lint's "nothing was written" may be its last word
after writing: the count it prints is set when all files are written
(`lint.go:246`), while a second signal that falls into the writing waits for it
and has spoken before (`docs/design/spec.md:1501`). A signal before the handler
is there, or a removal that gives up at its bound, leaves the load's directory
behind (`lint.go:235`, `:562`), which "removed however the run ends"
(`lint.go:233`) does not say.

*Bench.* The gate judges by a heuristic with fewer than four samples
(`compare.go:10-13`, `bench.go:92-97`); with no benchmarks built a gated run
exits 0 (`bench.go:137`, `:265`); `Deltas` is omitted when empty
(`report.go:24`, `bench.go:370-373`); a stopped run saves what it has; saving is
not atomic (`baseline.go:243`); the editor cancels a run without waiting
(`benchRunner.ts:1-4`).

*Tree.* The recording of a run that was killed may end after a package's verdict
and replay green; a cover profile named by the caller is judged as it was left
when the run merged nothing. An unfinished node is measured by the sum of its children, which a
comment says never happens; a suite run twice has its unnumbered tests under
its first run; `PackageDuration` leaves out wrappers brought home and
benchmarks; a failed benchmark leaf is not in `Failed`; a parked `a` beside
`a/x` is ambiguous; a stream of concatenated benchmark outputs can lose a
failure; a cut stream may show the green line with exit 2.

*Editor.* `discoverOnSave` (`vscode-gotest/README.md:231`, `discovery.ts:192-204`)
does not discover again on every save; stores latch their first load;
`WatchManager.start` awaits between `has` and `set` (`watch.ts:258-280`), and a
watcher started again for a scope shares the record and the run with the stopped
one, whose child may still write: one watcher is modelled. A line of a child
that outlives its watcher opens a run nobody ends (`watch.ts:101-143`), in the
model as the second exception of `EventsToTheirCycle`; so is the restart that
does not look at `disposed` after its await (`watch.ts:183-195`). The
test controller is rebuilt without `forgetDynamic`; three overlapping run
requests.


## 4. What is proved

Eight modules hold theorems, for every value of the constants that the `ASSUME`s
of the component modules allow: any graph, any plan, any number of processes,
suites, packages, methods, retries, commands or signals. TLC checks the same
properties on the small instances of section 3; the inductive invariants were
checked there too before they were proved. A property is seldom inductive as it
stands; what follows says which invariant carries it, and why.

### 4.1 The shared fixture process

`SharedSetupProofs`, for any graph (`GraphAssumption`: alive sets are closed
under dependencies), any retries and commands (`BoundAssumption`), under any
client:

* `TypeCorrect`: `Spec => []TypeOK`, in particular at most `Retries + 1`
  attempts;
* `TerminalTeardownIsAlone`, `SetupsAreNeverRestarted`.

`IInv` adds what `startsInFlight` counts: a running setup belongs to the
up-front phase or to a start command that is running and waits for it
(`SetupHasOwner`), only such a command has setup calls to make
(`CallsAreStarts`), no command is served during the up-front phase
(`UpfrontAlone`), and none is a start once the releasing phase begins
(`NoStartWhenReleasing`). `AttemptsBounded` and `StartedHasBegun` tie counters
and flags to the program counters.

`SharedRunProofs`, for any plan of suites in slots on top of that:

* `RunIsOneClient`: `RunSpec => Spec`. The runner is one of the clients
  `SharedSetup` allows, so what holds of the process holds under it;
* `RunTypeCorrect`;
* `NeverBesideItsBeforeAll`, `EachReleasedOnce`: no AfterAll beside its
  BeforeAll, and one release for each fixture entered;
* `GreenIsProof`: a green verdict on the process means every fixture was
  released;
* `OnlyOverdueKilled`: only a process with an overdue command is killed at once;
* `ProcessImplementsLife`, `RunServesFixtures`: the process under its runner
  implements `FixtureLife`, and a suite that runs has its fixtures.

`NoAfterAllBesideBeforeAll` does not hold of the process under any client (see
3.4): its proof is about what the runner sends. `RunInv` says of the process
where each setup and teardown stands (`SetupTells`, `ReleaseTells`), that
nothing on top of a fixture moves once its teardown is called (`Quiet`,
`GateReads`), and what is left at its exit (`ExitTells`). Of the runner it says
that a release is asked for a key the ledger has counted down (`AskedFor`,
`LedgerCounts`, `FreedIsUnneeded`), and that a start which is under way is
awaited by suites not yet over (`StartsAwaited`), so a key which that start
brings up, or rests on, is never freed before it ends (`ReleasesApart`).
`HeldIsKnown`, `SlotsInOrder` and `VerdictTells` carry the verdict.

### 4.2 Fixtures under one roof: FixtureLife

`FixtureLife` states the life of a graph of fixtures, whoever runs it, and its
theorem `AllRestOnServing`: `LifeSpec => []RestsOnServing`, whatever is held
rests on fixtures that serve. Two refinements bring it to the code:
`GraphImplementsLife` (`StopWatchProofs`) for the graph inside a test process,
retries and forced releases included, and `ProcessImplementsLife`
(`SharedRunProofs`) for the shared process. Each is a step simulation: the
mapped life of a fixture changes only in steps that are those of the abstract
module, every other step stutters.

`StopWatchProofs`, first for any graph the generator can list (`OrderAssumption`:
dependencies come first, without repetition; `NamesAssumption`: no fixture is
named like another error):

* `GraphTypeCorrect`, `SetUpOnDependenciesHolds`, `EachReleasedOnce`,
  `HeldGraphIsUp`, `FailuresHaveCulprits`.

`IInv` ties the tracker to the counts (`TrackerCounts`) and to the program
counters (`TrackerFollows`), says what a fixture stands on once it has awaited
it (`OnTop`), orders releases (`ReleaseOrder`), and traces every cancel and
every error back to a culprit that has ended and therefore stays one
(`Blamed`). A step of a setup goroutine ends with an error (`EndsInError`), goes
on (`GoesOn`) or enters BeforeAll (`Enters`), with a lemma for each.

and then for any suites, methods and signals around such a graph, with
a runner or without (`SuiteAssumption`):

* `ProcessDrivesGraph`: `Spec => DagSpec`. With it the graph's theorems hold
  under every stop;
* `StopTypeCorrect`, `NothingIsLeftBehind`, `ForcedStopReleases`,
  `OneSignalIsNotTwo`;
* `SettledIsOver` and `DefaultKillsNothing`, if no stop falls into the gap of
  `OpenSuite` (`~GapStops`): the assumption finding 2 shows to be needed.

`SInv` says where the testing goroutine is from what is open, in flight and held
(`MainTells`). The four reads of `finished()` are not atomic; the proof shows
that the last one suffices, since a suite counts as open for as long as
anything of it can be in flight or held, and none opens once the run is
stopping.

### 4.3 The binary cache

`BinCacheProofs`, for any number of runs and sweeps (`ProcsAssumption`: no
process is both):

* `LocksAreAccounted`: `Spec => [](TypeOK /\ LocksAccounted)`;
* `LinksAreAlone`, `CacheAlwaysServes`, `EvictsUnusedOnly`: until a sweep removes
  a lock file it had not locked (`taken`), links into one output never overlap,
  the cache serves, and nothing in use is evicted, with any number of sweeps at
  once. After it they may (finding 4);
* `OnlyMeetingSweepsTake`: that only happens where two sweeps are at their lock
  files together (`SweepsMeet`).

The argument is `AtPath`. A run let into the cache has the file the lock's path
names, since it looks (`stillAt`). A sweep does not look; but while the binary is
the one it scanned, the file it locked is the one at the path, since whoever
removed that file removed the binary first (`SweepsOwn`). So a sweep evicts
what it found or nothing, and the one step that can go wrong is the removal of
the lock file when no binary is there.

### 4.4 The run around the suites

`RunProofs`; the components share no state.

* `EveryExitIsClean`, `StopsAreGraceful` (`CliStop`). `CliInv` says what the
  goroutine of the signals has seen from where it is (`SignalTells`), what the
  gate and the exit are like (`ExitTells`), and where the owner and the suite of
  a tree stand (`OwnerTells`, `SuiteTells`). Nothing is forked past the window
  of the second signal, so the trees still tracked are all that run; a
  converter leaves before its suite only when the whole group was told.
* `ExclusiveRunsAlone` (`Pipeline`): `PipelineShape` and `StageTells`, the stage
  by the state of the suites.
* `PackagesReportedOnce`, `ZeroIsGreen` (`Pipeline`): each package is told once,
  in order, and exit code 0 means what it says. `StreamInv`: a package with
  suites under way expects as many verdicts as they are and has as many as are
  over (`CountsTell`, `OwedTell`), so it becomes ready once, and while nothing
  ends the run every compiled package is ready or under way (`ReportsTell`).
  `GreenInv`: what the exit code was computed from is what happened.
* `DeadlineNamesTheCut` (`Verdicts`): `VerdictInv` has what the index knows of a
  unit by what the unit really did (`IndexTells`, `BookedOnce`).
* `StreamTellsTheTruth`: both readings of the stream together.
* `MethodsStayBounded` (`MethodBudget`): the watch runs from opening until told
  and alone ends the contexts, after its report (`BudgetInv`); what is acquired
  is held or released in order (`HooksTell`); a running goroutine is registered,
  taken by the drain, or waited for by its starter (`WaitsTell`).

### 4.5 Beside a run

`ToolProofs`:

* `SignalsReachOwnOnly`, `OrphansAreKeptOnRecord` (`EditorProcs`), for any
  hosts and children. `ProcInv`: a pid is a stranger's only once its host saw
  the exit or is gone (`PidsTell`), tables name own children only
  (`TablesAreOwn`), inherited files are of dead hosts, and whoever inherited a
  file has exactly the running children it names.
* `WhatIsFoundIsKept` (`Fuzzing`), for any sessions and targets. `FuzzInv`: the
  session that writes holds the lock alone and has read the record as it is.
* `EventsReachTheirCycle` (`EditorWatch`), for any children and cycles, heard in
  any pieces and after any stop. `WatchInv`: where the last start found no other
  child running there is one at most, the buffer holds what it has written of its
  line and nothing else, and the open run is of the cycle it announced last
  (`AloneTells`); a child that runs writes lines of its own (`KidsTell`).
* `RunsAreTold`, `SavesAreMeasured` (`EditorRun`), for any items and requests.
  `RunInv`: the run that goes on is the last one and its record is settled by
  it or by whoever took its place (`RecordTells`); a failure the stream carried
  is shown once its package is told of (`StreamTellsFailures`), and what is red
  is so for a reason the exit code, the cache or the stream has (`RedTells`).
  `CoverTells`: a package saved since its last measurement is queued or being
  measured.
* `RequestsAreServed` (`EditorDiscovery`), for any folders and packages.
  `DiscoveryInv`: at most one request of a folder waits, and it asks for all the
  folder was last asked for (`QueueTells`); a scan no request waits behind is of
  the last one, and what it read is no older (`ScanTells`); a folder with
  neither shows what it was asked for (`SettledTells`); a folder whose tree is
  not to be written has it as the cache does (`TreeTells`).
* `EditorShowsTheTruth`: these and `SignalsReachOwnOnly` together.
* `UpgradesKeepGo` (`EditorCli`), for any modules and releases. `CliPlanInv`: a
  step of the plan moves a module to a release at or above the floor whose go
  line fits the module's as it is now (`PlanTells`), and there is a plan only
  while an upgrade runs that has looked at go.mod (`UpgradeTells`). With
  `OrphansAreKeptOnRecord` it is `EditorKeepsItsRecords`.

* `RunsAreSelected` (`Selection`), for any suites, fixtures, dependencies and
  patterns. `SelectionInv`: from the plan on, what is planned is what the
  patterns and groups select, and what is listed has every fixture of it after
  those it depends on (`SelectsTell`; such a listing exists, `IsListed`); what is
  compiled becomes targets, with the words of the one suite and of no other
  (`TargetsTell`); each slot of a bench run starts what is not yet alive of what
  it needs, and what a later slot needs is not released before (`SlotsTell`).
* `WaitsLastAsPromised` (`SharedProtocol`), for any fixtures, budgets and
  deadlines. `ProtocolInv`: the budget of a setup under way is on the wire since
  it began, or was heard (`BudgetsKnown`), so the timer of a wait, which follows
  what was heard, covers each setup begun before now (`TimerTells`); the
  deadline of the teardown is all that is owed, and what is left of it decides
  the verdict (`TeardownTells`). What the runner holds is what lives or may come
  up (`HeldTells`), and a release given up had its budget first, so a process
  killed at once has nothing left that was not given its time.
* `BenchesAreJudged` (`Bench`), for any runs, benchmarks, flags and baselines.
  `BenchInv`: what a run saw and read are times, and it goes on only with flags
  that were not refused (`RunTells`); a file holds what a run that wrote it
  measured, or what it held at first, so no run reads its own (`FilesTell`); the
  file of a lone writer holds its report (`SoleTells`); what is shown is of runs
  whose end was read, each once (`PointsTell`). Where the run is judged, the
  worst of a finite set of regressions exists (`SomeIsMost`), and a percentage
  rounded down bounds the two times it is of (`ChangeBounds`).

`CommandProofs`, on `LintFix` first:

* `FilesAreNamed`: `lint -fix` leaves no file torn or written that it does not
  name, however a write fails and a signal falls. `FileInv` has each file staged
  once and says of each change where its file is (`ChangeAt`): torn only while
  it is written in place, or named in the error; `LintTells` what is written by
  where the command is, that writing holds the exit off, and what a second signal
  said by where it found the command.
* `FixesAreSettled`, for any fixes, conflicts, packages and passes: the fixes
  applied compile together, the findings kept are those of a fresh analysis,
  each finding left is one a person is told of. `FixInv` carries it from pass to
  pass. That `Settle` keeps what compiles is shown of its recursive function by
  a least row that fails (`RowHolds`).
* `LintFixKeepsItsWord`: both together, `LintFixIsSafe`.

Then four readings of one property, `NothingIsShared`, and
`NothingOfOthersIsTaken`, which joins them:

* `DrillsAreSound` (`Drill`), for any mutants and slots. `DrillInv` says what
  runs in a slot's tree from where the slot is (`AliveTells`, `SupsTell`): only
  the mutant it judges while it runs, anything of it between the end of its
  supervisor and the sweep, nothing where the next begins. `LeftTells` has an
  outcome only in a tree that holds nothing of another (a cache that could not be
  removed is not of the tree). `QueuesApart`,
  `TakenApart` and `UnjudgedWait` say that a mutant is in one queue at most, once,
  or with one slot, and has no verdict there, so stealing judges none twice;
  `HeardTell` is the account of `JudgeAll`, from which `ExitTells` has exit
  code 0.
* `GatesSplit` (`Drill`), for any shards, timings and plans, lost selections
  and those of another plan included. It holds in two parts. What `Schedule`
  computes deals each mutant into one bucket once: its recursive function
  exists (`DealtExists`), and a smallest number of steps after which a mutant
  is neither waiting nor dealt leads to a contradiction. What `CheckShards`
  accepts has as many shards as files and every shard number among them, so no
  number twice (a surjection of a finite set into itself is an injection), and
  the same assignment in all.
* `ScratchIsAlone` (`WorkDirs`), for any drills and prunes. `ScratchInv`: who is
  past the look at the path holds the lock of the file there, until a prune
  removed it.
* `DirsStayOwned` (`WorkDirs`), for any runs beside one another. `DirInv` says
  what a directory holds by its owner's stage (`HoldsTell`), so a sweep can tell
  it by its stamp; a sweep dooms only what is over or crashed, or is misjudged
  for a reason `Misjudged` names (`DoomTells`), what it owes it has removed once
  it is done (`OwedTells`), and nobody comes back to life in between, a pid that
  is taken again aside.

### 4.6 What is only model-checked, and why

* Liveness and fairness (`RunEnds`, `ShutdownEnds`, `SetupEnds`, `StopEnds`,
  `RunsEnd`, `GivenUpEnds`, `DrillFinishes`, `ChangeIsTested`): out of the
  prover's reach, `ENABLED` with them.
* `Collector`, `Declared`, `Migrate` and `SpecTree` have recursive operators,
  which follow trees and texts of any depth; a theorem may not reach one. So
  `GreenRanDeclared` (but for its part `GreenIsTrue`, which is proved) and
  `RewritesAreTrue` stay with TLC, and of `CommandsAreTrue` the parts of
  `SpecTree`, `TreeIsTrue` and `ShownIsTrue`; `BenchIsTrue` is proved.
* `CommandLineIsRead`, the last part of `CommandsAreTrue`: that every reader reads
  any list of words alike is an induction over the words.
* What a recursive function computes for every input. Where an order or a count
  is needed, the proofs take a least counterexample in a set instead
  (`WFMin`: `FirstExists`, `RisingExists`).
* Not attempted: what section 5 lists.

## 5. What is left

* `FixturesAreBound` (`Binding`) and `SnapshotsAreTrue` (`Snapshots`), two parts of
  `GreenRanDeclared`: their modules have no recursive operator, and could be
  proved about. `DeclaredIsOwed` could be stated of recursive functions over the
  declarations.
* Refactoring and scaffolding, help and configuration, test support: see 1.1.

A property that several modules answer together moves from its `MC` module to
the last of them when it is proved, as `StreamIsTrue` did to `Verdicts`,
`EditorIsTrue` to `EditorDiscovery` and `LintFixIsSafe` to `LintFix`.
