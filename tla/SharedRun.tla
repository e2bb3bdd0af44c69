----------------------------- MODULE SharedRun -----------------------------
(***************************************************************************)
(* A run of suites over shared fixtures: the shared fixture process of     *)
(* SharedSetup composed with the runner that drives it                     *)
(* (internal/gotestrunner: pipeline.go runStreaming, sharedfixture.go,     *)
(* fixtureledger.go, fixturewindow.go).                                    *)
(*                                                                         *)
(* The runner has three flows of control.  The dispatch runs the suites    *)
(* slot by slot: slot 0 is the bulk streamed with the compile, every later *)
(* slot a group's bulk or one exclusive suite, which starts the fixtures   *)
(* it needs just before it.  The releaser sends the keys the ledger frees, *)
(* one teardown command at a time.  Each command waits for its ack, a      *)
(* deadline, the run's cancellation or the process's end.  Last of all     *)
(* Teardown shuts the process down and judges how it ended.                *)
(*                                                                         *)
(* The protocol stream is read as it is written; a package is one suite.   *)
(***************************************************************************)
EXTENDS SharedSetup

CONSTANTS
    Suites,       \* the planned suites
    Needs,        \* Needs[s]: the shared fixtures s needs, closed under Deps
    SlotOf,       \* SlotOf[s]: the slot s is dispatched in
    LastSlot,     \* the last slot
    SetupTimeout, \* --setup-timeout: "flat" when positive, "none" when negative,
                  \* "own" at zero, when every setup declares its budget
    Untimed       \* the fixtures whose setup declares no budget

\* aliveFixtureKeys closes what a suite requires under the dependencies, and
\* planFixtureWindows compiles in what some suite needs, deferring what the
\* streamed bulk does not.
ASSUME PlanAssumption ==
    /\ IsFiniteSet(Suites) /\ LastSlot \in Nat
    /\ SlotOf \in [Suites -> 0..LastSlot]
    /\ Needs \in [Suites -> SUBSET Fixtures]
    /\ \A s \in Suites : \A f \in Needs[s] : Deps[f] \subseteq Needs[s]
    /\ Fixtures = UNION {Needs[s] : s \in Suites}
    /\ SetupTimeout \in {"flat", "own", "none"} /\ Untimed \subseteq Fixtures
    /\ Deferred = Fixtures \ UNION {Needs[s] : s \in {x \in Suites : SlotOf[x] = 0}}

VARIABLES
    stopped,     \* streamCtx is done: Ctrl-C or the run's deadline
    cut,         \* dispatchErr: it was done when the last verdict came in
    upfront,     \* how the runner saw the up-front phase end
    suite,       \* suite[s]: where suite s is
    slot,        \* the slot being dispatched; LastSlot + 1 once all are
    opened,      \* startFor has returned for this slot
    counts,      \* the ledger: counts[k] planned suites still need k
    begun,       \* the dispatch's map of keys started
    startCmd,    \* the start command the dispatch waits for; 0 for none
    pending,     \* freed keys the releaser has not taken up yet
    relCmd,      \* the teardown command the releaser waits for; 0 for none
    unstarted,   \* keys of starts given up
    held,        \* keys asked up and not acknowledged released
    overdue,     \* teardown commands given up at their budget
    lost,        \* slotErr or a release error is set
    ending,      \* where Teardown is
    verdict      \* the run's verdict

runVars    == <<stopped, cut, upfront, suite, slot, opened, counts, begun, startCmd,
                pending, relCmd, unstarted, held, overdue, lost, ending, verdict>>
allVars    == <<vars, runVars>>

SuiteStates == {"uncompiled", "ready", "running", "ran", "givenUp", "stopped",
                "dropped"}
Finished(s) == suite[s] \in {"ran", "givenUp", "stopped", "dropped"}

RunTypeOK ==
    /\ stopped \in BOOLEAN /\ cut \in BOOLEAN /\ opened \in BOOLEAN /\ lost \in BOOLEAN
    /\ upfront \in {"waiting", "over", "failed", "timedOut"}
    /\ suite \in [Suites -> SuiteStates]
    /\ slot \in 0..(LastSlot + 1)
    /\ counts \in [Fixtures -> Nat]
    /\ begun \subseteq Fixtures /\ pending \subseteq Fixtures
    /\ unstarted \subseteq Fixtures /\ held \subseteq Fixtures
    /\ startCmd \in 0..MaxCommands /\ relCmd \in 0..MaxCommands
    /\ overdue \subseteq Commands
    /\ ending \in {"no", "asked", "waiting", "killed", "over"}
    /\ verdict \in {"none", "green", "red"}

\* The suites of the plan that need key k.
Needing(k, S) == {s \in S : k \in Needs[s]}

RunInit ==
    /\ Init
    /\ stopped = FALSE /\ cut = FALSE /\ upfront = "waiting"
    /\ suite = [s \in Suites |-> "uncompiled"]
    /\ slot = 0 /\ opened = TRUE
    /\ counts = [k \in Fixtures |-> Cardinality(Needing(k, Suites))]
    /\ begun = Fixtures \ Deferred
    /\ held = Fixtures \ Deferred
    /\ startCmd = 0 /\ relCmd = 0
    /\ pending = {} /\ unstarted = {} /\ overdue = {}
    /\ lost = FALSE /\ ending = "no" /\ verdict = "none"

-----------------------------------------------------------------------------
(* The suites.                                                             *)

\* Mutant: a key is freed while one more suite needs it.
LedgerDone_OffByOne(s) ==
    /\ counts' = [k \in Fixtures |-> IF k \in Needs[s] THEN counts[k] - 1 ELSE counts[k]]
    /\ pending' = pending \cup {k \in Needs[s] : counts[k] = 2}

\* fixtureLedger.Done, and the releaser's queue: the keys whose last need this
\* was are freed.
LedgerDone(s) ==
    /\ counts' = [k \in Fixtures |-> IF k \in Needs[s] THEN counts[k] - 1 ELSE counts[k]]
    /\ pending' = pending \cup {k \in Needs[s] : counts[k] = 1}

SuiteGoes(s, st) == suite' = [suite EXCEPT ![s] = st]

\* A suite that will not run, or whose process is gone, is recorded and then
\* leaves the ledger.
SuiteEnds(s, st) == SuiteGoes(s, st) /\ LedgerDone(s)

restOfRun == <<cut, upfront, slot, opened, begun, startCmd, relCmd, unstarted, held,
               overdue, lost, ending, verdict>>

\* The compile stream delivers a package: its suite is dispatched or dropped.
Compiled(s) ==
    /\ slot = 0 /\ suite[s] = "uncompiled" /\ ~stopped
    /\ \/ SuiteGoes(s, "ready") /\ UNCHANGED <<counts, pending>>
       \/ SuiteEnds(s, "dropped")
    /\ UNCHANGED <<vars, stopped, restOfRun>>

\* A suite is dispatched once every fixture it needs came up; a slot past the
\* stream first opens.
Dispatch(s) ==
    /\ suite[s] = "ready" /\ SlotOf[s] = slot /\ opened /\ ~stopped
    /\ Needs[s] \subseteq published
    /\ SuiteGoes(s, "running")
    /\ UNCHANGED <<vars, stopped, counts, pending, restOfRun>>

\* A fixture it needs did not come up: in slot 0 once the setup is over for
\* the runner (AllDone or setupGaveUp), later at once.
GiveUp(s) ==
    /\ suite[s] = "ready" /\ SlotOf[s] = slot /\ opened /\ ~stopped
    /\ ~(Needs[s] \subseteq published)
    /\ slot = 0 => phase # "upfront" \/ upfront \in {"failed", "timedOut"}
    /\ SuiteEnds(s, "givenUp")
    /\ UNCHANGED <<vars, stopped, restOfRun>>

\* A stopped run records what it did not dispatch as stopped.
Stop(s) ==
    /\ stopped /\ suite[s] = "ready" /\ SlotOf[s] = slot /\ opened
    /\ SuiteEnds(s, "stopped")
    /\ UNCHANGED <<vars, stopped, restOfRun>>

\* The suite's process is gone.
SuiteReturns(s) ==
    /\ suite[s] = "running"
    /\ SuiteEnds(s, "ran")
    /\ UNCHANGED <<vars, stopped, restOfRun>>

\* Ctrl-C or --timeout.  Once the last verdict is in, it is not the run's
\* business any more.
Interrupt ==
    /\ ~stopped /\ ending = "no"
    /\ stopped' = TRUE
    /\ cut' = ~(slot > 0 /\ \A s \in Suites : Finished(s))
    /\ UNCHANGED <<vars, upfront, suite, counts, pending, slot, opened, begun,
                   startCmd, relCmd, unstarted, held, overdue, lost, ending, verdict>>

-----------------------------------------------------------------------------
(* The up-front phase, as WaitSetup sees it.                               *)

\* The _done line carried an error, or the stream ended without it.
SetupErr == doneLine = "failed" \/ (~Running /\ doneLine = "none")

\* A setup reports its budget before its BeforeAll is entered.  The first report
\* of none lifts the deadline of a wait for these keys for good; a negative
\* --setup-timeout sets none.
Reported(f) == setup[f] = "begin" \/ attempt[f] > 0
Unbounded(K) ==
    \/ SetupTimeout = "none"
    \/ SetupTimeout = "own" /\ \E f \in K \cap Untimed : Reported(f)

\* Mutant: the wait has no deadline.
WaitSetup_NoDeadline ==
    /\ upfront = "waiting"
    /\ \/ stopped /\ upfront' = "over"
       \/ ~stopped /\ doneLine = "ok" /\ upfront' = "over"
       \/ ~stopped /\ SetupErr /\ upfront' = "failed"
    /\ UNCHANGED <<vars, stopped, cut, suite, counts, pending, slot, opened, begun,
                   startCmd, relCmd, unstarted, held, overdue, lost, ending, verdict>>

\* A stop ends the wait whatever the setup did, and books no setup failure; the
\* deadline ends it while there is one.
WaitSetup ==
    /\ upfront = "waiting"
    /\ \/ stopped /\ upfront' = "over"
       \/ ~stopped /\ doneLine = "ok" /\ upfront' = "over"
       \/ ~stopped /\ SetupErr /\ upfront' = "failed"
       \/ /\ ~stopped /\ phase = "upfront" /\ ~Unbounded(Fixtures \ Deferred)
          /\ upfront' = "timedOut"
    /\ UNCHANGED <<vars, stopped, cut, suite, counts, pending, slot, opened, begun,
                   startCmd, relCmd, unstarted, held, overdue, lost, ending, verdict>>

-----------------------------------------------------------------------------
(* Slots past the stream, and the start command each may open with.        *)

SlotSuites == {s \in Suites : SlotOf[s] = slot}

\* The slot has drained; the stream also waits for the compile and the setup.
NextSlot ==
    /\ slot <= LastSlot /\ opened /\ startCmd = 0
    /\ \A s \in SlotSuites : Finished(s) \/ (stopped /\ suite[s] = "uncompiled")
    /\ slot = 0 => /\ upfront # "waiting"
                   /\ stopped \/ \A s \in Suites : suite[s] # "uncompiled"
    /\ slot' = slot + 1
    /\ opened' = FALSE
    /\ UNCHANGED <<vars, stopped, cut, upfront, suite, counts, begun, startCmd, pending,
                   relCmd, unstarted, held, overdue, lost, ending, verdict>>

ToStart ==
    (UNION {Needs[s] : s \in {x \in SlotSuites : suite[x] = "ready"}}) \ begun

\* startFor: what the slot's suites need and no slot before it started.  A
\* setup that timed out, or a stopped run, starts nothing more.
OpenSlot ==
    /\ slot <= LastSlot /\ ~opened /\ startCmd = 0
    /\ stopped \/ upfront = "timedOut" \/ ToStart = {}
    /\ opened' = TRUE
    /\ UNCHANGED <<vars, stopped, cut, upfront, suite, slot, counts, begun, startCmd,
                   pending, relCmd, unstarted, held, overdue, lost, ending, verdict>>

StartKeys(c) ==
    /\ slot <= LastSlot /\ ~opened /\ startCmd = 0
    /\ ~stopped /\ upfront # "timedOut" /\ ToStart # {}
    /\ Send(c, "start", ToStart)
    /\ startCmd' = c
    /\ begun' = begun \cup ToStart
    /\ held' = held \cup ToStart
    /\ UNCHANGED <<stopped, cut, upfront, suite, slot, opened, counts, pending, relCmd,
                   unstarted, overdue, lost, ending, verdict>>

\* Nobody reads the pipe any more: the write fails.
StartKeysFails ==
    /\ slot <= LastSlot /\ ~opened /\ startCmd = 0
    /\ ~stopped /\ upfront # "timedOut" /\ ToStart # {} /\ ~Running
    /\ opened' = TRUE /\ lost' = TRUE
    /\ begun' = begun \cup ToStart
    /\ held' = held \cup ToStart
    /\ UNCHANGED <<vars, stopped, cut, upfront, suite, slot, counts, startCmd, pending,
                   relCmd, unstarted, overdue, ending, verdict>>

\* command: the ack, the process's end, the cancellation or the deadline, which
\* for a start is that of its setups.  A start given up before its ack leaves
\* its keys unstarted for good.
StartReturns ==
    /\ startCmd # 0
    /\ \/ /\ cstate[startCmd] = "acked"
          /\ lost' = (lost \/ ack[startCmd] # "ok")
          /\ UNCHANGED unstarted
       \/ /\ cstate[startCmd] # "acked" /\ ~Running
          /\ lost' = TRUE /\ UNCHANGED unstarted
       \/ /\ cstate[startCmd] # "acked" /\ (stopped \/ ~Unbounded(keys[startCmd]))
          /\ lost' = TRUE
          /\ unstarted' = unstarted \cup keys[startCmd]
    /\ startCmd' = 0 /\ opened' = TRUE
    /\ UNCHANGED <<vars, stopped, cut, upfront, suite, slot, counts, begun, pending,
                   relCmd, held, overdue, ending, verdict>>

-----------------------------------------------------------------------------
(* The releaser.                                                           *)

\* The releaser's context: streamCtx, cancelled before Teardown too.
ReleaserRuns == ~stopped /\ slot <= LastSlot

\* A batch that goes nowhere: the setup timed out, or a start was given up.
Withhold ==
    /\ ReleaserRuns /\ relCmd = 0 /\ pending # {} /\ upfront # "waiting"
    /\ upfront = "timedOut" \/ unstarted # {}
    /\ pending' = {}
    /\ UNCHANGED <<vars, stopped, cut, upfront, suite, slot, opened, counts, begun,
                   startCmd, relCmd, unstarted, held, overdue, lost, ending, verdict>>

\* Mutant: releases go on after a start was given up.
TeardownKeys_AfterGivenUp(c) ==
    /\ ReleaserRuns /\ relCmd = 0 /\ pending # {}
    /\ upfront \in {"over", "failed"}
    /\ Send(c, "teardown", pending)
    /\ relCmd' = c /\ pending' = {}
    /\ UNCHANGED <<stopped, cut, upfront, suite, slot, opened, counts, begun, startCmd,
                   unstarted, held, overdue, lost, ending, verdict>>

\* A batch goes out as one command once the up-front phase is over, unless a
\* start was given up: a fixture it still brings up may rest on any of them.
TeardownKeys(c) ==
    /\ ReleaserRuns /\ relCmd = 0 /\ pending # {}
    /\ upfront \in {"over", "failed"} /\ unstarted = {}
    /\ Send(c, "teardown", pending)
    /\ relCmd' = c /\ pending' = {}
    /\ UNCHANGED <<stopped, cut, upfront, suite, slot, opened, counts, begun, startCmd,
                   unstarted, held, overdue, lost, ending, verdict>>

TeardownKeysFails ==
    /\ ReleaserRuns /\ relCmd = 0 /\ pending # {}
    /\ upfront \in {"over", "failed"} /\ unstarted = {} /\ ~Running
    /\ pending' = {} /\ lost' = TRUE
    /\ UNCHANGED <<vars, stopped, cut, upfront, suite, slot, opened, counts, begun,
                   startCmd, relCmd, unstarted, held, overdue, ending, verdict>>

\* Mutant: a refused release counts as released.
Acked_EvenRefused(c) == held' = held \ keys[c]

\* acked: a release that ran holds nothing, whether it failed or not.
Acked(c) == held' = IF ack[c] = "refused" THEN held ELSE held \ keys[c]

TeardownReturns ==
    /\ relCmd # 0
    /\ \/ /\ cstate[relCmd] = "acked"
          /\ Acked(relCmd)
          /\ lost' = (lost \/ (ack[relCmd] # "ok" /\ ReleaserRuns))
          /\ UNCHANGED overdue
       \/ /\ cstate[relCmd] # "acked" /\ ~Running
          /\ lost' = (lost \/ ReleaserRuns) /\ UNCHANGED <<held, overdue>>
       \/ /\ cstate[relCmd] # "acked" /\ ~ReleaserRuns
          /\ UNCHANGED <<held, overdue, lost>>
       \/ /\ cstate[relCmd] # "acked"
          /\ lost' = (lost \/ ReleaserRuns)
          /\ overdue' = overdue \cup {relCmd} /\ UNCHANGED held
    /\ relCmd' = 0
    /\ UNCHANGED <<vars, stopped, cut, upfront, suite, slot, opened, counts, begun,
                   startCmd, pending, unstarted, ending, verdict>>

\* The ack of a release given up at its budget: it finished after all.
LateAck(c) ==
    /\ c \in overdue /\ cstate[c] = "acked" /\ ending # "over"
    /\ overdue' = overdue \ {c}
    /\ Acked(c)
    /\ UNCHANGED <<vars, stopped, cut, upfront, suite, slot, opened, counts, begun,
                   startCmd, pending, relCmd, unstarted, lost, ending, verdict>>

-----------------------------------------------------------------------------
(* Teardown and the verdict.                                               *)

restOfEnd == <<stopped, cut, upfront, suite, slot, opened, counts, begun, startCmd,
               pending, relCmd, unstarted, held, overdue, lost>>

\* Teardown begins once the dispatch and the releaser have ended: it asks the
\* process to stop unless it is gone already.
AskToEnd ==
    /\ ending = "no" /\ slot > LastSlot /\ relCmd = 0
    /\ ending' = IF Running THEN "asked" ELSE "waiting"
    /\ IF Running /\ ~cancelled THEN Cancel ELSE UNCHANGED vars
    /\ UNCHANGED <<restOfEnd, verdict>>

\* Everything the process holds is in a release given up at its budget.
OnlyOverdue ==
    overdue # {} /\ held \subseteq UNION {keys[c] : c \in overdue}

\* Kill at once what has had its budget, else wait for the process to exit.
JudgeOverdue ==
    /\ ending = "asked"
    /\ IF OnlyOverdue
         THEN /\ IF Running THEN Die ELSE UNCHANGED vars
              /\ ending' = "killed"
         ELSE UNCHANGED vars /\ ending' = "waiting"
    /\ UNCHANGED <<restOfEnd, verdict>>

\* awaitExit: the budget passes first.
KillAtBudget ==
    /\ ending = "waiting" /\ Running
    /\ Die /\ ending' = "killed"
    /\ UNCHANGED <<restOfEnd, verdict>>

\* Mutant: one failure status is recognised, everything else passes.
TeardownPassed_UnlessExit1 ==
    /\ ending # "killed"
    /\ IF SetupErr
         THEN ~(phase \in {"exit0", "exit1"} /\ tornFailed # {})
         ELSE phase # "exit1"

\* exitVerdict: a setup failure leaves only the _teardown report; otherwise a
\* clean exit is the only proof.
TeardownPassed ==
    /\ ending # "killed"
    /\ IF SetupErr
         THEN ~(phase \in {"exit0", "exit1"} /\ tornFailed # {})
         ELSE phase = "exit0"

\* The run's exit code is zero.
Green ==
    /\ TeardownPassed /\ ~lost /\ ~cut
    /\ upfront = "over"
    /\ \A s \in Suites : suite[s] = "ran"

Conclude ==
    /\ ending \in {"waiting", "killed"} /\ ~Running
    /\ ending' = "over"
    /\ verdict' = IF Green THEN "green" ELSE "red"
    /\ UNCHANGED <<vars, restOfEnd>>

-----------------------------------------------------------------------------
SuiteStep(s) ==
    Compiled(s) \/ Dispatch(s) \/ GiveUp(s) \/ Stop(s) \/ SuiteReturns(s)

Runner ==
    \/ \E s \in Suites : SuiteStep(s)
    \/ WaitSetup \/ NextSlot \/ OpenSlot \/ StartKeysFails \/ StartReturns
    \/ Withhold \/ TeardownKeysFails \/ TeardownReturns
    \/ \E c \in Commands : StartKeys(c) \/ TeardownKeys(c) \/ LateAck(c)
    \/ AskToEnd \/ JudgeOverdue \/ KillAtBudget \/ Conclude

\* The process steps on its own; it may die at any moment.
ProcessStep == (Process \/ Die) /\ UNCHANGED runVars

RunEnded == ending = "over" /\ UNCHANGED allVars

RunNext == Runner \/ Interrupt \/ ProcessStep \/ RunEnded

RunSpec == RunInit /\ [][RunNext]_allVars

\* The runner's goroutines are scheduled and its timers fire; a suite's process
\* ends, by itself or killed after its grace.  Nothing is assumed of the shared
\* fixture process: its BeforeAll or AfterAll may hang.
RunFairness ==
    /\ WF_allVars(Runner)
    /\ \A s \in Suites : WF_allVars(SuiteReturns(s))

FairRunSpec == RunSpec /\ RunFairness

-----------------------------------------------------------------------------
(* Properties.                                                             *)

\* What a fixture's BeforeAll reached and no AfterAll has given back.
Live(f) == entered[f] > released[f]

\* A suite reads live fixtures: while it runs, everything it needs is up, and
\* no release of it has begun, neither by the releaser beside it nor by the
\* shutdown.  (A process that died took its fixtures with it.)
SuiteFixturesUp ==
    phase # "killed" =>
        \A s \in Suites : suite[s] = "running" =>
            Needs[s] \subseteq {f \in published : f \notin torn /\ Live(f)}

\* A fixture outlives its dependents: while one holds anything, or its
\* BeforeAll runs, no AfterAll of a dependency has begun.
DependenciesOutlive ==
    \A f \in Fixtures : \A d \in Deps[f] :
        Live(f) => d \in published /\ d \notin torn

\* What the graph promises (FixtureLife), read from the state of the process.
LifeOf(f) ==
    IF phase \in {"killed", "orphaned"} THEN "over"
    ELSE IF teardown[f] = "afterAll" THEN "going"
    ELSE IF teardown[f] = "ended" /\ f \in attempted THEN "over"
    ELSE IF ~Live(f) THEN "down"
    ELSE IF setup[f] = "between" THEN "back"
    ELSE IF f \in published THEN "serving"
    ELSE "coming"

Lived == [f \in Fixtures |-> LifeOf(f)]

Life == INSTANCE FixtureLife
            WITH Fixtures <- Fixtures, Needs <- Deps, life <- Lived

\* What a suite reads is there: a running suite has every fixture it needs up,
\* and none of them loses what it rests on (fixtureledger.go:58,
\* sharedfixture.go.tpl:329).  The process under its runner implements the life
\* of the graph, which it does not under every client.
FixturesServe == [](SuiteFixturesUp /\ DependenciesOutlive) /\ Life!LifeSpec

\* Every BeforeAll entered is released once: never twice, and, when the
\* process runs to its own end, never left out.
ReleasedOnce ==
    \A f \in Fixtures :
        /\ released[f] <= entered[f] /\ entered[f] <= released[f] + 1
        /\ phase \in {"exit0", "exit1"} => released[f] = entered[f]

\* A green run is proof: every suite ran, and every fixture that came up was
\* released by an AfterAll that passed.
GreenMeansReleased ==
    verdict = "green" =>
        /\ \A f \in Fixtures : entered[f] = released[f] /\ f \notin tornFailed
        /\ \A s \in Suites : suite[s] = "ran"

\* Teardown kills at once only a process whose live fixtures have all had the
\* whole budget of a release.
OnlyOverdueIsKilledAtOnce ==
    [][ending = "asked" /\ ending' = "killed" =>
          \A f \in Fixtures : Live(f) => \E c \in overdue : f \in keys[c]]_allVars

\* The run waits for setups without a deadline, as it was asked to, for a
\* BeforeAll that does not return.
WaitsUnbounded ==
    /\ ~stopped /\ Running
    /\ \/ upfront = "waiting" /\ Unbounded(Fixtures \ Deferred)
       \/ startCmd # 0 /\ Unbounded(keys[startCmd])

\* The run ends with a verdict, however long an AfterAll or a BeforeAll with a
\* budget hangs and whenever it is interrupted: all that can keep it for good is
\* a setup without a deadline, and an interrupt ends that wait too.
RunEnds == <>(verdict # "none") \/ <>[]WaitsUnbounded
=============================================================================
