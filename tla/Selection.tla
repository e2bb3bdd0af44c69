----------------------------- MODULE Selection -----------------------------
(***************************************************************************)
(* What a run runs (internal/gotestrunner): --group and --skip-group       *)
(* (groups.go), -run, -skip and -bench read as the testing package reads   *)
(* them (namefilter.go), the plan made before anything is compiled and the *)
(* fixtures it keeps (fixturewindow.go), the targets made after the        *)
(* compiler (BuildSuiteTargets and BuildBenchTargets, suiterun.go), the    *)
(* command line of each, and the fixture windows of a bench run's slots.   *)
(*                                                                         *)
(* A pattern is a sequence of alternatives, each the set of the top-level  *)
(* functions its first level matches and, if it has a second, the one      *)
(* subtest that matches.  Subtests are one level deep.                     *)
(***************************************************************************)
EXTENDS Naturals, Sequences, FiniteSets, SequencesExt

CONSTANTS
    Suites,       \* in the order targets are sorted
    TestlessIn,   \* suites with fuzz wrappers only
    FuzzOf,       \* each suite's fuzz wrappers
    NamedGroup,   \* each suite's ExclusiveGroup, "" for none
    ExclusiveIn,  \* suites with SuiteConfig{Exclusive: true}
    BenchesIn,    \* suites with benchmarks
    Required,     \* the shared fixtures each suite asks for
    Dependencies, \* the fixtures each fixture depends on
    Subtests,
    Patterns      \* the patterns that may be given, <<>> for none

Fixtures == DOMAIN Dependencies
SuiteSet == ToSet(Suites)

\* Discovery lists a suite once and refuses a cycle of fixtures (bind.go).
ASSUME SelectionAssumption ==
    /\ Len(Suites) \in Nat /\ DOMAIN Suites = 1..Len(Suites) /\ IsInjective(Suites)
    /\ BenchesIn \subseteq SuiteSet
    /\ IsFiniteSet(Fixtures) /\ Dependencies \in [Fixtures -> SUBSET Fixtures]
    /\ Required \in [SuiteSet -> SUBSET Fixtures]
    /\ \E depth \in [Fixtures -> 0..Cardinality(Fixtures)] :
          \A f \in Fixtures : \A d \in Dependencies[f] : depth[d] < depth[f]
    /\ \A p \in Patterns : Len(p) \in Nat /\ DOMAIN p = 1..Len(p)

TestName(s) == <<"Test", s>>
BenchName(s) == <<"Benchmark", s>>
WrapperOf(s) == {<<"Fuzz", f>> : f \in FuzzOf[s]}
TestFuncs == {TestName(s) : s \in SuiteSet \ TestlessIn} \cup UNION {WrapperOf(s) : s \in SuiteSet}

VARIABLES
    runPattern, skipPattern, benchPattern, only, without,   \* the command line
    benching,
    uncompiled,   \* suites whose binary did not build
    planStage,    \* "groups", "plan", "targets", "slots", "over", "refused"
    bulkKeys, tailKeys, listed,    \* fixtureWindows
    planned,      \* the suites the plan counts on, before the compiler
    targets,      \* each target's suite and RunFilter
    slotAt, aliveKeys, startedKeys \* a bench run's slot, and its windows

selectionInputs == <<runPattern, skipPattern, benchPattern, only, without, benching, uncompiled>>
selectionVars == <<selectionInputs, planStage, bulkKeys, tailKeys, listed, planned, targets,
                   slotAt, aliveKeys, startedKeys>>

------------------------------------------------------------------------------
(* namefilter.go *)

Has2(alt) == alt.sub # ""

\* matchTop: the first alternative whose first level matches decides.
MatchTop(pattern, f) ==
    LET hits == {i \in DOMAIN pattern : f \in pattern[i].top} IN
    IF hits = {} THEN "no"
    ELSE IF Has2(pattern[CHOOSE i \in hits : \A j \in hits : i <= j]) THEN "partial" ELSE "whole"

SelectsFunc(pattern, f) == pattern = <<>> \/ MatchTop(pattern, f) # "no"
SkipsFunc(pattern, f) == pattern # <<>> /\ MatchTop(pattern, f) = "whole"
SelectsBench(s) ==
    /\ SelectsFunc(runPattern, BenchName(s)) /\ SelectsFunc(benchPattern, BenchName(s))
    /\ ~SkipsFunc(skipPattern, BenchName(s))

\* A suite is in when -run enters one of its functions and -skip leaves one.
SuiteFuncs(s) == (IF s \in TestlessIn THEN {} ELSE {TestName(s)}) \cup WrapperOf(s)
SelectsSuite(s) == \E f \in SuiteFuncs(s) : SelectsFunc(runPattern, f)
SkipsSuite(s) == SuiteFuncs(s) # {} /\ \A f \in SuiteFuncs(s) : SkipsFunc(skipPattern, f)

SelectsGroup(g) == (only # {} => g \in only) /\ g \notin without

------------------------------------------------------------------------------
(* fixturewindow.go *)

\* aliveFixtureKeys: what the suites ask for and all that depends on.
Closed(keys) == \A k \in keys : Dependencies[k] \subseteq keys
RequiredBy(ss) == UNION {Required[s] : s \in ss}
AliveFixtureKeys(ss) ==
    {k \in Fixtures : \A keys \in SUBSET Fixtures : Closed(keys) /\ RequiredBy(ss) \subseteq keys => k \in keys}

PlannedSuites == {s \in SuiteSet : SelectsGroup(NamedGroup[s]) /\ SelectsSuite(s) /\ ~SkipsSuite(s)}
PlannedBenches == {s \in BenchesIn : SelectsBench(s)}

\* planSuiteScopes: the default group first, then the named ones; its bulk
\* streams with the compile.
ScopeGroups == {NamedGroup[s] : s \in PlannedSuites}
FirstGroup == IF "" \in ScopeGroups THEN "" ELSE CHOOSE g \in ScopeGroups : TRUE
FirstBulk == {s \in PlannedSuites : NamedGroup[s] = FirstGroup /\ s \notin ExclusiveIn}

FirstOf(ss) == IF ss = {} THEN {}
               ELSE {Suites[CHOOSE i \in DOMAIN Suites :
                       Suites[i] \in ss /\ \A j \in 1..(i - 1) : Suites[j] \notin ss]}

\* dependenciesFirst: each fixture after those it depends on.
DependenciesFirst(keys) ==
    CHOOSE q \in [1..Cardinality(keys) -> keys] :
        /\ \A i, j \in DOMAIN q : i # j => q[i] # q[j]
        /\ \A i, j \in DOMAIN q : q[i] \in Dependencies[q[j]] => i < j

------------------------------------------------------------------------------
(* suiterun.go *)

\* Mutant: the alternatives of another suite stay in a suite's filter when one
\* of its own has a subtest.
SuiteRunFilter_Own(pattern, f) == {a \in ToSet(pattern) : f \in a.top /\ Has2(a)}

\* The alternatives that enter f, when the pattern goes to subtests; their order
\* says nothing any more.
SuiteRunFilter(pattern, f) ==
    IF ~\E i \in DOMAIN pattern : Has2(pattern[i]) THEN {}
    ELSE IF Len(pattern) = 1 THEN ToSet(pattern)
    ELSE {a \in ToSet(pattern) : f \in a.top}

\* A suite chosen for a fuzz wrapper's name alone gets the whole pattern.
SuiteTarget(s) ==
    LET own == SuiteRunFilter(runPattern, TestName(s)) IN
    [suite |-> s,
     filter |-> IF own # {} THEN own
                ELSE IF runPattern # <<>> /\ (s \in TestlessIn \/ ~SelectsFunc(runPattern, TestName(s)))
                THEN ToSet(runPattern) ELSE {}]

BuildSuiteTargets ==
    {SuiteTarget(s) : s \in {s \in SuiteSet \ uncompiled :
        SelectsSuite(s) /\ ~SkipsSuite(s) /\ SelectsGroup(NamedGroup[s])}}

BenchTarget(s) == [suite |-> s, filter |-> SuiteRunFilter(benchPattern, BenchName(s))]

BuildBenchTargets == {BenchTarget(s) : s \in {s \in BenchesIn \ uncompiled : SelectsBench(s)}}

\* buildSuiteCmd: the functions a target's process is told to enter.
CommandEnters(t, f) ==
    IF t.filter # {} THEN \E a \in t.filter : f \in a.top
    ELSE f = TestName(t.suite) \/ f \in WrapperOf(t.suite)

------------------------------------------------------------------------------
(* The testing package, in the binary *)

Matches(alt, f, x) == f \in alt.top /\ (Has2(alt) => alt.sub = x)
Entered(pattern, f, x) == pattern = <<>> \/ \E i \in DOMAIN pattern : Matches(pattern[i], f, x)
NotSkipped(f, x) == ~\E i \in DOMAIN skipPattern : Matches(skipPattern[i], f, x)

GoTestRuns(f, x) == Entered(runPattern, f, x) /\ NotSkipped(f, x)
TargetRuns(t, f, x) == /\ CommandEnters(t, f) /\ NotSkipped(f, x)
                       /\ t.filter # {} => \E a \in t.filter : Matches(a, f, x)

------------------------------------------------------------------------------
SelectionIn(where) ==
    /\ planStage = where
    /\ bulkKeys = {} /\ tailKeys = {} /\ listed = <<>> /\ planned = {} /\ targets = {}
    /\ slotAt = 0 /\ aliveKeys = {} /\ startedKeys = <<>>

SelectionInit ==
    /\ SelectionIn("groups")
    /\ benching \in BOOLEAN /\ uncompiled \in {{}} \cup {{s} : s \in SuiteSet}
    /\ runPattern \in Patterns
    /\ skipPattern \in {p \in Patterns : Len(p) <= 1}
    /\ IF benching THEN only = {} /\ without = {} /\ benchPattern \in {p \in Patterns : Len(p) <= 1}
       ELSE /\ benchPattern = <<>>
            /\ only \in SUBSET {"g", "unknown"} /\ without \in SUBSET {"g"}

\* selectGroups: a name no suite declares is refused.
SelectGroups ==
    /\ planStage = "groups"
    /\ planStage' = IF only \cup without \subseteq {NamedGroup[s] : s \in SuiteSet}
                    THEN "plan" ELSE "refused"
    /\ UNCHANGED <<selectionInputs, bulkKeys, tailKeys, listed, planned, targets, slotAt, aliveKeys,
                   startedKeys>>

\* planFixtureWindows, and planBenchFixtureWindows for a bench run.
PlanWindows ==
    /\ planStage = "plan" /\ planStage' = "targets"
    /\ planned' = IF benching THEN PlannedBenches ELSE PlannedSuites
    /\ bulkKeys' = AliveFixtureKeys(IF benching THEN FirstOf(planned') ELSE FirstBulk)
    /\ tailKeys' = AliveFixtureKeys(planned' \ (IF benching THEN {} ELSE FirstBulk))
    /\ listed' = DependenciesFirst(bulkKeys' \cup tailKeys')
    /\ UNCHANGED <<selectionInputs, targets, slotAt, aliveKeys, startedKeys>>

BuildTargets ==
    /\ planStage = "targets"
    /\ targets' = IF benching THEN BuildBenchTargets ELSE BuildSuiteTargets
    /\ planStage' = IF benching THEN "slots" ELSE "over"
    /\ aliveKeys' = bulkKeys /\ startedKeys' = IF benching THEN SetToSeq(bulkKeys) ELSE <<>>
    /\ slotAt' = 1
    /\ UNCHANGED <<selectionInputs, bulkKeys, tailKeys, listed, planned>>

\* A bench run's slots, in order: what the slot needs is started before it,
\* and what no later one needs is released after it.  A suite without a target
\* is no slot.
Targeted(i) == \E t \in targets : t.suite = Suites[i]
SlotNeeds(i) == IF Targeted(i) THEN AliveFixtureKeys({Suites[i]}) ELSE {}
LaterNeeds(i) == UNION {SlotNeeds(j) : j \in i..Len(Suites)}

AfterSlot(i) == aliveKeys \cap LaterNeeds(i + 1)

BeforeSlot ==
    /\ planStage = "slots" /\ slotAt <= Len(Suites) /\ ~SlotNeeds(slotAt) \subseteq aliveKeys
    /\ startedKeys' = startedKeys \o SetToSeq(SlotNeeds(slotAt) \ aliveKeys)
    /\ aliveKeys' = aliveKeys \cup SlotNeeds(slotAt)
    /\ UNCHANGED <<selectionInputs, planStage, bulkKeys, tailKeys, listed, planned, targets, slotAt>>

SlotRuns ==
    /\ planStage = "slots"
    /\ IF slotAt > Len(Suites)
       THEN planStage' = "over" /\ UNCHANGED <<slotAt, aliveKeys>>
       ELSE /\ SlotNeeds(slotAt) \subseteq aliveKeys
            /\ aliveKeys' = IF Targeted(slotAt) THEN AfterSlot(slotAt) ELSE aliveKeys
            /\ slotAt' = slotAt + 1 /\ UNCHANGED planStage
    /\ UNCHANGED <<selectionInputs, bulkKeys, tailKeys, listed, planned, targets, startedKeys>>

SelectionNext == SelectGroups \/ PlanWindows \/ BuildTargets \/ BeforeSlot \/ SlotRuns

SelectionSpec == SelectionInit /\ [][SelectionNext]_selectionVars

------------------------------------------------------------------------------
\* Every test go test would run of the selected groups is run by its suite's
\* own target, and a target runs nothing else but its own suite's fuzz seeds
\* (BuildSuiteTargets, suiterun.go:406; buildSuiteCmd, :129).
SelectionIsGoTests ==
    planStage = "over" /\ ~benching =>
        /\ \A s \in SuiteSet \ (TestlessIn \cup uncompiled), x \in Subtests :
              SelectsGroup(NamedGroup[s]) /\ GoTestRuns(TestName(s), x) =>
                  \E t \in targets : t.suite = s /\ TargetRuns(t, TestName(s), x)
        /\ \A t \in targets, f \in TestFuncs, x \in Subtests :
              TargetRuns(t, f, x) => GoTestRuns(f, x) \/ f \in WrapperOf(t.suite)

\* The plan counts on what will be dispatched, so that every target's fixtures,
\* and what those depend on, are among the listed ones, each after its own
\* dependencies; a bench run starts no fixture twice
\* (planFixtureWindows, fixturewindow.go:41; benchSlotPlan, :296; runBench,
\* pipeline.go:520).
FixturesArePlanned ==
    planStage \in {"slots", "over"} =>
        /\ {t.suite : t \in targets} = planned \ uncompiled
        /\ \A t \in targets : AliveFixtureKeys({t.suite}) \subseteq ToSet(listed)
        /\ \A i \in DOMAIN listed : Dependencies[listed[i]] \subseteq {listed[j] : j \in 1..(i - 1)}
        /\ IsInjective(startedKeys) /\ ToSet(startedKeys) \subseteq ToSet(listed)

RunIsSelected == SelectionIsGoTests /\ FixturesArePlanned
=============================================================================
