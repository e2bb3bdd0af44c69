------------------------------ MODULE SpecTree ------------------------------
(***************************************************************************)
(* From a package's go test -json stream to the tree, the counts and the   *)
(* verdict gotest shows: BuildTree reads the events one by one             *)
(* (internal/gotestspec/tree.go), attachFuzzWrappers brings a suite's fuzz *)
(* targets home, CollectStats counts, EffectiveDuration measures, the      *)
(* summary is green or not (summary.go), and a replayed stream gets an     *)
(* exit code (cmd/gotest/spec.go); and the commands that show a run, from  *)
(* their flags to their exit code (cmd/gotest: spec.go, summary.go).       *)
(*                                                                         *)
(* The other half is go test: tests that run, park, fail and end, in       *)
(* sequence or side by side, each event carrying the time.  A name is a    *)
(* sequence of parts <<word, n>>, split at the slashes, with n for a       *)
(* "#n" the testing package added.                                         *)
(***************************************************************************)
EXTENDS Naturals, Sequences, FiniteSets, SequencesExt, FiniteSetsExt

CONSTANTS
    SubNames,    \* what t.Run may be given: sequences of words, one per slash and one
    BenchTexts,  \* what a benchmark may print: "r1" "r2" is a result, "n" ends a line
    MaxTops, MaxSubs,   \* bounds: the top-level tests of a stream, and the subtests
    MaxClock,    \* bound: the clock
    Requests,    \* what is asked of gotest, gotest spec and gotest summary
    MaxShows     \* bound: the commands run one after another

Suite == <<<<"Suite", 0>>>>
Other == <<<<"Other", 0>>>>
Wrapper == <<<<"FuzzSuite_M", 0>>>>
Bench == <<<<"Benchmark", 0>>>>
TopNames == {Suite, Other, Wrapper, Bench}
Unset == MaxClock + 1

VARIABLES
    clock,
    tests,    \* go test's: every test, in the order they started
    busyTicks,\* history: how long some suite was running
    nodes,    \* BuildTree's nmap: by name, and whether it is the second run's
    levels    \* the levels each test was placed at, as the lengths of its prefixes

goTestVars == <<clock, tests, busyTicks>>
specTreeVars == <<goTestVars, nodes, levels>>

Prefix(name, i) == SubSeq(name, 1, i)
Merge(f, g) == [k \in DOMAIN f \cup DOMAIN g |-> IF k \in DOMAIN g THEN g[k] ELSE f[k]]

------------------------------------------------------------------------------
(* BuildTree *)

NewNode(up, start) == [up |-> up, status |-> "none", start |-> start, end |-> Unset, dur |-> 0,
                       paused |-> FALSE, partial |-> <<>>, found |-> FALSE]

\* Mutant: a finished test is taken for the parent of what its name begins.
JoinUnstartedLevels_Finished(name) ==
    LET parents == {i \in 1..(Len(name) - 1) : <<Prefix(name, i), FALSE>> \in DOMAIN nodes} IN
    IF parents = {} THEN 1..Len(name)
    ELSE LET p == Prefix(name, Max(parents)) IN
         (IF p \in DOMAIN levels THEN levels[p] ELSE 1..Len(p)) \cup {Len(name)}

\* The levels below the deepest running ancestor are one name.
JoinUnstartedLevels(name) ==
    LET parents == {i \in 1..(Len(name) - 1) :
                      /\ <<Prefix(name, i), FALSE>> \in DOMAIN nodes
                      /\ nodes[<<Prefix(name, i), FALSE>>].status = "none"} IN
    IF parents = {} THEN 1..Len(name)
    ELSE LET p == Prefix(name, Max(parents)) IN
         (IF p \in DOMAIN levels THEN levels[p] ELSE 1..Len(p)) \cup {Len(name)}

LevelsOf(name, starts) ==
    IF name \in DOMAIN levels THEN levels[name]
    ELSE IF starts THEN JoinUnstartedLevels(name) ELSE 1..Len(name)

HasDuplicateSuffix(part) == part[2] > 0

\* A "#n" below a suite that ran a second time is the second run's.
ResolveDuplicate(name, at) ==
    IF /\ <<Prefix(name, 1), TRUE>> \in DOMAIN nodes
       /\ \E i \in at \ {1} : HasDuplicateSuffix(name[i])
    THEN <<[i \in DOMAIN name |-> IF i \in at THEN <<name[i][1], 0>> ELSE name[i]], TRUE>>
    ELSE <<name, FALSE>>

\* Every level of the path has a node under the level above.
Placed(key, at) ==
    LET keyAt(i) == <<Prefix(key[1], i), key[2]>>
        upOf(i) == IF i = 1 THEN <<>> ELSE keyAt(Max({j \in at : j < i})) IN
    Merge([k \in {keyAt(i) : i \in at} |-> NewNode(upOf(Len(k[1])), Unset)], nodes)

\* A top-level test's second run has a node of its own.
SecondRun(name) == Len(name) = 1 /\ <<name, FALSE>> \in DOMAIN nodes

ReadRun(name) ==
    LET at == LevelsOf(name, TRUE)
        key == ResolveDuplicate(name, at)
        grown == Placed(key, at) IN
    /\ levels' = Merge(levels, [n \in {name} |-> at])
    /\ nodes' = IF SecondRun(name)
                THEN Merge(nodes, [k \in {<<name, TRUE>>} |-> NewNode(<<>>, clock)])
                ELSE [grown EXCEPT ![key].start = IF @ = Unset THEN clock ELSE @]

\* A top-level test's events are its second run's once the first has a verdict.
NodeOf(name) ==
    LET key == ResolveDuplicate(name, LevelsOf(name, FALSE)) IN
    IF Len(name) = 1 /\ nodes[key].status # "none" /\ <<name, TRUE>> \in DOMAIN nodes
    THEN <<name, TRUE>> ELSE key

ReadPause(name) == nodes' = [nodes EXCEPT ![NodeOf(name)].paused = TRUE]

ReadVerdict(name, verdict, elapsed) ==
    nodes' = [nodes EXCEPT ![NodeOf(name)] =
                [@ EXCEPT !.status = verdict, !.dur = elapsed, !.end = clock]]

------------------------------------------------------------------------------
(* benchScan *)

LastBreak(text, i) == Max({0} \cup {j \in 1..(i - 1) : text[j] = "n"})
WholeLines(text) == {SubSeq(text, LastBreak(text, i) + 1, i - 1) : i \in {i \in DOMAIN text : text[i] = "n"}}
Remainder(text) == SubSeq(text, LastBreak(text, Len(text) + 1) + 1, Len(text))
Result == <<"r1", "r2">>

\* Whole lines are read, what follows the last newline waits for the next chunk;
\* a result line is the only success a benchmark reports.
ReadOutput(name, chunk) ==
    LET n == nodes[NodeOf(name)]
        text == n.partial \o chunk IN
    nodes' = [nodes EXCEPT ![NodeOf(name)] =
                IF n.found THEN n
                ELSE IF Result \in WholeLines(text)
                THEN [n EXCEPT !.found = TRUE, !.status = IF @ = "none" THEN "pass" ELSE @]
                ELSE [n EXCEPT !.partial = Remainder(text)]]

\* end, of every scan once the stream is over.
ScanEnds(n) ==
    IF n.found \/ n.partial # Result THEN n
    ELSE [n EXCEPT !.found = TRUE, !.status = IF @ = "none" THEN "pass" ELSE @]

------------------------------------------------------------------------------
(* The tree *)

\* attachFuzzWrappers: a wrapper stands under its suite, which is made up if it
\* did not run, and fails with it.
AttachFuzzWrappers(tree) ==
    LET w == <<Wrapper, FALSE>>
        s == <<Suite, FALSE>> IN
    IF w \notin DOMAIN tree THEN tree
    ELSE LET home == IF s \in DOMAIN tree THEN tree[s]
                     ELSE [NewNode(<<>>, tree[w].start) EXCEPT
                             !.end = tree[w].end,
                             !.status = IF tree[w].status = "fail" THEN "fail" ELSE "pass"] IN
         [Merge(tree, [k \in {s} |-> home]) EXCEPT ![w].up = s]

Tree == AttachFuzzWrappers([k \in DOMAIN nodes |-> ScanEnds(nodes[k])])

ChildrenIn(t, k) == {c \in DOMAIN t : t[c].up = k}
RECURSIVE Below(_, _)
Below(t, k) == LET cs == ChildrenIn(t, k) IN cs \cup UNION {Below(t, c) : c \in cs}

\* classify: a benchmark's name makes it one, and all below it.
Kind(k) == CASE k[1][1] = Bench[1] -> "benchmark"
             [] k = <<Wrapper, FALSE>> -> "fuzz"
             [] Len(k[1]) = 1 -> "suite"
             [] OTHER -> "behavior"

AnyDescendantFailed(t, k) == \E c \in Below(t, k) : t[c].status = "fail"
FailedOnItsOwn(t, k) ==
    ChildrenIn(t, k) # {} /\ t[k].status = "fail" /\ ~AnyDescendantFailed(t, k)

\* collectStats: a target's seeds are not counted, and a benchmark is not a test.
CollectStats(t) ==
    LET fuzz == {k \in DOMAIN t : Kind(k) = "fuzz"}
        tests_ == DOMAIN t \ (fuzz \cup UNION {Below(t, k) : k \in fuzz})
        own == {k \in tests_ : FailedOnItsOwn(t, k)}
        leaves == {k \in tests_ : ChildrenIn(t, k) = {} /\ Kind(k) # "benchmark"}
        ended(v) == Cardinality({k \in leaves \cup fuzz : t[k].status = v}) IN
    [passed |-> ended("pass"), failed |-> ended("fail") + Cardinality(own),
     skipped |-> ended("skip"),
     counted |-> Cardinality(leaves) + Cardinality(own) + Cardinality(fuzz)]

PkgFailed(ending) == ending \in {"failed", "build failed"}
PkgFailedOnItsOwn(t, ending) == PkgFailed(ending) /\ \A k \in DOMAIN t : t[k].status # "fail"

HasFailures(t, ending) == CollectStats(t).failed > 0 \/ PkgFailed(ending)

\* collectFailedLeaves and RenderSummary's all-green line; a package without
\* output has no diagnostics to show.
CollectFailures(t) ==
    {k \in DOMAIN t : t[k].status = "fail" /\ (ChildrenIn(t, k) = {} \/ FailedOnItsOwn(t, k))}
AllGreen(t, ending) == CollectFailures(t) = {} /\ ~PkgFailedOnItsOwn(t, ending)

\* replayExitCode
ReplayExitCode(t, ending) ==
    IF ending \in {"nothing", "cut", "build failed"} THEN 2
    ELSE IF HasFailures(t, ending) THEN 1 ELSE 0

------------------------------------------------------------------------------
(* EffectiveDuration *)

Ticks(ns, t) == {i \in 0..(MaxClock - 1) : \E k \in ns : t[k].start <= i /\ i < t[k].end}
Bracketed(t, k) == t[k].start # Unset /\ t[k].end # Unset

\* unionOf: a parked node cannot be placed on the clock.
UnionOf(t, ns) == Cardinality(Ticks({k \in ns : Bracketed(t, k) /\ ~t[k].paused}, t))

\* A test that was parked has its bracket delayed and its own measure right; one
\* that was not has a bracket around all of it.
OwnMeasure(n) == IF ~n.paused /\ n.end # Unset THEN n.end - n.start ELSE n.dur

RECURSIVE EffectiveDuration(_, _)
EffectiveDuration(t, k) ==
    LET cs == ChildrenIn(t, k)
        sum == MapThenSumSet(LAMBDA c : EffectiveDuration(t, c), cs)
        floor == Max({0, UnionOf(t, cs)} \cup {EffectiveDuration(t, c) : c \in cs}) IN
    Max({OwnMeasure(t[k]), IF t[k].paused \/ Bracketed(t, k) THEN floor ELSE sum})

PackageDuration(t) == UnionOf(t, {k \in DOMAIN t : t[k].up = <<>>})

------------------------------------------------------------------------------
(* go test *)

Ids == DOMAIN tests
Subs(i) == {j \in Ids : tests[j].up = i}
NewTest(name, up) == [name |-> name, up |-> up, state |-> "running", parked |-> FALSE,
                      since |-> clock, dur |-> 0, ran |-> 0,
                      verdict |-> "none", printed |-> 0, text |-> <<>>]

\* The testing package adds "#n" to a name that was used.
Unique(name) ==
    LET with(n) == [name EXCEPT ![Len(name)] = <<@[1], n>>]
        free == {n \in 0..MaxSubs : \A i \in Ids : tests[i].name # with(n)} IN
    with(Min(free))

SpecTreeInit ==
    /\ clock = 0 /\ tests = <<>> /\ busyTicks = 0
    /\ nodes = <<>> /\ levels = <<>>

\* A suite may be declared by the package and by its external tests, one after
\* the other; the suites of a package run in processes of their own, their fuzz
\* targets after them, and benchmarks in a run of their own.  Bounds: top-level
\* tests are not parked, Other has no subtests and one beside it, and nothing
\* else is skipped.
StartTop(name) ==
    /\ Cardinality(Subs(0)) < MaxTops
    /\ \A i \in Ids : tests[i].name \notin {Bench, Wrapper} /\ name # Bench
    /\ \A i \in Ids : tests[i].up = 0 /\ tests[i].state # "reported"
                          => {name, tests[i].name} = {Suite, Other}
    /\ IF name = Suite THEN Cardinality({i \in Ids : tests[i].name = name}) < 2
       ELSE \A i \in Ids : tests[i].name # name
    /\ name = Other => Cardinality(Ids \ Subs(0)) <= 1
    /\ \E text \in IF name = Bench THEN BenchTexts ELSE {<<>>} :
          tests' = Append(tests, [NewTest(name, 0) EXCEPT !.text = text])
    /\ ReadRun(name) /\ UNCHANGED <<clock, busyTicks>>

\* A function goes on once its last subtest is parked or over.
Free(i) == tests[i].state = "running" /\ \A j \in Subs(i) : tests[j].state \in {"parked", "reported"}

\* Bound: no name begins with the name of a parked sibling and a slash.
StartSub(i, words) ==
    LET plain == tests[i].name \o [w \in DOMAIN words |-> <<words[w], 0>>]
        name == Unique(plain) IN
    /\ Cardinality(Ids \ Subs(0)) < IF \E j \in Ids : tests[j].name = Other THEN 1 ELSE MaxSubs
    /\ Free(i) /\ tests[i].name \notin {Bench, Other}
    /\ \A j \in Subs(i) : tests[j].state = "parked" => ~IsPrefix(tests[j].name, plain)
    /\ tests' = Append(tests, NewTest(name, i))
    /\ ReadRun(name) /\ UNCHANGED <<clock, busyTicks>>

Park(i) ==
    /\ tests[i].state = "running" /\ tests[i].up # 0
    /\ ~tests[i].parked /\ Subs(i) = {}
    /\ tests' = [tests EXCEPT ![i].state = "parked", ![i].parked = TRUE,
                              ![i].dur = clock - tests[i].since, ![i].since = 0]
    /\ ReadPause(tests[i].name) /\ UNCHANGED <<clock, busyTicks, levels>>

\* A parked test goes on when its parent's function has returned.
Resume(i) ==
    /\ tests[i].state = "parked" /\ tests[tests[i].up].state = "returned"
    /\ tests' = [tests EXCEPT ![i].state = "running", ![i].since = clock]
    /\ ReadPause(tests[i].name) /\ UNCHANGED <<clock, busyTicks, levels>>

\* A benchmark reports its failures only.
Reported(i, verdict, elapsed) ==
    IF tests[i].name = Bench /\ verdict # "fail" THEN UNCHANGED nodes
    ELSE ReadVerdict(tests[i].name, verdict, elapsed)

EndsWith(i, verdict, elapsed) ==
    /\ tests' = [tests EXCEPT ![i].verdict = verdict, ![i].dur = elapsed, ![i].since = 0,
                              ![i].state = IF tests[i].parked THEN "ended" ELSE "reported"]
    /\ IF tests[i].parked THEN UNCHANGED nodes ELSE Reported(i, verdict, elapsed)

Verdict(i, own) == IF \E j \in Subs(i) : tests[j].verdict = "fail" THEN "fail" ELSE own
SubsOver(i) == \A j \in Subs(i) : tests[j].state = "reported"

\* The function returns: go test stops counting, and waits for parallel subtests.
Return(i, how) ==
    LET elapsed == tests[i].dur + clock - tests[i].since IN
    /\ Free(i)
    /\ how = "skip" => tests[i].name = Other
    /\ tests[i].printed = Len(tests[i].text)
    /\ IF SubsOver(i) THEN EndsWith(i, Verdict(i, how), elapsed)
       ELSE /\ tests' = [tests EXCEPT ![i].state = "returned", ![i].verdict = how,
                                      ![i].dur = elapsed, ![i].since = 0]
            /\ UNCHANGED nodes
    /\ UNCHANGED <<clock, busyTicks, levels>>

Ends(i) ==
    /\ tests[i].state = "returned" /\ SubsOver(i)
    /\ EndsWith(i, Verdict(i, tests[i].verdict), tests[i].dur)
    /\ UNCHANGED <<clock, busyTicks, levels>>

\* The report of a parked test may be held back as long as its parent runs.
Reports(i) ==
    /\ tests[i].state = "ended"
    /\ tests' = [tests EXCEPT ![i].state = "reported"]
    /\ Reported(i, tests[i].verdict, tests[i].dur)
    /\ UNCHANGED <<clock, busyTicks, levels>>

\* test2json cuts what is printed anywhere.
PrintChunk(i, n) ==
    LET at == tests[i].printed IN
    /\ tests[i].state = "running" /\ at + n <= Len(tests[i].text)
    /\ tests' = [tests EXCEPT ![i].printed = at + n]
    /\ ReadOutput(tests[i].name, SubSeq(tests[i].text, at + 1, at + n))
    /\ UNCHANGED <<clock, busyTicks, levels>>

Working(i) ==
    \/ tests[i].state = "running"
    \/ tests[i].state = "returned" /\ \E j \in Subs(i) : tests[j].state # "reported"

\* Time passes; what has ended has been noticed by then.
Tick ==
    /\ clock < MaxClock /\ clock' = clock + 1
    /\ \A i \in Ids : tests[i].state = "returned" => Working(i)
    /\ tests' = [i \in Ids |-> IF Working(i) THEN [tests[i] EXCEPT !.ran = @ + 1] ELSE tests[i]]
    /\ busyTicks' = busyTicks + (IF \E i \in Ids : tests[i].up = 0 /\ Working(i) THEN 1 ELSE 0)
    /\ UNCHANGED <<nodes, levels>>

SpecTreeNext ==
    \/ \E name \in TopNames : StartTop(name)
    \/ \E i \in Ids :
          \/ \E words \in SubNames : StartSub(i, words)
          \/ Park(i) \/ Resume(i) \/ Ends(i) \/ Reports(i)
          \/ \E how \in {"pass", "fail", "skip"} : Return(i, how)
          \/ \E n \in 1..3 : PrintChunk(i, n)
    \/ Tick

SpecTreeSpec == SpecTreeInit /\ [][SpecTreeNext]_specTreeVars

------------------------------------------------------------------------------
(* The commands that show a run, one after another over the files they leave. *)
(* A request is a command's flags: [cmd, from, renderOnly, groups, json,      *)
(* flaw, gate, own, records], from being the --static and --input of it, gate *)
(* a coverage to reach, own a -coverprofile of the caller's, records an       *)
(* --events-file, and flaw what is wrong with another flag.                   *)

VARIABLES
    nth,       \* the commands started
    request,   \* the flags of the last one
    showing,   \* where it is, "over" between two
    codeOf,    \* codeOf[n]: the exit code of command n's run
    profiles,  \* the caller's cover profile and the command's own: who wrote it, what it says
    recorded,  \* the events file: which command's, and how its stream ends
    exitShown  \* the last command's exit code

showVars == <<nth, request, showing, codeOf, profiles, recorded, exitShown>>

NotYet == 10
KilledAt == 9
Nobodys(says) == [by |-> 0, says |-> says]

ShowsIn(n) ==
    /\ nth = n /\ request \in Requests /\ showing = "over" /\ exitShown = NotYet
    /\ codeOf = [c \in 1..MaxShows |-> NotYet]
    /\ profiles = [own |-> Nobodys("none"), temp |-> Nobodys("low")]
    /\ recorded = [by |-> 0, ends |-> "none"]

ShowInit == ShowsIn(0)

Tell(code) == showing' = "over" /\ exitShown' = code
GoTo(where) == showing' = where /\ UNCHANGED exitShown

SpecRefuses(a) ==
    \/ a.flaw = "format" \/ a.json
    \/ {"static", "input"} \subseteq a.from
    \/ a.renderOnly /\ "input" \notin a.from
    \/ a.groups /\ a.from # {}

SummaryRefuses(a) ==
    \/ a.flaw = "format" \/ a.json
    \/ a.renderOnly /\ a.from = {}
    \/ a.from # {} /\ (a.groups \/ a.records)

\* parseMinFlag and parseExecFlags, of a run.
FlagsRefused(a) == a.flaw # ""

\* runTest, runSpec and runSummary up to where they part; a temporary cover
\* profile is empty.
Ask(a) ==
    /\ showing = "over" /\ nth < MaxShows
    /\ nth' = nth + 1 /\ request' = a
    /\ profiles' = [profiles EXCEPT !.temp = Nobodys("low")]
    /\ IF \/ a.cmd = "spec" /\ SpecRefuses(a)
          \/ a.cmd = "summary" /\ SummaryRefuses(a)
          \/ a.cmd = "test" /\ a.records /\ ~a.json
         THEN Tell(2)
       ELSE IF a.from = {} THEN showing' = "opening" /\ exitShown' = NotYet
       ELSE showing' = (IF "input" \in a.from THEN "replay" ELSE "static") /\ exitShown' = NotYet
    /\ UNCHANGED <<codeOf, recorded>>

\* The events file is replaced before the flags that are left are read.
OpenEventsFile ==
    /\ showing = "opening"
    /\ \/ request.records /\ Tell(2) /\ UNCHANGED recorded
       \/ /\ recorded' = IF request.records THEN [by |-> nth, ends |-> "nothing"] ELSE recorded
          /\ IF FlagsRefused(request) THEN Tell(2) ELSE GoTo("loading")
    /\ UNCHANGED <<nth, request, codeOf, profiles>>

\* The packages, the focus guard of a CI run and the overlay.
LoadForShow ==
    /\ showing = "loading"
    /\ (\E code \in {1, 2} : Tell(code)) \/ GoTo("running")
    /\ UNCHANGED <<nth, request, codeOf, profiles, recorded>>

\* What RunPipeline returns: a red run has a stream that says so or none, and
\* no suite ran where the stream is empty.
Outcomes ==
    {o \in [code : 0..2, ends : {"nothing", "passed", "failed", "build failed"}, suites : BOOLEAN] :
        /\ o.code = 0 => o.ends \in {"nothing", "passed"}
        /\ o.code # 0 => o.ends # "passed"
        /\ o.ends = "nothing" => ~o.suites}

\* Without a suite's profile there is nothing to merge, and what the file held
\* stays; it stays as well where it cannot be replaced, which is only a warning.
MergeCoverProfiles(suites) ==
    LET which == IF request.own THEN "own" ELSE "temp" IN
    profiles' \in {profiles}
        \cup (IF suites /\ (request.own \/ request.gate)
              THEN {[profiles EXCEPT ![which] = [by |-> nth, says |-> s]] : s \in {"low", "high"}}
              ELSE {})

RunForShow ==
    /\ showing = "running" /\ GoTo("rendering")
    /\ \E o \in Outcomes :
          /\ codeOf' = [codeOf EXCEPT ![nth] = o.code]
          /\ recorded' = IF request.records THEN [by |-> nth, ends |-> o.ends] ELSE recorded
          /\ MergeCoverProfiles(o.suites)
    /\ UNCHANGED <<nth, request>>

\* SIGKILL: the file ends anywhere, after the verdict of a package too.
KillShow ==
    /\ showing = "running" /\ Tell(KilledAt) /\ codeOf' = [codeOf EXCEPT ![nth] = KilledAt]
    /\ \E ends \in {"nothing", "cut", "passed", "failed"} :
          recorded' = IF request.records THEN [by |-> nth, ends |-> ends] ELSE recorded
    /\ UNCHANGED <<nth, request, profiles>>

\* The document is written to --output, if it can be created; a badge or a
\* profile that cannot be read is only warned of.
WriteSummaryOutput ==
    /\ showing = "rendering"
    /\ (request.cmd # "test" /\ Tell(2)) \/ GoTo("gating")
    /\ UNCHANGED <<nth, request, codeOf, profiles, recorded>>

\* Mutant: the coverage reached decides.
EnforceCoverage_Alone ==
    /\ showing = "gating"
    /\ LET says == profiles[IF request.own THEN "own" ELSE "temp"].says IN
       Tell(IF ~request.gate THEN codeOf[nth]
            ELSE IF says = "none" THEN 2 ELSE IF says = "low" THEN 1 ELSE 0)
    /\ UNCHANGED <<nth, request, codeOf, profiles, recorded>>

EnforceCoverage ==
    /\ showing = "gating"
    /\ LET says == profiles[IF request.own THEN "own" ELSE "temp"].says IN
       Tell(IF codeOf[nth] # 0 \/ ~request.gate THEN codeOf[nth]
            ELSE IF says = "none" THEN 2 ELSE IF says = "low" THEN 1 ELSE 0)
    /\ UNCHANGED <<nth, request, codeOf, profiles, recorded>>

\* The specification in the source: nothing runs, and a broken package fails it.
RunStaticSpec ==
    /\ showing = "static"
    /\ Tell(2) \/ (request.flaw # "exec" /\ Tell(0))
    /\ UNCHANGED <<nth, request, codeOf, profiles, recorded>>

\* --input, of the events file here: opened, read, shown and judged.
RunFromInput ==
    /\ showing = "replay"
    /\ \/ Tell(2)
       \/ /\ recorded.by # 0
          /\ Tell(IF request.renderOnly THEN 0 ELSE ReplayExitCode(<<>>, recorded.ends))
    /\ UNCHANGED <<nth, request, codeOf, profiles, recorded>>

ShowNext ==
    \/ \E a \in Requests : Ask(a)
    \/ OpenEventsFile \/ LoadForShow \/ RunForShow \/ KillShow \/ WriteSummaryOutput
    \/ EnforceCoverage \/ RunStaticSpec \/ RunFromInput

ShowSpec == ShowInit /\ [][ShowNext]_showVars

------------------------------------------------------------------------------
\* How the stream may end here: cut at any time, or closed by a runner that
\* reports the package failed; with a package's verdict once every test has
\* one, red with a test, or alone when its TestMain exits so.
AllReported == \A i \in Ids : tests[i].state = "reported"
Endings == {"cut", "failed"}
           \cup (IF AllReported /\ \A i \in Ids : tests[i].verdict # "fail" THEN {"passed"} ELSE {})
           \cup (IF tests = <<>> THEN {"build failed"} ELSE {})

TwiceRun == <<Suite, TRUE>> \in DOMAIN nodes
RECURSIVE TopOf(_)
TopOf(i) == IF tests[i].up = 0 THEN i ELSE TopOf(tests[i].up)
IsSeed(i) == tests[i].up # 0 /\ tests[TopOf(i)].name = Wrapper

\* The exit code and the summary tell a failure whatever the stream: exit 0 is
\* a whole stream without one, and the all-green line of a whole stream is shown
\* exactly then; when no suite ran twice each test that failed by itself counts
\* as one failure, no test is counted under two verdicts, and a fuzz target
\* counts once, whatever slashes are in the names (replayExitCode, spec.go:236; CollectStats,
\* tree.go:621; RenderSummary, summary.go:84).
VerdictIsTold ==
        LET t == Tree
            stats == CollectStats(t)
            below(i) == {j \in Ids : tests[j].up = i \/ (tests[i].name = Suite /\ tests[j].name = Wrapper)}
            culprits == {i \in Ids : /\ tests[i].verdict = "fail" /\ ~IsSeed(i)
                                     /\ tests[i].name # Bench
                                     /\ tests[i].name = Wrapper
                                          \/ \A j \in below(i) : tests[j].verdict # "fail"}
            unfinished == stats.counted - stats.passed - stats.failed - stats.skipped IN
        /\ \A e \in Endings :
              /\ ReplayExitCode(t, e) = 0 <=> e = "passed"
              /\ e # "cut" => (AllGreen(t, e) <=> ~HasFailures(t, e))
        /\ AllReported /\ ~TwiceRun =>
              stats.failed = Cardinality(culprits) /\ unfinished = 0

\* A benchmark's result is found exactly if its output has a whole one, however
\* it was cut in chunks (benchScan, tree.go:565).
ResultIsFound ==
    \A i \in Ids : tests[i].name = Bench =>
        LET text == SubSeq(tests[i].text, 1, tests[i].printed) IN
        ScanEnds(nodes[NodeOf(Bench)]).found
            <=> Result \in WholeLines(text) \cup {Remainder(text)}

\* No duration shown for a test that ended is longer than it ran, its fuzz
\* target's included, and a package was busy as long as its suites, when nothing
\* else ran; only a test without an end is measured by the sum of its parts
\* (EffectiveDuration, tree.go:895; PackageDuration, :954).
DurationsAreReal ==
    ~TwiceRun =>
        LET t == Tree
            targets == {i \in Ids : tests[i].name = Wrapper}
            homed(i) == IF tests[i].name = Suite THEN targets ELSE {} IN
        /\ \A i \in Ids :
              (\A j \in {i} \cup homed(i) : tests[j].state = "reported") =>
                  EffectiveDuration(t, NodeOf(tests[i].name))
                      <= MapThenSumSet(LAMBDA j : tests[j].ran, {i} \cup homed(i))
        /\ AllReported => PackageDuration(t) <= busyTicks
        /\ AllReported /\ (\A i \in Subs(0) : tests[i].name \in {Suite, Other})
              => PackageDuration(t) = busyTicks

TreeIsTrue == VerdictIsTold /\ ResultIsFound /\ DurationsAreReal

\* A command that shows a run exits 0 only for what was green: its own run, by
\* the coverage it has to reach as well, which is this run's unless the caller
\* named the profile (one that no suite of the run wrote is judged as it was
\* left); or the run whose recording it replays, unless it only renders, or that
\* run was killed, which can end its recording after a package's verdict
\* (runSpec, spec.go:15; runSummary, summary.go:16; enforceCoverage, cli.go:331).
ShownIsTrue ==
    exitShown = 0 =>
        /\ request.from = {} =>
              /\ codeOf[nth] = 0
              /\ request.gate =>
                    LET p == profiles[IF request.own THEN "own" ELSE "temp"] IN
                    p.says = "high" /\ (request.own \/ p.by = nth)
        /\ "input" \in request.from /\ ~request.renderOnly =>
              recorded.ends = "passed" /\ codeOf[recorded.by] \in {0, KilledAt}
=============================================================================
