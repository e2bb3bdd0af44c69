------------------------------- MODULE Bench -------------------------------
(***************************************************************************)
(* Benchmark runs and their baselines: what gotest bench does with --save,  *)
(* --against and --gate (cmd/gotest/bench.go), how it harvests samples and  *)
(* compares them (internal/gotestbench), and how the editor starts such     *)
(* runs and keeps what they measured (benchRunner.ts, benchResultStore.ts,  *)
(* benchDiagnostics.ts). Runs of a terminal and of the editor share the     *)
(* baseline files; a run may be stopped, or killed at any step.             *)
(***************************************************************************)
EXTENDS Integers, Sequences, FiniteSets

CONSTANTS
    BenchRuns,      \* 1 .. n, in the order they start
    Benches,        \* the benchmarks of the workspace
    FileOf,         \* the file a path names; two paths may name one
    Scenarios,      \* how the workspace is set up, who asks for what how often, and what a run
                    \* may see of the benchmarks, [Benches -> [reps, ns, noisy]]
    MaxHistory      \* MAX_HISTORY: points kept of a benchmark

MinSamples == 4     \* MinSamplesForTTest
Fallback == 20      \* insufficientSampleThresholdPct

BenchPaths == DOMAIN FileOf

\* A baseline held at first is of no run here, and times are positive.
IsMeasured(m) == \A k \in DOMAIN m : m[k].ns \in Nat \ {0}

ASSUME BenchAssumption ==
    /\ BenchRuns \subseteq Nat \ {0} /\ IsFiniteSet(BenchRuns)
    /\ MaxHistory \in Nat \ {0} /\ IsFiniteSet(Benches)
    /\ {"", "="} \cap BenchPaths = {}
    /\ \A s \in Scenarios :
          /\ s.baseline \in {""} \cup BenchPaths /\ s.gate \in Nat
          /\ \A f \in DOMAIN s.held : s.held[f].by \notin BenchRuns /\ IsMeasured(s.held[f].results)
          /\ \A f \in s.flags : {f.save, f.against} \subseteq {"", "="} \cup BenchPaths /\ f.gate \in Int
          /\ \A m \in s.measured : Benches \subseteq DOMAIN m /\ IsMeasured(m)

NoFile == [by |-> -1, results |-> <<>>]    \* neither absent nor cut short can be read
Unread == [by |-> -2, results |-> <<>>]    \* nothing was loaded

VARIABLES
    scenario,   \* the scenario of this behaviour
    baselines,  \* what each file holds: the run that wrote it and its results
    benchPhase,      \* of a run: none, running, ran, loaded, writing, saved, exited, killed
    askedFor,      \* who started it, and its flags
    benchStopped,    \* runs that were sent a SIGTERM
    measured, loaded,   \* what a run measured, and what it loaded
    benchCode,       \* its exit code
    activeBench,     \* BenchRunner.active: the run the editor would cancel, 0 for none
    readOut,    \* runs the editor has read the end of
    benchPoints,     \* BenchResultStore: the history of a benchmark, its latest entry last
    squiggles,  \* BenchGateDiagnostics: the benchmarks marked
    told        \* the last message: what it says, and of which run
benchVars == <<scenario, baselines, benchPhase, askedFor, benchStopped, measured, loaded, benchCode,
               activeBench, readOut, benchPoints, squiggles, told>>
editorBenchVars == <<activeBench, readOut, benchPoints, squiggles, told>>

------------------------------------------------------------------------------
(* Flags *)

SaveTarget(f) == IF f.save = "=" THEN scenario.baseline ELSE f.save
AgainstOrConfig(f) == IF f.against \in {"", "="} THEN scenario.baseline ELSE f.against
\* By clean absolute path; a link is another name.
SameFile(a, b) == a = b
ItsOwnBaseline(f) ==
    SaveTarget(f) # "" /\ AgainstOrConfig(f) # "" /\ SameFile(SaveTarget(f), AgainstOrConfig(f))
\* Saved to the configured baseline, a run becomes it and is compared with nothing.
Promotes(f) == ItsOwnBaseline(f) /\ f.against = ""
AgainstPath(f) == IF Promotes(f) THEN "" ELSE AgainstOrConfig(f)
NotGiven == -1
GatePct(f) ==
    IF f.gate # NotGiven THEN f.gate ELSE IF Promotes(f) THEN 0 ELSE scenario.gate

Refusals(f) ==
    {why \in {"path", "itself", "against", "count"} :
        \/ why = "path" /\ f.save = "=" /\ scenario.baseline = ""
        \/ why = "itself" /\ ItsOwnBaseline(f) /\ f.against # ""
        \/ why = "against" /\ GatePct(f) > 0 /\ AgainstPath(f) = ""
        \/ why = "count" /\ GatePct(f) > 0 /\ f.count < MinSamples}

------------------------------------------------------------------------------
(* Samples and their comparison *)

CountOf(s, x) == Cardinality({i \in DOMAIN s : s[i] = x})
\* A benchmark is known by a line tagged with its name; the untagged lines of its
\* repetitions are added to it.
Sampled(reps) == IF CountOf(reps, "tagged") = 0 THEN 0
                 ELSE CountOf(reps, "tagged") + CountOf(reps, "line")
FromPackages(m) ==
    [k \in {b \in Benches : Sampled(m[b].reps) > 0} |->
        [n |-> Sampled(m[k].reps), ns |-> m[k].ns, noisy |-> m[k].noisy]]

Common(o, n) == DOMAIN o.results \cap DOMAIN n
Change(o, n, k) == ((n[k].ns - o.results[k].ns) * 100) \div o.results[k].ns
Magnitude(x) == IF x < 0 THEN -x ELSE x
\* Welch's test: equal means, or a variance that hides the change, are not significant.
Welch(a, b) == a.ns # b.ns /\ ~a.noisy /\ ~b.noisy
Significant(o, n, k) ==
    IF o.results[k].n < MinSamples \/ n[k].n < MinSamples
    THEN Magnitude(Change(o, n, k)) >= Fallback
    ELSE Welch(o.results[k], n[k])
Compare(o, n) ==
    [k \in Common(o, n) |-> [pct |-> Change(o, n, k), significant |-> Significant(o, n, k)]]

Regressions(deltas) == {k \in DOMAIN deltas : deltas[k].significant /\ deltas[k].pct > 0}
WorstPct(deltas) ==
    IF Regressions(deltas) = {} THEN 0
    ELSE deltas[CHOOSE k \in Regressions(deltas) :
                   \A l \in Regressions(deltas) : deltas[l].pct <= deltas[k].pct].pct
BreachedKeys(deltas, pct) == {k \in Regressions(deltas) : deltas[k].pct > pct}

Compared(r) == AgainstPath(askedFor[r].flags) # ""
DeltasOf(r) == IF Compared(r) THEN Compare(loaded[r], measured[r]) ELSE <<>>
IsGated(r) == Compared(r) /\ GatePct(askedFor[r].flags) > 0
\* A gate that judged nothing has not passed.
ComparedNothing(r) == DOMAIN DeltasOf(r) = {}
ExitWith(r, c) ==
    IF /\ IsGated(r) /\ c = 0
       /\ ComparedNothing(r) \/ WorstPct(DeltasOf(r)) > GatePct(askedFor[r].flags)
    THEN 1 ELSE c

------------------------------------------------------------------------------
(* A run of gotest bench *)

Unasked == [how |-> "", second |-> FALSE, flags |-> [save |-> "", against |-> "", gate |-> NotGiven, count |-> 1]]
BenchIn(s) ==
    /\ scenario = s
    /\ baselines = [f \in {FileOf[p] : p \in BenchPaths} |-> IF f \in DOMAIN s.held THEN s.held[f] ELSE NoFile]
    /\ benchPhase = [r \in BenchRuns |-> "none"] /\ askedFor = [r \in BenchRuns |-> Unasked]
    /\ benchStopped = {} /\ measured = [r \in BenchRuns |-> <<>>] /\ loaded = [r \in BenchRuns |-> Unread]
    /\ benchCode = [r \in BenchRuns |-> 0] /\ activeBench = 0 /\ readOut = {}
    /\ benchPoints = [k \in Benches |-> <<>>] /\ squiggles = {} /\ told = [what |-> "", run |-> 0]
BenchInit == \E s \in Scenarios : BenchIn(s)

Starts(r) ==
    r <= scenario.runs /\ benchPhase[r] = "none" /\ \A q \in BenchRuns : q < r => benchPhase[q] # "none"
StartBench(r, how, second, flags) ==
    /\ askedFor' = [askedFor EXCEPT ![r] = [how |-> how, second |-> second, flags |-> flags]]
    /\ benchPhase' = [benchPhase EXCEPT ![r] = IF Refusals(flags) = {} THEN "running" ELSE "exited"]
    /\ benchCode' = [benchCode EXCEPT ![r] = IF Refusals(flags) = {} THEN 0 ELSE 2]

AskInTerminal(r) ==
    /\ Starts(r)
    /\ \E flags \in scenario.flags : StartBench(r, "terminal", FALSE, flags)
    /\ UNCHANGED <<scenario, baselines, benchStopped, measured, loaded, editorBenchVars>>

\* A report of nothing is printed at once: nothing is loaded, saved or gated.
NothingToRun(r) ==
    /\ benchPhase[r] = "running" /\ ~scenario.built
    /\ benchPhase' = [benchPhase EXCEPT ![r] = "exited"]
    /\ UNCHANGED <<scenario, baselines, askedFor, benchStopped, measured, loaded, benchCode, editorBenchVars>>

\* A stopped run keeps what it had measured.
RunBenchmarks(r) ==
    /\ benchPhase[r] = "running" /\ scenario.built
    /\ \E m \in scenario.measured :
         \E seen \in (IF r \in benchStopped THEN SUBSET DOMAIN FromPackages(m) ELSE {DOMAIN FromPackages(m)}) :
            /\ measured' = [measured EXCEPT ![r] = [k \in seen |-> FromPackages(m)[k]]]
            /\ benchCode' = [benchCode EXCEPT ![r] = IF seen = Benches /\ r \notin benchStopped THEN 0 ELSE 1]
    /\ benchPhase' = [benchPhase EXCEPT ![r] = "ran"]
    /\ UNCHANGED <<scenario, baselines, askedFor, benchStopped, loaded, editorBenchVars>>

\* The comparison reads the baseline as it was before this run.
LoadBaseline(r) ==
    /\ benchPhase[r] = "ran"
    /\ LET path == AgainstPath(askedFor[r].flags) IN
       IF path # "" /\ baselines[FileOf[path]] = NoFile
       THEN /\ benchPhase' = [benchPhase EXCEPT ![r] = "exited"] /\ benchCode' = [benchCode EXCEPT ![r] = 2]
            /\ UNCHANGED loaded
       ELSE /\ loaded' = IF path = "" THEN loaded ELSE [loaded EXCEPT ![r] = baselines[FileOf[path]]]
            /\ benchPhase' = [benchPhase EXCEPT ![r] = "loaded"] /\ UNCHANGED benchCode
    /\ UNCHANGED <<scenario, baselines, askedFor, benchStopped, measured, editorBenchVars>>

\* os.WriteFile empties the file, then writes it.
TruncateBaseline(r) ==
    /\ benchPhase[r] = "loaded"
    /\ LET path == SaveTarget(askedFor[r].flags) IN
       IF path = "" THEN benchPhase' = [benchPhase EXCEPT ![r] = "saved"] /\ UNCHANGED baselines
       ELSE /\ baselines' = [baselines EXCEPT ![FileOf[path]] = NoFile]
            /\ benchPhase' = [benchPhase EXCEPT ![r] = "writing"]
    /\ UNCHANGED <<scenario, askedFor, benchStopped, measured, loaded, benchCode, editorBenchVars>>

\* Over what another run wrote meanwhile, whose longer text shows behind it.
WriteBaseline(r) ==
    /\ benchPhase[r] = "writing"
    /\ LET file == FileOf[SaveTarget(askedFor[r].flags)]
           mine == [by |-> r, results |-> measured[r]] IN
       \E text \in {mine} \cup (IF baselines[file] = NoFile THEN {} ELSE {NoFile}) :
          baselines' = [baselines EXCEPT ![file] = text]
    /\ benchPhase' = [benchPhase EXCEPT ![r] = "saved"]
    /\ UNCHANGED <<scenario, askedFor, benchStopped, measured, loaded, benchCode, editorBenchVars>>

Judge(r) ==
    /\ benchPhase[r] = "saved"
    /\ benchCode' = [benchCode EXCEPT ![r] = ExitWith(r, benchCode[r])]
    /\ benchPhase' = [benchPhase EXCEPT ![r] = "exited"]
    /\ UNCHANGED <<scenario, baselines, askedFor, benchStopped, measured, loaded, editorBenchVars>>

KillBench(r) ==
    /\ benchPhase[r] \in {"running", "ran", "loaded", "writing", "saved"}
    /\ benchPhase' = [benchPhase EXCEPT ![r] = "killed"]
    /\ UNCHANGED <<scenario, baselines, askedFor, benchStopped, measured, loaded, benchCode, editorBenchVars>>

------------------------------------------------------------------------------
(* The editor *)

\* A command cancels the one under way, and does not wait for it to end.
Cancelled == benchStopped \cup (IF activeBench = 0 THEN {} ELSE {activeBench})
AskInEditor(r, how) ==
    /\ Starts(r) /\ how \in scenario.commands
    /\ LET flags == [Unasked.flags EXCEPT !.save = IF how = "save" THEN "=" ELSE ""] IN
       \E n \in IF how = "target" THEN {1, MinSamples} ELSE {1} :
          StartBench(r, how, FALSE, [flags EXCEPT !.count = n])
    /\ benchStopped' = Cancelled /\ activeBench' = r
    /\ UNCHANGED <<scenario, baselines, measured, loaded, readOut, benchPoints, squiggles, told>>

\* The report is printed after everything else, and not by a run that failed before.
Printed(r) == benchPhase[r] = "exited" /\ benchCode[r] # 2
GateOf(r) == IF IsGated(r) THEN BreachedKeys(DeltasOf(r), GatePct(askedFor[r].flags)) ELSE {}
VerdictOn(r, k) == IF k \in DOMAIN DeltasOf(r) THEN DeltasOf(r)[k] ELSE [pct |-> 0, significant |-> FALSE]

Bounded(s) == SubSeq(s, IF Len(s) > MaxHistory THEN Len(s) - MaxHistory + 1 ELSE 1, Len(s))
RecordReport(r) ==
    /\ benchPoints' = [k \in Benches |->
                    IF k \notin DOMAIN measured[r] THEN benchPoints[k]
                    ELSE Bounded(Append(benchPoints[k], [run |-> r, ns |-> measured[r][k].ns, delta |-> VerdictOn(r, k)]))]
    /\ squiggles' = GateOf(r)

\* What the user picks a path for: a baseline that is not configured, and one to
\* compare with when no deltas came back.
AsksForPath(r) ==
    /\ ~askedFor[r].second
    /\ \/ askedFor[r].how = "save" /\ benchCode[r] = 2 /\ "path" \in Refusals(askedFor[r].flags)
       \/ askedFor[r].how = "compare" /\ Printed(r) /\ ComparedNothing(r)
Picked(r, path) ==
    IF askedFor[r].how = "save" THEN [Unasked.flags EXCEPT !.save = path]
    ELSE [Unasked.flags EXCEPT !.against = path]
Message(r) ==
    IF ~Printed(r) THEN "failed"
    ELSE CASE askedFor[r].how = "save" -> "saved"
           [] askedFor[r].how = "compare" -> IF GateOf(r) # {} THEN "breached" ELSE "compared"
           [] OTHER -> "ran"

ReadReport(r) ==
    /\ benchPhase[r] \in {"exited", "killed"} /\ r \notin readOut /\ askedFor[r].how \notin {"", "terminal"}
    /\ readOut' = readOut \cup {r}
    /\ IF Printed(r) THEN RecordReport(r) ELSE UNCHANGED <<benchPoints, squiggles>>
    /\ \/ /\ AsksForPath(r)
          /\ \E q \in BenchRuns, path \in BenchPaths :
               Starts(q) /\ StartBench(q, askedFor[r].how, TRUE, Picked(r, path)) /\ activeBench' = q
          /\ benchStopped' = IF activeBench = r THEN benchStopped ELSE Cancelled
          /\ UNCHANGED told
       \/ /\ activeBench' = IF activeBench = r THEN 0 ELSE activeBench
          /\ told' = IF AsksForPath(r) THEN told ELSE [what |-> Message(r), run |-> r]
          /\ UNCHANGED <<askedFor, benchPhase, benchCode, benchStopped>>
    /\ UNCHANGED <<scenario, baselines, measured, loaded>>

BenchNext ==
    \E r \in BenchRuns :
        \/ AskInTerminal(r) \/ NothingToRun(r) \/ RunBenchmarks(r) \/ LoadBaseline(r)
        \/ TruncateBaseline(r) \/ WriteBaseline(r) \/ Judge(r) \/ KillBench(r) \/ ReadReport(r)
        \/ \E how \in {"target", "save", "compare"} : AskInEditor(r, how)

BenchSpec == BenchInit /\ [][BenchNext]_benchVars

------------------------------------------------------------------------------
\* No run is judged against itself, under another name of its file either
\* (bench.go:192).
NeverItself == \A r \in BenchRuns : loaded[r].by # r

\* A gated run that ran benchmarks and exits clean found benchmarks of the baseline
\* it read, and none of them slower by more than the gate (bench.go:283).
GateIsKept ==
    \A r \in BenchRuns :
        (/\ benchPhase[r] = "exited" /\ benchCode[r] = 0 /\ scenario.built
         /\ GatePct(askedFor[r].flags) > 0) =>
            /\ DOMAIN measured[r] = Benches /\ DOMAIN loaded[r].results \cap Benches # {}
            /\ \A k \in DOMAIN loaded[r].results :
                  k \in Benches =>
                     \/ measured[r][k].ns * 100 < loaded[r].results[k].ns * (100 + GatePct(askedFor[r].flags) + 1)
                     \/ ~Significant(loaded[r], measured[r], k)

\* "Saved" is said of a run that wrote the file, which holds a whole baseline
\* unless a run was killed while it wrote or two wrote at once (baseline.go:244).
SavedIsTold ==
    /\ told.what = "saved" /\ scenario.built =>
          benchPhase[told.run] = "exited" /\ SaveTarget(askedFor[told.run].flags) # ""
    /\ \A f \in DOMAIN baselines :
          LET writers == {r \in BenchRuns : /\ benchPhase[r] \in {"writing", "saved", "exited", "killed"}
                                            /\ SaveTarget(askedFor[r].flags) \in BenchPaths
                                            /\ FileOf[SaveTarget(askedFor[r].flags)] = f} IN
          (writers # {} /\ Cardinality(writers) = 1 /\ scenario.built) =>
             \A r \in writers : benchPhase[r] = "saved" => baselines[f] = [by |-> r, results |-> measured[r]]

\* The numbers and verdict over a benchmark are of one run, the last to report it;
\* the marks are of the last report (benchResultStore.ts, benchDiagnostics.ts:48).
ShownIsMeasured ==
    \A k \in Benches :
        /\ Len(benchPoints[k]) <= MaxHistory
        /\ \A i \in DOMAIN benchPoints[k] :
              LET p == benchPoints[k][i] IN
              /\ p.ns = measured[p.run][k].ns /\ p.run \in readOut
              /\ p.delta.significant => loaded[p.run].results[k].ns # p.ns
              /\ \A j \in DOMAIN benchPoints[k] : j # i => benchPoints[k][j].run # p.run
        /\ k \in squiggles => benchPoints[k] # <<>>

BenchIsTrue == NeverItself /\ GateIsKept /\ SavedIsTold /\ ShownIsMeasured
=============================================================================
