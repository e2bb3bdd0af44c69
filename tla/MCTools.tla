------------------------------- MODULE MCTools -------------------------------
(***************************************************************************)
(* Model checking of what stands beside a run and shares no state with it: *)
(* fuzz sessions and promote, the editor extension's process registry,     *)
(* test runs, discovery, command line and watcher, what a command line     *)
(* selects, the tree shown of a stream and the commands that show it, a    *)
(* migration from testify, the assertions, and the benchmark baselines.    *)
(* Each behaviour runs one part; the others stay in a state in which       *)
(* nothing is left to do.                                                  *)
(***************************************************************************)
EXTENDS Fuzzing, EditorDiscovery, EditorCli,
        SharedProtocol, CommandLine, Selection, SpecTree, Migrate, Assertions, Bench, TLC

VARIABLE part   \* the part this behaviour runs

toolVars == <<fuzzVars, procVars, editorRunVars, discoveryVars, cliVars, editorWatchVars,
              protoVars, commandLineVars, selectionVars, specTreeVars, showVars, migrateVars, assertionVars, benchVars, part>>

MCTargetOf == (1 :> "t") @@ (2 :> "u")
MCFolderPackages == ("f" :> {"a", "b"}) @@ ("g" :> {})
MCReleaseLine == (1 :> <<24, 3, 0>>) @@ (2 :> <<26, 3, 0>>) @@ (3 :> <<26, 3, 1>>)
MCModuleLines == {<<24, 3, 5>>, <<26, -1, 0>>, <<26, 3, 2>>}

MCFlats == {-1, 0}
MCSetupLasts == ("a" :> {1}) @@ ("d" :> {2}) @@ ("e" :> {0})

MCSuites == <<"a", "b", "c">>
MCFuzzOf == ("a" :> {"a"}) @@ ("b" :> {}) @@ ("c" :> {"c"})
MCNamedGroup == ("a" :> "") @@ ("b" :> "g") @@ ("c" :> "")
MCRequired == ("a" :> {"y"}) @@ ("b" :> {"z"}) @@ ("c" :> {"y"})
MCDependencies == ("x" :> {}) @@ ("y" :> {"x"}) @@ ("z" :> {"x"})
MCTops == {{<<"Test", "a">>}, {<<"Fuzz", "a">>}, {<<"Fuzz", "c">>, <<"Benchmark", "c">>},
           {<<"Test", "a">>, <<"Test", "b">>, <<"Benchmark", "a">>, <<"Benchmark", "b">>}}
MCAlternatives == [top : MCTops, sub : {"", "x"}]
MCPatterns == {<<>>} \cup {<<i>> : i \in MCAlternatives}
              \cup {<<i, j>> : i \in [top : MCTops, sub : {""}], j \in [top : MCTops, sub : {"x"}]}

MCSubNames == {<<"a">>, <<"a", "x">>}
MCBenchTexts == {<<"r1", "r2", "n">>, <<"o", "n", "r1", "r2">>, <<"r1", "n", "r2", "n">>}

\* A plain run, and with what each command takes besides.
PlainRequest(cmd) ==
    [cmd |-> cmd, from |-> {}, renderOnly |-> FALSE, groups |-> FALSE, json |-> FALSE,
     flaw |-> "", gate |-> FALSE, own |-> FALSE, records |-> FALSE]
MCRequests ==
    {[PlainRequest(cmd) EXCEPT !.gate = g, !.own = o, !.records = r, !.json = (cmd = "test"),
          !.flaw = f] : cmd \in {"test", "summary"}, g, o, r \in BOOLEAN, f \in {"", "min"}}
    \cup {[PlainRequest("spec") EXCEPT !.from = from, !.renderOnly = r, !.groups = g, !.flaw = f] :
             from \in SUBSET {"static", "input"}, r, g \in BOOLEAN, f \in {"", "exec", "format"}}
    \cup {[PlainRequest("summary") EXCEPT !.from = {"input"}, !.renderOnly = r, !.groups = g,
              !.records = e] : r, g, e \in BOOLEAN}
    \cup {PlainRequest("test"), [PlainRequest("test") EXCEPT !.records = TRUE],
          [PlainRequest("spec") EXCEPT !.json = TRUE]}

MCTestFiles == {"f", "g", "h"}
MCTestifySuites == {"b", "c", "d"}
PlainDirectory ==
    [constraint |-> [f \in TestFiles |-> ""], generated |-> {},
     home |-> [s \in TestifySuites |-> "f"], base |-> [s \in TestifySuites |-> NoBase],
     how |-> [s \in TestifySuites |-> "value"], named |-> [s \in TestifySuites |-> "free"],
     methods |-> {"f"} \X TestifySuites \X {"TestA"},
     runs |-> {"f"} \X TestifySuites \X {"only"}, mentions |-> {}, local |-> {}]

\* Build constraints: a suite over two or three files, others beside it.
Gating ==
    {[PlainDirectory EXCEPT !.constraint = con, !.home = [b |-> "f", c |-> h, d |-> "h"],
          !.methods = {<<"f", "b", "TestA">>, <<m, "b", "SetupTest">>,
                       <<h, "c", "TestA">>, <<"h", "d", "TestA">>},
          !.runs = (rs \X {"b"} \X {k}) \cup {<<"f", "c", "only">>}] :
        con \in [TestFiles -> {"", "t", "!t"}], h \in {"f", "g"}, m \in {"f", "g"},
        rs \in SUBSET TestFiles, k \in {"only", "more"}}

\* A chain of bases, d on c on b, in one file.
Chains ==
    {[PlainDirectory EXCEPT !.base = [b |-> NoBase, c |-> "b", d |-> "c"],
          !.how = [b |-> "value", c |-> hc, d |-> hd],
          !.methods = ({"f"} \X {"b"} \X mb) \cup ({"f"} \X {"c"} \X mc) \cup ({"f"} \X {"d"} \X md),
          !.runs = {"f"} \X rs \X {"only"}] :
        hc, hd \in {"value", "fresh", "stale"},
        mb \in {{}, {"SetupTest"}, {"SetupSuite", "TestA"}, {"SetupTest", "TestB", "BeforeEach"}},
        mc \in {{}, {"SetupTest"}, {"TestA"}, {"SetupSuite"}, {"BeforeEach"}},
        md \in {{"TestA"}, {"SetupTest", "TestB"}, {"BeforeEach", "TestA"}},
        rs \in SUBSET TestifySuites}

\* What is left, and what is left with it.
Leaving ==
    {[PlainDirectory EXCEPT !.constraint = [f |-> "", g |-> cg, h |-> ch], !.generated = gen,
          !.home = [b |-> hb, c |-> hc, d |-> "h"], !.base = [b |-> NoBase, c |-> bc, d |-> bd],
          !.named = [b |-> nb, c |-> "own", d |-> "free"],
          !.methods = {<<hb, "b", "TestA">>, <<hc, "c", "TestA">>, <<"h", "d", "TestB">>},
          !.runs = {<<"f", "b", "only">>, <<"f", "c", "only">>, <<"h", "d", "only">>},
          !.mentions = men, !.local = loc] :
        cg, ch \in {"", "never"}, gen \in {{}, {"g"}, {"h"}},
        hb, hc \in {"f", "g"}, bc \in {NoBase, "b"}, bd \in {NoBase, "b", "c"},
        nb \in {"free", "taken"}, men \in {{}, {<<"g", "b">>}, {<<"h", "c">>}, {<<"g", "d">>}},
        loc \in {{}, {<<"g", "d">>}, {<<"f", "c">>}}}
\* A base's methods, or its child's, in files of another build.
Elsewhere ==
    {[PlainDirectory EXCEPT !.constraint = [f |-> "", g |-> cg, h |-> ch],
          !.home = [b |-> "f", c |-> hc, d |-> "h"], !.base = [b |-> NoBase, c |-> "b", d |-> "c"],
          !.methods = (fb \X {"b"} \X mb) \cup ({fc} \X {"c"} \X mc) \cup {<<"h", "d", "TestB">>},
          !.runs = {<<hc, "c", "only">>, <<"h", "d", "only">>}] :
        cg \in {"t", "!t"}, ch \in {"", "t", "!t"}, hc \in {"f", "h"},
        fb \in {{"f"}, {"g"}, {"g", "h"}}, fc \in {"f", "g", "h"},
        mb \in {{"SetupTest"}, {"SetupSuite", "TestA"}},
        mc \in {{}, {"TestA"}, {"SetupTest", "TestB"}}}
MCFamilies == {Gating, Chains, Leaving, Elsewhere}

\* An any holds a value of each kind, the nil pointer and NaN among them.
MCHeld == {<<"int", "zero">>, <<"int", "one">>, <<"float", "nan">>, <<"slice", "nil">>,
           <<"slice", "empty">>, <<"slice", "one">>, <<"ptr", "nil">>, <<"ptr", "p1">>,
           <<"deepstruct", "p1">>, <<"deepstruct", "q1">>, <<"string", "one">>,
           <<"func", "one">>, <<"array", "zero">>, <<"chan", "empty">>,
           <<"ptrmap", "p1">>, <<"ptrarray", "p0">>}
NilOperand == [kind |-> "nil", type |-> "nil", holds |-> Nothing]
VarsOf(t) == {[kind |-> "var", type |-> t, holds |-> v] : v \in ValuesOf(t)}
LitsOf(t) == {[kind |-> "lit", type |-> t, holds |-> [type |-> t, at |-> a]] : a \in {"zero", "one"}}
HasLiterals(t) == t \in {"bool", "int", "string", "float"}
ViasOf(t) ==
    {""} \cup (IF HasLength(t) \/ t = "ptrarray" THEN {"len"} ELSE {})
         \cup (IF t = "error" THEN {"Error"} ELSE {})
AskedOf(t, via) == CASE via = "len" -> "int" [] via = "Error" -> "string" [] OTHER -> t
\* What stands beside a t.
BesideOf(t) ==
    {NilOperand} \cup (IF HasLiterals(t) THEN LitsOf(t) ELSE {})
        \cup (IF t = "int" THEN {} ELSE VarsOf(t))
        \cup (IF t = "any" THEN UNION {VarsOf(u) : u \in {"int", "slice", "deepstruct", "ptr"}} ELSE {})
        \cup (IF t \in {"error", "any"} THEN LitsOf("string") ELSE {})
        \cup (IF t \in {"any", "slice", "map", "array", "chan", "string", "ptrarray", "float"}
               THEN LitsOf("int") ELSE {})
        \cup (IF t = "ptrmap" THEN VarsOf("ptr") ELSE {})
OneOperand == {"Zero", "NotZero", "Nil", "NotNil", "Empty", "NotEmpty", "NoError", "Error"}
TwoOperands == {"Equal", "NotEqual", "ErrorIs", "ErrorContains", "Len", "Same", "NotSame",
                "Contains", "NotContains"} \cup DOMAIN OrderOf
Conditions == {"", "==", "!=", "strings.Contains", "errors.Is", "reflect.DeepEqual"} \cup DOMAIN OpName
Family(funs, ops, nots, t, via, ys, next) ==
    [funs |-> funs, ops |-> ops, nots |-> nots, vias |-> {via}, ys |-> ys, next |-> next, zs |-> ys,
     xs |-> VarsOf(t), bodies |-> {""}, loose |-> {FALSE},
     apis |-> IF ops = {""} THEN {"testify", "gotest"} ELSE {"gotest"}]
MCAlone ==
    UNION {UNION {
        {Family(OneOperand, {""}, {FALSE}, t, via, {NilOperand}, {}),
         Family(TwoOperands, {""}, {FALSE}, t, via, BesideOf(AskedOf(t, via)), {}),
         Family({"True", "False"}, Conditions, BOOLEAN, t, via, BesideOf(AskedOf(t, via)), {})} :
        via \in ViasOf(t)} : t \in Concrete \cup Interfaces}
MCWritten ==
    MCAlone
    \cup {[Family({"Error", "NotNil", "NotEmpty"}, {""}, {FALSE}, t, "", {NilOperand},
                  {"ErrorIs", "ErrorContains", "NotEmpty", "Contains", "Len"}) EXCEPT !.zs = BesideOf(t)] :
            t \in {"any", "error", "slice", "map", "string", "ptrslice"}}
    \cup {[Family({"if"}, Conditions, BOOLEAN, t, "", BesideOf(t), {"else if"}) EXCEPT
              !.bodies = {"Fail", "FailNow", "Errorf", "Errorf, return"}, !.loose = BOOLEAN] :
            t \in {"bool", "error", "float"}}

MCFileOf == [base |-> 1, link |-> 1, other |-> 2]
FourReps == <<"tagged", "line", "line", "line">>
Seen(kReps, kNs, noisy, lReps, lNs) ==
    [k |-> [reps |-> kReps, ns |-> kNs, noisy |-> noisy],
     l |-> [reps |-> lReps, ns |-> lNs, noisy |-> FALSE]]
HeldOf(n, ks) == 1 :> [by |-> 0, results |-> [k \in ks |-> [n |-> n, ns |-> 100, noisy |-> FALSE]]]
\* One run with any flags, and two or three of the editor and a terminal with few.
AloneBench ==
    {[baseline |-> b, gate |-> g, held |-> hu[1], built |-> hu[2], runs |-> 1, commands |-> {},
      flags |-> [save : {"", "=", "base", "link", "other"}, against : {"", "=", "base", "other"},
                 gate : {NotGiven, 0, 30}, count : {1, 4}],
      measured |-> {Seen(FourReps, 100, FALSE, FourReps, 100), Seen(FourReps, 150, FALSE, FourReps, 110),
                    Seen(FourReps, 150, TRUE, FourReps, 90), Seen(Tail(FourReps), 150, FALSE, FourReps, 100),
                    Seen(<<"tagged">>, 150, FALSE, <<"tagged">>, 115), Seen(<<>>, 100, FALSE, <<>>, 100)}] :
        b \in {"", "base"}, g \in {0, 30},
        hu \in {<<HeldOf(4, Benches), FALSE>>, <<HeldOf(4, Benches), TRUE>>, <<HeldOf(1, {"k"}), TRUE>>,
                <<HeldOf(4, {"gone"}), TRUE>>, <<<<>>, TRUE>>}}
BesideBench ==
    {[baseline |-> b, gate |-> 0, held |-> HeldOf(4, {"k"}), built |-> TRUE, runs |-> 2,
      commands |-> {"target", "save", "compare"},
      flags |-> {[save |-> "base", against |-> "", gate |-> NotGiven, count |-> 1],
                 [save |-> "link", against |-> "base", gate |-> 30, count |-> 4],
                 [save |-> "", against |-> "base", gate |-> 30, count |-> 4]},
      measured |-> {Seen(FourReps, 150, FALSE, FourReps, 110),
                    Seen(Tail(FourReps), 150, FALSE, <<"tagged">>, 100)}] : b \in {"", "base"}}
MCScenarios == AloneBench \cup BesideBench
NoBench == [baseline |-> "", gate |-> 0, held |-> <<>>, built |-> FALSE, runs |-> 0,
            commands |-> {}, flags |-> {}, measured |-> {}]

FuzzOff == FuzzIn("over")
ProcsOff == EditorProcsIn("dead")
EditorRunOff == EditorRunIn("off", MaxSaves)
DiscoveryOff == DiscoveryIn(MaxChanges)
EditorCliOff ==
    /\ ProjectIn(0) /\ tool = {} /\ ~replaced /\ cliPath = 0
    /\ \A m \in CliModules : pin[m] = NoPin /\ goLine[m] = <<26, 3, 2>>
EditorWatchOff == WatcherIn("none", {}, {})

ProtocolOff == ProtocolIn("exited") /\ flat = 0
CommandLineOff == CommandLineIn(<<>>, "refused") /\ wanted = {}
SelectionOff ==
    /\ SelectionIn("over") /\ benching = FALSE /\ uncompiled = SuiteSet
    /\ runPattern = <<>> /\ skipPattern = <<>> /\ benchPattern = <<>> /\ only = {} /\ without = {}

ShowsOff == ShowsIn(MaxShows) /\ request = PlainRequest("test")

MigrateOff == MigrateIn("over") /\ dir = PlainDirectory

AssertionOff == stmts = <<>> /\ api = "gotest" /\ was = "passed" /\ lost = FALSE

BenchOff == BenchIn(NoBench)

MCToolsInit ==
    /\ part \in {"fuzz", "procs", "run", "discovery", "cli", "watch",
                "protocol", "words", "selection", "tree", "shows", "migrate", "assertions", "bench"}
    /\ IF part = "fuzz" THEN FuzzInit ELSE FuzzOff
    /\ IF part = "procs" THEN EditorProcsInit ELSE ProcsOff
    /\ IF part = "run" THEN EditorRunInit ELSE EditorRunOff
    /\ IF part = "discovery" THEN DiscoveryInit ELSE DiscoveryOff
    /\ IF part = "cli" THEN EditorCliInit ELSE EditorCliOff
    /\ IF part = "watch" THEN EditorWatchInit ELSE EditorWatchOff
    /\ IF part = "protocol" THEN ProtocolInit ELSE ProtocolOff
    /\ IF part = "words" THEN CommandLineInit ELSE CommandLineOff
    /\ IF part = "selection" THEN SelectionInit ELSE SelectionOff
    /\ SpecTreeInit
    /\ IF part = "shows" THEN ShowInit ELSE ShowsOff
    /\ IF part = "migrate" THEN MigrateInit ELSE MigrateOff
    /\ IF part = "assertions" THEN AssertionInit ELSE AssertionOff
    /\ IF part = "bench" THEN BenchInit ELSE BenchOff

MCToolsNext ==
    /\ UNCHANGED part
    /\ IF part # "fuzz" THEN UNCHANGED fuzzVars ELSE TRUE
    /\ IF part # "procs" THEN UNCHANGED procVars ELSE TRUE
    /\ IF part # "run" THEN UNCHANGED editorRunVars ELSE TRUE
    /\ IF part # "discovery" THEN UNCHANGED discoveryVars ELSE TRUE
    /\ IF part # "cli" THEN UNCHANGED cliVars ELSE TRUE
    /\ IF part # "watch" THEN UNCHANGED editorWatchVars ELSE TRUE
    /\ IF part # "protocol" THEN UNCHANGED protoVars ELSE TRUE
    /\ IF part # "words" THEN UNCHANGED commandLineVars ELSE TRUE
    /\ IF part # "selection" THEN UNCHANGED selectionVars ELSE TRUE
    /\ IF part # "tree" THEN UNCHANGED specTreeVars ELSE TRUE
    /\ IF part # "shows" THEN UNCHANGED showVars ELSE TRUE
    /\ IF part # "migrate" THEN UNCHANGED migrateVars ELSE TRUE
    /\ IF part # "assertions" THEN UNCHANGED assertionVars ELSE TRUE
    /\ IF part # "bench" THEN UNCHANGED benchVars ELSE TRUE
    /\ \/ part = "fuzz" /\ FuzzNext
       \/ part = "procs" /\ EditorProcsNext
       \/ part = "run" /\ EditorRunNext
       \/ part = "discovery" /\ DiscoveryNext
       \/ part = "cli" /\ EditorCliNext
       \/ part = "watch" /\ EditorWatchNext
       \/ part = "protocol" /\ ProtocolNext
       \/ part = "words" /\ CommandLineNext
       \/ part = "selection" /\ SelectionNext
       \/ part = "tree" /\ SpecTreeNext
       \/ part = "shows" /\ ShowNext
       \/ part = "migrate" /\ MigrateNext
       \/ part = "assertions" /\ AssertionNext
       \/ part = "bench" /\ BenchNext

MCToolsSpec == MCToolsInit /\ [][MCToolsNext]_toolVars
MCVerdictsSpec == part = "assertions" /\ MCToolsSpec

\* A command does what its line says and tells what happened: its words are read
\* alike by every reader of them and reach the test binary (args.go, suiterun.go),
\* and the tree shown of tests (tree.go), the exit code of the command that shows it
\* (spec.go, summary.go) and the comparison of benchmarks (bench.go) are those of
\* the events that came.
CommandsAreTrue == CommandLineIsRead /\ (part = "tree" => TreeIsTrue) /\ ShownIsTrue /\ BenchIsTrue

\* A rewrite of test code keeps what it tests: migrate runs on every suite the
\* hooks and tests testify ran, in every build configuration (embed.go, gate.go),
\* and leaves no part of a suite behind unmarked (unit.go); an assertion migrate or
\* lint puts for another has its verdict on every value (assertmap.go, simplify.go).
RewritesAreTrue == RunsAreKept /\ LeftIsWhole /\ VerdictsAreKept
=============================================================================
