-------------------------------- MODULE MCRun --------------------------------
(***************************************************************************)
(* Model checking of the parts of a run that share no state: the process   *)
(* trees and signals (CliStop), the packages' way to what is owed          *)
(* (Declared) and the fixtures of one (Binding), the suites' way to the    *)
(* exit code (Pipeline), the verdict index (Verdicts), and inside a test   *)
(* process the methods under their budget and the goroutines a suite waits *)
(* for (MethodBudget) and the snapshots its tests compare with (Snapshots).*)
(* Each behaviour runs one part; the others stay in a state in which       *)
(* nothing is left to do.                                                  *)
(*                                                                         *)
(* The packages a run may be given come in families, each varying what the *)
(* steps of Declared and Binding tell apart: the shape of one method, the  *)
(* hooks of a suite, the declarations and the refusing steps, the marks in *)
(* one or two packages and variants, the errors a variant loads with, the  *)
(* fixtures a suite needs; and of fixtures the graph, the methods, the     *)
(* fields and the declaration.                                             *)
(***************************************************************************)
EXTENDS CliStop, Pipeline, Verdicts, MethodBudget, Declared, Binding, Snapshots, TLC

VARIABLE part   \* the part this behaviour runs

runVars == <<cliVars, pipelineVars, verdictVars, methodVars, waitVars, declaredVars, bindingVars, snapVars,
             part>>

MCPackageOf == <<1, 1, 3, 3>>
MCGroupOf == <<0, 0, 0, 1>>

------------------------------------------------------------------------------
\* The packages a run may be given (Declared).  A method written plainly:
Case(word, mark, takes) ==
    [word |-> word, mark |-> mark, rest |-> "upper", n |-> 1, recv |-> "pointer",
     takes |-> takes, gives |-> <<>>, body |-> <<>>, says |-> {}]
Hooked(word, takes, gives, body) ==
    [Case(word, "", takes) EXCEPT !.rest = "none", !.gives = gives, !.body = body]
Said(says) == {[Hooked("SuiteConfig", <<>>, <<"config">>, <<>>) EXCEPT !.says = says]}

SuiteDecl(id, mark, methods) ==
    [id |-> id, mark |-> mark, named |-> TRUE, exported |-> TRUE, grouped |-> FALSE,
     generic |-> FALSE, form |-> "struct", field |-> "none", source |-> "here",
     methods |-> methods, shared |-> {}, through |-> {}, bound |-> FALSE]

Variant(decls) == [decls |-> decls, clash |-> FALSE, fixtureFault |-> "none", unbound |-> FALSE]
PackageWith(path, internal, external) ==
    [path |-> path, runtime |-> "none", errors |-> {},
     tests |-> (IF internal.decls # <<>> THEN {"internal"} ELSE {})
                 \cup (IF external.decls # <<>> THEN {"external"} ELSE {}),
     source |-> [internal |-> internal, external |-> external]]
Given(packages, ci) == [packages |-> packages, ci |-> ci, listed |-> <<>>]
One(v) == Given(<<PackageWith(1, v, Variant(<<>>))>>, FALSE)

ATest == Case("Test", "", <<"T">>)

\* Every method beside a plain test.
OddMethods ==
    {[word |-> w[1], mark |-> mark, rest |-> w[2], n |-> 2, recv |-> r[1], takes |-> r[2],
      gives |-> r[3], body |-> <<>>, says |-> {}] :
        w \in (CaseWords \X {"none", "lower", "upper"})
                \cup ((AllHooks \cup {"SuiteConfig", "SuiteGuard"}) \X {"none"}),
        mark \in {"", "F_"},
        r \in ({"pointer"} \X {<<>>, <<"T">>, <<"stdT">>, <<"B">>, <<"F">>, <<"stdF">>, <<"T", "*ctx">>,
                               <<"T", "done">>, <<"T", "*ctx", "x">>}
                           \X {<<>>, <<"config">>, <<"*ctx">>})
                \cup ({"value", "other"} \X {<<>>, <<"T">>} \X {<<>>})}
MethodFamily == {One(Variant(<<SuiteDecl("s", "", {ATest, m})>>)) : m \in OddMethods}

\* What a hook may do with its T.
TOf(v) == <<"T", v>>
Use(e) == <<"do", <<"use", e>>>>
If(cond, body, els) == <<"if", <<>>, cond, body, els>>
NeedsT == <<Use(TOf("t"))>>
ChecksT == <<If(<<"==", TOf("t")>>, <<<<"return">>>>, <<>>), Use(TOf("t"))>>
Atoms(e) == {<<"==", e>>, <<"!=", e>>, <<"!", <<"==", e>>>>, <<"use", e>>, <<"any">>}
Conditions(e) == Atoms(e) \cup ({"&&", "||"} \X Atoms(e) \X Atoms(e))
Branches(e) == {<<>>, <<<<"return">>>>, <<Use(e)>>, <<Use(e), <<"return">>>>}
Beside1(word, of, around, body) ==
    One(Variant(<<SuiteDecl("s", "", {Case(word, "", <<of>>), Hooked(around, <<"T">>, <<>>, body)})>>))
BodyFamily ==
    {Beside1("Benchmark", "B", "AfterEach", body) :
        body \in {<<If(c, b, els)>> \o tail : c \in Conditions(TOf("t")), b \in Branches(TOf("t")),
                     els \in {<<>>, <<<<"return">>>>, NeedsT}, tail \in {<<>>, NeedsT}}}
      \cup
    {Beside1("Fuzz", "F", "BeforeAll", body) :
        body \in {<<<<"set", "alias", <<"id", "t">>>>, If(c, <<Use(TOf(v))>>, <<>>), Use(<<"id", "alias">>)>> :
                     c \in Conditions(TOf("alias")), v \in {"t", "alias"}}
          \cup {<<<<"if", <<"set", "bound", e>>, c, b, els>>>> :
                   e \in {TOf("t"), <<"value", "t">>, <<"use", TOf("t")>>}, c \in Atoms(<<"id", "bound">>),
                   b \in Branches(<<"id", "bound">>)
                     \cup {<<<<"set", "bound", TOf("t")>>, Use(<<"id", "bound">>)>>},
                   els \in {<<>>, <<Use(<<"id", "bound">>)>>}}
          \cup {<<<<"if", <<"set", "bound", TOf("t")>>, c, <<Use(<<"id", "bound">>)>>, <<>>>>>> :
                   c \in Conditions(<<"id", "bound">>)}
          \cup {<<<<"set", "bound", TOf("t")>>>>,
                <<If(<<"any">>, ChecksT, <<>>), Use(TOf("t"))>>, <<If(<<"any">>, ChecksT, <<>>)>>}}

\* The hooks, the context they hand on and the kinds of cases.
Optional(ms) == {{}} \cup {{m} : m \in ms}
HookFamily ==
    {One(Variant(<<SuiteDecl("s", "", before \cup after \cup all \cup config \cup cases)>>)) :
        before \in Optional({Hooked("BeforeEach", <<"T">>, <<>>, b) : b \in {<<>>, NeedsT}}
                     \cup {Hooked("BeforeEach", <<"stdT">>, <<>>, <<>>)}
                     \cup {Hooked("BeforeEach", <<"T">>, <<g>>, <<>>) : g \in {"*ctx", "ctx"}}),
        after \in Optional({Hooked("AfterEach", ts, <<>>, <<>>) :
                              ts \in {<<"T">>, <<"stdT">>, <<"T", "*ctx">>, <<"T", "*ctx2">>}}),
        all \in Optional({Hooked("BeforeAll", <<"T">>, <<>>, b) : b \in {<<>>, NeedsT, ChecksT}}
                     \cup {Hooked("AfterAll", <<"stdT">>, <<>>, <<>>)}),
        config \in {{}, Said({"parallel"})},
        cases \in {{ATest}, {Case("Test", "", <<"stdT", "*ctx">>)},
                   {ATest, Case("Benchmark", "", <<"B">>)}, {Case("Fuzz", "", <<"F">>)},
                   {Case("Benchmark", "", <<"stdB">>), Case("Fuzz", "X_", <<"F">>)}}}

\* The declarations, and the steps that may refuse.
Shapes == {[named |-> n, grouped |-> g, generic |-> t] :
             n \in BOOLEAN, g \in BOOLEAN, t \in BOOLEAN}
Declared1(d) == One(Variant(<<d, SuiteDecl("r", "", {ATest})>>))
DeclarationFamily ==
    {Declared1([SuiteDecl("s", "", cases) EXCEPT
                   !.named = s.named, !.grouped = s.grouped, !.generic = s.generic, !.form = f,
                   !.field = field, !.source = source, !.exported = e]) :
        s \in {x \in Shapes : ~(x.grouped /\ x.generic)}, e \in BOOLEAN,
        f \in {"struct", "alias", "defined", "other"}, field \in {"none", "embedded hook"},
        source \in {"here", "lost"}, cases \in {{}, {ATest}}}
      \cup {One([Variant(<<SuiteDecl("s", mark, {ATest})>>) EXCEPT
                    !.clash = fault = "clash", !.fixtureFault = fault, !.unbound = fault = "unbound"]) :
                mark \in {"", "X_"},
                fault \in {"clash", "declared", "shape", "methods", "consistency", "unbound"}}

\* Focus and exclusion, in one package, in its two variants, in two packages.
Marks == {"", "F_", "X_"}
MarkedSuites(id) ==
    {SuiteDecl(id, mark, {Case("Test", t, <<"T">>) : t \in tests}
                         \cup {Case("Benchmark", b, <<"B">>) : b \in others[1]}
                         \cup {Case("Fuzz", z, <<"F">>) : z \in others[2]}) :
        mark \in Marks, tests \in {{}, {""}, {"X_"}, {"", "F_"}, {"F_", "X_"}},
        others \in {<<{}, {}>>, <<{"X_"}, {}>>, <<{}, {""}>>, <<{""}, {"F_"}>>}}
OtherSuites ==
    {SuiteDecl(id, mark, {Case("Test", t, <<"T">>)}) : id \in {"s", "r"}, mark \in {"", "F_"}, t \in Marks}
HasCase(d) == d.methods # {}
Beside(s, o, place) ==
    CASE place = 1 -> <<PackageWith(1, Variant(<<s, [o EXCEPT !.id = "q"]>>), Variant(<<>>))>>
      [] place = 2 -> <<PackageWith(1, Variant(<<s>>), Variant(<<o>>))>>
      [] place = 3 -> <<PackageWith(1, Variant(<<s>>), Variant(<<>>)),
                        PackageWith(2, Variant(<<>>), Variant(<<o>>))>>
FocusFamily(place, ci) ==
    {Given(Beside(s, o, place), ci) : s \in {d \in MarkedSuites("s") : HasCase(d)}, o \in OtherSuites}

\* Packages whose variants fail to load, in any order of the report.
Loads == {[PackageWith(1, Variant(<<SuiteDecl("s", "", {ATest})>>), Variant(<<SuiteDecl("s", "", {ATest})>>))
             EXCEPT !.tests = tests, !.errors = errors] :
             tests \in SUBSET {"internal", "external"},
             errors \in SUBSET {"plain", "internal", "external", "main"}}
Legal(p) ==
    /\ p.errors \subseteq {"plain", "main"} \cup p.tests
    /\ "main" \in p.errors => p.errors # {"main"} /\ p.tests # {}
    /\ "plain" \in p.errors /\ "internal" \in p.tests => "internal" \in p.errors
LegalLoads == {p \in Loads : Legal(p)}
LoadFamily ==
    {[Given(<<p, [q EXCEPT !.path = 2]>>, FALSE) EXCEPT !.listed = listed] :
        p \in LegalLoads, q \in LegalLoads, listed \in {<<>>, <<2, 1, 2>>, <<3, 2>>}}
      \cup {Given(<<[p EXCEPT !.runtime = r], [p EXCEPT !.path = 2, !.runtime = s]>>, ci) :
               p \in {x \in LegalLoads : x.errors = {} /\ x.tests = {"internal"}},
               r \in {"none", "current", "outdated"}, s \in {"none", "outdated"}, ci \in BOOLEAN}
      \cup {Given(<<>>, FALSE)}

\* Shared fixtures, named by a suite and reached through package fixtures.
FixtureNeeds == {n \in [shared : SUBSET {"k"}, through : SUBSET {"k", "l"}, bound : BOOLEAN] :
                    n.through # {} => n.bound}
WithNeeds(d, n) == [d EXCEPT !.shared = n.shared, !.through = n.through, !.bound = n.bound]
FixtureFamily ==
    {Given(Beside(WithNeeds(SuiteDecl("s", "", {ATest}), n), WithNeeds(SuiteDecl("r", m, {ATest}), o), place),
           FALSE) : n \in FixtureNeeds, o \in FixtureNeeds, m \in {"", "F_"}, place \in 1..3}

MCInputs == <<BodyFamily, MethodFamily, HookFamily, DeclarationFamily, FocusFamily(1, TRUE), FocusFamily(2, FALSE),
              FocusFamily(3, FALSE), LoadFamily, FixtureFamily>>

------------------------------------------------------------------------------
\* The fixtures of a package (Binding).  A fixture written plainly, and a field:
Method(name) == [name |-> name, recv |-> "pointer", fits |-> TRUE]
PlainFixture(isShared, home) ==
    [shared |-> isShared, home |-> home, form |-> "struct", inTestFile |-> FALSE, source |-> TRUE,
     methods |-> {Method("BeforeAll")}, fields |-> <<>>]
Pointer(f) == [to |-> f, how |-> "pointer", exported |-> TRUE, assigned |-> "never", type |-> <<"data">>]
Pointers(fs) == SelectSeq([f \in 1..5 |-> Pointer(f)], LAMBDA x : x.to \in fs)
SuiteBinding(fields) == [fields |-> fields, bench |-> FALSE, fuzz |-> FALSE]
Sight(suites, fixtures) == [suites |-> suites, fixtures |-> fixtures]

\* Nothing another package declares points back into this one, and a type
\* declares a method once and embeds another once.
Declarable(sights) ==
    {x \in sights : \A f \in DOMAIN x.fixtures :
        /\ \A y \in ToSet(x.fixtures[f].fields) :
              y.to # 0 /\ x.fixtures[f].home # "here" => x.fixtures[y.to].home # "here"
        /\ \A m, n \in x.fixtures[f].methods : m.name = n.name => m = n
        /\ \A i, j \in DOMAIN x.fixtures[f].fields :
              LET a == x.fixtures[f].fields[i]  b == x.fixtures[f].fields[j] IN
              Embeds(a) /\ Embeds(b) /\ a.to = b.to => i = j}

\* Graphs of three package fixtures and two shared ones, with and without cycles.
GraphFamily ==
    {Sight(<<SuiteBinding(Pointers(a)), SuiteBinding(Pointers(b))>>,
           [f \in 1..5 |-> [PlainFixture(f > 3, "other") EXCEPT
              !.fields = Pointers({e[2] : e \in {x \in pp \cup ps \cup ss : x[1] = f}})]]) :
        pp \in SUBSET {<<1, 2>>, <<1, 3>>, <<2, 3>>, <<3, 1>>},
        ps \in SUBSET {<<1, 4>>, <<2, 5>>, <<3, 5>>},
        ss \in (SUBSET {<<4, 5>>, <<5, 4>>}) \cup {{<<4, 1>>}},
        a \in {{1}, {2}, {3, 1}, {3, 4}}, b \in {{}, {3, 5}}}

\* A second method of a fixture that a suite binds itself or through another.
FixtureMethodFamily == Declarable(
    {Sight(<<[SuiteBinding(<<Pointer(via)>>) EXCEPT !.bench = cases = "bench", !.fuzz = cases = "fuzz"]>>,
           <<[PlainFixture(isShared, home) EXCEPT !.methods = ms],
             [PlainFixture(isShared, home) EXCEPT !.fields = <<Pointer(1)>>],
             [PlainFixture(isShared, "other") EXCEPT !.fields = <<[Pointer(1) EXCEPT !.how = "embedded"]>>]>>) :
        isShared \in BOOLEAN, home \in {"here", "other", "internal"}, via \in 1..3,
        cases \in {"test", "bench", "fuzz"},
        ms \in {{}, {Method("BeforeAll"), Method("Hydrate"), Method("Dehydrate")}}
                 \cup {{Method("BeforeAll"), m} : m \in
                          [name : LifeHooks \cup Carriers \cup {"FixtureConfig", "SharedFixtureConfig"},
                           recv : {"pointer", "value"}, fits : BOOLEAN]}})

\* The fields of a fixture, what its Hydrate assigns, and how it is declared.
FixtureFields ==
    [to : {0}, how : {"value", "embedded value"}, exported : BOOLEAN,
     assigned : {"never", "hydrate", "helper", "deeper"},
     type : {<<"data">>, <<"slice", "channel">>, <<"unexported field", "function">>,
             <<"pointer", "map of other keys", "data">>}]
      \cup {[Pointer(f) EXCEPT !.how = how, !.assigned = by] :
               f \in {2, 3, 4}, how \in {"pointer", "value", "embedded", "embedded value"},
               by \in {"never", "hydrate"}}
FieldFamily == Declarable(
    {Sight(<<SuiteBinding(<<Pointer(1)>>)>>,
           <<[PlainFixture(isShared, home) EXCEPT !.fields = <<x, y>>, !.source = read[1],
                !.methods = @ \cup {Method(c) : c \in read[2]}],
             PlainFixture(FALSE, home), PlainFixture(TRUE, "other"),
             [PlainFixture(FALSE, "other") EXCEPT !.methods = {}]>>) :
        isShared \in BOOLEAN, home \in {"here", "other"}, x \in FixtureFields,
        y \in {z \in FixtureFields : z.to # 4 /\ z.assigned = "never" /\ z.type = <<"data">>},
        read \in {<<TRUE, {}>>, <<TRUE, Carriers>>, <<FALSE, {}>>}})
FormFamily == Declarable(
    {Sight(suites, <<[PlainFixture(isShared, home) EXCEPT !.form = form, !.inTestFile = it, !.fields = fields],
                     PlainFixture(FALSE, "here"), [PlainFixture(TRUE, "here") EXCEPT !.form = other]>>) :
        isShared \in BOOLEAN, home \in {"here", "other"}, form \in {"struct", "grouped", "other"},
        it \in BOOLEAN, other \in {"struct", "grouped"}, fields \in {<<>>, <<Pointer(2)>>, <<Pointer(3)>>},
        suites \in {<<SuiteBinding(<<Pointer(1)>>)>>, <<SuiteBinding(<<[Pointer(1) EXCEPT !.how = "value"]>>)>>,
                    <<SuiteBinding(<<Pointer(1), Pointer(1)>>)>>, <<SuiteBinding(<<>>)>>}})

MCSights == <<GraphFamily, FixtureMethodFamily, FieldFamily, FormFamily>>

------------------------------------------------------------------------------
\* The values snapshots are taken of, and what their files hold (Snapshots).
Says(x, crs) == [renders |-> TRUE, lines |-> <<<<"text", x, crs>>, <<"text", "end", 0>>>>]
MCSnapSource == <<"internal", "internal", "external", "internal">>
MCSnapKey == <<1, 2, 1, 3>>
MCOldKey == <<1, 1, 1>>
HeaderLine == [renders |-> TRUE, lines |-> <<<<"snap", 1, 1>>>>]
NilValue == [renders |-> FALSE, lines |-> <<<<"text", "nil", 0>>>>]
MCSnapValues ==
    {<<a, b, Absent, d>> : a \in {Absent, Says("x", 0), Says("y", 0)}, b \in {Absent, Says("x", 2)},
                           d \in {Absent, Says("x", 1)}}
      \cup {<<a, Absent, c, Absent>> : a \in {Says("x", 1), Says("y", 0), NilValue, HeaderLine},
                                       c \in {Says("x", 0), Says("y", 2), HeaderLine, NilValue}}
FileOf(sections, crs) ==
    LET file == Serialize(sections) IN [i \in DOMAIN file |-> [file[i] EXCEPT ![3] = crs]]
Section(key, x) == [key |-> key, lines |-> Says(x, 0).lines]
MCBaselines ==
    {[internal |-> FileOf(i, crs), external |-> FileOf(e, crs)] :
        i \in {<<>>, <<Section(1, "x")>>, <<Section(1, "x"), Section(2, "y")>>},
        e \in {<<>>, <<Section(1, "y")>>}, crs \in {0, 1}}

------------------------------------------------------------------------------
CliOff == ShutdownIn("forced") /\ TreesIn /\ \A t \in Trees : kind[t] = "helper"
PipelineOff ==
    /\ PipelineIn("returned", "canceled")
    /\ ~bench /\ text /\ broken = {} /\ needs = {} /\ planned = RunSuites
VerdictsOff == IndexIn(SuiteCount + 1)
MethodOff == MethodIn("over")
WaitsOff == WaitsIn("over")
DeclaredOff == DeclaredIn("ended") /\ input = Given(<<>>, FALSE)
BindingOff == BindingIn("refused") /\ sight = Sight(<<>>, <<>>)
SnapOff ==
    /\ snapMode = [update |-> FALSE, ci |-> FALSE] /\ given = [c \in SnapCalls |-> Absent]
    /\ baseline = [f \in SnapFiles |-> <<>>] /\ SnapIn("ended")

MCRunInit ==
    /\ part \in {"cli", "pipeline", "verdicts", "methods", "waits", "declared", "binding", "snapshots"}
    /\ IF part = "cli" THEN CliInit ELSE CliOff
    /\ IF part = "pipeline" THEN PipelineInit ELSE PipelineOff
    /\ IF part = "verdicts" THEN VerdictsInit ELSE VerdictsOff
    /\ IF part = "methods" THEN MethodInit ELSE MethodOff
    /\ IF part = "waits" THEN WaitInit ELSE WaitsOff
    /\ IF part = "declared" THEN DeclaredInit ELSE DeclaredOff
    /\ IF part = "binding" THEN BindingInit ELSE BindingOff
    /\ IF part = "snapshots" THEN SnapInit ELSE SnapOff

MCRunNext ==
    /\ UNCHANGED part
    /\ IF part # "cli" THEN UNCHANGED cliVars ELSE TRUE
    /\ IF part # "pipeline" THEN UNCHANGED pipelineVars ELSE TRUE
    /\ IF part # "verdicts" THEN UNCHANGED verdictVars ELSE TRUE
    /\ IF part # "methods" THEN UNCHANGED methodVars ELSE TRUE
    /\ IF part # "waits" THEN UNCHANGED waitVars ELSE TRUE
    /\ IF part # "declared" THEN UNCHANGED declaredVars ELSE TRUE
    /\ IF part # "binding" THEN UNCHANGED bindingVars ELSE TRUE
    /\ IF part # "snapshots" THEN UNCHANGED snapVars ELSE TRUE
    /\ \/ part = "cli" /\ CliNext
       \/ part = "pipeline" /\ PipelineNext
       \/ part = "verdicts" /\ VerdictsNext
       \/ part = "methods" /\ MethodNext
       \/ part = "waits" /\ WaitNext
       \/ part = "declared" /\ DeclaredNext
       \/ part = "binding" /\ BindingNext
       \/ part = "snapshots" /\ SnapNext

MCRunSpec == MCRunInit /\ [][MCRunNext]_runVars /\ CliFairness

\* A green run ran all that its packages declare: what the pipeline starts and
\* the census expects is what the source writes, after focus and exclusion
\* (overlay.go:54), and a run is green only when all of it ended well
\* (census.go:353); the fixtures its suites name are all set up for them
\* (renderer.go:30); and a test that takes a snapshot passes when it is its own
\* baseline (snapshot.go:123).
GreenRanDeclared == GreenIsTrue /\ DeclaredIsOwed /\ FixturesAreBound /\ SnapshotsAreTrue
=============================================================================
