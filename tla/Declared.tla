------------------------------ MODULE Declared ------------------------------
(***************************************************************************)
(* From the packages a command line matches to what its run owes           *)
(* (cmd/gotest/exec.go Run): the packages are loaded and each gets a       *)
(* verdict of its own (loadPackages, gotestgen/generator.go), --ci refuses *)
(* focus (focusguard.go), every package's suites are reduced by the focus  *)
(* of the whole run and generated (generateFromLoaded, generateForPkg),    *)
(* and the overlay's result names what the pipeline starts and what the    *)
(* census holds a green run to (GenerateOverlay, overlay.go).              *)
(*                                                                         *)
(* A package is its test variants, those whose load or compile reports an  *)
(* error, and what Collector reads in each.  That binding or rendering a   *)
(* variant fails is an input, and so are the shared fixtures a suite names *)
(* itself and those it reaches through package fixtures.                   *)
(***************************************************************************)
EXTENDS Collector

CONSTANT InputFamilies   \* sequences of packages, each with its command line

ASSUME InputsAssumption ==
    \A i \in DOMAIN InputFamilies : \A x \in InputFamilies[i] :
        \A p \in ToSet(x.packages) :
            /\ p.errors \subseteq {"plain", "main"} \cup p.tests
            /\ "main" \in p.errors => p.errors # {"main"} /\ p.tests # {}
            /\ "plain" \in p.errors /\ "internal" \in p.tests => "internal" \in p.errors

VARIABLES
    input,      \* the command line and the packages its patterns match
    runStage,   \* "load", "collect", "guard", "generate", "run", "ended"
    matchedAs,  \* RunPackages
    collected,  \* what CollectSuiteSpecs found in each variant of a loaded package
    results,    \* the GenerateResult of each loaded package
    overlay,    \* OverlayResult
    runCode     \* the exit code, -1 while the run goes on

declaredVars == <<input, runStage, matchedAs, collected, results, overlay, runCode>>

MatchedPackages == ToSet(input.packages)
PackageAt(path) == CHOOSE p \in MatchedPackages : p.path = path
Variants == <<"internal", "external">>

------------------------------------------------------------------------------
(* loadPackages and LoadRunPackages *)

\* The test main repeats its variants' errors and breaks nothing by itself.
Broken(p) == p.errors \ {"main"} # {}
HasNoTestFiles(p) == "plain" \notin p.errors /\ p.tests = {}
\* Changed to load a package one variant of which is intact.
IsLoaded_EitherVariant(p) == p.tests \ p.errors # {}
IsLoaded(p) == ~Broken(p) /\ p.tests \ p.errors # {}

PathsOf(ps) == [i \in DOMAIN ps |-> ps[i].path]

\* reportOrder: as go list expanded several patterns, then the others sorted.
ReportOrder(matched, listed) ==
    LET known == SelectSeq(listed, LAMBDA path : path \in ToSet(matched))
        Fresh(i) == \A j \in 1..(i - 1) : known[j] # known[i]
        first == SelectSeq([i \in DOMAIN known |-> <<i, known[i]>>], LAMBDA x : Fresh(x[1]))
        rest == SelectSeq(matched, LAMBDA path : path \notin ToSet(listed))
    IN [i \in DOMAIN first |-> first[i][2]] \o SortSeq(rest, <)

LoadPackages(ps) ==
    [loaded |-> PathsOf(SelectSeq(ps, IsLoaded)),
     broken |-> SortSeq(PathsOf(SelectSeq(ps, Broken)), <),
     noTestFiles |-> PathsOf(SelectSeq(ps, HasNoTestFiles)),
     order |-> ReportOrder(PathsOf(ps), input.listed)]

\* A run whose patterns match nothing verifies nothing (NoPackagesError).
Load ==
    /\ runStage = "load"
    /\ IF input.packages = <<>>
       THEN runStage' = "ended" /\ runCode' = 2 /\ UNCHANGED matchedAs
       ELSE /\ matchedAs' = LoadPackages(input.packages)
            /\ runStage' = "collect"
            /\ UNCHANGED runCode
    /\ UNCHANGED <<input, collected, results, overlay>>

------------------------------------------------------------------------------
(* CollectFromLoaded and enforceFocusGuard *)

VariantsOf(p) == {x \in ToSet(Variants) : x \in p.tests}
LoadedPackages == {PackageAt(path) : path \in ToSet(matchedAs.loaded)}

\* Both the guard and the generator collect what is loaded, with one result.
CollectFromLoaded ==
    [path \in ToSet(matchedAs.loaded) |->
        [x \in VariantsOf(PackageAt(path)) |-> CollectSuiteSpecs(PackageAt(path).source[x])]]

Collect ==
    /\ runStage = "collect"
    /\ collected' = CollectFromLoaded
    /\ IF \E path \in DOMAIN collected' : \E x \in DOMAIN collected'[path] : collected'[path][x].refused
       THEN runStage' = "ended" /\ runCode' = 2
       ELSE runStage' = (IF input.ci THEN "guard" ELSE "generate") /\ UNCHANGED runCode
    /\ UNCHANGED <<input, matchedAs, results, overlay>>

CollectedIn(p, x) == collected[p.path][x]
CollectedSuites(ps) == UNION {UNION {ToSet(CollectedIn(p, x).suites) : x \in VariantsOf(p)} : p \in ps}

\* CheckFocusViolations
FocusViolation(d) == d.mark = "F_" \/ Marked("F_", CasesOf(d)) # {}

Guard ==
    /\ runStage = "guard"
    /\ \/ /\ \E d \in CollectedSuites(LoadedPackages) : FocusViolation(d)
          /\ runStage' = "ended" /\ runCode' = 1
       \/ /\ \A d \in CollectedSuites(LoadedPackages) : ~FocusViolation(d)
          /\ runStage' = "generate" /\ UNCHANGED runCode
    /\ UNCHANGED <<input, matchedAs, collected, results, overlay>>

------------------------------------------------------------------------------
(* generateFromLoaded and generateForPkg *)

\* Focus is a property of the whole run.
FocusRun == \E p \in LoadedPackages : \E x \in VariantsOf(p) : Focuses(CollectedIn(p, x).suites)

SpecIn(p, x, focusRun) ==
    IF x \in p.tests THEN ReduceInRun(CollectedIn(p, x).suites, focusRun)
    ELSE [effective |-> <<>>, skipped |-> <<>>]

\* The shared fixtures a suite needs, its own and its package fixtures'.
NeededBy(d) == d.shared \cup d.through

\* generateForPkg: a variant none of whose suites runs has no generated file.
\* A suite bound to package fixtures waits for the shared fixtures as soon as
\* one of the variant's package fixtures has any.
GeneratedFor(p, x, focusRun) ==
    LET spec == SpecIn(p, x, focusRun)
        effective == ToSet(spec.effective)
        treeShared == \E e \in effective : e.decl.through # {}
        waits == {e.id : e \in {y \in effective :
                                  y.decl.shared # {} \/ (treeShared /\ y.decl.bound)}}
    IN [functions |-> IF effective = {} THEN {} ELSE FunctionsOf(spec),
        waiting |-> waits,
        keys |-> [id \in {e.id : e \in {y \in effective : NeededBy(y.decl) # {}}} |->
                     NeededBy((CHOOSE e \in effective : e.id = id).decl)]]

\* The first of the suites of one name, the internal variant's before the
\* external's.
FirstOfEach(suites) ==
    LET Fresh(i) == \A j \in 1..(i - 1) : suites[j].id # suites[i].id
        firsts == SelectSeq([i \in DOMAIN suites |-> <<i, suites[i]>>], LAMBDA x : Fresh(x[1]))
    IN {firsts[i][2] : i \in DOMAIN firsts}

EffectiveIn(p, focusRun) ==
    SpecIn(p, "internal", focusRun).effective \o SpecIn(p, "external", focusRun).effective
SkippedIn(p, focusRun) ==
    ToSet(SpecIn(p, "internal", focusRun).skipped) \cup ToSet(SpecIn(p, "external", focusRun).skipped)

NamesOf(e, ms) == {<<e.id, NameOf(m)>> : m \in ms}

RunsTests(e) == e.tests # {} \/ e.fuzzers # {}

\* GenerateResult
GenerateResult(p, focusRun) ==
    LET effective == EffectiveIn(p, focusRun)
        all == ToSet(effective)
        first == FirstOfEach(effective)
        running == {e.id : e \in {x \in first : RunsTests(x)}}
        caseless == {e.id : e \in {x \in first : ~RunsTests(x) /\ DeclaresTests(x.decl)}}
        internal == GeneratedFor(p, "internal", focusRun)
        external == GeneratedFor(p, "external", focusRun)
    IN [path |-> p.path,
        functions |-> [internal |-> internal.functions, external |-> external.functions],
        suites |-> running,
        testless |-> {e.id : e \in {x \in first : x.id \in running /\ ~DeclaresTests(x.decl)}},
        benchSuites |-> {e.id : e \in {x \in all : x.benchmarks # {}}},
        fuzzFuncs |-> UNION {NamesOf(e, e.fuzzers) : e \in all},
        skippedSuites |-> caseless \cup ({d.id : d \in SkippedIn(p, focusRun)} \ {e.id : e \in all}),
        exclusive |-> {e.id : e \in {x \in first : x.id \in running
                                                     /\ "exclusive" \in Speech(x.decl)}},
        waiting |-> internal.waiting \cup external.waiting,
        keys |-> external.keys @@ internal.keys,
        tests |-> UNION {NamesOf(e, e.tests) : e \in first},
        benches |-> UNION {NamesOf(e, e.benchmarks) : e \in first}]

\* CheckRuntimeVersion: the first package that requires a released runtime
\* tells for all.
RuntimeOutdated ==
    LET released == SelectSeq(matchedAs.loaded,
                              LAMBDA path : PackageAt(path).runtime # "none")
    IN released # <<>> /\ PackageAt(Head(released)).runtime = "outdated"

\* It and binding each refuse the whole run.
CannotGenerate ==
    \/ RuntimeOutdated
    \/ \E p \in LoadedPackages : \E x \in VariantsOf(p) :
           p.source[x].unbound /\ SpecIn(p, x, FocusRun).effective # <<>>

------------------------------------------------------------------------------
(* GenerateOverlay *)

HasFile(r) == \E x \in DOMAIN r.functions : r.functions[x] # {}
ByPackage(rs, field) == [path \in {r.path : r \in rs} |-> (CHOOSE r \in rs : r.path = path)[field]]
Cased(rs, field) == UNION {{<<r.path, c[1], c[2]>> : c \in r[field]} : r \in rs}

OverlayOf(rs) ==
    [suitePackages |-> {r.path : r \in {x \in rs : HasFile(x)}},
     noSuitePackages |-> {r.path : r \in {x \in rs : ~HasFile(x)}},
     brokenPackages |-> ToSet(matchedAs.broken),
     suites |-> ByPackage(rs, "suites"),
     benches |-> ByPackage(rs, "benchSuites"),
     exclusive |-> ByPackage(rs, "exclusive"),
     testless |-> ByPackage(rs, "testless"),
     fuzzFuncs |-> ByPackage(rs, "fuzzFuncs"),
     skippedSuites |-> ByPackage(rs, "skippedSuites"),
     waiting |-> ByPackage(rs, "waiting"),
     keys |-> ByPackage(rs, "keys"),
     tests |-> Cased(rs, "tests"),
     fuzz |-> Cased(rs, "fuzzFuncs"),
     benchmarks |-> Cased(rs, "benches")]

\* GenerateOverlay
Generate ==
    /\ runStage = "generate"
    /\ IF CannotGenerate
       THEN runStage' = "ended" /\ runCode' = 2 /\ UNCHANGED <<results, overlay>>
       ELSE /\ LET focusRun == FocusRun IN
               results' = [i \in DOMAIN matchedAs.loaded |->
                              GenerateResult(PackageAt(matchedAs.loaded[i]), focusRun)]
            /\ overlay' = OverlayOf(ToSet(results'))
            /\ runStage' = "run" /\ UNCHANGED runCode
    /\ UNCHANGED <<input, matchedAs, collected>>

------------------------------------------------------------------------------
Nothing == [x \in {} |-> x]

DeclaredIn(stage) ==
    /\ runStage = stage /\ runCode = -1
    /\ matchedAs = Nothing /\ collected = Nothing /\ results = <<>> /\ overlay = Nothing

DeclaredInit ==
    /\ DeclaredIn("load")
    /\ \E i \in DOMAIN InputFamilies : input \in InputFamilies[i]

\* The pipeline takes the overlay's result, or the run has ended before it.
HandedOn == runStage \in {"run", "ended"} /\ UNCHANGED declaredVars

DeclaredNext == Load \/ Collect \/ Guard \/ Generate \/ HandedOn

------------------------------------------------------------------------------
(* Properties *)

\* Every matched package ends in exactly one verdict, and has one place in the
\* report: none disappears because a variant of it failed to load
\* (generator.go:155-159, reportOrder).
OneVerdictEach ==
    matchedAs # Nothing =>
        LET groups == <<matchedAs.loaded, matchedAs.broken, matchedAs.noTestFiles>> IN
        /\ \A p \in MatchedPackages : \E i \in 1..3 : \A j \in 1..3 : p.path \in ToSet(groups[j]) <=> i = j
        /\ ToSet(matchedAs.order) = ToSet(PathsOf(input.packages))
        /\ Len(matchedAs.order) = Cardinality(MatchedPackages)

\* With --ci no run that focuses goes on (focusguard.go:59).
GuardHoldsFocus == input.ci /\ runStage \in {"generate", "run"} => ~FocusRun

\* What the source asks for, read method by method: a suite's pointer method
\* whose name begins like a case and that takes the case's T, B or F.
CaseWritten(m) ==
    m.recv = "pointer" /\ m.word \in CaseWords /\ m.rest # "none" /\ TakesItsCase(m)

Written(p, x) == {<<d, m>> \in UNION {{d} \X d.methods : d \in ToSet(SuitesOf(p.source[x]))} :
                     CaseWritten(m)}
AllWritten == UNION {UNION {Written(p, x) : x \in VariantsOf(p)} : p \in LoadedPackages}

FocusWritten == \E c \in AllWritten : c[1].mark = "F_" \/ (c[1].mark # "X_" /\ c[2].mark = "F_")

ShouldRun(d, m, focus) ==
    LET narrowed == \E n \in d.methods : CaseWritten(n) /\ n.word = m.word /\ n.mark = "F_"
    IN /\ d.mark # "X_" /\ m.mark # "X_"
       /\ focus => m.mark = "F_" \/ (d.mark = "F_" /\ ~narrowed)

\* An external suite that an internal one of the same name hides: its cases run
\* beside the other's but are not counted.
Shadowed(p, x, d) ==
    x = "external" /\ "internal" \in p.tests
      /\ \E o \in ToSet(SuitesOf(p.source["internal"])) :
            o.id = d.id /\ \E e \in ToSet(SpecIn(p, "internal", FocusRun).effective) : e.id = o.id

Owed(word, focus) ==
    UNION {UNION {{<<p.path, c[1].id, NameOf(c[2])>> :
                      c \in {w \in Written(p, x) : /\ w[2].word = word /\ ShouldRun(w[1], w[2], focus)
                                                   /\ word = "Fuzz" \/ ~Shadowed(p, x, w[1])}} :
                  x \in VariantsOf(p)} : p \in LoadedPackages}

\* The units a green run is held to are the cases the packages declare, after
\* focus and exclusion: none that the source writes is dropped without a
\* refusal, and none is owed that cannot run (overlay.go:54, census.go:24).
DeclaredIsWritten ==
    runStage = "run" =>
        LET focus == FocusWritten IN
        /\ overlay.tests = Owed("Test", focus)
        /\ overlay.fuzz = Owed("Fuzz", focus)
        /\ overlay.benchmarks = Owed("Benchmark", focus)

\* Every unit that is owed is in a suite the pipeline starts and in a function
\* of a generated file; a suite that declares tests runs or is named as skipped
\* (generator.go:566-598, gotest.suites.tpl).
StartedIsGenerated ==
    runStage = "run" =>
        LET Has(path, word, id, n) ==
                \E i \in DOMAIN results : \E x \in ToSet(Variants) :
                    /\ results[i].path = path
                    /\ \E f \in results[i].functions[x] :
                          f[1] = word /\ f[2] = id /\ \E m \in f[3] : NameOf(m) = n
        IN /\ \A u \in overlay.tests \cup overlay.fuzz :
                  u[1] \in overlay.suitePackages /\ u[2] \in overlay.suites[u[1]]
           /\ \A u \in overlay.tests : Has(u[1], "Test", u[2], u[3])
           /\ \A u \in overlay.fuzz : Has(u[1], "Fuzz", u[2], u[3])
           /\ \A u \in overlay.benchmarks :
                  Has(u[1], "Benchmark", u[2], u[3]) /\ u[2] \in overlay.benches[u[1]]
           /\ \A p \in LoadedPackages :
                  /\ overlay.suites[p.path] \cap overlay.skippedSuites[p.path] = {}
                  /\ \A x \in VariantsOf(p) : \A d \in ToSet(CollectedIn(p, x).suites) :
                        DeclaresTests(d) =>
                            \/ d.id \in overlay.suites[p.path] \cup overlay.skippedSuites[p.path]
                            \/ Shadowed(p, x, d)

\* A suite that runs is known to wait for the shared fixtures it needs, and for
\* which (generator.go:705-735, FixtureDepSuites).
NeedsAreKnown ==
    runStage = "run" =>
        LET focusRun == FocusRun IN
        \A p \in LoadedPackages : \A x \in VariantsOf(p) : \A e \in ToSet(SpecIn(p, x, focusRun).effective) :
            NeededBy(e.decl) # {} =>
                /\ e.id \in overlay.waiting[p.path]
                /\ \/ NeededBy(e.decl) \subseteq overlay.keys[p.path][e.id]
                   \/ \E y \in VariantsOf(p) \ {x} :
                        \E o \in ToSet(SpecIn(p, y, focusRun).effective) : o.id = e.id

\* What a hook's body does under a wrapper whose T() is nil: the values an
\* expression may have there, and how a sequence of statements may end and what
\* its variables hold then.
Either == {"true", "false"}
Spelled(b) == IF b THEN "true" ELSE "false"
RECURSIVE ValuesOf(_, _)
ValuesOf(e, holds) ==
    LET Known(x) == ValuesOf(x, holds)
        Then(x, Value(_)) == {IF v = "panic" THEN v ELSE Value(v) : v \in Known(x)}
    IN CASE e[1] = "T" -> {"nil"}
         [] e[1] = "value" -> {"method value"}
         [] e[1] = "id" -> {holds[e[2]]}
         [] e[1] = "any" -> Either
         [] e[1] = "==" -> Then(e[2], LAMBDA v : Spelled(v = "nil"))
         [] e[1] = "!=" -> Then(e[2], LAMBDA v : Spelled(v # "nil"))
         [] e[1] = "!" -> Then(e[2], LAMBDA v : Spelled(v = "false"))
         [] e[1] = "use" -> IF Known(e[2]) \subseteq {"nil", "method value", "panic"} THEN {"panic"} ELSE Either
         [] e[1] \in {"&&", "||"} ->
              LET goesOn == Spelled(e[1] = "&&") IN
              (Known(e[2]) \ {goesOn}) \cup (IF goesOn \in Known(e[2]) THEN Known(e[3]) ELSE {})

RECURSIVE EndsOf(_, _)
EndsOf(body, holds) ==
    IF body = <<>> THEN {<<"through", holds>>}
    ELSE LET s == body[1]
             Give(v, e, h) == {IF x = "panic" THEN <<x, h>> ELSE <<"through", [h EXCEPT ![v] = x]>> :
                                  x \in ValuesOf(e, h)}
             Branch(v, h) == CASE v = "panic" -> {<<v, h>>}
                               [] v = "true" -> EndsOf(s[4], h)
                               [] v = "false" -> EndsOf(s[5], h)
             first ==
                 CASE s[1] = "return" -> {<<"return", holds>>}
                   [] s[1] = "do" -> {<<IF v = "panic" THEN v ELSE "through", holds>> : v \in ValuesOf(s[2], holds)}
                   [] s[1] = "set" -> Give(s[2], s[3], holds)
                   [] s[1] = "if" ->
                        LET entered == IF s[2] = <<>> THEN {<<"through", holds>>} ELSE Give(s[2][2], s[2][3], holds)
                        IN {x \in entered : x[1] = "panic"} \cup
                           UNION {UNION {Branch(v, x[2]) : v \in ValuesOf(s[3], x[2])} :
                                     x \in {y \in entered : y[1] = "through"}}
         IN {x \in first : x[1] # "through"}
              \cup UNION {EndsOf(Tail(body), x[2]) : x \in {y \in first : y[1] = "through"}}

NeedsNilT(body) ==
    \E x \in EndsOf(body, [v \in HookVars |-> IF v = "t" THEN "hook T" ELSE "nil"]) : x[1] = "panic"

\* The harness generated for what was accepted compiles and never hands a hook
\* a T whose T() it needs and is nil: the validators and the templates agree
\* (ValidateContextConsistency, spec.go:946; gotest.suitebody.tpl).
HarnessFits ==
    runStage = "run" =>
        LET focusRun == FocusRun IN
        \A p \in LoadedPackages : \A x \in VariantsOf(p) : \A e \in ToSet(SpecIn(p, x, focusRun).effective) :
            /\ \A c \in HookCalls(e) \cup CaseCalls(e) : c[1].takes = c[2]
            /\ e.benchmarks \cup e.fuzzers # {} => ~Returning(e.decl)
            /\ \A m \in NilTHooks(e) : ~UsesStdlibT(m) /\ ~NeedsNilT(m.body)
            /\ e.tests # {} => e.decl.exported
            /\ "parallel" \in Speech(e.decl) => Read(e.decl, "BeforeEach") = {} \/ Returning(e.decl)

DeclaredIsOwed ==
    /\ OneVerdictEach /\ GuardHoldsFocus /\ DeclaredIsWritten
    /\ StartedIsGenerated /\ NeedsAreKnown /\ HarnessFits
=============================================================================
