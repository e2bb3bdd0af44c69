----------------------------- MODULE Collector -----------------------------
(***************************************************************************)
(* What gotest reads in one test package and what it makes of it: the      *)
(* suites declared (DetermineTestSuite, gotestast/spec.go), the role of    *)
(* each method (DetermineTestSuiteHarness), the shapes and contexts that   *)
(* are refused, the order the refusals are looked for in (collector.go),   *)
(* the reduction by F_ and X_ (ReduceInRun) and the calls the generated    *)
(* harness makes (gotestgen/static).                                       *)
(*                                                                         *)
(* A method is its name, taken apart into mark, word and what follows the  *)
(* word, its receiver, the types it takes and gives, and of a hook the     *)
(* statements that have to do with its T.  A declaration is a type whose   *)
(* name may end in TestSuite, with the methods declared on the type its    *)
(* suite would run.  Fixtures are outside this model: a package says at    *)
(* which step one of its fixtures is refused, if any.                      *)
(***************************************************************************)
EXTENDS Naturals, Sequences, FiniteSets, SequencesExt

AllHooks == {"BeforeAll", "AfterAll", "BeforeEach", "AfterEach"}
CaseWords == {"Test", "Benchmark", "Fuzz"}
CaseTypes == [Test |-> {"T", "stdT"}, Benchmark |-> {"B", "stdB"}, Fuzz |-> {"F", "stdF"}]
SuiteSpeech == {"parallel", "exclusive", "unread"}

------------------------------------------------------------------------------
(* The role of a method *)

NameOf(m) == <<m.mark, m.word, m.rest, m.n>>

\* IsGoTestName: the letter after Test, Benchmark or Fuzz is not lowercase.
IsGoTestName(m) == m.word \in CaseWords => m.rest # "lower"

\* IS_TEST_SUITE_METHOD
IsHarnessName(m) ==
    \/ /\ m.word \in AllHooks \cup {"SuiteConfig", "SuiteGuard"}
       /\ m.mark = "" /\ m.rest = "none"
    \/ m.word \in CaseWords /\ m.rest = "upper"

\* caseParamOf
TakesItsCase(m) == m.takes # <<>> /\ Head(m.takes) \in CaseTypes[m.word]

Ignored(m) ==
    \/ m.recv = "other"
    \/ IsGoTestName(m) /\ ~IsHarnessName(m)
    \/ ~IsGoTestName(m) /\ (m.recv = "value" \/ ~TakesItsCase(m))

UsesStdlibT(m) == m.takes # <<>> /\ Head(m.takes) \in {"stdT", "stdB"}

\* detectParamT
TakesT(m) == m.takes # <<>> /\ Head(m.takes) \in {"T", "stdT"}

RefusedReceiver(m) == m.recv = "value" \/ ~IsGoTestName(m)

RefusedMarker(m) ==
    \/ m.word = "SuiteConfig" /\ (m.takes # <<>> \/ m.gives # <<"config">> \/ "unread" \in m.says)
    \/ m.word = "SuiteGuard" /\ (m.takes # <<>> \/ m.gives # <<"string">>)

RefusedHook(m) ==
    /\ m.word \in AllHooks
    /\ \/ ~TakesT(m)
       \/ m.word = "BeforeEach" /\ (Len(m.takes) # 1 \/ Len(m.gives) > 1)
       \/ m.word = "AfterEach" /\ (Len(m.takes) > 2 \/ m.gives # <<>>)
       \/ m.word \in {"BeforeAll", "AfterAll"} /\ (Len(m.takes) # 1 \/ m.gives # <<>>)

RefusedCase(m) ==
    /\ m.word \in CaseWords
    /\ \/ m.gives # <<>>
       \/ m.word = "Benchmark" /\ m.takes \notin {<<"B">>, <<"stdB">>}
       \/ m.word = "Fuzz" /\ m.takes # <<"F">>
       \/ m.word = "Test" /\ (~TakesT(m) \/ Len(m.takes) > 2 \/ Last(m.takes) = "done")

\* DetermineTestSuiteHarness, where it refuses a method.
RefusedMethod(m) ==
    ~Ignored(m) /\ (RefusedReceiver(m) \/ RefusedMarker(m) \/ RefusedHook(m) \/ RefusedCase(m))

\* The TestSuiteHarness it fills.
Read(d, w) == {m \in d.methods : ~Ignored(m) /\ m.word = w}
Speech(d) == UNION {m.says : m \in Read(d, "SuiteConfig")}
DeclaresTests(d) == Read(d, "Test") # {}
Returning(d) == \E m \in Read(d, "BeforeEach") : m.gives # <<>>
ContextOf(d) == Head((CHOOSE m \in Read(d, "BeforeEach") : TRUE).gives)

------------------------------------------------------------------------------
(* The bodies of hooks                                                       *)
(*                                                                           *)
(* A body is a sequence of statements: <<"do", e>>, <<"set", v, e>>,         *)
(* <<"return">> and <<"if", init, cond, body, else>>, whose init is a "set"  *)
(* or <<>>, and whose else may be <<>>.  An expression is <<"T", v>>, v.T(); *)
(* <<"value", v>>, v.T; <<"id", v>>; <<"==", e>> and <<"!=", e>>, against    *)
(* nil; "&&", "||" and "!"; <<"use", e>>, which needs e; or <<"any">>.       *)

HookVars == {"t", "alias", "bound"}

\* nonNilIf, nonNilUnless: what a condition proves when it is true, or false.
RECURSIVE NonNilIf(_, _), NonNilUnless(_, _)
NonNilIf(cond, e) ==
    IF cond[1] = "&&" THEN NonNilIf(cond[2], e) \/ NonNilIf(cond[3], e) ELSE cond = <<"!=", e>>
NonNilUnless(cond, e) ==
    IF cond[1] = "||" THEN NonNilUnless(cond[2], e) \/ NonNilUnless(cond[3], e) ELSE cond = <<"==", e>>

\* checked: whether the conditions above a place prove e there.
Checked(e, facts) ==
    \E f \in facts : IF f[1] = "if" THEN NonNilIf(f[2], e) ELSE NonNilUnless(f[2], e)

EndsInReturn(body) == body # <<>> /\ Last(body) = <<"return">>

\* What holds at the i-th statement of a block: the checks before it returned.
FactsAt(body, i, facts) ==
    facts \cup {<<"unless", body[j][3]>> : j \in
        {k \in 1..(i - 1) : body[k][1] = "if" /\ body[k][5] = <<>> /\ EndsInReturn(body[k][4])}}

\* Whether an expression has one of the wanted leaves where it may be nil; one
\* that is only compared with nil may (comparedWithNil).
RECURSIVE UncheckedIn(_, _, _)
UncheckedIn(e, facts, wanted) ==
    CASE e \in wanted -> ~Checked(e, facts)
      [] e[1] \in {"==", "!="} -> ~(e[2] \in wanted /\ e[2][1] # "value") /\ UncheckedIn(e[2], facts, wanted)
      [] e[1] = "&&" -> UncheckedIn(e[2], facts, wanted) \/ UncheckedIn(e[3], facts \cup {<<"if", e[2]>>}, wanted)
      [] e[1] = "||" -> UncheckedIn(e[2], facts, wanted) \/ UncheckedIn(e[3], facts \cup {<<"unless", e[2]>>}, wanted)
      [] e[1] \in {"use", "!"} -> UncheckedIn(e[2], facts, wanted)
      [] OTHER -> FALSE

\* The same of statements; a variable that is assigned to keeps no proof
\* (mutable), and what an if-init binds is followed in its place
\* (boundInIfInit).
RECURSIVE Unchecked(_, _, _)
Unchecked(body, facts, wanted) ==
    \E i \in DOMAIN body :
        LET s == body[i]  here == FactsAt(body, i, facts)
            branches == \/ UncheckedIn(s[3], here, wanted)
                        \/ Unchecked(s[4], here \cup {<<"if", s[3]>>}, wanted)
                        \/ Unchecked(s[5], here \cup {<<"unless", s[3]>>}, wanted)
        IN CASE s[1] = "do" -> UncheckedIn(s[2], here, wanted)
             [] s[1] = "set" -> <<"id", s[2]>> \in wanted \/ UncheckedIn(s[3], here, wanted)
             [] s[1] = "return" -> FALSE
             [] s[1] = "if" ->
                  \/ branches
                  \/ /\ s[2] # <<>> /\ UncheckedIn(s[2][3], here, wanted)
                     /\ \/ s[2][3][1] # "T"
                        \/ Unchecked(<<<<"if", <<>>, s[3], s[4], s[5]>>>>, here, {<<"id", s[2][2]>>})

\* followAliases: the variables that hold the hook's own *gotest.T.
RECURSIVE SetIn(_)
SetIn(body) ==
    UNION {LET s == body[i] IN
           CASE s[1] = "set" -> {<<s[2], s[3]>>}
             [] s[1] = "if" -> (IF s[2] = <<>> THEN {} ELSE {<<s[2][2], s[2][3]>>}) \cup SetIn(s[4]) \cup SetIn(s[5])
             [] OTHER -> {} : i \in DOMAIN body}
RECURSIVE FollowAliases(_, _)
FollowAliases(self, sets) ==
    LET more == {s[1] : s \in {x \in sets : x[2][1] = "id" /\ x[2][2] \in self}}
    IN IF more \subseteq self THEN self ELSE FollowAliases(self \cup more, sets)

\* callsT
CallsT(body) ==
    LET self == FollowAliases({"t"}, SetIn(body))
    IN Unchecked(body, {}, {<<op, v>> : op \in {"T", "value"}, v \in self})

------------------------------------------------------------------------------
(* The declarations *)

\* DetermineTestSuite: a defined type over one that declares cases has none of
\* its methods; a block hides a declaration from its readers.
RefusedDeclaration(d) == d.named /\ (d.grouped \/ (~d.generic /\ d.form = "defined"))
IsSuite(d) == d.named /\ ~d.grouped /\ ~d.generic /\ d.form \in {"struct", "alias"}

\* FieldShapeError
RefusedShape(d) == d.field \in {"suite", "embedded suite", "embedded fixture", "embedded hook"}

\* declaringPackage: an alias of another package's suite needs its source.
SourceLost(d) == d.form = "alias" /\ d.source = "lost"

\* ValidateDeclaresCase
NoCase(d) == \A w \in CaseWords : Read(d, w) = {}

\* hooksCallingT
NilTCalled(d) ==
    LET under == (IF Read(d, "Benchmark") # {} THEN AllHooks ELSE {})
                   \cup (IF Read(d, "Fuzz") # {} THEN {"BeforeAll", "AfterAll"} ELSE {}) IN
    \E w \in under : \E m \in Read(d, w) : ~UsesStdlibT(m) /\ CallsT(m.body)

\* ValidateContextConsistency, its rules for benchmark and fuzz methods.
WrapperRefused(d) ==
    /\ Read(d, "Benchmark") \cup Read(d, "Fuzz") # {}
    /\ \/ Returning(d)
       \/ \E w \in AllHooks : \E m \in Read(d, w) : UsesStdlibT(m)
       \/ NilTCalled(d)

\* Its rules for the context a returning BeforeEach hands on.
ContextRefused(d) ==
    LET handed == Read(d, "Test") \cup Read(d, "AfterEach") IN
    \/ DeclaresTests(d) /\ ~d.exported
    \/ "parallel" \in Speech(d) /\ Read(d, "BeforeEach") # {} /\ ~Returning(d)
    \/ ~Returning(d) /\ \E m \in handed : Len(m.takes) > 1
    \/ Returning(d) /\ (\/ ContextOf(d) \notin {"*ctx", "*ctx2"}
                        \/ \E m \in handed : Len(m.takes) = 1 \/ m.takes[2] # ContextOf(d))

------------------------------------------------------------------------------
(* CollectSuiteSpecs: each step looks for its refusals only when the steps   *)
(* before found none.                                                        *)

SuitesOf(v) == SelectSeq(v.decls, IsSuite)

CollectSteps(v) ==
    LET suites == ToSet(SuitesOf(v)) IN
    << \E d \in ToSet(v.decls) : RefusedDeclaration(d),
       suites # {} /\ v.clash,                              \* PredeclaredClash
       v.fixtureFault = "declared",
       (\E d \in suites : RefusedShape(d)) \/ v.fixtureFault = "shape",
       \E d \in suites : SourceLost(d) \/ \E m \in d.methods : RefusedMethod(m),
       \E d \in suites : NoCase(d),
       \E d \in suites : WrapperRefused(d) \/ ContextRefused(d),
       v.fixtureFault = "methods",
       v.fixtureFault = "consistency" >>

CollectSuiteSpecs(v) ==
    LET refused == \E i \in DOMAIN CollectSteps(v) : CollectSteps(v)[i] IN
    [refused |-> refused, suites |-> IF refused THEN <<>> ELSE SuitesOf(v)]

------------------------------------------------------------------------------
(* Focus and exclusion *)

Marked(mark, ms) == {m \in ms : m.mark = mark}
CasesOf(d) == UNION {Read(d, w) : w \in CaseWords}

FocusesMethod(d) == d.mark # "X_" /\ Marked("F_", CasesOf(d)) # {}
Focuses(suites) == \E d \in ToSet(suites) : d.mark = "F_" \/ FocusesMethod(d)

\* One kind of a suite's methods; a suite kept for its F_ methods runs those.
Reduced(d, ms, focusRun) ==
    LET focused == Marked("F_", ms)
        kept == IF focused # {} \/ (focusRun /\ d.mark # "F_") THEN focused ELSE ms
    IN kept \ Marked("X_", ms)

EffectiveSuite(d, focusRun) ==
    [decl |-> d, id |-> d.id,
     tests |-> Reduced(d, Read(d, "Test"), focusRun),
     benchmarks |-> Reduced(d, Read(d, "Benchmark"), focusRun),
     fuzzers |-> Reduced(d, Read(d, "Fuzz"), focusRun)]

ReduceInRun(suites, focusRun) ==
    LET InFocus(d) == focusRun => d.mark = "F_" \/ FocusesMethod(d)
        Kept(d) == InFocus(d) /\ d.mark # "X_"
        kept == SelectSeq(suites, Kept)
    IN [effective |-> [i \in DOMAIN kept |-> EffectiveSuite(kept[i], focusRun)],
        skipped |-> SelectSeq(suites, LAMBDA d : ~Kept(d))]

------------------------------------------------------------------------------
(* The generated harness *)

\* The calls of a suite's wrapper (suiteWrapper, suiteMethods): each method and
\* the types of the arguments it is called with.
OwnT(m) == IF UsesStdlibT(m) THEN "stdT" ELSE "T"
WithContext(e, m) == <<OwnT(m)>> \o (IF Returning(e.decl) THEN <<ContextOf(e.decl)>> ELSE <<>>)

HookCalls(e) ==
    {<<m, <<OwnT(m)>>>> : m \in UNION {Read(e.decl, w) : w \in AllHooks \ {"AfterEach"}}}
      \cup {<<m, WithContext(e, m)>> : m \in Read(e.decl, "AfterEach")}

CaseCalls(e) ==
    {<<m, WithContext(e, m)>> : m \in e.tests}
      \cup {<<m, <<IF UsesStdlibT(m) THEN "stdB" ELSE "B">>>> : m \in e.benchmarks}
      \cup {<<m, <<"F">>>> : m \in e.fuzzers}

\* The hooks that are handed a T whose T() is nil: all under a benchmark, and
\* those around the whole target under a fuzz wrapper.
NilTHooks(e) ==
    UNION {Read(e.decl, w) : w \in (IF e.benchmarks # {} THEN AllHooks ELSE {})
                                     \cup (IF e.fuzzers # {} THEN {"BeforeAll", "AfterAll"} ELSE {})}

\* The functions of a generated file, each with the cases it runs; a suite that
\* is skipped, or whose every test is, keeps a test function that skips.
TestFunctions(spec) ==
    LET effective == ToSet(spec.effective)
        Skips(ids) == {<<"Test", id, {}>> : id \in ids}
    IN {<<"Test", e.id, e.tests>> : e \in {x \in effective : x.tests # {}}}
         \cup Skips({e.id : e \in {x \in effective : x.tests = {} /\ DeclaresTests(x.decl)}})
         \cup Skips({d.id : d \in ToSet(spec.skipped)})

BenchFunctions(spec) ==
    {<<"Benchmark", e.id, e.benchmarks>> : e \in {x \in ToSet(spec.effective) : x.benchmarks # {}}}

FuzzFunctions(spec) == UNION {{<<"Fuzz", e.id, {m}>> : m \in e.fuzzers} : e \in ToSet(spec.effective)}

FunctionsOf(spec) == TestFunctions(spec) \cup BenchFunctions(spec) \cup FuzzFunctions(spec)
=============================================================================
