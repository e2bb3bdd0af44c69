------------------------------ MODULE Binding ------------------------------
(***************************************************************************)
(* From the fixtures a package's suites name to the graph its generated    *)
(* harness sets up: the local fixtures a suite reaches are collected       *)
(* (gotestast/fixture.go), every suite is bound by walking the pointer     *)
(* fields of its struct and of the fixtures it finds (gotestgen/           *)
(* binding.go), the result is arranged, and the harness and the setup      *)
(* program are given their nodes, wires and keys (renderer.go,             *)
(* sharedfixture.go).                                                      *)
(*                                                                         *)
(* A fixture is a number, which orders it among its names as identifiers   *)
(* and state keys do.  A field is what it names, how, and what the         *)
(* fixture's Hydrate does to it; a method is its name, its receiver and    *)
(* whether it has the signature its name asks for.  Suites embed nothing:  *)
(* Collector refuses those that do.                                        *)
(***************************************************************************)
EXTENDS Naturals, Sequences, FiniteSets, SequencesExt

CONSTANT BindFamilies   \* sets of packages, each its suites and the fixtures in sight

LifeHooks == {"BeforeAll", "AfterAll", "BeforeEach", "AfterEach"}
Carriers == {"Hydrate", "Dehydrate"}

VARIABLES
    sight,       \* the package: its suites in order, the fixtures in sight
    bindStage,   \* "collect", "bind", "arrange", "render", "bound", "refused"
    boundUpTo,   \* how many suites are bound
    resolved,    \* package fixtures: their parents, the field of each, their shared references
    registered,  \* shared fixtures: their dependencies, the field of each, what is carried
    arranged,    \* the rest of Binding
    harness,     \* SuiteFixtureSet of each suite
    setupOf      \* the fixtures of the setup program

bindingVars == <<sight, bindStage, boundUpTo, resolved, registered, arranged, harness, setupOf>>

Fixture(f) == sight.fixtures[f]
InSight == DOMAIN sight.fixtures
Suites == DOMAIN sight.suites

\* What is reached from start in any number of steps.
Reached(start, Step(_)) ==
    LET Within[i \in 0..Len(sight.fixtures)] ==
            IF i = 0 THEN start ELSE Within[i - 1] \cup UNION {Step(f) : f \in Within[i - 1]}
    IN Within[Len(sight.fixtures)]

------------------------------------------------------------------------------
(* Fields and methods *)

\* pointerNamed, of the types named like a fixture.
PointsAt(field) == field.to # 0 /\ field.how \in {"pointer", "embedded"}
Embeds(field) == field.how \in {"embedded", "embedded value"}
ToShared(field) == field.to # 0 /\ Fixture(field.to).shared
ToPackage(field) == field.to # 0 /\ ~Fixture(field.to).shared

\* fixtureField: a fixture held by value, or a package fixture a second named
\* field names again.
RefusedField(fields) ==
    \/ \E i \in DOMAIN fields : fields[i].to # 0 /\ fields[i].how = "value"
    \/ \E i, j \in DOMAIN fields :
          /\ i < j /\ ToPackage(fields[i]) /\ fields[i].to = fields[j].to
          /\ fields[i].how = "pointer" /\ fields[j].how = "pointer"

\* The fields that bind to a shared fixture, or to a package fixture, in order,
\* as <<field, fixture>>.
Binds(fields, shared) ==
    SelectSeq([i \in DOMAIN fields |-> <<i, fields[i].to>>],
              LAMBDA b : PointsAt(fields[b[1]]) /\ ToShared(fields[b[1]]) = shared)
Bound(binds) == {binds[i][2] : i \in DOMAIN binds}

\* declaredMethod: never one promoted through an embedded field.
Declares(f, name) == \E m \in Fixture(f).methods : m.name = name
ByPointer(f) == {m \in Fixture(f).methods : m.recv = "pointer"}

\* FixtureMethodError
FixtureMethodError(f, m) ==
    \/ ~m.fits
    \/ IF Fixture(f).shared THEN m.name \in {"FixtureConfig", "BeforeEach", "AfterEach"}
       ELSE m.name \in {"SharedFixtureConfig"} \cup Carriers

\* rejectValueReceiverHooks
HasValueReceiver(f) == \E m \in Fixture(f).methods : m.recv = "value"

\* SharedEachHook: its own or promoted.
SharedEachHook(f) ==
    LET Embedded(g) == {x.to : x \in {y \in ToSet(Fixture(g).fields) : y.to # 0 /\ Embeds(y)}} IN
    \E g \in Reached({f}, Embedded) : Declares(g, "BeforeEach") \/ Declares(g, "AfterEach")

HalfCarried(ms) == (\E m \in ms : m.name = "Hydrate") # (\E m \in ms : m.name = "Dehydrate")

------------------------------------------------------------------------------
(* The collector's part: the local package fixtures a suite reaches, and     *)
(* every local shared fixture.                                               *)

ReachedFixtures ==
    LET Named(fields) == {x.to : x \in {y \in ToSet(fields) : ToPackage(y) /\ Fixture(y.to).home = "here"}}
        Onward(f) == IF Fixture(f).form = "other" THEN {} ELSE Named(Fixture(f).fields)
    IN Reached(UNION {Named(sight.suites[s].fields) : s \in Suites}, Onward)

Wanted == ReachedFixtures \cup {f \in InSight : Fixture(f).shared /\ Fixture(f).home = "here"}

\* DetermineFixtureOf, ValidateFixtureShape, DetermineFixtureHarness and
\* ValidateFixtureConsistency.
RefusedLocal(f) ==
    \/ Fixture(f).form # "struct"
    \/ Fixture(f).shared /\ Fixture(f).inTestFile
    \/ \E x \in ToSet(Fixture(f).fields) : x.to # 0 /\ Embeds(x)
    \/ \E m \in ByPointer(f) : FixtureMethodError(f, m)
    \/ Fixture(f).shared /\ HalfCarried(ByPointer(f))

Refuse == bindStage' = "refused" /\ UNCHANGED <<boundUpTo, resolved, registered, arranged, harness, setupOf>>

CollectFixtures ==
    /\ bindStage = "collect"
    /\ IF \E f \in Wanted : RefusedLocal(f) THEN Refuse
       ELSE /\ bindStage' = IF sight.suites = <<>> THEN "arrange" ELSE "bind"
            /\ UNCHANGED <<boundUpTo, resolved, registered, arranged, harness, setupOf>>
    /\ UNCHANGED sight

------------------------------------------------------------------------------
(* Bind: the suites one by one, each fixture once.                           *)

\* resolveFixture, for one package fixture.
RefusedPackage(f) ==
    \/ Fixture(f).form = "other"
    \/ HasValueReceiver(f)
    \/ Fixture(f).home # "here" /\ \E m \in Fixture(f).methods : FixtureMethodError(f, m)
    \/ ~Declares(f, "BeforeAll")
    \/ RefusedField(Fixture(f).fields)

\* resolvePackageFixtureFields: of two fields of one parent the last is kept.
ResolvedOf(f) ==
    LET parents == Binds(Fixture(f).fields, FALSE) IN
    [parents |-> [i \in DOMAIN parents |-> parents[i][2]],
     parentFields |-> {b \in ToSet(parents) : \A c \in ToSet(parents) : c[2] = b[2] => c[1] <= b[1]},
     shared |-> Binds(Fixture(f).fields, TRUE),
     hooked |-> Declares(f, "BeforeEach") \/ Declares(f, "AfterEach")]

\* collectAssignments, and the same in the methods Hydrate calls on its receiver.
AssignedInHydrate(f) == {i \in DOMAIN Fixture(f).fields : Fixture(f).fields[i].assigned = "hydrate"}
AssignedInHelpers(f) == {i \in DOMAIN Fixture(f).fields : Fixture(f).fields[i].assigned = "helper"}

\* findPackageForType: whether the declaring package's bodies can be read.
SourceRead(f) == Fixture(f).home = "here" \/ Fixture(f).source

\* ClassifyLocalFieldsRaw
ClassifyLocalFields(f) ==
    IF Declares(f, "Hydrate") /\ SourceRead(f) THEN AssignedInHydrate(f) \cup AssignedInHelpers(f) ELSE {}

\* nonSerializable: a type is read from the outside in, and no further behind an
\* unexported field.
NonSerializable(type) ==
    \E i \in DOMAIN type :
        /\ type[i] \in {"channel", "function", "map of other keys"}
        /\ \A j \in 1..(i - 1) : type[j] # "unexported field"

DependsOnShared(field) == PointsAt(field) /\ ToShared(field)

\* registerSharedFixture, once the fixture is accepted.
RegisteredAs(f) ==
    LET fields == IF Fixture(f).form = "other" THEN <<>> ELSE Fixture(f).fields
        exported == {i \in DOMAIN fields : fields[i].exported /\ ~Embeds(fields[i])}
        local == exported \cap ClassifyLocalFields(f)
        wired == {i \in DOMAIN fields : DependsOnShared(fields[i])}
    IN [deps |-> [i \in DOMAIN Binds(fields, TRUE) |-> Binds(fields, TRUE)[i][2]],
        depFields |-> ToSet(Binds(fields, TRUE)),
        transfer |-> exported \ (local \cup wired),
        local |-> local]

RefusedShared(f) ==
    LET fields == Fixture(f).fields
        info == RegisteredAs(f)
    IN \/ HasValueReceiver(f) \/ SharedEachHook(f) \/ Fixture(f).home = "internal"
       \/ \E m \in Fixture(f).methods : m.name \in {"BeforeAll", "AfterAll"} \cup Carriers /\ ~m.fits
       \/ ~Declares(f, "BeforeAll")
       \/ HalfCarried(Fixture(f).methods)
       \/ /\ Fixture(f).form # "other"
          /\ \/ \E i, j \in DOMAIN fields : i < j /\ DependsOnShared(fields[i]) /\ DependsOnShared(fields[j])
                                              /\ fields[i].to = fields[j].to
             \/ \E x \in ToSet(fields) : PointsAt(x) /\ ToPackage(x) /\ Declares(x.to, "BeforeAll")
             \/ \E i \in info.transfer : NonSerializable(fields[i].type)

ParentsIn(f) == Bound(Binds(Fixture(f).fields, FALSE))
DepsIn(f) == ToSet(RegisteredAs(f).deps)

\* resolveFixturesForSuite and what it resolves and registers.
PackagesOf(s) == Reached(Bound(Binds(sight.suites[s].fields, FALSE)), ParentsIn)
SharedOf(s) ==
    LET direct == Bound(Binds(sight.suites[s].fields, TRUE))
        viaPackages == UNION {Bound(ResolvedOf(f).shared) : f \in PackagesOf(s)}
    IN Reached(direct \cup viaPackages, DepsIn)

\* findHookedFixture
HookedAbove(s) ==
    LET Above(f) == ToSet(ResolvedOf(f).parents) IN
    \E f \in Reached(Bound(Binds(sight.suites[s].fields, FALSE)), Above) : ResolvedOf(f).hooked

BindSuite ==
    LET s == boundUpTo + 1
        suite == sight.suites[s]
    IN /\ bindStage = "bind"
       /\ IF \/ RefusedField(suite.fields)
             \/ \E f \in PackagesOf(s) : RefusedPackage(f) \/ f \in Reached(ParentsIn(f), ParentsIn)
             \/ \E f \in SharedOf(s) : RefusedShared(f) \/ f \in Reached(DepsIn(f), DepsIn)
             \/ (suite.bench \/ suite.fuzz) /\ HookedAbove(s)
          THEN Refuse
          ELSE /\ resolved' = [f \in DOMAIN resolved \cup PackagesOf(s) |-> ResolvedOf(f)]
               /\ registered' = [f \in DOMAIN registered \cup SharedOf(s) |-> RegisteredAs(f)]
               /\ boundUpTo' = s
               /\ bindStage' = IF s = Len(sight.suites) THEN "arrange" ELSE "bind"
               /\ UNCHANGED <<arranged, harness, setupOf>>
       /\ UNCHANGED sight

------------------------------------------------------------------------------
(* The rest of Bind: roots, orders and the keys each suite needs.            *)

SuiteFixtureFields(s) == Binds(sight.suites[s].fields, FALSE)
SuiteSharedFixtures(s) == Binds(sight.suites[s].fields, TRUE)
FixtureBound == {s \in Suites : SuiteFixtureFields(s) # <<>>}

ChildrenOf(f) == {g \in DOMAIN resolved : f \in ToSet(resolved[g].parents)}
ParentsOf(f) == ToSet(resolved[f].parents)
DependenciesOf(f) == ToSet(registered[f].deps)

\* topologicalSort and topoSortSharedFixtures: of the nodes that wait for
\* nothing more, always the least.
LeastFirst(nodes, before) ==
    LET Add(out, i) ==
            LET ready == {f \in nodes \ ToSet(out) : before[f] \subseteq ToSet(out)} IN
            IF ready = {} THEN out ELSE Append(out, CHOOSE f \in ready : \A g \in ready : f <= g)
    IN FoldLeft(Add, <<>>, [i \in 1..Cardinality(nodes) |-> i])

\* Every parentless fixture below which a suite is bound.
RootFixtures ==
    {f \in DOMAIN resolved :
        /\ resolved[f].parents = <<>>
        /\ \E g \in Reached({f}, ChildrenOf) : \E s \in FixtureBound : g \in Bound(SuiteFixtureFields(s))}

\* collectTransitiveDepsRF
NeededBySuite(s) == Reached(Bound(SuiteFixtureFields(s)), ParentsOf)

RequiredKeys(s) ==
    Reached(Bound(SuiteSharedFixtures(s))
              \cup UNION {Bound(resolved[f].shared) : f \in NeededBySuite(s)}, DependenciesOf)
\* fixtureTreeHasSharedFixtures
TreeHasShared == \E f \in Reached(RootFixtures, ChildrenOf) : resolved[f].shared # <<>>

\* FixtureDepSuites
FixtureDeps ==
    {s \in Suites : SuiteSharedFixtures(s) # <<>>} \cup (IF TreeHasShared THEN FixtureBound ELSE {})

Arrange ==
    LET order == LeastFirst(DOMAIN resolved, [f \in DOMAIN resolved |-> ParentsOf(f)])
        sharedOrder == LeastFirst(DOMAIN registered, [f \in DOMAIN registered |-> DependenciesOf(f)])
    IN /\ bindStage = "arrange"
       /\ IF Len(order) # Cardinality(DOMAIN resolved) \/ Len(sharedOrder) # Cardinality(DOMAIN registered)
          THEN Refuse
          ELSE /\ arranged' = [order |-> order, sharedOrder |-> sharedOrder, roots |-> RootFixtures,
                               keys |-> [s \in Suites |-> RequiredKeys(s)], waiting |-> FixtureDeps]
               /\ bindStage' = "render"
               /\ UNCHANGED <<boundUpTo, resolved, registered, harness, setupOf>>
       /\ UNCHANGED sight

------------------------------------------------------------------------------
(* What is rendered *)

\* DependsOn and buildSharedFixtureNodeVMs
NodeDependsOn(f) ==
    IF f \in DOMAIN resolved THEN ParentsOf(f) \cup Bound(resolved[f].shared)
    ELSE DependenciesOf(f) \cap ToSet(arranged.sharedOrder)

\* The fields the node's Init assigns.
NodeWires(f) ==
    IF f \in DOMAIN resolved THEN resolved[f].parentFields \cup ToSet(resolved[f].shared)
    ELSE registered[f].depFields

\* buildSuiteFixtureSets
SuiteFixtureSet(s) ==
    [nodes |-> SelectSeq(arranged.sharedOrder, LAMBDA f : f \in arranged.keys[s])
                 \o SelectSeq(arranged.order, LAMBDA f : f \in NeededBySuite(s)),
     fields |-> ToSet(SuiteFixtureFields(s)) \cup ToSet(SuiteSharedFixtures(s))]

\* GenerateSharedSetup: by path and name, whatever their dependencies.
GenerateSharedSetup ==
    LET listed == SetToSortSeq(DOMAIN registered, <)
        At(f) == CHOOSE i \in DOMAIN listed : listed[i] = f
    IN [i \in DOMAIN listed |->
          [fixture |-> listed[i],
           dependsOn |-> {At(d) : d \in DependenciesOf(listed[i]) \cap ToSet(listed)},
           dependents |-> {j \in DOMAIN listed : listed[i] \in DependenciesOf(listed[j])},
           assigns |-> {<<b[1], At(b[2])>> : b \in registered[listed[i]].depFields},
           transfer |-> registered[listed[i]].transfer]]

Render ==
    /\ bindStage = "render"
    /\ harness' = [s \in Suites |-> SuiteFixtureSet(s)]
    /\ setupOf' = GenerateSharedSetup
    /\ bindStage' = "bound"
    /\ UNCHANGED <<sight, boundUpTo, resolved, registered, arranged>>

------------------------------------------------------------------------------
NoneBound == [x \in {} |-> x]

BindingIn(stage) ==
    /\ bindStage = stage /\ boundUpTo = 0
    /\ resolved = NoneBound /\ registered = NoneBound /\ arranged = NoneBound
    /\ harness = NoneBound /\ setupOf = <<>>

BindingInit ==
    /\ BindingIn("collect")
    /\ \E i \in DOMAIN BindFamilies : sight \in BindFamilies[i]

\* The generated files are written, or the run refuses the package.
Settled == bindStage \in {"bound", "refused"} /\ UNCHANGED bindingVars

BindingNext == CollectFixtures \/ BindSuite \/ Arrange \/ Render \/ Settled

------------------------------------------------------------------------------
(* Properties *)

\* What the source says, read field by field.
Points(fields) == {<<i, fields[i].to>> : i \in {j \in DOMAIN fields : PointsAt(fields[j])}}
IsData(f, field) == Fixture(f).shared /\ ToPackage(field) /\ ~Declares(field.to, "BeforeAll")
FixturePoints(f) == {p \in Points(Fixture(f).fields) : ~IsData(f, Fixture(f).fields[p[1]])}
Onward(f) == {p[2] : p \in FixturePoints(f)}
SuiteReaches(s) == Reached({p[2] : p \in Points(sight.suites[s].fields)}, Onward)

\* The shape of a fixture of another package is not looked at: beside a field
\* that names a parent it may embed it.
EmbedsParentToo(f) ==
    \E x, y \in ToSet(Fixture(f).fields) : PointsAt(x) /\ PointsAt(y) /\ x.to = y.to /\ x.how # y.how

HeldByValue(fields) == \E x \in ToSet(fields) : x.to # 0 /\ x.how = "value"

\* No fixture field of an accepted suite, or of a fixture it reaches, is nil
\* when its owner's hooks run: every one is wired to the node of its type, and
\* that node is the suite's and set up before (renderer.go:30-33).
NoFieldIsNil ==
    bindStage = "bound" =>
        \A s \in Suites :
            LET nodes == harness[s].nodes
                Place(f) == CHOOSE i \in DOMAIN nodes : nodes[i] = f
            IN /\ ~HeldByValue(sight.suites[s].fields)
               /\ Points(sight.suites[s].fields) \subseteq harness[s].fields
               /\ \A p \in harness[s].fields : p[2] \in ToSet(nodes)
               /\ \A f \in ToSet(nodes) :
                     /\ Fixture(f).shared \/ ~HeldByValue(Fixture(f).fields)
                     /\ EmbedsParentToo(f) \/ FixturePoints(f) = NodeWires(f)
                     /\ \A p \in NodeWires(f) : p[2] \in NodeDependsOn(f)
                     /\ \A d \in NodeDependsOn(f) : d \in ToSet(nodes) /\ Place(d) < Place(f)

\* A suite's nodes are the fixtures it reaches, no more, and its keys the shared
\* ones among them; a suite that needs any waits for its window
\* (renderer.go:396-399, binding.go:255-283, generator.go:721-735).
HoldsWhatItReaches ==
    bindStage = "bound" =>
        \A s \in Suites :
            /\ ToSet(harness[s].nodes) = SuiteReaches(s)
            /\ Len(harness[s].nodes) = Cardinality(SuiteReaches(s))
            /\ arranged.keys[s] = {f \in SuiteReaches(s) : Fixture(f).shared}
            /\ arranged.keys[s] # {} => s \in arranged.waiting

\* What is accepted can run: the graph has no cycle, no shared fixture reaches
\* into the test process, every hook is one gotest calls, and no per-method
\* hook hangs below a benchmark or a fuzz target (binding.go:150-163, 295-301).
AcceptedCanRun ==
    bindStage = "bound" =>
        \A s \in Suites : \A f \in SuiteReaches(s) :
            /\ f \notin Reached(Onward(f), Onward)
            /\ \E m \in ByPointer(f) : m.name = "BeforeAll"
            /\ \A m \in Fixture(f).methods :
                  /\ m.recv = "pointer"
                  /\ m.name \in LifeHooks \cup Carriers => ~FixtureMethodError(f, m)
                  /\ m.name \in {"BeforeEach", "AfterEach"} =>
                        ~sight.suites[s].bench /\ ~sight.suites[s].fuzz
            /\ Fixture(f).shared => Fixture(f).home # "internal" /\ \A g \in Onward(f) : Fixture(g).shared

\* The setup program and the harness agree about every shared fixture: it is
\* started once, after what it depends on and released before it, and every
\* exported field reaches the test process, as data that can be serialised, by
\* Hydrate, or as a wire (hydrate.go:10-13, sharedfixture.go:88-90).
SetupCarriesAll ==
    bindStage = "bound" =>
        /\ {setupOf[i].fixture : i \in DOMAIN setupOf} = {f \in UNION {SuiteReaches(s) : s \in Suites} : Fixture(f).shared}
        /\ \A i, j \in DOMAIN setupOf :
              /\ setupOf[i].fixture = setupOf[j].fixture => i = j
              /\ j \in setupOf[i].dependsOn <=> i \in setupOf[j].dependents
              /\ j \in setupOf[i].dependsOn <=> \E a \in setupOf[i].assigns : a[2] = j
        /\ \A i \in DOMAIN setupOf :
              LET f == setupOf[i].fixture IN
              \A x \in DOMAIN Fixture(f).fields :
                  LET field == Fixture(f).fields[x] IN
                  /\ x \in setupOf[i].transfer =>
                        /\ ~NonSerializable(field.type)
                        /\ SourceRead(f) /\ Declares(f, "Hydrate") => field.assigned \notin {"hydrate", "helper"}
                  /\ field.exported /\ ~Embeds(field) /\ Fixture(f).form # "other" =>
                        \/ x \in setupOf[i].transfer
                        \/ field.assigned \in {"hydrate", "helper"}
                        \/ \E a \in setupOf[i].assigns : a[1] = x

FixturesAreBound == NoFieldIsNil /\ HoldsWhatItReaches /\ AcceptedCanRun /\ SetupCarriesAll
=============================================================================
