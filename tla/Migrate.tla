------------------------------ MODULE Migrate ------------------------------
(***************************************************************************)
(* gotest migrate on the test files of one directory (internal/migrate):   *)
(* which build configurations are checked (load.go), which testify suites  *)
(* stay as they are and why (unit.go, embed.go), where a runner's build    *)
(* constraint goes (gate.go), which hooks and tests a suite forwards to    *)
(* the base it embedded (embed.go), and what is left to a marker.          *)
(*                                                                         *)
(* A directory is given by its files, suites, methods and suite.Run calls. *)
(* A suite embeds at most one base.  The properties compare what testify   *)
(* ran with what gotest runs of the result, in every configuration.        *)
(***************************************************************************)
EXTENDS Naturals, Sequences, FiniteSets

CONSTANTS
    TestFiles, TestifySuites,
    DirectoryFamilies   \* the directories migrated, in sets, see DirectoryOK

NoBase == "none"
Constraints == {"", "t", "!t", "never"}
HookNames == {"SetupSuite", "SetupTest"}
MethodNames == HookNames \cup {"BeforeEach", "TestA", "TestB"}
\* Two configurations: with the tag t and without.
Tagged == TRUE
Untagged == FALSE

\* constraint: a file's //go:build; generated: files a generator owns; home: the
\* file of a suite; base, how: the suite it embeds, by value, by a pointer that
\* every suite.Run sets ("fresh") or by another; named: whether the name it
\* would take is its own, free or taken; methods and runs: <<file, suite, ...>>,
\* a run "only" if its Test function does nothing else; mentions: other uses;
\* local: structs inside a function that embed a suite.  Bound: no suite lives in a
\* file that is never built.
DirectoryOK(d) ==
    /\ d.constraint \in [TestFiles -> Constraints] /\ d.generated \subseteq TestFiles
    /\ d.home \in [TestifySuites -> TestFiles]
    /\ d.base \in [TestifySuites -> TestifySuites \cup {NoBase}]
    /\ d.how \in [TestifySuites -> {"value", "fresh", "stale"}]
    /\ d.named \in [TestifySuites -> {"own", "free", "taken"}]
    /\ d.methods \subseteq TestFiles \X TestifySuites \X MethodNames
    /\ d.runs \subseteq TestFiles \X TestifySuites \X {"only", "more"}
    /\ d.mentions \subseteq TestFiles \X TestifySuites
    /\ d.local \subseteq TestFiles \X TestifySuites
    /\ \A s \in TestifySuites : d.constraint[d.home[s]] # "never"

VARIABLES
    dir,
    stage,      \* how far the migration is
    left,       \* suites left as they are
    leftFiles,    \* files left as they are, with their markers
    fileMarks,  \* files with a marker of their own
    toMark,        \* suites whose refusal is a marker if their file has no other
    helpers,    \* bases that are only called by the suites that embedded them
    notes,      \* suites with a note at their type
    gates       \* constraints the migration moves onto a file

migrateVars == <<dir, stage, left, leftFiles, fileMarks, toMark, helpers, notes, gates>>

------------------------------------------------------------------------------
(* Loading *)

Built(constraint, config) ==
    CASE constraint = "" -> TRUE [] constraint = "t" -> config
      [] constraint = "!t" -> ~config [] constraint = "never" -> FALSE

\* newDirJob: the default build, and the tags the files left out of it ask for.
Configurations(d) ==
    {Untagged} \cup {Tagged : f \in {g \in TestFiles : d.constraint[g] = "t"}}
Unchecked(d) == {f \in TestFiles : \A c \in Configurations(d) : ~Built(d.constraint[f], c)}
Skipped(d) == d.generated \cup Unchecked(d)

Found(d) == {s \in TestifySuites : d.home[s] \notin Skipped(d)}
BasesOf(d, s) == {d.base[s]} \ {NoBase}
Embedders(d, s) == {k \in TestifySuites : d.base[k] = s}
RunFiles(d, s) == {r[1] : r \in {x \in d.runs : x[2] = s}}
Users(d, s) ==
    {m[1] : m \in {x \in d.methods : x[2] = s}} \cup RunFiles(d, s)
    \cup {d.home[k] : k \in Embedders(d, s)}
    \cup {x[1] : x \in {y \in d.mentions \cup d.local : y[2] = s}}

\* Go's: in a configuration every file that is built finds what it refers to, and
\* no method twice.
CompilesWith(d, constraint, c) ==
    /\ \A s \in TestifySuites : \A f \in Users(d, s) :
           Built(constraint[f], c) => Built(constraint[d.home[s]], c)
    /\ \A m, n \in d.methods :
           m[2] = n[2] /\ m[3] = n[3] /\ Built(constraint[m[1]], c) /\ Built(constraint[n[1]], c) => m = n

\* testify's: the methods run on a suite are its own or its base's, promoted.
RECURSIVE OwnerOf(_, _, _, _, _)
OwnerOf(d, constraint, c, s, name) ==
    IF \E f \in TestFiles : <<f, s, name>> \in d.methods /\ Built(constraint[f], c) THEN s
    ELSE IF d.base[s] = NoBase THEN NoBase
    ELSE OwnerOf(d, constraint, c, d.base[s], name)

IsTest(name) == name \in {"TestA", "TestB"}
\* The configuration whose type information a suite's own file has.
FirstBuild(d, s) == IF Built(d.constraint[d.home[s]], Untagged) THEN Untagged ELSE Tagged
MethodSet(d, s) ==
    {n \in MethodNames : OwnerOf(d, d.constraint, FirstBuild(d, s), s, n) # NoBase}
Declares(d, s, name) ==
    \E f \in TestFiles : <<f, s, name>> \in d.methods /\ Built(d.constraint[f], FirstBuild(d, s))

------------------------------------------------------------------------------
(* Which suites stay *)

MigrateIn(at) ==
    /\ stage = at /\ left = {} /\ leftFiles = {} /\ fileMarks = {} /\ toMark = {}
    /\ helpers = {} /\ notes = {} /\ gates = [f \in TestFiles |-> ""]
MigrateInit ==
    /\ \E family \in DirectoryFamilies : dir \in family
    /\ DirectoryOK(dir) /\ MigrateIn("load")

Refuse(suites, files, marked, owing) ==
    /\ left' = left \cup suites /\ leftFiles' = leftFiles \cup files
    /\ fileMarks' = fileMarks \cup marked /\ toMark' = toMark \cup owing

\* A directory that does not compile is reported and left alone.
Load ==
    /\ stage = "load"
    /\ stage' = IF \A c \in Configurations(dir) : CompilesWith(dir, dir.constraint, c)
                THEN "find" ELSE "uncompiled"
    /\ UNCHANGED <<dir, left, leftFiles, fileMarks, toMark, helpers, notes, gates>>

\* A child of a suite in a generated file is leftFiles.
FindSuites ==
    LET orphans == {s \in Found(dir) : BasesOf(dir, s) \ Found(dir) # {}} IN
    /\ stage = "find" /\ stage' = "embeds"
    /\ Refuse(orphans, {dir.home[s] : s \in orphans}, {dir.home[s] : s \in orphans}, {})
    /\ UNCHANGED <<dir, helpers, notes, gates>>

\* ptrRunsFresh: a child embedded by a pointer is run, and every run sets it; a
\* run of a suite that holds the child sets the pointer out of sight.
RECURSIVE Above(_, _)
Above(d, s) == Embedders(d, s) \cup UNION {Above(d, k) : k \in Embedders(d, s)}
RunsFresh(d, s) ==
    /\ d.how[s] = "fresh" /\ RunFiles(d, s) \ Skipped(d) # {}
    /\ \A k \in Above(d, s) : RunFiles(d, k) \ Skipped(d) = {}

\* A base embedded in a way the migration cannot name is leftFiles, with the
\* child's file and its own.
RefuseEmbeds ==
    LET stranding == {s \in Found(dir) : BasesOf(dir, s) \cap Found(dir) # {}
                                          /\ dir.how[s] # "value" /\ ~RunsFresh(dir, s)}
        inner == {x \in dir.local : x[1] \notin Skipped(dir) /\ x[2] \in Found(dir)}
        bases == {dir.base[s] : s \in stranding} \cup {x[2] : x \in inner}
        files == {dir.home[s] : s \in stranding} \cup {x[1] : x \in inner} IN
    /\ stage = "embeds" /\ stage' = "helpers"
    /\ Refuse(bases, files \cup {dir.home[b] : b \in bases}, files, bases \ left)
    /\ UNCHANGED <<dir, helpers, notes, gates>>

\* A base nothing runs is a helper of the suites that embed it.
MarkHelpers ==
    /\ stage = "helpers" /\ stage' = "names"
    /\ helpers' = {b \in Found(dir) : /\ Embedders(dir, b) \cap Found(dir) # {}
                                      /\ RunFiles(dir, b) \ Skipped(dir) = {}}
    /\ UNCHANGED <<dir, left, leftFiles, fileMarks, toMark, notes, gates>>

\* A suite needs a test, of its own or a base's, and a name that is free; a file
\* out of every checked build stays, marked if it has to do with testify.
RefuseNames ==
    LET candidates == (Found(dir) \ left) \ helpers
        bad == {s \in candidates : dir.named[s] = "taken" \/ \A n \in MethodSet(dir, s) : ~IsTest(n)}
        unseen == {f \in Unchecked(dir) \ dir.generated : \E s \in TestifySuites : f \in Users(dir, s)} IN
    /\ stage = "names" /\ stage' = "spread"
    /\ Refuse(bad, {dir.home[s] : s \in bad} \cup unseen, {dir.home[s] : s \in bad} \cup unseen, {})
    /\ UNCHANGED <<dir, helpers, notes, gates>>

\* A suite stays if its file does, or a file that uses it, or its base, or a
\* child that embeds it; its file stays with it.
SpreadTo(s) ==
    \/ s \notin left
       /\ \/ dir.home[s] \in leftFiles
          \/ Users(dir, s) \cap (dir.generated \cup leftFiles) # {}
          \/ BasesOf(dir, s) \cap left # {}
          \/ Embedders(dir, s) \cap left # {}
    \/ dir.home[s] \notin leftFiles /\ s \in left

\* Whichever suite is looked at first.
Spread(s) ==
    /\ stage = "spread" /\ s \in Found(dir) /\ SpreadTo(s)
    /\ Refuse({s}, {dir.home[s]}, {}, IF dir.home[s] \in leftFiles THEN {} ELSE {s})
    /\ UNCHANGED <<dir, stage, helpers, notes, gates>>

\* A leftFiles file with no marker of its own says which suite holds it.
SpreadEnds ==
    /\ stage = "spread" /\ \A s \in Found(dir) : ~SpreadTo(s)
    /\ stage' = IF Found(dir) \subseteq left THEN "done" ELSE "gate"
    /\ fileMarks' = fileMarks \cup {dir.home[s] : s \in toMark}
    /\ UNCHANGED <<dir, left, leftFiles, toMark, helpers, notes, gates>>

------------------------------------------------------------------------------
(* gate *)

Migrated == IF stage = "uncompiled" THEN {} ELSE Found(dir) \ left
Touched == TestFiles \ (leftFiles \cup Skipped(dir))

\* A runner is dropped if it does nothing but run a migrated suite.
RunnersOf(s) == {f \in Touched : <<f, s, "only">> \in dir.runs}
Parts(s) == {dir.home[s]} \cup {m[1] : m \in {x \in dir.methods : x[2] = s /\ x[1] \in Touched}}

\* A constraint on the file would gate the suite alone.
GatesOnly(f, s) ==
    /\ \A k \in Found(dir) : dir.home[k] = f => k = s
    /\ \A r \in dir.runs : r[1] = f => r[2] \in Migrated /\ r[3] = "only"

Moves(s, g) == /\ Parts(s) = {dir.home[s]} /\ dir.constraint[dir.home[s]] = ""
               /\ GatesOnly(dir.home[s], s)

Gate ==
    LET plain == Migrated \ helpers
        ran == {s \in plain : RunFiles(dir, s) \cap Touched # {}}
        asked(s) == {dir.constraint[f] : f \in RunnersOf(s)}
        gated == {s \in ran : RunnersOf(s) # {} /\ "" \notin asked(s)}
        stays(s) == Parts(s) = {dir.home[s]} /\ asked(s) = {dir.constraint[dir.home[s]]}
        moved == {s \in gated : Cardinality(asked(s)) = 1 /\ ~stays(s)
                                /\ Moves(s, CHOOSE g \in asked(s) : TRUE)} IN
    /\ stage = "gate" /\ stage' = "done"
    /\ gates' = [f \in TestFiles |->
                    IF \E s \in moved : dir.home[s] = f
                    THEN CHOOSE g \in asked(CHOOSE s \in moved : dir.home[s] = f) : TRUE ELSE ""]
    /\ notes' = (plain \ ran) \cup {s \in gated : s \notin moved /\ ~stays(s)}
    /\ UNCHANGED <<dir, left, leftFiles, fileMarks, toMark, helpers>>

MigrateNext ==
    \/ Load \/ FindSuites \/ RefuseEmbeds \/ MarkHelpers \/ RefuseNames
    \/ (\E s \in TestifySuites : Spread(s)) \/ SpreadEnds \/ Gate

MigrateSpec == MigrateInit /\ [][MigrateNext]_migrateVars

------------------------------------------------------------------------------
(* What the result runs *)

ConstraintAfter == [f \in TestFiles |-> IF gates[f] # "" THEN gates[f] ELSE dir.constraint[f]]

\* Mutant: a base's own hooks and tests only, not those it has from its base.
Forwards_OneDeep(s) ==
    {n \in MethodSet(dir, s) \cap (HookNames \cup {"TestA", "TestB"}) :
        /\ \E b \in BasesOf(dir, s) : Declares(dir, b, n)
        /\ ~Declares(dir, s, n) /\ (n = "SetupTest" => ~Declares(dir, s, "BeforeEach"))}

\* collectForwards: what testify ran on a suite by promotion, its base's gotest
\* name being none of its own.
Forwards(s) ==
    {n \in MethodSet(dir, s) \cap (HookNames \cup {"TestA", "TestB"}) :
        /\ BasesOf(dir, s) # {} /\ ~Declares(dir, s, n)
        /\ n = "SetupTest" => ~Declares(dir, s, "BeforeEach")}

\* reservedName, and a hook whose gotest name is declared already.
Reserved(s) == \E f \in Touched : <<f, s, "BeforeEach">> \in dir.methods

\* gotest calls what a suite declares: a forward calls the base's.
RECURSIVE Reaches(_, _, _)
Reaches(c, s, n) ==
    IF \E f \in TestFiles : <<f, s, n>> \in dir.methods /\ Built(ConstraintAfter[f], c) THEN s
    ELSE IF s \in Migrated /\ n \in Forwards(s) THEN Reaches(c, dir.base[s], n)
    ELSE NoBase

\* The type-check after the migration marks every error: a forward to what is not
\* built, or beside a method of its name.
CompilesAfter(c) ==
    /\ CompilesWith(dir, ConstraintAfter, c)
    /\ \A s \in Migrated : Built(ConstraintAfter[dir.home[s]], c) =>
          \A n \in Forwards(s) :
              /\ Reaches(c, dir.base[s], n) # NoBase
              /\ \A m \in dir.methods : m[2] = s /\ m[3] = n => ~Built(ConstraintAfter[m[1]], c)

Called(n) == n \in HookNames \/ IsTest(n)
RunsBefore(c, s) ==
    IF \E f \in RunFiles(dir, s) : Built(dir.constraint[f], c)
    THEN {<<n, OwnerOf(dir, dir.constraint, c, s, n)>> :
            n \in {m \in MethodNames : Called(m) /\ OwnerOf(dir, dir.constraint, c, s, m) # NoBase}}
    ELSE {}
RunsAfter(c, s) ==
    IF s \notin Migrated
    THEN IF \E f \in RunFiles(dir, s) : Built(ConstraintAfter[f], c)
         THEN {<<n, OwnerOf(dir, ConstraintAfter, c, s, n)>> :
                 n \in {m \in MethodNames : Called(m) /\ OwnerOf(dir, ConstraintAfter, c, s, m) # NoBase}}
         ELSE {}
    ELSE IF s \notin helpers /\ Built(ConstraintAfter[dir.home[s]], c)
    THEN {<<n, Reaches(c, s, n)>> : n \in {m \in MethodNames : Called(m) /\ Reaches(c, s, m) # NoBase}}
    ELSE {}

\* A marker says so: at the suite's type, at a method, or at a suite.Run left.
Explained(s) ==
    \/ s \in notes \/ Reserved(s)
    \/ \E f \in Touched : <<f, s, "more">> \in dir.runs

\* What a suite has from its base in configuration c and has not in the first build
\* of its file, the one collectForwards reads: no forward is written for it, and
\* nothing says so.
PromotedElsewhere(c, s) ==
    {n \in MethodNames :
        /\ OwnerOf(dir, dir.constraint, c, s, n) \notin {s, NoBase}
        /\ OwnerOf(dir, dir.constraint, FirstBuild(dir, s), s, n) \in {s, NoBase}}

\* In every configuration that compiles, gotest calls on every suite the hooks
\* and tests testify ran on it, unless a marker says otherwise: a runner's
\* constraint dropped, a hook or test lost with the base it was promoted from, or
\* a suite run that never was (collectForwards, embed.go:348; gate, gate.go:15).
\* But for PromotedElsewhere, which README.md:1069 does not except.
RunsAreKept ==
    stage \in {"done", "uncompiled"} =>
        \A c \in Configurations(dir), s \in TestifySuites :
            CompilesAfter(c) =>
                \/ RunsAfter(c, s) = RunsBefore(c, s) \/ Explained(s)
                \/ /\ s \in Migrated
                   /\ RunsAfter(c, s) = {r \in RunsBefore(c, s) : r[1] \notin PromotedElsewhere(c, s)}

\* A file left as it is uses no suite that migrated, no child migrated without
\* its base nor a base without its children, and every file left says why
\* (refuse, unit.go:337).
LeftIsWhole ==
    stage = "done" =>
        /\ \A s \in Migrated :
              /\ Users(dir, s) \cup {dir.home[s]} \subseteq Touched
              /\ (BasesOf(dir, s) \cup Embedders(dir, s)) \subseteq Migrated
        /\ leftFiles \subseteq fileMarks
=============================================================================
