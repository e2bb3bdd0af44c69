------------------------------ MODULE WorkDirs ------------------------------
(***************************************************************************)
(* The temporary directory every run of gotest works in                    *)
(* (gotestrunner/overlay.go, overlay_cleanup.go): made, stamped with its   *)
(* owner, filled, its overlay.json last, and removed at the end, or by a   *)
(* later run's sweep when its owner died.  The runs share TMP across boots *)
(* and pid namespaces, and with earlier versions, whose overlay            *)
(* directories hold a pid alone and whose work directories no stamp.  What *)
(* a run does in its directory is one step, but for gotest prepare         *)
(* (cmd/gotest/prepare.go), which starts shared fixtures, tells where they *)
(* are and releases them when it is stopped.                               *)
(*                                                                         *)
(* And the scratch directory of one checkout and shard (drill/scratch.go), *)
(* which drills open under a lock file and prunes remove when unused for a *)
(* week.  A lock is on the file a process opened, whatever its path names  *)
(* by then; it lasts while any process that inherited it lives, so a drill *)
(* killed outright keeps the lock until its workers are gone.              *)
(*                                                                         *)
(* Bounds: a directory is younger than a minute, than a week, or older,    *)
(* and its owner fills it within the minute; runs of an earlier version   *)
(* are seen by this version's sweep and their own is outside the model.    *)
(***************************************************************************)
EXTENDS Drill, Integers

CONSTANTS
    DirRuns,    \* the runs that share TMP
    Ways        \* how they may be run

ASSUME WaysAssumption ==
    /\ 0 \notin DirRuns
    /\ \A w \in Ways : \A r \in DirRuns :
          /\ w[r].writer \in {"current", "earlierOverlay", "earlierWork"}
          /\ w[r].place \in {"here", "away", "unreadable"}
          /\ w[r].does \in {"run", "debug", "prepare"}
          /\ w[r].writer # "current" => w[r].does = "run"

Harnesses == {"psuite", "pxsuite"}   \* the generated files' names
Week == 2                            \* ages: 0, a minute or more, a week or more

VARIABLES
    way,        \* for each run its version, boot and namespace, and what it does
    runAt,      \* what each run does next
    dirOf,      \* its directory: [there, holds, age]
    todo,       \* directories a sweep has yet to judge
    doomed,     \* those it judged and has yet to remove
    owedTo,     \* those it should remove: their owner was dead when it began
    sweptBy,    \* the run whose sweep removed each directory, or 0
    pidTaken,   \* dead runs whose pid runs another process
    compiled,   \* generated files on disk that a run compiles as they are
    fixturesOf, \* of a prepare: "none", "up", "released", "failed"
    codeOf      \* exit codes, -1 until then

dirVars == <<way, runAt, dirOf, todo, doomed, owedTo, sweptBy, pidTaken, compiled, fixturesOf, codeOf>>

Dead(r) == runAt[r] \in {"unborn", "over", "crashed"}
NoDir == [there |-> FALSE, holds |-> {}, age |-> 0]

\* What a write to the directory itself leaves: a fresh modification time.
Holding(r, what) == [dirOf EXCEPT ![r].holds = @ \cup what, ![r].age = 0]
Removed(r) == [dirOf EXCEPT ![r].there = FALSE]

------------------------------------------------------------------------------
(* The sweep *)

\* sameID
SameID(p, q) == p = q /\ p # "unreadable"

\* overlayDirGrace and workDirGrace, for a directory with no readable stamp.
GraceOf(r) == IF way[r].writer = "earlierOverlay" THEN 1 ELSE Week

\* Alive, asked in another namespace or boot, tells of some other process or none.
AliveAsSeen(s, r) ==
    IF way[s].place = way[r].place THEN {~Dead(r) \/ r \in pidTaken} ELSE BOOLEAN

\* judgeOwner
JudgeOwner(s, r) ==
    IF "pid" \notin dirOf[r].holds THEN {"unknown"}
    ELSE IF "owner" \in dirOf[r].holds /\ ~SameID(way[r].place, way[s].place) THEN {"elsewhere"}
    ELSE {IF lives THEN "live" ELSE "gone" : lives \in AliveAsSeen(s, r)}

Kept(r) == "keep" \in dirOf[r].holds /\ dirOf[r].age < Week

\* A dead run's directory that this sweep can tell is one.
Owed(s) ==
    {r \in DirRuns : /\ dirOf[r].there /\ Dead(r) /\ r \notin pidTaken /\ ~Kept(r)
                     /\ {"owner", "pid"} \subseteq dirOf[r].holds
                     /\ SameID(way[r].place, way[s].place)}

Begin(r) ==
    /\ runAt[r] = "unborn"
    /\ IF way[r].writer = "current"
       THEN /\ runAt' = [runAt EXCEPT ![r] = "sweep"]
            /\ todo' = [todo EXCEPT ![r] = {x \in DirRuns : dirOf[x].there}]
            /\ owedTo' = [owedTo EXCEPT ![r] = Owed(r)]
       ELSE runAt' = [runAt EXCEPT ![r] = "make"] /\ UNCHANGED <<todo, owedTo>>
    /\ UNCHANGED <<way, dirOf, doomed, sweptBy, pidTaken, compiled, fixturesOf, codeOf>>

\* cleanStaleTmpOverlays: one directory is judged ...
Judge(s, r) ==
    /\ runAt[s] = "sweep" /\ r \in todo[s] /\ doomed[s] = {}
    /\ todo' = [todo EXCEPT ![s] = @ \ {r}]
    /\ \/ /\ dirOf[r].there /\ ~Kept(r)
          /\ \E owner \in JudgeOwner(s, r) :
                owner = "gone" \/ (owner = "unknown" /\ dirOf[r].age >= GraceOf(r))
          /\ doomed' = [doomed EXCEPT ![s] = {r}]
       \/ /\ \/ ~dirOf[r].there \/ Kept(r)
             \/ \E owner \in JudgeOwner(s, r) :
                  owner \in {"live", "elsewhere"} \/ (owner = "unknown" /\ dirOf[r].age < GraceOf(r))
          /\ UNCHANGED doomed
    /\ UNCHANGED <<way, runAt, dirOf, owedTo, sweptBy, pidTaken, compiled, fixturesOf, codeOf>>

\* ... and removed.
Sweep(s, r) ==
    /\ runAt[s] = "sweep" /\ r \in doomed[s]
    /\ doomed' = [doomed EXCEPT ![s] = {}]
    /\ dirOf' = Removed(r)
    /\ sweptBy' = [sweptBy EXCEPT ![r] = IF dirOf[r].there THEN s ELSE @]
    /\ UNCHANGED <<way, runAt, todo, owedTo, pidTaken, compiled, fixturesOf, codeOf>>

Swept(s) ==
    /\ runAt[s] = "sweep" /\ todo[s] = {} /\ doomed[s] = {}
    /\ runAt' = [runAt EXCEPT ![s] = "make"]
    /\ UNCHANGED <<way, dirOf, todo, doomed, owedTo, sweptBy, pidTaken, compiled, fixturesOf, codeOf>>

------------------------------------------------------------------------------
(* GenerateOverlay *)

Goes(r, to) == runAt' = [runAt EXCEPT ![r] = to]

\* A step that failed: what was made is removed, and the run ends with 2.
Fails(r) ==
    /\ Goes(r, "over") /\ dirOf' = Removed(r) /\ codeOf' = [codeOf EXCEPT ![r] = 2]
    /\ UNCHANGED <<way, todo, doomed, owedTo, sweptBy, pidTaken, compiled, fixturesOf>>

Made(r, stage, dir, next) ==
    /\ runAt[r] = stage /\ dirOf' = dir /\ Goes(r, next)
    /\ UNCHANGED <<way, todo, doomed, owedTo, sweptBy, pidTaken, fixturesOf, codeOf>>

\* MkdirTemp
Make(r) ==
    LET next == CASE way[r].writer = "current" -> "owner"
                  [] way[r].writer = "earlierOverlay" -> "pid"
                  [] way[r].writer = "earlierWork" -> "files"
    IN Made(r, "make", [dirOf EXCEPT ![r] = [NoDir EXCEPT !.there = TRUE]], next) /\ UNCHANGED compiled

\* writePIDFile: the identity, then the pid, renamed into place whole.
StampOwner(r) == Made(r, "owner", Holding(r, {"owner"}), "pid") /\ UNCHANGED compiled
StampPid(r) == Made(r, "pid", Holding(r, {"pid"}), "files") /\ UNCHANGED compiled

\* staleStubs: of the generated files on disk, those not generated anew.
StaleStubs(onDisk, anew) == onDisk \ anew

\* writeOverlayFiles: what the overlay replaces is never read from disk.
WriteFiles(r) ==
    /\ Made(r, "files", Holding(r, {"files"}), "json")
    /\ \E onDisk \in SUBSET Harnesses, anew \in SUBSET Harnesses :
          compiled' = [compiled EXCEPT ![r] = onDisk \ (anew \cup StaleStubs(onDisk, anew))]
WriteJson(r) ==
    /\ Made(r, "json", [dirOf EXCEPT ![r].holds = @ \cup {"json"}],
            IF way[r].does = "debug" THEN "mark" ELSE "work")
    /\ UNCHANGED compiled

\* markKept, whose failure is let pass.
Mark(r) ==
    \E marked \in {{}, {"keep"}} :
        Made(r, "mark", IF marked = {} THEN dirOf ELSE Holding(r, marked), "work") /\ UNCHANGED compiled

FailsToMake(r) == runAt[r] \in {"owner", "pid", "files", "json"} /\ Fails(r)

------------------------------------------------------------------------------
(* What the directory is for *)

Ends(r, code) ==
    /\ Goes(r, "over") /\ codeOf' = [codeOf EXCEPT ![r] = code]
    /\ dirOf' = IF way[r].does = "debug" THEN dirOf ELSE Removed(r)
    /\ UNCHANGED <<way, todo, doomed, owedTo, sweptBy, pidTaken, compiled>>

Run(r) == runAt[r] = "work" /\ way[r].does # "prepare" /\ Ends(r, 0) /\ UNCHANGED fixturesOf

Stays(r, to, fixtures) ==
    /\ Goes(r, to) /\ fixturesOf' = [fixturesOf EXCEPT ![r] = fixtures]
    /\ UNCHANGED <<way, dirOf, todo, doomed, owedTo, sweptBy, pidTaken, compiled, codeOf>>

\* runPrepare: StartSharedFixtures, if the packages bind any,
PrepareStart(r) ==
    /\ runAt[r] = "work" /\ way[r].does = "prepare"
    /\ \/ Stays(r, "await", "up") \/ Stays(r, "tell", "none") \/ Fails(r)

\* TearDown, before the directory they write their state in is removed.
Teardown(r, code) ==
    \/ fixturesOf[r] = "up" /\ fixturesOf' = [fixturesOf EXCEPT ![r] = "released"] /\ Ends(r, code)
    \/ fixturesOf[r] = "up" /\ fixturesOf' = [fixturesOf EXCEPT ![r] = "failed"]
         /\ Ends(r, IF code = 0 THEN 1 ELSE code)
    \/ fixturesOf[r] = "none" /\ UNCHANGED fixturesOf /\ Ends(r, code)

\* WaitAllReady, and the document on stdout,
PrepareAwait(r) == runAt[r] = "await" /\ (Stays(r, "tell", "up") \/ Teardown(r, 2))
PrepareTell(r) == runAt[r] = "tell" /\ (Stays(r, "wait", fixturesOf[r]) \/ Teardown(r, 2))

\* until a signal comes.
PrepareStop(r) == runAt[r] = "wait" /\ Teardown(r, 0)

------------------------------------------------------------------------------
(* The environment *)

Crash(r) ==
    /\ ~Dead(r) /\ Goes(r, "crashed")
    /\ todo' = [todo EXCEPT ![r] = {}] /\ doomed' = [doomed EXCEPT ![r] = {}]
    /\ UNCHANGED <<way, dirOf, owedTo, sweptBy, pidTaken, compiled, fixturesOf, codeOf>>

PidIsTaken(r) ==
    /\ runAt[r] \in {"over", "crashed"} /\ dirOf[r].there
    /\ pidTaken' = pidTaken \cup {r}
    /\ UNCHANGED <<way, runAt, dirOf, todo, doomed, owedTo, sweptBy, compiled, fixturesOf, codeOf>>

\* Promptness: no minute passes between MkdirTemp and the last write.
Older(r) ==
    /\ dirOf[r].there /\ dirOf[r].age < Week
    /\ runAt[r] \notin {"owner", "pid", "files", "json", "mark"}
    /\ dirOf' = [dirOf EXCEPT ![r].age = @ + 1]
    /\ UNCHANGED <<way, runAt, todo, doomed, owedTo, sweptBy, pidTaken, compiled, fixturesOf, codeOf>>

DirsIn(stage) ==
    /\ runAt = [r \in DirRuns |-> stage] /\ dirOf = [r \in DirRuns |-> NoDir]
    /\ todo = [r \in DirRuns |-> {}] /\ doomed = [r \in DirRuns |-> {}]
    /\ owedTo = [r \in DirRuns |-> {}] /\ sweptBy = [r \in DirRuns |-> 0]
    /\ pidTaken = {} /\ compiled = [r \in DirRuns |-> {}]
    /\ fixturesOf = [r \in DirRuns |-> "none"] /\ codeOf = [r \in DirRuns |-> -1]

DirsInit == DirsIn("unborn") /\ way \in Ways

AllEnded == (\A r \in DirRuns : runAt[r] \in {"over", "crashed"}) /\ UNCHANGED dirVars

DirsNext ==
    \/ \E r \in DirRuns :
          \/ Begin(r) \/ Swept(r) \/ \E x \in DirRuns : Judge(r, x) \/ Sweep(r, x)
          \/ Make(r) \/ StampOwner(r) \/ StampPid(r) \/ WriteFiles(r) \/ WriteJson(r) \/ Mark(r)
          \/ FailsToMake(r) \/ Run(r)
          \/ PrepareStart(r) \/ PrepareAwait(r) \/ PrepareTell(r) \/ PrepareStop(r)
          \/ Crash(r) \/ PidIsTaken(r) \/ Older(r)
    \/ AllEnded

DirsSpec == DirsInit /\ [][DirsNext]_dirVars

------------------------------------------------------------------------------
(* Properties *)

Working(r) == runAt[r] \in {"work", "await", "tell", "wait"}

\* Seen from another namespace, an earlier version's directory is judged by a
\* pid that says nothing of its owner; one with no stamp, by its age.
Misjudged(r) ==
    \/ way[r].writer = "earlierOverlay" /\ \E s \in DirRuns : way[s].place # way[r].place
    \/ way[r].writer = "earlierWork" /\ dirOf[r].age = Week

\* No sweep takes the directory of a run that still works in it, wherever it
\* runs: what it was told to compile is there (overlay_cleanup.go:17-22).
LiveDirStays ==
    \A r \in DirRuns :
        Working(r) /\ ~Misjudged(r) => dirOf[r].there /\ {"files", "json"} \subseteq dirOf[r].holds

\* A sweep removes a stamped directory of its own boot and namespace alone, and
\* every one whose owner was dead when it began (overlay_cleanup.go:14-21).
DeadDirsGo ==
    /\ \A r \in DirRuns :
          sweptBy[r] # 0 /\ {"owner", "pid"} \subseteq dirOf[r].holds =>
              SameID(way[r].place, way[sweptBy[r]].place)
    /\ \A s \in DirRuns :
          runAt[s] \notin {"unborn", "sweep", "crashed"} => \A r \in owedTo[s] \ pidTaken : ~dirOf[r].there

\* A --debug run's directory stays for a week, dead or alive
\* (overlay_cleanup.go:28-32).
KeptStays == \A r \in DirRuns : "keep" \in dirOf[r].holds /\ ~dirOf[r].there => dirOf[r].age = Week

\* A generated file an earlier generate left is never compiled
\* (overlay.go:295-297).
StaleNeverCompiled == \A r \in DirRuns : compiled[r] = {}

\* A prepare that ends releases what it started on every path, says so in its
\* exit code, and until then what it told the editor is there
\* (prepare.go:94-112).
PrepareReleases ==
    \A r \in DirRuns :
        /\ runAt[r] = "over" => fixturesOf[r] # "up" /\ (fixturesOf[r] = "failed" => codeOf[r] # 0)
        /\ runAt[r] = "over" /\ way[r].does = "prepare" => ~dirOf[r].there

DirsAreOwned == LiveDirStays /\ DeadDirsGo /\ KeptStays /\ StaleNeverCompiled /\ PrepareReleases

------------------------------------------------------------------------------
(* The scratch directory of a drill *)

CONSTANTS
    Drills,    \* drills of this checkout and shard
    Prunes,    \* drills of others, which prune this scratch
    MaxLocks   \* bound: how many lock files are created

ASSUME ScratchAssumption ==
    Drills \cap Prunes = {} /\ "nobody" \notin Drills \cup Prunes /\ MaxLocks \in Nat \ {0}

Openers == Drills \cup Prunes

VARIABLES
    lockAtPath,  \* the lock file at the path, 0 if there is none
    locks,       \* how many lock files were created
    holder,      \* holder[f]: who holds the lock of file f
    unused,      \* the lock files with a time more than a week ago
    opener,      \* opener[p]: where p is
    fd,          \* fd[p]: the file p opened
    tree        \* whose trees the directory holds, "none" if there is none

scratchVars == <<lockAtPath, locks, holder, unused, opener, fd, tree>>

Nobody == "nobody"
Files == 0..MaxLocks

ScratchIn(where) ==
    /\ lockAtPath \in {0, 1} /\ locks = lockAtPath
    /\ holder = [f \in Files |-> Nobody]
    /\ unused \in SUBSET {lockAtPath} /\ 0 \notin unused
    /\ opener = [p \in Openers |-> where] /\ fd = [p \in Openers |-> 0]
    /\ tree \in {"none", "old"} /\ (lockAtPath = 0 => tree = "none")

ScratchInit == ScratchIn("idle")

Step(p, from, to) == opener[p] = from /\ opener' = [opener EXCEPT ![p] = to]

\* lockAt: a drill creates the file; a prune has looked at its time first, and
\* takes only one that is there.
OpenLockFile(p) ==
    /\ Step(p, "idle", "opened")
    /\ \/ lockAtPath # 0 /\ fd' = [fd EXCEPT ![p] = lockAtPath]
          /\ (p \in Prunes => lockAtPath \in unused)
          /\ UNCHANGED <<lockAtPath, locks>>
       \/ /\ lockAtPath = 0 /\ p \in Drills /\ locks < MaxLocks
          /\ locks' = locks + 1 /\ lockAtPath' = locks' /\ fd' = [fd EXCEPT ![p] = locks']
    /\ UNCHANGED <<holder, unused, tree>>

Lock1(p) == holder' = [holder EXCEPT ![fd[p]] = p]

\* Mutant: the path is not looked at again.
TryLockScratch_NoNames(p) ==
    /\ holder[fd[p]] = Nobody /\ Step(p, "opened", "locked") /\ Lock1(p)
    /\ UNCHANGED <<lockAtPath, locks, unused, fd, tree>>

\* tryLock and names: the lock of the file at the path; a file replaced is
\* opened again by a drill, left by a prune; a locked one refuses a drill.
TryLockScratch(p) ==
    /\ \/ /\ holder[fd[p]] = Nobody /\ fd[p] = lockAtPath
          /\ Step(p, "opened", "locked") /\ Lock1(p)
       \/ /\ fd[p] # lockAtPath
          /\ Step(p, "opened", IF p \in Drills THEN "idle" ELSE "out")
          /\ UNCHANGED <<holder>>
       \/ /\ holder[fd[p]] # Nobody /\ fd[p] = lockAtPath
          /\ Step(p, "opened", "out")
          /\ UNCHANGED holder
    /\ UNCHANGED <<lockAtPath, locks, unused, fd, tree>>

\* OpenScratch, once locked: the file's time is now, what a killed drill left
\* is cleared, and the directory is made anew.
OpenScratch(d) ==
    /\ d \in Drills /\ Step(d, "locked", "using")
    /\ unused' = unused \ {lockAtPath} /\ tree' = d
    /\ UNCHANGED <<lockAtPath, locks, holder, fd>>

\* The drill ends: its trees are removed and the lock is given up.
ReleaseScratch(d) ==
    /\ d \in Drills /\ Step(d, "using", "out")
    /\ tree' = "none" /\ holder' = [holder EXCEPT ![fd[d]] = Nobody]
    /\ UNCHANGED <<lockAtPath, locks, unused, fd>>

\* A drill killed outright: its workers still write, until they end.
DrillKilled(d) ==
    /\ d \in Drills /\ Step(d, "using", "orphans")
    /\ UNCHANGED <<lockAtPath, locks, holder, unused, fd, tree>>

WorkersEnd(d) ==
    /\ Step(d, "orphans", "out") /\ holder' = [holder EXCEPT ![fd[d]] = Nobody]
    /\ UNCHANGED <<lockAtPath, locks, unused, fd, tree>>

\* prune, once locked: a scratch used meanwhile is kept; otherwise it is moved
\* aside, the lock file removed if that worked, and the lock given up.
PruneJudges(p) ==
    /\ p \in Prunes
    /\ IF fd[p] \in unused
         THEN Step(p, "locked", "move") /\ UNCHANGED holder
         ELSE Step(p, "locked", "out") /\ holder' = [holder EXCEPT ![fd[p]] = Nobody]
    /\ UNCHANGED <<lockAtPath, locks, unused, fd, tree>>

PruneMoves(p) ==
    /\ p \in Prunes
    /\ \/ Step(p, "move", "remove") /\ tree' = "none"
       \/ Step(p, "move", "close") /\ UNCHANGED tree
    /\ UNCHANGED <<lockAtPath, locks, holder, unused, fd>>

PruneRemoves(p) ==
    /\ p \in Prunes /\ Step(p, "remove", "close") /\ lockAtPath' = 0
    /\ UNCHANGED <<locks, holder, unused, fd, tree>>

PruneCloses(p) ==
    /\ p \in Prunes /\ Step(p, "close", "out")
    /\ holder' = [holder EXCEPT ![fd[p]] = Nobody]
    /\ UNCHANGED <<lockAtPath, locks, unused, fd, tree>>

\* A week passes without a drill on this scratch.
WeekPasses ==
    /\ lockAtPath # 0 /\ lockAtPath \notin unused
    /\ \A p \in Openers : opener[p] \in {"idle", "out", "orphans"}
    /\ unused' = unused \cup {lockAtPath}
    /\ UNCHANGED <<lockAtPath, locks, holder, opener, fd, tree>>

ScratchNext ==
    \/ \E p \in Openers :
          \/ OpenLockFile(p) \/ TryLockScratch(p) \/ OpenScratch(p)
          \/ ReleaseScratch(p) \/ DrillKilled(p) \/ WorkersEnd(p)
          \/ PruneJudges(p) \/ PruneMoves(p) \/ PruneRemoves(p) \/ PruneCloses(p)
    \/ WeekPasses
    \/ (\A p \in Openers : opener[p] \in {"idle", "out"}) /\ UNCHANGED scratchVars

ScratchSpec == ScratchInit /\ [][ScratchNext]_scratchVars

\* One drill at a time writes in the scratch, the workers of a killed one
\* included, and its trees stay where they are until it ends: no prune moves
\* them away, whatever was opened, locked and replaced meanwhile
\* (lockAt, scratch.go:99; prune, scratch.go:161).
ScratchAlone ==
    /\ \A d, e \in Drills :
          d # e => ~({opener[d], opener[e]} \subseteq {"using", "orphans"})
    /\ \A d \in Drills : opener[d] \in {"using", "orphans"} => tree = d

\* What one process works on, no other takes from it: a drill's verdicts are
\* each from the mutant's own run, in one shard alone, on a scratch directory no
\* other drill or prune touches (supervision_linux.go:151, plan.go:208,
\* scratch.go:99), and no run's work directory is swept but when its owner is
\* dead (overlay_cleanup.go:17).
NothingIsShared == DrillIsSound /\ ShardsSplitAll /\ ScratchAlone /\ DirsAreOwned
=============================================================================
