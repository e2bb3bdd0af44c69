------------------------------ MODULE WatchLoop ------------------------------
(***************************************************************************)
(* gotest watch (cmd/gotest/watch.go): after a first run the directories   *)
(* are watched; an edit marks its directory, and after the debounce the    *)
(* marked directories and the packages that depend on them run again.  The *)
(* loop reads no event while a run is under way; the system keeps them.    *)
(***************************************************************************)
EXTENDS Naturals, FiniteSets

CONSTANTS
    Dirs,      \* the package directories
    MaxEdits   \* bound: how often files are edited

ASSUME WatchAssumption == IsFiniteSet(Dirs) /\ MaxEdits \in Nat

VARIABLES
    version,   \* version[d]: edits of d so far
    imports,   \* imports[x]: the directories the sources of x import now
    watched,   \* the directories added to the watcher
    dueAt,       \* dueAt[d]: the last version edited while d was watched
    events,    \* directories with an event not read yet
    changed,   \* watchLoop's set
    timer,     \* the debounce runs
    reverse,   \* reverse[d]: the dependents of d, as last listed
    loop,      \* where runWatch is
    running,   \* the directories of the run under way that are not read yet
    seen,      \* seen[x]: the versions the last run of x read
    degraded   \* go list failed, or the system dropped an event

watchVars == <<version, imports, watched, dueAt, events, changed, timer, reverse,
               loop, running, seen, degraded>>

Listed == [d \in Dirs |-> {x \in Dirs : d \in imports[x]}]
Unlisted == [d \in Dirs |-> {}]

WatchIn(where) ==
    /\ version = [d \in Dirs |-> 1] /\ dueAt = [d \in Dirs |-> 0]
    /\ imports = [x \in Dirs |-> {}] /\ watched = {} /\ events = {}
    /\ changed = {} /\ timer = FALSE /\ reverse = Unlisted
    /\ loop = where /\ running = Dirs /\ degraded = FALSE
    /\ seen = [x \in Dirs |-> [d \in Dirs |-> 0]]

WatchInit == WatchIn("run")

\* An edit, which may change what x imports.  A directory not watched yet is
\* no one's event; the system may drop an event, and says so.
Edit(x) ==
    /\ loop # "over" /\ version[x] <= MaxEdits
    /\ version' = [version EXCEPT ![x] = @ + 1]
    /\ \E to \in SUBSET (Dirs \ {x}) :
         imports' = [imports EXCEPT ![x] = to]
    /\ \/ x \notin watched /\ UNCHANGED <<dueAt, events, degraded>>
       \/ /\ x \in watched /\ dueAt' = [dueAt EXCEPT ![x] = version'[x]]
          /\ \/ events' = events \cup {x} /\ UNCHANGED degraded
             \/ degraded' = TRUE /\ UNCHANGED events
    /\ UNCHANGED <<watched, changed, timer, reverse, loop, running, seen>>

\* A run reads the sources of a package and of what it imports.
ReadSources(x) ==
    /\ loop \in {"run", "rerun"} /\ x \in running /\ running' = running \ {x}
    /\ seen' = [seen EXCEPT ![x] = [d \in Dirs |->
                  IF d = x \/ d \in imports[x] THEN version[d] ELSE @[d]]]
    /\ UNCHANGED <<version, imports, watched, dueAt, events, changed, timer,
                   reverse, loop, degraded>>

\* The first run is over: the watcher is made, then its directories are added.
FirstRunEnds ==
    /\ loop = "run" /\ running = {} /\ loop' = "add"
    /\ UNCHANGED <<version, imports, watched, dueAt, events, changed, timer,
                   reverse, running, seen, degraded>>

WatchDirsFor ==
    /\ loop = "add"
    /\ \/ \E d \in Dirs \ watched : watched' = watched \cup {d} /\ UNCHANGED loop
       \/ watched = Dirs /\ loop' = "list" /\ UNCHANGED watched
    /\ UNCHANGED <<version, imports, dueAt, events, changed, timer, reverse,
                   running, seen, degraded>>

\* reverseDepDirs, after the watcher is set up and after every rerun: best
\* effort, empty when go list fails.
ReverseDepDirs ==
    /\ loop = "list" /\ loop' = "loop"
    /\ \/ reverse' = Listed /\ UNCHANGED degraded
       \/ reverse' = Unlisted /\ degraded' = TRUE
    /\ UNCHANGED <<version, imports, watched, dueAt, events, changed, timer,
                   running, seen>>

TakeEvent ==
    /\ loop = "loop"
    /\ \E d \in events :
         events' = events \ {d} /\ changed' = changed \cup {d} /\ timer' = TRUE
    /\ UNCHANGED <<version, imports, watched, dueAt, reverse, loop, running, seen,
                   degraded>>

\* rerunDirs: the changed directories and those that depend on them.
RerunDirs == changed \cup UNION {reverse[d] : d \in changed}

Debounced ==
    /\ loop = "loop" /\ timer /\ timer' = FALSE
    /\ running' = RerunDirs /\ changed' = {} /\ loop' = "rerun"
    /\ UNCHANGED <<version, imports, watched, dueAt, events, reverse, seen, degraded>>

\* Mutant: what changed during the rerun is taken as tested by it.
RerunEnds_Drains ==
    /\ loop = "rerun" /\ running = {} /\ loop' = "list" /\ events' = {}
    /\ UNCHANGED <<version, imports, watched, dueAt, changed, timer, reverse, running,
                   seen, degraded>>

RerunEnds ==
    /\ loop = "rerun" /\ running = {} /\ loop' = "list"
    /\ UNCHANGED <<version, imports, watched, dueAt, events, changed, timer,
                   reverse, running, seen, degraded>>

\* An interrupt ends the loop; a run under way ends early.
WatchInterrupted ==
    /\ loop # "over" /\ loop' = "over"
    /\ UNCHANGED <<version, imports, watched, dueAt, events, changed, timer,
                   reverse, running, seen, degraded>>

WatchCode ==
    \/ FirstRunEnds \/ WatchDirsFor \/ ReverseDepDirs \/ TakeEvent \/ Debounced
    \/ RerunEnds \/ \E x \in Dirs : ReadSources(x)

WatchNext ==
    \/ WatchCode \/ WatchInterrupted \/ \E x \in Dirs : Edit(x)
    \/ loop \in {"loop", "over"} /\ UNCHANGED watchVars

\* Runs end (they have deadlines) and the loop goes on; a select takes every
\* ready case in the end.
WatchFairness ==
    WF_watchVars(WatchCode) /\ WF_watchVars(TakeEvent) /\ WF_watchVars(Debounced)

WatchSpec == WatchInit /\ [][WatchNext]_watchVars /\ WatchFairness

-----------------------------------------------------------------------------
(* Properties *)

Stale(x, d) == d \in {x} \cup imports[x] /\ dueAt[d] > seen[x][d]

\* A change made while its directory is watched is tested, in its own package
\* and in every package that imports it by then, whenever it comes: during a
\* run, within the debounce, or together with the edit that adds the import
\* (watchLoop, watch.go:137; rerunDirs, watch.go:191).
ChangeIsTested ==
    \A x, d \in Dirs : Stale(x, d) ~> (~Stale(x, d) \/ loop = "over" \/ degraded)
=============================================================================
