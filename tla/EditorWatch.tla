----------------------------- MODULE EditorWatch -----------------------------
(***************************************************************************)
(* The editor extension's watcher of one scope: WatchProcess (its child,   *)
(* the JSON lines that come in whatever pieces the pipe delivers, the      *)
(* restart after a crash) and what WatchManager keeps of it (the record,   *)
(* the open TestRun).  All children write into one buffer, and are heard   *)
(* until their `close`, whatever became of the watcher.  Node emits        *)
(* `close` after `exit`, and after `error` when no child could be spawned. *)
(***************************************************************************)
EXTENDS Naturals, Sequences, FiniteSets

CONSTANTS MaxCrashes,   \* WatchProcess.MAX_CONSECUTIVE_CRASHES
          MaxSpawns,    \* bound: the children spawned
          MaxCycles     \* bound: the cycles a child announces

ASSUME SpawnsAssumption == MaxSpawns \in Nat \ {0}

VARIABLES
    spawned,      \* how many children were spawned; the last is `managed`
    liveKids,     \* the children that run
    failedSpawn,  \* the children that failed to spawn, their `close` due
    disposed,
    crashCount,   \* consecutiveCrashes
    needsResolve,
    restarts,     \* the armed restart timers
    resolvings,   \* the restarts that await buildCmd
    lastLine,     \* of each child that runs, the line it began last: <<kind, cycle>>
    midway,       \* those that have written only the beginning of it
    half,         \* whose beginning of a line the buffer holds; {0}: no one child's
    unflushed,    \* cycleBuffer: <<child, cycle>> of the events it holds
    runCycle,     \* <<child, cycle>> the open TestRun was made for, or NoRun
    openedAs,     \* the record's status when the open TestRun was made
    beside,       \* the last start found another child running
    astray,       \* since that start, an event was applied to the run of another cycle
    watchRecord   \* the RunRecord: "none", "running", "cancelled", "crashed"

NoLine == <<"none", 0>>
NoRun == <<0, 0>>

Kids == 1..MaxSpawns
streamVars == <<lastLine, midway>>
pipeVars == <<half, unflushed, runCycle, openedAs, beside, astray>>
restartVars == <<disposed, crashCount, needsResolve, restarts, resolvings>>
editorWatchVars == <<spawned, liveKids, failedSpawn, restartVars, streamVars, pipeVars,
                     watchRecord>>

WatcherIn(status, live, failed) ==
    /\ spawned = 1 /\ liveKids = live /\ failedSpawn = failed
    /\ disposed = (status # "running") /\ crashCount = 0 /\ needsResolve = FALSE
    /\ restarts = 0 /\ resolvings = 0
    /\ lastLine = [c \in Kids |-> NoLine] /\ midway = {} /\ half = {} /\ unflushed = <<>>
    /\ runCycle = NoRun /\ openedAs = "none" /\ beside = FALSE /\ astray = FALSE
    /\ watchRecord = status

\* WatchManager.start: the constructor has spawned the first child, or failed to.
EditorWatchInit == WatcherIn("running", {1}, {}) \/ WatcherIn("running", {}, {1})

------------------------------------------------------------------------------
\* WatchProcess.start: a new child, the buffers emptied; or the binary is gone.
StartChild ==
    /\ spawned' = spawned + 1
    /\ \/ liveKids' = liveKids \cup {spawned'} /\ UNCHANGED failedSpawn
       \/ failedSpawn' = failedSpawn \cup {spawned'} /\ UNCHANGED liveKids
    /\ half' = {} /\ unflushed' = <<>>
    /\ beside' = (liveKids # {}) /\ astray' = FALSE
    /\ UNCHANGED <<streamVars, runCycle, openedAs>>

\* onExit of the manager: the record is marked, the run ended.
OnExit ==
    /\ watchRecord' = IF watchRecord = "running" THEN "crashed" ELSE watchRecord
    /\ runCycle' = NoRun /\ openedAs' = "none"
    /\ UNCHANGED <<half, unflushed, beside, astray>>

\* maybeRestart: without auto-restart, or at the limit, the watcher is given
\* up; otherwise a timer starts it again.
MaybeRestart(autoRestart) ==
    IF disposed THEN UNCHANGED <<crashCount, restarts, pipeVars, watchRecord>>
    ELSE IF ~autoRestart THEN OnExit /\ UNCHANGED <<crashCount, restarts>>
    ELSE /\ crashCount' = crashCount + 1
         /\ IF crashCount' >= MaxCrashes
            THEN OnExit /\ UNCHANGED restarts
            ELSE restarts' = restarts + 1 /\ UNCHANGED <<pipeVars, watchRecord>>

\* A child ends by itself and its pipes close.
ChildCloses(c, autoRestart) ==
    /\ c \in liveKids /\ liveKids' = liveKids \ {c}
    /\ lastLine' = [lastLine EXCEPT ![c] = NoLine] /\ midway' = midway \ {c}
    /\ MaybeRestart(autoRestart)
    /\ UNCHANGED <<spawned, failedSpawn, disposed, needsResolve, resolvings>>

\* `error` of a child that could not be spawned (ENOENT); its `close` follows.
SpawnError(c, autoRestart) ==
    /\ c \in failedSpawn /\ ~needsResolve
    /\ needsResolve' = TRUE
    /\ MaybeRestart(autoRestart)
    /\ UNCHANGED <<spawned, liveKids, failedSpawn, disposed, resolvings, streamVars>>

CloseAfterError(c, autoRestart) ==
    /\ c \in failedSpawn /\ needsResolve
    /\ failedSpawn' = failedSpawn \ {c}
    /\ MaybeRestart(autoRestart)
    /\ UNCHANGED <<spawned, liveKids, disposed, needsResolve, resolvings, streamVars>>

\* The timer: nothing once disposed; a binary that was gone is looked up
\* again, across an await.
RestartFires ==
    /\ restarts > 0 /\ restarts' = restarts - 1 /\ failedSpawn = {}
    /\ IF disposed
       THEN UNCHANGED <<spawned, liveKids, failedSpawn, needsResolve, resolvings, streamVars, pipeVars>>
       ELSE IF needsResolve
       THEN /\ needsResolve' = FALSE /\ resolvings' = resolvings + 1
            /\ UNCHANGED <<spawned, liveKids, failedSpawn, streamVars, pipeVars>>
       ELSE spawned < MaxSpawns /\ StartChild /\ UNCHANGED <<needsResolve, resolvings>>
    /\ UNCHANGED <<disposed, crashCount, watchRecord>>

\* buildCmd answers: the child is started, without another look at disposed,
\* or the watcher is given up.
Resolves(found) ==
    /\ resolvings > 0 /\ resolvings' = resolvings - 1 /\ failedSpawn = {}
    /\ IF found THEN spawned < MaxSpawns /\ StartChild /\ UNCHANGED watchRecord
       ELSE OnExit /\ UNCHANGED <<spawned, liveKids, failedSpawn, streamVars>>
    /\ UNCHANGED <<disposed, crashCount, needsResolve, restarts>>

\* stop, and dispose, of a watcher not given up: the record is cancelled, the
\* run ended, and the child held last told to end, which takes it a while.
StopWatcher ==
    /\ watchRecord = "running" /\ watchRecord' = "cancelled"
    /\ disposed' = TRUE
    /\ runCycle' = NoRun /\ openedAs' = "none"
    /\ UNCHANGED <<spawned, liveKids, failedSpawn, crashCount, needsResolve, restarts, resolvings,
                   streamVars, half, unflushed, beside, astray>>

------------------------------------------------------------------------------
\* onEvents: applied to the open run; without one they are only accumulated.
Flush(p) ==
    [p EXCEPT !.held = <<>>,
              !.applied = IF p.run = NoRun THEN @ ELSE @ \cup {<<p.held[i], p.run>> : i \in DOMAIN p.held}]

\* A start does not flush what the lines before it left.
Line_NoFlush(p, c, line) ==
    IF line[1] = "start" THEN [p EXCEPT !.run = <<c, line[2]>>]
    ELSE IF line[1] = "event" THEN [p EXCEPT !.held = Append(@, <<c, line[2]>>)]
    ELSE p

\* One line of processBuffer: watch-start ends the run before and opens one.
Line(p, c, line) ==
    IF line[1] = "start" THEN [Flush(p) EXCEPT !.run = <<c, line[2]>>]
    ELSE IF line[1] = "event" THEN [p EXCEPT !.held = Append(@, <<c, line[2]>>)]
    ELSE p

\* What a child writes after a line.
Follows(line) ==
    {<<"start", line[2] + 1>>} \cup {<<"event", n>> : n \in {line[2]} \ {0}}

\* The one or two lines child c writes next: what it owes of the last comes first.
Writes(c) ==
    LET firsts == IF c \in midway THEN {lastLine[c]} ELSE Follows(lastLine[c])
    IN {<<l>> : l \in firsts} \cup UNION {{<<l, m>> : m \in Follows(l)} : l \in firsts}

\* The buffer holds what c has written of its line, and nothing else.
InOrder(c) == half = IF c \in midway THEN {c} ELSE {}

\* processBuffer over a chunk: the complete lines in turn, the first after
\* what the buffer holds, the cut one kept, and what was accumulated flushed
\* at the end.  A first line put together from pieces of several is skipped,
\* or, should it parse, is whatever it says, of a cycle that is nobody's.
Chunk(c, lines, cut, garbled) ==
    LET whole == IF cut THEN Len(lines) - 1 ELSE Len(lines)
        first == IF InOrder(c) THEN lines[1] ELSE <<garbled, 1>>
        p0 == [held |-> unflushed, run |-> runCycle, applied |-> {}]
        p1 == IF whole < 1 THEN p0 ELSE Line(p0, IF InOrder(c) THEN c ELSE 0, first)
        p2 == IF whole < 2 THEN p1 ELSE Line(p1, c, lines[2])
        done == Flush(p2)
        started == (whole >= 1 /\ first[1] = "start") \/ (whole >= 2 /\ lines[2][1] = "start")
    IN
    /\ c \in liveKids /\ lines \in Writes(c)
    /\ \A i \in DOMAIN lines : lines[i][2] <= MaxCycles
    /\ lastLine' = [lastLine EXCEPT ![c] = lines[Len(lines)]]
    /\ midway' = IF cut THEN midway \cup {c} ELSE midway \ {c}
    /\ half' = IF ~cut THEN {} ELSE IF whole > 0 \/ InOrder(c) THEN {c} ELSE {0}
    /\ unflushed' = done.held /\ runCycle' = done.run
    /\ astray' = (astray \/ \E a \in done.applied : a[1] # a[2])
    /\ openedAs' = IF started THEN watchRecord ELSE openedAs
    /\ crashCount' = IF started THEN 0 ELSE crashCount
    /\ UNCHANGED <<spawned, liveKids, failedSpawn, disposed, needsResolve, restarts, resolvings,
                   beside, watchRecord>>

EditorWatchNext ==
    \/ \E c \in liveKids \cup failedSpawn, autoRestart \in BOOLEAN :
          ChildCloses(c, autoRestart) \/ SpawnError(c, autoRestart) \/ CloseAfterError(c, autoRestart)
    \/ RestartFires \/ StopWatcher
    \/ \E found \in BOOLEAN : Resolves(found)
    \/ \E c \in liveKids, cut \in BOOLEAN, garbled \in {"skipped", "event", "start"} :
          \E lines \in Writes(c) : Chunk(c, lines, cut, garbled)

EditorWatchSpec == EditorWatchInit /\ [][EditorWatchNext]_editorWatchVars

------------------------------------------------------------------------------
\* An event is put on the test run of the cycle it belongs to, wherever the
\* chunk boundaries fall, unless two children wrote side by side (watch.ts,
\* processBuffer); and a watcher stopped or given up leaves no run open but
\* one made since, for a child still heard (stop, onExit).
EventsToTheirCycle ==
    /\ ~beside => ~astray
    /\ watchRecord # "running" /\ runCycle # NoRun => openedAs # "running"

\* What the comment on WatchProcess says: it wraps a single child process.
SingleChild == Cardinality(liveKids) <= 1
=============================================================================
