------------------------------ MODULE CliStop ------------------------------
(***************************************************************************)
(* The command line and the process trees it runs: process groups          *)
(* (internal/proctree), managed processes (managed_process.go), suite      *)
(* processes (suiterun.go), helper trees (process.go), what the second     *)
(* signal does to them (abandon.go), and the stream their results go to.   *)
(*                                                                         *)
(* A tree is one process group.  Its root is the command started: the go   *)
(* command, the shared fixture process, or the converter in front of a     *)
(* suite process.  Every tree has the goroutine that runs it, the one that *)
(* waits for its root, and exec's watch of the context.  Processes may     *)
(* ignore a request to stop for ever; a killed one dies.                   *)
(*                                                                         *)
(* One timing assumption: goroutines that can run get to run before the    *)
(* next bound of the second signal passes (Prompt); the bounds are 300ms   *)
(* and more.                                                               *)
(***************************************************************************)
EXTENDS Shutdown

CONSTANTS
    Trees,    \* the trees the run starts
    Kinds     \* the kinds of tree among them

ASSUME TreeAssumption ==
    /\ IsFiniteSet(Trees)
    /\ Kinds \subseteq {"suite", "build", "helper", "fixture"}

VARIABLES
    kind,        \* kind[t]: what tree t runs
    own,         \* own[t]: how far the goroutines that own t are
    live,        \* live[t]: the processes of t still alive
    doomed,      \* doomed[t]: those that were sent SIGKILL
    told,        \* told[t]: those that were sent SIGTERM with their group
    asks,        \* asks[t]: how often the suite process was told to stop
    canceller,   \* canceller[t]: where exec's watch of the context is
    published,   \* published[t]: the suite process wrote its pid file
    stoppedOnly, \* ManagedProcess.stopped: the suite alone was signalled
    interrupted, \* Tree.interrupted
    graceOver,   \* graceOver[t]: the grace of the stop has passed
    tracked,     \* the keys of the live map
    trees,       \* Abandon's copy of it
    stopping,    \* the trees of the copy that were asked again
    record,      \* record[t]: how far t's events are written
    gate         \* exitGate, as the exit takes it

treeVars == <<kind, own, live, doomed, told, asks, canceller, published,
              stoppedOnly, interrupted, graceOver, tracked, trees, stopping,
              record, gate>>
cliVars == <<signalVars, treeVars>>

Steps == {"new", "forked", "up", "reaped", "lingering", "untracked", "done"}

CliTypeOK ==
    /\ kind \in [Trees -> Kinds] /\ own \in [Trees -> Steps]
    /\ live \in [Trees -> SUBSET {"root", "suite", "child"}]
    /\ \A t \in Trees : doomed[t] \cup told[t] \subseteq {"root", "suite", "child"}
    /\ asks \in [Trees -> 0..2] /\ stopper \in StopperSteps
    /\ tracked \subseteq Trees /\ trees \subseteq Trees /\ stopping \subseteq trees
    /\ record \in [Trees -> {"no", "stdout", "events", "whole"}]
    /\ gate \in {"open", "wanted", "held", "given up"}

\* No process was started yet.
TreesIn ==
    /\ kind \in [Trees -> Kinds]
    /\ own = [t \in Trees |-> "new"]
    /\ live = [t \in Trees |-> {}] /\ doomed = [t \in Trees |-> {}]
    /\ told = [t \in Trees |-> {}] /\ asks = [t \in Trees |-> 0]
    /\ canceller = [t \in Trees |-> "idle"]
    /\ published = [t \in Trees |-> FALSE]
    /\ stoppedOnly = [t \in Trees |-> FALSE]
    /\ interrupted = [t \in Trees |-> FALSE]
    /\ graceOver = [t \in Trees |-> FALSE]
    /\ tracked = {} /\ trees = {} /\ stopping = {}
    /\ record = [t \in Trees |-> "no"]
    /\ gate = "open"

CliInit == ShutdownIn("no") /\ TreesIn

-----------------------------------------------------------------------------
(* Process groups *)

Set(f, t, v) == [f EXCEPT ![t] = v]

\* Tree.Interrupt: SIGTERM to the group, unless released.
Interrupt(t) ==
    /\ interrupted' = Set(interrupted, t, TRUE)
    /\ told' = Set(told, t, told[t] \cup live[t])
    /\ asks' = Set(asks, t, IF "suite" \in live[t] /\ asks[t] < 2
                              THEN asks[t] + 1 ELSE asks[t])
    /\ UNCHANGED doomed

\* Tree.Kill and the SIGKILL of release: the whole group.
Kill(t) ==
    /\ doomed' = Set(doomed, t, live[t])
    /\ UNCHANGED <<interrupted, told, asks>>

NoGroupSignal == UNCHANGED <<interrupted, told, asks, doomed>>

\* signalPID: SIGTERM to the suite process alone, if it is in the group.
SignalSuite(t) ==
    /\ asks' = Set(asks, t, IF asks[t] < 2 THEN asks[t] + 1 ELSE 2)
    /\ UNCHANGED <<interrupted, told, doomed>>

PidInGroup(t) == published[t] /\ "suite" \in live[t]

\* A process leaves: killed, or by itself.  The converter relays the stream
\* until the suite is gone, unless the group's SIGTERM ends it; the shared
\* fixture process serves until it is told.
Exits(t, p) ==
    /\ Lives /\ p \in live[t]
    /\ \/ p = "suite" \/ p = "child" \/ p \in told[t]
       \/ p = "root" /\ kind[t] = "suite" /\ "suite" \notin live[t]
       \/ p = "root" /\ kind[t] \in {"build", "helper"}
    /\ live' = Set(live, t, live[t] \ {p})
    /\ UNCHANGED <<signalVars, kind, own, doomed, told, asks, canceller,
                   published, stoppedOnly, interrupted, graceOver, tracked,
                   trees, stopping, record, gate>>

Dies(t, p) ==
    /\ Lives /\ p \in live[t] \cap doomed[t]
    /\ live' = Set(live, t, live[t] \ {p})
    /\ UNCHANGED <<signalVars, kind, own, doomed, told, asks, canceller,
                   published, stoppedOnly, interrupted, graceOver, tracked,
                   trees, stopping, record, gate>>

Publish(t) ==
    /\ Lives /\ "suite" \in live[t] /\ ~published[t]
    /\ published' = Set(published, t, TRUE)
    /\ UNCHANGED <<signalVars, kind, own, live, doomed, told, asks, canceller,
                   stoppedOnly, interrupted, graceOver, tracked, trees,
                   stopping, record, gate>>

-----------------------------------------------------------------------------
(* Starting a tree *)

OwnGoes(t, from, to) == Lives /\ own[t] = from /\ own' = Set(own, t, to)

\* exec refuses to start a command whose context is done; a command may also
\* fail to start.  A suite whose executable is busy is tried again, which
\* changes nothing here.
StartFails(t) ==
    /\ OwnGoes(t, "new", "done")
    /\ UNCHANGED <<signalVars, kind, live, doomed, told, asks, canceller,
                   published, stoppedOnly, interrupted, graceOver, tracked,
                   trees, stopping, record, gate>>

Start(t) ==
    /\ ~cancelled /\ OwnGoes(t, "new", "forked")
    /\ live' = Set(live, t, IF kind[t] = "suite" THEN {"root", "suite", "child"}
                                                 ELSE {"root", "child"})
    /\ UNCHANGED <<signalVars, kind, doomed, told, asks, canceller, published,
                   stoppedOnly, interrupted, graceOver, tracked, trees,
                   stopping, record, gate>>

\* Mutant: the tree is never tracked.
Track_Not(t) ==
    /\ OwnGoes(t, "forked", "up")
    /\ UNCHANGED <<signalVars, kind, live, doomed, told, asks, canceller,
                   published, stoppedOnly, interrupted, graceOver, tracked,
                   trees, stopping, record, gate>>

\* Then the pipes are read and the root is waited for.
Track(t) ==
    /\ OwnGoes(t, "forked", "up")
    /\ tracked' = tracked \cup {t}
    /\ UNCHANGED <<signalVars, kind, live, doomed, told, asks, canceller,
                   published, stoppedOnly, interrupted, graceOver, trees,
                   stopping, record, gate>>

-----------------------------------------------------------------------------
(* The context ends while the root is not waited for yet: cmd.Cancel *)

\* A suite is announced its stop before it is told; a build is killed; the
\* shared fixture process is left to Teardown.
Cancel(t) ==
    /\ Lives /\ cancelled /\ canceller[t] = "idle" /\ own[t] \in {"forked", "up"}
    /\ canceller' = Set(canceller, t, IF kind[t] = "suite" THEN "telling" ELSE "over")
    /\ \/ kind[t] \in {"suite", "fixture"} /\ NoGroupSignal
       \/ kind[t] = "build" /\ Kill(t)
       \/ kind[t] = "helper" /\ Interrupt(t)
    /\ UNCHANGED <<signalVars, kind, own, live, published, stoppedOnly,
                   graceOver, tracked, trees, stopping, record, gate>>

\* The suite alone, by the pid it published; otherwise its group.
TellSuite(t) ==
    /\ Lives /\ canceller[t] = "telling"
    /\ canceller' = Set(canceller, t, "over")
    /\ IF PidInGroup(t)
         THEN SignalSuite(t) /\ stoppedOnly' = Set(stoppedOnly, t, TRUE)
         ELSE Interrupt(t) /\ UNCHANGED stoppedOnly
    /\ UNCHANGED <<signalVars, kind, own, live, published, graceOver, tracked,
                   trees, stopping, record, gate>>

\* WaitWithGrace: the grace passes and the tree is killed; of a helper tree
\* exec kills the root; Teardown kills the shared fixture process.
GracePasses(t) ==
    /\ Lives /\ cancelled /\ ~graceOver[t]
    /\ own[t] \in {"up", "reaped", "lingering"}
    /\ kind[t] = "fixture" => interrupted[t]
    /\ graceOver' = Set(graceOver, t, TRUE)
    /\ IF kind[t] = "helper"
         THEN /\ doomed' = Set(doomed, t, doomed[t] \cup {"root"})
              /\ UNCHANGED <<interrupted, told, asks>>
         ELSE Kill(t)
    /\ UNCHANGED <<signalVars, kind, own, live, canceller, published,
                   stoppedOnly, tracked, trees, stopping, record, gate>>

\* Teardown, after the last suite, asks the shared fixture process to stop.
Teardown(t) ==
    /\ Lives /\ kind[t] = "fixture" /\ own[t] = "up" /\ ~interrupted[t]
    /\ \A o \in Trees \ {t} : kind[o] = "fixture" \/ own[o] = "done"
    /\ Interrupt(t)
    /\ UNCHANGED <<signalVars, kind, own, live, canceller, published,
                   stoppedOnly, graceOver, tracked, trees, stopping, record,
                   gate>>

-----------------------------------------------------------------------------
(* The root is gone: wait *)

\* cmd.Wait returns once the root is reaped and the watch of the context has
\* ended; a Cancel under way is waited for.
Reap(t) ==
    /\ "root" \notin live[t] /\ canceller[t] # "telling"
    /\ OwnGoes(t, "up", "reaped")
    /\ canceller' = Set(canceller, t, "over")
    /\ UNCHANGED <<signalVars, kind, live, doomed, told, asks, published,
                   stoppedOnly, interrupted, graceOver, tracked, trees,
                   stopping, record, gate>>

\* End: what a suite stopped alone left running is told too.
BeginEnd(t) ==
    /\ OwnGoes(t, "reaped", "lingering")
    /\ IF stoppedOnly[t] /\ ~interrupted[t] THEN Interrupt(t) ELSE NoGroupSignal
    /\ UNCHANGED <<signalVars, kind, live, canceller, published, stoppedOnly,
                   graceOver, tracked, trees, stopping, record, gate>>

\* Linger: a managed tree that was interrupted has its grace to empty; End
\* kills what is left of it then.
Untrack(t) ==
    /\ \/ kind[t] \in {"helper", "fixture"} \/ ~interrupted[t]
       \/ live[t] = {} \/ graceOver[t]
    /\ OwnGoes(t, "lingering", "untracked")
    /\ IF stoppedOnly[t] THEN Kill(t) ELSE NoGroupSignal
    /\ tracked' = tracked \ {t}
    /\ UNCHANGED <<signalVars, kind, live, canceller, published, stoppedOnly,
                   graceOver, trees, stopping, record, gate>>

\* Release kills what the root left; then the output is drained.
Release(t) ==
    /\ OwnGoes(t, "untracked", "done")
    /\ Kill(t)
    /\ UNCHANGED <<signalVars, kind, live, canceller, published, stoppedOnly,
                   graceOver, tracked, trees, stopping, record, gate>>

-----------------------------------------------------------------------------
(* The stream, and the run's end *)

Writing(t) == record[t] \in {"stdout", "events"}

\* A write of the stream holds the gate shared, one at a time: stdout first,
\* which blocks for as long as nobody reads it, then the events file.
BeginWrite(t) ==
    /\ Lives /\ own[t] = "done" /\ record[t] = "no"
    /\ gate = "open" /\ \A o \in Trees : ~Writing(o)
    /\ record' = Set(record, t, "stdout")
    /\ UNCHANGED <<signalVars, kind, own, live, doomed, told, asks, canceller,
                   published, stoppedOnly, interrupted, graceOver, tracked,
                   trees, stopping, gate>>

WriteStdout(t) ==
    /\ Lives /\ record[t] = "stdout"
    /\ record' = Set(record, t, "events")
    /\ UNCHANGED <<signalVars, kind, own, live, doomed, told, asks, canceller,
                   published, stoppedOnly, interrupted, graceOver, tracked,
                   trees, stopping, gate>>

WriteEvents(t) ==
    /\ Lives /\ record[t] = "events"
    /\ record' = Set(record, t, "whole")
    /\ UNCHANGED <<signalVars, kind, own, live, doomed, told, asks, canceller,
                   published, stoppedOnly, interrupted, graceOver, tracked,
                   trees, stopping, gate>>

PipelineEnds ==
    /\ \A t \in Trees : record[t] = "whole"
    /\ RunEnds
    /\ UNCHANGED treeVars

-----------------------------------------------------------------------------
(* Abandon, and the forced exit *)

Prompt == \A t \in Trees : own[t] \notin {"forked", "untracked"}

TakeLive ==
    /\ StopperGoes("last", "asking")
    /\ trees' = tracked
    /\ UNCHANGED <<cancelled, again, further, hurry, runDone,
                   forcedExit, exited, late, kind, own, live, doomed, told, asks,
                   canceller, published, stoppedOnly, interrupted, graceOver,
                   tracked, stopping, record, gate>>

\* askAgain: a suite by its pid, a tree without a stop file by its group; what
\* neither reaches, and a helper tree, is killed.  A released tree is done.
AskAgain(t) ==
    /\ Lives /\ stopper = "asking" /\ t \in trees \ stopping
    /\ stopping' = stopping \cup {t}
    /\ \/ own[t] = "done" /\ NoGroupSignal
       \/ own[t] # "done" /\ kind[t] = "suite" /\ PidInGroup(t) /\ SignalSuite(t)
       \/ own[t] # "done" /\ kind[t] \in {"build", "fixture"} /\ Interrupt(t)
       \/ /\ own[t] # "done" /\ Kill(t)
          /\ kind[t] = "helper" \/ (kind[t] = "suite" /\ ~PidInGroup(t))
    /\ UNCHANGED <<signalVars, kind, own, live, canceller, published,
                   stoppedOnly, graceOver, tracked, trees, record, gate>>

\* Every tree asked is done, abandonBound has passed, or hurry closed.
KillAll ==
    /\ Prompt /\ trees = stopping
    /\ StopperGoes("asking", "ending")
    /\ doomed' = [t \in Trees |-> IF t \in trees /\ own[t] # "done"
                                    THEN live[t] ELSE doomed[t]]
    /\ UNCHANGED <<cancelled, again, further, hurry, runDone,
                   forcedExit, exited, late, kind, own, live, told, asks, canceller,
                   published, stoppedOnly, interrupted, graceOver, tracked,
                   trees, stopping, record, gate>>

\* Mutant: the exit takes no gate.
TakeGate_Not ==
    /\ Lives /\ stopper = "gate" /\ gate = "open"
    /\ gate' = "held"
    /\ UNCHANGED <<signalVars, kind, own, live, doomed, told, asks, canceller,
                   published, stoppedOnly, interrupted, graceOver, tracked,
                   trees, stopping, record>>

\* writeGate.end: no other write starts; the one in flight is waited for, for
\* writeBound or until hurry closes.
TakeGate ==
    /\ Lives /\ stopper = "gate"
    /\ \/ gate = "open" /\ gate' = "wanted"
       \/ gate = "wanted" /\ (\A t \in Trees : ~Writing(t)) /\ gate' = "held"
       \/ gate = "wanted" /\ (\E t \in Trees : Writing(t)) /\ gate' = "given up"
    /\ UNCHANGED <<signalVars, kind, own, live, doomed, told, asks, canceller,
                   published, stoppedOnly, interrupted, graceOver, tracked,
                   trees, stopping, record>>

ForcedExit ==
    /\ Lives /\ stopper = "gate" /\ gate \in {"held", "given up"}
    /\ ExitNow
    /\ UNCHANGED <<cancelled, again, stopper, further, hurry,
                   runDone, forcedExit, late, treeVars>>

-----------------------------------------------------------------------------
OwnerCode(t) ==
    \/ StartFails(t) \/ Start(t) \/ Track(t) \/ Cancel(t) \/ TellSuite(t)
    \/ Teardown(t) \/ Reap(t) \/ BeginEnd(t) \/ Untrack(t) \/ Release(t)
    \/ BeginWrite(t) \/ WriteEvents(t)

SignalCode == (StopperCode \/ LockExit) /\ UNCHANGED treeVars

Bounds == (Prompt /\ (WindowPasses \/ ForcedStop)) /\ UNCHANGED treeVars

CliCode ==
    \/ SignalCode \/ Bounds \/ TakeLive \/ KillAll \/ TakeGate \/ ForcedExit
    \/ PipelineEnds \/ (OwnExit /\ UNCHANGED treeVars)

Processes ==
    \E t \in Trees : Publish(t) \/ WriteStdout(t) \/ \E p \in {"root", "suite", "child"} : Exits(t, p)

CliNext ==
    \/ CliCode \/ (FurtherSignal /\ UNCHANGED treeVars)
    \/ \E t \in Trees :
          \/ OwnerCode(t) \/ AskAgain(t) \/ GracePasses(t)
          \/ \E p \in {"root", "suite", "child"} : Dies(t, p)
    \/ Processes \/ (Interrupted /\ UNCHANGED treeVars)
    \/ (~Lives /\ UNCHANGED cliVars)

CliSpec == CliInit /\ [][CliNext]_cliVars

\* Goroutines are scheduled and the bounds of the exit pass.  Nothing is assumed
\* of the processes, not even that a killed one dies, of the reader of stdout or
\* of whoever interrupts, as often as that is.
CliFairness ==
    /\ WF_cliVars(CliCode)
    /\ \A t \in Trees : WF_cliVars(OwnerCode(t)) /\ WF_cliVars(AskAgain(t))

CliFairSpec == CliSpec /\ CliFairness

-----------------------------------------------------------------------------
(* Properties *)

\* No process outlives the command line, whichever way it ends and whenever
\* the second signal came: every process of every tree is gone or was killed
\* (Abandon, abandon.go:44-50; Release, tree.go:161).
NoProcessOutlives ==
    ~Lives => \A t \in Trees : live[t] \subseteq doomed[t]

\* One signal stops a suite gracefully: it is told once, which is what the
\* suite's own watcher takes for the first stop, and it is killed only past
\* its grace; the converter that goes first takes nothing with it.
StopIsGraceful ==
    \A t \in Trees :
        /\ asks[t] > 1 => late \/ graceOver[t]
        /\ kind[t] = "suite" /\ "suite" \in doomed[t] => late \/ graceOver[t]

\* The exit never lands between stdout and the events file, unless a write
\* took longer than its bound, and the run's own exit leaves every event whole.
EventsWhole ==
    /\ exited = "forced" /\ gate = "held" => \A t \in Trees : ~Writing(t)
    /\ exited = "own" => \A t \in Trees : record[t] = "whole"

\* The command line leaves nothing of a run half done: when it has ended, every
\* process of every tree is gone or being killed (Abandon, abandon.go:55), and
\* no event was written to stdout alone (writeGate.end, abandon.go:109).
ExitIsClean == NoProcessOutlives /\ EventsWhole

\* Once the teardown is given up the command line ends, whatever its processes
\* and the reader of its stream do.
GivenUpEnds == GaveUp ~> ~Lives
=============================================================================
