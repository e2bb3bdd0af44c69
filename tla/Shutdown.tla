------------------------------ MODULE Shutdown ------------------------------
(***************************************************************************)
(* The shutdown signals of the command line (cmd/gotest/signals.go).  The  *)
(* first signal cancels the run's context; a second one, past the window   *)
(* in which a launcher's forward of the first arrives, gives the teardown  *)
(* up (last), and exits unless the run ends by itself; a third hurries.    *)
(*                                                                         *)
(* A module that extends this one says what the run does, what last does   *)
(* and what holds the exit off.                                            *)
(***************************************************************************)
EXTENDS Naturals, FiniteSets

VARIABLES
    cancelled,   \* the run's context is done
    again,       \* a signal waits in the channel of capacity one
    stopper,     \* where the goroutine of shutdownContextThen is
    further,     \* where closeOnFurther is
    hurry,       \* hurry is closed
    runDone,     \* the run has ended and called its CancelFunc
    forcedExit,  \* who holds the mutex
    exited,      \* how the process ended, "no" while it lives
    late         \* a signal arrived past the window of the first

signalVars == <<cancelled, again, stopper, further, hurry,
                runDone, forcedExit, exited, late>>

StopperSteps == {"first", "window", "armed", "last", "asking",
                 "ending", "follow", "lock", "gate", "returned"}

ShutdownIn(how) ==
    /\ cancelled = FALSE /\ again = FALSE
    /\ stopper = "first" /\ further = "off" /\ hurry = FALSE
    /\ runDone = FALSE /\ forcedExit = "free" /\ exited = how
    /\ late = FALSE

Lives == exited = "no"

StopperGoes(from, to) == Lives /\ stopper = from /\ stopper' = to

\* A signal, as often as they come: the context's own handler takes every one
\* until the goroutine has installed its channel, which drops what does not fit.
Interrupted ==
    /\ Lives
    /\ IF stopper = "first" THEN cancelled' = TRUE /\ UNCHANGED again
                            ELSE again' = TRUE /\ UNCHANGED cancelled
    /\ late' = (late \/ stopper \notin {"first", "window"})
    /\ UNCHANGED <<stopper, further, hurry, runDone, forcedExit, exited>>

\* The context ended, by a signal or with the run: the second signal is caught
\* before the first handler is let go.
CatchAgain ==
    /\ cancelled /\ StopperGoes("first", "window")
    /\ UNCHANGED <<cancelled, again, further, hurry, runDone,
                   forcedExit, exited, late>>

\* Mutant: a repeat within the window counts.
SecondSignal_NoWindow ==
    /\ Lives /\ again /\ again' = FALSE
    /\ stopper \in {"window", "armed"} /\ stopper' = "last" /\ further' = "window"
    /\ UNCHANGED <<cancelled, hurry, runDone, forcedExit, exited, late>>

\* Within the window it is the first signal, delivered once more.
SecondSignal ==
    /\ Lives /\ again /\ again' = FALSE
    /\ \/ stopper = "window" /\ UNCHANGED <<stopper, further>>
       \/ stopper = "armed" /\ stopper' = "last" /\ further' = "window"
    /\ UNCHANGED <<cancelled, hurry, runDone, forcedExit, exited, late>>

\* The run ends first.
NoSecondSignal ==
    /\ runDone
    /\ StopperGoes("window", "returned") \/ StopperGoes("armed", "returned")
    /\ UNCHANGED <<cancelled, again, further, hurry, runDone,
                   forcedExit, exited, late>>

\* closeOnFurther: a repeat of the second is dropped, a further one hurries.
FurtherSignal ==
    /\ Lives /\ again /\ again' = FALSE
    /\ \/ further = "window" /\ UNCHANGED <<further, hurry>>
       \/ further = "watch" /\ further' = "closed" /\ hurry' = TRUE
    /\ UNCHANGED <<cancelled, stopper, runDone, forcedExit, exited, late>>

\* duplicateWindow passes, after the first signal or after the second.
WindowPasses ==
    /\ Lives /\ ~again
    /\ \/ stopper = "window" /\ stopper' = "armed" /\ UNCHANGED further
       \/ further = "window" /\ further' = "watch" /\ UNCHANGED stopper
    /\ UNCHANGED <<cancelled, again, hurry, runDone, forcedExit,
                   exited, late>>

\* Mutant: the exit waits for the run, however long that takes.
ForcedStop_NoBound ==
    /\ \/ runDone /\ StopperGoes("ending", "follow")
       \/ hurry /\ StopperGoes("ending", "lock")
       \/ hurry /\ StopperGoes("follow", "lock")
    /\ UNCHANGED <<cancelled, again, further, hurry, runDone,
                   forcedExit, exited, late>>

\* forcedStop, once last is over: the run's own end, endBound or hurry; after
\* its own end the run's exit follows, or a further signal ends it.
ForcedStop ==
    /\ \/ runDone /\ StopperGoes("ending", "follow")
       \/ StopperGoes("ending", "lock")
       \/ hurry /\ StopperGoes("follow", "lock")
    /\ UNCHANGED <<cancelled, again, further, hurry, runDone,
                   forcedExit, exited, late>>

LockExit ==
    /\ forcedExit = "free" /\ StopperGoes("lock", "gate")
    /\ forcedExit' = "stop"
    /\ UNCHANGED <<cancelled, again, further, hurry, runDone, exited, late>>

\* The run's deferred CancelFunc: the context ends with the run.
RunEnds ==
    /\ Lives /\ ~runDone
    /\ runDone' = TRUE /\ cancelled' = TRUE
    /\ UNCHANGED <<again, stopper, further, hurry, forcedExit, exited, late>>

\* The run's own exit.
OwnExit ==
    /\ Lives /\ runDone
    /\ exited' = "own"
    /\ UNCHANGED <<cancelled, again, stopper, further, hurry,
                   runDone, forcedExit, late>>

ExitNow == exited' = "forced"

\* What the goroutine of shutdownContextThen does without a clock.
StopperCode == CatchAgain \/ SecondSignal \/ NoSecondSignal

\* The teardown was given up.
GaveUp == stopper \in {"last", "asking", "ending", "follow", "lock",
                       "gate"}
=============================================================================
