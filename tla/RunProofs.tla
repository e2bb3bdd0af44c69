----------------------------- MODULE RunProofs -----------------------------
(***************************************************************************)
(* Theorems about the parts of a run, which share no state: the command    *)
(* line and its process trees (CliStop), the suites' slots, the packages'  *)
(* reports and the exit code (Pipeline), the verdict index (Verdicts), and *)
(* a suite's methods and goroutines (MethodBudget).                        *)
(***************************************************************************)
EXTENDS CliStop, Verdicts, MethodBudget, TLAPS, FiniteSetTheorems, SequenceTheorems,
        WellFoundedInduction

-----------------------------------------------------------------------------
(* The command line *)

Procs == {"root", "suite", "child"}

TreeTypes ==
    /\ kind \in [Trees -> Kinds] /\ own \in [Trees -> Steps]
    /\ live \in [Trees -> SUBSET Procs] /\ doomed \in [Trees -> SUBSET Procs]
    /\ told \in [Trees -> SUBSET Procs] /\ asks \in [Trees -> 0..2]
    /\ canceller \in [Trees -> {"idle", "telling", "over"}]
    /\ published \in [Trees -> BOOLEAN] /\ stoppedOnly \in [Trees -> BOOLEAN]
    /\ interrupted \in [Trees -> BOOLEAN] /\ graceOver \in [Trees -> BOOLEAN]
    /\ record \in [Trees -> {"no", "stdout", "events", "whole"}]

\* What the goroutine of the signals has seen by where it is: past the window
\* a second signal came; from then on no tree is being started, the trees
\* taken are those still tracked, and past KillAll every process is doomed.
SignalTells ==
    /\ stopper # "first" => cancelled
    /\ GaveUp \/ (again /\ stopper = "armed") => late
    /\ GaveUp \/ stopper = "armed" => \A t \in Trees : own[t] # "forked"
    /\ stopper = "asking" => tracked \subseteq trees
    /\ stopper \in {"ending", "follow", "lock", "gate"} =>
          \A t \in Trees : live[t] \subseteq doomed[t]

\* The run is over when every event is written, and the exit's gate is held
\* with nothing in flight.
ExitTells ==
    /\ runDone => \A t \in Trees : record[t] = "whole"
    /\ \A t \in Trees : record[t] # "no" => own[t] = "done"
    /\ exited \in {"no", "own", "forced"}
    /\ exited = "own" => runDone
    /\ exited = "forced" => stopper = "gate"
    /\ gate = "held" => \A t \in Trees : ~Writing(t)

\* How far its owners are says what is left of a tree.
OwnerTells(t) ==
    /\ own[t] = "new" => live[t] = {} /\ ~stoppedOnly[t]
    /\ own[t] \in {"up", "reaped", "lingering"} => t \in tracked
    /\ own[t] \in {"reaped", "lingering", "untracked", "done"} => "root" \notin live[t]
    /\ own[t] = "done" => live[t] \subseteq doomed[t]
    /\ "suite" \in live[t] => kind[t] = "suite"
    /\ canceller[t] = "telling" => own[t] \in {"forked", "up"} /\ kind[t] = "suite"
    /\ told[t] # {} => interrupted[t]

Late(t) == late \/ graceOver[t]

\* A suite is asked by the watch of the context, which is over then; its
\* converter is gone before it only when their group was told, or it is late;
\* a suite stopped alone has its group told before it is untracked.
SuiteTells(t) ==
    kind[t] = "suite" =>
        /\ asks[t] > 1 => Late(t)
        /\ asks[t] > 0 => canceller[t] = "over" \/ Late(t)
        /\ doomed[t] # {} => Late(t) \/ own[t] = "done"
        /\ "suite" \in doomed[t] => Late(t)
        /\ "suite" \in live[t] /\ "root" \notin live[t] => interrupted[t] \/ Late(t)
        /\ stoppedOnly[t] /\ own[t] \in {"lingering", "untracked", "done"} => interrupted[t]
        /\ "suite" \in live[t] /\ own[t] = "untracked" => Late(t)

CliInv ==
    /\ TreeTypes /\ SignalTells /\ ExitTells
    /\ \A t \in Trees : OwnerTells(t) /\ SuiteTells(t)
    /\ \A t \in Trees : kind[t] # "suite" => asks[t] = 0

LEMMA CliInitHolds == CliInit => CliInv
  <1> SUFFICES ASSUME CliInit PROVE CliInv
    OBVIOUS
  <1>1. TreeTypes
    BY DEF CliInit, TreesIn, TreeTypes, Procs, Steps
  <1>2. SignalTells /\ ExitTells
    BY DEF CliInit, TreesIn, ShutdownIn, SignalTells, ExitTells, GaveUp, Writing
  <1>3. \A t \in Trees : OwnerTells(t) /\ SuiteTells(t) /\ asks[t] = 0
    BY DEF CliInit, TreesIn, OwnerTells, SuiteTells
  <1> QED BY <1>1, <1>2, <1>3 DEF CliInv

USE DEF Set, Lives

\* What a signal to a tree may change.
GroupTypes ==
    /\ doomed \in [Trees -> SUBSET Procs] /\ told \in [Trees -> SUBSET Procs]
    /\ asks \in [Trees -> 0..2] /\ interrupted \in [Trees -> BOOLEAN]

LEMMA SignalTypes ==
    ASSUME TreeTypes, NEW t \in Trees,
           Interrupt(t) \/ Kill(t) \/ SignalSuite(t) \/ NoGroupSignal
    PROVE  GroupTypes'
  <1> USE DEF TreeTypes, GroupTypes
  <1>1. CASE Interrupt(t)
    <2>1. asks' \in [Trees -> 0..2]
      BY <1>1 DEF Interrupt
    <2>2. told' \in [Trees -> SUBSET Procs]
      BY <1>1 DEF Interrupt
    <2> QED BY <1>1, <2>1, <2>2 DEF Interrupt
  <1>2. CASE Kill(t)
    BY <1>2 DEF Kill
  <1>3. CASE SignalSuite(t)
    BY <1>3 DEF SignalSuite
  <1>4. CASE NoGroupSignal
    BY <1>4 DEF NoGroupSignal
  <1> QED BY <1>1, <1>2, <1>3, <1>4

LEMMA TypesKept == TreeTypes /\ [CliNext]_cliVars => TreeTypes'
  <1> SUFFICES ASSUME TreeTypes, CliNext PROVE TreeTypes'
    BY DEF cliVars, treeVars, TreeTypes
  <1> USE DEF TreeTypes, Steps, OwnGoes
  <1>1. ASSUME NEW t \in Trees, NEW p, Exits(t, p) \/ Dies(t, p) PROVE TreeTypes'
    BY <1>1 DEF Exits, Dies
  <1>2. ASSUME NEW t \in Trees, StartFails(t) \/ Start(t) \/ Track(t) \/ Publish(t)
        PROVE  TreeTypes'
    <2>1. CASE Start(t)
      BY <2>1 DEF Start, Procs
    <2> QED BY <1>2, <2>1 DEF StartFails, Track, Publish
  <1>3. ASSUME NEW t \in Trees, Cancel(t) PROVE TreeTypes'
    <2>1. GroupTypes'
      BY <1>3, SignalTypes DEF Cancel
    <2>2. canceller' \in [Trees -> {"idle", "telling", "over"}]
      BY <1>3 DEF Cancel
    <2> QED BY <1>3, <2>1, <2>2 DEF Cancel, GroupTypes
  <1>4. ASSUME NEW t \in Trees, TellSuite(t) PROVE TreeTypes'
    <2>1. GroupTypes'
      BY <1>4, SignalTypes DEF TellSuite
    <2> QED BY <1>4, <2>1 DEF TellSuite, GroupTypes
  <1>5. ASSUME NEW t \in Trees, GracePasses(t) PROVE TreeTypes'
    <2>1. GroupTypes'
      <3>1. CASE Kill(t)
        BY <3>1, SignalTypes
      <3>2. CASE doomed' = Set(doomed, t, doomed[t] \cup {"root"})
                   /\ UNCHANGED <<interrupted, told, asks>>
        BY <3>2 DEF GroupTypes, Procs
      <3> QED BY <1>5, <3>1, <3>2 DEF GracePasses
    <2> QED BY <1>5, <2>1 DEF GracePasses, GroupTypes
  <1>6. ASSUME NEW t \in Trees, Teardown(t) \/ AskAgain(t) PROVE TreeTypes'
    <2>1. GroupTypes'
      BY <1>6, SignalTypes DEF Teardown, AskAgain
    <2> QED BY <1>6, <2>1 DEF Teardown, AskAgain, GroupTypes
  <1>7. ASSUME NEW t \in Trees, Reap(t) PROVE TreeTypes'
    BY <1>7 DEF Reap
  <1>8. ASSUME NEW t \in Trees, BeginEnd(t) \/ Untrack(t) \/ Release(t) PROVE TreeTypes'
    <2>1. GroupTypes'
      BY <1>8, SignalTypes DEF BeginEnd, Untrack, Release
    <2>2. own' \in [Trees -> Steps]
      BY <1>8 DEF BeginEnd, Untrack, Release
    <2> QED BY <1>8, <2>1, <2>2 DEF BeginEnd, Untrack, Release, GroupTypes
  <1>9. ASSUME NEW t \in Trees, BeginWrite(t) \/ WriteStdout(t) \/ WriteEvents(t) PROVE TreeTypes'
    BY <1>9 DEF BeginWrite, WriteStdout, WriteEvents
  <1>10. CASE KillAll
    BY <1>10 DEF KillAll
  <1>11. CASE UNCHANGED <<kind, own, live, doomed, told, asks, canceller, published, stoppedOnly,
                          interrupted, graceOver, record>>
    BY <1>11
  <1>12. CASE CliCode \/ UNCHANGED treeVars
    BY <1>10, <1>11, <1>12
       DEF CliCode, SignalCode, Bounds, TakeLive, TakeGate, ForcedExit, PipelineEnds, treeVars
  <1> QED
    BY <1>1, <1>2, <1>3, <1>4, <1>5, <1>6, <1>7, <1>8, <1>9, <1>12
       DEF CliNext, OwnerCode, Processes, cliVars

\* A signal to a tree is on record when it went to the group, and dooms what
\* was doomed again.
LEMMA SignalOnRecord ==
    ASSUME TreeTypes, NEW t \in Trees, NEW o \in Trees, told[o] # {} => interrupted[o],
           Interrupt(t) \/ Kill(t) \/ SignalSuite(t) \/ NoGroupSignal
    PROVE  /\ told'[o] # {} => interrupted'[o]
           /\ live[o] \subseteq doomed[o] => live[o] \subseteq doomed'[o]
  BY DEF TreeTypes, Interrupt, Kill, SignalSuite, NoGroupSignal

LEMMA OwnerKept ==
    ASSUME TreeTypes, NEW o \in Trees, OwnerTells(o), [CliNext]_cliVars
    PROVE  OwnerTells(o)'
  <1> SUFFICES ASSUME CliNext PROVE OwnerTells(o)'
    BY DEF cliVars, treeVars, OwnerTells
  <1> USE DEF TreeTypes, OwnerTells, OwnGoes
  <1>1. ASSUME NEW t \in Trees, NEW p, Exits(t, p) \/ Dies(t, p) PROVE OwnerTells(o)'
    BY <1>1 DEF Exits, Dies
  <1>2. ASSUME NEW t \in Trees, StartFails(t) \/ Start(t) \/ Track(t) \/ Publish(t) \/ Reap(t)
        PROVE  OwnerTells(o)'
    BY <1>2 DEF StartFails, Start, Track, Publish, Reap
  <1>3. ASSUME NEW t \in Trees, Cancel(t) PROVE OwnerTells(o)'
    <2>1. /\ told'[o] # {} => interrupted'[o]
          /\ live[o] \subseteq doomed[o] => live[o] \subseteq doomed'[o]
      BY <1>3, SignalOnRecord DEF Cancel
    <2> QED BY <1>3, <2>1 DEF Cancel
  <1>4. ASSUME NEW t \in Trees, TellSuite(t) PROVE OwnerTells(o)'
    <2>1. /\ told'[o] # {} => interrupted'[o]
          /\ live[o] \subseteq doomed[o] => live[o] \subseteq doomed'[o]
      BY <1>4, SignalOnRecord DEF TellSuite
    <2> QED BY <1>4, <2>1 DEF TellSuite
  <1>5. ASSUME NEW t \in Trees, GracePasses(t) PROVE OwnerTells(o)'
    <2>1. /\ told'[o] # {} => interrupted'[o]
          /\ live[o] \subseteq doomed[o] => live[o] \subseteq doomed'[o]
      <3>1. CASE Kill(t)
        BY <3>1, SignalOnRecord
      <3>2. CASE doomed' = Set(doomed, t, doomed[t] \cup {"root"})
                   /\ UNCHANGED <<interrupted, told, asks>>
        BY <3>2
      <3> QED BY <1>5, <3>1, <3>2 DEF GracePasses
    <2> QED BY <1>5, <2>1 DEF GracePasses
  <1>6. ASSUME NEW t \in Trees, Teardown(t) \/ AskAgain(t) PROVE OwnerTells(o)'
    <2>1. /\ told'[o] # {} => interrupted'[o]
          /\ live[o] \subseteq doomed[o] => live[o] \subseteq doomed'[o]
      BY <1>6, SignalOnRecord DEF Teardown, AskAgain
    <2> QED BY <1>6, <2>1 DEF Teardown, AskAgain
  <1>7. ASSUME NEW t \in Trees, BeginEnd(t) \/ Untrack(t) PROVE OwnerTells(o)'
    <2>1. /\ told'[o] # {} => interrupted'[o]
          /\ live[o] \subseteq doomed[o] => live[o] \subseteq doomed'[o]
      BY <1>7, SignalOnRecord DEF BeginEnd, Untrack
    <2> QED BY <1>7, <2>1 DEF BeginEnd, Untrack
  <1>8. ASSUME NEW t \in Trees, Release(t) PROVE OwnerTells(o)'
    <2>1. /\ told'[o] # {} => interrupted'[o]
          /\ live[o] \subseteq doomed[o] => live[o] \subseteq doomed'[o]
      BY <1>8, SignalOnRecord DEF Release
    <2>2. live[t] \subseteq doomed'[t]
      BY <1>8 DEF Release, Kill
    <2> QED BY <1>8, <2>1, <2>2 DEF Release
  <1>9. CASE KillAll
    BY <1>9 DEF KillAll
  <1>10. CASE UNCHANGED <<kind, own, live, doomed, told, canceller, stoppedOnly, interrupted, tracked>>
    BY <1>10
  <1>11. ASSUME NEW t \in Trees, BeginWrite(t) \/ WriteStdout(t) \/ WriteEvents(t)
         PROVE  OwnerTells(o)'
    BY <1>10, <1>11 DEF BeginWrite, WriteStdout, WriteEvents
  <1>12. CASE CliCode \/ UNCHANGED treeVars
    BY <1>9, <1>10, <1>12
       DEF CliCode, SignalCode, Bounds, TakeLive, TakeGate, ForcedExit, PipelineEnds, treeVars
  <1> QED
    BY <1>1, <1>2, <1>3, <1>4, <1>5, <1>6, <1>7, <1>8, <1>11, <1>12
       DEF CliNext, OwnerCode, Processes, cliVars

\* The exit: it is taken by the run when all is written, or by the second
\* signal, which waits for the write in flight.
LEMMA ExitKept ==
    ASSUME TreeTypes, ExitTells, [CliNext]_cliVars
    PROVE  ExitTells'
  <1> SUFFICES ASSUME CliNext PROVE ExitTells'
    BY DEF cliVars, treeVars, signalVars, ExitTells, Writing
  <1> USE DEF TreeTypes, ExitTells, OwnGoes, Writing
  <1>1. CASE UNCHANGED <<own, record, gate, runDone, exited, stopper>>
    BY <1>1
  <1>2. ASSUME NEW t \in Trees, BeginWrite(t) \/ WriteStdout(t) \/ WriteEvents(t)
        PROVE  ExitTells'
    BY <1>2 DEF BeginWrite, WriteStdout, WriteEvents, signalVars
  <1>3. ASSUME NEW t \in Trees,
               StartFails(t) \/ Start(t) \/ Track(t) \/ Reap(t) \/ BeginEnd(t) \/ Untrack(t) \/ Release(t)
        PROVE  ExitTells'
    BY <1>3 DEF StartFails, Start, Track, Reap, BeginEnd, Untrack, Release, signalVars
  <1>4. CASE PipelineEnds
    BY <1>4 DEF PipelineEnds, RunEnds, treeVars
  <1>5. CASE OwnExit /\ UNCHANGED treeVars
    BY <1>5 DEF OwnExit, treeVars
  <1>6. CASE TakeGate
    BY <1>6 DEF TakeGate, signalVars
  <1>7. CASE ForcedExit
    BY <1>7 DEF ForcedExit, ExitNow, treeVars
  <1>8. CASE UNCHANGED <<own, record, gate, runDone, exited>> /\ exited = "no"
    BY <1>8
  <1>9. CASE CliCode
    BY <1>4, <1>5, <1>6, <1>7, <1>8, <1>9
       DEF CliCode, SignalCode, StopperCode, Bounds, CatchAgain, SecondSignal, NoSecondSignal,
           WindowPasses, ForcedStop, LockExit, TakeLive, KillAll, StopperGoes, treeVars
  <1>10. CASE (FurtherSignal \/ Interrupted) /\ UNCHANGED treeVars
    BY <1>8, <1>10 DEF FurtherSignal, Interrupted, treeVars
  <1>11. ASSUME NEW t \in Trees, NEW p,
                \/ Exits(t, p) \/ Dies(t, p) \/ Publish(t) \/ Cancel(t) \/ TellSuite(t)
                \/ GracePasses(t) \/ Teardown(t) \/ AskAgain(t)
         PROVE  ExitTells'
    BY <1>1, <1>11
       DEF Exits, Dies, Publish, Cancel, TellSuite, GracePasses, Teardown, AskAgain, signalVars
  <1>12. CASE UNCHANGED cliVars
    BY <1>1, <1>12 DEF cliVars, signalVars, treeVars
  <1> QED
    BY <1>2, <1>3, <1>9, <1>10, <1>11, <1>12 DEF CliNext, OwnerCode, Processes

\* The second signal: nothing is forked past its window, so the trees still
\* tracked are all that run.
LEMMA SignalKept ==
    ASSUME TreeTypes, SignalTells, \A t \in Trees : OwnerTells(t), [CliNext]_cliVars
    PROVE  SignalTells'
  <1> SUFFICES ASSUME CliNext PROVE SignalTells'
    BY DEF cliVars, treeVars, signalVars, SignalTells, GaveUp
  <1> USE DEF TreeTypes, SignalTells, GaveUp
  <1>1. CASE (Interrupted \/ FurtherSignal) /\ UNCHANGED treeVars
    BY <1>1 DEF Interrupted, FurtherSignal, treeVars
  <1>2. CASE SignalCode
    BY <1>2
       DEF SignalCode, StopperCode, CatchAgain, SecondSignal, NoSecondSignal, LockExit, StopperGoes,
           treeVars
  <1>3. CASE Bounds
    BY <1>3 DEF Bounds, Prompt, WindowPasses, ForcedStop, StopperGoes, treeVars
  <1>4. CASE TakeLive
    BY <1>4 DEF TakeLive, StopperGoes
  <1>5. CASE KillAll
    <2>1. \A t \in Trees : live[t] \subseteq doomed'[t]
      BY <1>5 DEF KillAll, Prompt, StopperGoes, OwnerTells, Steps
    <2> QED BY <1>5, <2>1 DEF KillAll, StopperGoes
  <1>6. CASE TakeGate \/ ForcedExit \/ PipelineEnds \/ (OwnExit /\ UNCHANGED treeVars)
    <2>1. UNCHANGED <<again, stopper, late, own, live, doomed, tracked, trees>>
      BY <1>6 DEF TakeGate, ForcedExit, ExitNow, PipelineEnds, RunEnds, OwnExit, signalVars, treeVars
    <2>2. cancelled => cancelled'
      BY <1>6 DEF TakeGate, ForcedExit, ExitNow, PipelineEnds, RunEnds, OwnExit, signalVars, treeVars
    <2> QED BY <2>1, <2>2
  <1>7. ASSUME NEW t \in Trees, NEW p,
               Exits(t, p) \/ Dies(t, p) \/ Publish(t) \/ StartFails(t) \/ Start(t) \/ Track(t)
               \/ Reap(t) \/ BeginWrite(t) \/ WriteStdout(t) \/ WriteEvents(t)
        PROVE  SignalTells'
    <2>1. UNCHANGED <<signalVars, doomed, trees>>
      BY <1>7
         DEF Exits, Dies, Publish, StartFails, Start, Track, Reap, BeginWrite, WriteStdout, WriteEvents
    <2>2. CASE Start(t)
      BY <2>1, <2>2 DEF Start, OwnGoes, signalVars
    <2>3. CASE Track(t)
      BY <2>1, <2>3 DEF Track, OwnGoes, signalVars
    <2>4. CASE Exits(t, p) \/ Dies(t, p)
      BY <2>1, <2>4 DEF Exits, Dies, signalVars
    <2>5. CASE Publish(t) \/ StartFails(t) \/ Reap(t) \/ BeginWrite(t) \/ WriteStdout(t) \/ WriteEvents(t)
      BY <2>1, <2>5
         DEF Publish, StartFails, Reap, BeginWrite, WriteStdout, WriteEvents, OwnGoes, signalVars
    <2> QED BY <1>7, <2>2, <2>3, <2>4, <2>5
  <1>8. ASSUME NEW t \in Trees,
               Cancel(t) \/ TellSuite(t) \/ GracePasses(t) \/ Teardown(t) \/ AskAgain(t)
               \/ BeginEnd(t) \/ Untrack(t) \/ Release(t)
        PROVE  SignalTells'
    <2>1. ASSUME NEW o \in Trees PROVE live[o] \subseteq doomed[o] => live[o] \subseteq doomed'[o]
      <3>1. CASE doomed' = Set(doomed, t, doomed[t] \cup {"root"})
        BY <3>1
      <3>2. CASE Interrupt(t) \/ Kill(t) \/ SignalSuite(t) \/ NoGroupSignal
        BY <3>2, SignalOnRecord DEF OwnerTells
      <3> QED
        BY <1>8, <3>1, <3>2
           DEF Cancel, TellSuite, GracePasses, Teardown, AskAgain, BeginEnd, Untrack, Release
    <2>2. UNCHANGED <<signalVars, live, trees>> /\ tracked' \subseteq tracked
      BY <1>8 DEF Cancel, TellSuite, GracePasses, Teardown, AskAgain, BeginEnd, Untrack, Release
    <2>3. \A o \in Trees : own'[o] = "forked" => own[o] = "forked"
      BY <1>8
         DEF Cancel, TellSuite, GracePasses, Teardown, AskAgain, BeginEnd, Untrack, Release, OwnGoes
    <2> QED BY <2>1, <2>2, <2>3 DEF signalVars
  <1>9. CASE UNCHANGED cliVars
    BY <1>9 DEF cliVars, signalVars, treeVars
  <1> QED
    BY <1>1, <1>2, <1>3, <1>4, <1>5, <1>6, <1>7, <1>8, <1>9
       DEF CliNext, CliCode, OwnerCode, Processes

\* What a suite was asked and why: the only signal to its group before it is
\* late is the one of a stop, and that leaves it its grace.
LEMMA SuiteKept ==
    ASSUME TreeTypes, SignalTells, NEW o \in Trees, OwnerTells(o), SuiteTells(o), [CliNext]_cliVars
    PROVE  SuiteTells(o)'
  <1> SUFFICES ASSUME CliNext PROVE SuiteTells(o)'
    BY DEF cliVars, treeVars, signalVars, SuiteTells, Late
  <1> USE DEF TreeTypes, SuiteTells, Late
  <1>1. ASSUME UNCHANGED treeVars, late => late' PROVE SuiteTells(o)'
    BY <1>1 DEF treeVars
  <1>2. ASSUME NEW t \in Trees \ {o}, OwnerCode(t) \/ AskAgain(t) \/ GracePasses(t)
        PROVE  SuiteTells(o)'
    BY <1>2
       DEF OwnerCode, StartFails, Start, Track, Cancel, TellSuite, Teardown, Reap, BeginEnd, Untrack,
           Release, BeginWrite, WriteEvents, AskAgain, GracePasses, OwnGoes, signalVars, Interrupt,
           Kill, NoGroupSignal, SignalSuite
  <1>3. ASSUME NEW t \in Trees, NEW p, Exits(t, p) \/ Dies(t, p) \/ Publish(t) \/ WriteStdout(t)
        PROVE  SuiteTells(o)'
    BY <1>3 DEF Exits, Dies, Publish, WriteStdout, signalVars, OwnerTells
  <1>4. CASE StartFails(o) \/ Start(o) \/ Track(o) \/ Reap(o)
    <2>1. CASE Start(o)
      BY <2>1 DEF Start, OwnGoes, signalVars, OwnerTells
    <2>2. CASE Reap(o)
      BY <2>2 DEF Reap, OwnGoes, signalVars, OwnerTells
    <2> QED BY <1>4, <2>1, <2>2 DEF StartFails, Track, OwnGoes, signalVars, OwnerTells
  <1>5. CASE Cancel(o)
    BY <1>5 DEF Cancel, Kill, Interrupt, NoGroupSignal, signalVars, OwnerTells
  <1>6. CASE TellSuite(o)
    BY <1>6 DEF TellSuite, Interrupt, SignalSuite, signalVars, OwnerTells
  <1>7. CASE Teardown(o)
    BY <1>7 DEF Teardown, Interrupt, signalVars
  <1>8. CASE BeginEnd(o)
    BY <1>8 DEF BeginEnd, OwnGoes, Interrupt, NoGroupSignal, signalVars, OwnerTells
  <1>9. CASE Untrack(o)
    BY <1>9 DEF Untrack, OwnGoes, Kill, NoGroupSignal, signalVars, OwnerTells
  <1>10. CASE Release(o)
    BY <1>10 DEF Release, OwnGoes, Kill, signalVars, OwnerTells
  <1>11. CASE BeginWrite(o) \/ WriteEvents(o)
    BY <1>11 DEF BeginWrite, WriteEvents, signalVars
  <1>12. CASE AskAgain(o)
    BY <1>12 DEF AskAgain, SignalTells, GaveUp, Interrupt, Kill, NoGroupSignal, SignalSuite, signalVars
  <1>13. CASE GracePasses(o)
    BY <1>13 DEF GracePasses, Kill, signalVars
  <1>14. CASE KillAll
    BY <1>14 DEF KillAll, SignalTells, GaveUp, StopperGoes
  <1>15. ASSUME UNCHANGED <<kind, own, live, doomed, asks, canceller, stoppedOnly, interrupted, graceOver>>,
                late => late'
         PROVE  SuiteTells(o)'
    BY <1>15
  <1>16. CASE CliCode
    BY <1>14, <1>15, <1>16
       DEF CliCode, SignalCode, StopperCode, Bounds, CatchAgain, SecondSignal, NoSecondSignal,
           WindowPasses, ForcedStop, LockExit, TakeLive, TakeGate, ForcedExit, PipelineEnds, RunEnds,
           OwnExit, signalVars, treeVars
  <1>17. CASE (FurtherSignal \/ Interrupted \/ UNCHANGED signalVars) /\ UNCHANGED treeVars
    BY <1>1, <1>17 DEF FurtherSignal, Interrupted, signalVars
  <1> QED
    BY <1>2, <1>3, <1>4, <1>5, <1>6, <1>7, <1>8, <1>9, <1>10, <1>11, <1>12, <1>13, <1>16, <1>17
       DEF CliNext, OwnerCode, Processes, cliVars

\* Nothing but a suite is asked.
LEMMA OthersKept ==
    ASSUME TreeTypes, NEW o \in Trees, OwnerTells(o), kind[o] # "suite" => asks[o] = 0,
           [CliNext]_cliVars
    PROVE  kind'[o] # "suite" => asks'[o] = 0
  <1> SUFFICES ASSUME CliNext PROVE kind'[o] # "suite" => asks'[o] = 0
    BY DEF cliVars, treeVars
  <1> DEFINE Asked(t) == \/ Interrupt(t) \/ Kill(t) \/ NoGroupSignal \/ UNCHANGED asks
                         \/ SignalSuite(t) /\ "suite" \in live[t]
  <1>1. ASSUME NEW t \in Trees, Asked(t) PROVE asks'[o] = asks[o] \/ kind[o] = "suite"
    BY <1>1 DEF Interrupt, Kill, NoGroupSignal, SignalSuite, TreeTypes, OwnerTells
  <1>2. CASE CliCode
    <2>1. kind' = kind /\ asks' = asks
      <3>1. CASE SignalCode \/ Bounds \/ PipelineEnds \/ (OwnExit /\ UNCHANGED treeVars)
        BY <3>1 DEF SignalCode, Bounds, PipelineEnds, treeVars
      <3>2. CASE TakeLive \/ KillAll
        BY <3>2 DEF TakeLive, KillAll
      <3>3. CASE TakeGate \/ ForcedExit
        BY <3>3 DEF TakeGate, ForcedExit, treeVars
      <3> QED BY <1>2, <3>1, <3>2, <3>3 DEF CliCode
    <2> QED BY <2>1
  <1>3. ASSUME NEW t \in Trees, OwnerCode(t) PROVE kind' = kind /\ Asked(t)
    <2>1. CASE StartFails(t) \/ Start(t) \/ Track(t) \/ Cancel(t)
      BY <2>1 DEF StartFails, Start, Track, Cancel
    <2>2. CASE TellSuite(t) \/ Teardown(t) \/ Reap(t) \/ BeginEnd(t)
      BY <2>2 DEF TellSuite, Teardown, Reap, BeginEnd, PidInGroup
    <2>3. CASE Untrack(t) \/ Release(t) \/ BeginWrite(t) \/ WriteEvents(t)
      BY <2>3 DEF Untrack, Release, BeginWrite, WriteEvents
    <2> QED BY <1>3, <2>1, <2>2, <2>3 DEF OwnerCode
  <1>4. ASSUME NEW t \in Trees, AskAgain(t) \/ GracePasses(t) PROVE kind' = kind /\ Asked(t)
    BY <1>4 DEF AskAgain, GracePasses, PidInGroup
  <1>5. ASSUME NEW t \in Trees, \E p \in {"root", "suite", "child"} : Dies(t, p)
        PROVE  kind' = kind /\ asks' = asks
    BY <1>5 DEF Dies
  <1>6. CASE Processes
    <2>1. kind' = kind /\ asks' = asks
      BY <1>6 DEF Processes, Publish, WriteStdout, Exits
    <2> QED BY <2>1
  <1>7. CASE UNCHANGED treeVars
    <2>1. kind' = kind /\ asks' = asks
      BY <1>7 DEF treeVars
    <2> QED BY <2>1
  <1>8. CASE UNCHANGED cliVars
    BY <1>7, <1>8 DEF cliVars
  <1> HIDE DEF Asked
  <1>9. ASSUME NEW t \in Trees, kind' = kind, Asked(t) \/ asks' = asks
        PROVE  kind'[o] # "suite" => asks'[o] = 0
    BY <1>1, <1>9
  <1> QED BY <1>2, <1>3, <1>4, <1>5, <1>6, <1>7, <1>8, <1>9 DEF CliNext

LEMMA CliStep == CliInv /\ [CliNext]_cliVars => CliInv'
  <1> SUFFICES ASSUME CliInv, [CliNext]_cliVars PROVE CliInv'
    OBVIOUS
  <1> USE DEF CliInv
  <1>1. TreeTypes' /\ ExitTells' /\ SignalTells'
    BY TypesKept, ExitKept, SignalKept
  <1>2. ASSUME NEW t \in Trees PROVE OwnerTells(t)' /\ SuiteTells(t)'
    BY OwnerKept, SuiteKept
  <1>3. ASSUME NEW t \in Trees PROVE kind'[t] # "suite" => asks'[t] = 0
    BY OthersKept
  <1> QED BY <1>1, <1>2, <1>3

LEMMA CliInvHolds == CliSpec => []CliInv
  BY CliInitHolds, CliStep, PTL DEF CliSpec

\* Whichever way the command line ends, and whenever the second signal came,
\* every process of every tree is gone or was killed, and no event is left in
\* stdout alone: for any number of trees, of signals, and of processes that
\* ignore what they are told (Abandon, abandon.go; Release, tree.go).
THEOREM EveryExitIsClean == CliSpec => []ExitIsClean
  <1>1. CliInv => NoProcessOutlives
    BY DEF CliInv, ExitTells, SignalTells, OwnerTells, NoProcessOutlives
  <1>2. CliInv => EventsWhole
    BY DEF CliInv, ExitTells, EventsWhole
  <1> QED BY <1>1, <1>2, CliInvHolds, PTL DEF ExitIsClean

\* A suite that got one signal of the stop is killed only past its grace, and
\* told twice only after a second signal: the converter in front of it, the end
\* of its tree and its release add nothing (suiterun.go, managed_process.go).
THEOREM StopsAreGraceful == CliSpec => []StopIsGraceful
  <1>1. CliInv => StopIsGraceful
    BY DEF CliInv, TreeTypes, SuiteTells, Late, StopIsGraceful
  <1> QED BY <1>1, CliInvHolds, PTL
-----------------------------------------------------------------------------
(* The suites' way to their slots *)

Through == {"out", "over"}
StartedOrQueued(s) == at[s] \in {"queued", "running"}

PipelineShape ==
    /\ at \in [RunSuites -> {"out", "waiting", "queued", "deferred", "running", "over"}]
    /\ bench \in BOOLEAN /\ planned \subseteq RunSuites
    /\ stage \in IF bench THEN {"prepare", "bench", "teardown", "returned"}
                          ELSE {"stream", "drain", "scopes", "teardown", "returned"}
    /\ \A s \in RunSuites : at[s] # "out" => s \in planned
    /\ Cardinality(Running) <= MaxParallel

\* Who may be in a slot, by the stage of the run: in the stream the default
\* group without its exclusive suites; then one scope, whose exclusive suites
\* start once its bulk is over and those before them are; in a bench run one.
StageTells ==
    /\ stage \in {"stream", "drain"} =>
          \A s \in RunSuites : at[s] = "waiting" \/ StartedOrQueued(s) => ~Defers(s)
    /\ stage \notin {"stream", "drain"} => \A s \in RunSuites : at[s] # "waiting"
    /\ stage = "scopes" =>
          \A s \in RunSuites :
             /\ StartedOrQueued(s) => GroupOf[s] = scopeAt
             /\ at[s] = "queued" => s \notin Exclusive
             /\ at[s] = "running" /\ s \in Exclusive =>
                   /\ BulkOver(scopeAt)
                   /\ \A r \in TailOf(scopeAt) : r < s => at[r] \in Through
    /\ stage = "prepare" => \A s \in RunSuites : at[s] = "out"
    /\ stage = "bench" =>
          /\ \A s \in RunSuites : at[s] # "queued"
          /\ \A s, r \in Running : s = r
    /\ stage \in {"teardown", "returned"} => \A s \in RunSuites : ~StartedOrQueued(s)

PipelineInv == PipelineShape /\ StageTells

LEMMA SuitesAreFinite == IsFiniteSet(RunSuites) /\ RunSuites \subseteq Int
  BY FS_Interval, PipelineAssumption DEF RunSuites

\* The slots: some of those taken, one more than them, or one alone.
LEMMA SlotsFreed ==
    ASSUME NEW A \in SUBSET RunSuites, NEW B \in SUBSET A, Cardinality(A) <= MaxParallel
    PROVE  Cardinality(B) <= MaxParallel
  <1>1. IsFiniteSet(A) /\ Cardinality(A) \in Nat
    BY SuitesAreFinite, FS_Subset, FS_CardinalityType
  <1>2. Cardinality(B) <= Cardinality(A) /\ Cardinality(B) \in Nat
    BY <1>1, FS_Subset, FS_CardinalityType
  <1> QED BY <1>1, <1>2, PipelineAssumption

LEMMA SlotsCounted ==
    ASSUME NEW A \in SUBSET RunSuites, NEW B \in SUBSET RunSuites, NEW s \in RunSuites,
           B \subseteq A \/ (B \subseteq A \cup {s} /\ Cardinality(A) < MaxParallel),
           Cardinality(A) <= MaxParallel
    PROVE  Cardinality(B) <= MaxParallel
  <1>1. IsFiniteSet(A) /\ Cardinality(A) \in Nat
    BY SuitesAreFinite, FS_Subset, FS_CardinalityType
  <1>2. IsFiniteSet(A \cup {s}) /\ Cardinality(A \cup {s}) <= Cardinality(A) + 1
    BY <1>1, FS_AddElement
  <1>3. Cardinality(A \cup {s}) \in Nat
    BY <1>2, FS_CardinalityType
  <1>4. CASE B \subseteq A
    BY <1>4, SlotsFreed
  <1>5. CASE B \subseteq A \cup {s} /\ Cardinality(A) < MaxParallel
    <2>1. Cardinality(B) <= Cardinality(A \cup {s}) /\ Cardinality(B) \in Nat
      BY <1>2, <1>5, FS_Subset, FS_CardinalityType
    <2> QED BY <1>1, <1>2, <1>3, <1>5, <2>1, PipelineAssumption
  <1> QED BY <1>4, <1>5

LEMMA OneSlot == \A s : Cardinality({s}) <= MaxParallel
  <1>1. \A s : Cardinality({s}) = 1
    BY FS_Singleton
  <1> QED BY <1>1, PipelineAssumption

LEMMA PipelineInitHolds == PipelineInit => PipelineInv
  <1> SUFFICES ASSUME PipelineInit PROVE PipelineInv
    OBVIOUS
  <1>1. PICK where : /\ PipelineIn(where, "none")
                     /\ \/ where = "prepare" /\ bench
                        \/ where = "stream" /\ ~bench
    BY DEF PipelineInit
  <1>2. /\ at = [s \in RunSuites |-> "out"] /\ bench \in BOOLEAN /\ stage = where
        /\ planned \in Selections
    BY <1>1 DEF PipelineIn
  <1>3. Running = {}
    BY <1>2 DEF Running
  <1>4. Cardinality(Running) <= MaxParallel
    BY <1>3, FS_EmptySet, PipelineAssumption
  <1>5. PipelineShape
    BY <1>1, <1>2, <1>4, PipelineAssumption DEF PipelineShape
  <1>6. StageTells
    BY <1>1, <1>2 DEF StageTells, StartedOrQueued
  <1> QED BY <1>5, <1>6 DEF PipelineInv

USE DEF PipelineShape, StageTells, PipelineInv

\* Every suite that a step ends, or leaves where it is, keeps the rest apart.
LEMMA EndingKeeps ==
    ASSUME PipelineInv, NEW s \in RunSuites, NEW v \in {"over", "same"},
           at' = IF v = "over" THEN [at EXCEPT ![s] = "over"] ELSE at,
           at[s] # "out" \/ v = "same",
           UNCHANGED <<bench, planned, stage, scopeAt>>
    PROVE  PipelineInv'
  <1> USE DEF StartedOrQueued, Running, Through, Defers, Streamed, Groups, BulkOver, BulkOf, TailOf
  <1>1. \A r \in RunSuites : at'[r] = at[r] \/ (at'[r] = "over" /\ at[r] # "out")
    OBVIOUS
  <1>2. Running' \subseteq Running
    BY <1>1
  <1>3. Cardinality(Running') <= MaxParallel
    BY <1>2, SlotsCounted
  <1>4. PipelineShape'
    BY <1>1, <1>3
  <1>5. StageTells'
    <2>1. \A r \in RunSuites : StartedOrQueued(r)' => StartedOrQueued(r)
      BY <1>1
    <2>2. ASSUME stage \in {"stream", "drain"}
          PROVE  \A r \in RunSuites : at'[r] = "waiting" \/ StartedOrQueued(r)' => ~Defers(r)'
      <3>1. \A r \in RunSuites : Defers(r)' <=> Defers(r)
        OBVIOUS
      <3>2. \A r \in RunSuites : at'[r] = "waiting" => at[r] = "waiting"
        BY <1>1
      <3> HIDE DEF Defers, StartedOrQueued
      <3>3. \A r \in RunSuites : at[r] = "waiting" \/ StartedOrQueued(r) => ~Defers(r)
        BY <2>2
      <3> QED BY <2>1, <3>1, <3>2, <3>3
    <2>3. ASSUME stage = "scopes"
          PROVE  \A r \in RunSuites :
                    /\ StartedOrQueued(r)' => GroupOf[r] = scopeAt
                    /\ at'[r] = "queued" => r \notin Exclusive
                    /\ at'[r] = "running" /\ r \in Exclusive =>
                          /\ BulkOver(scopeAt)'
                          /\ \A q \in TailOf(scopeAt)' : q < r => at'[q] \in Through
      BY <1>1, <2>1, <2>3
    <2>4. ASSUME stage = "bench"
          PROVE  (\A r \in RunSuites : at'[r] # "queued") /\ \A r, q \in Running' : r = q
      BY <1>1, <1>2, <2>4
    <2>5. ASSUME stage \in {"prepare", "teardown", "returned"}
          PROVE  /\ stage = "prepare" => \A r \in RunSuites : at'[r] = "out"
                 /\ stage # "prepare" => \A r \in RunSuites : ~StartedOrQueued(r)'
      BY <1>1, <2>1, <2>5
    <2>6. stage \notin {"stream", "drain"} => \A r \in RunSuites : at'[r] # "waiting"
      BY <1>1
    <2> QED BY <2>2, <2>3, <2>4, <2>5, <2>6
  <1> QED BY <1>4, <1>5

LEMMA PipelineStep == PipelineInv /\ [PipelineNext]_pipelineVars => PipelineInv'
  <1> SUFFICES ASSUME PipelineInv, PipelineNext \/ UNCHANGED pipelineVars PROVE PipelineInv'
    OBVIOUS
  <1> DEFINE Same == UNCHANGED <<bench, planned, stage, scopeAt>>
  <1>1. ASSUME Same, UNCHANGED at PROVE PipelineInv'
    <2>1. UNCHANGED Running
      BY <1>1 DEF Running
    <2> QED
      BY <1>1, <2>1
         DEF StartedOrQueued, Through, Defers, Streamed, Groups, BulkOver, BulkOf, TailOf
  <1>2. ASSUME Same, NEW s \in RunSuites, at[s] # "out", at' = [at EXCEPT ![s] = "over"]
        PROVE  PipelineInv'
    BY <1>2, EndingKeeps
  <1>3. ASSUME NEW p \in Packages, TakeCompiled(p) PROVE PipelineInv'
    <2>1. Same /\ stage = "stream"
      BY <1>3 DEF TakeCompiled, inputs
    <2>2. CASE UNCHANGED at
      BY <1>1, <2>1, <2>2
    <2>3. CASE at' = [s \in RunSuites |->
                        IF s \notin planned \cap SuitesIn(p) THEN at[s]
                        ELSE IF Defers(s) THEN "deferred" ELSE "waiting"]
      <3>1. Running' \subseteq Running
        BY <2>3 DEF Running
      <3>2. Cardinality(Running') <= MaxParallel
        BY <3>1, SlotsFreed DEF Running
      <3> QED
        BY <2>1, <2>3, <3>2 DEF StartedOrQueued, Defers, Streamed, Groups
    <2> QED BY <1>3, <2>2, <2>3 DEF TakeCompiled
  <1>4. ASSUME NEW s \in RunSuites, FixtureThere(s) PROVE PipelineInv'
    <2>1. Same /\ at[s] = "waiting" /\ at' = [at EXCEPT ![s] = "queued"]
      BY <1>4 DEF FixtureThere, inputs
    <2>2. Running' = Running
      BY <2>1 DEF Running
    <2> QED BY <2>1, <2>2 DEF StartedOrQueued, Defers, Streamed, Groups
  <1>5. ASSUME NEW s \in RunSuites, SuiteStarts(s) PROVE PipelineInv'
    <2>1. /\ Same /\ at[s] = "queued" /\ at' = [at EXCEPT ![s] = "running"]
          /\ Cardinality(Running) < MaxParallel
      BY <1>5 DEF SuiteStarts, inputs
    <2>2. Running' \subseteq Running \cup {s}
      BY <2>1 DEF Running
    <2>3. Cardinality(Running') <= MaxParallel
      BY <2>1, <2>2, SlotsCounted DEF Running
    <2>4. PipelineShape'
      BY <2>1, <2>3
    <2>5. \A r \in RunSuites : at[r] \in Through => at'[r] \in Through
      BY <2>1 DEF Through
    <2>6. StageTells'
      BY <2>1, <2>5
         DEF StartedOrQueued, Defers, Streamed, Groups, BulkOver, BulkOf, TailOf, Through, Running
    <2> QED BY <2>4, <2>6
  <1>6. ASSUME NEW s \in RunSuites, TailStarts(s) PROVE PipelineInv'
    <2>1. Same /\ stage = "scopes" /\ TailMayStart(s) /\ at[s] = "deferred"
      BY <1>6 DEF TailStarts, TailMayStart, inputs
    <2>2. CASE at' = [at EXCEPT ![s] = "over"]
      BY <1>2, <2>1, <2>2
    <2>3. CASE at' = [at EXCEPT ![s] = "running"]
      <3>1. s \in planned /\ s \in Exclusive /\ GroupOf[s] = scopeAt
        BY <2>1 DEF TailMayStart, TailOf
      <3>2. Running = {}
        <4> SUFFICES ASSUME NEW r \in Running PROVE FALSE
          OBVIOUS
        <4>1. r \in RunSuites /\ at[r] = "running" /\ r \in planned /\ GroupOf[r] = scopeAt
          BY <2>1 DEF Running, StartedOrQueued
        <4>2. r \in TailOf(scopeAt)
          BY <2>1, <4>1 DEF TailMayStart, BulkOver, BulkOf, TailOf
        <4>3. s < r
          BY <2>1, <4>1, <4>2, SuitesAreFinite DEF TailMayStart
        <4> QED BY <2>1, <3>1, <4>1, <4>2, <4>3 DEF TailOf, Through
      <3>3. Running' = {s}
        BY <2>3, <3>2 DEF Running
      <3>4. Cardinality(Running') <= MaxParallel
        BY <3>3, OneSlot
      <3>5. PipelineShape'
        BY <2>1, <2>3, <3>1, <3>4
      <3>6. \A r \in RunSuites : at[r] \in Through => at'[r] \in Through
        BY <2>1, <2>3 DEF Through
      <3>7. BulkOver(scopeAt)' /\ \A r \in TailOf(scopeAt)' : r < s => at'[r] \in Through
        BY <2>1, <3>6 DEF TailMayStart, BulkOver, BulkOf, TailOf, Through
      <3>8. \A r \in RunSuites : at'[r] = "running" => r = s
        BY <3>3 DEF Running
      <3>9. StageTells'
        BY <2>1, <2>3, <3>1, <3>7, <3>8 DEF StartedOrQueued
      <3> QED BY <3>5, <3>9
    <2> QED BY <1>6, <2>2, <2>3 DEF TailStarts
  <1>7. CASE BulkStarts
    <2>1. Same /\ stage = "scopes"
      BY <1>7 DEF BulkStarts, inputs
    <2>2. PICK bulk \in SUBSET RunSuites :
             /\ bulk = {s \in BulkOf(scopeAt) : at[s] = "deferred"} /\ bulk # {}
             /\ at' = [s \in RunSuites |-> IF s \in bulk THEN "queued" ELSE at[s]]
      BY <1>7 DEF BulkStarts, BulkOf
    <2>3. Running' = Running
      BY <2>2 DEF Running
    <2>4. ~BulkOver(scopeAt)
      BY <2>2 DEF BulkOver
    <2>5. \A s \in bulk : s \in planned /\ GroupOf[s] = scopeAt /\ s \notin Exclusive
      BY <2>2 DEF BulkOf
    <2> QED BY <2>1, <2>2, <2>3, <2>4, <2>5 DEF StartedOrQueued
  <1>8. CASE BenchBooks
    <2>1. UNCHANGED <<bench, planned>> /\ stage = "prepare" /\ stage' = "bench"
      BY <1>8 DEF BenchBooks, inputs
    <2>2. PICK targets \in SUBSET planned :
             at' = [s \in RunSuites |-> IF s \in targets THEN "deferred" ELSE "out"]
      BY <1>8 DEF BenchBooks
    <2>3. Running' = {}
      BY <2>2 DEF Running
    <2>4. Cardinality(Running') <= MaxParallel
      BY <2>3, FS_EmptySet, PipelineAssumption
    <2> QED BY <2>1, <2>2, <2>3, <2>4
  <1>9. ASSUME NEW s \in RunSuites, BenchSlot(s) PROVE PipelineInv'
    <2>1. Same /\ stage = "bench" /\ Running = {} /\ at[s] = "deferred"
      BY <1>9 DEF BenchSlot, inputs
    <2>2. CASE at' = [at EXCEPT ![s] = "over"]
      BY <1>2, <2>1, <2>2
    <2>3. CASE at' = [at EXCEPT ![s] = "running"]
      <3>1. Running' = {s}
        BY <2>1, <2>3 DEF Running
      <3>2. Cardinality(Running') <= MaxParallel
        BY <3>1, OneSlot
      <3> QED BY <2>1, <2>3, <3>1, <3>2
    <2> QED BY <1>9, <2>2, <2>3 DEF BenchSlot
  <1>10. ASSUME NEW s \in RunSuites, NeverRuns(s) \/ SuiteEnds(s) \/ DeferredGivenUp(s)
         PROVE  PipelineInv'
    <2>1. Same /\ at[s] # "out" /\ at' = [at EXCEPT ![s] = "over"]
      BY <1>10 DEF NeverRuns, SuiteEnds, DeferredGivenUp, inputs
    <2> QED BY <1>2, <2>1
  <1>11. ASSUME UNCHANGED <<bench, planned, at>>, StreamOver \/ Drain \/ NextScope \/ VerdictsIn
                \/ BenchOver \/ \E ok \in BOOLEAN : Returns(ok)
         PROVE  PipelineInv'
    <2>1. Running' = Running
      BY <1>11 DEF Running
    <2>2. CASE StreamOver
      BY <1>11, <2>1, <2>2 DEF StreamOver, StartedOrQueued, Defers, Streamed, Groups
    <2>3. CASE Drain
      BY <1>11, <2>1, <2>3 DEF Drain, StartedOrQueued
    <2>4. CASE NextScope
      <3>1. \A s \in RunSuites : ~StartedOrQueued(s)
        BY <2>4 DEF NextScope, StartedOrQueued, BulkOver, TailOver, BulkOf, TailOf
      <3> QED BY <1>11, <2>1, <2>4, <3>1 DEF NextScope, StartedOrQueued
    <2>5. CASE VerdictsIn
      BY <1>11, <2>1, <2>5 DEF VerdictsIn, StartedOrQueued, Left
    <2>6. CASE BenchOver
      BY <1>11, <2>1, <2>6 DEF BenchOver, StartedOrQueued, Running
    <2>7. CASE \E ok \in BOOLEAN : Returns(ok)
      BY <1>11, <2>1, <2>7 DEF Returns, StartedOrQueued
    <2> QED BY <1>11, <2>2, <2>3, <2>4, <2>5, <2>6, <2>7
  <1>12. CASE \/ \E how \in {"canceled", "deadline"} : ContextEnds(how)
              \/ \E how \in {"up", "failed", "stopped"} : FixtureSettles(how)
              \/ \E p \in Packages : BenchCompiled(p)
              \/ UNCHANGED pipelineVars
    <2>1. Same /\ UNCHANGED at
      BY <1>12 DEF ContextEnds, FixtureSettles, BenchCompiled, inputs, pipelineVars
    <2> QED BY <1>1, <2>1
  <1>13. CASE StreamOver \/ Drain \/ NextScope \/ VerdictsIn \/ BenchOver \/ \E ok \in BOOLEAN : Returns(ok)
    <2>1. UNCHANGED <<bench, planned, at>>
      BY <1>13 DEF StreamOver, Drain, NextScope, VerdictsIn, BenchOver, Returns, inputs
    <2> QED BY <1>11, <1>13, <2>1
  <1> QED
    BY <1>3, <1>4, <1>5, <1>6, <1>7, <1>8, <1>9, <1>10, <1>12, <1>13 DEF PipelineNext

LEMMA PipelineInvHolds == PipelineSpec => []PipelineInv
  BY PipelineInitHolds, PipelineStep, PTL DEF PipelineSpec

\* For any suites, groups, selection and number of slots, and however the run
\* is stopped: an exclusive suite runs alone, groups do not overlap, a bench
\* run is serial, and the semaphore bounds the rest (runStreaming, pipeline.go;
\* runScopes, groups.go).
THEOREM ExclusiveRunsAlone == PipelineSpec => []ExclusiveAlone
  <1>1. ASSUME PipelineInv, NEW s \in Running, NEW r \in Running, s # r
        PROVE  ~bench /\ s \notin Exclusive /\ GroupOf[s] = GroupOf[r]
    <2>1. /\ s \in RunSuites /\ at[s] = "running" /\ s \in planned
          /\ r \in RunSuites /\ at[r] = "running" /\ r \in planned
      BY <1>1 DEF Running
    <2>2. stage \in {"stream", "drain", "scopes"}
      BY <1>1, <2>1 DEF StartedOrQueued
    <2>3. CASE stage \in {"stream", "drain"}
      BY <1>1, <2>1, <2>3 DEF StartedOrQueued, Defers
    <2>4. CASE stage = "scopes"
      <3>1. GroupOf[s] = scopeAt /\ GroupOf[r] = scopeAt
        BY <1>1, <2>1, <2>4 DEF StartedOrQueued
      <3>2. s \notin Exclusive
        <4> SUFFICES ASSUME s \in Exclusive PROVE FALSE
          OBVIOUS
        <4>1. r \in TailOf(scopeAt) /\ s \in TailOf(scopeAt)
          BY <1>1, <2>1, <2>4, <3>1 DEF BulkOver, BulkOf, TailOf
        <4>2. r < s \/ s < r
          BY <1>1, <2>1, SuitesAreFinite
        <4> QED BY <1>1, <2>1, <2>4, <4>1, <4>2 DEF TailOf, Through
      <3> QED BY <1>1, <2>4, <3>1, <3>2
    <2> QED BY <2>2, <2>3, <2>4
  <1>2. PipelineInv => ExclusiveAlone
    BY <1>1 DEF ExclusiveAlone
  <1> QED BY <1>2, PipelineInvHolds, PTL
-----------------------------------------------------------------------------
(* The packages' reports *)

HIDE DEF PipelineShape, StageTells, PipelineInv

Rising(q) == \A i, j \in DOMAIN q : i < j => q[i] < q[j]

LEMMA LeastOf ==
    ASSUME NEW T \in SUBSET Nat, T # {}
    PROVE  \E x \in T : \A y \in T : x <= y
  <1>1. PICK x \in T : \A y \in T : ~(<<y, x>> \in OpToRel(<, Nat))
    BY NatLessThanWellFounded, WFMin
  <1>2. ASSUME NEW y \in T PROVE x <= y
    <2>1. x \in Nat /\ y \in Nat /\ <<y, x>> \in Nat \X Nat
      OBVIOUS
    <2>2. ~(y < x)
      BY <1>1, <2>1 DEF OpToRel
    <2> QED BY <2>1, <2>2
  <1> QED BY <1>2

LEMMA PackagesAreFinite ==
    /\ IsFiniteSet(Packages) /\ Cardinality(Packages) = NPackages /\ Packages \subseteq Nat
    /\ \A S \in SUBSET Packages : IsFiniteSet(S) /\ Cardinality(S) \in Nat
  <1>1. IsFiniteSet(Packages) /\ Cardinality(Packages) = NPackages /\ Packages \subseteq Nat
    BY FS_Interval, PipelineAssumption DEF Packages
  <1> QED BY <1>1, FS_Subset, FS_CardinalityType

\* Every set of packages has an order: the least bound under which one has none
\* would leave one without an order below it.
LEMMA RisingExists ==
    \A S \in SUBSET Packages : \E q \in [1..Cardinality(S) -> S] : Rising(q)
  <1> DEFINE Ordered(S) == \E q \in [1..Cardinality(S) -> S] : Rising(q)
             Bad == {n \in 0..NPackages : \E S \in SUBSET (1..n) : ~Ordered(S)}
  <1>1. SUFFICES ASSUME Bad # {} PROVE FALSE
    <2>1. NPackages \in 0..NPackages
      BY PipelineAssumption
    <2> QED BY <2>1 DEF Packages
  <1>2. PICK n \in Bad : \A m \in Bad : n <= m
    <2>1. Bad \in SUBSET Nat
      OBVIOUS
    <2> QED BY <1>1, <2>1, LeastOf
  <1>3. PICK S \in SUBSET (1..n) : ~Ordered(S)
    OBVIOUS
  <1>4. S \subseteq Packages /\ IsFiniteSet(S) /\ Cardinality(S) \in Nat /\ n \in 0..NPackages
    <2>1. n \in 0..NPackages /\ 1..n \subseteq Packages
      BY PipelineAssumption DEF Packages
    <2> QED BY <2>1, PackagesAreFinite
  <1>5. S # {}
    <2> SUFFICES ASSUME S = {} PROVE FALSE
      OBVIOUS
    <2>1. 1..Cardinality(S) = {}
      BY FS_EmptySet
    <2>2. [i \in {} |-> i] \in [{} -> S] /\ Rising([i \in {} |-> i])
      BY DEF Rising
    <2> QED BY <1>3, <2>1, <2>2
  <1>6. n > 0 /\ n - 1 \in 0..NPackages /\ n - 1 \notin Bad
    <2>0. n # 0
      <3> HIDE DEF Bad, Ordered
      <3>1. 1..0 = {}
        OBVIOUS
      <3>2. S \subseteq 1..n
        OBVIOUS
      <3> QED BY <1>5, <3>1, <3>2
    <2>1. n > 0 /\ n - 1 \in 0..NPackages
      <3> HIDE DEF Bad
      <3> QED BY <1>4, <2>0, PipelineAssumption
    <2>2. n - 1 \in Bad => n <= n - 1
      BY <1>2
    <2>3. ~(n <= n - 1)
      BY <1>4
    <2> QED BY <2>1, <2>2, <2>3
  <1>7. n \in S
    <2> SUFFICES ASSUME n \notin S PROVE FALSE
      OBVIOUS
    <2>1. S \in SUBSET (1..(n - 1))
      BY <1>4
    <2> QED BY <1>3, <1>6, <2>1
  <1> DEFINE T == S \ {n}
  <1>8. T \in SUBSET (1..(n - 1))
    BY <1>4
  <1>9. PICK q \in [1..Cardinality(T) -> T] : Rising(q)
    BY <1>6, <1>8
  <1>10. Cardinality(T) = Cardinality(S) - 1 /\ Cardinality(T) \in Nat
    BY <1>4, <1>7, FS_RemoveElement, FS_CardinalityType
  <1> DEFINE r == [i \in 1..Cardinality(S) |-> IF i = Cardinality(S) THEN n ELSE q[i]]
  <1> HIDE DEF T
  <1>11. /\ r \in [1..Cardinality(S) -> S]
         /\ \A i \in 1..Cardinality(S) : i # Cardinality(S) => r[i] = q[i] /\ i \in 1..Cardinality(T) /\ r[i] < n
         /\ r[Cardinality(S)] = n
    <2>1. \A i \in 1..Cardinality(S) : i # Cardinality(S) => i \in 1..Cardinality(T)
      BY <1>4, <1>10
    <2>2. \A i \in 1..Cardinality(T) : q[i] \in T /\ q[i] \in S /\ q[i] < n
      <3>1. \A x \in T : x \in S /\ x < n
        BY <1>4, <1>8 DEF T
      <3> QED BY <3>1
    <2>3. Cardinality(S) \in 1..Cardinality(S)
      BY <1>4, <1>10
    <2> QED BY <1>7, <2>1, <2>2, <2>3
  <1>12. Rising(r)
    <2> SUFFICES ASSUME NEW i \in 1..Cardinality(S), NEW j \in 1..Cardinality(S), i < j
                 PROVE  r[i] < r[j]
      BY DEF Rising
    <2>1. i # Cardinality(S)
      BY <1>4
    <2>2. CASE j = Cardinality(S)
      BY <1>11, <2>1, <2>2
    <2>3. CASE j # Cardinality(S)
      BY <1>9, <1>11, <2>1, <2>3 DEF Rising
    <2> QED BY <2>2, <2>3
  <1> QED BY <1>3, <1>11, <1>12

\* What the collector writes at once is in the flush order.
LEMMA AscendingRises ==
    ASSUME NEW S \in SUBSET Packages
    PROVE  /\ Ascending(S) \in Seq(S) /\ Ascending(S) \in Seq(Packages)
           /\ Rising(Ascending(S)) /\ Len(Ascending(S)) = Cardinality(S)
  <1>1. \E q \in [1..Cardinality(S) -> S] : \A i, j \in DOMAIN q : i < j => q[i] < q[j]
    BY RisingExists DEF Rising
  <1>2. /\ Ascending(S) \in [1..Cardinality(S) -> S]
        /\ \A i, j \in DOMAIN Ascending(S) : i < j => Ascending(S)[i] < Ascending(S)[j]
    BY <1>1 DEF Ascending
  <1>3. Cardinality(S) \in Nat
    BY PackagesAreFinite
  <1>4. Ascending(S) \in Seq(S)
    BY <1>2, <1>3, SeqDef
  <1>5. Len(Ascending(S)) = Cardinality(S)
    <2>1. Len(Ascending(S)) \in Nat /\ 1..Len(Ascending(S)) = 1..Cardinality(S)
      BY <1>2, <1>4, LenProperties
    <2> QED BY <1>3, <2>1
  <1>6. Ascending(S) \in Seq(Packages)
    BY <1>4, SeqMonotonic
  <1> QED BY <1>2, <1>4, <1>5, <1>6 DEF Rising

\* flushReadyText stops somewhere: at the first package that is not ready.
LEMMA FlushStops ==
    ASSUME NEW f \in 0..NPackages, NEW exp, NEW com, NEW fix
    PROVE  FlushedFrom(f, exp, com, fix) \in f..NPackages
  <1> DEFINE T == {k \in f..NPackages : k = NPackages \/ ~Ready(k + 1, exp, com, fix)}
  <1>1. T \in SUBSET Nat /\ T # {}
    <2>1. NPackages \in T
      BY PipelineAssumption
    <2> QED BY <2>1
  <1>2. PICK k \in T : \A m \in T : k <= m
    BY <1>1, LeastOf
  <1>3. ASSUME NEW p \in (f + 1)..k PROVE Ready(p, exp, com, fix)
    <2> SUFFICES ASSUME ~Ready(p, exp, com, fix) PROVE FALSE
      OBVIOUS
    <2>1. p - 1 \in f..NPackages /\ (p - 1) + 1 = p /\ p - 1 < k
      BY PipelineAssumption
    <2>2. p - 1 \in T
      BY <2>1
    <2> QED BY <1>2, <2>1, <2>2
  <1>4. \E m \in f..NPackages : /\ \A p \in (f + 1)..m : Ready(p, exp, com, fix)
                                /\ m = NPackages \/ ~Ready(m + 1, exp, com, fix)
    BY <1>2, <1>3
  <1> QED BY <1>4 DEF FlushedFrom

\* What is written after the packages gone past comes after them.
LEMMA JoinedRises ==
    ASSUME NEW a \in Seq(Packages), NEW b \in Seq(Packages), NEW f \in Nat, Rising(a), Rising(b),
           \A i \in 1..Len(a) : a[i] <= f, \A i \in 1..Len(b) : b[i] > f
    PROVE  /\ a \o b \in Seq(Packages) /\ Rising(a \o b) /\ Len(a \o b) = Len(a) + Len(b)
           /\ \A i \in 1..Len(a \o b) : (a \o b)[i] = IF i <= Len(a) THEN a[i] ELSE b[i - Len(a)]
  <1>1. /\ a \o b \in Seq(Packages) /\ Len(a \o b) = Len(a) + Len(b)
        /\ \A i \in 1..Len(a) + Len(b) : (a \o b)[i] = IF i <= Len(a) THEN a[i] ELSE b[i - Len(a)]
    BY ConcatProperties
  <1>2. /\ Len(a) \in Nat /\ Len(b) \in Nat /\ DOMAIN a = 1..Len(a) /\ DOMAIN b = 1..Len(b)
        /\ DOMAIN (a \o b) = 1..Len(a \o b)
        /\ \A i \in 1..Len(a) : a[i] \in Nat
        /\ \A i \in 1..Len(b) : b[i] \in Nat
    BY <1>1, LenProperties, ElementOfSeq, PackagesAreFinite
  <1>3. Rising(a \o b)
    <2>0. DOMAIN (a \o b) = 1..Len(a) + Len(b)
      BY <1>1, <1>2
    <2> DEFINE c == a \o b
    <2> HIDE DEF c
    <2> SUFFICES ASSUME NEW i \in 1..Len(a) + Len(b), NEW j \in 1..Len(a) + Len(b), i < j
                 PROVE  c[i] < c[j]
      <3>1. DOMAIN c = 1..Len(a) + Len(b)
        BY <2>0 DEF c
      <3> QED BY <3>1 DEF Rising, c
    <2> USE DEF c
    <2>1. CASE j <= Len(a)
      <3>1. i \in DOMAIN a /\ j \in DOMAIN a
        BY <1>2, <2>1
      <3>2. (a \o b)[i] = a[i] /\ (a \o b)[j] = a[j]
        BY <1>1, <1>2, <2>1
      <3> QED BY <3>1, <3>2 DEF Rising
    <2>2. CASE i <= Len(a) /\ j > Len(a)
      <3>1. j - Len(a) \in 1..Len(b) /\ i \in 1..Len(a)
        BY <1>2, <2>2
      <3>2. (a \o b)[i] = a[i] /\ (a \o b)[j] = b[j - Len(a)]
        BY <1>1, <1>2, <2>2
      <3>3. a[i] <= f /\ b[j - Len(a)] > f /\ a[i] \in Nat /\ b[j - Len(a)] \in Nat
        BY <1>2, <3>1
      <3> QED BY <3>2, <3>3
    <2>3. CASE i > Len(a)
      <3>1. i - Len(a) \in 1..Len(b) /\ j - Len(a) \in 1..Len(b) /\ i - Len(a) < j - Len(a)
        BY <1>2, <2>3
      <3>2. (a \o b)[i] = b[i - Len(a)] /\ (a \o b)[j] = b[j - Len(a)]
        BY <1>1, <1>2, <2>3
      <3>3. i - Len(a) \in DOMAIN b /\ j - Len(a) \in DOMAIN b
        BY <1>2, <3>1
      <3> QED BY <3>1, <3>2, <3>3 DEF Rising
    <2> QED BY <1>2, <2>1, <2>2, <2>3
  <1> QED BY <1>1, <1>3

InFlight(p) == {s \in SuitesIn(p) : at[s] # "out"}
DoneIn(p) == {s \in SuitesIn(p) : at[s] = "over"}
IsReady(p) == Ready(p, expected, completed, fixed)
ReadyOnes == {p \in Packages : IsReady(p)}

StreamTypes ==
    /\ text \in BOOLEAN /\ context \in {"live", "canceled", "deadline"}
    /\ dispatchErr \in {"none", "canceled", "deadline"}
    /\ compiled \in [Packages -> {"pending", "built", "failed"}]
    /\ expected \in [Packages -> Nat] /\ completed \in [Packages -> Nat]
    /\ fixed \in [Packages -> BOOLEAN]
    /\ flushed \in 0..NPackages /\ reported \in Seq(Packages)
    /\ broken \subseteq Packages

\* A package with suites under way expects as many verdicts as they are and
\* has as many as are over; one that is not compiled expects none.
CountsTell ==
    /\ \A p \in Packages : InFlight(p) # {} =>
          /\ expected[p] = Cardinality(InFlight(p))
          /\ completed[p] = Cardinality(DoneIn(p)) /\ ~fixed[p]
    /\ \A p \in Packages :
          stage = "prepare" \/ (stage = "stream" /\ p \in PackagesWithSuites /\ compiled[p] = "pending") =>
             expected[p] = 0 /\ completed[p] = 0 /\ ~fixed[p] /\ InFlight(p) = {}

Begun(p) == IsReady(p) \/ InFlight(p) # {}

\* While nothing ends the run, a package is ready or has suites under way from
\* the moment it came out of the compile channel, and all come out.
OwedTell ==
    /\ stage \in {"stream", "drain", "scopes"} /\ context = "live" =>
          \A p \in Packages : p \notin PackagesWithSuites \/ compiled[p] # "pending" => Begun(p)
    /\ stage \in {"drain", "scopes"} /\ context = "live" =>
          \A p \in PackagesWithSuites : compiled[p] # "pending"
    /\ stage = "bench" => \A p \in Packages : Begun(p)
    /\ stage \in {"teardown", "returned"} /\ dispatchErr = "none" => \A p \in Packages : IsReady(p)

\* What is written: in a text run all that output has gone past, in order; in
\* the JSON stream each package that is ready, once.
ReportsTell ==
    /\ text => /\ Rising(reported)
               /\ \A i \in 1..Len(reported) : reported[i] <= flushed
               /\ stage # "returned" => Len(reported) = flushed
    /\ ~text => /\ \A i, j \in 1..Len(reported) : i < j => reported[i] # reported[j]
                /\ \A i \in 1..Len(reported) : reported[i] \in ReadyOnes
                /\ Len(reported) = Cardinality(ReadyOnes)
    /\ stage = "returned" /\ dispatchErr = "none" => Len(reported) = NPackages

StreamInv == StreamTypes /\ CountsTell /\ OwedTell /\ ReportsTell

LEMMA SetsOfSuites ==
    /\ \A S \in SUBSET RunSuites : IsFiniteSet(S) /\ Cardinality(S) \in Nat /\ (Cardinality(S) = 0 <=> S = {})
    /\ \A p : InFlight(p) \in SUBSET RunSuites /\ DoneIn(p) \in SUBSET RunSuites /\ DoneIn(p) \subseteq InFlight(p)
    /\ \A s \in RunSuites : PackageOf[s] \in Packages /\ PackageOf[s] \in PackagesWithSuites
    /\ PackagesWithSuites \subseteq Packages
  <1>1. \A S \in SUBSET RunSuites : IsFiniteSet(S) /\ Cardinality(S) \in Nat /\ (Cardinality(S) = 0 <=> S = {})
    BY SuitesAreFinite, FS_Subset, FS_CardinalityType, FS_EmptySet
  <1>2. \A p : InFlight(p) \in SUBSET RunSuites /\ DoneIn(p) \in SUBSET RunSuites /\ DoneIn(p) \subseteq InFlight(p)
    BY DEF InFlight, DoneIn, SuitesIn
  <1>3. \A s \in RunSuites : PackageOf[s] \in Packages /\ PackageOf[s] \in PackagesWithSuites
    BY PipelineAssumption DEF PackagesWithSuites
  <1> QED BY <1>1, <1>2, <1>3 DEF PackagesWithSuites

\* A record of a package that was not ready keeps what is written true.
LEMMA WriteKeeps ==
    ASSUME StreamTypes, ReportsTell, stage # "returned", UNCHANGED stage, UNCHANGED text, UNCHANGED dispatchErr,
           NEW p \in Packages, ~IsReady(p),
           Write(expected', completed', fixed', p),
           expected' \in [Packages -> Nat], completed' \in [Packages -> Nat],
           fixed' \in [Packages -> BOOLEAN],
           \A q \in Packages : q # p => Ready(q, expected', completed', fixed') <=> IsReady(q)
    PROVE  /\ ReportsTell' /\ flushed' \in 0..NPackages /\ reported' \in Seq(Packages)
           /\ \A q \in Packages : IsReady(q) => IsReady(q)'
  <1>1. \A q \in Packages : IsReady(q)' <=> Ready(q, expected', completed', fixed')
    BY DEF IsReady, Ready
  <1>2. \A q \in Packages : IsReady(q) => IsReady(q)'
    BY <1>1
  <1>3. CASE text
    <2> DEFINE k == FlushedFrom(flushed, expected', completed', fixed')
               more == [i \in 1..(k - flushed) |-> flushed + i]
    <2>1. k \in flushed..NPackages /\ flushed \in 0..NPackages
      BY FlushStops DEF StreamTypes
    <2>2. flushed' = k /\ reported' = reported \o more
      BY <1>3 DEF Write
    <2> HIDE DEF k
    <2>3. k - flushed \in Nat /\ k \in Nat /\ flushed \in Nat
      BY <2>1, PipelineAssumption
    <2>4. \A i \in 1..(k - flushed) : flushed + i \in Packages /\ flushed + i > flushed /\ flushed + i <= k
      BY <2>1, <2>3, PipelineAssumption DEF Packages
    <2>5. more \in [1..(k - flushed) -> Packages]
      BY <2>4
    <2> HIDE DEF more
    <2>6. more \in Seq(Packages)
      BY <2>3, <2>5, SeqDef
    <2>7. /\ Len(more) = k - flushed /\ DOMAIN more = 1..(k - flushed)
          /\ \A i \in 1..(k - flushed) : more[i] = flushed + i
      <3>1. Len(more) \in Nat /\ 1..Len(more) = 1..(k - flushed)
        BY <2>5, <2>6, LenProperties
      <3>2. \A i \in 1..(k - flushed) : more[i] = flushed + i
        BY DEF more
      <3> QED BY <2>3, <2>5, <3>1, <3>2
    <2>8. Rising(more)
      BY <2>3, <2>7 DEF Rising
    <2>9. \A i \in 1..Len(more) : more[i] > flushed /\ more[i] <= k
      BY <2>4, <2>7
    <2>10. /\ Rising(reported) /\ \A i \in 1..Len(reported) : reported[i] <= flushed
           /\ Len(reported) = flushed /\ reported \in Seq(Packages)
      BY <1>3 DEF ReportsTell, StreamTypes
    <2>11. /\ reported' \in Seq(Packages) /\ Rising(reported') /\ Len(reported') = Len(reported) + Len(more)
           /\ \A i \in 1..Len(reported') :
                 reported'[i] = IF i <= Len(reported) THEN reported[i] ELSE more[i - Len(reported)]
      <3>1. \A i \in 1..Len(more) : more[i] > flushed
        BY <2>9
      <3>2. /\ reported \o more \in Seq(Packages) /\ Rising(reported \o more)
            /\ Len(reported \o more) = Len(reported) + Len(more)
            /\ \A i \in 1..Len(reported \o more) : (reported \o more)[i] =
                  IF i <= Len(reported) THEN reported[i] ELSE more[i - Len(reported)]
        BY <2>3, <2>6, <2>8, <2>10, <3>1, JoinedRises
      <3> QED BY <2>2, <3>2
    <2>12. Len(reported') = k
      BY <2>3, <2>7, <2>10, <2>11
    <2>13. \A i \in 1..Len(reported') : reported'[i] <= k
      <3> SUFFICES ASSUME NEW i \in 1..Len(reported') PROVE reported'[i] <= k
        OBVIOUS
      <3>1. CASE i <= Len(reported)
        <4>1. reported'[i] = reported[i] /\ reported[i] <= flushed /\ i \in 1..Len(reported)
          BY <2>3, <2>10, <2>11, <2>12, <3>1
        <4>2. reported[i] \in Nat
          BY <2>10, <4>1, ElementOfSeq, PackagesAreFinite
        <4> QED BY <2>1, <2>3, <4>1, <4>2
      <3>2. CASE ~(i <= Len(reported))
        <4>1. i - Len(reported) \in 1..Len(more)
          BY <2>3, <2>7, <2>10, <2>12, <3>2
        <4> QED BY <2>9, <2>11, <3>2, <4>1
      <3> QED BY <3>1, <3>2
    <2>14. ReportsTell'
      BY <1>3, <2>2, <2>11, <2>12, <2>13 DEF ReportsTell
    <2> QED BY <1>2, <2>1, <2>2, <2>3, <2>11, <2>14
  <1>4. CASE ~text
    <2>1. /\ UNCHANGED flushed
          /\ reported' = IF Ready(p, expected', completed', fixed') THEN Append(reported, p) ELSE reported
      BY <1>4 DEF Write
    <2>2. /\ \A i, j \in 1..Len(reported) : i < j => reported[i] # reported[j]
          /\ \A i \in 1..Len(reported) : reported[i] \in ReadyOnes /\ reported[i] \in Packages
          /\ Len(reported) = Cardinality(ReadyOnes) /\ reported \in Seq(Packages) /\ Len(reported) \in Nat
      BY <1>4, ElementOfSeq, LenProperties DEF ReportsTell, StreamTypes
    <2>3. ReadyOnes \in SUBSET Packages /\ p \notin ReadyOnes /\ IsFiniteSet(ReadyOnes)
      BY PackagesAreFinite DEF ReadyOnes
    <2>4. CASE Ready(p, expected', completed', fixed')
      <3>1. ReadyOnes' = ReadyOnes \cup {p}
        BY <1>1, <2>4 DEF ReadyOnes
      <3>2. Cardinality(ReadyOnes') = Cardinality(ReadyOnes) + 1
        BY <2>3, <3>1, FS_AddElement
      <3>3. /\ reported' \in Seq(Packages) /\ Len(reported') = Len(reported) + 1
            /\ \A i \in 1..Len(reported) : reported'[i] = reported[i]
            /\ reported'[Len(reported) + 1] = p
        BY <2>1, <2>2, <2>4, AppendProperties
      <3>4. \A i \in 1..Len(reported') : i \in 1..Len(reported) \/ i = Len(reported) + 1
        BY <2>2, <3>3
      <3>5. \A i \in 1..Len(reported') : reported'[i] \in ReadyOnes'
        BY <2>2, <3>1, <3>3, <3>4
      <3>6. \A i, j \in 1..Len(reported') : i < j => reported'[i] # reported'[j]
        <4>1. \A i \in 1..Len(reported) : reported[i] # p
          BY <2>2, <2>3
        <4>2. \A i \in 1..Len(reported), j \in 1..Len(reported) :
                 i < j => reported'[i] # reported'[j]
          BY <2>2, <3>3
        <4>3. \A i \in 1..Len(reported) : reported'[i] # reported'[Len(reported) + 1]
          BY <3>3, <4>1
        <4>4. \A j \in 1..Len(reported') : ~(Len(reported) + 1 < j)
          BY <2>2, <3>3
        <4> QED BY <3>4, <4>2, <4>3, <4>4
      <3>7. ReportsTell'
        BY <1>4, <2>2, <3>2, <3>3, <3>5, <3>6 DEF ReportsTell
      <3> QED BY <1>2, <2>1, <3>3, <3>7 DEF StreamTypes
    <2>5. CASE ~Ready(p, expected', completed', fixed')
      <3>1. ReadyOnes' = ReadyOnes
        BY <1>1, <2>5 DEF ReadyOnes
      <3>2. reported' = reported
        BY <2>1, <2>5
      <3>3. \A i \in 1..Len(reported') : reported'[i] \in ReadyOnes'
        BY <2>2, <3>1, <3>2
      <3>4. ReportsTell'
        BY <1>4, <2>2, <3>1, <3>2, <3>3 DEF ReportsTell
      <3> QED BY <1>2, <2>1, <3>2, <3>4 DEF StreamTypes
    <2> QED BY <2>4, <2>5
  <1> QED BY <1>3, <1>4 DEF StreamTypes

\* Steps that record nothing, end no suite and begin none.
LEMMA QuietKeeps ==
    ASSUME StreamInv, UNCHANGED <<text, broken, expected, completed, fixed, flushed, reported>>,
           UNCHANGED stage, UNCHANGED dispatchErr, UNCHANGED compiled \/ (stage = "prepare" /\ StreamTypes'),
           UNCHANGED context \/ (context' # "live" /\ context' \in {"canceled", "deadline"}),
           \A s \in RunSuites : (at'[s] = "out" <=> at[s] = "out") /\ (at'[s] = "over" <=> at[s] = "over")
    PROVE  StreamInv'
  <1>1. \A p : InFlight(p)' = InFlight(p) /\ DoneIn(p)' = DoneIn(p)
    BY DEF InFlight, DoneIn, SuitesIn
  <1>2. \A p \in Packages : IsReady(p)' <=> IsReady(p)
    BY DEF IsReady, Ready
  <1>3. ReadyOnes' = ReadyOnes
    BY <1>2 DEF ReadyOnes
  <1>4. \A p \in Packages : Begun(p)' <=> Begun(p)
    BY <1>1, <1>2 DEF Begun
  <1>5. StreamTypes'
    BY DEF StreamInv, StreamTypes
  <1>6. CountsTell'
    BY <1>1 DEF StreamInv, CountsTell
  <1>7. OwedTell'
    BY <1>2, <1>4 DEF StreamInv, OwedTell
  <1>8. ReportsTell'
    BY <1>3 DEF StreamInv, ReportsTell, Rising
  <1> QED BY <1>5, <1>6, <1>7, <1>8 DEF StreamInv

\* A suite's verdict comes in while its package expects one more.
LEMMA ResultKeeps ==
    ASSUME StreamInv, PipelineInv, NEW s \in RunSuites, at[s] \notin {"out", "over"}, at' = [at EXCEPT ![s] = "over"],
           NEW o, RecordResult(s, o), UNCHANGED <<text, broken, context, compiled, dispatchErr>>, UNCHANGED stage,
           stage # "returned"
    PROVE  StreamInv'
  <1> DEFINE p == PackageOf[s]
  <1>1. p \in Packages /\ s \in SuitesIn(p)
    BY SetsOfSuites DEF SuitesIn
  <1> HIDE DEF p
  <1>2. s \in InFlight(p) /\ s \notin DoneIn(p)
    BY <1>1 DEF InFlight, DoneIn
  <1>3. /\ \A q : InFlight(q)' = InFlight(q)
        /\ DoneIn(p)' = DoneIn(p) \cup {s}
        /\ \A q : q # p => DoneIn(q)' = DoneIn(q)
    <2>1. \A r \in RunSuites : at'[r] = IF r = s THEN "over" ELSE at[r]
      BY DEF PipelineInv, PipelineShape
    <2>2. \A q : s \in SuitesIn(q) => q = p
      BY DEF SuitesIn, p
    <2> QED BY <1>1, <2>1, <2>2 DEF InFlight, DoneIn, SuitesIn
  <1>4. expected[p] = Cardinality(InFlight(p)) /\ completed[p] = Cardinality(DoneIn(p)) /\ ~fixed[p]
    BY <1>1, <1>2 DEF StreamInv, CountsTell
  <1>5. Cardinality(DoneIn(p)') = Cardinality(DoneIn(p)) + 1
    BY <1>2, <1>3, SetsOfSuites, FS_AddElement
  <1>6. Cardinality(DoneIn(p)') <= Cardinality(InFlight(p))
    <2>1. DoneIn(p)' \subseteq InFlight(p) /\ IsFiniteSet(InFlight(p))
      BY <1>2, <1>3, SetsOfSuites
    <2> QED BY <2>1, FS_Subset
  <1>7. ~IsReady(p)
    <2>1. completed[p] < expected[p] /\ completed[p] \in Nat /\ expected[p] \in Nat
      BY <1>1, <1>4, <1>5, <1>6, SetsOfSuites DEF StreamInv, StreamTypes
    <2> QED BY <1>4, <2>1 DEF IsReady, Ready
  <1>8. /\ completed' = [completed EXCEPT ![p] = @ + 1] /\ UNCHANGED <<expected, fixed>>
        /\ Write(expected', completed', fixed', p)
    BY DEF RecordResult, p
  <1>9. /\ completed' \in [Packages -> Nat] /\ completed'[p] = completed[p] + 1
        /\ \A q \in Packages : q # p => completed'[q] = completed[q]
    BY <1>1, <1>8 DEF StreamInv, StreamTypes
  <1>10. expected' \in [Packages -> Nat] /\ fixed' \in [Packages -> BOOLEAN]
    BY <1>8 DEF StreamInv, StreamTypes
  <1>11. \A q \in Packages : q # p => Ready(q, expected', completed', fixed') <=> IsReady(q)
    BY <1>8, <1>9 DEF IsReady, Ready
  <1>12. /\ ReportsTell' /\ flushed' \in 0..NPackages /\ reported' \in Seq(Packages)
         /\ \A q \in Packages : IsReady(q) => IsReady(q)'
    BY <1>1, <1>7, <1>8, <1>9, <1>10, <1>11, WriteKeeps DEF StreamInv
  <1>13. StreamTypes'
    BY <1>9, <1>10, <1>12 DEF StreamInv, StreamTypes
  <1>14. CountsTell'
    BY <1>1, <1>2, <1>3, <1>4, <1>5, <1>8, <1>9 DEF StreamInv, CountsTell
  <1>15. OwedTell'
    BY <1>3, <1>12 DEF StreamInv, OwedTell, Begun
  <1> QED BY <1>12, <1>13, <1>14, <1>15 DEF StreamInv

\* A package whose verdict needs no suite, or that has its suites registered.
LEMMA CompiledKeeps ==
    ASSUME StreamInv, PipelineInv, NEW p \in Packages, TakeCompiled(p)
    PROVE  StreamInv'
  <1> USE DEF StreamInv
  <1>1. /\ stage = "stream" /\ p \in PackagesWithSuites /\ compiled[p] = "pending"
        /\ UNCHANGED <<text, broken, context, dispatchErr>> /\ UNCHANGED stage /\ UNCHANGED planned
    BY DEF TakeCompiled, inputs
  <1>2. expected[p] = 0 /\ completed[p] = 0 /\ ~fixed[p] /\ InFlight(p) = {} /\ ~IsReady(p)
    BY <1>1 DEF CountsTell, IsReady, Ready
  <1>3. /\ compiled' \in [Packages -> {"pending", "built", "failed"}] /\ compiled'[p] # "pending"
        /\ \A q \in Packages : q # p => compiled'[q] = compiled[q]
    <2>1. \/ compiled' = [compiled EXCEPT ![p] = "failed"]
          \/ compiled' = [compiled EXCEPT ![p] = "built"]
      BY DEF TakeCompiled
    <2> QED BY <2>1 DEF StreamTypes
  <1>4. ASSUME UNCHANGED at,
               expected' \in [Packages -> Nat], completed' \in [Packages -> Nat], fixed' \in [Packages -> BOOLEAN],
               \A q \in Packages : q # p =>
                  expected'[q] = expected[q] /\ completed'[q] = completed[q] /\ (fixed'[q] <=> fixed[q]),
               Write(expected', completed', fixed', p), Ready(p, expected', completed', fixed')
        PROVE  StreamInv'
    <2>1. \A q : InFlight(q)' = InFlight(q) /\ DoneIn(q)' = DoneIn(q)
      BY <1>4 DEF InFlight, DoneIn, SuitesIn
    <2>2. \A q \in Packages : q # p => Ready(q, expected', completed', fixed') <=> IsReady(q)
      BY <1>4 DEF IsReady, Ready
    <2>3. /\ ReportsTell' /\ flushed' \in 0..NPackages /\ reported' \in Seq(Packages)
          /\ \A q \in Packages : IsReady(q) => IsReady(q)'
      BY <1>1, <1>2, <1>4, <2>2, WriteKeeps
    <2>4. StreamTypes'
      BY <1>1, <1>3, <1>4, <2>3 DEF StreamTypes
    <2>5. IsReady(p)'
      BY <1>4 DEF IsReady, Ready
    <2>6. CountsTell'
      BY <1>1, <1>2, <1>3, <1>4, <2>1 DEF CountsTell
    <2>7. \A q \in Packages : Begun(q) => Begun(q)'
      BY <2>1, <2>3 DEF Begun
    <2>8. OwedTell'
      BY <1>1, <1>3, <2>5, <2>7 DEF OwedTell, Begun
    <2> QED BY <2>3, <2>4, <2>6, <2>8
  <1>5. CASE compiled' = [compiled EXCEPT ![p] = "failed"] /\ UNCHANGED at /\ context = "live" /\ RecordBuildFailure(p)
    <2>1. /\ expected' = [expected EXCEPT ![p] = 1] /\ completed' = [completed EXCEPT ![p] = 1]
          /\ UNCHANGED fixed /\ Write(expected', completed', fixed', p)
      BY <1>5 DEF RecordBuildFailure
    <2>2. expected' \in [Packages -> Nat] /\ completed' \in [Packages -> Nat] /\ fixed' \in [Packages -> BOOLEAN]
      BY <2>1 DEF StreamTypes
    <2>3. expected'[p] = 1 /\ completed'[p] = 1
      BY <2>1 DEF StreamTypes
    <2>4. Ready(p, expected', completed', fixed')
      BY <2>3 DEF Ready
    <2>5. \A q \in Packages : q # p => expected'[q] = expected[q] /\ completed'[q] = completed[q] /\ (fixed'[q] <=> fixed[q])
      BY <2>1 DEF StreamTypes
    <2> QED BY <1>4, <1>5, <2>1, <2>2, <2>4, <2>5
  <1>6. CASE UNCHANGED at /\ context # "live" /\ UNCHANGED collector
    <2>1. UNCHANGED <<expected, completed, fixed, flushed, reported>>
      BY <1>6 DEF collector
    <2>2. \A q : InFlight(q)' = InFlight(q) /\ DoneIn(q)' = DoneIn(q)
      BY <1>6 DEF InFlight, DoneIn, SuitesIn
    <2>3. ReadyOnes' = ReadyOnes
      BY <2>1 DEF ReadyOnes, IsReady, Ready
    <2>4. StreamTypes'
      BY <1>1, <1>3, <2>1 DEF StreamTypes
    <2>5. CountsTell'
      BY <1>1, <1>3, <2>1, <2>2 DEF CountsTell
    <2>6. OwedTell'
      BY <1>1, <1>6 DEF OwedTell
    <2>7. ReportsTell'
      BY <1>1, <2>1, <2>3 DEF ReportsTell, Rising
    <2> QED BY <2>4, <2>5, <2>6, <2>7
  <1>7. CASE RecordFixed(p) /\ UNCHANGED at
    <2>1. /\ fixed' = [fixed EXCEPT ![p] = TRUE] /\ UNCHANGED <<expected, completed>>
          /\ Write(expected', completed', fixed', p)
      BY <1>7 DEF RecordFixed
    <2>2. /\ expected' \in [Packages -> Nat] /\ completed' \in [Packages -> Nat]
          /\ fixed' \in [Packages -> BOOLEAN] /\ fixed'[p]
      BY <2>1 DEF StreamTypes
    <2>3. Ready(p, expected', completed', fixed')
      BY <2>2 DEF Ready
    <2>4. \A q \in Packages : q # p => expected'[q] = expected[q] /\ completed'[q] = completed[q] /\ (fixed'[q] <=> fixed[q])
      BY <2>1 DEF StreamTypes
    <2> QED BY <1>4, <1>7, <2>1, <2>2, <2>3, <2>4
  <1>8. ASSUME NEW targets, targets = planned \cap SuitesIn(p), targets # {},
               Register(p, Cardinality(targets)),
               at' = [s \in RunSuites |->
                        IF s \notin targets THEN at[s]
                        ELSE IF Defers(s) THEN "deferred" ELSE "waiting"]
        PROVE  StreamInv'
    <2>1. targets \in SUBSET RunSuites /\ targets \subseteq SuitesIn(p) /\ Cardinality(targets) \in Nat /\ Cardinality(targets) # 0
      BY <1>8, SetsOfSuites DEF SuitesIn
    <2>2. /\ expected' = [expected EXCEPT ![p] = Cardinality(targets)]
          /\ UNCHANGED <<completed, fixed, flushed, reported>>
      BY <1>8 DEF Register
    <2>3. \A s \in RunSuites : /\ s \in targets => at'[s] \in {"deferred", "waiting"} /\ PackageOf[s] = p
                               /\ s \notin targets => at'[s] = at[s]
      BY <1>8, <2>1 DEF SuitesIn
    <2>4. \A s \in SuitesIn(p) : at[s] = "out"
      BY <1>2 DEF InFlight
    <2>5. InFlight(p)' = targets /\ DoneIn(p)' = {}
      BY <2>1, <2>3, <2>4 DEF InFlight, DoneIn, SuitesIn
    <2>6. \A q \in Packages : q # p => InFlight(q)' = InFlight(q) /\ DoneIn(q)' = DoneIn(q)
      BY <2>3 DEF InFlight, DoneIn, SuitesIn
    <2>7. /\ expected' \in [Packages -> Nat] /\ expected'[p] = Cardinality(targets)
          /\ \A q \in Packages : q # p => expected'[q] = expected[q]
      BY <2>1, <2>2 DEF StreamTypes
    <2>8. \A q \in Packages : IsReady(q)' <=> IsReady(q)
      <3>1. \A q \in Packages : q # p => (IsReady(q)' <=> IsReady(q))
        BY <2>2, <2>7 DEF IsReady, Ready
      <3>2. ~IsReady(p)'
        BY <1>2, <2>1, <2>2, <2>7 DEF IsReady, Ready
      <3> QED BY <1>2, <3>1, <3>2
    <2>9. ReadyOnes' = ReadyOnes
      BY <2>8 DEF ReadyOnes
    <2>10. StreamTypes'
      BY <1>1, <1>3, <2>2, <2>7 DEF StreamTypes
    <2>11. Cardinality({}) = 0
      BY FS_EmptySet
    <2>12. CountsTell'
      BY <1>1, <1>2, <1>3, <2>2, <2>5, <2>6, <2>7, <2>11 DEF CountsTell
    <2>13. Begun(p)' /\ \A q \in Packages : Begun(q) => Begun(q)'
      BY <1>8, <2>5, <2>6, <2>8 DEF Begun
    <2>14. OwedTell'
      BY <1>1, <1>3, <2>13 DEF OwedTell
    <2>15. ReportsTell'
      BY <1>1, <2>2, <2>9 DEF ReportsTell, Rising
    <2> QED BY <2>10, <2>12, <2>14, <2>15
  <1> QED BY <1>5, <1>6, <1>7, <1>8 DEF TakeCompiled

\* Booked at once: whatever the verdicts that need no run, they are written in
\* the flush order.
BookedNow ==
    /\ text \in BOOLEAN /\ stage # "returned"
    /\ flushed = IF text THEN FlushedFrom(0, expected, completed, fixed) ELSE 0
    /\ reported = Ascending(IF text THEN 1..flushed ELSE ReadyOnes)
BookedTells == flushed \in 0..NPackages /\ reported \in Seq(Packages) /\ ReportsTell

LEMMA BookedAtOnce == BookedNow => BookedTells
  <1> SUFFICES ASSUME BookedNow PROVE BookedTells
    OBVIOUS
  <1> USE DEF BookedNow, BookedTells
  <1>1. flushed \in 0..NPackages
    <2>1. FlushedFrom(0, expected, completed, fixed) \in 0..NPackages
      <3>1. 0 \in 0..NPackages
        BY PipelineAssumption
      <3> QED BY <3>1, FlushStops
    <2> QED BY <2>1, PipelineAssumption
  <1>2. CASE text
    <2>1. 1..flushed \in SUBSET Packages
      BY <1>1, PipelineAssumption DEF Packages
    <2>2. Cardinality(1..flushed) = flushed
      BY <1>1, FS_Interval, PipelineAssumption
    <2>3. reported = Ascending(1..flushed)
      BY <1>2
    <2>4. reported \in Seq(1..flushed) /\ reported \in Seq(Packages) /\ Rising(reported) /\ Len(reported) = flushed
      BY <2>1, <2>2, <2>3, AscendingRises
    <2>5. \A i \in 1..Len(reported) : reported[i] \in 1..flushed
      BY <2>4, ElementOfSeq
    <2>6. \A i \in 1..Len(reported) : reported[i] <= flushed
      BY <1>1, <2>5, PipelineAssumption
    <2> QED BY <1>1, <1>2, <2>4, <2>6 DEF ReportsTell
  <1>3. CASE ~text
    <2>1. reported = Ascending(ReadyOnes)
      BY <1>3
    <2>2. ReadyOnes \in SUBSET Packages
      BY DEF ReadyOnes
    <2>3. /\ reported \in Seq(ReadyOnes) /\ reported \in Seq(Packages) /\ Rising(reported)
          /\ Len(reported) = Cardinality(ReadyOnes)
      BY <2>1, <2>2, AscendingRises
    <2>4. \A i \in 1..Len(reported) : reported[i] \in ReadyOnes /\ reported[i] \in Nat
      BY <2>2, <2>3, ElementOfSeq, PackagesAreFinite
    <2>5. DOMAIN reported = 1..Len(reported)
      BY <2>3, LenProperties
    <2>6. \A i, j \in 1..Len(reported) : i < j => reported[i] # reported[j]
      <3>1. \A i, j \in 1..Len(reported) : i < j => reported[i] < reported[j]
        BY <2>3, <2>5 DEF Rising
      <3>2. \A m, n \in Nat : m < n => m # n
        OBVIOUS
      <3> QED BY <2>4, <3>1, <3>2
    <2> QED BY <1>1, <1>3, <2>3, <2>4, <2>6 DEF ReportsTell
  <1> QED BY <1>2, <1>3

LEMMA StreamInitHolds == PipelineInit => StreamInv
  <1> SUFFICES ASSUME PipelineInit PROVE StreamInv
    OBVIOUS
  <1>1. PICK where : /\ PipelineIn(where, "none")
                     /\ \/ where = "prepare" /\ bench
                        \/ where = "stream" /\ ~bench
    BY DEF PipelineInit
  <1>2. /\ text \in BOOLEAN /\ bench \in BOOLEAN /\ context = "live" /\ dispatchErr = "none" /\ stage = where
        /\ compiled = [p \in Packages |-> "pending"] /\ at = [s \in RunSuites |-> "out"]
        /\ broken \subseteq Packages /\ broken \cap PackagesWithSuites = {}
        /\ expected = [p \in Packages |-> IF p \in broken /\ ~bench THEN 1 ELSE 0] /\ completed = expected
        /\ fixed = [p \in Packages |-> ~bench /\ p \notin broken \cup PackagesWithSuites]
        /\ flushed = IF bench \/ ~text THEN 0 ELSE FlushedFrom(0, expected, completed, fixed)
        /\ reported = Ascending(IF text THEN 1..flushed
                                ELSE {p \in Packages : Ready(p, expected, completed, fixed)})
    BY <1>1 DEF PipelineIn
  <1>3. \A p : InFlight(p) = {}
    BY <1>2 DEF InFlight, SuitesIn
  <1>4. expected \in [Packages -> Nat] /\ completed \in [Packages -> Nat] /\ fixed \in [Packages -> BOOLEAN]
    BY <1>2
  <1>5. flushed \in 0..NPackages /\ reported \in Seq(Packages) /\ ReportsTell
    <2>1. CASE ~bench
      <3>1. flushed = (IF text THEN FlushedFrom(0, expected, completed, fixed) ELSE 0)
        BY <1>2, <2>1
      <3>2. reported = Ascending(IF text THEN 1..flushed ELSE ReadyOnes)
        BY <1>2 DEF ReadyOnes, IsReady
      <3> QED BY <1>1, <1>2, <3>1, <3>2, BookedAtOnce DEF BookedNow, BookedTells
    <2>2. CASE bench
      <3>1. \A p \in Packages : ~IsReady(p)
        <4>1. \A p \in Packages : expected[p] = 0
          BY <1>2, <2>2
        <4>2. \A p \in Packages : ~fixed[p]
          BY <1>2, <2>2
        <4> QED BY <4>1, <4>2 DEF IsReady, Ready
      <3>2. ReadyOnes = {}
        BY <3>1 DEF ReadyOnes
      <3>3. flushed = 0 /\ 1..flushed = {}
        BY <1>2, <2>2
      <3>4. {p \in Packages : Ready(p, expected, completed, fixed)} = {}
        BY <3>2 DEF ReadyOnes, IsReady
      <3>5. reported = Ascending({})
        BY <1>2, <3>3, <3>4
      <3>6. {} \in SUBSET Packages /\ Cardinality({}) = 0
        BY FS_EmptySet
      <3>7. reported \in Seq(Packages) /\ Rising(reported) /\ Len(reported) = 0
        BY <3>5, <3>6, AscendingRises
      <3>8. ReportsTell
        BY <1>1, <1>2, <2>2, <3>2, <3>3, <3>6, <3>7 DEF ReportsTell
      <3> QED BY <3>3, <3>7, <3>8, PipelineAssumption
    <2> QED BY <1>2, <2>1, <2>2
  <1>6. StreamTypes
    BY <1>2, <1>4, <1>5 DEF StreamTypes
  <1>7. CountsTell
    BY <1>1, <1>2, <1>3 DEF CountsTell
  <1>8. OwedTell
    <2>1. ASSUME stage = "stream", NEW p \in Packages, p \notin PackagesWithSuites PROVE IsReady(p)
      <3>1. ~bench
        BY <1>1, <1>2, <2>1
      <3>2. CASE p \in broken
        <4>1. expected[p] = 1 /\ completed[p] = 1
          BY <1>2, <2>1, <3>1, <3>2
        <4> QED BY <4>1 DEF IsReady, Ready
      <3>3. CASE p \notin broken
        <4>1. fixed[p]
          BY <1>2, <2>1, <3>1, <3>3
        <4> QED BY <4>1 DEF IsReady, Ready
      <3> QED BY <3>2, <3>3
    <2> QED BY <1>1, <1>2, <2>1, SetsOfSuites DEF OwedTell, Begun
  <1> QED BY <1>5, <1>6, <1>7, <1>8 DEF StreamInv

\* A bench run books all that needs no run and registers the rest.
LEMMA BooksKeep == StreamInv /\ PipelineInv /\ BenchBooks => StreamInv'
  <1> SUFFICES ASSUME StreamInv, PipelineInv, BenchBooks PROVE StreamInv'
    OBVIOUS
  <1>1. stage' = "bench" /\ UNCHANGED <<text, broken, context, compiled, dispatchErr>>
    BY DEF BenchBooks, inputs
  <1>2. PICK unbuilt, targets :
           /\ unbuilt = broken \cup {p \in Packages : compiled[p] = "failed"}
           /\ targets = {s \in planned : PackageOf[s] \notin unbuilt}
           /\ expected' = [p \in Packages |-> IF p \in unbuilt THEN 1
                                              ELSE Cardinality(targets \cap SuitesIn(p))]
           /\ completed' = [p \in Packages |-> IF p \in unbuilt THEN 1 ELSE 0]
           /\ fixed' = [p \in Packages |-> expected'[p] = 0]
           /\ at' = [s \in RunSuites |-> IF s \in targets THEN "deferred" ELSE "out"]
           /\ flushed' = IF text THEN FlushedFrom(0, expected', completed', fixed') ELSE 0
           /\ reported' = Ascending(IF text THEN 1..flushed'
                                    ELSE {p \in Packages : Ready(p, expected', completed', fixed')})
    BY DEF BenchBooks
  <1>3. targets \subseteq RunSuites /\ \A p : targets \cap SuitesIn(p) \in SUBSET RunSuites
    BY <1>2 DEF PipelineInv, PipelineShape
  <1>4. \A p : InFlight(p)' = targets \cap SuitesIn(p) /\ DoneIn(p)' = {}
    BY <1>2, <1>3 DEF InFlight, DoneIn, SuitesIn
  <1>5. expected' \in [Packages -> Nat] /\ completed' \in [Packages -> Nat] /\ fixed' \in [Packages -> BOOLEAN]
    BY <1>2, <1>3, SetsOfSuites
  <1>6. text' \in BOOLEAN /\ text' = text
    BY <1>1 DEF StreamInv, StreamTypes
  <1>7. flushed' \in 0..NPackages /\ reported' \in Seq(Packages) /\ ReportsTell'
    <2>1. flushed' = (IF text THEN FlushedFrom(0, expected, completed, fixed) ELSE 0)'
      BY <1>2, <1>6 DEF FlushedFrom, Ready
    <2>2. ReadyOnes' = {p \in Packages : Ready(p, expected', completed', fixed')}
      BY DEF ReadyOnes, IsReady, Ready
    <2>3. reported' = Ascending(IF text' THEN 1..flushed' ELSE ReadyOnes')
      BY <1>2, <1>6, <2>2
    <2>4. BookedNow'
      BY <1>1, <1>6, <2>1, <2>3 DEF BookedNow, Ascending
    <2>5. BookedTells'
      BY <2>4, BookedAtOnce, PTL
    <2> QED BY <2>5 DEF BookedTells
  <1>8. StreamTypes'
    BY <1>1, <1>5, <1>7 DEF StreamInv, StreamTypes
  <1>9. \A p \in Packages : InFlight(p)' # {} => p \notin unbuilt
    BY <1>2, <1>4 DEF SuitesIn
  <1>10. Cardinality({}) = 0
    BY FS_EmptySet
  <1>11. \A p \in Packages : InFlight(p)' # {} =>
            expected'[p] = Cardinality(InFlight(p)') /\ completed'[p] = 0 /\ expected'[p] # 0
    BY <1>2, <1>3, <1>4, <1>9, SetsOfSuites
  <1>12. \A p \in Packages : InFlight(p)' # {} => ~fixed'[p]
    BY <1>2, <1>11
  <1>13. CountsTell'
    BY <1>1, <1>4, <1>10, <1>11, <1>12 DEF CountsTell
  <1>14. ASSUME NEW p \in Packages PROVE Begun(p)'
    <2>1. CASE p \in unbuilt
      <3>1. expected'[p] = 1 /\ completed'[p] = 1
        BY <1>2, <2>1
      <3> QED BY <3>1 DEF Begun, IsReady, Ready
    <2>2. CASE p \notin unbuilt /\ InFlight(p)' = {}
      <3>1. expected'[p] = 0
        BY <1>2, <1>4, <1>10, <2>2
      <3>2. fixed'[p]
        BY <1>2, <3>1
      <3> QED BY <3>2 DEF Begun, IsReady, Ready
    <2> QED BY <2>1, <2>2 DEF Begun
  <1>15. OwedTell'
    BY <1>1, <1>14 DEF OwedTell
  <1> QED BY <1>7, <1>8, <1>13, <1>15 DEF StreamInv

\* Who is over is ready.
LEMMA OverIsReady ==
    ASSUME StreamInv, NEW p \in Packages, Begun(p), \A s \in RunSuites : at[s] \in Through
    PROVE  IsReady(p)
  <1>1. CASE InFlight(p) # {}
    <2>1. InFlight(p) = DoneIn(p)
      BY DEF InFlight, DoneIn, SuitesIn, Through
    <2>2. expected[p] = Cardinality(InFlight(p)) /\ completed[p] = expected[p]
      BY <1>1, <2>1 DEF StreamInv, CountsTell
    <2>3. Cardinality(InFlight(p)) \in Nat /\ Cardinality(InFlight(p)) # 0
      BY <1>1, SetsOfSuites
    <2> QED BY <2>2, <2>3 DEF IsReady, Ready
  <1> QED BY <1>1 DEF Begun

\* From stage to stage.
LEMMA StagesKeep ==
    ASSUME StreamInv, PipelineInv, StreamOver \/ Drain \/ VerdictsIn \/ BenchOver
    PROVE  StreamInv'
  <1>1. /\ UNCHANGED <<text, broken, context, compiled, expected, completed, fixed, flushed, reported>>
        /\ UNCHANGED at /\ stage # "returned" /\ stage' \in {"drain", "scopes", "teardown"}
    BY DEF StreamOver, Drain, VerdictsIn, BenchOver, inputs, collector
  <1>2. \A p : InFlight(p)' = InFlight(p) /\ DoneIn(p)' = DoneIn(p)
    BY <1>1 DEF InFlight, DoneIn, SuitesIn
  <1>3. \A p \in Packages : (IsReady(p)' <=> IsReady(p)) /\ (Begun(p)' <=> Begun(p))
    BY <1>1, <1>2 DEF IsReady, Ready, Begun
  <1>4. ReadyOnes' = ReadyOnes
    BY <1>3 DEF ReadyOnes
  <1>5. dispatchErr' \in {"none", "canceled", "deadline"}
    BY DEF StreamOver, Drain, VerdictsIn, BenchOver, AllIn, StreamInv, StreamTypes
  <1>6. StreamTypes'
    BY <1>1, <1>5 DEF StreamInv, StreamTypes
  <1>7. CountsTell'
    BY <1>1, <1>2 DEF StreamInv, CountsTell
  <1>8. ReportsTell'
    BY <1>1, <1>4 DEF StreamInv, ReportsTell, Rising
  <1>9. OwedTell'
    <2>1. CASE StreamOver
      BY <1>1, <1>3, <2>1 DEF StreamOver, StreamInv, OwedTell
    <2>2. CASE Drain
      BY <1>1, <1>3, <2>2 DEF Drain, StreamInv, OwedTell
    <2>3. CASE VerdictsIn
      <3>1. stage = "scopes" /\ stage' = "teardown" /\ \A s \in RunSuites : at[s] \in Through
        BY <2>3 DEF VerdictsIn, Left, Through, PipelineInv, PipelineShape
      <3>2. dispatchErr' = "none" => context = "live"
        BY <2>3 DEF VerdictsIn, AllIn, StreamInv, StreamTypes
      <3>3. dispatchErr' = "none" => \A p \in Packages : Begun(p)
        BY <3>1, <3>2 DEF StreamInv, OwedTell
      <3> QED BY <1>3, <3>1, <3>3, OverIsReady DEF OwedTell
    <2>4. CASE BenchOver
      <3>1. stage' = "teardown" /\ (dispatchErr' = "none" => context = "live")
        BY <2>4 DEF BenchOver, StreamInv, StreamTypes
      <3>2. context = "live" => stage = "bench" /\ \A s \in RunSuites : at[s] \in Through
        BY <2>4 DEF BenchOver, Running, Through, PipelineInv, PipelineShape, StageTells
      <3>3. context = "live" => \A p \in Packages : Begun(p)
        BY <3>2 DEF StreamInv, OwedTell
      <3> QED BY <1>3, <3>1, <3>2, <3>3, OverIsReady DEF OwedTell
    <2> QED BY <2>1, <2>2, <2>3, <2>4
  <1> QED BY <1>6, <1>7, <1>8, <1>9 DEF StreamInv

\* Finalize writes what waits behind a package that never reported, after all
\* that was written; when none is missing it writes the rest.
LEMMA ReturnsKeep ==
    ASSUME StreamInv, NEW ok \in BOOLEAN, Returns(ok)
    PROVE  StreamInv'
  <1> USE DEF StreamInv
  <1>1. /\ stage = "teardown" /\ stage' = "returned"
        /\ UNCHANGED <<text, broken, context, compiled, expected, completed, fixed, dispatchErr>>
        /\ UNCHANGED at
    BY DEF Returns, inputs
  <1>2. \A p : InFlight(p)' = InFlight(p) /\ DoneIn(p)' = DoneIn(p)
    BY <1>1 DEF InFlight, DoneIn, SuitesIn
  <1>3. \A p \in Packages : IsReady(p)' <=> IsReady(p)
    BY <1>1 DEF IsReady, Ready
  <1>4. ReadyOnes' = ReadyOnes
    BY <1>3 DEF ReadyOnes
  <1>5. CountsTell'
    BY <1>1, <1>2 DEF CountsTell
  <1>6. OwedTell'
    BY <1>1, <1>3 DEF OwedTell
  <1>7. ASSUME dispatchErr = "none" PROVE ReadyOnes = Packages
    BY <1>1, <1>7 DEF OwedTell, ReadyOnes
  <1>8. CASE text /\ ~NothingRan
    <2> DEFINE rest == {p \in (flushed + 1)..NPackages : Ready(p, expected, completed, fixed)}
    <2>1. flushed' = NPackages /\ reported' = reported \o Ascending(rest)
      BY <1>8 DEF Returns, FinalOrder
    <2>2. /\ flushed \in 0..NPackages /\ reported \in Seq(Packages) /\ Rising(reported)
          /\ Len(reported) = flushed /\ \A i \in 1..Len(reported) : reported[i] <= flushed
      BY <1>1, <1>8 DEF StreamTypes, ReportsTell
    <2>3. rest \in SUBSET Packages /\ \A p \in rest : p > flushed
      BY <2>2, PipelineAssumption DEF Packages
    <2>4. dispatchErr = "none" => rest = (flushed + 1)..NPackages
      BY <1>7, <2>2, PipelineAssumption DEF Packages, ReadyOnes, IsReady
    <2> HIDE DEF rest
    <2>5. /\ Ascending(rest) \in Seq(rest) /\ Ascending(rest) \in Seq(Packages)
          /\ Rising(Ascending(rest)) /\ Len(Ascending(rest)) = Cardinality(rest)
      BY <2>3, AscendingRises
    <2>6. \A i \in 1..Len(Ascending(rest)) : Ascending(rest)[i] > flushed
      BY <2>3, <2>5, ElementOfSeq
    <2>7. /\ reported' \in Seq(Packages) /\ Rising(reported')
          /\ Len(reported') = Len(reported) + Len(Ascending(rest))
      <3>1. flushed \in Nat
        BY <2>2, PipelineAssumption
      <3> QED BY <2>1, <2>2, <2>5, <2>6, <3>1, JoinedRises
    <2>8. \A i \in 1..Len(reported') : reported'[i] <= flushed'
      <3>1. \A i \in 1..Len(reported') : reported'[i] \in Packages
        BY <2>7, ElementOfSeq
      <3> QED BY <2>1, <3>1, PipelineAssumption DEF Packages
    <2>9. dispatchErr = "none" => Len(reported') = NPackages
      <3>1. Cardinality((flushed + 1)..NPackages) = NPackages - flushed
        <4>1. flushed + 1 \in Int /\ NPackages \in Int /\ flushed \in Nat /\ flushed <= NPackages
          BY <2>2, PipelineAssumption
        <4>2. Cardinality((flushed + 1)..NPackages) =
                 IF flushed + 1 > NPackages THEN 0 ELSE NPackages - (flushed + 1) + 1
          BY <4>1, FS_Interval
        <4> QED BY <4>1, <4>2
      <3> QED BY <2>2, <2>4, <2>5, <2>7, <3>1, PipelineAssumption
    <2>10. StreamTypes'
      BY <1>1, <2>1, <2>7, PipelineAssumption DEF StreamTypes
    <2>11. ReportsTell'
      BY <1>1, <1>8, <2>7, <2>8, <2>9 DEF ReportsTell
    <2> QED BY <1>5, <1>6, <2>10, <2>11
  <1>9. CASE ~(text /\ ~NothingRan)
    <2>1. UNCHANGED flushed /\ UNCHANGED reported
      BY <1>9 DEF Returns
    <2>2. dispatchErr = "none" => Len(reported) = NPackages
      <3> SUFFICES ASSUME dispatchErr = "none" PROVE Len(reported) = NPackages
        OBVIOUS
      <3>1. CASE ~text
        BY <1>7, <3>1, PackagesAreFinite DEF ReportsTell
      <3>2. CASE text /\ NothingRan
        <4>1. \A p \in Packages : ~IsReady(p)
          BY <3>2 DEF NothingRan, IsReady, Ready
        <4>2. Packages = {}
          BY <1>7, <4>1 DEF ReadyOnes
        <4>3. NPackages = 0
          BY <4>2, PipelineAssumption DEF Packages
        <4> QED BY <1>1, <3>2, <4>3 DEF ReportsTell, StreamTypes
      <3> QED BY <1>9, <3>1, <3>2
    <2>3. StreamTypes'
      BY <1>1, <2>1 DEF StreamTypes
    <2>4. ReportsTell'
      BY <1>1, <1>4, <2>1, <2>2 DEF ReportsTell, Rising
    <2> QED BY <1>5, <1>6, <2>3, <2>4
  <1> QED BY <1>8, <1>9

LEMMA StreamStep == StreamInv /\ PipelineInv /\ [PipelineNext]_pipelineVars => StreamInv'
  <1> SUFFICES ASSUME StreamInv, PipelineInv, PipelineNext \/ UNCHANGED pipelineVars PROVE StreamInv'
    OBVIOUS
  <1> DEFINE Still == /\ UNCHANGED <<text, broken, expected, completed, fixed, flushed, reported>>
                      /\ UNCHANGED stage /\ UNCHANGED dispatchErr
             Ran(s) == /\ UNCHANGED <<text, broken, context, compiled, dispatchErr>> /\ UNCHANGED stage
                       /\ at' = [at EXCEPT ![s] = "over"]
  <1>1. CASE UNCHANGED pipelineVars \/ \E how \in {"canceled", "deadline"} : ContextEnds(how)
    <2>1. Still /\ UNCHANGED compiled /\ UNCHANGED at
      BY <1>1 DEF pipelineVars, ContextEnds, inputs, collector
    <2>2. UNCHANGED context \/ (context' # "live" /\ context' \in {"canceled", "deadline"})
      BY <1>1 DEF pipelineVars, ContextEnds
    <2> QED BY <2>1, <2>2, QuietKeeps
  <1>2. CASE NextScope \/ \E how \in {"up", "failed", "stopped"} : FixtureSettles(how)
    <2>1. Still /\ UNCHANGED compiled /\ UNCHANGED at /\ UNCHANGED context
      BY <1>2 DEF NextScope, FixtureSettles, inputs, collector
    <2> QED BY <2>1, QuietKeeps
  <1>3. ASSUME NEW p \in Packages, BenchCompiled(p) PROVE StreamInv'
    <2>1. Still /\ stage = "prepare" /\ UNCHANGED at /\ UNCHANGED context
      BY <1>3 DEF BenchCompiled, inputs, collector
    <2>2. compiled' \in [Packages -> {"pending", "built", "failed"}]
      BY <1>3 DEF BenchCompiled, StreamInv, StreamTypes
    <2>3. StreamTypes'
      BY <2>1, <2>2 DEF StreamInv, StreamTypes
    <2> QED BY <2>1, <2>3, QuietKeeps
  <1>4. ASSUME NEW s \in RunSuites, FixtureThere(s) \/ SuiteStarts(s) PROVE StreamInv'
    <2>1. Still /\ UNCHANGED compiled /\ UNCHANGED context
      BY <1>4 DEF FixtureThere, SuiteStarts, inputs, collector
    <2>2. at[s] \in {"waiting", "queued"} /\ \E v \in {"queued", "running"} : at' = [at EXCEPT ![s] = v]
      BY <1>4 DEF FixtureThere, SuiteStarts
    <2>3. \A r \in RunSuites : (at'[r] = "out" <=> at[r] = "out") /\ (at'[r] = "over" <=> at[r] = "over")
      BY <2>2 DEF PipelineInv, PipelineShape
    <2> QED BY <2>1, <2>3, QuietKeeps
  <1>5. CASE BulkStarts
    <2>1. Still /\ UNCHANGED compiled /\ UNCHANGED context
      BY <1>5 DEF BulkStarts, inputs, collector
    <2>2. PICK bulk : /\ bulk = {s \in BulkOf(scopeAt) : at[s] = "deferred"}
                      /\ at' = [s \in RunSuites |-> IF s \in bulk THEN "queued" ELSE at[s]]
      BY <1>5 DEF BulkStarts
    <2>3. \A r \in RunSuites : (at'[r] = "out" <=> at[r] = "out") /\ (at'[r] = "over" <=> at[r] = "over")
      BY <2>2
    <2> QED BY <2>1, <2>3, QuietKeeps
  <1>6. ASSUME NEW s \in RunSuites, at[s] = "deferred", at' = [at EXCEPT ![s] = "running"],
               Still, UNCHANGED compiled, UNCHANGED context
        PROVE  StreamInv'
    <2>1. \A r \in RunSuites : (at'[r] = "out" <=> at[r] = "out") /\ (at'[r] = "over" <=> at[r] = "over")
      BY <1>6 DEF PipelineInv, PipelineShape
    <2> QED BY <1>6, <2>1, QuietKeeps
  <1>7. ASSUME NEW s \in RunSuites, Ran(s), at[s] \notin {"out", "over"}, stage # "returned",
               NEW o, RecordResult(s, o)
        PROVE  StreamInv'
    BY <1>7, ResultKeeps
  <1>8. ASSUME NEW s \in RunSuites, TailStarts(s) PROVE StreamInv'
    <2>1. at[s] = "deferred" /\ stage = "scopes" /\ UNCHANGED stage
      BY <1>8 DEF TailStarts, TailMayStart
    <2>2. CASE at' = [at EXCEPT ![s] = "running"] /\ UNCHANGED collector
      <3>1. Still /\ UNCHANGED compiled /\ UNCHANGED context
        BY <1>8, <2>2 DEF TailStarts, inputs, collector
      <3> QED BY <1>6, <2>1, <2>2, <3>1
    <2>3. CASE at' = [at EXCEPT ![s] = "over"] /\ (RecordStopped(s) \/ RecordGivenUp(s) \/ RecordResult(s, "fail"))
      <3>1. Ran(s)
        BY <1>8, <2>3 DEF TailStarts, inputs
      <3> QED BY <1>7, <2>1, <2>3, <3>1 DEF RecordStopped, RecordGivenUp
    <2> QED BY <1>8, <2>2, <2>3 DEF TailStarts
  <1>9. ASSUME NEW s \in RunSuites, BenchSlot(s) PROVE StreamInv'
    <2>1. at[s] = "deferred" /\ stage = "bench" /\ UNCHANGED stage
      BY <1>9 DEF BenchSlot
    <2>2. CASE at' = [at EXCEPT ![s] = "running"] /\ UNCHANGED collector
      <3>1. Still /\ UNCHANGED compiled /\ UNCHANGED context
        BY <1>9, <2>2 DEF BenchSlot, inputs, collector
      <3> QED BY <1>6, <2>1, <2>2, <3>1
    <2>3. CASE at' = [at EXCEPT ![s] = "over"] /\ RecordGivenUp(s)
      <3>1. Ran(s)
        BY <1>9, <2>3 DEF BenchSlot, inputs
      <3> QED BY <1>7, <2>1, <2>3, <3>1 DEF RecordGivenUp
    <2> QED BY <1>9, <2>2, <2>3 DEF BenchSlot
  <1>10. ASSUME NEW s \in RunSuites, NeverRuns(s) \/ SuiteEnds(s) \/ DeferredGivenUp(s)
         PROVE  StreamInv'
    <2>1. Ran(s) /\ at[s] \in {"waiting", "queued", "running"}
      BY <1>10 DEF NeverRuns, SuiteEnds, DeferredGivenUp, inputs
    <2>2. stage # "returned"
      BY <2>1 DEF PipelineInv, StageTells, StartedOrQueued
    <2>3. \E o : RecordResult(s, o)
      BY <1>10 DEF NeverRuns, SuiteEnds, DeferredGivenUp, RecordStopped, RecordGivenUp
    <2> QED BY <1>7, <2>1, <2>2, <2>3
  <1> QED
    BY <1>1, <1>2, <1>3, <1>4, <1>5, <1>8, <1>9, <1>10, CompiledKeeps, BooksKeep, StagesKeep, ReturnsKeep
       DEF PipelineNext

\* For any packages and suites, and however the run is stopped: every package
\* is reported at most once, in the flush order if the output is text, and a
\* run nothing cut short reports every package (flushReadyText, Finalize,
\* output_collector.go).
THEOREM PackagesReportedOnce == PipelineSpec => []ReportedOnceInOrder
  <1>1. PipelineSpec => []StreamInv
    BY StreamInitHolds, StreamStep, PipelineInvHolds, PTL DEF PipelineSpec
  <1>2. StreamInv => ReportedOnceInOrder
    <2> SUFFICES ASSUME StreamInv PROVE ReportedOnceInOrder
      OBVIOUS
    <2>1. DOMAIN reported = 1..Len(reported) /\ \A i \in 1..Len(reported) : reported[i] \in Nat
      BY LenProperties, ElementOfSeq, PackagesAreFinite DEF StreamInv, StreamTypes
    <2>2. \A m, n \in Nat : m < n => m # n
      OBVIOUS
    <2>3. CASE text
      BY <2>1, <2>2, <2>3 DEF StreamInv, ReportsTell, Rising, ReportedOnceInOrder
    <2>4. CASE ~text
      BY <2>1, <2>4 DEF StreamInv, ReportsTell, ReportedOnceInOrder
    <2> QED BY <2>3, <2>4 DEF StreamInv, StreamTypes
  <1> QED BY <1>1, <1>2, PTL

-----------------------------------------------------------------------------
(* The exit code *)

\* The run has not been cut short where it could still tell.
Whole == \/ stage \in {"stream", "drain", "scopes"} /\ context = "live"
         \/ stage = "bench"
         \/ stage \in {"teardown", "returned"} /\ dispatchErr = "none"

\* What worst and what the run has come to say as long as no code was recorded.
GreenTells ==
    /\ worst \in 0..2 /\ DOMAIN outcome = RunSuites
    /\ context = "live" \/ (stage \in {"teardown", "returned"} /\ dispatchErr = "none") => cutShort = {}
    /\ worst = 0 => \A s \in RunSuites : at[s] = "over" => outcome[s] \in {"pass", "silent"}
    /\ worst = 0 /\ Whole => /\ broken = {}
                             /\ \A p \in PackagesWithSuites : compiled[p] # "failed"
    /\ stage \in {"stream", "drain", "scopes"} =>
          \A s \in planned : compiled[PackageOf[s]] = "built" => at[s] # "out"
    /\ stage = "bench" => \A p \in PackagesWithSuites : compiled[p] # "pending"
    /\ stage = "bench" /\ worst = 0 => \A s \in planned : at[s] # "out"
    /\ worst = 0 /\ stage \in {"teardown", "returned"} /\ dispatchErr = "none" =>
          /\ \A p \in PackagesWithSuites : compiled[p] = "built"
          /\ \A s \in planned : at[s] = "over"

GreenInv == GreenTells /\ GreenIsTrue

LEMMA GreenInitHolds == PipelineInit => GreenInv
  <1> SUFFICES ASSUME PipelineInit PROVE GreenInv
    OBVIOUS
  <1>1. PICK where : /\ PipelineIn(where, "none")
                     /\ \/ where = "prepare" /\ bench
                        \/ where = "stream" /\ ~bench
    BY DEF PipelineInit
  <1>2. /\ context = "live" /\ dispatchErr = "none" /\ stage = where /\ cutShort = {}
        /\ compiled = [p \in Packages |-> "pending"] /\ at = [s \in RunSuites |-> "out"]
        /\ outcome = [s \in RunSuites |-> "none"] /\ planned \subseteq RunSuites
        /\ worst = IF broken = {} \/ bench THEN 0 ELSE 2
    BY <1>1, PipelineAssumption DEF PipelineIn
  <1>3. GreenTells
    BY <1>1, <1>2, SetsOfSuites DEF GreenTells, Whole
  <1> QED BY <1>1, <1>2, <1>3 DEF GreenInv, GreenIsTrue

\* Steps that record nothing, end no suite and begin none.
LEMMA GreenQuiet ==
    ASSUME GreenInv, stage # "returned",
           UNCHANGED <<broken, planned, worst, outcome, cutShort, compiled>>,
           UNCHANGED stage, UNCHANGED dispatchErr,
           UNCHANGED context \/ context' # "live",
           \A s \in RunSuites : (at'[s] = "out" <=> at[s] = "out") /\ (at'[s] = "over" <=> at[s] = "over"),
           planned \subseteq RunSuites
    PROVE  GreenInv'
  <1>1. Whole' => Whole
    BY DEF Whole
  <1>2. GreenTells'
    BY <1>1 DEF GreenInv, GreenTells
  <1> QED BY <1>2 DEF GreenInv, GreenIsTrue

\* A verdict that leaves the code at zero is a pass, or a binary's silence.
LEMMA GreenResult ==
    ASSUME GreenInv, PipelineInv, NEW s \in RunSuites, at' = [at EXCEPT ![s] = "over"],
           at[s] \notin {"out", "over"},
           NEW o, RecordResult(s, o),
           UNCHANGED <<broken, planned, context, compiled, dispatchErr>>, UNCHANGED stage,
           stage \notin {"teardown", "returned"},
           UNCHANGED cutShort \/ context # "live"
    PROVE  GreenInv'
  <1>1. /\ outcome' = [outcome EXCEPT ![s] = o]
        /\ worst' = IF CodeOf(o) > worst THEN CodeOf(o) ELSE worst
    BY DEF RecordResult
  <1>2. CodeOf(o) \in 0..2 /\ (CodeOf(o) = 0 => o \in {"pass", "silent"})
    <2>1. o \in {"pass", "silent"} => CodeOf(o) = 0
      BY DEF CodeOf
    <2>2. o = "unstarted" => CodeOf(o) = 2
      BY DEF CodeOf
    <2>3. o \notin {"pass", "silent", "unstarted"} => CodeOf(o) = 1
      BY DEF CodeOf
    <2> QED BY <2>1, <2>2, <2>3
  <1>3. worst' \in 0..2 /\ (worst' = 0 => worst = 0 /\ o \in {"pass", "silent"})
    <2>1. worst \in 0..2
      BY DEF GreenInv, GreenTells
    <2> QED BY <1>1, <1>2, <2>1
  <1>4. \A r \in RunSuites : /\ at'[r] = IF r = s THEN "over" ELSE at[r]
                             /\ outcome'[r] = IF r = s THEN o ELSE outcome[r]
    BY <1>1 DEF PipelineInv, PipelineShape, GreenInv, GreenTells
  <1>5. DOMAIN outcome' = RunSuites
    BY <1>1 DEF GreenInv, GreenTells
  <1>6. Whole' <=> Whole
    BY DEF Whole
  <1>7. planned \subseteq RunSuites
    BY DEF PipelineInv, PipelineShape
  <1>8. GreenTells'
    <2>1. worst' = 0 => \A r \in RunSuites : at'[r] = "over" => outcome'[r] \in {"pass", "silent"}
      BY <1>3, <1>4 DEF GreenInv, GreenTells
    <2>2. \A r \in planned : at[r] # "out" => at'[r] # "out"
      BY <1>4, <1>7
    <2>3. stage \in {"stream", "drain", "scopes"} =>
             \A r \in planned : compiled[PackageOf[r]] = "built" => at'[r] # "out"
      BY <2>2 DEF GreenInv, GreenTells
    <2>4. stage = "bench" /\ worst' = 0 => \A r \in planned : at'[r] # "out"
      BY <1>3, <2>2 DEF GreenInv, GreenTells
    <2> QED BY <1>3, <1>5, <1>6, <2>1, <2>3, <2>4 DEF GreenInv, GreenTells
  <1> QED BY <1>8 DEF GreenInv, GreenIsTrue

LEMMA GreenCompiled ==
    ASSUME GreenInv, StreamInv, PipelineInv, NEW p \in Packages, TakeCompiled(p)
    PROVE  GreenInv'
  <1>1. /\ stage = "stream" /\ p \in PackagesWithSuites /\ compiled[p] = "pending"
        /\ UNCHANGED <<broken, planned, context, dispatchErr, cutShort>> /\ UNCHANGED stage
    BY DEF TakeCompiled, inputs
  <1>2. InFlight(p) = {} /\ planned \subseteq RunSuites
    BY <1>1 DEF StreamInv, CountsTell, PipelineInv, PipelineShape
  <1>3. \A s \in RunSuites : PackageOf[s] = p => at[s] = "out"
    BY <1>2 DEF InFlight, SuitesIn
  <1>4. \A s \in RunSuites : /\ PackageOf[s] # p => at'[s] = at[s]
                             /\ at'[s] # "over" \/ at'[s] = at[s]
    <2>1. \/ UNCHANGED at
          \/ at' = [s \in RunSuites |-> IF s \notin planned \cap SuitesIn(p) THEN at[s]
                                        ELSE IF Defers(s) THEN "deferred" ELSE "waiting"]
      BY DEF TakeCompiled
    <2> QED BY <2>1 DEF SuitesIn
  <1>5. CASE compiled' = [compiled EXCEPT ![p] = "failed"] /\ UNCHANGED at
             /\ IF context = "live" THEN RecordBuildFailure(p) ELSE UNCHANGED collector
    <2>1. /\ context = "live" => worst' = 2
          /\ UNCHANGED outcome /\ worst' \in 0..2 /\ (worst' = 0 => worst = 0)
      <3>1. UNCHANGED outcome /\ (worst' = 2 \/ (context # "live" /\ worst' = worst))
        BY <1>5 DEF RecordBuildFailure, collector
      <3>2. worst \in 0..2
        BY DEF GreenInv, GreenTells
      <3> QED BY <3>1, <3>2
    <2>2. /\ compiled'[p] = "failed"
          /\ \A q \in Packages : q # p => compiled'[q] = compiled[q]
      BY <1>5 DEF StreamInv, StreamTypes
    <2>3. Whole' => context = "live"
      BY <1>1 DEF Whole
    <2>4. \A s \in planned : compiled'[PackageOf[s]] = "built" => compiled[PackageOf[s]] = "built"
      BY <1>2, <2>2, SetsOfSuites
    <2>5. ~(worst' = 0 /\ Whole')
      BY <2>1, <2>3, <1>1
    <2>6. GreenTells'
      BY <1>1, <1>5, <2>1, <2>4, <2>5 DEF GreenInv, GreenTells
    <2> QED BY <1>1, <2>6 DEF GreenInv, GreenIsTrue
  <1>6. CASE /\ compiled' = [compiled EXCEPT ![p] = "built"]
             /\ UNCHANGED worst /\ UNCHANGED outcome
             /\ \A s \in planned : PackageOf[s] = p => at'[s] # "out"
    <2>1. /\ compiled'[p] = "built"
          /\ \A q \in Packages : q # p => compiled'[q] = compiled[q]
      BY <1>6 DEF StreamInv, StreamTypes
    <2>2. Whole' <=> Whole
      BY <1>1 DEF Whole
    <2>3. \A s \in RunSuites : at'[s] = "over" => at[s] = "over"
      BY <1>4
    <2>4. \A s \in planned : compiled'[PackageOf[s]] = "built" => at'[s] # "out"
      <3> SUFFICES ASSUME NEW s \in planned, compiled'[PackageOf[s]] = "built" PROVE at'[s] # "out"
        OBVIOUS
      <3>1. s \in RunSuites /\ PackageOf[s] \in Packages
        BY <1>2, SetsOfSuites
      <3>2. CASE PackageOf[s] = p
        BY <1>6, <3>2
      <3>3. CASE PackageOf[s] # p
        <4>1. compiled[PackageOf[s]] = "built" /\ at'[s] = at[s]
          BY <1>4, <2>1, <3>1, <3>3
        <4> QED BY <1>1, <4>1 DEF GreenInv, GreenTells
      <3> QED BY <3>2, <3>3
    <2>5. \A q \in PackagesWithSuites : compiled[q] # "failed" => compiled'[q] # "failed"
      BY <2>1, SetsOfSuites
    <2>6. GreenTells'
      <3>1. worst' = 0 => \A s \in RunSuites : at'[s] = "over" => outcome'[s] \in {"pass", "silent"}
        BY <1>6, <2>3 DEF GreenInv, GreenTells
      <3>2. worst' = 0 /\ Whole' => broken = {} /\ \A q \in PackagesWithSuites : compiled'[q] # "failed"
        BY <1>6, <2>2, <2>5 DEF GreenInv, GreenTells
      <3> QED BY <1>1, <1>6, <2>4, <3>1, <3>2 DEF GreenInv, GreenTells
    <2> QED BY <1>1, <2>6 DEF GreenInv, GreenIsTrue
  <1>7. ASSUME NEW targets, targets = planned \cap SuitesIn(p),
               compiled' = [compiled EXCEPT ![p] = "built"],
               \/ targets = {} /\ RecordFixed(p)
               \/ /\ Register(p, Cardinality(targets))
                  /\ at' = [s \in RunSuites |-> IF s \notin targets THEN at[s]
                                                ELSE IF Defers(s) THEN "deferred" ELSE "waiting"]
        PROVE  GreenInv'
    <2>1. UNCHANGED worst /\ UNCHANGED outcome
      BY <1>7 DEF RecordFixed, Register
    <2>2. \A s \in planned : PackageOf[s] = p => at'[s] # "out"
      BY <1>2, <1>7 DEF SuitesIn
    <2> QED BY <1>6, <1>7, <2>1, <2>2
  <1> QED BY <1>5, <1>7 DEF TakeCompiled

LEMMA GreenBench ==
    ASSUME GreenInv, StreamInv, PipelineInv, BenchBooks \/ \E p \in Packages : BenchCompiled(p)
    PROVE  GreenInv'
  <1>1. stage = "prepare" /\ UNCHANGED <<broken, planned, context, dispatchErr, cutShort, outcome>> /\ planned \subseteq RunSuites
    BY DEF BenchBooks, BenchCompiled, inputs, collector, PipelineInv, PipelineShape
  <1>2. CASE \E p \in Packages : BenchCompiled(p)
    <2>1. UNCHANGED <<at, worst>> /\ UNCHANGED stage
      BY <1>2 DEF BenchCompiled, collector
    <2>2. ~Whole'
      BY <1>1, <2>1 DEF Whole
    <2>3. GreenTells'
      BY <1>1, <2>1, <2>2 DEF GreenInv, GreenTells
    <2> QED BY <1>1, <2>1, <2>3 DEF GreenInv, GreenIsTrue
  <1>3. CASE BenchBooks
    <2>1. /\ stage' = "bench" /\ UNCHANGED compiled
          /\ \A p \in PackagesWithSuites : compiled[p] # "pending"
      BY <1>3 DEF BenchBooks
    <2>2. PICK unbuilt, targets :
             /\ unbuilt = broken \cup {p \in Packages : compiled[p] = "failed"}
             /\ targets = {s \in planned : PackageOf[s] \notin unbuilt}
             /\ worst' = IF unbuilt = {} THEN 0 ELSE 2
             /\ at' = [s \in RunSuites |-> IF s \in targets THEN "deferred" ELSE "out"]
      BY <1>3 DEF BenchBooks
    <2>3. worst' \in 0..2 /\ \A s \in RunSuites : at'[s] # "over"
      BY <2>2
    <2>4. worst' = 0 => unbuilt = {}
      BY <2>2
    <2>5. worst' = 0 => broken = {} /\ \A p \in PackagesWithSuites : compiled[p] # "failed"
      BY <2>2, <2>4, SetsOfSuites
    <2>6. worst' = 0 => \A s \in planned : at'[s] # "out"
      BY <1>1, <2>2, <2>4
    <2>7. GreenTells'
      BY <1>1, <2>1, <2>3, <2>5, <2>6 DEF GreenInv, GreenTells
    <2> QED BY <2>1, <2>7 DEF GreenInv, GreenIsTrue
  <1> QED BY <1>2, <1>3

LEMMA GreenStages ==
    ASSUME GreenInv, StreamInv, PipelineInv, StreamOver \/ Drain \/ VerdictsIn \/ BenchOver
    PROVE  GreenInv'
  <1>1. /\ UNCHANGED <<broken, planned, context, compiled, cutShort, worst, outcome>> /\ UNCHANGED at
        /\ stage # "returned" /\ stage' \in {"drain", "scopes", "teardown"} /\ planned \subseteq RunSuites
    BY DEF StreamOver, Drain, VerdictsIn, BenchOver, inputs, collector, PipelineInv, PipelineShape
  <1>2. CASE StreamOver \/ Drain
    <2>1. /\ stage \in {"stream", "drain"} /\ stage' \in {"drain", "scopes"} /\ UNCHANGED dispatchErr
      BY <1>2 DEF StreamOver, Drain
    <2>2. Whole' <=> Whole
      BY <1>1, <2>1 DEF Whole
    <2>3. GreenTells'
      BY <1>1, <2>1, <2>2 DEF GreenInv, GreenTells
    <2> QED BY <1>1, <2>3 DEF GreenInv, GreenIsTrue
  <1>3. ASSUME stage' = "teardown", dispatchErr' = "none" => context = "live",
               worst = 0 /\ context = "live" =>
                  /\ Whole /\ \A p \in PackagesWithSuites : compiled[p] # "pending"
                  /\ \A s \in planned : at[s] # "out",
               context = "live" => \A s \in RunSuites : at[s] \in Through
        PROVE  GreenInv'
    <2>1. worst = 0 /\ context = "live" => broken = {} /\ \A p \in PackagesWithSuites : compiled[p] # "failed"
      BY <1>3 DEF GreenInv, GreenTells
    <2>2. worst = 0 /\ context = "live" => \A p \in PackagesWithSuites : compiled[p] = "built"
      BY <1>3, <2>1, SetsOfSuites DEF StreamInv, StreamTypes
    <2>3. worst = 0 /\ context = "live" => \A s \in planned : at[s] = "over"
      BY <1>1, <1>3 DEF Through
    <2>4. GreenTells'
      BY <1>1, <1>3, <2>1, <2>2, <2>3 DEF GreenInv, GreenTells, Whole
    <2> QED BY <1>3, <2>4 DEF GreenInv, GreenIsTrue
  <1>4. CASE VerdictsIn
    <2>1. stage = "scopes" /\ stage' = "teardown" /\ \A s \in RunSuites : at[s] \in Through
      BY <1>4 DEF VerdictsIn, Left, Through, PipelineInv, PipelineShape
    <2>2. dispatchErr' = "none" => context = "live"
      BY <1>4 DEF VerdictsIn, AllIn, StreamInv, StreamTypes
    <2>3. context = "live" => Whole /\ \A p \in PackagesWithSuites : compiled[p] # "pending"
      BY <2>1 DEF Whole, StreamInv, OwedTell
    <2>4. worst = 0 /\ context = "live" => \A s \in planned : at[s] # "out"
      <3> SUFFICES ASSUME worst = 0, context = "live", NEW s \in planned PROVE at[s] # "out"
        OBVIOUS
      <3>1. PackageOf[s] \in PackagesWithSuites /\ PackageOf[s] \in Packages
        BY <1>1, SetsOfSuites
      <3>2. compiled[PackageOf[s]] # "pending" /\ compiled[PackageOf[s]] # "failed"
        BY <2>3, <3>1 DEF GreenInv, GreenTells
      <3>3. compiled[PackageOf[s]] = "built"
        BY <3>1, <3>2 DEF StreamInv, StreamTypes
      <3> QED BY <2>1, <3>3 DEF GreenInv, GreenTells
    <2> QED BY <1>3, <2>1, <2>2, <2>3, <2>4
  <1>5. CASE BenchOver
    <2>1. stage' = "teardown" /\ (dispatchErr' = "none" => context = "live")
      BY <1>5 DEF BenchOver, StreamInv, StreamTypes
    <2>2. context = "live" => stage = "bench" /\ \A s \in RunSuites : at[s] \in Through
      BY <1>5 DEF BenchOver, Running, Through, PipelineInv, PipelineShape, StageTells
    <2>3. worst = 0 /\ context = "live" =>
             /\ Whole /\ \A p \in PackagesWithSuites : compiled[p] # "pending"
             /\ \A s \in planned : at[s] # "out"
      BY <2>2 DEF Whole, GreenInv, GreenTells
    <2> QED BY <1>3, <2>1, <2>2, <2>3
  <1> QED BY <1>2, <1>4, <1>5

\* The exit code is zero only when nothing kept it from it.
LEMMA GreenReturns ==
    ASSUME GreenInv, StreamInv, PipelineInv, NEW ok \in BOOLEAN, Returns(ok)
    PROVE  GreenInv'
  <1>1. /\ stage = "teardown" /\ stage' = "returned"
        /\ UNCHANGED <<text, broken, planned, compiled, cutShort, worst, outcome, dispatchErr>>
        /\ UNCHANGED <<at, fixtureUp>> /\ UNCHANGED context
    BY DEF Returns, inputs
  <1>2. GreenTells'
    BY <1>1 DEF GreenInv, GreenTells, Whole
  <1>3. ASSUME runExit' = 0 PROVE GreenIsTrue'
    <2> DEFINE setup == fixtureUp = "failed"
               code == Failing(AfterDispatch(worst), setup)
    <2>1. /\ runExit' = Failing(IF NothingRan THEN AfterDispatch(0) ELSE TakeCensus(code),
                                dispatchErr = "deadline" \/ setup \/ ~ok)
      BY DEF Returns
    <2> HIDE DEF code
    <2>2. /\ dispatchErr # "deadline" /\ fixtureUp # "failed"
          /\ NothingRan => AfterDispatch(0) = 0
          /\ ~NothingRan => TakeCensus(code) = 0
      BY <1>3, <2>1 DEF Failing
    <2>3. ~NothingRan => code = 0
      BY <2>2 DEF TakeCensus
    <2>4. ~NothingRan => AfterDispatch(worst) = 0
      BY <2>2, <2>3 DEF Failing, code
    <2>5. dispatchErr = "none" /\ (~NothingRan => worst = 0)
      BY <2>2, <2>4 DEF AfterDispatch, StreamInv, StreamTypes
    <2>6. CASE NothingRan
      <3>1. \A p \in Packages : ~IsReady(p)
        BY <2>6 DEF NothingRan, IsReady, Ready
      <3>2. Packages = {}
        BY <1>1, <2>5, <3>1 DEF StreamInv, OwedTell
      <3>3. RunSuites = {} /\ PackagesWithSuites = {} /\ broken = {} /\ planned = {}
        BY <3>2, SetsOfSuites DEF StreamInv, StreamTypes, PipelineInv, PipelineShape
      <3>4. cutShort = {}
        BY <1>1, <2>5 DEF GreenInv, GreenTells
      <3> QED BY <1>1, <2>2, <2>5, <3>3, <3>4 DEF GreenIsTrue
    <2>7. CASE ~NothingRan
      <3>1. /\ cutShort = {} /\ broken = {} /\ \A p \in PackagesWithSuites : compiled[p] = "built"
            /\ \A s \in planned : at[s] = "over" /\ s \in RunSuites
        BY <1>1, <2>5, <2>7 DEF GreenInv, GreenTells, Whole, PipelineInv, PipelineShape
      <3>2. \A s \in planned : outcome[s] \in {"pass", "silent"}
        BY <2>5, <2>7, <3>1 DEF GreenInv, GreenTells
      <3>3. ~text /\ planned = RunSuites => \A s \in RunSuites : outcome[s] # "silent"
        BY <2>2, <2>3, <2>5, <2>7 DEF TakeCensus
      <3>4. text \in BOOLEAN
        BY DEF StreamInv, StreamTypes
      <3>5. \A s \in planned : outcome[s] = "pass" \/ (outcome[s] = "silent" /\ (text \/ planned # RunSuites))
        BY <3>1, <3>2, <3>3, <3>4
      <3> QED BY <1>1, <2>2, <2>5, <3>1, <3>5 DEF GreenIsTrue
    <2> QED BY <2>6, <2>7
  <1>4. ASSUME runExit' # 0 PROVE GreenIsTrue'
    BY <1>4 DEF GreenIsTrue
  <1> QED BY <1>2, <1>3, <1>4 DEF GreenInv

LEMMA GreenStep == GreenInv /\ StreamInv /\ PipelineInv /\ [PipelineNext]_pipelineVars => GreenInv'
  <1> SUFFICES ASSUME GreenInv, StreamInv, PipelineInv, PipelineNext \/ UNCHANGED pipelineVars
               PROVE  GreenInv'
    OBVIOUS
  <1> DEFINE Still == /\ UNCHANGED <<broken, planned, worst, outcome, cutShort, compiled>>
                      /\ UNCHANGED stage /\ UNCHANGED dispatchErr
             Ran(s) == /\ UNCHANGED <<broken, planned, context, compiled, dispatchErr>> /\ UNCHANGED stage
                       /\ at' = [at EXCEPT ![s] = "over"]
  <1>0. planned \subseteq RunSuites
    BY DEF PipelineInv, PipelineShape
  <1>1. CASE UNCHANGED pipelineVars
    BY <1>1 DEF pipelineVars, GreenInv, GreenTells, GreenIsTrue, Whole
  <1>2. CASE \/ NextScope
             \/ \E how \in {"up", "failed", "stopped"} : FixtureSettles(how)
             \/ \E how \in {"canceled", "deadline"} : ContextEnds(how)
    <2>1. Still /\ UNCHANGED at /\ stage # "returned" /\ (UNCHANGED context \/ context' # "live")
      BY <1>2 DEF NextScope, FixtureSettles, ContextEnds, inputs, collector
    <2> QED BY <1>0, <2>1, GreenQuiet
  <1>3. ASSUME NEW s \in RunSuites, FixtureThere(s) \/ SuiteStarts(s) PROVE GreenInv'
    <2>1. Still /\ UNCHANGED context
      BY <1>3 DEF FixtureThere, SuiteStarts, inputs, collector
    <2>2. at[s] \in {"waiting", "queued"} /\ \E v \in {"queued", "running"} : at' = [at EXCEPT ![s] = v]
      BY <1>3 DEF FixtureThere, SuiteStarts
    <2>3. \A r \in RunSuites : (at'[r] = "out" <=> at[r] = "out") /\ (at'[r] = "over" <=> at[r] = "over")
      BY <2>2 DEF PipelineInv, PipelineShape
    <2>4. stage # "returned"
      BY <2>2 DEF PipelineInv, StageTells, StartedOrQueued
    <2> QED BY <1>0, <2>1, <2>3, <2>4, GreenQuiet
  <1>4. CASE BulkStarts
    <2>1. Still /\ UNCHANGED context /\ stage # "returned"
      BY <1>4 DEF BulkStarts, inputs, collector
    <2>2. PICK bulk : /\ bulk = {s \in BulkOf(scopeAt) : at[s] = "deferred"}
                      /\ at' = [s \in RunSuites |-> IF s \in bulk THEN "queued" ELSE at[s]]
      BY <1>4 DEF BulkStarts
    <2>3. \A r \in RunSuites : (at'[r] = "out" <=> at[r] = "out") /\ (at'[r] = "over" <=> at[r] = "over")
      BY <2>2
    <2> QED BY <1>0, <2>1, <2>3, GreenQuiet
  <1>5. ASSUME NEW s \in RunSuites, at[s] = "deferred", at' = [at EXCEPT ![s] = "running"],
               Still, UNCHANGED context, stage # "returned"
        PROVE  GreenInv'
    <2>1. \A r \in RunSuites : (at'[r] = "out" <=> at[r] = "out") /\ (at'[r] = "over" <=> at[r] = "over")
      BY <1>5 DEF PipelineInv, PipelineShape
    <2> QED BY <1>0, <1>5, <2>1, GreenQuiet
  <1>6. ASSUME NEW s \in RunSuites, Ran(s), at[s] \notin {"out", "over"}, stage \notin {"teardown", "returned"},
               NEW o, RecordResult(s, o), UNCHANGED cutShort \/ context # "live"
        PROVE  GreenInv'
    BY <1>6, GreenResult
  <1>7. ASSUME NEW s \in RunSuites, TailStarts(s) PROVE GreenInv'
    <2>1. at[s] = "deferred" /\ stage = "scopes" /\ UNCHANGED stage /\ UNCHANGED cutShort
      BY <1>7 DEF TailStarts, TailMayStart
    <2>2. CASE at' = [at EXCEPT ![s] = "running"] /\ UNCHANGED collector
      <3>1. Still /\ UNCHANGED context
        BY <1>7, <2>2 DEF TailStarts, inputs, collector
      <3> QED BY <1>5, <2>1, <2>2, <3>1
    <2>3. CASE at' = [at EXCEPT ![s] = "over"] /\ (RecordStopped(s) \/ RecordGivenUp(s) \/ RecordResult(s, "fail"))
      <3>1. Ran(s)
        BY <1>7, <2>3 DEF TailStarts, inputs
      <3>2. \E o : RecordResult(s, o)
        BY <2>3 DEF RecordStopped, RecordGivenUp
      <3> QED BY <1>6, <2>1, <3>1, <3>2
    <2> QED BY <1>7, <2>2, <2>3 DEF TailStarts
  <1>8. ASSUME NEW s \in RunSuites, BenchSlot(s) PROVE GreenInv'
    <2>1. at[s] = "deferred" /\ stage = "bench" /\ UNCHANGED stage /\ UNCHANGED cutShort
      BY <1>8 DEF BenchSlot
    <2>2. CASE at' = [at EXCEPT ![s] = "running"] /\ UNCHANGED collector
      <3>1. Still /\ UNCHANGED context
        BY <1>8, <2>2 DEF BenchSlot, inputs, collector
      <3> QED BY <1>5, <2>1, <2>2, <3>1
    <2>3. CASE at' = [at EXCEPT ![s] = "over"] /\ RecordGivenUp(s)
      <3>1. Ran(s)
        BY <1>8, <2>3 DEF BenchSlot, inputs
      <3>2. \E o : RecordResult(s, o)
        BY <2>3 DEF RecordGivenUp
      <3> QED BY <1>6, <2>1, <3>1, <3>2
    <2> QED BY <1>8, <2>2, <2>3 DEF BenchSlot
  <1>9. ASSUME NEW s \in RunSuites, NeverRuns(s) \/ SuiteEnds(s) \/ DeferredGivenUp(s)
        PROVE  GreenInv'
    <2>1. Ran(s) /\ at[s] \in {"waiting", "queued", "running"}
      BY <1>9 DEF NeverRuns, SuiteEnds, DeferredGivenUp, inputs
    <2>2. stage \notin {"teardown", "returned"}
      BY <2>1 DEF PipelineInv, StageTells, StartedOrQueued
    <2>3. \E o : RecordResult(s, o)
      BY <1>9 DEF NeverRuns, SuiteEnds, DeferredGivenUp, RecordStopped, RecordGivenUp
    <2>4. UNCHANGED cutShort \/ context # "live"
      BY <1>9 DEF NeverRuns, SuiteEnds, DeferredGivenUp
    <2> QED BY <1>6, <2>1, <2>2, <2>3, <2>4
  <1> QED
    BY <1>1, <1>2, <1>3, <1>4, <1>7, <1>8, <1>9, GreenCompiled, GreenBench, GreenStages, GreenReturns
       DEF PipelineNext

\* For any packages, suites and selection, and however the run is stopped, exit
\* code 0 means that every package built, every suite the selection left ran to
\* its end and passed, nothing was cut short, and a JSON run without a selection
\* saw every unit's verdict (runStreaming, pipeline.go; takeCensus, census.go).
THEOREM ZeroIsGreen == PipelineSpec => []GreenIsTrue
  <1>1. PipelineSpec => [](PipelineInv /\ StreamInv /\ GreenInv)
    BY StreamInitHolds, StreamStep, PipelineInitHolds, PipelineStep, GreenInitHolds, GreenStep, PTL
       DEF PipelineSpec
  <1>2. GreenInv => GreenIsTrue
    BY DEF GreenInv
  <1> QED BY <1>1, <1>2, PTL

-----------------------------------------------------------------------------
(* The verdict index *)

Behind == {"no", "over", "left", "severed"}

\* What the index knows of a unit by what the unit really did.
VerdictTypes ==
    /\ writing \in 1..(SuiteCount + 1)
    /\ actual \in [Units -> Behind \cup {"running", "paused", "printed"}]
    /\ DOMAIN last = Units /\ running \subseteq Units
    /\ started \subseteq Units /\ cut \subseteq Units /\ waiting \subseteq Units
    /\ ranNow = started \cap Own /\ cutNow = cut \cap Own
    /\ \A u \in Units : u[1] > writing => actual[u] = "no"
    /\ \A u \in Units : u[1] # writing => actual[u] \in Behind

IndexTells ==
    /\ running \subseteq started /\ waiting \subseteq started
    /\ \A u \in Units : actual[u] = "no" => u \notin started \cup cut
    /\ \A u \in Units : actual[u] = "over" => u \notin running \cup cut \cup waiting
    /\ \A u \in Units : actual[u] \in {"running", "paused", "printed"} => u \in running /\ u \notin cut
    /\ \A u \in Units : u \in waiting <=> actual[u] \in {"paused", "left"}
    /\ \A u \in Units : actual[u] \in {"running", "paused"} => u \notin resulted
    /\ \A u \in Units : actual[u] = "printed" => u \in resulted
    /\ \A u \in Units : actual[u] = "severed" => u \in running \cup cut /\ u \in started
    /\ \A u \in Units : actual[u] = "severed" /\ u \in cut => last[u] = "fail"

BookedOnce == named # NotYet => writing > SuiteCount /\ CutUnitsNamed

VerdictInv == VerdictTypes /\ IndexTells /\ BookedOnce

LEMMA UnitParts ==
    \A u \in Units : /\ u = <<u[1], u[2]>> /\ u[1] \in 1..SuiteCount /\ u[2] \in 0..MethodCount
                     /\ SuiteOf(u) \in Units /\ ~Nested(SuiteOf(u)) /\ (~Nested(u) => SuiteOf(u) = u)
  BY VerdictsAssumption DEF Units, SuiteOf, Nested

LEMMA VerdictInitHolds == VerdictsInit => VerdictInv
  BY UnitParts, VerdictsAssumption
     DEF VerdictsInit, IndexIn, VerdictInv, VerdictTypes, IndexTells, BookedOnce, Behind, Own

\* A step of one unit of the suite whose output is indexed.
LEMMA UnitSteps ==
    ASSUME VerdictInv, NEW u \in Units,
           Starts(u) \/ Pauses(u) \/ Goes(u) \/ PrintsResult(u) \/ Settles(u)
    PROVE  VerdictInv'
  <1> USE DEF VerdictInv
  <1>1. /\ writing <= SuiteCount /\ u \in Own /\ UNCHANGED writing /\ UNCHANGED named
        /\ u[1] = writing /\ UNCHANGED Own
    BY DEF Starts, Pauses, Goes, PrintsResult, Settles, Becomes, Own
  <1>2. BookedOnce'
    BY <1>1, VerdictsAssumption DEF BookedOnce, VerdictTypes
  <1> USE DEF VerdictTypes, IndexTells, Becomes, Behind
  <1>3. CASE Starts(u)
    <2>1. VerdictTypes'
      BY <1>1, <1>3 DEF Starts, ObserveRun
    <2>2. IndexTells'
      BY <1>1, <1>3 DEF Starts, ObserveRun
    <2> QED BY <1>2, <2>1, <2>2
  <1>4. CASE Pauses(u)
    <2>1. VerdictTypes'
      BY <1>1, <1>4 DEF Pauses, ObservePause
    <2>2. IndexTells'
      BY <1>1, <1>4 DEF Pauses, ObservePause
    <2> QED BY <1>2, <2>1, <2>2
  <1>5. CASE Goes(u)
    <2>1. VerdictTypes'
      BY <1>1, <1>5 DEF Goes, ObserveCont
    <2>2. IndexTells'
      BY <1>1, <1>5 DEF Goes, ObserveCont
    <2> QED BY <1>2, <2>1, <2>2
  <1>6. CASE PrintsResult(u)
    <2>1. VerdictTypes'
      BY <1>1, <1>6 DEF PrintsResult, ObserveResultLine
    <2>2. IndexTells'
      BY <1>1, <1>6 DEF PrintsResult, ObserveResultLine
    <2> QED BY <1>2, <2>1, <2>2
  <1>7. CASE Settles(u)
    <2>1. PICK v : Becomes(u, {"printed"}, "over") /\ ObserveVerdicts({u}, v)
      BY <1>7 DEF Settles
    <2>2. /\ UNCHANGED cut /\ UNCHANGED cutNow /\ running' = running \ {u}
          /\ UNCHANGED <<started, resulted, waiting, ranNow>>
          /\ last' = [w \in Units |-> IF w \in {u} THEN v ELSE last[w]]
      BY <2>1 DEF ObserveVerdicts
    <2>3. actual[u] = "printed" /\ actual' = [actual EXCEPT ![u] = "over"]
      BY <2>1
    <2>4. VerdictTypes'
      BY <1>1, <2>2, <2>3
    <2>5. IndexTells'
      BY <1>1, <2>2, <2>3
    <2> QED BY <1>2, <2>4, <2>5
  <1> QED BY <1>3, <1>4, <1>5, <1>6, <1>7

\* A process that ends under its units leaves those that waited for a slot, and
\* severs the others, whichever of them the converter fails.
LEMMA EndsUnderKeeps == VerdictInv /\ EndsUnder => VerdictInv'
  <1> SUFFICES ASSUME VerdictInv, EndsUnder PROVE VerdictInv'
    OBVIOUS
  <1> USE DEF VerdictInv, VerdictTypes, IndexTells, Behind
  <1>1. /\ UNCHANGED writing /\ UNCHANGED named /\ writing <= SuiteCount /\ UNCHANGED Own
        /\ actual' = [u \in Units |-> IF u \notin OpenUnits THEN actual[u]
                                      ELSE IF actual[u] = "paused" THEN "left" ELSE "severed"]
    BY DEF EndsUnder, Own
  <1>2. PICK some \in SUBSET OpenUnits : ObserveVerdicts(some, "fail")
    BY DEF EndsUnder
  <1>3. /\ UNCHANGED <<started, resulted, waiting, ranNow>>
        /\ running' = running \ some
        /\ last' = [u \in Units |-> IF u \in some THEN "fail" ELSE last[u]]
    BY <1>2 DEF ObserveVerdicts
  <1>4. PICK fresh : /\ fresh = {u \in some : u \in running /\ u \notin waiting \cup resulted}
                     /\ cut' = cut \cup fresh /\ cutNow' = cutNow \cup fresh
    BY <1>2 DEF ObserveVerdicts
  <1>5. \A u \in OpenUnits : u \in Own /\ u \in Units /\ u[1] = writing /\ actual[u] \in {"running", "paused"}
    BY DEF OpenUnits, Own
  <1>6. \A u \in Units : u \in fresh <=> u \in some /\ actual[u] = "running"
    BY <1>4, <1>5
  <1>7. \A u \in Own : u \notin OpenUnits => actual[u] \in Behind
    BY DEF EndsUnder, OpenUnits, Own
  <1>8. \A u \in Units : u[1] # writing => u \notin OpenUnits
    BY <1>5
  <1>9. VerdictTypes'
    BY <1>1, <1>3, <1>4, <1>5, <1>8
  <1>10. IndexTells'
    BY <1>1, <1>3, <1>4, <1>5, <1>6
  <1>11. BookedOnce'
    BY <1>1, VerdictsAssumption DEF BookedOnce
  <1> QED BY <1>9, <1>10, <1>11

\* A suite the deadline cut short keeps its marks; any other leaves none.
LEMMA RecordedKeeps ==
    ASSUME VerdictInv, NEW c \in BOOLEAN, SuiteRecorded(c)
    PROVE  VerdictInv'
  <1> USE DEF VerdictInv, VerdictTypes, IndexTells, Behind
  <1>1. /\ writing' = writing + 1 /\ UNCHANGED named /\ writing <= SuiteCount
        /\ actual' = [u \in Units |-> IF u \in Own /\ ~c THEN "over" ELSE actual[u]]
        /\ UNCHANGED <<last, started>> /\ ranNow' = {} /\ cutNow' = {}
    BY DEF SuiteRecorded, EndSuite
  <1>2. \A u \in Own : actual[u] \in Behind
    BY DEF SuiteRecorded, OpenUnits, Own
  <1>3. \A u \in Units : u \in Own <=> u[1] = writing
    BY DEF Own
  <1>4. /\ writing \in 1..SuiteCount /\ writing' \in 1..(SuiteCount + 1)
        /\ \A u \in Units : u[1] > writing' => u[1] > writing
        /\ \A u \in Units : u[1] = writing' => u[1] > writing
    BY <1>1, VerdictsAssumption, UnitParts
  <1>5. \A u \in Units : u \in Own' <=> u[1] = writing'
    BY DEF Own
  <1>6. BookedOnce'
    BY <1>1, VerdictsAssumption DEF BookedOnce
  <1>7. Own' \cap started = {} /\ Own' \subseteq Units
    BY <1>4, <1>5 DEF Own
  <1>8. CASE c
    <2>1. UNCHANGED running /\ UNCHANGED waiting /\ UNCHANGED cut
      BY <1>8 DEF SuiteRecorded, EndSuite
    <2>2. resulted' = resulted \ ranNow
      BY DEF SuiteRecorded, EndSuite
    <2>3. actual' = actual
      BY <1>1, <1>8
    <2>4. Own' \cap cut = {}
      BY <1>4, <1>5 DEF Own
    <2>5. VerdictTypes'
      BY <1>1, <1>2, <1>3, <1>4, <1>7, <2>1, <2>3, <2>4
    <2>6. \A u \in Units : actual[u] \in Behind
      BY <1>2, <1>3
    <2>7. IndexTells'
      BY <1>1, <2>1, <2>3, <2>6
    <2> QED BY <1>6, <2>5, <2>7
  <1>9. CASE ~c
    <2>1. running' = running \ ranNow /\ waiting' = waiting \ ranNow /\ cut' = cut \ cutNow
      BY <1>9 DEF SuiteRecorded, EndSuite
    <2>2. \A u \in Units : actual'[u] = IF u \in Own THEN "over" ELSE actual[u]
      BY <1>1, <1>9
    <2>3. \A u \in Own : u \notin running' /\ u \notin waiting' /\ u \notin cut'
      BY <2>1
    <2>4. \A u \in Units : u \notin Own =>
             (u \in running' <=> u \in running) /\ (u \in waiting' <=> u \in waiting) /\ (u \in cut' <=> u \in cut)
      BY <2>1
    <2>5. \A u \in Units : actual'[u] \in Behind
      BY <1>3, <2>2
    <2>6. Own' \cap cut' = {}
      BY <1>4, <1>5, <2>1 DEF Own
    <2>7. VerdictTypes'
      <3>1. /\ running' \subseteq Units /\ waiting' \subseteq Units /\ cut' \subseteq Units
            /\ ranNow' = started' \cap Own' /\ cutNow' = cut' \cap Own'
        BY <1>1, <1>7, <2>1, <2>6
      <3>2. \A u \in Units : u[1] > writing' => actual'[u] = "no"
        BY <1>3, <1>4, <2>2, UnitParts
      <3> QED BY <1>1, <1>4, <2>5, <3>1, <3>2
    <2>8. IndexTells'
      BY <1>1, <2>1, <2>2, <2>3, <2>4, <2>5
    <2> QED BY <1>6, <2>7, <2>8
  <1> QED BY <1>8, <1>9

\* What is active past the last suite is what a deadline severed.
LEMMA BookedIsSevered == VerdictInv /\ BookDeadline => VerdictInv'
  <1> SUFFICES ASSUME VerdictInv, BookDeadline PROVE VerdictInv'
    OBVIOUS
  <1> USE DEF VerdictInv, VerdictTypes, IndexTells, Behind
  <1>1. /\ writing > SuiteCount /\ named' = RunningUnits
        /\ UNCHANGED <<writing, actual, running, started, resulted, cut, waiting, ranNow, cutNow>>
    BY DEF BookDeadline
  <1> DEFINE failing == (RunningUnits \cap running) \cup {SuiteOf(u) : u \in {m \in RunningUnits : Nested(m)}}
  <1>2. last' = [u \in Units |-> IF u \in failing THEN "fail" ELSE last[u]]
    BY Zenon DEF BookDeadline
  <1>3. \A u \in Units : u[1] # writing
    BY <1>1, UnitParts, VerdictsAssumption
  <1>4. \A u \in Units : Active(u) <=> actual[u] = "severed"
    BY <1>3 DEF Active
  <1>5. \A u \in Units : u \in Busy <=> \E m \in Units : Nested(m) /\ actual[m] = "severed" /\ SuiteOf(m) = u
    BY <1>4 DEF Busy
  <1>6. \A u \in Units : u \in RunningUnits <=> actual[u] = "severed" /\ u \notin Busy
    BY <1>4 DEF RunningUnits
  <1>7. RunningUnits \subseteq Units
    BY DEF RunningUnits
  <1>8. \A u \in Units : Nested(u) => u \notin Busy
    BY <1>5, UnitParts
  <1>9. RunningUnits = {u \in Units : actual[u] = "severed" /\
                          (Nested(u) \/ \A m \in Units :
                              Nested(m) /\ SuiteOf(m) = u => actual[m] # "severed")}
    BY <1>5, <1>6, <1>7, <1>8
  <1>10. \A u \in RunningUnits : last'[u] = "fail" /\ last'[SuiteOf(u)] = "fail"
    <2> SUFFICES ASSUME NEW u \in RunningUnits PROVE last'[u] = "fail" /\ last'[SuiteOf(u)] = "fail"
      OBVIOUS
    <2>1. u \in Units /\ actual[u] = "severed" /\ u \in running \cup cut /\ SuiteOf(u) \in Units
      BY <1>6, <1>7, UnitParts
    <2>2. last'[u] = "fail"
      BY <1>2, <2>1
    <2>3. CASE Nested(u)
      BY <1>2, <2>1, <2>2, <2>3
    <2>4. CASE ~Nested(u)
      BY <2>1, <2>2, <2>4, UnitParts
    <2> QED BY <2>2, <2>3, <2>4
  <1>11. UNCHANGED Own
    BY <1>1 DEF Own
  <1>12. VerdictTypes'
    BY <1>1, <1>2, <1>11
  <1>13. IndexTells'
    BY <1>1, <1>2
  <1>14. BookedOnce'
    BY <1>1, <1>9, <1>10 DEF BookedOnce, CutUnitsNamed
  <1> QED BY <1>12, <1>13, <1>14

LEMMA VerdictStep == VerdictInv /\ [VerdictsNext]_verdictVars => VerdictInv'
  <1> SUFFICES ASSUME VerdictInv, VerdictsNext \/ UNCHANGED verdictVars PROVE VerdictInv'
    OBVIOUS
  <1>1. CASE UNCHANGED verdictVars
    BY <1>1 DEF verdictVars, VerdictInv, VerdictTypes, IndexTells, BookedOnce, Own, CutUnitsNamed
  <1> QED BY <1>1, UnitSteps, EndsUnderKeeps, RecordedKeeps, BookedIsSevered DEF VerdictsNext

\* For any number of suites and methods, and any output: what an expired
\* deadline names is what it severed, and all of it is failed with its suite
\* (runningUnits, bookDeadline, census.go).
THEOREM DeadlineNamesTheCut == VerdictsSpec => []CutUnitsNamed
  <1>1. VerdictsSpec => []VerdictInv
    BY VerdictInitHolds, VerdictStep, PTL DEF VerdictsSpec
  <1>2. VerdictInv => CutUnitsNamed
    BY DEF VerdictInv, BookedOnce, CutUnitsNamed
  <1> QED BY <1>1, <1>2, PTL

\* What is told of a run is what happened, whatever the packages, suites and
\* methods and however the run is stopped: the packages' verdicts and the units'
\* share the JSON stream and no state (output_collector.go, census.go).
THEOREM StreamTellsTheTruth == PipelineSpec /\ VerdictsSpec => []StreamIsTrue
  BY PackagesReportedOnce, DeadlineNamesTheCut, PTL DEF StreamIsTrue
-----------------------------------------------------------------------------
(* A method under its budget *)

Opened == {"turn", "before", "suite", "look", "body", "unwind"}

ContextTypes ==
    /\ mpos \in Opened \cup {"next", "told", "cleanup", "over"}
    /\ watching \in {"off", "waiting", "seen", "judging", "reported", "stopped"}
    /\ methodCtx \in {"live", "deadline", "canceled"} /\ afterCtx \in {"live", "deadline"}
    /\ done \in BOOLEAN /\ expired \in BOOLEAN /\ methodFails \in BOOLEAN /\ reports \in {0, 1}

\* The watch runs from the method's opening until the method has told it to end
\* and waited; it alone ends the contexts meanwhile, after its report.
WatchTells ==
    /\ mpos \in {"next", "cleanup", "over"} <=> watching = "off"
    /\ done => mpos \notin Opened
    /\ watching \in {"waiting", "seen", "judging"} => reports = 0
    /\ watching = "reported" => reports = 1
    /\ watching = "stopped" /\ mpos \in Opened => reports = 1
    /\ reports = 1 => methodFails
    /\ mpos \in Opened /\ methodCtx = "deadline" => reports = 1
    /\ mpos = "cleanup" /\ expired => afterCtx = "deadline" /\ methodCtx # "live"

BudgetInv == ContextTypes /\ WatchTells

LEMMA BudgetInit == MethodInit => BudgetInv
  <1> SUFFICES ASSUME MethodInit PROVE BudgetInv
    OBVIOUS
  <1>1. /\ mpos = "next" /\ watching = "off" /\ methodCtx = "live" /\ afterCtx = "live"
        /\ reports = 0
    BY DEF MethodInit, MethodIn
  <1>2. done = FALSE /\ expired = FALSE /\ methodFails = FALSE
    BY Zenon DEF MethodInit, MethodIn
  <1>3. done \in BOOLEAN /\ expired \in BOOLEAN /\ methodFails \in BOOLEAN /\ ~done /\ ~expired
    BY <1>2
  <1> QED BY <1>1, <1>3 DEF BudgetInv, ContextTypes, WatchTells, Opened

LEMMA BudgetStep == BudgetInv /\ [MethodNext]_methodVars => BudgetInv'
  <1> SUFFICES ASSUME BudgetInv, MethodNext \/ UNCHANGED methodVars PROVE BudgetInv'
    OBVIOUS
  <1> USE DEF BudgetInv, ContextTypes, WatchTells, Opened, watchState
  <1>1. CASE SkipMethod \/ OpenMethod \/ AllRun
    <2>1. CASE SkipMethod
      BY <2>1 DEF SkipMethod
    <2>2. CASE OpenMethod
      <3>1. /\ mpos' = "turn" /\ watching' = "waiting" /\ methodCtx' = "live" /\ afterCtx' = "live"
            /\ reports' = 0
        BY <2>2 DEF OpenMethod
      <3>2. done' = FALSE /\ expired' = FALSE /\ methodFails' = FALSE
        BY Zenon, <2>2 DEF OpenMethod
      <3>3. /\ done' \in BOOLEAN /\ expired' \in BOOLEAN /\ methodFails' \in BOOLEAN
            /\ ~done' /\ ~expired'
        BY <3>2
      <3> QED BY <3>1, <3>3
    <2>3. CASE AllRun
      BY <2>3 DEF AllRun
    <2> QED BY <1>1, <2>1, <2>2, <2>3
  <1>2. CASE Turn \/ LookAtBody
    BY <1>2 DEF Turn, LookAtBody
  <1>3. CASE Before \/ SuiteBefore \/ Body
    <2>1. /\ UNCHANGED <<watching, done, expired, methodCtx, afterCtx, reports>>
          /\ mpos \in {"before", "suite", "body"} /\ mpos' \in {"turn", "look", "unwind"}
      BY <1>3 DEF Before, SuiteBefore, Body
    <2>2. methodFails' = methodFails \/ methodFails' = TRUE
      <3>1. CASE Before
        BY Zenon, <3>1 DEF Before
      <3>2. CASE SuiteBefore
        BY Zenon, <3>2 DEF SuiteBefore
      <3>3. CASE Body
        BY Zenon, <3>3 DEF Body
      <3> QED BY <1>3, <3>1, <3>2, <3>3
    <2>3. CASE methodFails' = methodFails
      BY <2>1, <2>3
    <2>4. CASE methodFails' = TRUE
      BY <2>1, <2>4
    <2> QED BY <2>2, <2>3, <2>4
  <1>4. CASE Unwind \/ TellWatch
    <2>1. CASE Unwind
      <3>1. UNCHANGED <<mpos, watching, done, expired, methodCtx, afterCtx, reports>>
        BY <2>1 DEF Unwind
      <3>2. methodFails' = methodFails \/ methodFails' = TRUE
        BY Zenon, <2>1 DEF Unwind
      <3>3. CASE methodFails' = methodFails
        BY <3>1, <3>3
      <3>4. CASE methodFails' = TRUE
        BY <3>1, <3>4
      <3> QED BY <3>2, <3>3, <3>4
    <2>2. CASE TellWatch
      BY <2>2 DEF TellWatch
    <2> QED BY <1>4, <2>1, <2>2
  <1>5. CASE WatchOff \/ MethodEnds
    BY <1>5 DEF WatchOff, MethodEnds, EndContexts, Ended
  <1>6. CASE DeadlinePassed
    BY <1>6 DEF DeadlinePassed, EndContexts, Ended
  <1>7. CASE WatchDeadline \/ ReportOverrun
    <2>1. CASE WatchDeadline
      BY <2>1 DEF WatchDeadline
    <2>2. CASE ReportOverrun
      BY <2>2 DEF ReportOverrun
    <2> QED BY <1>7, <2>1, <2>2
  <1>8. CASE WatchEnds
    BY <1>8 DEF WatchEnds, EndContexts, Ended
  <1>9. CASE StopRun \/ StopReaches
    <2>1. CASE StopRun
      BY <2>1 DEF StopRun
    <2>2. CASE StopReaches
      BY <2>2 DEF StopReaches
    <2> QED BY <1>9, <2>1, <2>2
  <1>10. CASE UNCHANGED methodVars
    BY <1>10 DEF methodVars
  <1> QED BY <1>1, <1>2, <1>3, <1>4, <1>5, <1>6, <1>7, <1>8, <1>9, <1>10 DEF MethodNext
-----------------------------------------------------------------------------
(* The hooks of a method *)

Elements(q) == {q[i] : i \in DOMAIN q}

LEMMA EmptyElements == Elements(<<>>) = {}
  BY DEF Elements

LEMMA AppendElements ==
    ASSUME NEW S, NEW q \in Seq(S), NEW e \in S
    PROVE  /\ Append(q, e) \in Seq(S) /\ DOMAIN Append(q, e) = 1..(Len(q) + 1)
           /\ \A i \in DOMAIN q : Append(q, e)[i] = q[i]
           /\ Append(q, e)[Len(q) + 1] = e
           /\ Elements(Append(q, e)) = Elements(q) \cup {e}
  <1> DEFINE a == Append(q, e)
  <1>1. a \in Seq(S) /\ DOMAIN a = 1..(Len(q) + 1) /\ DOMAIN q = 1..Len(q) /\ Len(q) \in Nat
    OBVIOUS
  <1>2. (\A i \in DOMAIN q : a[i] = q[i]) /\ a[Len(q) + 1] = e
    OBVIOUS
  <1>3. \A x \in Elements(a) : x \in Elements(q) \cup {e}
    BY <1>1, <1>2 DEF Elements
  <1>4. \A x \in Elements(q) \cup {e} : x \in Elements(a)
    BY <1>1, <1>2 DEF Elements
  <1> HIDE DEF a
  <1>5. Elements(a) = Elements(q) \cup {e}
    BY <1>3, <1>4
  <1> QED BY <1>1, <1>2, <1>5 DEF a

LEMMA FrontElements ==
    ASSUME NEW S, NEW q \in Seq(S), q # <<>>
    PROVE  LET front == SubSeq(q, 1, Len(q) - 1) IN
           /\ front \in Seq(S) /\ DOMAIN front = 1..(Len(q) - 1)
           /\ \A i \in DOMAIN front : i \in DOMAIN q /\ front[i] = q[i]
           /\ Len(q) \in DOMAIN q /\ Len(q) \notin DOMAIN front /\ q[Len(q)] \in S
           /\ Elements(q) = Elements(front) \cup {q[Len(q)]}
  <1> DEFINE front == SubSeq(q, 1, Len(q) - 1)
  <1>1. /\ Len(q) \in Nat \ {0} /\ DOMAIN q = 1..Len(q) /\ q[Len(q)] \in S
    OBVIOUS
  <1>2. front \in Seq(S) /\ DOMAIN front = 1..(Len(q) - 1)
    BY <1>1
  <1>3. \A i \in DOMAIN front : i \in DOMAIN q /\ front[i] = q[i]
    BY <1>1, <1>2
  <1> HIDE DEF front
  <1>4. \A x \in Elements(q) : x \in Elements(front) \cup {q[Len(q)]}
    <2> SUFFICES ASSUME NEW i \in DOMAIN q PROVE q[i] \in Elements(front) \cup {q[Len(q)]}
      BY DEF Elements
    <2>1. i = Len(q) \/ i \in DOMAIN front
      BY <1>1, <1>2
    <2> QED BY <1>3, <2>1 DEF Elements
  <1>5. \A x \in Elements(front) \cup {q[Len(q)]} : x \in Elements(q)
    BY <1>1, <1>3 DEF Elements
  <1>6. Elements(q) = Elements(front) \cup {q[Len(q)]}
    BY <1>4, <1>5
  <1>7. Len(q) \in DOMAIN q /\ Len(q) \notin DOMAIN front
    BY <1>1, <1>2
  <1> QED BY <1>1, <1>2, <1>3, <1>6, <1>7 DEF front

\* Before the unwinding nothing is released and the fixtures held are in their
\* order; what a method acquired it holds or has released, the suite's own
\* first, then those after every one still held.
HooksTell ==
    /\ held \in Seq(Int) /\ released \in Seq(Int) /\ hook \in Int /\ suiteHeld \in BOOLEAN
    /\ mpos \in Opened \cup {"told", "cleanup"} =>
          /\ acquired = Elements(held) \cup Elements(released) \cup (IF suiteHeld THEN {0} ELSE {})
          /\ \A i, j \in DOMAIN held : i < j => held[i] < held[j]
          /\ \A i, j \in DOMAIN released : i < j => released[i] = 0 \/ released[i] > released[j]
          /\ \A i \in DOMAIN released, j \in DOMAIN held : released[i] = 0 \/ released[i] > held[j]
          /\ suiteHeld => released = <<>>
    /\ mpos \in Opened \ {"unwind"} =>
          released = <<>> /\ \A i \in DOMAIN held : held[i] < hook
    /\ mpos \in {"turn", "before", "suite"} => ~suiteHeld
    /\ mpos = "before" => hook \in Hooks
    /\ mpos \in {"told", "cleanup"} => held = <<>> /\ ~suiteHeld

LEMMA HooksInit == MethodInit => HooksTell
  <1> SUFFICES ASSUME MethodInit PROVE HooksTell
    OBVIOUS
  <1>1. held = <<>> /\ released = <<>> /\ hook = 1 /\ suiteHeld = FALSE /\ mpos = "next"
    BY DEF MethodInit, MethodIn
  <1>2. held \in Seq(Int) /\ released \in Seq(Int) /\ hook \in Int
    BY <1>1
  <1>3. suiteHeld \in BOOLEAN
    BY <1>1
  <1> QED BY <1>1, <1>2, <1>3 DEF HooksTell, Opened

LEMMA HooksStep == HooksTell /\ [MethodNext]_methodVars => HooksTell'
  <1> SUFFICES ASSUME HooksTell, MethodNext \/ UNCHANGED methodVars PROVE HooksTell'
    OBVIOUS
  <1> USE DEF HooksTell, Opened, watchState
  <1>1. CASE UNCHANGED <<mpos, hook, held, suiteHeld, acquired, released>>
    BY <1>1
  <1>2. CASE OpenMethod
    <2>1. /\ held' = <<>> /\ released' = <<>> /\ acquired' = {} /\ suiteHeld' = FALSE
          /\ hook' = 1 /\ mpos' = "turn"
      BY <1>2 DEF OpenMethod
    <2>2. DOMAIN held' = {} /\ DOMAIN released' = {} /\ held' \in Seq(Int) /\ released' \in Seq(Int)
      BY <2>1
    <2>3. acquired' = Elements(held') \cup Elements(released')
      BY <2>1, EmptyElements
    <2>4. suiteHeld' \in BOOLEAN /\ ~suiteHeld'
      BY <2>1
    <2>5. hook' \in Int /\ mpos' = "turn"
      BY <2>1
    <2>6. \A i \in DOMAIN held' : held'[i] < hook'
      BY <2>2
    <2>7. released' = <<>>
      BY <2>1
    <2> HIDE DEF HooksTell
    <2> QED BY <2>2, <2>3, <2>4, <2>5, <2>6, <2>7 DEF HooksTell
  <1>3. CASE AllRun \/ MethodEnds
    BY <1>3 DEF AllRun, MethodEnds
  <1>4. CASE Turn
    BY <1>4 DEF Turn
  <1>5. CASE LookAtBody \/ Body \/ TellWatch \/ WatchOff
    <2>1. UNCHANGED <<hook, held, suiteHeld, acquired, released>>
      BY <1>5 DEF LookAtBody, Body, TellWatch, WatchOff
    <2>2. CASE LookAtBody \/ Body
      BY <2>1, <2>2 DEF LookAtBody, Body
    <2>3. CASE TellWatch \/ WatchOff
      BY <2>1, <2>3 DEF TellWatch, WatchOff
    <2> QED BY <1>5, <2>2, <2>3
  <1>6. CASE Before
    <2>1. CASE UNCHANGED <<held, acquired, hook>> /\ mpos' = "unwind"
      BY <1>6, <2>1 DEF Before
    <2>2. CASE held' = Append(held, hook) /\ acquired' = acquired \cup {hook} /\ hook' = hook + 1
               /\ mpos' = "turn"
      <3>1. UNCHANGED <<released, suiteHeld>> /\ mpos = "before" /\ released = <<>> /\ ~suiteHeld
        BY <1>6 DEF Before
      <3>2. /\ held' \in Seq(Int) /\ Elements(held') = Elements(held) \cup {hook}
            /\ DOMAIN held' = 1..(Len(held) + 1) /\ \A i \in DOMAIN held : held'[i] = held[i]
            /\ held'[Len(held) + 1] = hook
        <4>1. held \in Seq(Int) /\ hook \in Int
          OBVIOUS
        <4>2. /\ Append(held, hook) \in Seq(Int) /\ DOMAIN Append(held, hook) = 1..(Len(held) + 1)
              /\ \A i \in DOMAIN held : Append(held, hook)[i] = held[i]
              /\ Append(held, hook)[Len(held) + 1] = hook
              /\ Elements(Append(held, hook)) = Elements(held) \cup {hook}
          <5> HIDE DEF HooksTell
          <5> QED BY <4>1, AppendElements
        <4> QED BY <2>2, <4>2
      <3>3. \A i, j \in DOMAIN held' : i < j => held'[i] < held'[j]
        BY <2>2, <3>1, <3>2
      <3>4. \A i \in DOMAIN held' : held'[i] < hook'
        BY <2>2, <3>1, <3>2
      <3>5. acquired' = Elements(held') \cup Elements(released')
        BY <2>2, <3>1, <3>2
      <3> QED BY <2>2, <3>1, <3>2, <3>3, <3>4, <3>5
    <2> QED BY <1>6, <2>1, <2>2 DEF Before
  <1>7. CASE SuiteBefore
    BY <1>7 DEF SuiteBefore, Elements
  <1>8. CASE Unwind
    <2>1. UNCHANGED <<mpos, hook, acquired>> /\ mpos = "unwind" /\ suiteHeld' = FALSE
      BY <1>8 DEF Unwind
    <2>2. CASE suiteHeld
      <3>1. released' = <<0>> /\ held' = held
        BY <1>8, <2>2 DEF Unwind
      <3>2. Elements(released') = {0} /\ Elements(released) = {}
        <4>1. released = <<>>
          BY <2>1, <2>2
        <4> QED BY <3>1, <4>1 DEF Elements
      <3>3. /\ suiteHeld' = FALSE /\ DOMAIN released' = {1} /\ released'[1] = 0
        BY <2>1, <3>1
      <3>4. \A i, j \in DOMAIN held' : i < j => held'[i] < held'[j]
        BY <2>1, <3>1
      <3>5. released' \in Seq(Int) /\ acquired' = Elements(held') \cup Elements(released')
        BY <2>1, <2>2, <3>1, <3>2
      <3> QED BY <2>1, <3>1, <3>3, <3>4, <3>5
    <2>3. CASE ~suiteHeld
      <3> DEFINE end == held[Len(held)]
      <3>1. /\ held # <<>> /\ released' = Append(released, end)
            /\ held' = SubSeq(held, 1, Len(held) - 1)
        BY <1>8, <2>3 DEF Unwind
      <3>2. /\ held' \in Seq(Int) /\ DOMAIN held' = 1..(Len(held) - 1) /\ Len(held) \in DOMAIN held
            /\ \A i \in DOMAIN held' : i \in DOMAIN held /\ held'[i] = held[i]
            /\ end \in Int /\ Elements(held) = Elements(held') \cup {end}
        BY <3>1, FrontElements
      <3>3. \A i \in DOMAIN held' : held'[i] < end
        BY <2>1, <3>2
      <3>4. /\ released' \in Seq(Int) /\ DOMAIN released' = 1..(Len(released) + 1)
            /\ \A i \in DOMAIN released : released'[i] = released[i]
            /\ released'[Len(released) + 1] = end
            /\ Elements(released') = Elements(released) \cup {end}
        <4>1. released \in Seq(Int) /\ end \in Int
          BY <3>2
        <4> HIDE DEF end
        <4>2. /\ Append(released, end) \in Seq(Int)
              /\ DOMAIN Append(released, end) = 1..(Len(released) + 1)
              /\ \A i \in DOMAIN released : Append(released, end)[i] = released[i]
              /\ Append(released, end)[Len(released) + 1] = end
              /\ Elements(Append(released, end)) = Elements(released) \cup {end}
          BY <4>1, AppendElements
        <4> QED BY <3>1, <4>2 DEF end
      <3>5. \A i \in DOMAIN released : released[i] = 0 \/ released[i] > end
        BY <2>1, <3>2
      <3> HIDE DEF end
      <3>6. \A i, j \in DOMAIN released' : i < j => released'[i] = 0 \/ released'[i] > released'[j]
        <4>1. DOMAIN released = 1..Len(released) /\ Len(released) \in Nat
          OBVIOUS
        <4>2. \A i, j \in DOMAIN released : i < j => released[i] = 0 \/ released[i] > released[j]
          BY <2>1
        <4> SUFFICES ASSUME NEW i \in DOMAIN released', NEW j \in DOMAIN released', i < j
                     PROVE  released'[i] = 0 \/ released'[i] > released'[j]
          OBVIOUS
        <4>3. i \in DOMAIN released
          BY <3>4, <4>1
        <4>4. j \in DOMAIN released \/ j = Len(released) + 1
          BY <3>4, <4>1
        <4> QED BY <3>4, <3>5, <4>2, <4>3, <4>4
      <3>7. \A i \in DOMAIN released', j \in DOMAIN held' : released'[i] = 0 \/ released'[i] > held'[j]
        <4>1. DOMAIN released = 1..Len(released) /\ Len(released) \in Nat
          OBVIOUS
        <4>2. \A i \in DOMAIN released, j \in DOMAIN held : released[i] = 0 \/ released[i] > held[j]
          BY <2>1
        <4> SUFFICES ASSUME NEW i \in DOMAIN released', NEW j \in DOMAIN held'
                     PROVE  released'[i] = 0 \/ released'[i] > held'[j]
          OBVIOUS
        <4>3. j \in DOMAIN held /\ held'[j] = held[j] /\ held[j] < end /\ held[j] \in Int
          BY <3>2, <3>3
        <4>4. i \in DOMAIN released \/ i = Len(released) + 1
          BY <3>4, <4>1
        <4> QED BY <3>2, <3>4, <4>2, <4>3, <4>4
      <3>8. acquired' = Elements(held') \cup Elements(released')
        BY <2>1, <2>3, <3>2, <3>4
      <3>9. \A i, j \in DOMAIN held' : i < j => held'[i] < held'[j]
        BY <2>1, <3>2
      <3> QED BY <2>1, <3>2, <3>4, <3>6, <3>7, <3>8, <3>9
    <2> QED BY <2>2, <2>3
  <1>9. CASE SkipMethod \/ DeadlinePassed \/ WatchDeadline \/ ReportOverrun \/ WatchEnds
             \/ StopRun \/ StopReaches \/ UNCHANGED methodVars
    BY <1>1, <1>9
       DEF SkipMethod, DeadlinePassed, WatchDeadline, ReportOverrun, WatchEnds, StopRun, StopReaches,
           methodVars
  <1> QED BY <1>2, <1>3, <1>4, <1>5, <1>6, <1>7, <1>8, <1>9 DEF MethodNext
-----------------------------------------------------------------------------
(* The goroutines of gotest.Go *)

\* A goroutine that runs is registered, taken by the drain, or waited for by
\* whoever started it; once the set closed, it can only be the last.
WaitsTell ==
    /\ waits \in Seq(Goers) /\ toRun \in Seq(Goers)
    /\ goerAt \in [Goers -> {"no", "runs", "ended"}]
    /\ blocked \in [Waiters -> SUBSET Goers] /\ closed \in BOOLEAN
    /\ \A g \in Goers : goerAt[g] = "runs" =>
          g \in Elements(waits) \cup Elements(toRun) \/ \E w \in Waiters : g \in blocked[w]
    /\ suiteAt # "drain" => toRun = <<>>
    /\ closed => waits = <<>>
    /\ suiteAt = "over" => closed

LEMMA WaitsInitTell == WaitInit => WaitsTell
  BY DEF WaitInit, WaitsIn, WaitsTell, Waiters

LEMMA WaitsStep == WaitsTell /\ [WaitNext]_waitVars => WaitsTell'
  <1> SUFFICES ASSUME WaitsTell, WaitNext \/ UNCHANGED waitVars PROVE WaitsTell'
    OBVIOUS
  <1> USE DEF WaitsTell
  <1>1. ASSUME NEW w \in Waiters, NEW g \in Goers, Go(w, g) PROVE WaitsTell'
    <2>1. CASE closed
      <3>1. /\ goerAt' = [goerAt EXCEPT ![g] = "runs"] /\ blocked' = [blocked EXCEPT ![w] = {g}]
            /\ blocked[w] = {} /\ UNCHANGED <<waits, toRun, suiteAt, closed>>
        BY <1>1, <2>1 DEF Go, MayStart
      <3> QED BY <2>1, <3>1
    <2>2. CASE ~closed
      <3>1. /\ goerAt' = [goerAt EXCEPT ![g] = "runs"] /\ waits' = Append(waits, g)
            /\ UNCHANGED <<blocked, toRun, suiteAt, closed>>
        BY <1>1, <2>2 DEF Go
      <3>2. Elements(waits') = Elements(waits) \cup {g} /\ waits' \in Seq(Goers)
        BY <3>1, AppendElements
      <3> QED BY <2>2, <3>1, <3>2
    <2> QED BY <2>1, <2>2
  <1>2. ASSUME NEW g \in Goers, GoEnds(g) PROVE WaitsTell'
    BY <1>2 DEF GoEnds
  <1>3. CASE HookReturns
    BY <1>3 DEF HookReturns
  <1>4. CASE Take
    <2>1. Elements(toRun) = {}
      BY <1>4 DEF Take, Elements
    <2> QED BY <1>4, <2>1 DEF Take
  <1>5. CASE DrainWaits
    <2>1. CASE toRun = <<>>
      BY <1>5, <2>1 DEF DrainWaits
    <2>2. CASE toRun # <<>>
      <3> DEFINE end == toRun[Len(toRun)]
      <3>1. /\ goerAt[end] = "ended" /\ toRun' = SubSeq(toRun, 1, Len(toRun) - 1)
            /\ UNCHANGED <<suiteAt, goerAt, blocked, waits, closed>>
        BY <1>5, <2>2 DEF DrainWaits
      <3>2. toRun' \in Seq(Goers) /\ Elements(toRun) = Elements(toRun') \cup {end}
        BY <2>2, <3>1, FrontElements
      <3> QED BY <1>5, <3>1, <3>2 DEF DrainWaits
    <2> QED BY <2>1, <2>2
  <1>6. CASE UNCHANGED waitVars
    BY <1>6 DEF waitVars
  <1> QED BY <1>1, <1>2, <1>3, <1>4, <1>5, <1>6 DEF WaitNext

\* For any number of fixtures, methods and goroutines: an overrun is judged
\* once and before its context ends (methodbudget.go), a method releases what
\* its hooks acquired, innermost first (methods.go), and no goroutine of
\* gotest.Go is left unawaited (setupwaits.go).
THEOREM MethodsStayBounded == MethodSpec /\ WaitSpec => []MethodsAreBounded
  <1>1. BudgetInv => OverrunJudgedFirst
    BY DEF BudgetInv, ContextTypes, WatchTells, Opened, OverrunJudgedFirst
  <1>2. HooksTell => HooksPaired
    BY DEF HooksTell, Elements, HooksPaired
  <1>3. WaitsTell => NoneLeftUnawaited
    BY DEF WaitsTell, Elements, NoneLeftUnawaited
  <1> QED
    BY <1>1, <1>2, <1>3, BudgetInit, BudgetStep, HooksInit, HooksStep, WaitsInitTell, WaitsStep, PTL
       DEF MethodSpec, WaitSpec, MethodsAreBounded
=============================================================================
