-------------------------- MODULE SharedRunProofs --------------------------
(***************************************************************************)
(* What holds of the shared fixture process under its runner, for every    *)
(* plan of suites, every graph of fixtures, every number of retries and of *)
(* commands, whenever the run is stopped and the process dies: no release  *)
(* is sent that a later start could cross, so no AfterAll meets a BeforeAll *)
(* or a suite that reads its fixture.                                      *)
(***************************************************************************)
EXTENDS SharedRun, SharedSetupProofs, FiniteSetTheorems

(* The inductive invariant, next to that of the process itself (IInv):     *)
(* first what the process is like, then what its runner has done to it.    *)

\* Where the setup of a fixture is tells what it holds, and on what.
SetupTells ==
    \A f \in Fixtures :
        /\ setup[f] \in {"idle", "derive", "deps", "begin", "again"} => f \notin attempted
        /\ setup[f] \in {"beforeAll", "delay", "between", "publish"} => f \in attempted
        /\ setup[f] = "ended" <=> f \in errs \cup published
        /\ f \in published => f \in attempted
        /\ f \in attempted \/ setup[f] \in {"begin", "again"} => Deps[f] \subseteq published

\* So does the teardown of a fixture, which reaches AfterAll at most once.
ReleaseTells ==
    \A f \in Fixtures :
        /\ f \in torn <=> teardown[f] \in {"afterAll", "ended"}
        /\ teardown[f] = "afterAll" => f \in attempted
        /\ entered[f] = IF f \in attempted /\ teardown[f] # "ended"
                          THEN released[f] + 1 ELSE released[f]

\* Once a teardown is called, no setup of its fixture or of one on top runs.
Quiet ==
    \A f \in Fixtures : teardown[f] # "idle" =>
        /\ phase # "upfront"
        /\ \A g \in Dependents(f) \cup {f} : setup[g] \in {"idle", "ended"}

\* A teardown past its own setup waits for each dependent that holds anything.
GateReads ==
    \A f \in Fixtures :
        /\ teardown[f] = "own" => unread[f] = Dependents(f)
        /\ teardown[f] \in {"afterAll", "ended"} => unread[f] = {} /\ awaits[f] = {}
        /\ teardown[f] \in {"gate", "afterAll", "ended"} =>
              \A g \in Dependents(f) :
                  g \in unread[f] \cup awaits[f] \/ g \notin attempted \/ teardown[g] = "ended"

\* A process that ends by itself has released everything, and says what failed.
ExitTells ==
    /\ phase # "orphaned"
    /\ phase = "upfront" => doneLine = "none"
    /\ phase \in {"exit0", "exit1"} => \A f \in Fixtures : teardown[f] = "ended"
    /\ phase = "exit0" => doneLine # "failed" /\ tornFailed = {}

Starts(c)   == verb[c] = "start"
Releases(c) == verb[c] = "teardown"
InFlight(c) == Starts(c) /\ cstate[c] \in {"sent", "accepted", "running"}

\* Every setup and every teardown goes back to who asked for it.
AskedFor ==
    /\ \A c \in Commands :
          cstate[c] = "unsent" => verb[c] = "none" /\ calls[c] = {} /\ owns[c] = {}
    /\ \A c \in Commands : calls[c] \cup owns[c] \subseteq keys[c]
    /\ \A f \in started : f \notin Deferred \/ \E c \in Commands : Starts(c) /\ f \in keys[c]
    /\ \A f \in Fixtures : teardown[f] # "idle" =>
          \/ phase \in {"releasing", "exit0", "exit1", "killed"}
          \/ \E c \in Commands : Releases(c) /\ f \in keys[c]

\* The ledger counts the suites that still need a key.
Unfinished(k) == {s \in Needing(k, Suites) : ~Finished(s)}

LedgerCounts == \A k \in Fixtures : counts[k] = Cardinality(Unfinished(k))

\* What is freed, and what a release was sent for, no suite needs any more.
FreedIsUnneeded ==
    /\ \A k \in pending : Unfinished(k) = {}
    /\ \A c \in Commands : Releases(c) => \A k \in keys[c] : Unfinished(k) = {}

\* A start not acknowledged is awaited by the suites that need it, or given up.
Awaited(k) == \E s \in SlotSuites : suite[s] = "ready" /\ k \in Needs[s]

StartsAwaited ==
    /\ startCmd # 0 =>
          /\ ~opened /\ startCmd \in Commands
          /\ Starts(startCmd) /\ keys[startCmd] # {}
    /\ Running => \A c \in Commands : InFlight(c) =>
          unstarted # {} \/ (c = startCmd /\ \A k \in keys[c] : Awaited(k))

\* No release is sent for what a start in flight brings up or rests on, nor
\* for what the up-front phase still does.
ReleasesApart ==
    \A b \in Commands : Releases(b) =>
        /\ phase # "upfront"
        /\ \A c \in Commands : InFlight(c) =>
              \A k \in keys[c] : k \notin keys[b] /\ Deps[k] \cap keys[b] = {}

\* The runner knows what may be held: what it asked up and did not see go.
HeldIsKnown ==
    /\ \A f \in Fixtures :
          f \notin Deferred \/ (\E c \in Commands : Starts(c) /\ f \in keys[c]) =>
             f \in held \/ teardown[f] = "ended"
    /\ relCmd # 0 => relCmd \in Commands /\ Releases(relCmd)
    /\ \A c \in overdue : Releases(c)
    /\ \A c \in Commands : Releases(c) /\ cstate[c] = "acked" /\ ack[c] # "refused" =>
          \A f \in keys[c] : teardown[f] = "ended"

\* Slots are dispatched in their order, and drained before the shutdown.
SlotsInOrder ==
    /\ \A s \in Suites :
          /\ SlotOf[s] < slot => Finished(s) \/ (stopped /\ suite[s] = "uncompiled")
          /\ suite[s] = "running" => SlotOf[s] = slot /\ Needs[s] \subseteq published
    /\ phase \in {"draining", "releasing", "exit0", "exit1"} => cancelled
    /\ cancelled => ending # "no"
    /\ ending # "no" => slot > LastSlot

\* What the runner believes of the up-front phase is so, unless it was cut.
VerdictTells ==
    /\ upfront = "waiting" => slot = 0 /\ (stopped => cut)
    /\ cut => stopped
    /\ upfront = "over" => doneLine = "ok" \/ cut
    /\ upfront = "failed" => doneLine = "failed" \/ ~Running
    /\ verdict # "none" => ending = "over"
    /\ ending = "over" => ~Running

ProcessInv == SetupTells /\ ReleaseTells /\ Quiet /\ GateReads /\ ExitTells /\ AskedFor
RunnerInv ==
    /\ RunTypeOK /\ LedgerCounts /\ FreedIsUnneeded /\ StartsAwaited /\ ReleasesApart
    /\ HeldIsKnown /\ SlotsInOrder /\ VerdictTells /\ GreenMeansReleased

RunInv == IInv /\ ProcessInv /\ RunnerInv

-----------------------------------------------------------------------------
(* The process by itself.                                                  *)

\* Nothing that f takes part in is being torn down.
Apart(f) == \A h \in Fixtures : f \in Dependents(h) \cup {h} => teardown[h] = "idle"

\* A setup under way is apart from every teardown.
LEMMA BusyIsApart ==
    ASSUME ProcessInv, NEW f \in Fixtures, setup[f] \notin {"idle", "ended"}
    PROVE  Apart(f)
  BY DEF ProcessInv, Quiet, Apart

\* A setup the up-front phase begins is.
LEMMA UpfrontIsApart ==
    ASSUME ProcessInv, phase = "upfront", NEW f \in Fixtures
    PROVE  Apart(f)
  BY DEF ProcessInv, Quiet, Apart

\* So is one a start command begins: no release was sent for what it brings
\* up or rests on, and the terminal teardown waits for it.
LEMMA StartIsApart ==
    ASSUME RunInv, Running, NEW c \in Commands, NEW f \in calls[c]
    PROVE  f \in Fixtures /\ Apart(f) /\ phase # "upfront"
  <1>0. f \in Fixtures
    BY DEF RunInv, IInv, TypeOK, CmdTypes
  <1>1. verb[c] = "start" /\ cstate[c] = "running" /\ f \in keys[c]
    BY DEF RunInv, ProcessInv, IInv, CallsAreStarts, AskedFor
  <1>2. phase \notin {"upfront", "releasing", "exit0", "exit1", "killed"}
    BY <1>1 DEF RunInv, IInv, UpfrontAlone, NoStartWhenReleasing, Running, Exits
  <1>3. ASSUME NEW h \in Fixtures, f \in Dependents(h) \cup {h}
        PROVE  teardown[h] = "idle"
    <2>1. ASSUME NEW b \in Commands, Releases(b) PROVE h \notin keys[b]
      <3>1. f \notin keys[b] /\ Deps[f] \cap keys[b] = {}
        BY <1>1, <2>1 DEF RunInv, RunnerInv, ReleasesApart, InFlight, Starts
      <3> QED BY <1>3, <3>1 DEF Dependents
    <2> QED BY <1>2, <2>1 DEF RunInv, ProcessInv, AskedFor
  <1> QED BY <1>0, <1>2, <1>3 DEF Apart

\* What a setup does disturbs no teardown.
LEMMA SetupKeeps ==
    ASSUME IInv, ProcessInv, NEW f \in Fixtures, Apart(f), NEW x,
           setup' = [setup EXCEPT ![f] = x],
           attempted' \subseteq attempted \cup {f},
           UNCHANGED <<mainVars, tearVars>>
    PROVE  Quiet' /\ GateReads' /\ ExitTells'
  <1> USE DEF mainVars, tearVars, Apart, Dependents
  <1>1. Quiet'
    BY DEF IInv, TypeOK, SetupTypes, ProcessInv, Quiet
  <1>2. GateReads'
    BY DEF ProcessInv, GateReads
  <1>3. ExitTells'
    BY DEF ProcessInv, ExitTells
  <1> QED BY <1>1, <1>2, <1>3

\* A setup begins, in the up-front phase or for a start command.
LEMMA SetupBegins ==
    ASSUME IInv, ProcessInv, NEW f \in Fixtures, Apart(f), f \notin started,
           setup' = [setup EXCEPT ![f] = "derive"],
           UNCHANGED <<mainVars, tearVars, attempted, errs, published, entered, released>>
    PROVE  SetupTells' /\ ReleaseTells' /\ Quiet' /\ GateReads' /\ ExitTells'
  <1>1. setup[f] = "idle"
    BY DEF IInv, StartedHasBegun
  <1>2. SetupTells'
    BY <1>1 DEF IInv, TypeOK, SetupTypes, ProcessInv, SetupTells
  <1>3. ReleaseTells'
    BY DEF ProcessInv, ReleaseTells, tearVars
  <1> QED BY <1>2, <1>3, SetupKeeps

\* A setup goes on without a call of its fixture's code beginning or ending a
\* hold.
LEMMA SetupGoesOn ==
    ASSUME IInv, ProcessInv, NEW f \in Fixtures,
           \/ DeriveConfig(f) \/ AwaitDeps(f) \/ AttemptSucceeds(f)
           \/ AttemptOverruns(f) \/ AttemptFails(f) \/ RetryDelay(f)
           \/ (FirstAttempt(f) \/ NextAttempt(f)) /\ cancelled
           \/ Publish(f)
    PROVE  ProcessInv'
  <1> USE DEF DeriveConfig, AwaitDeps, AttemptSucceeds, AttemptOverruns,
              AttemptFails, RetryDelay, FirstAttempt, NextAttempt, Publish,
              SetupGoes, SetupFails
  <1>1. setup[f] \notin {"idle", "ended"} /\ \E x : setup' = [setup EXCEPT ![f] = x]
    OBVIOUS
  <1>2. UNCHANGED <<mainVars, tearVars, cmdVars, started, attempted, entered, released>>
    OBVIOUS
  <1>3. Quiet' /\ GateReads' /\ ExitTells'
    BY <1>1, <1>2, BusyIsApart, SetupKeeps
  <1>4. ReleaseTells'
    BY <1>2 DEF ProcessInv, ReleaseTells, tearVars
  <1>5. AskedFor'
    BY <1>2 DEF ProcessInv, AskedFor, mainVars, tearVars, cmdVars, Starts, Releases
  <1>6. SetupTells'
    <2> USE DEF IInv, TypeOK, SetupTypes, ProcessInv, SetupTells
    <2>1. CASE AwaitDeps(f)
      BY <2>1, GraphAssumption
    <2>2. CASE Publish(f)
      BY <2>2
    <2>3. CASE ~AwaitDeps(f) /\ ~Publish(f)
      BY <2>3
    <2> QED BY <2>1, <2>2, <2>3
  <1> QED BY <1>3, <1>4, <1>5, <1>6 DEF ProcessInv

\* BeforeAll is entered.
LEMMA SetupEnters ==
    ASSUME IInv, ProcessInv, NEW f \in Fixtures,
           (FirstAttempt(f) \/ NextAttempt(f)) /\ ~cancelled
    PROVE  ProcessInv'
  <1> USE DEF FirstAttempt, NextAttempt, EnterBeforeAll, SetupGoes
  <1>1. setup[f] \in {"begin", "again"} /\ setup' = [setup EXCEPT ![f] = "beforeAll"]
    OBVIOUS
  <1>2. Apart(f)
    BY <1>1, BusyIsApart
  <1>3. /\ attempted' = attempted \cup {f}
        /\ entered' = [entered EXCEPT ![f] = @ + 1]
        /\ UNCHANGED <<mainVars, tearVars, cmdVars, started, published, errs, released>>
    OBVIOUS
  <1>4. Quiet' /\ GateReads' /\ ExitTells'
    BY <1>1, <1>2, <1>3, SetupKeeps
  <1>5. ReleaseTells'
    BY <1>1, <1>2, <1>3
       DEF IInv, TypeOK, SetupTypes, TearTypes, ProcessInv, ReleaseTells, SetupTells,
           Apart, tearVars
  <1>6. AskedFor'
    BY <1>3 DEF ProcessInv, AskedFor, mainVars, tearVars, cmdVars, Starts, Releases
  <1>7. SetupTells'
    BY <1>1, <1>3 DEF IInv, TypeOK, SetupTypes, ProcessInv, SetupTells
  <1> QED BY <1>4, <1>5, <1>6, <1>7 DEF ProcessInv

\* A failed attempt is released before the next one.
LEMMA SetupReleases ==
    ASSUME IInv, ProcessInv, NEW f \in Fixtures, ReleaseBetween(f)
    PROVE  ProcessInv'
  <1> USE DEF ReleaseBetween, SetupGoes
  <1>1. setup[f] = "between" /\ setup' = [setup EXCEPT ![f] = "again"]
    OBVIOUS
  <1>2. Apart(f)
    BY <1>1, BusyIsApart
  <1>3. /\ attempted' = attempted \ {f}
        /\ released' = [released EXCEPT ![f] = @ + 1]
        /\ UNCHANGED <<mainVars, tearVars, cmdVars, started, published, errs, entered>>
    OBVIOUS
  <1>4. Quiet' /\ GateReads' /\ ExitTells'
    BY <1>1, <1>2, <1>3, SetupKeeps
  <1>5. ReleaseTells'
    BY <1>1, <1>2, <1>3
       DEF IInv, TypeOK, SetupTypes, TearTypes, ProcessInv, ReleaseTells, SetupTells,
           Apart, tearVars
  <1>6. AskedFor'
    BY <1>3 DEF ProcessInv, AskedFor, mainVars, tearVars, cmdVars, Starts, Releases
  <1>7. SetupTells'
    BY <1>1, <1>3 DEF IInv, TypeOK, SetupTypes, ProcessInv, SetupTells
  <1> QED BY <1>4, <1>5, <1>6, <1>7 DEF ProcessInv

-----------------------------------------------------------------------------
\* A fixture whose teardown may be called holds no setup under way, and none
\* on top of it does.
LEMMA CalledIsQuiet ==
    ASSUME RunInv, Running, NEW f \in Fixtures, TeardownCalled(f)
    PROVE  /\ phase # "upfront"
           /\ \A g \in Dependents(f) \cup {f} : setup[g] \in {"idle", "ended"}
           /\ \/ phase \in {"releasing", "exit0", "exit1", "killed"}
              \/ \E c \in Commands : Releases(c) /\ f \in keys[c]
  <1>0. \A g \in Fixtures : g \notin started => setup[g] = "idle"
    BY DEF RunInv, IInv, StartedHasBegun
  <1>1. CASE phase = "releasing"
    BY <1>0, <1>1 DEF RunInv, IInv, SetupHasOwner, NoStartWhenReleasing, Dependents
  <1>2. ASSUME NEW b \in Commands, Releases(b), f \in keys[b]
        PROVE  /\ phase # "upfront"
               /\ \A g \in Dependents(f) \cup {f} : setup[g] \in {"idle", "ended"}
    <2>1. phase # "upfront"
      BY <1>2 DEF RunInv, RunnerInv, ReleasesApart
    <2>2. ASSUME NEW g \in Dependents(f) \cup {f} PROVE setup[g] \in {"idle", "ended"}
      <3>1. g \in Fixtures
        BY DEF Dependents
      <3>2. ASSUME NEW c \in Commands, Starts(c), cstate[c] = "running", g \in owns[c]
            PROVE  FALSE
        <4>1. g \in keys[c]
          BY <3>1, <3>2 DEF RunInv, ProcessInv, AskedFor
        <4>2. g \notin keys[b] /\ Deps[g] \cap keys[b] = {}
          BY <1>2, <3>2, <4>1 DEF RunInv, RunnerInv, ReleasesApart, InFlight
        <4> QED BY <1>2, <4>2 DEF Dependents
      <3>3. phase \in {"serving", "draining", "releasing", "exit0", "exit1"}
        BY <2>1 DEF RunInv, IInv, TypeOK, MainTypes, Phases, Running, Exits
      <3> QED BY <1>0, <3>1, <3>2, <3>3 DEF RunInv, IInv, SetupHasOwner, Starts
    <2> QED BY <2>1, <2>2
  <1> QED BY <1>1, <1>2 DEF TeardownCalled, Releases

\* A teardown is called, and reads its dependents one by one.
LEMMA TeardownBegins ==
    ASSUME RunInv, Running, NEW f \in Fixtures,
           \/ TeardownEnter(f) \/ AwaitOwnSetup(f) \/ AwaitDependent(f)
           \/ \E d \in Fixtures : ReadDependent(f, d)
    PROVE  ProcessInv'
  <1> USE DEF TeardownEnter, AwaitOwnSetup, AwaitDependent, ReadDependent, TeardownGoes,
              IInv, TypeOK, SetupTypes, TearTypes
  <1>1. UNCHANGED <<mainVars, setupVars, torn, tornFailed, cmdVars, released>>
    OBVIOUS
  <1>2. /\ \A g \in Fixtures \ {f} : /\ teardown'[g] = teardown[g]
                                     /\ unread'[g] = unread[g] /\ awaits'[g] = awaits[g]
        /\ teardown'[f] \in {"own", "gate"} /\ teardown[f] \in {"idle", "own", "gate"}
    BY DEF RunInv
  <1>3. teardown[f] # "idle" \/ TeardownCalled(f)
    OBVIOUS
  <1>4. SetupTells'
    BY <1>1 DEF RunInv, ProcessInv, SetupTells, setupVars
  <1>5. ReleaseTells'
    BY <1>1, <1>2 DEF RunInv, ProcessInv, ReleaseTells, setupVars
  <1>6. Quiet'
    BY <1>1, <1>2, <1>3, CalledIsQuiet
       DEF RunInv, ProcessInv, Quiet, setupVars, mainVars, Dependents
  <1>7. AskedFor'
    BY <1>1, <1>2, <1>3, CalledIsQuiet
       DEF RunInv, ProcessInv, AskedFor, setupVars, mainVars, cmdVars, Starts, Releases
  <1>8. ExitTells'
    BY <1>1, <1>2 DEF RunInv, ProcessInv, ExitTells, mainVars
  <1>9. GateReads'
    <2>1. ASSUME NEW h \in Fixtures \ {f}, NEW g \in Dependents(h),
                 teardown[h] \in {"gate", "afterAll", "ended"}
          PROVE  g \in unread'[h] \cup awaits'[h] \/ g \notin attempted' \/ teardown'[g] = "ended"
      BY <1>1, <1>2, <2>1 DEF RunInv, ProcessInv, GateReads, setupVars
    <2>2. /\ teardown'[f] = "own" => unread'[f] = Dependents(f)
          /\ teardown'[f] = "gate" => \A g \in Dependents(f) :
                \/ g \in unread'[f] \cup awaits'[f]
                \/ g \notin attempted' \/ teardown'[g] = "ended"
      <3>1. CASE TeardownEnter(f)
        BY <3>1 DEF RunInv
      <3>2. CASE AwaitOwnSetup(f)
        BY <3>2 DEF RunInv, ProcessInv, GateReads
      <3>3. CASE AwaitDependent(f)
        <4>1. /\ teardown[f] = "gate" /\ UNCHANGED <<teardown, unread, attempted>>
              /\ awaits'[f] = {} /\ \A g \in awaits[f] : teardown[g] = "ended"
          BY <3>3 DEF RunInv, setupVars
        <4> QED BY <4>1 DEF RunInv, ProcessInv, GateReads
      <3>4. CASE \E d \in Fixtures : ReadDependent(f, d)
        BY <1>1, <3>4 DEF RunInv, ProcessInv, GateReads, setupVars
      <3> QED BY <3>1, <3>2, <3>3, <3>4
    <2> QED BY <1>2, <2>1, <2>2 DEF RunInv, ProcessInv, GateReads, Dependents
  <1> QED BY <1>4, <1>5, <1>6, <1>7, <1>8, <1>9 DEF ProcessInv

\* A teardown past all its dependents calls AfterAll, or had nothing to.
LEMMA TeardownEnds ==
    ASSUME RunInv, Running, NEW f \in Fixtures, ClaimTeardown(f) \/ AfterAllReturns(f)
    PROVE  ProcessInv'
  <1> USE DEF ClaimTeardown, AfterAllReturns, TeardownGoes,
              IInv, TypeOK, SetupTypes, TearTypes
  <1>1. /\ UNCHANGED <<mainVars, setupVars, unread, awaits, cmdVars>>
        /\ \A g \in Fixtures \ {f} : teardown'[g] = teardown[g]
        /\ teardown[f] \in {"gate", "afterAll"}
    BY DEF RunInv
  <1>2. SetupTells'
    BY <1>1 DEF RunInv, ProcessInv, SetupTells, setupVars
  <1>3. ReleaseTells'
    <2>1. CASE ClaimTeardown(f)
      BY <1>1, <2>1 DEF RunInv, ProcessInv, ReleaseTells, setupVars
    <2>2. CASE AfterAllReturns(f)
      BY <1>1, <2>2 DEF RunInv, ProcessInv, ReleaseTells, setupVars
    <2> QED BY <2>1, <2>2
  <1>4. Quiet' /\ AskedFor'
    BY <1>1 DEF RunInv, ProcessInv, Quiet, AskedFor, setupVars, mainVars, cmdVars,
                Starts, Releases, Dependents
  <1>5. GateReads'
    BY <1>1 DEF RunInv, ProcessInv, GateReads, setupVars, Dependents
  <1>6. ExitTells'
    BY <1>1 DEF RunInv, ProcessInv, ExitTells, mainVars, Running, Exits
  <1> QED BY <1>2, <1>3, <1>4, <1>5, <1>6 DEF ProcessInv

\* A command is taken up, judged and acknowledged, or sent.
LEMMA CommandKeeps ==
    ASSUME RunInv, NEW c \in Commands,
           \/ Accept(c) \/ Judge(c) \/ StartAck(c) \/ TeardownAck(c)
           \/ \E v \in {"start", "teardown"}, K \in SUBSET Fixtures : Send(c, v, K)
    PROVE  ProcessInv'
  <1> USE DEF Accept, Judge, StartAck, TeardownAck, Send, IInv, TypeOK, CmdTypes
  <1>1. UNCHANGED <<mainVars, setupVars, tearVars, released>>
    OBVIOUS
  <1>2. SetupTells' /\ ReleaseTells' /\ Quiet' /\ GateReads' /\ ExitTells'
    BY <1>1 DEF RunInv, ProcessInv, SetupTells, ReleaseTells, Quiet, GateReads,
                ExitTells, mainVars, setupVars, tearVars, Dependents
  <1>3. \A b \in Commands : \/ verb'[b] = verb[b] /\ keys'[b] = keys[b]
                            \/ b = c /\ cstate[c] = "unsent"
    BY DEF RunInv
  <1>4. AskedFor'
    <2>1. \A b \in Commands : cstate'[b] = "unsent" =>
             verb'[b] = "none" /\ calls'[b] = {} /\ owns'[b] = {}
      BY <1>3 DEF RunInv, ProcessInv, AskedFor
    <2>2. \A b \in Commands : calls'[b] \cup owns'[b] \subseteq keys'[b]
      <3>1. cstate[c] = "unsent" => calls[c] = {} /\ owns[c] = {}
        BY DEF RunInv, ProcessInv, AskedFor
      <3> QED BY <1>3, <3>1 DEF RunInv, ProcessInv, AskedFor
    <2>3. \A b \in Commands : (Starts(b) => Starts(b)' /\ keys'[b] = keys[b])
                              /\ (Releases(b) => Releases(b)' /\ keys'[b] = keys[b])
      BY <1>3 DEF RunInv, ProcessInv, AskedFor, Starts, Releases
    <2> QED BY <1>1, <2>1, <2>2, <2>3
            DEF RunInv, ProcessInv, AskedFor, mainVars, setupVars, tearVars
  <1> QED BY <1>2, <1>4 DEF ProcessInv

\* A start command calls the setup of one of its fixtures.
LEMMA StartCallKeeps ==
    ASSUME RunInv, Running, NEW c \in Commands, NEW f \in Fixtures, StartCall(c, f)
    PROVE  ProcessInv'
  <1> USE DEF StartCall, SetupGoes
  <1>1. f \in calls[c] /\ Apart(f)
    BY StartIsApart
  <1>2. SetupTells' /\ ReleaseTells' /\ Quiet' /\ GateReads' /\ ExitTells'
    <2>1. CASE f \notin started
      BY <1>1, <2>1, SetupBegins DEF RunInv
    <2>2. CASE f \in started
      <3>1. UNCHANGED <<mainVars, tearVars, setup, attempted, errs, published, entered,
                        released>>
        BY <2>2
      <3> QED BY <3>1 DEF RunInv, ProcessInv, SetupTells, ReleaseTells, Quiet, GateReads,
                          ExitTells, mainVars, tearVars, Dependents
    <2> QED BY <2>1, <2>2
  <1>3. AskedFor'
    <2>1. verb[c] = "start" /\ f \in keys[c]
      BY DEF RunInv, ProcessInv, IInv, CallsAreStarts, AskedFor
    <2> QED BY <2>1 DEF RunInv, ProcessInv, AskedFor, IInv, TypeOK, CmdTypes, mainVars,
                        tearVars, Starts, Releases
  <1> QED BY <1>2, <1>3 DEF ProcessInv

\* main goes on, and the process is told to stop or dies.
LEMMA MainKeeps ==
    ASSUME RunInv, Running, MainStep \/ Cancel \/ Die
    PROVE  ProcessInv'
  <1> USE DEF MainStep, UpfrontDone, LeaveLoop, StartsDrained, ExitMain, Cancel, Die
  <1>1. UNCHANGED <<setupVars, tearVars, cmdVars, released>>
    OBVIOUS
  <1>2. SetupTells' /\ ReleaseTells' /\ GateReads'
    BY <1>1 DEF RunInv, ProcessInv, SetupTells, ReleaseTells, GateReads, setupVars,
                tearVars, Dependents
  <1>3. Quiet' /\ AskedFor'
    BY <1>1 DEF RunInv, ProcessInv, Quiet, AskedFor, setupVars, tearVars, cmdVars,
                Dependents, Starts, Releases, Running, Exits
  <1>4. ExitTells'
    BY <1>1 DEF RunInv, ProcessInv, ExitTells, tearVars
  <1> QED BY <1>2, <1>3, <1>4 DEF ProcessInv

\* Whatever the process does.
LEMMA ProcessKeeps ==
    ASSUME RunInv, Process \/ (Running /\ Cancel) \/ Die
    PROVE  ProcessInv'
  <1>1. Running
    BY DEF Process, Die
  <1>2. CASE MainStep \/ Cancel \/ Die
    BY <1>1, <1>2, MainKeeps
  <1>3. ASSUME NEW f \in Fixtures, UpfrontCall(f) PROVE ProcessInv'
    <2> USE <1>3 DEF UpfrontCall
    <2>1. SetupTells' /\ ReleaseTells' /\ Quiet' /\ GateReads' /\ ExitTells'
      BY UpfrontIsApart, SetupBegins DEF RunInv
    <2>2. AskedFor'
      BY DEF RunInv, ProcessInv, AskedFor, mainVars, tearVars, cmdVars, Starts, Releases
    <2> QED BY <2>1, <2>2 DEF ProcessInv
  <1>4. ASSUME NEW f \in Fixtures, FixtureStep(f) \/ UserReturns(f) PROVE ProcessInv'
    BY <1>1, <1>3, <1>4, SetupGoesOn, SetupEnters, SetupReleases, TeardownBegins,
       TeardownEnds
       DEF RunInv, FixtureStep, UserReturns
  <1>5. ASSUME NEW c \in Commands, CommandStep(c) PROVE ProcessInv'
    BY <1>1, <1>5, CommandKeeps, StartCallKeeps DEF CommandStep
  <1> QED BY <1>1, <1>2, <1>4, <1>5 DEF Process

-----------------------------------------------------------------------------
(* What the process never takes back.                                      *)

Forward ==
    /\ Running' => Running
    /\ phase' = "upfront" => phase = "upfront"
    /\ phase' \in {"draining", "releasing", "exit0", "exit1"} =>
          cancelled \/ phase \in {"draining", "releasing", "exit0", "exit1"}
    /\ doneLine' = doneLine \/ (doneLine = "none" /\ Running)
    /\ published \subseteq published'
    /\ \A f \in Fixtures : teardown[f] = "ended" => teardown'[f] = "ended"

\* Commands in particular: none comes up by itself, and an answer stays.
CommandsForward ==
    /\ verb' = verb /\ keys' = keys
    /\ \A c \in Commands : InFlight(c)' => InFlight(c)
    /\ \A c \in Commands : Releases(c) /\ cstate'[c] = "acked" /\ ack'[c] # "refused" =>
          \/ cstate[c] = "acked" /\ ack[c] # "refused"
          \/ \A f \in keys[c] : teardown'[f] = "ended"

LEMMA ProcessGoesForward ==
    ASSUME RunInv, Process \/ (Running /\ Cancel) \/ Die
    PROVE  Forward /\ CommandsForward
  <1> USE DEF Running, Exits
  <1>1. CASE MainStep \/ Cancel \/ Die
    <2>1. UNCHANGED <<setupVars, tearVars, cmdVars>>
      BY <1>1 DEF MainStep, UpfrontDone, LeaveLoop, StartsDrained, ExitMain, Cancel, Die
    <2>2. Forward
      BY <1>1, <2>1
         DEF MainStep, UpfrontDone, LeaveLoop, StartsDrained, ExitMain, Cancel, Die,
             Forward, setupVars, tearVars, RunInv, ProcessInv, ExitTells
    <2>3. CommandsForward
      BY <2>1 DEF CommandsForward, InFlight, Starts, cmdVars
    <2> QED BY <2>2, <2>3
  <1>2. ASSUME NEW f \in Fixtures, FixtureStep(f) \/ UserReturns(f)
        PROVE  Forward /\ CommandsForward
    <2>1. /\ UNCHANGED <<mainVars, cmdVars>> /\ published \subseteq published'
          /\ UNCHANGED teardown \/ (/\ teardown[f] # "ended"
                                    /\ \E x : teardown' = [teardown EXCEPT ![f] = x])
      BY <1>2 DEF FixtureStep, UserReturns, UpfrontCall, DeriveConfig, AwaitDeps,
          FirstAttempt, AttemptSucceeds, AttemptOverruns, AttemptFails,
          RetryDelay, ReleaseBetween, NextAttempt, Publish, TeardownEnter,
          AwaitOwnSetup, AwaitDependent, ReadDependent, ClaimTeardown,
          AfterAllReturns, EnterBeforeAll, SetupGoes, SetupFails, TeardownGoes,
          setupVars, tearVars
    <2>2. Forward
      BY <2>1 DEF Forward, mainVars, RunInv, IInv, TypeOK, TearTypes
    <2>3. CommandsForward
      BY <2>1 DEF CommandsForward, InFlight, Starts, cmdVars
    <2> QED BY <2>2, <2>3
  <1>3. ASSUME NEW c \in Commands, CommandStep(c) PROVE Forward /\ CommandsForward
    <2> USE <1>3 DEF CommandStep, Accept, Judge, StartAck, TeardownAck, StartCall, SetupGoes
    <2>1. UNCHANGED <<mainVars, tearVars, published, verb, keys>>
      BY DEF setupVars
    <2>2. Forward
      BY <2>1 DEF Forward, mainVars, tearVars
    <2>3. ASSUME NEW b \in Commands
          PROVE  /\ InFlight(b)' => InFlight(b)
                 /\ Releases(b) /\ cstate'[b] = "acked" /\ ack'[b] # "refused" =>
                      \/ cstate[b] = "acked" /\ ack[b] # "refused"
                      \/ \A f \in keys[b] : teardown'[f] = "ended"
      <3>1. CASE b # c
        BY <2>1, <3>1 DEF InFlight, Starts, RunInv, IInv, TypeOK, CmdTypes
      <3>2. CASE b = c
        BY <2>1, <3>2 DEF InFlight, Starts, Releases, RunInv, IInv, TypeOK, CmdTypes, tearVars
      <3> QED BY <3>1, <3>2
    <2> QED BY <2>1, <2>2, <2>3 DEF CommandsForward
  <1>4. Running /\ cancelled \in BOOLEAN
    BY DEF Process, Die, RunInv, IInv, TypeOK, MainTypes
  <1> QED BY <1>1, <1>2, <1>3 DEF Process

\* The runner's part of the invariant that a step of the process, with the
\* runner where it was, keeps.
ClientKeeps ==
    /\ LedgerCounts /\ FreedIsUnneeded /\ StartsAwaited /\ ReleasesApart /\ HeldIsKnown

LEMMA ForwardKeepsClient ==
    ASSUME RunInv, Forward, CommandsForward, UNCHANGED restOfEnd
    PROVE  ClientKeeps'
  <1> USE DEF restOfEnd, Forward, CommandsForward, Starts, Releases
  <1>1. LedgerCounts' /\ FreedIsUnneeded'
    BY DEF RunInv, RunnerInv, LedgerCounts, FreedIsUnneeded, Unfinished, Needing, Finished
  <1>2. StartsAwaited'
    BY DEF RunInv, RunnerInv, StartsAwaited, Awaited, SlotSuites
  <1>3. ReleasesApart'
    BY DEF RunInv, RunnerInv, ReleasesApart
  <1>4. HeldIsKnown'
    BY DEF RunInv, RunnerInv, HeldIsKnown, IInv, TypeOK, CmdTypes
  <1> QED BY <1>1, <1>2, <1>3, <1>4 DEF ClientKeeps

LEMMA ProcessKeepsRunner ==
    ASSUME RunInv, Process \/ Die, UNCHANGED runVars
    PROVE  RunnerInv'
  <1> USE DEF runVars
  <1>1. Forward /\ CommandsForward
    BY ProcessGoesForward
  <1>2. ClientKeeps'
    BY <1>1, ForwardKeepsClient DEF restOfEnd
  <1>3. RunTypeOK'
    BY DEF RunInv, RunnerInv, RunTypeOK
  <1>4. Running
    BY DEF Process, Die
  <1>5. UNCHANGED cancelled
    BY DEF Process, Die, MainStep, UpfrontDone, LeaveLoop, StartsDrained, ExitMain,
          FixtureStep, UserReturns, UpfrontCall, DeriveConfig, AwaitDeps,
          FirstAttempt, AttemptSucceeds, AttemptOverruns, AttemptFails,
          RetryDelay, ReleaseBetween, NextAttempt, Publish, TeardownEnter,
          AwaitOwnSetup, AwaitDependent, ReadDependent, ClaimTeardown,
          AfterAllReturns, CommandStep, Accept, Judge, StartAck, TeardownAck, StartCall,
          mainVars
  <1>6. SlotsInOrder'
    BY <1>1, <1>5 DEF Forward, RunInv, RunnerInv, SlotsInOrder, Finished
  <1>7. VerdictTells' /\ GreenMeansReleased'
    BY <1>1, <1>4 DEF Forward, RunInv, RunnerInv, VerdictTells, GreenMeansReleased
  <1> QED BY <1>2, <1>3, <1>6, <1>7 DEF RunnerInv, ClientKeeps

-----------------------------------------------------------------------------
(* The ledger.                                                             *)

\* A suite that leaves it takes one need off each of its keys, and frees those
\* whose last need it was.
LEMMA LedgerIsRight ==
    ASSUME RunTypeOK, LedgerCounts, NEW s \in Suites, ~Finished(s),
           NEW st \in {"ran", "givenUp", "stopped", "dropped"},
           suite' = [suite EXCEPT ![s] = st], LedgerDone(s)
    PROVE  /\ LedgerCounts' /\ counts' \in [Fixtures -> Nat]
           /\ pending' \subseteq Fixtures
           /\ \A k \in Fixtures : Unfinished(k)' \subseteq Unfinished(k)
           /\ \A k \in pending' : k \in pending \/ Unfinished(k)' = {}
  <1>1. ASSUME NEW k \in Fixtures
        PROVE  /\ IsFiniteSet(Unfinished(k)) /\ Cardinality(Unfinished(k)) \in Nat
               /\ Unfinished(k)' = Unfinished(k) \ {s}
               /\ s \in Unfinished(k) <=> k \in Needs[s]
    <2>1. IsFiniteSet(Unfinished(k))
      BY PlanAssumption, FS_Subset DEF Unfinished, Needing
    <2>2. Unfinished(k)' = Unfinished(k) \ {s}
      BY DEF Unfinished, Needing, Finished, RunTypeOK
    <2>3. s \in Unfinished(k) <=> k \in Needs[s]
      BY DEF Unfinished, Needing
    <2> QED BY <2>1, <2>2, <2>3, FS_CardinalityType
  <1>2. ASSUME NEW k \in Fixtures
        PROVE  Cardinality(Unfinished(k)') = IF k \in Needs[s] THEN counts[k] - 1 ELSE counts[k]
    <2>1. CASE k \in Needs[s]
      BY <1>1, <2>1, FS_RemoveElement DEF LedgerCounts
    <2>2. CASE k \notin Needs[s]
      <3>1. Unfinished(k)' = Unfinished(k)
        BY <1>1, <2>2
      <3> QED BY <2>2, <3>1 DEF LedgerCounts
    <2> QED BY <2>1, <2>2
  <1>3. \A k \in Fixtures : counts'[k] = Cardinality(Unfinished(k)')
    BY <1>2 DEF LedgerDone
  <1>4. ASSUME NEW k \in Fixtures PROVE IsFiniteSet(Unfinished(k)')
    BY <1>1, <1>4, FS_Subset
  <1>5. counts' \in [Fixtures -> Nat]
    <2>1. \A k \in Fixtures : counts'[k] \in Nat
      BY <1>3, <1>4, FS_CardinalityType
    <2> QED BY <2>1 DEF LedgerDone
  <1>6. LedgerCounts'
    BY <1>3 DEF LedgerCounts
  <1>7. Needs[s] \subseteq Fixtures
    BY PlanAssumption
  <1>8. ASSUME NEW k \in Needs[s], counts[k] = 1 PROVE Unfinished(k)' = {}
    <2>1. Cardinality(Unfinished(k)') = 0
      BY <1>2, <1>7, <1>8
    <2> QED BY <1>4, <1>7, <2>1, FS_EmptySet
  <1> QED BY <1>1, <1>5, <1>6, <1>7, <1>8 DEF LedgerDone, RunTypeOK

-----------------------------------------------------------------------------
(* The runner's steps.                                                     *)

\* What the process is like is not for the runner's own steps to change.
LEMMA ProcessUntouched ==
    ASSUME ProcessInv, UNCHANGED vars
    PROVE  ProcessInv'
  <1> USE DEF vars, mainVars, setupVars, tearVars, cmdVars
  <1>1. SetupTells' /\ ReleaseTells' /\ GateReads'
    BY DEF ProcessInv, SetupTells, ReleaseTells, GateReads, Dependents
  <1>2. Quiet' /\ ExitTells' /\ AskedFor'
    BY DEF ProcessInv, Quiet, ExitTells, AskedFor, Dependents, Starts, Releases
  <1> QED BY <1>1, <1>2 DEF ProcessInv

\* A suite is delivered, dispatched, given up, stopped or returns.
LEMMA SuiteKeeps ==
    ASSUME RunInv, NEW s \in Suites, SuiteStep(s)
    PROVE  RunnerInv'
  <1> USE DEF SuiteStep, Compiled, Dispatch, GiveUp, Stop, SuiteReturns, SuiteEnds,
              SuiteGoes
  <1>1. UNCHANGED <<vars, stopped, restOfRun>>
    OBVIOUS
  <1>2. UNCHANGED <<phase, cancelled, doneLine, published, teardown, tornFailed, entered,
                    released, cstate, verb, keys, ack>>
    BY <1>1 DEF vars, mainVars, setupVars, tearVars, cmdVars
  <1>3. ~Finished(s) /\ suite \in [Suites -> SuiteStates]
    BY DEF Finished, RunInv, RunnerInv, RunTypeOK
  <1>4. PICK st \in SuiteStates : suite' = [suite EXCEPT ![s] = st]
    BY DEF SuiteStates
  <1>5. /\ LedgerCounts' /\ counts' \in [Fixtures -> Nat] /\ pending' \subseteq Fixtures
        /\ \A k \in Fixtures : Unfinished(k)' \subseteq Unfinished(k)
        /\ \A k \in pending' : k \in pending \/ Unfinished(k)' = {}
    <2>1. CASE SuiteEnds(s, "dropped") \/ SuiteEnds(s, "givenUp") \/ SuiteEnds(s, "stopped")
               \/ SuiteEnds(s, "ran")
      BY <1>3, <2>1, LedgerIsRight DEF RunInv, RunnerInv
    <2>2. CASE st \in {"ready", "running"} /\ UNCHANGED <<counts, pending>>
      <3>1. \A k \in Fixtures : Unfinished(k)' = Unfinished(k)
        BY <1>3, <1>4, <2>2 DEF Unfinished, Needing, Finished
      <3> QED BY <2>2, <3>1 DEF RunInv, RunnerInv, LedgerCounts, RunTypeOK
    <2> QED BY <1>3, <1>4, <2>1, <2>2
  <1>6. RunTypeOK'
    BY <1>1, <1>3, <1>4, <1>5 DEF RunInv, RunnerInv, RunTypeOK, restOfRun
  <1>7. FreedIsUnneeded'
    <2>1. \A c \in Commands : keys[c] \subseteq Fixtures
      BY DEF RunInv, IInv, TypeOK, CmdTypes
    <2> QED BY <1>2, <1>5, <2>1 DEF RunInv, RunnerInv, FreedIsUnneeded, Releases, RunTypeOK
  <1>8. StartsAwaited'
    <2>1. startCmd # 0 => \A k : Awaited(k) => Awaited(k)'
      <3>1. startCmd # 0 => ~opened
        BY DEF RunInv, RunnerInv, StartsAwaited
      <3>2. suite[s] = "ready" /\ SlotOf[s] = slot => opened
        OBVIOUS
      <3> QED BY <1>1, <1>3, <1>4, <3>1, <3>2 DEF Awaited, SlotSuites, restOfRun
    <2> QED BY <1>1, <1>2, <2>1
            DEF RunInv, RunnerInv, StartsAwaited, restOfRun, InFlight, Starts, Running,
                Commands
  <1>9. ReleasesApart' /\ HeldIsKnown'
    BY <1>1, <1>2 DEF RunInv, RunnerInv, ReleasesApart, HeldIsKnown, restOfRun, InFlight,
                      Starts, Releases
  <1>10. SlotsInOrder'
    <2>1. \A x \in Suites : SlotOf[x] < slot' =>
             Finished(x)' \/ (stopped' /\ suite'[x] = "uncompiled")
      <3>1. SlotOf[s] \in Nat /\ slot \in Nat
        BY PlanAssumption DEF RunInv, RunnerInv, RunTypeOK
      <3>2. SlotOf[s] < slot => FALSE
        BY <3>1, PlanAssumption DEF RunInv, RunnerInv, SlotsInOrder, Finished
      <3> QED BY <1>1, <1>3, <1>4, <3>2
              DEF RunInv, RunnerInv, SlotsInOrder, Finished, restOfRun
    <2>2. \A x \in Suites : suite'[x] = "running" =>
             SlotOf[x] = slot' /\ Needs[x] \subseteq published'
      BY <1>1, <1>2, <1>3, <1>4 DEF RunInv, RunnerInv, SlotsInOrder, restOfRun
    <2> QED BY <1>1, <1>2, <2>1, <2>2 DEF RunInv, RunnerInv, SlotsInOrder, restOfRun
  <1>11. VerdictTells'
    BY <1>1, <1>2 DEF RunInv, RunnerInv, VerdictTells, restOfRun, Running
  <1>12. GreenMeansReleased'
    BY <1>1, <1>2, <1>3, <1>4 DEF RunInv, RunnerInv, GreenMeansReleased, restOfRun
  <1> QED BY <1>5, <1>6, <1>7, <1>8, <1>9, <1>10, <1>11, <1>12 DEF RunnerInv

\* The run is stopped, or WaitSetup sees the up-front phase end.
LEMMA StopKeeps ==
    ASSUME RunInv, Interrupt \/ WaitSetup
    PROVE  RunnerInv'
  <1> USE DEF Interrupt, WaitSetup
  <1>1. UNCHANGED <<vars, suite, counts, pending, slot, opened, begun, startCmd, relCmd,
                    unstarted, held, overdue, lost, ending, verdict>>
    OBVIOUS
  <1>2. UNCHANGED <<phase, cancelled, doneLine, published, teardown, tornFailed, entered,
                    released, cstate, verb, keys, ack>>
    BY <1>1 DEF vars, mainVars, setupVars, tearVars, cmdVars
  <1>3. RunTypeOK'
    BY DEF RunInv, RunnerInv, RunTypeOK
  <1>4. LedgerCounts' /\ FreedIsUnneeded'
    BY <1>1, <1>2 DEF RunInv, RunnerInv, LedgerCounts, FreedIsUnneeded, Unfinished,
                      Needing, Finished, Releases
  <1>5. StartsAwaited' /\ ReleasesApart' /\ HeldIsKnown'
    BY <1>1, <1>2 DEF RunInv, RunnerInv, StartsAwaited, ReleasesApart, HeldIsKnown, Awaited,
                      SlotSuites, InFlight, Starts, Releases, Running
  <1>6. SlotsInOrder' /\ GreenMeansReleased'
    BY <1>1, <1>2 DEF RunInv, RunnerInv, SlotsInOrder, GreenMeansReleased, Finished
  <1>7. VerdictTells'
    <2>1. CASE Interrupt
      <3>1. slot = 0 => ~(slot > 0 /\ \A s \in Suites : Finished(s))
        OBVIOUS
      <3>2. slot = 0 => cut'
        BY <2>1, <3>1, Zenon
      <3>3. upfront = "over" => doneLine = "ok"
        BY <2>1 DEF RunInv, RunnerInv, VerdictTells
      <3>4. UNCHANGED <<upfront, slot, doneLine, phase, verdict, ending>> /\ stopped'
        BY <1>1, <1>2, <2>1
      <3> QED BY <3>2, <3>3, <3>4 DEF RunInv, RunnerInv, VerdictTells, Running
    <2>2. CASE WaitSetup
      BY <1>1, <1>2, <2>2 DEF RunInv, RunnerInv, VerdictTells, Running, SetupErr
    <2> QED BY <2>1, <2>2
  <1> QED BY <1>3, <1>4, <1>5, <1>6, <1>7 DEF RunnerInv

\* The next slot, and what it opens with when no command is to be sent.
LEMMA SlotKeeps ==
    ASSUME RunInv, NextSlot \/ OpenSlot \/ StartKeysFails
    PROVE  RunnerInv'
  <1> USE DEF NextSlot, OpenSlot, StartKeysFails
  <1>1. UNCHANGED <<vars, stopped, cut, upfront, suite, counts, pending, startCmd, relCmd,
                    unstarted, overdue, ending, verdict>>
    OBVIOUS
  <1>2. UNCHANGED <<phase, cancelled, doneLine, published, teardown, tornFailed, entered,
                    released, cstate, verb, keys, ack>>
    BY <1>1 DEF vars, mainVars, setupVars, tearVars, cmdVars
  <1>3. slot <= LastSlot /\ slot \in Nat /\ LastSlot \in Nat /\ startCmd = 0
    BY PlanAssumption DEF RunInv, RunnerInv, RunTypeOK
  <1>4. RunTypeOK'
    <2>1. ToStart \subseteq Fixtures
      BY PlanAssumption DEF ToStart, SlotSuites
    <2>2. slot' \in 0..(LastSlot + 1)
      BY <1>3
    <2>3. opened' \in BOOLEAN /\ lost' \in BOOLEAN /\ begun' \subseteq Fixtures
          /\ held' \subseteq Fixtures
      BY <2>1 DEF RunInv, RunnerInv, RunTypeOK
    <2>4. /\ stopped' \in BOOLEAN /\ cut' \in BOOLEAN
          /\ upfront' \in {"waiting", "over", "failed", "timedOut"}
          /\ suite' \in [Suites -> SuiteStates] /\ counts' \in [Fixtures -> Nat]
          /\ pending' \subseteq Fixtures /\ unstarted' \subseteq Fixtures
          /\ startCmd' \in 0..MaxCommands /\ relCmd' \in 0..MaxCommands /\ overdue' \subseteq Commands
          /\ ending' \in {"no", "asked", "waiting", "killed", "over"}
          /\ verdict' \in {"none", "green", "red"}
      BY <1>1 DEF RunInv, RunnerInv, RunTypeOK
    <2> QED BY <2>2, <2>3, <2>4 DEF RunTypeOK
  <1>5. LedgerCounts' /\ FreedIsUnneeded'
    BY <1>1, <1>2 DEF RunInv, RunnerInv, LedgerCounts, FreedIsUnneeded, Unfinished,
                      Needing, Finished, Releases
  <1>6. StartsAwaited'
    BY <1>1, <1>2, <1>3 DEF RunInv, RunnerInv, StartsAwaited, Commands, InFlight, Starts,
                            Running
  <1>7. ReleasesApart' /\ HeldIsKnown'
    BY <1>1, <1>2 DEF RunInv, RunnerInv, ReleasesApart, HeldIsKnown, InFlight, Starts,
                      Releases
  <1>8. SlotsInOrder'
    <2>1. ASSUME NEW s \in Suites, SlotOf[s] < slot'
          PROVE  Finished(s) \/ (stopped /\ suite[s] = "uncompiled")
      <3>1. SlotOf[s] \in Nat
        BY PlanAssumption
      <3>2. CASE SlotOf[s] < slot
        BY <3>2 DEF RunInv, RunnerInv, SlotsInOrder
      <3>3. CASE SlotOf[s] = slot
        BY <1>3, <2>1, <3>3 DEF SlotSuites
      <3> QED BY <1>3, <2>1, <3>1, <3>2, <3>3
    <2>2. ASSUME NEW s \in Suites, suite[s] = "running", NextSlot PROVE FALSE
      BY <2>2 DEF RunInv, RunnerInv, SlotsInOrder, SlotSuites, Finished
    <2>3. \/ slot' = slot
          \/ slot' = slot + 1 /\ NextSlot
      OBVIOUS
    <2> QED BY <1>1, <1>2, <1>3, <2>1, <2>2, <2>3
            DEF RunInv, RunnerInv, SlotsInOrder, Finished
  <1>9. VerdictTells' /\ GreenMeansReleased'
    BY <1>1, <1>2, <1>3 DEF RunInv, RunnerInv, VerdictTells, GreenMeansReleased, Running
  <1> QED BY <1>4, <1>5, <1>6, <1>7, <1>8, <1>9 DEF RunnerInv

\* A start command is answered, or given up.
LEMMA StartReturnsKeeps ==
    ASSUME RunInv, StartReturns
    PROVE  RunnerInv'
  <1> USE DEF StartReturns
  <1>1. UNCHANGED <<vars, stopped, cut, upfront, suite, slot, counts, begun, pending,
                    relCmd, held, overdue, ending, verdict>>
    OBVIOUS
  <1>2. UNCHANGED <<phase, cancelled, doneLine, published, teardown, tornFailed, entered,
                    released, cstate, verb, keys, ack>>
    BY <1>1 DEF vars, mainVars, setupVars, tearVars, cmdVars
  <1>3. startCmd \in Commands /\ keys[startCmd] # {} /\ keys[startCmd] \subseteq Fixtures
    BY DEF RunInv, RunnerInv, StartsAwaited, IInv, TypeOK, CmdTypes
  <1>4. RunTypeOK'
    <2>1. startCmd' \in 0..MaxCommands /\ opened' \in BOOLEAN
      BY BoundAssumption DEF RunInv, RunnerInv, RunTypeOK
    <2>2. lost' \in BOOLEAN
      BY Zenon DEF RunInv, RunnerInv, RunTypeOK
    <2>3. unstarted' \subseteq Fixtures
      BY <1>3 DEF RunInv, RunnerInv, RunTypeOK
    <2> QED BY <1>1, <2>1, <2>2, <2>3 DEF RunInv, RunnerInv, RunTypeOK
  <1>5. LedgerCounts' /\ FreedIsUnneeded'
    BY <1>1, <1>2 DEF RunInv, RunnerInv, LedgerCounts, FreedIsUnneeded, Unfinished,
                      Needing, Finished, Releases
  <1>6. StartsAwaited'
    <2>1. ASSUME Running, NEW c \in Commands, InFlight(c) PROVE unstarted' # {}
      BY <1>3, <2>1 DEF RunInv, RunnerInv, StartsAwaited, InFlight
    <2> QED BY <1>2, <2>1 DEF StartsAwaited, InFlight, Starts, Running
  <1>7. ReleasesApart' /\ HeldIsKnown'
    BY <1>1, <1>2 DEF RunInv, RunnerInv, ReleasesApart, HeldIsKnown, InFlight, Starts,
                      Releases
  <1>8. SlotsInOrder' /\ VerdictTells' /\ GreenMeansReleased'
    BY <1>1, <1>2 DEF RunInv, RunnerInv, SlotsInOrder, VerdictTells, GreenMeansReleased,
                      Finished, Running
  <1> QED BY <1>4, <1>5, <1>6, <1>7, <1>8 DEF RunnerInv

\* The releaser drops a batch, or a release is answered or given up.
LEMMA ReleaserKeeps ==
    ASSUME RunInv,
           \/ Withhold \/ TeardownKeysFails \/ TeardownReturns
           \/ \E c \in Commands : LateAck(c)
    PROVE  RunnerInv'
  <1> USE DEF Withhold, TeardownKeysFails, TeardownReturns, LateAck, Acked
  <1>1. UNCHANGED <<vars, stopped, cut, upfront, suite, slot, opened, counts, begun,
                    startCmd, unstarted, ending, verdict>>
    OBVIOUS
  <1>2. UNCHANGED <<phase, cancelled, doneLine, published, teardown, tornFailed, entered,
                    released, cstate, verb, keys, ack>>
    BY <1>1 DEF vars, mainVars, setupVars, tearVars, cmdVars
  <1>3. /\ pending' \subseteq pending /\ relCmd' \in {0, relCmd}
        /\ overdue' \subseteq overdue \cup {relCmd} /\ held' \subseteq held
        /\ relCmd \in overdue' \ overdue => relCmd # 0
    OBVIOUS
  <1>4. RunTypeOK'
    <2>1. relCmd' \in 0..MaxCommands /\ overdue' \subseteq Commands
      BY <1>3, BoundAssumption DEF RunInv, RunnerInv, RunTypeOK, HeldIsKnown
    <2>2. lost' \in BOOLEAN
      BY DEF RunInv, RunnerInv, RunTypeOK
    <2> QED BY <1>1, <1>3, <2>1, <2>2 DEF RunInv, RunnerInv, RunTypeOK
  <1>5. LedgerCounts' /\ FreedIsUnneeded'
    BY <1>1, <1>2, <1>3 DEF RunInv, RunnerInv, LedgerCounts, FreedIsUnneeded, Unfinished,
                            Needing, Finished, Releases
  <1>6. StartsAwaited' /\ ReleasesApart'
    BY <1>1, <1>2 DEF RunInv, RunnerInv, StartsAwaited, ReleasesApart, Awaited,
                      SlotSuites, InFlight, Starts, Releases, Running
  <1>7. HeldIsKnown'
    <2>1. held' = held \/ \E c \in Commands :
             /\ Releases(c) /\ cstate[c] = "acked" /\ ack[c] # "refused"
             /\ held' = held \ keys[c]
      BY DEF RunInv, RunnerInv, HeldIsKnown
    <2>2. \A f \in held \ held' : teardown[f] = "ended"
      BY <2>1 DEF RunInv, RunnerInv, HeldIsKnown
    <2> QED BY <1>1, <1>2, <1>3, <2>2 DEF RunInv, RunnerInv, HeldIsKnown, Starts, Releases
  <1>8. SlotsInOrder' /\ VerdictTells' /\ GreenMeansReleased'
    BY <1>1, <1>2 DEF RunInv, RunnerInv, SlotsInOrder, VerdictTells, GreenMeansReleased,
                      Finished, Running
  <1> QED BY <1>4, <1>5, <1>6, <1>7, <1>8 DEF RunnerInv

-----------------------------------------------------------------------------
(* The two commands the runner sends.                                      *)

\* What a dispatched suite still waits for, it needs, with all it rests on.
LEMMA AwaitedIsNeeded ==
    ASSUME RunInv, NEW k \in Fixtures, Awaited(k)
    PROVE  Unfinished(k) # {} /\ \A d \in Deps[k] : Unfinished(d) # {}
  <1>1. PICK s \in Suites : suite[s] = "ready" /\ k \in Needs[s]
    BY DEF Awaited, SlotSuites
  <1>2. Deps[k] \subseteq Needs[s]
    BY <1>1, PlanAssumption
  <1> QED BY <1>1, <1>2 DEF Unfinished, Needing, Finished

\* Sending touches one command, which was nobody's.
LEMMA SendTouches ==
    ASSUME RunInv, NEW c \in Commands, NEW v \in {"start", "teardown"},
           NEW K \in SUBSET Fixtures, Send(c, v, K)
    PROVE  /\ Running /\ verb[c] = "none"
           /\ verb'[c] = v /\ keys'[c] = K /\ cstate'[c] = "sent"
           /\ \A b \in Commands \ {c} :
                 verb'[b] = verb[b] /\ keys'[b] = keys[b] /\ cstate'[b] = cstate[b]
           /\ UNCHANGED <<phase, cancelled, doneLine, published, teardown, tornFailed,
                          entered, released, ack>>
  <1>1. cstate[c] = "unsent"
    BY DEF Send
  <1>2. verb[c] = "none"
    BY <1>1 DEF RunInv, ProcessInv, AskedFor
  <1> QED BY <1>1, <1>2
          DEF Send, RunInv, IInv, TypeOK, CmdTypes, mainVars, setupVars, tearVars

\* A slot's start is sent: its suites wait for it, so nothing it brings up or
\* rests on was freed before.
LEMMA StartKeysKeeps ==
    ASSUME RunInv, NEW c \in Commands, StartKeys(c)
    PROVE  RunnerInv'
  <1>1. /\ UNCHANGED <<stopped, cut, upfront, suite, slot, opened, counts, pending, relCmd,
                       unstarted, overdue, lost, ending, verdict>>
        /\ startCmd = 0 /\ startCmd' = c /\ ~opened /\ ToStart # {}
        /\ begun' = begun \cup ToStart /\ held' = held \cup ToStart
        /\ Send(c, "start", ToStart)
    BY DEF StartKeys
  <1>2. ToStart \subseteq Fixtures
    BY PlanAssumption DEF ToStart, SlotSuites
  <1>3. /\ Running /\ verb[c] = "none"
        /\ verb'[c] = "start" /\ keys'[c] = ToStart /\ cstate'[c] = "sent"
        /\ \A b \in Commands \ {c} :
              verb'[b] = verb[b] /\ keys'[b] = keys[b] /\ cstate'[b] = cstate[b]
        /\ UNCHANGED <<phase, cancelled, doneLine, published, teardown, tornFailed,
                       entered, released, ack>>
    BY <1>1, <1>2, SendTouches
  <1>4. \A k \in ToStart : Awaited(k)
    BY DEF ToStart, Awaited
  <1>5. RunTypeOK'
    BY <1>1, <1>2 DEF RunInv, RunnerInv, RunTypeOK, Commands
  <1>6. LedgerCounts' /\ FreedIsUnneeded'
    BY <1>1, <1>3 DEF RunInv, RunnerInv, LedgerCounts, FreedIsUnneeded, Unfinished,
                      Needing, Finished, Releases
  <1>7. StartsAwaited'
    <2>1. ASSUME NEW b \in Commands \ {c}, InFlight(b)' PROVE unstarted # {}
      <3>1. InFlight(b)
        BY <1>3, <2>1 DEF InFlight, Starts
      <3> QED BY <1>1, <1>3, <3>1 DEF RunInv, RunnerInv, StartsAwaited, Commands
    <2>2. \A k \in keys'[c] : Awaited(k)'
      BY <1>1, <1>3, <1>4 DEF Awaited, SlotSuites
    <2> QED BY <1>1, <1>3, <2>1, <2>2 DEF StartsAwaited, Starts
  <1>8. ReleasesApart'
    <2>1. ASSUME NEW b \in Commands, Releases(b)', NEW a \in Commands, InFlight(a)',
                 NEW k \in keys'[a]
          PROVE  k \notin keys'[b] /\ Deps[k] \cap keys'[b] = {}
      <3>1. b # c /\ Releases(b) /\ keys'[b] = keys[b]
        BY <1>3, <2>1 DEF Releases
      <3>2. CASE a = c
        <4>1. k \in Fixtures /\ Unfinished(k) # {} /\ \A d \in Deps[k] : Unfinished(d) # {}
          BY <1>2, <1>3, <1>4, <2>1, <3>2, AwaitedIsNeeded
        <4> QED BY <3>1, <4>1 DEF RunInv, RunnerInv, FreedIsUnneeded
      <3>3. CASE a # c
        BY <1>3, <2>1, <3>1, <3>3
           DEF RunInv, RunnerInv, ReleasesApart, InFlight, Starts
      <3> QED BY <3>2, <3>3
    <2>2. ASSUME NEW b \in Commands, Releases(b)' PROVE phase' # "upfront"
      BY <1>3, <2>2 DEF RunInv, RunnerInv, ReleasesApart, Releases
    <2> QED BY <2>1, <2>2 DEF ReleasesApart
  <1>9. HeldIsKnown'
    <2>1. overdue \subseteq Commands \ {c}
      BY <1>3 DEF RunInv, RunnerInv, RunTypeOK, HeldIsKnown, Releases
    <2> QED BY <1>1, <1>3, <2>1 DEF RunInv, RunnerInv, HeldIsKnown, Starts, Releases
  <1>10. SlotsInOrder' /\ VerdictTells' /\ GreenMeansReleased'
    BY <1>1, <1>3 DEF RunInv, RunnerInv, SlotsInOrder, VerdictTells, GreenMeansReleased,
                      Finished, Running
  <1> QED BY <1>5, <1>6, <1>7, <1>8, <1>9, <1>10 DEF RunnerInv

\* A batch of freed keys is sent: the up-front phase is over, and the only
\* start that may be in flight is one the dispatch still waits for.
LEMMA TeardownKeysKeeps ==
    ASSUME RunInv, NEW c \in Commands, TeardownKeys(c)
    PROVE  RunnerInv'
  <1>1. /\ UNCHANGED <<stopped, cut, upfront, suite, slot, opened, counts, begun, startCmd,
                       unstarted, held, overdue, lost, ending, verdict>>
        /\ relCmd' = c /\ pending' = {} /\ unstarted = {} /\ ~stopped
        /\ upfront \in {"over", "failed"}
        /\ Send(c, "teardown", pending)
    BY DEF TeardownKeys, ReleaserRuns
  <1>2. pending \subseteq Fixtures
    BY DEF RunInv, RunnerInv, RunTypeOK
  <1>3. /\ Running /\ verb[c] = "none"
        /\ verb'[c] = "teardown" /\ keys'[c] = pending /\ cstate'[c] = "sent"
        /\ \A b \in Commands \ {c} :
              verb'[b] = verb[b] /\ keys'[b] = keys[b] /\ cstate'[b] = cstate[b]
        /\ UNCHANGED <<phase, cancelled, doneLine, published, teardown, tornFailed,
                       entered, released, ack>>
    BY <1>1, <1>2, SendTouches
  <1>4. phase # "upfront"
    BY <1>1, <1>3 DEF RunInv, RunnerInv, VerdictTells, ProcessInv, ExitTells
  <1>5. RunTypeOK'
    BY <1>1 DEF RunInv, RunnerInv, RunTypeOK, Commands
  <1>6. LedgerCounts' /\ FreedIsUnneeded'
    BY <1>1, <1>3 DEF RunInv, RunnerInv, LedgerCounts, FreedIsUnneeded, Unfinished,
                      Needing, Finished, Releases
  <1>7. \A a \in Commands : InFlight(a)' => a # c /\ InFlight(a) /\ keys'[a] = keys[a]
    BY <1>3 DEF InFlight, Starts
  <1>8. StartsAwaited'
    <2>1. startCmd # 0 => startCmd # c
      BY <1>3 DEF RunInv, RunnerInv, StartsAwaited, Starts
    <2> QED BY <1>1, <1>3, <1>7, <2>1
            DEF RunInv, RunnerInv, StartsAwaited, Starts, Awaited, SlotSuites, Running
  <1>9. ReleasesApart'
    <2>1. ASSUME NEW b \in Commands, Releases(b)', NEW a \in Commands, InFlight(a)',
                 NEW k \in keys'[a]
          PROVE  k \notin keys'[b] /\ Deps[k] \cap keys'[b] = {}
      <3>1. InFlight(a) /\ k \in keys[a] /\ k \in Fixtures
        BY <1>7, <2>1 DEF RunInv, IInv, TypeOK, CmdTypes
      <3>2. CASE b = c
        <4>1. Awaited(k)
          BY <1>1, <1>3, <3>1 DEF RunInv, RunnerInv, StartsAwaited
        <4>2. Unfinished(k) # {} /\ \A d \in Deps[k] : Unfinished(d) # {}
          BY <3>1, <4>1, AwaitedIsNeeded
        <4> QED BY <1>3, <3>2, <4>2 DEF RunInv, RunnerInv, FreedIsUnneeded
      <3>3. CASE b # c
        BY <1>3, <2>1, <3>1, <3>3 DEF RunInv, RunnerInv, ReleasesApart, Releases
      <3> QED BY <3>2, <3>3
    <2> QED BY <1>3, <1>4, <2>1 DEF ReleasesApart
  <1>10. HeldIsKnown'
    <2>1. overdue \subseteq Commands \ {c}
      BY <1>3 DEF RunInv, RunnerInv, RunTypeOK, HeldIsKnown, Releases
    <2> QED BY <1>1, <1>3, <2>1 DEF RunInv, RunnerInv, HeldIsKnown, Starts, Releases
  <1>11. SlotsInOrder' /\ VerdictTells' /\ GreenMeansReleased'
    BY <1>1, <1>3 DEF RunInv, RunnerInv, SlotsInOrder, VerdictTells, GreenMeansReleased,
                      Finished, Running
  <1> QED BY <1>5, <1>6, <1>8, <1>9, <1>10, <1>11 DEF RunnerInv

-----------------------------------------------------------------------------
(* The end of the run.                                                     *)

\* Teardown asks the process to end, waits for it, or kills it.
LEMMA EndingKeeps ==
    ASSUME RunInv, AskToEnd \/ JudgeOverdue \/ KillAtBudget
    PROVE  ProcessInv' /\ RunnerInv'
  <1>1. /\ ending \in {"no", "asked", "waiting"} /\ slot > LastSlot
        /\ ending' \in {"asked", "waiting", "killed"}
        /\ UNCHANGED restOfEnd /\ UNCHANGED verdict
        /\ UNCHANGED vars \/ (Running /\ Cancel) \/ Die
    BY DEF AskToEnd, JudgeOverdue, KillAtBudget, RunInv, RunnerInv, SlotsInOrder
  <1>2. ProcessInv'
    BY <1>1, ProcessKeeps, ProcessUntouched DEF RunInv
  <1>3. Forward /\ CommandsForward
    <2>1. CASE UNCHANGED vars
      BY <2>1 DEF vars, mainVars, setupVars, tearVars, cmdVars, Forward, CommandsForward,
                  InFlight, Starts, Running
    <2> QED BY <1>1, <2>1, ProcessGoesForward
  <1>4. ClientKeeps'
    BY <1>1, <1>3, ForwardKeepsClient
  <1>5. UNCHANGED runVars \/ ending' # ending
    BY <1>1 DEF restOfEnd, runVars
  <1>6. RunTypeOK'
    BY <1>1 DEF restOfEnd, RunInv, RunnerInv, RunTypeOK
  <1>7. SlotsInOrder'
    <2>1. \A s \in Suites : Needs[s] \subseteq published => Needs[s] \subseteq published'
      BY <1>3 DEF Forward
    <2>2. phase' \in {"draining", "releasing", "exit0", "exit1"} => cancelled'
      BY <1>1 DEF Cancel, Die, vars, mainVars, RunInv, RunnerInv, SlotsInOrder
    <2> QED BY <1>1, <2>1, <2>2
            DEF restOfEnd, RunInv, RunnerInv, SlotsInOrder, Finished
  <1>8. VerdictTells' /\ GreenMeansReleased'
    <2>1. verdict = "none" /\ verdict' = "none"
      BY <1>1 DEF RunInv, RunnerInv, VerdictTells
    <2> QED BY <1>1, <1>3, <2>1
            DEF restOfEnd, Forward, RunInv, RunnerInv, VerdictTells, GreenMeansReleased
  <1> QED BY <1>2, <1>4, <1>6, <1>7, <1>8 DEF ClientKeeps, RunnerInv

\* The verdict is green only when the process released everything and said so.
LEMMA ConcludeKeeps ==
    ASSUME RunInv, Conclude
    PROVE  RunnerInv'
  <1> USE DEF Conclude
  <1>1. UNCHANGED vars /\ UNCHANGED restOfEnd /\ ~Running /\ ending # "no"
    OBVIOUS
  <1>2. Forward /\ CommandsForward
    BY <1>1 DEF vars, mainVars, setupVars, tearVars, cmdVars, Forward, CommandsForward,
                InFlight, Starts, Running
  <1>3. ClientKeeps'
    BY <1>1, <1>2, ForwardKeepsClient
  <1>4. RunTypeOK'
    BY DEF restOfEnd, RunInv, RunnerInv, RunTypeOK
  <1>5. UNCHANGED <<phase, cancelled, doneLine, published, tornFailed, entered, released>>
    BY <1>1 DEF vars, mainVars, setupVars, tearVars
  <1>6. SlotsInOrder' /\ VerdictTells'
    BY <1>1, <1>5 DEF restOfEnd, RunInv, RunnerInv, SlotsInOrder, VerdictTells, Finished,
                      Running
  <1>7. GreenMeansReleased'
    <2>1. CASE Green
      <3>1. doneLine = "ok" /\ phase = "exit0"
        BY <2>1 DEF Green, TeardownPassed, SetupErr, RunInv, RunnerInv, VerdictTells
      <3>2. tornFailed = {} /\ \A f \in Fixtures : teardown[f] = "ended"
        BY <3>1 DEF RunInv, ProcessInv, ExitTells
      <3>3. \A f \in Fixtures : entered[f] = released[f]
        BY <3>2 DEF RunInv, ProcessInv, ReleaseTells
      <3> QED BY <1>1, <1>5, <2>1, <3>2, <3>3 DEF Green, restOfEnd, GreenMeansReleased
    <2>2. CASE ~Green
      BY <2>2 DEF GreenMeansReleased
    <2> QED BY <2>1, <2>2
  <1> QED BY <1>3, <1>4, <1>6, <1>7 DEF ClientKeeps, RunnerInv

-----------------------------------------------------------------------------
(* The invariant of the run.                                               *)

\* Under its runner the process does nothing it would not do under an open
\* client.
LEMMA RunIsAClient == ASSUME RunTypeOK, [RunNext]_allVars PROVE [Next]_vars
  <1>1. ToStart \in SUBSET Fixtures /\ pending \in SUBSET Fixtures
    BY PlanAssumption DEF ToStart, SlotSuites, RunTypeOK
  <1>2. ASSUME NEW c \in Commands, StartKeys(c) \/ TeardownKeys(c) PROVE Environment
    BY <1>1, <1>2 DEF StartKeys, TeardownKeys, Environment
  <1>3. ASSUME AskToEnd \/ JudgeOverdue \/ KillAtBudget
        PROVE  Cancel \/ Die \/ UNCHANGED vars
    BY <1>3 DEF AskToEnd, JudgeOverdue, KillAtBudget
  <1>4. CASE Runner
    <2>1. ASSUME NEW s \in Suites, SuiteStep(s) PROVE UNCHANGED vars
      BY <2>1 DEF SuiteStep, Compiled, Dispatch, GiveUp, Stop, SuiteReturns
    <2>2. ASSUME \/ WaitSetup \/ NextSlot \/ OpenSlot \/ StartKeysFails \/ StartReturns
                 \/ Withhold \/ TeardownKeysFails \/ TeardownReturns \/ Conclude
                 \/ \E c \in Commands : LateAck(c)
          PROVE  UNCHANGED vars
      BY <2>2 DEF WaitSetup, NextSlot, OpenSlot, StartKeysFails, StartReturns, Withhold,
                  TeardownKeysFails, TeardownReturns, Conclude, LateAck
    <2> QED BY <1>2, <1>3, <1>4, <2>1, <2>2 DEF Runner, Next, Environment
  <1>5. CASE Interrupt \/ ProcessStep \/ RunEnded \/ UNCHANGED allVars
    BY <1>5 DEF Interrupt, ProcessStep, RunEnded, allVars, Next, Environment
  <1> QED BY <1>4, <1>5 DEF RunNext

LEMMA RunInitHolds == RunInit => RunInv
  <1> SUFFICES ASSUME RunInit PROVE RunInv
    OBVIOUS
  <1>1. Init /\ IInv
    BY InitHolds DEF RunInit
  <1>2. ProcessInv
    BY <1>1 DEF Init, ProcessInv, SetupTells, ReleaseTells, Quiet, GateReads, ExitTells,
                AskedFor
  <1>3. \A k \in Fixtures : /\ Unfinished(k) = Needing(k, Suites)
                            /\ Cardinality(Needing(k, Suites)) \in Nat
    <2>1. ASSUME NEW k \in Fixtures PROVE Cardinality(Needing(k, Suites)) \in Nat
      <3>1. IsFiniteSet(Needing(k, Suites))
        BY PlanAssumption, FS_Subset DEF Needing
      <3> QED BY <3>1, FS_CardinalityType
    <2>2. \A k \in Fixtures : Unfinished(k) = Needing(k, Suites)
      BY DEF RunInit, Unfinished, Needing, Finished
    <2> QED BY <2>1, <2>2
  <1>4. RunTypeOK /\ LedgerCounts
    <2>1. counts \in [Fixtures -> Nat] /\ LedgerCounts
      BY <1>3 DEF RunInit, LedgerCounts
    <2>2. 0 \in 0..MaxCommands /\ 0 \in 0..(LastSlot + 1)
      BY PlanAssumption, BoundAssumption
    <2> QED BY <2>1, <2>2 DEF RunInit, RunTypeOK, SuiteStates
  <1>5. FreedIsUnneeded /\ StartsAwaited /\ ReleasesApart /\ HeldIsKnown
    BY <1>1 DEF RunInit, Init, FreedIsUnneeded, StartsAwaited, ReleasesApart, HeldIsKnown,
                InFlight, Starts, Releases
  <1>6. SlotsInOrder /\ VerdictTells /\ GreenMeansReleased
    BY <1>1, PlanAssumption
       DEF RunInit, Init, SlotsInOrder, VerdictTells, GreenMeansReleased
  <1> QED BY <1>1, <1>2, <1>4, <1>5, <1>6 DEF RunInv, RunnerInv

LEMMA RunNextHolds == RunInv /\ [RunNext]_allVars => RunInv'
  <1> SUFFICES ASSUME RunInv, [RunNext]_allVars PROVE RunInv'
    OBVIOUS
  <1>1. IInv'
    BY RunIsAClient, NextHolds DEF RunInv, RunnerInv
  <1> SUFFICES ProcessInv' /\ RunnerInv'
    BY <1>1 DEF RunInv
  <1>2. ASSUME UNCHANGED vars PROVE ProcessInv'
    BY <1>2, ProcessUntouched DEF RunInv
  <1>3. ASSUME NEW s \in Suites, SuiteStep(s) PROVE ProcessInv' /\ RunnerInv'
    <2>1. UNCHANGED vars
      BY <1>3 DEF SuiteStep, Compiled, Dispatch, GiveUp, Stop, SuiteReturns
    <2> QED BY <1>2, <1>3, <2>1, SuiteKeeps
  <1>4. CASE \/ Interrupt \/ WaitSetup \/ NextSlot \/ OpenSlot \/ StartKeysFails
             \/ StartReturns \/ Conclude
    <2>1. UNCHANGED vars
      BY <1>4 DEF Interrupt, WaitSetup, NextSlot, OpenSlot, StartKeysFails, StartReturns,
                  Conclude
    <2> QED BY <1>2, <1>4, <2>1, StopKeeps, SlotKeeps, StartReturnsKeeps, ConcludeKeeps
  <1>5. CASE Withhold \/ TeardownKeysFails \/ TeardownReturns \/ \E c \in Commands : LateAck(c)
    <2>1. UNCHANGED vars
      BY <1>5 DEF Withhold, TeardownKeysFails, TeardownReturns, LateAck
    <2> QED BY <1>2, <1>5, <2>1, ReleaserKeeps
  <1>6. ASSUME NEW c \in Commands, StartKeys(c) \/ TeardownKeys(c)
        PROVE  ProcessInv' /\ RunnerInv'
    <2>1. ToStart \in SUBSET Fixtures /\ pending \in SUBSET Fixtures
      BY PlanAssumption DEF ToStart, SlotSuites, RunInv, RunnerInv, RunTypeOK
    <2>2. \E v \in {"start", "teardown"}, K \in SUBSET Fixtures : Send(c, v, K)
      BY <1>6, <2>1 DEF StartKeys, TeardownKeys
    <2> QED BY <1>6, <2>2, CommandKeeps, StartKeysKeeps, TeardownKeysKeeps
  <1>7. CASE AskToEnd \/ JudgeOverdue \/ KillAtBudget
    BY <1>7, EndingKeeps
  <1>8. CASE ProcessStep
    BY <1>8, ProcessKeeps, ProcessKeepsRunner DEF ProcessStep
  <1>9. CASE RunEnded \/ UNCHANGED allVars
    <2>1. UNCHANGED <<vars, runVars>>
      BY <1>9 DEF RunEnded, allVars
    <2>2. ProcessInv'
      BY <1>2, <2>1
    <2>3. Forward /\ CommandsForward /\ UNCHANGED restOfEnd
      BY <2>1 DEF vars, mainVars, setupVars, tearVars, cmdVars, Forward, CommandsForward,
                  InFlight, Starts, Running, runVars, restOfEnd
    <2>4. ClientKeeps'
      BY <2>3, ForwardKeepsClient
    <2>5. UNCHANGED <<phase, cancelled, doneLine, published, tornFailed, entered, released>>
      BY <2>1 DEF vars, mainVars, setupVars, tearVars
    <2>6. RunTypeOK' /\ SlotsInOrder' /\ VerdictTells' /\ GreenMeansReleased'
      BY <2>1, <2>5 DEF runVars, RunInv, RunnerInv, RunTypeOK, SlotsInOrder, VerdictTells,
                        GreenMeansReleased, Finished, Running
    <2> QED BY <2>2, <2>4, <2>6 DEF ClientKeeps, RunnerInv
  <1> QED BY <1>3, <1>4, <1>5, <1>6, <1>7, <1>8, <1>9 DEF RunNext, Runner

LEMMA RunInvHolds == RunSpec => []RunInv
  <1> QED BY RunInitHolds, RunNextHolds, PTL DEF RunSpec

-----------------------------------------------------------------------------
(* What follows of every run.                                              *)

\* The runner, whatever it starts, frees and gives up, is one client of the
\* process: what holds of the process under any client holds in a run.
THEOREM RunIsOneClient == RunSpec => Spec
  <1>1. RunInit => Init
    BY DEF RunInit
  <1>2. RunTypeOK /\ [RunNext]_allVars => [Next]_vars
    BY RunIsAClient
  <1>3. RunInv => RunTypeOK
    BY DEF RunInv, RunnerInv
  <1> QED BY <1>1, <1>2, <1>3, RunInvHolds, PTL DEF RunSpec, Spec

\* Type correctness of the runner's state; in particular no suite is taken off
\* the ledger twice.
THEOREM RunTypeCorrect == RunSpec => []RunTypeOK
  <1>1. RunInv => RunTypeOK
    BY DEF RunInv, RunnerInv
  <1> QED BY <1>1, RunInvHolds, PTL

\* Under its runner no AfterAll runs beside the fixture's own BeforeAll, nor
\* beside its release between two attempts, though under an open client one may:
\* the teardown body reads fstarted once, and a start could follow.
THEOREM NeverBesideItsBeforeAll == RunSpec => []NoAfterAllBesideBeforeAll
  <1>1. RunInv => NoAfterAllBesideBeforeAll
    BY DEF RunInv, ProcessInv, Quiet, NoAfterAllBesideBeforeAll
  <1> QED BY <1>1, RunInvHolds, PTL

\* No BeforeAll is released twice, by a release and the shutdown say, and a
\* process that runs to its own end leaves none out.
THEOREM EachReleasedOnce == RunSpec => []ReleasedOnce
  <1>1. RunInv => ReleasedOnce
    BY DEF RunInv, IInv, TypeOK, SetupTypes, TearTypes, ProcessInv, ReleaseTells, ExitTells,
           ReleasedOnce
  <1> QED BY <1>1, RunInvHolds, PTL

\* A green verdict, read off exit status, done line and acknowledgements alone,
\* proves that every suite ran and every fixture was released without failure.
THEOREM GreenIsProof == RunSpec => []GreenMeansReleased
  <1>1. RunInv => GreenMeansReleased
    BY DEF RunInv, RunnerInv
  <1> QED BY <1>1, RunInvHolds, PTL

\* What is live, the runner asked up and has not seen go.
LEMMA LiveIsHeld ==
    ASSUME RunInv, NEW f \in Fixtures, Live(f)
    PROVE  f \in attempted /\ teardown[f] # "ended" /\ f \in held
  <1>1. f \in attempted /\ teardown[f] # "ended"
    BY DEF RunInv, ProcessInv, ReleaseTells, Live, IInv, TypeOK, SetupTypes, TearTypes
  <1>2. f \in started
    BY <1>1 DEF RunInv, ProcessInv, SetupTells, IInv, StartedHasBegun
  <1>3. f \notin Deferred \/ \E c \in Commands : Starts(c) /\ f \in keys[c]
    BY <1>2 DEF RunInv, ProcessInv, AskedFor
  <1> QED BY <1>1, <1>3 DEF RunInv, RunnerInv, HeldIsKnown

\* Teardown kills a process at once only when each fixture still live is in a
\* release that has had its whole budget.
THEOREM OnlyOverdueKilled == RunSpec => OnlyOverdueIsKilledAtOnce
  <1>1. RunInv /\ [RunNext]_allVars =>
          [ending = "asked" /\ ending' = "killed" =>
             \A f \in Fixtures : Live(f) => \E c \in overdue : f \in keys[c]]_allVars
    <2> SUFFICES ASSUME RunInv, RunNext, ending = "asked", ending' = "killed",
                        NEW f \in Fixtures, Live(f)
                 PROVE  \E c \in overdue : f \in keys[c]
      BY DEF allVars, runVars
    <2>1. JudgeOverdue
      <3>1. ASSUME NEW s \in Suites, SuiteStep(s) PROVE UNCHANGED ending
        BY <3>1 DEF SuiteStep, Compiled, Dispatch, GiveUp, Stop, SuiteReturns, restOfRun
      <3>2. ASSUME \/ WaitSetup \/ NextSlot \/ OpenSlot \/ StartKeysFails \/ StartReturns
                   \/ Withhold \/ TeardownKeysFails \/ TeardownReturns \/ Interrupt
                   \/ ProcessStep \/ RunEnded
                   \/ \E c \in Commands : LateAck(c) \/ StartKeys(c) \/ TeardownKeys(c)
            PROVE  UNCHANGED ending
        BY <3>2 DEF WaitSetup, NextSlot, OpenSlot, StartKeysFails, StartReturns, Withhold,
                    TeardownKeysFails, TeardownReturns, LateAck, StartKeys, TeardownKeys,
                    Interrupt, ProcessStep, RunEnded, allVars, runVars
      <3>3. ASSUME AskToEnd \/ KillAtBudget \/ Conclude PROVE FALSE
        BY <3>3 DEF AskToEnd, KillAtBudget, Conclude
      <3> QED BY <3>1, <3>2, <3>3 DEF RunNext, Runner
    <2>2. held \subseteq UNION {keys[c] : c \in overdue}
      BY <2>1 DEF JudgeOverdue, OnlyOverdue
    <2> QED BY <2>2, LiveIsHeld
  <1> QED BY <1>1, RunInvHolds, PTL DEF RunSpec, OnlyOverdueIsKilledAtOnce

\* While a suite runs, what it needs is up, and no release of it has begun.
LEMMA SuitesRead == RunInv => SuiteFixturesUp
  <1> SUFFICES ASSUME RunInv, phase # "killed", NEW s \in Suites, suite[s] = "running",
                      NEW f \in Needs[s]
               PROVE  f \in published /\ f \notin torn /\ Live(f)
    BY DEF SuiteFixturesUp
  <1>1. f \in Fixtures /\ f \in published
    BY PlanAssumption DEF RunInv, RunnerInv, SlotsInOrder
  <1>2. SlotOf[s] = slot /\ slot <= LastSlot
    BY PlanAssumption DEF RunInv, RunnerInv, SlotsInOrder
  <1>3. ending = "no" /\ ~cancelled
    BY <1>2, PlanAssumption DEF RunInv, RunnerInv, SlotsInOrder
  <1>4. phase \notin {"releasing", "exit0", "exit1", "killed"}
    BY <1>3 DEF RunInv, RunnerInv, SlotsInOrder
  <1>5. Unfinished(f) # {}
    BY <1>1 DEF Unfinished, Needing, Finished
  <1>6. teardown[f] = "idle"
    BY <1>1, <1>4, <1>5 DEF RunInv, ProcessInv, AskedFor, RunnerInv, FreedIsUnneeded
  <1> QED BY <1>1, <1>6 DEF RunInv, ProcessInv, ReleaseTells, SetupTells, Live, IInv,
                            TypeOK, SetupTypes, TearTypes

\* What a live fixture rests on is up, and its release waits for it.
LEMMA DepsOutlive == RunInv => DependenciesOutlive
  <1> SUFFICES ASSUME RunInv, NEW f \in Fixtures, NEW d \in Deps[f], Live(f)
               PROVE  d \in published /\ d \notin torn
    BY DEF DependenciesOutlive
  <1>1. f \in attempted /\ teardown[f] # "ended"
    BY LiveIsHeld
  <1>2. d \in Fixtures /\ f \in Dependents(d)
    BY GraphAssumption DEF Dependents
  <1>3. d \in published
    BY <1>1 DEF RunInv, ProcessInv, SetupTells
  <1>4. teardown[d] \notin {"afterAll", "ended"}
    BY <1>1, <1>2 DEF RunInv, ProcessInv, GateReads
  <1> QED BY <1>2, <1>3, <1>4 DEF RunInv, ProcessInv, ReleaseTells

-----------------------------------------------------------------------------
(* The life of the graph.                                                  *)

\* LifeOf, with what is live read off the flags.
LifeAt(f) ==
    IF phase = "killed" THEN "over"
    ELSE IF teardown[f] = "afterAll" THEN "going"
    ELSE IF f \notin attempted THEN "down"
    ELSE IF teardown[f] = "ended" THEN "over"
    ELSE IF setup[f] = "between" THEN "back"
    ELSE IF f \in published THEN "serving"
    ELSE "coming"

LEMMA LifeRead == RunInv => \A f \in Fixtures : LifeOf(f) = LifeAt(f)
  BY DEF RunInv, ProcessInv, ReleaseTells, ExitTells, IInv, TypeOK, SetupTypes, TearTypes,
         LifeOf, LifeAt, Live

LEMMA LifeReadNext == RunInv' => (\A f \in Fixtures : LifeOf(f) = LifeAt(f))'
  BY LifeRead, PTL

LEMMA LifeStutters ==
    ASSUME RunInv, RunInv', \A f \in Fixtures : LifeAt(f)' = LifeAt(f)
    PROVE  UNCHANGED Lived
  BY LifeRead, LifeReadNext DEF Lived

\* A step that takes one life on and leaves the others.
LEMMA OneLives ==
    ASSUME RunInv, RunInv', NEW f \in Fixtures,
           \A g \in Fixtures \ {f} : LifeAt(g)' = LifeAt(g)
    PROVE  /\ Lived' = [Lived EXCEPT ![f] = LifeAt(f)']
           /\ \A g \in Fixtures : Lived[g] = LifeAt(g)
           /\ Lived'[f] = LifeAt(f)'
  BY LifeRead, LifeReadNext DEF Lived

\* BeforeAll is entered: the fixture comes up, on dependencies that serve.
LEMMA EnterComes ==
    ASSUME RunInv, RunInv', Running, NEW f \in Fixtures,
           (FirstAttempt(f) \/ NextAttempt(f)) /\ ~cancelled
    PROVE  [Life!LifeNext]_Lived
  <1> USE DEF FirstAttempt, NextAttempt, EnterBeforeAll, SetupGoes
  <1>1. setup[f] \in {"begin", "again"} /\ Apart(f)
    BY BusyIsApart DEF RunInv
  <1>2. /\ UNCHANGED <<phase, teardown, published>>
        /\ attempted' = attempted \cup {f} /\ setup' = [setup EXCEPT ![f] = "beforeAll"]
    BY DEF mainVars, tearVars
  <1>3. \A g \in Fixtures \ {f} : LifeAt(g)' = LifeAt(g)
    BY <1>2 DEF RunInv, IInv, TypeOK, SetupTypes, LifeAt
  <1>4. LifeAt(f) = "down" /\ LifeAt(f)' = "coming"
    BY <1>1, <1>2 DEF RunInv, ProcessInv, SetupTells, IInv, TypeOK, SetupTypes, Apart,
                      LifeAt, Running, Exits
  <1>5. ASSUME NEW d \in Deps[f] PROVE d \in Fixtures /\ LifeAt(d) = "serving"
    <2>1. d \in Fixtures /\ f \in Dependents(d)
      BY GraphAssumption DEF Dependents
    <2>2. teardown[d] = "idle"
      BY <1>1, <2>1 DEF Apart
    <2>3. d \in published /\ d \in attempted /\ setup[d] = "ended"
      BY <1>1, <2>1 DEF RunInv, ProcessInv, SetupTells
    <2> QED BY <2>1, <2>2, <2>3 DEF LifeAt, Running, Exits
  <1>6. Lived'[f] # Lived[f] /\ Life!Come(f)
    BY <1>3, <1>4, <1>5, OneLives DEF Life!Come, Life!Becomes
  <1> QED BY <1>6 DEF Life!LifeNext

\* Any other step of a setup: an attempt serves, or is given back and retried.
LEMMA SetupLives ==
    ASSUME RunInv, RunInv', Running, NEW f \in Fixtures,
           \/ DeriveConfig(f) \/ AwaitDeps(f) \/ AttemptSucceeds(f) \/ AttemptOverruns(f)
           \/ AttemptFails(f) \/ RetryDelay(f) \/ ReleaseBetween(f) \/ Publish(f)
           \/ (FirstAttempt(f) \/ NextAttempt(f)) /\ cancelled
    PROVE  [Life!LifeNext]_Lived
  <1> USE DEF SetupGoes, SetupFails
  <1>0. setup[f] \notin {"idle", "ended"} /\ UNCHANGED <<mainVars, tearVars>>
    <2>1. CASE ReleaseBetween(f)
      BY <2>1 DEF ReleaseBetween
    <2>2. CASE ~ReleaseBetween(f)
      BY <2>2 DEF DeriveConfig, AwaitDeps, AttemptSucceeds, AttemptOverruns, AttemptFails,
                  RetryDelay, Publish, FirstAttempt, NextAttempt
    <2> QED BY <2>1, <2>2
  <1>1. teardown[f] = "idle" /\ UNCHANGED <<phase, teardown>> /\ phase # "killed"
    BY <1>0, BusyIsApart DEF RunInv, Apart, mainVars, tearVars, Running, Exits
  <1>2. ASSUME NEW x \in SetupSteps, setup' = [setup EXCEPT ![f] = x],
               setup[f] # "between", x # "between", UNCHANGED <<attempted, published>>
        PROVE  UNCHANGED Lived
    <2>1. \A g \in Fixtures : LifeAt(g)' = LifeAt(g)
      BY <1>1, <1>2 DEF RunInv, IInv, TypeOK, SetupTypes, LifeAt
    <2> QED BY <2>1, LifeStutters
  <1>3. CASE RetryDelay(f) /\ ~SetupFails(f)
    <2>1. /\ setup[f] = "delay" /\ setup' = [setup EXCEPT ![f] = "between"]
          /\ UNCHANGED <<attempted, published>>
      BY <1>3 DEF RetryDelay
    <2>2. \A g \in Fixtures \ {f} : LifeAt(g)' = LifeAt(g)
      BY <1>1, <2>1 DEF RunInv, IInv, TypeOK, SetupTypes, LifeAt
    <2>3. LifeAt(f) = "coming" /\ LifeAt(f)' = "back"
      BY <1>1, <2>1 DEF RunInv, ProcessInv, SetupTells, IInv, TypeOK, SetupTypes, LifeAt
    <2>4. Lived'[f] # Lived[f] /\ Life!GiveBack(f)
      BY <2>2, <2>3, OneLives DEF Life!GiveBack, Life!Becomes
    <2> QED BY <2>4 DEF Life!LifeNext
  <1>4. CASE ReleaseBetween(f)
    <2>1. /\ setup[f] = "between" /\ setup' = [setup EXCEPT ![f] = "again"]
          /\ attempted' = attempted \ {f} /\ UNCHANGED published
      BY <1>4 DEF ReleaseBetween
    <2>2. \A g \in Fixtures \ {f} : LifeAt(g)' = LifeAt(g)
      BY <1>1, <2>1 DEF RunInv, IInv, TypeOK, SetupTypes, LifeAt
    <2>3. LifeAt(f) = "back" /\ LifeAt(f)' = "down"
      BY <1>1, <2>1 DEF RunInv, ProcessInv, SetupTells, IInv, TypeOK, SetupTypes, LifeAt
    <2>4. Lived'[f] # Lived[f] /\ Life!Retry(f)
      BY <2>2, <2>3, OneLives DEF Life!Retry, Life!Becomes
    <2> QED BY <2>4 DEF Life!LifeNext
  <1>5. CASE Publish(f) /\ ~SetupFails(f)
    <2>1. /\ setup[f] = "publish" /\ setup' = [setup EXCEPT ![f] = "ended"]
          /\ published' = published \cup {f} /\ UNCHANGED attempted
      BY <1>5 DEF Publish
    <2>2. \A g \in Fixtures \ {f} : LifeAt(g)' = LifeAt(g)
      BY <1>1, <2>1 DEF RunInv, IInv, TypeOK, SetupTypes, LifeAt
    <2>3. LifeAt(f) = "coming" /\ LifeAt(f)' = "serving"
      BY <1>1, <2>1 DEF RunInv, ProcessInv, SetupTells, IInv, TypeOK, SetupTypes, LifeAt
    <2>4. Lived'[f] # Lived[f] /\ Life!Serve(f)
      BY <2>2, <2>3, OneLives DEF Life!Serve, Life!Becomes
    <2> QED BY <2>4 DEF Life!LifeNext
  <1>6. CASE ~(RetryDelay(f) /\ ~SetupFails(f)) /\ ~ReleaseBetween(f)
             /\ ~(Publish(f) /\ ~SetupFails(f))
    <2>0. f \notin errs
      BY <1>0 DEF RunInv, ProcessInv, SetupTells
    <2>1. setup[f] # "between" /\ UNCHANGED <<attempted, published>>
      BY <1>6, <2>0 DEF DeriveConfig, AwaitDeps, AttemptSucceeds, AttemptOverruns, AttemptFails,
                  RetryDelay, Publish, FirstAttempt, NextAttempt
    <2>2. \/ setup' = [setup EXCEPT ![f] = "deps"] \/ setup' = [setup EXCEPT ![f] = "begin"]
          \/ setup' = [setup EXCEPT ![f] = "delay"] \/ setup' = [setup EXCEPT ![f] = "publish"]
          \/ setup' = [setup EXCEPT ![f] = "ended"]
      BY <1>6 DEF DeriveConfig, AwaitDeps, AttemptSucceeds, AttemptOverruns, AttemptFails,
                  RetryDelay, Publish, FirstAttempt, NextAttempt
    <2> HIDE DEF SetupGoes, SetupFails
    <2> QED BY <1>2, <2>1, <2>2 DEF SetupSteps
  <1> QED BY <1>3, <1>4, <1>5, <1>6

\* A step of a teardown: AfterAll is entered once all on top of it is gone.
LEMMA TeardownLives ==
    ASSUME RunInv, RunInv', Running, NEW f \in Fixtures,
           \/ TeardownEnter(f) \/ AwaitOwnSetup(f) \/ AwaitDependent(f)
           \/ (\E d \in Fixtures : ReadDependent(f, d))
           \/ ClaimTeardown(f) \/ AfterAllReturns(f)
    PROVE  [Life!LifeNext]_Lived
  <1>0. phase # "killed" /\ \E x : teardown' = [teardown EXCEPT ![f] = x]
    BY DEF TeardownEnter, AwaitOwnSetup, AwaitDependent, ReadDependent, ClaimTeardown,
           AfterAllReturns, TeardownGoes, Running, Exits, RunInv, IInv, TypeOK, TearTypes
  <1>1. UNCHANGED <<phase, setup, attempted, published>>
    BY DEF TeardownEnter, AwaitOwnSetup, AwaitDependent, ReadDependent, ClaimTeardown,
           AfterAllReturns, mainVars, setupVars
  <1>2. \A g \in Fixtures \ {f} : LifeAt(g)' = LifeAt(g)
    BY <1>0, <1>1 DEF RunInv, IInv, TypeOK, TearTypes, LifeAt
  <1>3. CASE TeardownEnter(f) \/ AwaitOwnSetup(f) \/ AwaitDependent(f)
             \/ \E d \in Fixtures : ReadDependent(f, d)
    <2>1. teardown[f] \notin {"afterAll", "ended"} /\ teardown'[f] \notin {"afterAll", "ended"}
      BY <1>3 DEF TeardownEnter, AwaitOwnSetup, AwaitDependent, ReadDependent, TeardownGoes,
                  RunInv, IInv, TypeOK, TearTypes
    <2>2. \A g \in Fixtures : LifeAt(g)' = LifeAt(g)
      BY <1>1, <1>2, <2>1 DEF LifeAt
    <2> QED BY <2>2, LifeStutters
  <1>4. CASE ClaimTeardown(f)
    <2>1. /\ teardown[f] = "gate" /\ unread[f] = {} /\ awaits[f] = {} /\ f \notin torn
          /\ teardown'[f] = IF f \notin attempted THEN "ended" ELSE "afterAll"
      BY <1>4 DEF ClaimTeardown, TeardownGoes, RunInv, ProcessInv, ReleaseTells, IInv,
                  TypeOK, TearTypes
    <2>2. CASE f \notin attempted
      <3>1. \A g \in Fixtures : LifeAt(g)' = LifeAt(g)
        BY <1>1, <1>2, <2>1, <2>2 DEF LifeAt
      <3> QED BY <3>1, LifeStutters
    <2>3. CASE f \in attempted
      <3>1. setup[f] = "ended"
        BY <2>1, <2>3 DEF RunInv, ProcessInv, Quiet, SetupTells
      <3>2. LifeAt(f) \in {"coming", "serving"} /\ LifeAt(f)' = "going"
        BY <1>0, <1>1, <2>1, <2>3, <3>1 DEF LifeAt
      <3>3. ASSUME NEW g \in Fixtures, f \in Deps[g] PROVE LifeAt(g) \in {"down", "over"}
        <4>1. g \notin attempted \/ teardown[g] = "ended"
          BY <2>1, <3>3 DEF RunInv, ProcessInv, GateReads, Dependents
        <4> QED BY <4>1 DEF LifeAt, RunInv, ProcessInv, ReleaseTells
      <3>4. Lived'[f] # Lived[f] /\ Life!Release(f)
        BY <1>2, <3>2, <3>3, OneLives DEF Life!Release, Life!Becomes, Life!Holds
      <3> QED BY <3>4 DEF Life!LifeNext
    <2> QED BY <2>2, <2>3
  <1>5. CASE AfterAllReturns(f)
    <2>1. teardown[f] = "afterAll" /\ teardown'[f] = "ended" /\ f \in attempted
      BY <1>5 DEF AfterAllReturns, TeardownGoes, RunInv, ProcessInv, ReleaseTells, IInv,
                  TypeOK, TearTypes
    <2>2. LifeAt(f) = "going" /\ LifeAt(f)' = "over"
      BY <1>0, <1>1, <2>1 DEF LifeAt
    <2>3. Lived'[f] # Lived[f] /\ Life!Released(f)
      BY <1>2, <2>2, OneLives DEF Life!Released, Life!Becomes
    <2> QED BY <2>3 DEF Life!LifeNext
  <1> QED BY <1>3, <1>4, <1>5

\* A step that calls a setup, serves a command, is main's or the runner's.
LEMMA OtherLives ==
    ASSUME RunInv, RunInv', UNCHANGED <<teardown, attempted, published>>,
           (phase = "killed") = (phase' = "killed"),
           \/ UNCHANGED setup
           \/ \E f \in Fixtures : f \notin started /\ setup' = [setup EXCEPT ![f] = "derive"]
    PROVE  UNCHANGED Lived
  <1>1. \A g \in Fixtures : (setup'[g] = "between") = (setup[g] = "between")
    BY DEF RunInv, IInv, TypeOK, SetupTypes, StartedHasBegun
  <1>2. \A g \in Fixtures : LifeAt(g)' = LifeAt(g)
    BY <1>1 DEF LifeAt
  <1> QED BY <1>2, LifeStutters

LEMMA DeathLives ==
    ASSUME RunInv, RunInv', Die
    PROVE  [Life!LifeNext]_Lived
  <1>1. \A g \in Fixtures : LifeOf(g)' = "over"
    BY DEF Die, LifeOf
  <1>2. Life!Die
    BY <1>1 DEF Life!Die, Lived
  <1> QED BY <1>2 DEF Life!LifeNext

LEMMA StepLives ==
    RunInv /\ RunInv' /\ [RunNext]_allVars => [Life!LifeNext]_Lived
  <1> SUFFICES ASSUME RunInv, RunInv', [RunNext]_allVars PROVE [Life!LifeNext]_Lived
    OBVIOUS
  <1>1. CASE Die
    BY <1>1, DeathLives
  <1>2. ASSUME Running, NEW f \in Fixtures, FixtureStep(f) \/ UserReturns(f)
        PROVE  [Life!LifeNext]_Lived
    <2>1. CASE UpfrontCall(f)
      <3>1. UNCHANGED <<phase, teardown, attempted, published>>
        BY <2>1 DEF UpfrontCall, mainVars, tearVars
      <3>2. f \notin started /\ setup' = [setup EXCEPT ![f] = "derive"]
        BY <2>1 DEF UpfrontCall
      <3> QED BY <3>1, <3>2, OtherLives
    <2> QED BY <1>2, <2>1, EnterComes, SetupLives, TeardownLives DEF FixtureStep, UserReturns
  <1>3. ASSUME Running, NEW c \in Commands, CommandStep(c) PROVE [Life!LifeNext]_Lived
    <2>1. UNCHANGED <<phase, teardown, attempted, published>>
      BY <1>3 DEF CommandStep, Accept, Judge, StartAck, TeardownAck, StartCall, mainVars,
                  setupVars, tearVars
    <2>2. \/ UNCHANGED setup
          \/ \E f \in Fixtures : f \notin started /\ setup' = [setup EXCEPT ![f] = "derive"]
      BY <1>3 DEF CommandStep, Accept, Judge, StartAck, TeardownAck, StartCall, SetupGoes,
                  setupVars
    <2> QED BY <2>1, <2>2, OtherLives
  <1>4. CASE MainStep \/ (Running /\ Cancel) \/ UNCHANGED vars
    <2>1. UNCHANGED <<setup, teardown, attempted, published>>
      BY <1>4 DEF MainStep, UpfrontDone, LeaveLoop, StartsDrained, ExitMain, Cancel,
                  setupVars, tearVars, vars
    <2>2. (phase = "killed") = (phase' = "killed")
      BY <1>4 DEF MainStep, UpfrontDone, LeaveLoop, StartsDrained, ExitMain, Cancel,
                  mainVars, vars
    <2> QED BY <2>1, <2>2, OtherLives
  <1>5. ASSUME NEW c \in Commands, NEW v, NEW K, Send(c, v, K) PROVE [Life!LifeNext]_Lived
    BY <1>5, OtherLives DEF Send, mainVars, setupVars, tearVars
  <1>6. CASE Runner
    <2>1. ASSUME NEW s \in Suites, SuiteStep(s) PROVE UNCHANGED vars
      BY <2>1 DEF SuiteStep, Compiled, Dispatch, GiveUp, Stop, SuiteReturns
    <2>2. ASSUME \/ WaitSetup \/ NextSlot \/ OpenSlot \/ StartKeysFails \/ StartReturns
                 \/ Withhold \/ TeardownKeysFails \/ TeardownReturns \/ Conclude
                 \/ \E c \in Commands : LateAck(c)
          PROVE  UNCHANGED vars
      BY <2>2 DEF WaitSetup, NextSlot, OpenSlot, StartKeysFails, StartReturns, Withhold,
                  TeardownKeysFails, TeardownReturns, Conclude, LateAck
    <2>3. ASSUME AskToEnd \/ JudgeOverdue \/ KillAtBudget
          PROVE  (Running /\ Cancel) \/ Die \/ UNCHANGED vars
      BY <2>3 DEF AskToEnd, JudgeOverdue, KillAtBudget
    <2>4. ASSUME NEW c \in Commands, StartKeys(c) \/ TeardownKeys(c)
          PROVE  \E v, K : Send(c, v, K)
      BY <2>4 DEF StartKeys, TeardownKeys
    <2> QED BY <1>1, <1>4, <1>5, <1>6, <2>1, <2>2, <2>3, <2>4 DEF Runner
  <1>7. CASE Interrupt \/ RunEnded \/ UNCHANGED allVars
    BY <1>4, <1>7 DEF Interrupt, RunEnded, allVars
  <1>8. CASE ProcessStep
    BY <1>1, <1>2, <1>3, <1>4, <1>8 DEF ProcessStep, Process
  <1> QED BY <1>6, <1>7, <1>8 DEF RunNext

\* Driven by its runner, the shared fixture process implements the life of its
\* graph: whatever the plan, the stops, the retries and the deaths, a BeforeAll
\* is entered only on fixtures that serve, and a fixture is released once, after
\* everything on top of it.
THEOREM ProcessImplementsLife == RunSpec => Life!LifeSpec
  <1>1. RunInit => Life!LifeInit
    BY RunInitHolds, LifeRead
       DEF RunInit, Init, Life!LifeInit, Lived, LifeAt
  <1>2. RunInv /\ RunInv' /\ [RunNext]_allVars => [Life!LifeNext]_Lived
    BY StepLives
  <1> QED BY <1>1, <1>2, RunInvHolds, PTL DEF RunSpec, Life!LifeSpec

\* What a suite reads is there for as long as it runs, and what a fixture rests
\* on for as long as it is live.
THEOREM RunServesFixtures == RunSpec => FixturesServe
  <1>1. RunInv => SuiteFixturesUp /\ DependenciesOutlive
    BY SuitesRead, DepsOutlive
  <1> QED BY <1>1, ProcessImplementsLife, RunInvHolds, PTL DEF FixturesServe
=============================================================================
