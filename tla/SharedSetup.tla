---------------------------- MODULE SharedSetup ----------------------------
(***************************************************************************)
(* The generated shared fixture process: the program that                  *)
(* internal/gotestgen/static/sharedfixture.go.tpl expands to, together     *)
(* with the setup policy every fixture body runs under                     *)
(* (pkg/gotestruntime/fixturesetup.go, fixtureteardown.go).                *)
(*                                                                         *)
(* One goroutine runs main: the up-front phase, the command loop, the      *)
(* drain of starts in flight, the terminal teardown.  Every setup, every   *)
(* teardown and every command runs on a goroutine of its own, so the model *)
(* keeps one program counter per fixture setup, one per fixture teardown   *)
(* and one per command.  What happens under one hold of stateMu is one     *)
(* step; what is read in one hold and used in another is not.              *)
(*                                                                         *)
(* The client is open: any command, with any keys, may arrive at any time. *)
(* SharedRun composes the process with the runner's actual commands.       *)
(***************************************************************************)
EXTENDS Integers, FiniteSets

CONSTANTS
    Fixtures,     \* the fixtures compiled into the program
    Deps,         \* Deps[f]: the fixtures f depends on (DependsOnIndices)
    Deferred,     \* the fixtures left for a start command
    Retries,      \* FixtureConfig.Retries, the same for every fixture
    MaxCommands   \* bound: the number of commands the client ever sends

Commands == 1..MaxCommands

\* The dependencies form no cycle: discovery rejects one (gotestast), and both
\* setup and teardown would wait for themselves.
Acyclic ==
    \E rank \in [Fixtures -> 1..Cardinality(Fixtures)] :
        \A f \in Fixtures : \A d \in Deps[f] : rank[d] < rank[f]

\* Alive sets are closed under dependencies (fixturewindow.go), so a fixture
\* started up front depends on fixtures started up front.
ASSUME GraphAssumption ==
    /\ Deps \in [Fixtures -> SUBSET Fixtures]
    /\ Deferred \subseteq Fixtures
    /\ \A f \in Fixtures \ Deferred : Deps[f] \cap Deferred = {}

ASSUME AcyclicAssumption == IsFiniteSet(Fixtures) /\ Acyclic

ASSUME BoundAssumption == Retries \in Nat /\ MaxCommands \in Nat

Dependents(f) == {d \in Fixtures : f \in Deps[d]}

VARIABLES
    phase,       \* where main is, and how the process ended
    cancelled,   \* fctx is done: a signal, or the end of stdin
    gone,        \* the runner is gone: stdin ended
    setup,       \* setup[f]: where the setup goroutine of f is
    attempt,     \* attempt[f]: BeforeAll attempts begun in RunFixtureSetup
    relErr,      \* fixtures whose release between attempts failed
    started,     \* the flags fstarted, fattempted and ftorn, as sets
    attempted,
    torn,
    errs,        \* fixtures with a setup error
    published,   \* fixtures whose state line was written
    teardown,    \* teardown[f]: where the once-only teardown of f is
    unread,      \* dependents whose flags the teardown of f has still to read
    awaits,      \* dependents whose teardown the teardown of f waits for
    tornFailed,  \* fixtures whose AfterAll failed
    cstate,      \* cstate[c]: where the goroutine of command c is
    verb, keys,  \* what command c asks
    calls,       \* keys whose setup call command c has not made yet
    owns,        \* keys whose setup runs inside command c
    releases,    \* keys command c is the one to report on
    ack,         \* what command c was acknowledged with
    doneLine,    \* the _done line: not written yet, ok, or with an error
    failed,      \* fteardownFailed
    entered,     \* history: BeforeAll calls of f
    released     \* history: AfterAll calls of f that returned

mainVars  == <<phase, cancelled, gone, doneLine>>
setupVars == <<setup, attempt, relErr, started, attempted, errs, published,
               entered>>
tearVars  == <<teardown, unread, awaits, torn, tornFailed>>
cmdVars   == <<cstate, verb, keys, calls, owns, releases, ack, failed>>
vars      == <<mainVars, setupVars, tearVars, cmdVars, released>>

Exits      == {"exit0", "exit1", "orphaned", "killed"}
Phases     == {"upfront", "serving", "draining", "releasing"} \cup Exits
SetupSteps == {"idle", "derive", "deps", "begin", "beforeAll", "delay",
               "between", "again", "publish", "ended"}
TearSteps  == {"idle", "own", "gate", "afterAll", "ended"}
CmdSteps   == {"unsent", "sent", "accepted", "running", "acked"}
Verbs      == {"none", "start", "teardown"}
Acks       == {"none", "ok", "refused", "failed"}

MainTypes ==
    /\ phase \in Phases
    /\ cancelled \in BOOLEAN /\ gone \in BOOLEAN
    /\ doneLine \in {"none", "ok", "failed"}

SetupTypes ==
    /\ setup \in [Fixtures -> SetupSteps]
    /\ attempt \in [Fixtures -> 0..(Retries + 1)]
    /\ relErr \subseteq Fixtures /\ started \subseteq Fixtures
    /\ attempted \subseteq Fixtures
    /\ errs \subseteq Fixtures /\ published \subseteq Fixtures
    /\ entered \in [Fixtures -> Nat]

TearTypes ==
    /\ teardown \in [Fixtures -> TearSteps]
    /\ unread \in [Fixtures -> SUBSET Fixtures]
    /\ awaits \in [Fixtures -> SUBSET Fixtures]
    /\ torn \subseteq Fixtures /\ tornFailed \subseteq Fixtures
    /\ released \in [Fixtures -> Nat]

CmdTypes ==
    /\ cstate \in [Commands -> CmdSteps]
    /\ verb \in [Commands -> Verbs]
    /\ ack \in [Commands -> Acks]
    /\ keys \in [Commands -> SUBSET Fixtures]
    /\ calls \in [Commands -> SUBSET Fixtures]
    /\ owns \in [Commands -> SUBSET Fixtures]
    /\ releases \in [Commands -> SUBSET Fixtures]
    /\ failed \in BOOLEAN

\* The variables keep to their types; in particular RunFixtureSetup makes at
\* most Retries + 1 attempts.
TypeOK == MainTypes /\ SetupTypes /\ TearTypes /\ CmdTypes

Init ==
    /\ phase = "upfront" /\ cancelled = FALSE /\ gone = FALSE
    /\ doneLine = "none" /\ failed = FALSE
    /\ setup = [f \in Fixtures |-> "idle"]
    /\ attempt = [f \in Fixtures |-> 0]
    /\ relErr = {} /\ started = {} /\ attempted = {} /\ torn = {}
    /\ errs = {} /\ published = {} /\ tornFailed = {}
    /\ teardown = [f \in Fixtures |-> "idle"]
    /\ unread = [f \in Fixtures |-> {}]
    /\ awaits = [f \in Fixtures |-> {}]
    /\ cstate = [c \in Commands |-> "unsent"]
    /\ verb = [c \in Commands |-> "none"]
    /\ ack = [c \in Commands |-> "none"]
    /\ keys = [c \in Commands |-> {}]
    /\ calls = [c \in Commands |-> {}]
    /\ owns = [c \in Commands |-> {}]
    /\ releases = [c \in Commands |-> {}]
    /\ entered = [f \in Fixtures |-> 0]
    /\ released = [f \in Fixtures |-> 0]

Running == phase \notin Exits

-----------------------------------------------------------------------------
(* What the client and the operating system do to the process.             *)

\* A command line on stdin.  Lines are read in the order they are sent.
Send(c, v, K) ==
    /\ Running /\ cstate[c] = "unsent"
    /\ \A b \in Commands : b < c => cstate[b] # "unsent"
    /\ cstate' = [cstate EXCEPT ![c] = "sent"]
    /\ verb' = [verb EXCEPT ![c] = v]
    /\ keys' = [keys EXCEPT ![c] = K]
    /\ UNCHANGED <<mainVars, setupVars, tearVars, calls, owns, releases, ack,
                   failed, released>>

\* SIGTERM or SIGINT while the runner lives: fctx is done.
Cancel ==
    /\ Running /\ ~cancelled
    /\ cancelled' = TRUE
    /\ UNCHANGED <<phase, gone, doneLine, setupVars, tearVars, cmdVars,
                   released>>

\* Stdin ends: the reader closes feof and cancels fctx.
StdinEnds ==
    /\ Running /\ ~gone
    /\ cancelled' = TRUE /\ gone' = TRUE
    /\ UNCHANGED <<phase, doneLine, setupVars, tearVars, cmdVars, released>>

\* The process is killed, or a goroutine of a fixture panics: no epilogue runs.
Die ==
    /\ Running
    /\ phase' = "killed"
    /\ UNCHANGED <<cancelled, gone, doneLine, setupVars, tearVars, cmdVars,
                   released>>

\* ExitWhenOrphaned: once the runner is gone, the budgets run out at some
\* moment the model does not choose.
OrphanExit ==
    /\ Running /\ gone
    /\ phase' = "orphaned"
    /\ UNCHANGED <<cancelled, gone, doneLine, setupVars, tearVars, cmdVars,
                   released>>

-----------------------------------------------------------------------------
(* main                                                                    *)

\* The up-front phase calls the setup of every fixture not deferred.
UpfrontCall(f) ==
    /\ phase = "upfront" /\ f \notin Deferred /\ f \notin started
    /\ started' = started \cup {f}
    /\ setup' = [setup EXCEPT ![f] = "derive"]
    /\ UNCHANGED <<mainVars, attempt, relErr, attempted, errs, published,
                   entered, tearVars, cmdVars, released>>

\* wg.Wait, then the _done line.
UpfrontDone ==
    /\ phase = "upfront"
    /\ \A f \in Fixtures \ Deferred : setup[f] = "ended"
    /\ phase' = "serving"
    /\ doneLine' = IF errs # {} THEN "failed" ELSE "ok"
    /\ UNCHANGED <<cancelled, gone, setupVars, tearVars, cmdVars, released>>

\* The loop takes the next command.  A select with a command and a cancelled
\* context both ready may pick either.
Accept(c) ==
    /\ phase = "serving" /\ cstate[c] = "sent"
    /\ \A b \in Commands : b < c => cstate[b] # "sent"
    /\ cstate' = [cstate EXCEPT ![c] = "accepted"]
    /\ UNCHANGED <<mainVars, setupVars, tearVars, verb, keys, calls, owns,
                   releases, ack, failed, released>>

LeaveLoop ==
    /\ phase = "serving" /\ cancelled
    /\ phase' = "draining"
    /\ UNCHANGED <<cancelled, gone, doneLine, setupVars, tearVars, cmdVars,
                   released>>

StartsInFlight ==
    {c \in Commands : verb[c] = "start" /\ cstate[c] \in {"accepted", "running"}}

\* Mutant: the terminal teardown does not wait for starts in flight.
StartsDrained_NoWait ==
    /\ phase = "draining"
    /\ phase' = "releasing"
    /\ UNCHANGED <<cancelled, gone, doneLine, setupVars, tearVars, cmdVars,
                   released>>

\* startsInFlight.Wait
StartsDrained ==
    /\ phase = "draining" /\ StartsInFlight = {}
    /\ phase' = "releasing"
    /\ UNCHANGED <<cancelled, gone, doneLine, setupVars, tearVars, cmdVars,
                   released>>

\* The terminal teardown has ended: _teardown line, exit status.
ExitMain ==
    /\ phase = "releasing"
    /\ \A f \in Fixtures : teardown[f] = "ended"
    /\ phase' = IF doneLine = "failed" \/ failed \/ tornFailed # {} THEN "exit1" ELSE "exit0"
    /\ UNCHANGED <<cancelled, gone, doneLine, setupVars, tearVars, cmdVars,
                   released>>

-----------------------------------------------------------------------------
(* The setup body of one fixture: lines common to the up-front phase and   *)
(* the start verb, and RunFixtureSetup inside it.                          *)

SetupGoes(f, step) == setup' = [setup EXCEPT ![f] = step]
SetupFails(f) == SetupGoes(f, "ended") /\ errs' = errs \cup {f}

\* SharedFixtureConfig is called first; its panic is the fixture's error.
DeriveConfig(f) ==
    /\ setup[f] = "derive"
    /\ \/ SetupGoes(f, "deps") /\ UNCHANGED errs
       \/ SetupFails(f)
    /\ UNCHANGED <<mainVars, attempt, relErr, started, attempted, published,
                   entered, tearVars, cmdVars, released>>

\* Every dependency's setup has ended; one that failed skips this fixture.
AwaitDeps(f) ==
    /\ setup[f] = "deps"
    /\ \A d \in Deps[f] : setup[d] = "ended"
    /\ IF Deps[f] \cap errs # {}
         THEN SetupFails(f)
         ELSE SetupGoes(f, "begin") /\ UNCHANGED errs
    /\ UNCHANGED <<mainVars, attempt, relErr, started, attempted, published,
                   entered, tearVars, cmdVars, released>>

\* Held(true), then BeforeAll is entered.
EnterBeforeAll(f) ==
    /\ SetupGoes(f, "beforeAll")
    /\ attempt' = [attempt EXCEPT ![f] = @ + 1]
    /\ attempted' = attempted \cup {f}
    /\ entered' = [entered EXCEPT ![f] = @ + 1]
    /\ UNCHANGED errs

\* A context already done ends the setup before the first attempt.
FirstAttempt(f) ==
    /\ setup[f] = "begin"
    /\ IF cancelled
         THEN SetupFails(f) /\ UNCHANGED <<attempt, attempted, entered>>
         ELSE EnterBeforeAll(f)
    /\ UNCHANGED <<mainVars, relErr, started, published, tearVars, cmdVars,
                   released>>

\* BeforeAll returned nil in time: the setup succeeds unless a release between
\* attempts failed.
AttemptSucceeds(f) ==
    /\ setup[f] = "beforeAll"
    /\ IF f \in relErr
         THEN SetupFails(f)
         ELSE SetupGoes(f, "publish") /\ UNCHANGED errs
    /\ UNCHANGED <<mainVars, attempt, relErr, started, attempted, published,
                   entered, tearVars, cmdVars, released>>

\* BeforeAll returned nil after the Timeout it declared: terminal.
AttemptOverruns(f) ==
    /\ setup[f] = "beforeAll" /\ ~cancelled
    /\ SetupFails(f)
    /\ UNCHANGED <<mainVars, attempt, relErr, started, attempted, published,
                   entered, tearVars, cmdVars, released>>

\* BeforeAll failed or panicked: retried unless cancelled or out of attempts.
AttemptFails(f) ==
    /\ setup[f] = "beforeAll"
    /\ IF cancelled \/ attempt[f] > Retries
         THEN SetupFails(f)
         ELSE SetupGoes(f, "delay") /\ UNCHANGED errs
    /\ UNCHANGED <<mainVars, attempt, relErr, started, attempted, published,
                   entered, tearVars, cmdVars, released>>

\* RetryDelay.  A cancel during it returns with the attempt still held.
RetryDelay(f) ==
    /\ setup[f] = "delay"
    /\ \/ cancelled /\ SetupFails(f)
       \/ SetupGoes(f, "between") /\ UNCHANGED errs
    /\ UNCHANGED <<mainVars, attempt, relErr, started, attempted, published,
                   entered, tearVars, cmdVars, released>>

\* AfterAll between attempts returns, then Held(false).
ReleaseBetween(f) ==
    /\ setup[f] = "between"
    /\ SetupGoes(f, "again")
    /\ relErr' \in {relErr, relErr \cup {f}}
    /\ attempted' = attempted \ {f}
    /\ released' = [released EXCEPT ![f] = @ + 1]
    /\ UNCHANGED <<mainVars, attempt, started, errs, published, entered,
                   tearVars, cmdVars>>

\* A cancel seen once the release returned ends the setup.
NextAttempt(f) ==
    /\ setup[f] = "again"
    /\ IF cancelled
         THEN SetupFails(f) /\ UNCHANGED <<attempt, attempted, entered>>
         ELSE EnterBeforeAll(f)
    /\ UNCHANGED <<mainVars, relErr, started, published, tearVars, cmdVars,
                   released>>

\* The fixture's state is marshalled and written, and its done channel closes.
Publish(f) ==
    /\ setup[f] = "publish"
    /\ \/ /\ SetupGoes(f, "ended") /\ UNCHANGED errs
          /\ published' = published \cup {f}
       \/ SetupFails(f) /\ UNCHANGED published
    /\ UNCHANGED <<mainVars, attempt, relErr, started, attempted, entered,
                   tearVars, cmdVars, released>>

-----------------------------------------------------------------------------
(* The teardown body of one fixture, run once whoever reaches it first.    *)

TeardownGoes(f, step) == teardown' = [teardown EXCEPT ![f] = step]

\* A teardown command or the terminal teardown calls it.
TeardownCalled(f) ==
    \/ phase = "releasing"
    \/ \E c \in Commands :
          verb[c] = "teardown" /\ cstate[c] = "running" /\ f \in keys[c]

\* Mutant: the setup is waited for whether or not it was begun.
TeardownEnter_AlwaysWaits(f) ==
    /\ teardown[f] = "idle" /\ TeardownCalled(f)
    /\ TeardownGoes(f, "own")
    /\ unread' = [unread EXCEPT ![f] = Dependents(f)]
    /\ UNCHANGED <<mainVars, setupVars, awaits, torn, tornFailed, cmdVars,
                   released>>

\* The first caller reads fstarted, and waits for the setup only if begun.
TeardownEnter(f) ==
    /\ teardown[f] = "idle" /\ TeardownCalled(f)
    /\ TeardownGoes(f, IF f \in started THEN "own" ELSE "gate")
    /\ unread' = [unread EXCEPT ![f] = Dependents(f)]
    /\ UNCHANGED <<mainVars, setupVars, awaits, torn, tornFailed, cmdVars,
                   released>>

AwaitOwnSetup(f) ==
    /\ teardown[f] = "own" /\ setup[f] = "ended"
    /\ TeardownGoes(f, "gate")
    /\ UNCHANGED <<mainVars, setupVars, unread, awaits, torn, tornFailed,
                   cmdVars, released>>

\* Mutant: no dependent is waited for.
ReadDependent_NoWait(f, d) ==
    /\ teardown[f] = "gate" /\ awaits[f] = {} /\ d \in unread[f]
    /\ unread' = [unread EXCEPT ![f] = @ \ {d}]
    /\ UNCHANGED <<mainVars, setupVars, teardown, awaits, torn, tornFailed,
                   cmdVars, released>>

\* One dependent's flags are read in one hold of the lock; a dependent that
\* holds resources, or is being released, is then waited for.
ReadDependent(f, d) ==
    /\ teardown[f] = "gate" /\ awaits[f] = {} /\ d \in unread[f]
    /\ unread' = [unread EXCEPT ![f] = @ \ {d}]
    /\ awaits' = [awaits EXCEPT ![f] = IF d \in attempted \cup torn THEN {d} ELSE {}]
    /\ UNCHANGED <<mainVars, setupVars, teardown, torn, tornFailed, cmdVars,
                   released>>

AwaitDependent(f) ==
    /\ teardown[f] = "gate" /\ awaits[f] # {}
    /\ \A d \in awaits[f] : teardown[d] = "ended"
    /\ awaits' = [awaits EXCEPT ![f] = {}]
    /\ UNCHANGED <<mainVars, setupVars, teardown, unread, torn, tornFailed,
                   cmdVars, released>>

\* Mutant: a fixture whose setup failed counts as holding nothing.
ClaimTeardown_SkipsFailed(f) ==
    /\ teardown[f] = "gate" /\ awaits[f] = {} /\ unread[f] = {}
    /\ torn' = torn \cup {f}
    /\ TeardownGoes(f, IF f \in torn \/ f \notin attempted \ errs THEN "ended" ELSE "afterAll")
    /\ UNCHANGED <<mainVars, setupVars, unread, awaits, tornFailed, cmdVars,
                   released>>

\* Under the lock: torn is set, and AfterAll follows only for a held fixture.
ClaimTeardown(f) ==
    /\ teardown[f] = "gate" /\ awaits[f] = {} /\ unread[f] = {}
    /\ torn' = torn \cup {f}
    /\ TeardownGoes(f, IF f \in torn \/ f \notin attempted THEN "ended" ELSE "afterAll")
    /\ UNCHANGED <<mainVars, setupVars, unread, awaits, tornFailed, cmdVars,
                   released>>

\* AfterAll returns, fails, panics or overruns its budget.
AfterAllReturns(f) ==
    /\ teardown[f] = "afterAll"
    /\ TeardownGoes(f, "ended")
    /\ tornFailed' \in {tornFailed, tornFailed \cup {f}}
    /\ released' = [released EXCEPT ![f] = @ + 1]
    /\ UNCHANGED <<mainVars, setupVars, unread, awaits, torn, cmdVars>>

-----------------------------------------------------------------------------
(* One command, on its own goroutine.                                      *)

\* A start of a released fixture, or of one whose dependency is neither up
\* nor started with it.
RefusesStart(K) ==
    \E f \in K : f \in torn \/ \E d \in Deps[f] : d \notin started /\ d \notin K

\* A release of a fixture with a dependent up and not released with it.
RefusesTeardown(K) ==
    \E f \in K : \E d \in Dependents(f) : d \in attempted \ torn /\ d \notin K

Refuses(v, K) == IF v = "start" THEN RefusesStart(K) ELSE RefusesTeardown(K)

\* The command is judged whole under one hold of the lock; a refused one is
\* acknowledged with nothing done.
Judge(c) ==
    /\ cstate[c] = "accepted"
    /\ IF Refuses(verb[c], keys[c])
         THEN /\ cstate' = [cstate EXCEPT ![c] = "acked"]
              /\ ack' = [ack EXCEPT ![c] = "refused"]
              /\ UNCHANGED <<calls, releases>>
         ELSE /\ cstate' = [cstate EXCEPT ![c] = "running"]
              /\ calls' = [calls EXCEPT ![c] = IF verb[c] = "start" THEN keys[c] ELSE {}]
              /\ releases' = [releases EXCEPT ![c] = keys[c] \ torn]
              /\ UNCHANGED ack
    /\ UNCHANGED <<mainVars, setupVars, tearVars, verb, keys, owns, failed,
                   released>>

\* Mutant: every caller of a setup runs it.
StartCall_NotOnce(c, f) ==
    /\ cstate[c] = "running" /\ f \in calls[c]
    /\ calls' = [calls EXCEPT ![c] = @ \ {f}]
    /\ started' = started \cup {f}
    /\ SetupGoes(f, "derive")
    /\ owns' = [owns EXCEPT ![c] = @ \cup {f}]
    /\ UNCHANGED <<mainVars, attempt, relErr, attempted, errs, published,
                   entered, tearVars, cstate, verb, keys, releases, ack,
                   failed, released>>

\* One goroutine of a start command calls a fixture's setup: the first caller
\* runs it, a later one returns at once.
StartCall(c, f) ==
    /\ cstate[c] = "running" /\ f \in calls[c]
    /\ calls' = [calls EXCEPT ![c] = @ \ {f}]
    /\ started' = started \cup {f}
    /\ IF f \in started
         THEN UNCHANGED <<setup, owns>>
         ELSE /\ SetupGoes(f, "derive")
              /\ owns' = [owns EXCEPT ![c] = @ \cup {f}]
    /\ UNCHANGED <<mainVars, attempt, relErr, attempted, errs, published,
                   entered, tearVars, cstate, verb, keys, releases, ack,
                   failed, released>>

\* Every setup call returned: the _cmd line.
StartAck(c) ==
    /\ cstate[c] = "running" /\ verb[c] = "start" /\ calls[c] = {}
    /\ \A f \in owns[c] : setup[f] = "ended"
    /\ cstate' = [cstate EXCEPT ![c] = "acked"]
    /\ ack' = [ack EXCEPT ![c] = IF keys[c] \cap errs # {} THEN "failed" ELSE "ok"]
    /\ UNCHANGED <<mainVars, setupVars, tearVars, verb, keys, calls, owns,
                   releases, failed, released>>

\* Every teardown call returned: failures of the keys this command released.
TeardownAck(c) ==
    /\ cstate[c] = "running" /\ verb[c] = "teardown"
    /\ \A f \in keys[c] : teardown[f] = "ended"
    /\ LET bad == releases[c] \cap tornFailed # {}
       IN  /\ ack' = [ack EXCEPT ![c] = IF bad THEN "failed" ELSE "ok"]
           /\ failed' = (failed \/ bad)
    /\ cstate' = [cstate EXCEPT ![c] = "acked"]
    /\ UNCHANGED <<mainVars, setupVars, tearVars, verb, keys, calls, owns,
                   releases, released>>

-----------------------------------------------------------------------------
\* The body of BeforeAll or AfterAll returns: user code, on which the process
\* itself has no hold.
UserReturns(f) ==
    \/ AttemptSucceeds(f) \/ AttemptOverruns(f) \/ AttemptFails(f)
    \/ ReleaseBetween(f) \/ AfterAllReturns(f)

FixtureStep(f) ==
    \/ UpfrontCall(f) \/ DeriveConfig(f) \/ AwaitDeps(f) \/ FirstAttempt(f)
    \/ RetryDelay(f) \/ NextAttempt(f) \/ Publish(f)
    \/ TeardownEnter(f) \/ AwaitOwnSetup(f) \/ AwaitDependent(f)
    \/ (\E d \in Fixtures : ReadDependent(f, d))
    \/ ClaimTeardown(f)

CommandStep(c) ==
    \/ Accept(c) \/ Judge(c) \/ StartAck(c) \/ TeardownAck(c)
    \/ (\E f \in Fixtures : StartCall(c, f))

MainStep == UpfrontDone \/ LeaveLoop \/ StartsDrained \/ ExitMain

\* Everything the process does while it runs.
Process ==
    /\ Running
    /\ \/ MainStep
       \/ \E f \in Fixtures : FixtureStep(f) \/ UserReturns(f)
       \/ \E c \in Commands : CommandStep(c)

Environment ==
    \/ \E c \in Commands, K \in (SUBSET Fixtures) \ {{}} :
          Send(c, "start", K) \/ Send(c, "teardown", K)
    \/ Cancel \/ StdinEnds \/ Die \/ OrphanExit

\* The process is gone.
Ended == ~Running /\ UNCHANGED vars

Next == Process \/ Environment \/ Ended

Spec == Init /\ [][Next]_vars

-----------------------------------------------------------------------------
(* Properties that hold whatever the client sends.                         *)

\* startsInFlight: once the terminal teardown begins, no setup is running, so
\* no AfterAll of the epilogue runs beside a BeforeAll a late start began.
TerminalTeardownAlone ==
    phase \in {"releasing", "exit0", "exit1"} =>
        \A f \in started : setup[f] = "ended"

\* A fixture starts at most once: however many starts name it, its setup body
\* is never entered again once it has begun, and never leaves its end.
NeverRestarted ==
    [][\A f \in Fixtures :
          /\ setup[f] = "ended" => setup'[f] = "ended"
          /\ setup[f] # "idle" => setup'[f] \notin {"idle", "derive"} \/ setup'[f] = setup[f]
      ]_vars

\* The strengthening under which TypeOK and TerminalTeardownAlone are inductive.

\* The attempts of RunFixtureSetup are counted within its bound.
AttemptsBounded ==
    \A f \in Fixtures :
        /\ setup[f] \in {"idle", "derive", "deps", "begin"} => attempt[f] = 0
        /\ setup[f] \in {"delay", "between", "again"} => attempt[f] <= Retries

\* fstarted says which setups have begun.
StartedHasBegun == \A f \in Fixtures : f \in started <=> setup[f] # "idle"

\* Only a start command that was let through has setup calls to make.
CallsAreStarts ==
    \A c \in Commands :
        calls[c] # {} => verb[c] = "start" /\ cstate[c] = "running"

\* No command is served, and no deferred fixture started, during the up-front
\* phase.
UpfrontAlone ==
    phase = "upfront" => /\ started \cap Deferred = {}
                         /\ \A c \in Commands : cstate[c] \in {"unsent", "sent"}

\* A setup still running is the up-front phase's, or a start command's that
\* waits for it: this is what startsInFlight counts.
SetupHasOwner ==
    phase \in {"serving", "draining", "releasing", "exit0", "exit1"} =>
        \A f \in started :
            \/ setup[f] = "ended"
            \/ \E c \in Commands :
                  verb[c] = "start" /\ cstate[c] = "running" /\ f \in owns[c]

\* From the terminal teardown on, no start command is in flight.
NoStartWhenReleasing ==
    phase \in {"releasing", "exit0", "exit1"} =>
        \A c \in Commands : verb[c] = "start" => cstate[c] \notin {"accepted", "running"}

IInv ==
    /\ TypeOK /\ AttemptsBounded /\ StartedHasBegun /\ CallsAreStarts
    /\ UpfrontAlone /\ SetupHasOwner /\ NoStartWhenReleasing

\* The comment in the teardown body: "A release sent while the fixture's start
\* still runs waits for that setup to end: no AfterAll beside its own
\* BeforeAll."
NoAfterAllBesideBeforeAll ==
    \A f \in Fixtures :
        ~(teardown[f] = "afterAll" /\ setup[f] \in {"beforeAll", "between"})

\* Goroutines of the process are scheduled, and user code returns.
Fairness ==
    /\ WF_vars(Running /\ MainStep)
    /\ \A f \in Fixtures :
          WF_vars(Running /\ FixtureStep(f)) /\ WF_vars(Running /\ UserReturns(f))
    /\ \A c \in Commands : WF_vars(Running /\ CommandStep(c))

FairSpec == Spec /\ Fairness

\* A shutdown request ends the process however setups, commands and releases
\* interleave with it: no wait on a dependency, a dependent, a start in flight
\* or a once-only teardown is for good.
ShutdownEnds == cancelled ~> ~Running
=============================================================================
