--------------------------- MODULE SharedProtocol ---------------------------
(***************************************************************************)
(* The runner's end of the shared fixture process's protocol, with its     *)
(* clocks (internal/gotestrunner/sharedfixture.go): the reader of the      *)
(* stream, WaitSetup and the start and release commands with the deadline  *)
(* that follows the budgets the process reports, awaitExit with the one    *)
(* that follows its teardown budget, and the verdict.  SharedRun has the   *)
(* same commands without time, and SharedSetup the process itself; here it *)
(* is what it may write and when.                                          *)
(*                                                                         *)
(* Time is counted; it passes only when what was written has been read and *)
(* what was read has been acted upon.                                      *)
(***************************************************************************)
EXTENDS Integers, Sequences, FiniteSets

CONSTANTS UpFrontKeys,    \* the fixtures set up at once
          DeferredKeys,   \* the fixtures a start command brings up
          SetupLasts,     \* each fixture's possible setup budgets, 0 for none
          Flats,          \* the flat deadlines a wait may have: 0, positive or negative
          ReportFloor,    \* setupReportFloor
          Unreported,     \* unreportedTeardownBudget
          Horizon         \* bound: the clock

ProtoKeys == UpFrontKeys \cup DeferredKeys

\* Budgets are counted from 0; a flat deadline of 0 follows them.
ASSUME ProtocolAssumption ==
    /\ \A f \in ProtoKeys : SetupLasts[f] \subseteq Nat
    /\ Flats \subseteq Int /\ {ReportFloor, Unreported} \subseteq Nat
    /\ IsFiniteSet(ProtoKeys)

Never == -1

VARIABLES
    now,
    \* the process
    fixture,      \* each fixture: "no", "setup", "up", "failed", "gone"
    since, lasts, \* when its setup began, and its declared budget
    process,      \* "upfront", "serving", "teardown", "exited"
    exitStatus,   \* "none", "clean", "torn", "other"
    interruptedP, \* the runner asked it to shut down
    wire,         \* the lines written and not read
    \* what the reader knows
    setupBegan, setupDeadline, setupBudget, setupUnbounded,
    budgetSeen,   \* the channel of capacity one
    teardownTimeout, teardownSeen,
    doneSeen,     \* allDone is closed
    setupErr, tornErr,
    over,         \* p.done is closed
    \* the callers
    flat,
    waiter,       \* "setup", "idle", "start", "given up", "failed"
    armed,        \* setupClock: when its timer fires, or Never
    release,      \* the release command: "no", "sent", "overdue", "dropped", "over"
    releasing,    \* its keys
    releaseEnds,  \* when its budget ends
    held,         \* the keys brought up and not acknowledged as released
    exitWait,       \* "no", "asked", "killed", "exited"
    deadline,     \* awaitExit's
    reportedYet,  \* awaitExit has taken allDone
    verdictP,     \* what Teardown returned: "none", "nil", "error"
    cutShort,     \* history: a wait was given up before a setup's budget had passed
    owed          \* history: when the last of the teardown budgets it was given ends

processVars == <<fixture, since, lasts, process, exitStatus, interruptedP>>
readerVars == <<setupBegan, setupDeadline, setupBudget, setupUnbounded, budgetSeen,
                teardownTimeout, teardownSeen, doneSeen, setupErr, tornErr>>
releaseVars == <<release, releasing, releaseEnds, held>>
callerVars == <<waiter, armed, releaseVars, exitWait, deadline, reportedYet, verdictP, cutShort, owed>>
protoVars == <<now, processVars, wire, readerVars, over, flat, callerVars>>

\* launchSharedFixtures; the flat deadline is also the first teardown budget.
ProtocolIn(where) ==
    /\ now = 0 /\ wire = <<>> /\ flat \in Flats
    /\ fixture = [f \in ProtoKeys |-> "no"]
    /\ since = [f \in ProtoKeys |-> 0] /\ lasts = [f \in ProtoKeys |-> 0]
    /\ process = where /\ exitStatus = IF where = "exited" THEN "clean" ELSE "none"
    /\ interruptedP = FALSE
    /\ setupBegan = 0 /\ setupDeadline = Never /\ setupBudget = 0 /\ setupUnbounded = FALSE
    /\ budgetSeen = FALSE /\ teardownTimeout = flat /\ teardownSeen = FALSE
    /\ doneSeen = (where = "exited") /\ setupErr = "none" /\ tornErr = FALSE
    /\ over = (where = "exited")
    /\ waiter = IF where = "exited" THEN "idle" ELSE "setup"
    /\ armed = IF flat > 0 THEN flat ELSE IF flat = 0 THEN ReportFloor ELSE Never
    /\ release = "no" /\ releasing = {} /\ releaseEnds = Never /\ held = UpFrontKeys
    /\ exitWait = IF where = "exited" THEN "exited" ELSE "no"
    /\ deadline = 0 /\ reportedYet = FALSE
    /\ verdictP = IF where = "exited" THEN "nil" ELSE "none"
    /\ cutShort = FALSE /\ owed = 0

ProtocolInit == ProtocolIn("upfront")

------------------------------------------------------------------------------
(* The process, as the runner sees it *)

InSetup == {f \in ProtoKeys : fixture[f] = "setup"}

\* SupervisorBudget and the chain: what the teardown of what was reached may take.
TeardownLasts(fx) == 1 + Cardinality({f \in ProtoKeys : fx[f] \in {"setup", "up"}})

SetupBegins(f, b) ==
    /\ fixture[f] = "no" /\ ~interruptedP
    /\ \/ process = "upfront" /\ f \in UpFrontKeys
       \/ process = "serving" /\ f \in DeferredKeys /\ waiter = "start"
    /\ fixture' = [fixture EXCEPT ![f] = "setup"]
    /\ since' = [since EXCEPT ![f] = now] /\ lasts' = [lasts EXCEPT ![f] = b]
    /\ wire' = Append(wire, <<"_setup", b>>)
    /\ UNCHANGED <<now, process, exitStatus, interruptedP, readerVars, over, flat, callerVars>>

\* The state line of a fixture that is up; a start's last end is acknowledged.
SetupEndsAs(f, how) ==
    LET fx == [fixture EXCEPT ![f] = how] IN
    /\ process \in {"upfront", "serving"} /\ fixture[f] = "setup" /\ fixture' = fx
    /\ wire' = wire \o (IF how = "up" THEN <<<<"state", f>>>> ELSE <<>>)
                    \o (IF f \in DeferredKeys /\ \A g \in DeferredKeys : fx[g] \in {"up", "failed"}
                        THEN <<<<"_cmd", TeardownLasts(fx)>>>> ELSE <<>>)
    /\ since' = [since EXCEPT ![f] = 0] /\ lasts' = [lasts EXCEPT ![f] = 0]
    /\ UNCHANGED <<now, process, exitStatus, interruptedP, readerVars, over, flat,
                   callerVars>>

\* Up front done: every fixture was set up, failed, or was not begun any more.
UpFrontDone ==
    /\ process = "upfront" /\ InSetup = {}
    /\ interruptedP \/ \A f \in UpFrontKeys : fixture[f] # "no"
    /\ process' = "serving"
    /\ wire' = Append(wire, <<"_done", \A f \in UpFrontKeys : fixture[f] = "up",
                              TeardownLasts(fixture)>>)
    /\ UNCHANGED <<now, fixture, since, lasts, exitStatus, interruptedP, readerVars, over, flat,
                   callerVars>>

\* It may end after the runner gave it up.
ReleaseServed ==
    /\ process = "serving" /\ releasing # {} /\ \A f \in releasing : fixture[f] = "up"
    /\ fixture' = [f \in ProtoKeys |-> IF f \in releasing THEN "gone" ELSE fixture[f]]
    /\ wire' = Append(wire, <<"release", TeardownLasts(fixture')>>)
    /\ UNCHANGED <<now, since, lasts, process, exitStatus, interruptedP, readerVars, over, flat,
                   callerVars>>

TeardownBegins ==
    /\ process = "serving" /\ interruptedP /\ InSetup = {} /\ process' = "teardown"
    /\ UNCHANGED <<now, fixture, since, lasts, exitStatus, interruptedP, wire, readerVars, over,
                   flat, callerVars>>

GoneWith ==
    /\ fixture' = [f \in ProtoKeys |-> "gone"]
    /\ since' = [f \in ProtoKeys |-> 0] /\ lasts' = [f \in ProtoKeys |-> 0]

\* It ends its teardown, or dies at any time, with a line on the wire or none.
ProcessExits(how) ==
    /\ process # "exited" /\ (how # "other" => process = "teardown")
    /\ process' = "exited" /\ exitStatus' = how /\ GoneWith
    /\ wire' = IF how = "torn" THEN Append(wire, <<"_teardown">>) ELSE wire
    /\ UNCHANGED <<now, interruptedP, readerVars, over, flat, callerVars>>

------------------------------------------------------------------------------
(* readProtocol *)

\* The deadline moves to the last report's, earlier or not.
NoteSetupBudget_Last(b) ==
    /\ setupUnbounded' = (setupUnbounded \/ b = 0)
    /\ IF b > 0 THEN setupDeadline' = now + b /\ setupBudget' = b
                ELSE UNCHANGED <<setupDeadline, setupBudget>>
    /\ budgetSeen' = TRUE

\* The deadline moves to the latest of the reported ones; none lifts it.
NoteSetupBudget(b) ==
    /\ setupUnbounded' = (setupUnbounded \/ b = 0)
    /\ IF b > 0 /\ now + b > setupDeadline
       THEN setupDeadline' = now + b /\ setupBudget' = b
       ELSE UNCHANGED <<setupDeadline, setupBudget>>
    /\ budgetSeen' = TRUE

noTeardownNote == UNCHANGED <<teardownTimeout, teardownSeen>>

\* An acknowledgement's budget wakes awaitExit only if it is longer.
NoteTeardownBudget(b) ==
    /\ teardownTimeout' = b
    /\ teardownSeen' = (teardownSeen \/ b > teardownTimeout)

\* The first line of the wire.  An ack is handed to its command, if one waits; a
\* release given up at its budget takes it too (lateAck), a cancelled one does not.
ReadLine ==
    LET line == wire[1]
        keepSetup == UNCHANGED <<setupDeadline, setupBudget, setupUnbounded, budgetSeen>> IN
    /\ wire # <<>> /\ wire' = Tail(wire)
    /\ CASE line[1] = "_setup" ->
              /\ NoteSetupBudget(line[2]) /\ noTeardownNote
              /\ UNCHANGED <<doneSeen, setupErr, tornErr, waiter, release, held, releaseEnds>>
         [] line[1] = "_done" ->
              /\ doneSeen' = TRUE
              /\ setupErr' = IF line[2] THEN setupErr ELSE "failed"
              /\ teardownTimeout' = line[3]
              /\ keepSetup /\ UNCHANGED <<teardownSeen, tornErr, waiter, release, held, releaseEnds>>
         [] line[1] = "_teardown" ->
              /\ tornErr' = TRUE /\ keepSetup /\ noTeardownNote
              /\ UNCHANGED <<doneSeen, setupErr, waiter, release, held, releaseEnds>>
         [] line[1] \in {"_cmd", "release"} ->
              /\ NoteTeardownBudget(line[2]) /\ keepSetup
              /\ waiter' = IF line[1] = "_cmd" /\ waiter = "start" THEN "idle" ELSE waiter
              /\ IF line[1] = "release" /\ release \in {"sent", "overdue"}
                 THEN release' = "over" /\ held' = held \ releasing /\ releaseEnds' = Never
                 ELSE UNCHANGED <<release, held, releaseEnds>>
              /\ UNCHANGED <<doneSeen, setupErr, tornErr>>
         [] OTHER ->
              /\ keepSetup /\ noTeardownNote
              /\ UNCHANGED <<doneSeen, setupErr, tornErr, waiter, release, held, releaseEnds>>
    /\ armed' = IF waiter' # waiter THEN Never ELSE armed
    /\ UNCHANGED <<now, processVars, setupBegan, over, flat, releasing, exitWait,
                   deadline, reportedYet, verdictP, cutShort, owed>>

\* The stream ends with the process, read whole, or cut by the drain when a
\* child holds it open; without _done the setup has failed.
StreamOver ==
    /\ process = "exited" /\ ~over
    /\ over' = TRUE /\ wire' = <<>>
    /\ setupErr' = IF ~doneSeen /\ setupErr = "none" THEN "no _done" ELSE setupErr
    /\ doneSeen' = TRUE
    /\ UNCHANGED <<now, processVars, setupBegan, setupDeadline, setupBudget, setupUnbounded,
                   budgetSeen, teardownTimeout, teardownSeen, tornErr, flat, callerVars>>

------------------------------------------------------------------------------
(* WaitSetup and the start command *)

Waiting == waiter \in {"setup", "start"}
keepAllBut == UNCHANGED <<now, processVars, wire, over, flat>>

\* setupClock.follow, on a report.
Follow ==
    /\ Waiting /\ budgetSeen /\ budgetSeen' = FALSE
    /\ armed' = IF flat # 0 THEN armed
                ELSE IF setupUnbounded THEN Never
                ELSE IF setupDeadline = Never THEN setupBegan + ReportFloor
                ELSE setupDeadline
    /\ keepAllBut
    /\ UNCHANGED <<setupBegan, setupDeadline, setupBudget, setupUnbounded, teardownTimeout,
                   teardownSeen, doneSeen, setupErr, tornErr, waiter, releaseVars, exitWait,
                   deadline, reportedYet, verdictP, cutShort, owed>>

SetupReturns ==
    /\ \/ waiter = "setup" /\ doneSeen /\ waiter' = IF setupErr = "none" THEN "idle" ELSE "failed"
       \/ waiter = "start" /\ over /\ waiter' = "failed"
    /\ armed' = Never /\ keepAllBut
    /\ UNCHANGED <<readerVars, releaseVars, exitWait, deadline, reportedYet, verdictP, cutShort, owed>>

WaitCancelled ==
    /\ Waiting /\ waiter' = "failed" /\ armed' = Never /\ keepAllBut
    /\ UNCHANGED <<readerVars, releaseVars, exitWait, deadline, reportedYet, verdictP, cutShort, owed>>

\* Every fixture whose setup began before now has had the budget it declared.
AllOverran == \A f \in InSetup : since[f] < now => lasts[f] # 0 /\ since[f] + lasts[f] <= now

\* The timer fired: the wait is given up, whatever else was ready.  A setup that
\* followed its budgets gets as long again to stop.
Expires ==
    /\ Waiting /\ armed # Never /\ armed <= now
    /\ waiter' = "given up" /\ armed' = Never
    /\ cutShort' = (process # "exited" /\ flat <= 0 /\ (flat = 0 => ~AllOverran))
    /\ teardownTimeout' = IF flat <= 0 /\ waiter = "setup" /\ teardownTimeout <= 0
                          THEN IF setupBudget > 1 THEN setupBudget ELSE 1
                          ELSE teardownTimeout
    /\ keepAllBut
    /\ UNCHANGED <<setupBegan, setupDeadline, setupBudget, setupUnbounded, budgetSeen,
                   teardownSeen, doneSeen, setupErr, tornErr, releaseVars, exitWait, deadline,
                   reportedYet, verdictP, owed>>

\* A start forgets the budgets of the setups before it.
StartCommand ==
    /\ waiter = "idle" /\ exitWait = "no" /\ process = "serving" /\ ~over
    /\ \A f \in DeferredKeys : fixture[f] = "no"
    /\ waiter' = "start" /\ setupBegan' = now /\ setupDeadline' = Never /\ setupBudget' = 0
    /\ setupUnbounded' = FALSE /\ held' = held \cup DeferredKeys
    /\ armed' = IF flat > 0 THEN now + flat ELSE IF flat = 0 THEN now + ReportFloor ELSE Never
    /\ keepAllBut
    /\ UNCHANGED <<budgetSeen, teardownTimeout, teardownSeen, doneSeen, setupErr,
                   tornErr, release, releasing, releaseEnds, exitWait, deadline, reportedYet, verdictP, cutShort, owed>>

TeardownBudget ==
    IF teardownTimeout = 0 THEN Unreported ELSE IF teardownTimeout < 0 THEN 1 ELSE teardownTimeout

\* A release waits under a budget of its own and takes no report of a setup's.
ReleaseCommand ==
    /\ waiter \in {"idle", "start"} /\ exitWait = "no" /\ release = "no" /\ doneSeen /\ ~over
    /\ releasing' \in (SUBSET {f \in UpFrontKeys : fixture[f] = "up"}) \ {{}}
    /\ release' = "sent" /\ releaseEnds' = now + TeardownBudget /\ keepAllBut
    /\ UNCHANGED <<readerVars, waiter, armed, held, exitWait, deadline, reportedYet, verdictP,
                   cutShort, owed>>

\* It is given up once its budget has passed, or with the run.
ReleaseGivenUp ==
    /\ release = "sent" /\ keepAllBut
    /\ \/ releaseEnds <= now /\ release' = "overdue" /\ UNCHANGED releaseEnds
       \/ release' = "dropped" /\ releaseEnds' = Never
    /\ UNCHANGED <<readerVars, waiter, armed, releasing, held, exitWait, deadline,
                   reportedYet, verdictP, cutShort, owed>>

------------------------------------------------------------------------------
(* Teardown *)

\* onlyOverdue: all it holds is in a release given up at its budget.
OnlyOverdue == release = "overdue" /\ held \subseteq releasing
Living == {f \in ProtoKeys : fixture[f] \in {"setup", "up"}}

ProcessKilled ==
    /\ exitWait' = "killed" /\ process' = "exited"
    /\ exitStatus' = IF process = "exited" THEN exitStatus ELSE "other"
    /\ GoneWith

\* No release is waited for any more.  A process that holds only what is overdue
\* is killed at once, any other is given its budget.
AskToExit ==
    /\ exitWait = "no" /\ ~Waiting /\ (release = "sent" => over)
    /\ deadline' = now + TeardownBudget /\ reportedYet' = doneSeen /\ interruptedP' = TRUE
    /\ IF OnlyOverdue /\ ~over
       THEN ProcessKilled
       ELSE /\ exitWait' = IF over THEN "exited" ELSE "asked"
            /\ UNCHANGED <<fixture, since, lasts, process, exitStatus>>
    /\ owed' = IF OnlyOverdue /\ ~over /\ Living \subseteq releasing
               THEN releaseEnds ELSE now + TeardownBudget
    /\ UNCHANGED <<now, wire, readerVars, over, flat, waiter, armed, releaseVars, verdictP, cutShort>>

\* The deadline is the reported budget's from now, earlier or not.
ExtendTo_Always == deadline' = now + TeardownBudget

\* extendTo: only ever later.
ExtendTo == deadline' = IF now + TeardownBudget > deadline THEN now + TeardownBudget ELSE deadline

AwaitReport ==
    /\ exitWait = "asked"
    /\ \/ doneSeen /\ ~reportedYet /\ reportedYet' = TRUE /\ UNCHANGED teardownSeen
       \/ teardownSeen /\ teardownSeen' = FALSE /\ UNCHANGED reportedYet
    /\ ExtendTo
    /\ owed' = IF now + TeardownBudget > owed THEN now + TeardownBudget ELSE owed
    /\ keepAllBut
    /\ UNCHANGED <<setupBegan, setupDeadline, setupBudget, setupUnbounded, budgetSeen,
                   teardownTimeout, doneSeen, setupErr, tornErr, waiter, armed, releaseVars,
                   exitWait, verdictP, cutShort>>

AwaitKills ==
    /\ exitWait = "asked" /\ deadline <= now /\ ProcessKilled
    /\ UNCHANGED <<now, interruptedP, wire, readerVars, over, flat, waiter,
                   armed, releaseVars, deadline, reportedYet, verdictP, cutShort, owed>>

AwaitDone ==
    /\ exitWait = "asked" /\ over /\ exitWait' = "exited" /\ keepAllBut
    /\ UNCHANGED <<readerVars, waiter, armed, releaseVars, deadline, reportedYet, verdictP, cutShort,
                   owed>>

\* Teardown's last lines and exitVerdict.
ExitVerdict ==
    IF exitWait = "killed" THEN "error"
    ELSE IF setupErr # "none" THEN IF tornErr THEN "error" ELSE "nil"
    ELSE IF exitStatus = "clean" THEN "nil" ELSE "error"

TeardownReturns ==
    /\ exitWait \in {"killed", "exited"} /\ over /\ verdictP = "none" /\ verdictP' = ExitVerdict
    /\ keepAllBut
    /\ UNCHANGED <<readerVars, waiter, armed, releaseVars, exitWait, deadline, reportedYet, cutShort,
                   owed>>

------------------------------------------------------------------------------
\* Time passes once everything that can be acted upon at once has been.
Passes ==
    /\ now < Horizon /\ verdictP = "none" /\ now' = now + 1
    /\ wire = <<>> /\ ~(Waiting /\ budgetSeen) /\ ~(waiter = "setup" /\ doneSeen)
    /\ exitWait = "asked" => ~teardownSeen /\ (doneSeen => reportedYet)
    /\ UNCHANGED <<processVars, wire, readerVars, over, flat, callerVars>>

ProtocolNext ==
    \/ \E f \in ProtoKeys :
          \/ \E b \in SetupLasts[f] : SetupBegins(f, b)
          \/ \E how \in {"up", "failed"} : SetupEndsAs(f, how)
    \/ \E how \in {"clean", "torn", "other"} : ProcessExits(how)
    \/ UpFrontDone \/ ReleaseServed \/ TeardownBegins \/ ReadLine \/ StreamOver
    \/ Follow \/ SetupReturns \/ WaitCancelled \/ Expires \/ StartCommand \/ ReleaseCommand \/ ReleaseGivenUp
    \/ AskToExit \/ AwaitReport \/ AwaitKills \/ AwaitDone \/ TeardownReturns \/ Passes

ProtocolSpec == ProtocolInit /\ [][ProtocolNext]_protoVars

------------------------------------------------------------------------------
\* A wait is given up only for a setup that overran: when it follows the
\* fixtures' budgets, every fixture whose setup began earlier has had its own,
\* and one without a budget is waited for; a process is killed only when it has
\* had every budget it was given, counted from when it was, or all that lives in
\* it had one as a release that was given up; and a teardown is
\* judged passed only on a clean exit, or beside a setup that failed
\* (WaitSetup, sharedfixture.go:179; awaitExit, :338; exitVerdict, :733).
BudgetsAreHonoured ==
    /\ ~cutShort
    /\ exitWait = "killed" => owed <= now
    /\ verdictP = "nil" => exitWait # "killed" /\ (exitStatus = "clean" \/ setupErr # "none")
=============================================================================
