----------------------------- MODULE EditorRun ------------------------------
(***************************************************************************)
(* The editor extension's test runs: TestRunner.run (a new request cancels *)
(* the run before and waits for it), executeBatch (one CLI process, its    *)
(* event stream and its exit code put on the test tree), RunRegistry's     *)
(* records, and CoverOnSave.  Each package has one test; VS Code keeps the *)
(* graver of two verdicts given to an item in one run.  Bound: a request   *)
(* comes only while no other one waits for the run before (see README).    *)
(***************************************************************************)
EXTENDS Naturals, FiniteSets

CONSTANTS RunRequests,   \* the user's requests, a set of numbers
          TreePackages,  \* the packages in the tree
          MaxSaves       \* bound: the saves of a package

NoRequest == 0

ASSUME RequestsAssumption == NoRequest \notin RunRequests /\ MaxSaves \in Nat

Tests == {<<p, "test">> : p \in TreePackages}
Items == Tests \cup {<<p, "package">> : p \in TreePackages}
Package(p) == <<p, "package">>
TestOf(p) == <<p, "test">>

VARIABLES
    reqState,     \* each request: "no", "waits", "runs", "over", "off"
    activeRun,    \* TestRunner.activeRun
    activeRecord, \* TestRunner.activeRecordId
    record,       \* each request's RunRecord status, or "none"
    canceled,     \* the requests whose token is cancelled
    known,        \* the packages the discovery cache still has
    pickedIn,     \* the packages of which this run selects the test only (filtered)
    batches,      \* the batches still to run, sets of packages
    batch,        \* the batch whose CLI runs, {} when none
    streamed,     \* the packages with a terminal event in the batch
    failing,      \* the packages the batch's stream carried a failing verdict of
    latest,       \* the request whose run began last
    shown,        \* what the tree shows for each item in this run
    result,       \* the controller's recorded results
    exitsBad,     \* whether a CLI process of this run exited with an error
    \* CoverOnSave
    saved,        \* each package's saves
    coveredAt,    \* the save each package's last coverage run began at, measured or failed
    coverQueue,   \* the packages queued for a coverage run (pendingPackages)
    covering      \* <<package, its saves when the run began>>, or {}

runnerVars == <<reqState, activeRun, activeRecord, record, canceled, known, pickedIn, batches,
                batch, streamed, failing, latest, shown, result, exitsBad>>
coverVars == <<saved, coveredAt, coverQueue, covering>>
editorRunVars == <<runnerVars, coverVars>>

EditorRunIn(first, saves) ==
    /\ reqState = [r \in RunRequests |-> first]
    /\ activeRun = NoRequest /\ activeRecord = NoRequest
    /\ record = [r \in RunRequests |-> "none"] /\ canceled = {}
    /\ known = TreePackages /\ pickedIn = {} /\ batches = {} /\ batch = {} /\ streamed = {}
    /\ failing = {} /\ latest = NoRequest /\ exitsBad = FALSE
    /\ shown = [i \in Items |-> "unset"] /\ result = [i \in Items |-> "none"]
    /\ saved = [p \in TreePackages |-> saves]
    /\ coveredAt = saved /\ coverQueue = {} /\ covering = {}

\* Runs and coverage on save share no state: a behaviour has one of them.
EditorRunInit == EditorRunIn("no", MaxSaves) \/ EditorRunIn("off", 0)

------------------------------------------------------------------------------
\* VS Code's TestRun: an item goes from one verdict to a graver one only.
Graver(old, new) ==
    LET prio == [unset |-> 0, started |-> 0, passed |-> 1, skipped |-> 2, failed |-> 3,
                 errored |-> 4]
    IN prio[new] >= prio[old]
Show(tree, i, verdict) == IF Graver(tree[i], verdict) THEN [tree EXCEPT ![i] = verdict] ELSE tree
ShowAll(tree, is, verdict) ==
    [i \in Items |-> IF i \in is /\ Graver(tree[i], verdict) THEN verdict ELSE tree[i]]

\* A request: with a run active, that run is cancelled, its record settled,
\* and the request waits for its end.
Request(r) ==
    /\ reqState[r] = "no" /\ \A q \in RunRequests : reqState[q] # "waits"
    /\ reqState' = [reqState EXCEPT ![r] = "waits"]
    /\ IF activeRun = NoRequest THEN UNCHANGED <<canceled, record, activeRecord>>
       ELSE /\ canceled' = canceled \cup {activeRun}
            /\ record' = IF activeRecord = NoRequest THEN record
                         ELSE [record EXCEPT ![activeRecord] = "cancelled"]
            /\ activeRecord' = NoRequest
    /\ UNCHANGED <<activeRun, known, pickedIn, batches, batch, streamed, failing, shown, result,
                   exitsBad, latest, coverVars>>

\* groupByPackage: the packages selected whole share one CLI process, one of
\* which single tests are selected gets a process of its own.
Batches(valid, filtered) ==
    {{p} : p \in filtered \cap valid}
        \cup (IF valid \subseteq filtered THEN {} ELSE {valid \ filtered})

\* The run begins: the items are cleared and started, the packages the cache
\* lost are errored, the unfiltered ones share a batch, the filtered ones get
\* one each.
RunBegins(r, lost, filtered) ==
    LET valid == TreePackages \ lost IN
    /\ reqState[r] = "waits" /\ \A q \in RunRequests : reqState[q] # "runs"
    /\ reqState' = [reqState EXCEPT ![r] = "runs"]
    /\ activeRun' = r /\ activeRecord' = r /\ latest' = r
    /\ record' = [record EXCEPT ![r] = "running"]
    /\ known' = valid /\ pickedIn' = filtered
    /\ batches' = Batches(valid, filtered)
    /\ batch' = {} /\ streamed' = {} /\ failing' = {} /\ exitsBad' = FALSE
    /\ shown' = [i \in Items |-> IF i[1] \in lost /\ (i[2] = "package") = (i[1] \notin filtered)
                                 THEN "errored" ELSE "started"]
    /\ result' = [i \in Items |-> "none"]
    /\ UNCHANGED <<canceled, coverVars>>

Stop(r) ==
    /\ reqState[r] = "runs" /\ r \notin canceled
    /\ canceled' = canceled \cup {r}
    /\ UNCHANGED <<reqState, activeRun, activeRecord, record, known, pickedIn, batches, batch,
                   streamed, failing, shown, result, exitsBad, latest, coverVars>>

Selected(p) == IF p \in pickedIn THEN TestOf(p) ELSE Package(p)

\* The next batch: a cancelled run skips its items, a CLI that cannot be built
\* or spawned errors them, otherwise the process runs.
NextBatch(r, b) ==
    /\ reqState[r] = "runs" /\ batch = {} /\ b \in batches
    /\ batches' = batches \ {b}
    /\ \/ r \in canceled /\ shown' = ShowAll(shown, {Selected(p) : p \in b}, "skipped")
          /\ UNCHANGED <<batch, exitsBad>>
       \/ r \notin canceled /\ batch' = b /\ UNCHANGED <<shown, exitsBad>>
       \/ r \notin canceled /\ exitsBad' = TRUE /\ UNCHANGED batch
          /\ shown' = ShowAll(ShowAll(shown, {Selected(p) : p \in b}, "errored"),
                              {TestOf(p) : p \in b \ pickedIn}, "skipped")
    /\ streamed' = {} /\ failing' = {}
    /\ UNCHANGED <<reqState, activeRun, activeRecord, record, canceled, known, pickedIn, result,
                   latest, coverVars>>

\* applyEvent: a verdict of the stream goes to its item; a test the tree does
\* not have is passed over, its failure noted all the same.
StreamTest(p, verdict, inTree) ==
    /\ p \in batch \ streamed /\ result[TestOf(p)] = "none"
    /\ failing' = IF verdict = "failed" THEN failing \cup {p} ELSE failing
    /\ IF inTree
       THEN /\ shown' = Show(shown, TestOf(p), verdict)
            /\ result' = [result EXCEPT ![TestOf(p)] = verdict]
       ELSE UNCHANGED <<shown, result>>
    /\ UNCHANGED <<reqState, activeRun, activeRecord, record, canceled, known, pickedIn, batches,
                   batch, streamed, exitsBad, latest, coverVars>>

\* A package's verdict ends it: failed if a test of it failed.
StreamPackage(p, verdict) ==
    /\ p \in batch \ streamed
    /\ p \in failing => verdict = "failed"
    /\ streamed' = streamed \cup {p}
    /\ failing' = IF verdict = "failed" THEN failing \cup {p} ELSE failing
    /\ shown' = Show(shown, Package(p), verdict)
    /\ result' = [result EXCEPT ![Package(p)] = verdict]
    /\ UNCHANGED <<reqState, activeRun, activeRecord, record, canceled, known, pickedIn, batches,
                   batch, exitsBad, latest, coverVars>>

\* Only the packages without a verdict are errored.
Attributed_Unreported(unreported, bad, tree) ==
    IF ~bad THEN tree ELSE ShowAll(tree, {Selected(p) : p \in unreported}, "errored")

\* What the exit code says of the packages: those without a verdict are
\* errored; with every package reported and no failure streamed, all are.
Attributed(unreported, bad, tree) ==
    IF ~bad THEN tree
    ELSE IF unreported # {}
    THEN ShowAll(ShowAll(tree, {Selected(p) : p \in unreported}, "errored"),
                 {TestOf(p) : p \in {q \in unreported : result[TestOf(q)] = "none"} \ pickedIn},
                 "skipped")
    ELSE IF failing # {} THEN tree
    ELSE ShowAll(tree, {Package(p) : p \in batch}, "errored")

\* The CLI exits: with an error once a failure was streamed; a cancelled run
\* skips what has no verdict.  A CLI that was not cancelled and exits well has
\* reported every package.
BatchEnds(r, bad) ==
    /\ reqState[r] = "runs" /\ batch # {}
    /\ failing # {} => bad
    /\ r \in canceled \/ bad \/ batch \subseteq streamed
    /\ IF r \in canceled
       THEN /\ shown' = ShowAll(ShowAll(shown, {Selected(p) : p \in batch \ streamed}, "skipped"),
                                {TestOf(p) : p \in {q \in batch \ streamed :
                                                      result[TestOf(q)] = "none"}}, "skipped")
            /\ UNCHANGED exitsBad
       ELSE shown' = Attributed(batch \ streamed, bad, shown) /\ exitsBad' = (exitsBad \/ bad)
    /\ batch' = {}
    /\ UNCHANGED <<reqState, activeRun, activeRecord, record, canceled, known, pickedIn, batches,
                   streamed, failing, result, latest, coverVars>>

\* resolveItemRecursive: a package with a resolved test takes its verdict.
Resolved(tree) ==
    [i \in Items |->
        LET t == result[TestOf(i[1])]
            v == IF t = "failed" THEN "failed" ELSE "passed"
        IN IF i[2] = "package" /\ t # "none" /\ Graver(tree[i], v) THEN v ELSE tree[i]]

\* The batches over, the ancestors are resolved, what is unresolved is
\* skipped, and the finally settles the record if it is still this run's.
RunOver(r) ==
    /\ reqState[r] = "runs" /\ batch = {} /\ batches = {}
    /\ reqState' = [reqState EXCEPT ![r] = "over"]
    /\ shown' = ShowAll(Resolved(shown), {t \in Tests : result[t] = "none" /\ t[1] \notin pickedIn},
                        "skipped")
    /\ IF activeRecord = r
       THEN /\ record' = [record EXCEPT ![r] = IF r \in canceled THEN "cancelled" ELSE "completed"]
            /\ activeRecord' = NoRequest
       ELSE UNCHANGED <<record, activeRecord>>
    /\ activeRun' = IF activeRun = r THEN NoRequest ELSE activeRun
    /\ UNCHANGED <<canceled, known, pickedIn, batches, batch, streamed, failing, result, exitsBad,
                   latest, coverVars>>

------------------------------------------------------------------------------
\* CoverOnSave.run: a package already queued is not queued again.
Save(p) ==
    /\ saved[p] < MaxSaves
    /\ saved' = [saved EXCEPT ![p] = @ + 1] /\ coverQueue' = coverQueue \cup {p}
    /\ UNCHANGED <<runnerVars, coveredAt, covering>>

\* The package leaves the queue when its run ends, with the saves made since.
CoverEnds_Dequeues ==
    /\ \E c \in covering : /\ coveredAt' = [coveredAt EXCEPT ![c[1]] = c[2]]
                          /\ coverQueue' = coverQueue \ {c[1]}
    /\ covering' = {}
    /\ UNCHANGED <<runnerVars, saved>>

\* Its turn: off the queue before it runs, so a save from here on queues again.
CoverBegins(p) ==
    /\ covering = {} /\ p \in coverQueue
    /\ coverQueue' = coverQueue \ {p} /\ covering' = {<<p, saved[p]>>}
    /\ UNCHANGED <<runnerVars, saved, coveredAt>>

CoverEnds ==
    /\ \E c \in covering : coveredAt' = [coveredAt EXCEPT ![c[1]] = c[2]]
    /\ covering' = {}
    /\ UNCHANGED <<runnerVars, saved, coverQueue>>

EditorRunNext ==
    \/ \E r \in RunRequests :
          \/ Request(r) \/ Stop(r) \/ RunOver(r)
          \/ \E lost, filtered \in SUBSET TreePackages : RunBegins(r, lost, filtered)
          \/ \E b \in batches : NextBatch(r, b)
          \/ \E bad \in BOOLEAN : BatchEnds(r, bad)
    \/ \E p \in TreePackages, verdict \in {"passed", "skipped", "failed"} :
          (\E inTree \in BOOLEAN : StreamTest(p, verdict, inTree)) \/ StreamPackage(p, verdict)
    \/ \E p \in TreePackages : Save(p) \/ CoverBegins(p)
    \/ CoverEnds

EditorRunSpec == EditorRunInit /\ [][EditorRunNext]_editorRunVars

------------------------------------------------------------------------------
\* A run the CLI failed never ends with a green tree, whatever the stream
\* carried, and one it passed shows no error; a record is settled with its run,
\* as cancelled exactly when the run was.
RunIsTold ==
    \A r \in RunRequests : reqState[r] = "over" =>
        /\ record[r] = IF r \in canceled THEN "cancelled" ELSE "completed"
        /\ r = latest /\ r \notin canceled =>
              (exitsBad \/ known # TreePackages)
                  = (\E i \in Items : shown[i] \in {"failed", "errored"})

\* Once nothing is queued, a coverage run was begun after the last save of
\* every package: a save during a run of its package asks for another one.
SaveIsMeasured ==
    coverQueue = {} /\ covering = {} => coveredAt = saved
=============================================================================
