--------------------------- MODULE EditorDiscovery ---------------------------
(***************************************************************************)
(* The editor extension's discovery: the requests that file changes and    *)
(* commands make (DiscoveryService), the CLI scans that answer them, what  *)
(* the cache keeps of an answer (DiscoveryCache.update) and the snapshot   *)
(* of the tree on disk (DiscoverySnapshotStore).  A package's content is   *)
(* the number of its edits; an edit may break it.  With the runs           *)
(* (EditorRun) and the watcher (EditorWatch), whose state it does not      *)
(* share, it states at its end what the editor shows.                      *)
(***************************************************************************)
EXTENDS EditorProcs, EditorRun, EditorWatch

CONSTANTS Folders,        \* the workspace folders
          FolderPackages, \* each folder's packages
          MaxChanges,     \* bound: the edits of a package
          MaxRefreshes,   \* bound: the refresh commands
          MaxAttempts     \* DiscoveryService.MAX_RETRIES

\* A package is in one workspace folder: nested ones are not modelled.
ASSUME FoldersAssumption ==
    \A v, w \in Folders : v # w => FolderPackages[v] \cap FolderPackages[w] = {}

EditorPackages == UNION {FolderPackages[w] : w \in Folders}
FolderOf(p) == CHOOSE w \in Folders : p \in FolderPackages[w]

VARIABLES
    edits,      \* each package's content: the number of its edits
    breaks,     \* the packages whose last edit does not build
    refreshes,  \* the refresh commands so far
    scan,       \* the request under way: {} or {[folder, scope, attempt, looked, read]}
    pendingReqs,\* DiscoveryService.pending: a sequence of [folder, scope]
    asked,      \* each folder's last request: its scope
    cacheOf,    \* the cache: each package's content its suites were read from
    badge,      \* the packages the cache marks broken
    gaveUp,     \* the folders whose last scan failed
    toWrite,    \* the folders with a snapshot to write
    snapshot    \* each package's entry of the snapshot on disk

discoveryVars == <<edits, breaks, refreshes, scan, pendingReqs, asked, cacheOf, badge, gaveUp,
                   toWrite, snapshot>>

DiscoveryIn(bound) ==
    /\ edits = [p \in EditorPackages |-> bound] /\ breaks = {}
    /\ refreshes = IF bound = 0 THEN 0 ELSE MaxRefreshes
    /\ scan = {} /\ pendingReqs = <<>>
    /\ asked = [w \in Folders |-> {}]
    /\ cacheOf = edits /\ badge = {} /\ gaveUp = {}
    /\ toWrite = {} /\ snapshot = edits

DiscoveryInit == DiscoveryIn(0)

\* A scan reads its packages when the CLI gets to them, not when it is asked.
NotRead == [p \in {} |-> 0]
Start(w, scope) ==
    {[folder |-> w, scope |-> scope, attempt |-> 1, looked |-> FALSE, read |-> NotRead]}

------------------------------------------------------------------------------
\* The request that waits keeps its place, and the newer one is dropped.
Discover_KeepsOlder(w, scope) ==
    /\ asked' = [asked EXCEPT ![w] = scope]
    /\ IF scan = {}
       THEN scan' = Start(w, scope) /\ UNCHANGED pendingReqs
       ELSE /\ pendingReqs' = IF \E i \in DOMAIN pendingReqs : pendingReqs[i].folder = w
                              THEN pendingReqs
                              ELSE Append(pendingReqs, [folder |-> w, scope |-> scope])
            /\ UNCHANGED scan

\* The waiting requests, but for the first that waits for the folder.
WithoutOne(w) ==
    LET waiting == {i \in DOMAIN pendingReqs : pendingReqs[i].folder = w}
        first == CHOOSE i \in waiting : \A j \in waiting : i <= j
    IN IF waiting = {} THEN pendingReqs
       ELSE SubSeq(pendingReqs, 1, first - 1) \o SubSeq(pendingReqs, first + 1, Len(pendingReqs))

\* discover: with a scan under way the request waits, in the place of one
\* that waits for the same folder.
Discover(w, scope) ==
    /\ asked' = [asked EXCEPT ![w] = scope]
    /\ IF scan = {}
       THEN scan' = Start(w, scope) /\ UNCHANGED pendingReqs
       ELSE /\ pendingReqs' = Append(WithoutOne(w), [folder |-> w, scope |-> scope])
            /\ UNCHANGED scan

\* onFileChange: a test file of a package is saved.
FileChange(p) ==
    /\ edits[p] < MaxChanges
    /\ edits' = [edits EXCEPT ![p] = @ + 1]
    /\ breaks' \in {breaks \ {p}, breaks \cup {p}}
    /\ Discover(FolderOf(p), {p})
    /\ UNCHANGED <<refreshes, cacheOf, badge, gaveUp, toWrite, snapshot>>

Refresh(w) ==
    /\ refreshes < MaxRefreshes /\ refreshes' = refreshes + 1
    /\ Discover(w, FolderPackages[w])
    /\ UNCHANGED <<edits, breaks, cacheOf, badge, gaveUp, toWrite, snapshot>>

\* The CLI reads the packages of its scope.
ScanReads(s) ==
    /\ s \in scan /\ s.looked /\ s.read = NotRead
    /\ scan' = {[s EXCEPT !.read = [p \in s.scope |-> <<edits[p], p \in breaks>>]]}
    /\ UNCHANGED <<edits, breaks, refreshes, pendingReqs, asked, cacheOf, badge, gaveUp, toWrite,
                   snapshot>>

\* The scan is over: the first request that waits is next.
NextScan ==
    IF pendingReqs = <<>> THEN scan' = {} /\ UNCHANGED pendingReqs
    ELSE /\ scan' = Start(pendingReqs[1].folder, pendingReqs[1].scope)
         /\ pendingReqs' = Tail(pendingReqs)

\* update: a package that does not build keeps the suites known of it and is
\* marked; the snapshot of the folder is to be written.
ScanAnswers(s) ==
    LET good == {p \in s.scope : ~s.read[p][2]} IN
    /\ s \in scan /\ s.read # NotRead
    /\ cacheOf' = [p \in EditorPackages |-> IF p \in good THEN s.read[p][1] ELSE cacheOf[p]]
    /\ badge' = (badge \ s.scope) \cup (s.scope \ good)
    /\ gaveUp' = gaveUp \ {s.folder}
    /\ toWrite' = toWrite \cup {s.folder}
    /\ NextScan
    /\ UNCHANGED <<edits, breaks, refreshes, asked, snapshot>>

\* Before each attempt: a request that waits for the same folder supersedes
\* this one.
ScanLooks(s) ==
    /\ s \in scan /\ ~s.looked
    /\ IF \E i \in DOMAIN pendingReqs : pendingReqs[i].folder = s.folder
       THEN NextScan
       ELSE scan' = {[s EXCEPT !.looked = TRUE]} /\ UNCHANGED pendingReqs
    /\ UNCHANGED <<edits, breaks, refreshes, asked, cacheOf, badge, gaveUp, toWrite, snapshot>>

\* A scan fails: it is tried again unless the failure is not one to retry or
\* the attempts are spent.
ScanFails(s, retryable) ==
    /\ s \in scan /\ s.looked
    /\ IF retryable /\ s.attempt < MaxAttempts
       THEN /\ scan' = {[s EXCEPT !.attempt = @ + 1, !.looked = FALSE, !.read = NotRead]}
            /\ UNCHANGED <<pendingReqs, gaveUp>>
       ELSE NextScan /\ gaveUp' = gaveUp \cup {s.folder}
    /\ UNCHANGED <<edits, breaks, refreshes, asked, cacheOf, badge, toWrite, snapshot>>

\* The debounce is over: the folder's tree, as it is by now, is written.
WriteSnapshot(w) ==
    /\ w \in toWrite
    /\ toWrite' = toWrite \ {w}
    /\ snapshot' = [p \in EditorPackages |-> IF p \in FolderPackages[w] THEN cacheOf[p]
                                             ELSE snapshot[p]]
    /\ UNCHANGED <<edits, breaks, refreshes, scan, pendingReqs, asked, cacheOf, badge, gaveUp>>

DiscoveryNext ==
    \/ \E p \in EditorPackages : FileChange(p)
    \/ \E w \in Folders : Refresh(w) \/ WriteSnapshot(w)
    \/ \E s \in scan : ScanLooks(s) \/ ScanReads(s) \/ ScanAnswers(s)
                       \/ \E retryable \in BOOLEAN : ScanFails(s, retryable)

DiscoverySpec == DiscoveryInit /\ [][DiscoveryNext]_discoveryVars

------------------------------------------------------------------------------
Idle == scan = {} /\ pendingReqs = <<>>
Shows(p) == cacheOf[p] = edits[p] \/ (p \in breaks /\ p \in badge)

\* Once discovery is idle, what the last request of a folder asked for is in
\* the cache as it was no earlier than the request, and the tree on disk is
\* the cache's; a package that does not build is marked and keeps its suites.
LastRequestServed ==
    /\ Idle => \A w \in Folders \ gaveUp : \A p \in asked[w] : Shows(p)
    /\ toWrite = {} => snapshot = cacheOf

\* The editor shows what the command line said, of the last state asked for: a
\* run that exited with an error shows a failure and a clean one none
\* (runner.ts), a watcher's events are put on the cycle they belong to
\* (watch.ts:101), a discovery asked for during another one is served by a later
\* one (discovery.ts:192), and a package saved during its coverage run is
\* measured again (coverOnSave.ts).  And what it stops is its own
\* (processRegistry.ts:123).
EditorIsTrue ==
    RunIsTold /\ EventsToTheirCycle /\ SaveIsMeasured /\ LastRequestServed /\ OnlyOwnAreSignalled
=============================================================================
