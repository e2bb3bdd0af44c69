------------------------------ MODULE EditorCli ------------------------------
(***************************************************************************)
(* Which gotest CLI the editor extension runs in a folder, and the upgrade *)
(* of a project whose go.mod pins one below the floor: buildCliCommand,    *)
(* the upgrade dialog, planUpgrade and the go get of each pinning module   *)
(* (vscode-gotest/src/cli.ts).  A release is its number; a go line is      *)
(* <<minor, tier, number>> with the tiers of compareGoVersions: -1 bare,   *)
(* 2 rc, 3 patch.  With the registry of child processes (EditorProcs),     *)
(* whose state it does not share, it states what the editor keeps.         *)
(***************************************************************************)
EXTENDS EditorProcs, Integers, Sequences

CONSTANTS CliModules,    \* the folder's modules
          Releases,      \* the published releases, numbers
          ReleaseLine,   \* the go line each declares
          CliFloor,      \* MIN_CLI_VERSION
          ModuleLines,   \* the go lines a module may declare
          MaxFloorHits   \* bound: the commands built

\* The modules of a folder and the releases are finitely many.
ASSUME CliAssumption ==
    /\ IsFiniteSet(CliModules)
    /\ Releases \subseteq Nat /\ \E top \in Releases : Releases \subseteq 1..top
    /\ ReleaseLine \in [Releases -> Int \X Int \X Int]

NoPin == 0
NoPlan == <<>>

VARIABLES
    pin,           \* each module's pinned release, or NoPin
    goLine,        \* each module's go line
    tool,          \* the modules that declare the tool
    replaced,      \* whether a module replaces gotest by a directory
    cliPath,       \* the version of the cliPath binary: 0 none, or -1 unreadable
    upgradeState,  \* "idle", "asking", "upgrading"
    warned,        \* versionWarningShown
    pinnedDirs,    \* the pinning modules the open dialog is about
    plan,          \* the upgrades still to run: <<module, release>>
    looking,       \* whether the release lookup runs
    getting,       \* the modules a go get runs in
    command,       \* the command built last: <<how, version>>
    hitsLeft       \* bound: how many more commands are built

cliVars == <<pin, goLine, tool, replaced, cliPath, upgradeState, warned, pinnedDirs, plan,
             looking, getting, command, hitsLeft>>
projectVars == <<pin, goLine, tool, replaced, cliPath>>

ProjectIn(hitsNow) ==
    /\ goLine \in [CliModules -> ModuleLines]
    /\ pin \in [CliModules -> {NoPin} \cup Releases]
    /\ tool \in SUBSET {m \in CliModules : pin[m] # NoPin}
    /\ replaced \in BOOLEAN /\ cliPath \in {-1, 0} \cup Releases
    /\ upgradeState = "idle" /\ warned = FALSE /\ pinnedDirs = {} /\ plan = NoPlan
    /\ looking = FALSE /\ getting = {} /\ command = <<"none", 0>> /\ hitsLeft = hitsNow

EditorCliInit == ProjectIn(MaxFloorHits)

------------------------------------------------------------------------------
\* compareGoVersions: the keys, place by place.
GoLess(a, b) ==
    \E i \in DOMAIN a : a[i] < b[i] /\ \A j \in 1..(i - 1) : a[j] = b[j]

\* goLineFits: no newer than the module's, or the .0 of its language version.
GoLineFits(release, module) ==
    \/ ~GoLess(module, release)
    \/ module[2] < 3 /\ release = <<module[1], 3, 0>>

\* The newest release, whatever its go line.
Fit_Newest(line, resolved) == resolved

Fit(line, resolved) == {r \in resolved : GoLineFits(ReleaseLine[r], line)}

Newest(rs) == CHOOSE r \in rs : \A q \in rs : q <= r

\* goReleaseQuery: what go list answers of the releases at or above the floor;
\* one it cannot resolve is skipped, and a timeout or an abort leaves none.
ReleaseAnswers == SUBSET {r \in Releases : r >= CliFloor}

\* planUpgrade: each module's newest fitting release at or above the floor,
\* of those the lookup could resolve; a module without one is blocked.
PlanUpgrade(dirs, resolved) ==
    {<<m, Newest(Fit(goLine[m], resolved))>> : m \in {d \in dirs : Fit(goLine[d], resolved) # {}}}

Highest == CHOOSE v \in {NoPin} \cup {pin[m] : m \in CliModules} :
              \A m \in CliModules : pin[m] <= v
Pinning == {m \in CliModules : pin[m] # NoPin}

\* The chain of buildCliCommand: what runs, with the version it is known by.
Choice ==
    IF cliPath >= CliFloor THEN <<"override", cliPath>>
    ELSE IF tool # {} /\ (replaced \/ Highest >= CliFloor)
    THEN <<"tool", IF replaced THEN -1 ELSE Highest>>
    ELSE IF replaced THEN <<"run", -1>>
    ELSE IF Highest >= CliFloor THEN <<"pinned", Highest>>
    ELSE IF Highest # NoPin THEN <<"refused", Highest>>
    ELSE <<"latest", Newest(Releases)>>

\* showUpgradeDialog: one dialog, and none while an upgrade runs.
ShowUpgradeDialog ==
    IF upgradeState = "idle"
    THEN upgradeState' = "asking" /\ pinnedDirs' = Pinning
    ELSE UNCHANGED <<upgradeState, pinnedDirs>>

\* buildCliCommand; the dialog opens once by itself, and again for an action
\* of the user that failed (offerCliUpgrade).
BuildCliCommand(byUser) ==
    /\ hitsLeft > 0 /\ hitsLeft' = hitsLeft - 1
    /\ command' = Choice
    /\ IF Choice[1] = "refused"
       THEN /\ warned' = TRUE
            /\ IF ~warned \/ byUser THEN ShowUpgradeDialog
               ELSE UNCHANGED <<upgradeState, pinnedDirs>>
       ELSE UNCHANGED <<warned, upgradeState, pinnedDirs>>
    /\ UNCHANGED <<projectVars, plan, looking, getting>>

\* clearBinaryCache, on a binary that is gone: the warning may come again.
ClearBinaryCache ==
    /\ warned /\ warned' = FALSE
    /\ UNCHANGED <<projectVars, upgradeState, pinnedDirs, plan, looking, getting, command, hitsLeft>>

Answer(upgrade) ==
    /\ upgradeState = "asking"
    /\ upgradeState' = IF upgrade THEN "upgrading" ELSE "idle"
    /\ looking' = upgrade
    /\ UNCHANGED <<projectVars, warned, pinnedDirs, plan, getting, command, hitsLeft>>

\* lookUpUpgrade: the releases at or above the floor that go list resolves, or
\* nothing: the lookup fails or is cancelled and go.mod stays as it is.
LookUp(resolved) ==
    LET todo == PlanUpgrade(pinnedDirs, resolved) IN
    /\ looking /\ looking' = FALSE
    /\ \E order \in {s \in [1..Cardinality(todo) -> todo] : {s[i] : i \in DOMAIN s} = todo} :
          plan' = order
    /\ upgradeState' = IF todo = {} THEN "idle" ELSE "upgrading"
    /\ UNCHANGED <<projectVars, warned, pinnedDirs, getting, command, hitsLeft>>

\* The user edits a go.mod while the dialog is open: another pin, another Go.
EditGoMod(m, v, line) ==
    /\ upgradeState = "asking" /\ hitsLeft > 0 /\ hitsLeft' = hitsLeft - 1
    /\ pin' = [pin EXCEPT ![m] = v] /\ goLine' = [goLine EXCEPT ![m] = line]
    /\ ~GoLess(line, ReleaseLine[v])
    /\ UNCHANGED <<tool, replaced, cliPath, upgradeState, warned, pinnedDirs, plan, looking,
                   getting, command>>

\* One go get -tool after the other, in the plan's order; one that fails ends
\* the upgrade.
GoGetStarts ==
    /\ upgradeState = "upgrading" /\ ~looking /\ getting = {} /\ plan # NoPlan
    /\ getting' = {plan[1][1]}
    /\ UNCHANGED <<projectVars, upgradeState, warned, pinnedDirs, plan, looking, command, hitsLeft>>

\* go get raises the go line to the release's when it is lower.
GoGetEnds(ok) ==
    LET m == plan[1][1]  r == plan[1][2]  remaining == IF ok THEN Tail(plan) ELSE NoPlan IN
    /\ plan # NoPlan /\ getting = {m} /\ getting' = {}
    /\ IF ok
       THEN /\ pin' = [pin EXCEPT ![m] = r] /\ tool' = tool \cup {m}
            /\ goLine' = [goLine EXCEPT ![m] = IF GoLess(@, ReleaseLine[r]) THEN ReleaseLine[r] ELSE @]
       ELSE UNCHANGED <<pin, tool, goLine>>
    /\ plan' = remaining
    /\ upgradeState' = IF remaining = NoPlan THEN "idle" ELSE "upgrading"
    /\ UNCHANGED <<replaced, cliPath, warned, pinnedDirs, looking, command, hitsLeft>>

EditorCliNext ==
    \/ \E byUser \in BOOLEAN : BuildCliCommand(byUser)
    \/ \E upgrade \in BOOLEAN : Answer(upgrade)
    \/ \E resolved \in ReleaseAnswers : LookUp(resolved)
    \/ \E m \in CliModules, v \in Releases, line \in ModuleLines : EditGoMod(m, v, line)
    \/ ClearBinaryCache \/ GoGetStarts
    \/ \E ok \in BOOLEAN : GoGetEnds(ok)

EditorCliSpec == EditorCliInit /\ [][EditorCliNext]_cliVars

------------------------------------------------------------------------------
\* An upgrade moves no module to a newer Go: its language version stays, and
\* its pin is at or above the floor.
UpgradeStep ==
    \A m \in CliModules :
        m \in getting /\ pin'[m] # pin[m] =>
            goLine'[m][1] = goLine[m][1] /\ pin'[m] >= CliFloor
UpgradeKeepsGo == [][UpgradeStep]_cliVars

\* The editor keeps what its records promise: a child whose host died stays on
\* disk until it is gone (processRegistry.ts), and an upgrade moves no module to
\* a newer Go nor below the oldest command line it accepts (cliUpgrade.ts).
EditorKeepsRecords == OrphansStayOnRecord /\ UpgradeKeepsGo
=============================================================================
