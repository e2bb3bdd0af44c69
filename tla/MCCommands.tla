----------------------------- MODULE MCCommands -----------------------------
(***************************************************************************)
(* Model checking of the commands beside the run: lint -fix (the passes,   *)
(* and what is written when a signal comes), the mutation drill, its       *)
(* scratch directory and its shards, watch, and the work directories of    *)
(* several runs and of prepare.  Each behaviour runs one of them; the      *)
(* others stay in a state in which nothing is left to do.                  *)
(***************************************************************************)
EXTENDS LintFix, WatchLoop, WorkDirs, TLC

VARIABLE command   \* the command this behaviour runs

commandVars ==
    <<lintVars, fixVars, drillVars, scratchVars, watchVars, dirVars, shardVars, command>>

MCImports == (1 :> {}) @@ (2 :> {1}) @@ (3 :> {2})
MCHome == <<1, 2, 3, 3>>
MCWays ==
    {(1 :> first) @@ (2 :> [writer |-> "current", place |-> p, does |-> "run"]) :
        first \in [writer : {"current"}, place : {"here", "away", "unreadable"}, does : {"run", "debug", "prepare"}]
            \cup [writer : {"earlierOverlay", "earlierWork"}, place : {"here", "away"}, does : {"run"}],
        p \in {"here", "unreadable"}}

\* What the planner prints for the mutants, and what of it is cut off, doubled,
\* or refused by it.
MCPlan == <<<<"mutant", 1, "shared">>, <<"run", 1, "-">>, <<"mutant", 2, "alone">>, <<"run", 2, "-">>,
            <<"mutant", 3, "shared">>, <<"run", 3, "a">>, <<"run", 3, "b">>>>
MCPlanTexts ==
    {SubSeq(MCPlan, 1, n) : n \in {5, 6, 7}}
        \cup {Append(MCPlan, line) : line \in {<<"mutant", 3, "alone">>, <<"bad", 3, "-">>, <<"run", 4, "-">>}}
MCShardWays == {<<1, 1>>, <<1, 2>>, <<2, 2>>}
MCTimings == {<<>>, (1 :> 60) @@ (3 :> 10)}

LintOff == ShutdownIn("forced") /\ LintIn("over") /\ agree /\ \A n \in Changes : target[n] = n
FixOff ==
    /\ FixIn("failed") /\ clash = {} /\ broken = {} /\ refusing = {}
    /\ fixKey = [f \in Fixes |-> f] /\ \A f \in Fixes : after[f] = 0
DrillOff ==
    /\ DrillIn("over")
    /\ \A m \in Mutants : modes[m] = "alone" /\ prefers[m] = 1
\* A queue is in the order of its mutants; how those of two queues are numbered
\* is of no account.
QueueOf(m) == IF modes[m] = "alone" THEN NSlots + 1 ELSE prefers[m]
NumberedByQueue == \A m, n \in Mutants : m < n => QueueOf(m) <= QueueOf(n)

ScratchOff == ScratchIn("out") /\ lockAtPath = 0
WatchOff == WatchIn("over")
DirsOff ==
    /\ DirsIn("over")
    /\ way = [r \in DirRuns |-> [writer |-> "current", place |-> "here", does |-> "run"]]

MCCommandsInit ==
    /\ command \in {"lint", "fix", "drill", "scratch", "watch", "dirs", "shards"}
    /\ IF command = "lint" THEN LintInit ELSE LintOff
    /\ IF command = "fix" THEN FixInit ELSE FixOff
    /\ IF command = "drill" THEN DrillInit /\ NumberedByQueue ELSE DrillOff
    /\ IF command = "scratch" THEN ScratchInit ELSE ScratchOff
    /\ IF command = "watch" THEN WatchInit ELSE WatchOff
    /\ IF command = "dirs" THEN DirsInit ELSE DirsOff
    /\ ShardsIn(IF command = "shards" THEN "start" ELSE "over")

\* What belongs to no part of this behaviour stays as it is.
Keep ==
    /\ IF command # "lint" THEN UNCHANGED lintVars ELSE TRUE
    /\ IF command # "fix" THEN UNCHANGED fixVars ELSE TRUE
    /\ IF command # "drill" THEN UNCHANGED drillVars ELSE TRUE
    /\ IF command # "scratch" THEN UNCHANGED scratchVars ELSE TRUE
    /\ IF command # "watch" THEN UNCHANGED watchVars ELSE TRUE
    /\ IF command # "dirs" THEN UNCHANGED dirVars ELSE TRUE
    /\ IF command # "shards" THEN UNCHANGED shardVars ELSE TRUE

MCCommandsNext ==
    /\ UNCHANGED command
    /\ Keep
    /\ \/ command = "lint" /\ LintNext
       \/ command = "fix" /\ FixNext
       \/ command = "drill" /\ DrillNext
       \/ command = "scratch" /\ ScratchNext
       \/ command = "watch" /\ WatchNext
       \/ command = "dirs" /\ DirsNext
       \/ command = "shards" /\ ShardsNext

MCCommandsSpec ==
    /\ MCCommandsInit /\ [][MCCommandsNext]_commandVars
    /\ DrillFairness /\ WatchFairness
=============================================================================
