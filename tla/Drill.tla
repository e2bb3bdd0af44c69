-------------------------------- MODULE Drill --------------------------------
(***************************************************************************)
(* The mutation drill (internal/drill): one shard judges its mutants on    *)
(* worker slots.  A slot takes a mutant from its queue or from another's   *)
(* (slots.go), runs a worker for it under a supervisor (supervision_linux, *)
(* supervise_linux) and records the verdict; a stop, an error or a         *)
(* supervisor's death may come at any point.  Below it, the shards of one  *)
(* sharded run: what each selects (plan.go), and the check of what they    *)
(* wrote that opens a release.                                             *)
(***************************************************************************)
EXTENDS Naturals, Sequences, FiniteSets, SequencesExt

CONSTANTS
    Mutants,   \* the mutants of the shard, numbers in the order of the plan
    NSlots,    \* jobs
    ShardRuns, \* how many runs of the drill a gate reads the selections of
    ShardWays, \* what DRILL_SHARD may be: <<i, n>>
    Timings,   \* what DRILL_TIMINGS may hold: seconds of some mutants
    PlanTexts  \* what the planner may print: <<"mutant" or "run", name, mode or filter>>

ASSUME DrillAssumption ==
    /\ Mutants \subseteq Nat /\ IsFiniteSet(Mutants) /\ NSlots \in Nat \ {0}
    /\ ShardRuns \in Nat
    /\ \A way \in ShardWays : way[2] \in Nat /\ way[1] \in 1..way[2]
    /\ \A t \in Timings : \A m \in DOMAIN t : t[m] \in Nat

Slots == 1..NSlots

VARIABLES
    modes,      \* modes[m]: judged beside others, or alone
    prefers,    \* prefers[m]: the slot the name of m hashes to
    queues,     \* queues[s]: the mutants slot s has left
    slotState,  \* slotState[s]: unasked, busy or done
    slotStep,   \* where the goroutine of slot s is
    judging,    \* judging[s]: the mutant slot s took
    alive,      \* alive[s]: the mutants with processes in the tree of slot s
    sup,        \* sup[s]: the supervisor of slot s runs
    status,     \* status[s]: what the supervisor observed
    left,       \* left[s]: what an earlier mutant left in the slot's directory: its tree
                \* and gotest's cache for child runs, that cache alone, or nothing
    outcome,    \* outcome[s]: "none", "copied", or "caught" in the worker's result file
    slotErr,    \* the slots whose goroutine ended with an error
    accounted,  \* slots JudgeAll has heard of
    failure1,   \* JudgeAll has a failure
    drillStop,  \* Supervision.stopping
    verdicts,   \* verdicts[m]: "none", "caught" or "failed"
    drillPhase, \* bootstrap, shared, alone, clean or over
    drillExit   \* the exit code

drillVars == <<modes, prefers, queues, slotState, slotStep, judging, alive,
               sup, status, left, outcome, slotErr, accounted, failure1,
               drillStop, verdicts, drillPhase, drillExit>>

None == 0

SetToSeq1(S) == CHOOSE q \in [1..Cardinality(S) -> S] :
                    \A i, j \in 1..Cardinality(S) : i < j => q[i] < q[j]

DrillIn(phase) ==
    /\ modes \in [Mutants -> {"shared", "alone"}] /\ prefers \in [Mutants -> Slots]
    /\ \A m \in Mutants : modes[m] = "alone" => prefers[m] = 1   \* not read then
    /\ queues = [s \in Slots |-> <<>>] /\ slotState = [s \in Slots |-> "unasked"]
    /\ slotStep = [s \in Slots |-> "over"] /\ judging = [s \in Slots |-> None]
    /\ alive = [s \in Slots |-> {}] /\ sup = [s \in Slots |-> FALSE]
    /\ status = [s \in Slots |-> "none"] /\ left = [s \in Slots |-> "all"]
    /\ outcome = [s \in Slots |-> "none"]
    /\ slotErr = {} /\ accounted = 0 /\ failure1 = FALSE /\ drillStop = FALSE
    /\ verdicts = [m \in Mutants |-> "none"]
    /\ drillPhase = phase /\ drillExit = 9

DrillInit == DrillIn("bootstrap")

\* The slots of a phase; mutants judged alone have one.
Workers(phase) == IF phase = "shared" THEN Slots ELSE {1}

\* NewQueues: each mutant in the queue of the slot it prefers.
BeginPhase(phase) ==
    LET slot(m) == IF phase = "shared" THEN prefers[m] ELSE 1 IN
    /\ drillPhase' = phase /\ accounted' = 0
    /\ queues' = [s \in Slots |->
                    SetToSeq1({m \in Mutants : modes[m] = phase /\ slot(m) = s})]
    /\ slotState' = [s \in Slots |-> "unasked"]
    /\ slotStep' = [s \in Slots |-> IF s \in Workers(phase) THEN "loop" ELSE "over"]

\* The snapshot, the judge, the planner and the plan: through, or an error.
Bootstrap ==
    /\ drillPhase = "bootstrap"
    /\ \/ BeginPhase("shared") /\ UNCHANGED failure1
       \/ /\ drillPhase' = "clean" /\ failure1' = TRUE
          /\ UNCHANGED <<accounted, queues, slotState, slotStep>>
    /\ UNCHANGED <<modes, prefers, left, judging, alive, sup, status, outcome, slotErr,
                   drillStop, verdicts, drillExit>>

\* The goroutine of a slot ends; its deferred Done leaves its queue to others.
SlotEnds(s, err) ==
    /\ slotStep' = [slotStep EXCEPT ![s] = "over"]
    /\ slotState' = [slotState EXCEPT ![s] = "done"]
    /\ slotErr' = IF err THEN slotErr \cup {s} ELSE slotErr

Loop(s) ==
    /\ slotStep[s] = "loop"
    /\ \/ drillStop /\ SlotEnds(s, FALSE)
       \/ /\ ~drillStop /\ slotStep' = [slotStep EXCEPT ![s] = "asking"]
          /\ slotState' = [slotState EXCEPT ![s] = "unasked"] /\ UNCHANGED slotErr
    /\ UNCHANGED <<modes, prefers, left, queues, judging, alive, sup, status, outcome,
                   accounted, failure1, drillStop, verdicts, drillPhase, drillExit>>

Takes(s, m, from, rest) ==
    /\ queues' = [queues EXCEPT ![from] = rest]
    /\ slotState' = [slotState EXCEPT ![s] = "busy"]
    /\ slotStep' = [slotStep EXCEPT ![s] = "spawn"]
    /\ judging' = [judging EXCEPT ![s] = m]
    /\ UNCHANGED slotErr

\* Mutant: a slot with nothing of its own waits for every slot to ask.
Next_WaitsForAll(s) ==
    /\ slotStep[s] = "asking"
    /\ \/ queues[s] # <<>> /\ Takes(s, Head(queues[s]), s, Tail(queues[s]))
       \/ /\ \A t \in Slots : queues[t] = <<>>
          /\ SlotEnds(s, FALSE) /\ UNCHANGED <<queues, judging>>
    /\ UNCHANGED <<modes, prefers, left, alive, sup, status, outcome, accounted,
                   failure1, drillStop, verdicts, drillPhase, drillExit>>

\* Queues.Next: the slot's own, else the last of the queue of a slot that has
\* asked; none once all queues are empty; otherwise it waits.  Which queue has
\* the most seconds left is up to what the mutants took before: any may.
QueuesNext(s) ==
    /\ slotStep[s] = "asking"
    /\ \/ queues[s] # <<>> /\ Takes(s, Head(queues[s]), s, Tail(queues[s]))
       \/ /\ queues[s] = <<>>
          /\ \E from \in {t \in Slots : queues[t] # <<>> /\ slotState[t] # "unasked"} :
                Takes(s, Last(queues[from]), from, Front(queues[from]))
       \/ /\ \A t \in Slots : queues[t] = <<>>
          /\ SlotEnds(s, FALSE) /\ UNCHANGED <<queues, judging>>
    /\ UNCHANGED <<modes, prefers, left, alive, sup, status, outcome, accounted,
                   failure1, drillStop, verdicts, drillPhase, drillExit>>

\* Supervision.Run, up to the start of the supervisor and its worker: none
\* starts once the drill stops.
StartWorker(s) ==
    /\ slotStep[s] = "spawn"
    /\ \/ drillStop /\ SlotEnds(s, FALSE) /\ UNCHANGED <<alive, sup, status, outcome>>
       \/ SlotEnds(s, TRUE) /\ UNCHANGED <<alive, sup, status, outcome>>
       \/ /\ ~drillStop
          /\ slotStep' = [slotStep EXCEPT ![s] = "running"]
          /\ alive' = [alive EXCEPT ![s] = @ \cup {judging[s]}]
          /\ sup' = [sup EXCEPT ![s] = TRUE]
          /\ status' = [status EXCEPT ![s] = "none"]
          /\ outcome' = [outcome EXCEPT ![s] = "none"]
          /\ UNCHANGED <<slotState, slotErr>>
    /\ UNCHANGED <<modes, prefers, left, queues, judging, accounted, failure1,
                   drillStop, verdicts, drillPhase, drillExit>>

\* A worker removes the tree and the cache an earlier mutant left, but what still
\* runs writes them again, and copies the snapshot.  A tree that could not be
\* removed fails the copy, as a worker that takes no more steps; a cache that
\* could not is left there, and nothing says so.
WorkerCopies(s) ==
    /\ judging[s] \in alive[s] /\ outcome[s] = "none" /\ slotStep[s] = "running"
    /\ \E stays \in IF alive[s] = {judging[s]} THEN {"nothing", "cache"} ELSE {"all"} :
          left' = [left EXCEPT ![s] = stays]
    /\ outcome' = [outcome EXCEPT ![s] = "copied"]
    /\ UNCHANGED <<modes, prefers, queues, slotState, slotStep, judging, alive,
                   sup, status, slotErr, accounted, failure1, drillStop,
                   verdicts, drillPhase, drillExit>>

\* It applies the mutation, runs the judge, compares the log with what the patch
\* expects, and writes its verdict once; any other than caught counts as none
\* does, so a worker that does not get there is one that takes no more steps.
WorkerJudges(s) ==
    /\ judging[s] \in alive[s] /\ outcome[s] = "copied" /\ slotStep[s] = "running"
    /\ outcome' = [outcome EXCEPT ![s] = "caught"]
    /\ UNCHANGED <<modes, prefers, queues, slotState, slotStep, judging, alive,
                   sup, status, left, slotErr, accounted, failure1, drillStop,
                   verdicts, drillPhase, drillExit>>

\* supervise: the command exits, the deadline passes or a signal stops it;
\* then Clean kills what it left, or cannot.  Run returns.
Supervise(s) ==
    /\ sup[s] /\ sup' = [sup EXCEPT ![s] = FALSE]
    /\ slotStep' = [slotStep EXCEPT ![s] = "reaped"]
    /\ \E observed \in {"exit0", "failed"} :
         \/ /\ alive' = [alive EXCEPT ![s] = @ \ {judging[s]}]
            /\ status' = [status EXCEPT ![s] = observed]
         \/ status' = [status EXCEPT ![s] = "unclean"] /\ UNCHANGED alive
    /\ UNCHANGED <<modes, prefers, left, queues, slotState, judging, outcome, slotErr,
                   accounted, failure1, drillStop, verdicts, drillPhase, drillExit>>

\* The supervisor is killed: no status; what it ran is the drill's now.
SupervisorDies(s) ==
    /\ sup[s] /\ sup' = [sup EXCEPT ![s] = FALSE]
    /\ slotStep' = [slotStep EXCEPT ![s] = "reaped"]
    /\ UNCHANGED <<modes, prefers, left, queues, slotState, judging, alive, status,
                   outcome, slotErr, accounted, failure1, drillStop, verdicts,
                   drillPhase, drillExit>>

\* ReadResult: the result counts only if worker and supervisor ended cleanly.
ReadResult(s) ==
    IF status[s] = "exit0" /\ outcome[s] = "caught" THEN "caught" ELSE "failed"

Records(s) ==
    /\ verdicts' = [verdicts EXCEPT ![judging[s]] = ReadResult(s)]
    /\ slotStep' = [slotStep EXCEPT ![s] = "loop"]
    /\ judging' = [judging EXCEPT ![s] = None]
    /\ status' = [status EXCEPT ![s] = "none"]
    /\ outcome' = [outcome EXCEPT ![s] = "none"] /\ left' = [left EXCEPT ![s] = "all"]
    /\ UNCHANGED <<slotState, slotErr>>

\* Mutant: what a dead supervisor left is not killed.
Record_NoSweep(s) ==
    /\ slotStep[s] = "reaped" /\ Records(s)
    /\ UNCHANGED <<modes, prefers, queues, alive, sup, accounted, failure1,
                   drillStop, drillPhase, drillExit>>

\* record: after a supervisor that died or could not clean up, sweep kills
\* what no running supervisor owns; if that survives, nothing more starts.
Record(s) ==
    /\ slotStep[s] = "reaped"
    /\ \/ /\ status[s] \in {"exit0", "failed"}
          /\ Records(s) /\ UNCHANGED <<alive, drillStop>>
       \/ /\ status[s] \in {"none", "unclean"}
          /\ \/ /\ Records(s) /\ UNCHANGED drillStop
                /\ alive' = [t \in Slots |-> IF sup[t] THEN alive[t] ELSE {}]
             \/ Records(s) /\ drillStop' = TRUE /\ UNCHANGED alive
             \/ /\ SlotEnds(s, TRUE)
                /\ UNCHANGED <<verdicts, alive, drillStop, judging, status, outcome, left>>
    /\ UNCHANGED <<modes, prefers, queues, sup, accounted, failure1, drillPhase,
                   drillExit>>

\* JudgeAll hears of the slots in order; the first error stops the drill.
Account ==
    /\ drillPhase \in {"shared", "alone"} /\ accounted < Cardinality(Workers(drillPhase))
    /\ slotStep[accounted + 1] = "over"
    /\ accounted' = accounted + 1
    /\ IF accounted + 1 \in slotErr /\ ~failure1
         THEN failure1' = TRUE /\ drillStop' = TRUE
         ELSE UNCHANGED <<failure1, drillStop>>
    /\ UNCHANGED <<modes, prefers, left, queues, slotState, slotStep, judging, alive,
                   sup, status, outcome, slotErr, verdicts, drillPhase, drillExit>>

PhaseEnds ==
    /\ drillPhase \in {"shared", "alone"} /\ accounted = Cardinality(Workers(drillPhase))
    /\ IF drillPhase = "shared" /\ ~failure1 THEN BeginPhase("alone")
       ELSE drillPhase' = "clean" /\ UNCHANGED <<accounted, queues, slotState, slotStep>>
    /\ UNCHANGED <<modes, prefers, left, judging, alive, sup, status, outcome, slotErr,
                   failure1, drillStop, verdicts, drillExit>>

\* A stop signal from outside the drill.
StopSignal ==
    /\ drillPhase \in {"shared", "alone"} /\ ~drillStop /\ drillStop' = TRUE
    /\ UNCHANGED <<modes, prefers, left, queues, slotState, slotStep, judging, alive,
                   sup, status, outcome, slotErr, accounted, failure1, verdicts,
                   drillPhase, drillExit>>

\* The deferred Clean, and the exit code of runDrill.
DrillEnds ==
    /\ drillPhase = "clean" /\ drillPhase' = "over"
    /\ \/ /\ alive' = [s \in Slots |-> {}]
          /\ drillExit' = IF ~failure1 /\ ~drillStop /\ \A m \in Mutants : verdicts[m] = "caught"
                            THEN 0 ELSE 1
       \/ UNCHANGED alive /\ drillExit' = 1
    /\ UNCHANGED <<modes, prefers, left, queues, slotState, slotStep, judging, sup,
                   status, outcome, slotErr, accounted, failure1, drillStop, verdicts>>

SlotCode(s) == Loop(s) \/ QueuesNext(s) \/ StartWorker(s) \/ Record(s)

DrillNext ==
    \/ \E s \in Slots : SlotCode(s) \/ WorkerCopies(s) \/ WorkerJudges(s) \/ Supervise(s) \/ SupervisorDies(s)
    \/ Bootstrap \/ Account \/ PhaseEnds \/ StopSignal \/ DrillEnds
    \/ drillPhase = "over" /\ UNCHANGED drillVars

\* Goroutines are scheduled, and a supervisor's deadline passes.
DrillFairness ==
    /\ WF_drillVars(Bootstrap \/ Account \/ PhaseEnds \/ DrillEnds)
    /\ \A s \in Slots : WF_drillVars(SlotCode(s)) /\ WF_drillVars(Supervise(s))

DrillSpec == DrillInit /\ [][DrillNext]_drillVars /\ DrillFairness

-----------------------------------------------------------------------------
(* The shards of a run and their gate *)

VARIABLES
    shardRun,   \* runs of the drill so far
    selections, \* the selection files that reached the gate
    shardFails, \* a run did not exit 0
    gate        \* "none", "open", "closed"

shardVars == <<shardRun, selections, shardFails, gate>>

DefaultWeight == 30
SharedDivisor == 2

Weight(timing, m) == IF m \in DOMAIN timing THEN timing[m] ELSE DefaultWeight

\* The longest comes first, of two as long the one named first.
Sooner(timing, a, b) ==
    \/ Weight(timing, a) > Weight(timing, b)
    \/ (Weight(timing, a) = Weight(timing, b) /\ a < b)

\* Schedule deals the mutants one by one, each to the first shard with the least
\* load, in parts of a second.
Deal(mode, timing, plan) ==
    LET m == CHOOSE a \in plan.rest : \A b \in plan.rest \ {a} : Sooner(timing, a, b)
        cost == Weight(timing, m) * (IF mode[m] = "shared" THEN 1 ELSE SharedDivisor)
        lightest == {i \in DOMAIN plan.load : \A j \in DOMAIN plan.load : plan.load[i] <= plan.load[j]}
        shard == CHOOSE i \in lightest : \A j \in lightest : i <= j
    IN [rest |-> plan.rest \ {m},
        load |-> [plan.load EXCEPT ![shard] = @ + cost],
        buckets |-> [plan.buckets EXCEPT ![shard] = Append(@, m)]]

Schedule(mode, timing, n) ==
    LET dealt[k \in 0..Cardinality(Mutants)] ==
            IF k = 0 THEN [rest |-> Mutants, load |-> [i \in 1..n |-> 0], buckets |-> [i \in 1..n |-> <<>>]]
            ELSE Deal(mode, timing, dealt[k - 1])
    IN dealt[Cardinality(Mutants)].buckets

MutantLines(text, m) == {i \in DOMAIN text : text[i][1] = "mutant" /\ text[i][2] = m}

\* ReadPlan: a mode once for each mutant, at least one run, and nothing else.
PlanIsRead(text) ==
    /\ \A i \in DOMAIN text :
          /\ text[i][1] \in {"mutant", "run"} /\ text[i][2] \in Mutants
          /\ text[i][1] = "mutant" => /\ text[i][3] \in {"alone", "shared"}
                                     /\ MutantLines(text, text[i][2]) = {i}
    /\ \A m \in Mutants : /\ MutantLines(text, m) # {}
                          /\ \E i \in DOMAIN text : text[i][1] = "run" /\ text[i][2] = m

ModesOf(text) == [m \in Mutants |-> text[CHOOSE i \in MutantLines(text, m) : TRUE][3]]

\* judge, as the selection file keeps it
SelectionOf(way, timing, text) ==
    LET assignment == Schedule(ModesOf(text), timing, way[2])
    IN [shard |-> way[1], shards |-> way[2], assignment |-> assignment, selects |-> assignment[way[1]]]

\* CheckShards: what it finds wrong.
Disagree(files) == \E i \in DOMAIN files : files[i].shards # files[1].shards
                                         \/ files[i].assignment # files[1].assignment
NotOneEach(files) ==
    \/ Len(files) # files[1].shards
    \/ {files[i].shard : i \in DOMAIN files} # 1..files[1].shards
SelectsOthers(files) ==
    \E i \in DOMAIN files : LET f == files[i] IN
        f.shard \notin DOMAIN f.assignment \/ ToSet(f.selects) # ToSet(f.assignment[f.shard])
CheckShards(files) ==
    files # <<>> /\ ~Disagree(files) /\ ~NotOneEach(files) /\ ~SelectsOthers(files)

ShardsIn(where) ==
    /\ shardRun = (IF where = "over" THEN ShardRuns ELSE 0)
    /\ selections = <<>> /\ shardFails = FALSE
    /\ gate = (IF where = "over" THEN "closed" ELSE "none")

\* One run of the drill, on a runner with timings and a plan of its own; its
\* selection may not reach the gate.
RunShard ==
    /\ shardRun < ShardRuns /\ shardRun' = shardRun + 1
    /\ \E way \in ShardWays, timing \in Timings, text \in PlanTexts :
          \/ ~PlanIsRead(text) /\ shardFails' = TRUE /\ UNCHANGED selections
          \/ /\ PlanIsRead(text)
             /\ selections' \in {selections, Append(selections, SelectionOf(way, timing, text))}
             /\ shardFails' \in {shardFails, TRUE}
    /\ UNCHANGED gate

\* The jobs a release needs: every shard, and the check of their selections.
OpenGate ==
    /\ gate = "none"
    /\ gate' = IF ~shardFails /\ CheckShards(selections) THEN "open" ELSE "closed"
    /\ UNCHANGED <<shardRun, selections, shardFails>>

ShardsNext ==
    \/ gate = "none" /\ RunShard
    \/ OpenGate
    \/ gate # "none" /\ UNCHANGED shardVars

ShardsSpec == ShardsIn("start") /\ [][ShardsNext]_shardVars

-----------------------------------------------------------------------------
(* Properties *)

\* Where the gate opens, every mutant was selected once, and by one shard
\* alone, whatever runners computed and whatever of it was lost or is of
\* another run (CheckShards, plan.go:208; tests/drill/README.md:103).
ShardsSplitAll ==
    gate = "open" =>
        \A m \in Mutants :
            Cardinality({p \in (DOMAIN selections) \X (1..Cardinality(Mutants)) :
                p[2] \in DOMAIN selections[p[1]].selects /\ selections[p[1]].selects[p[2]] = m}) = 1

\* A mutant is judged beside no process of an earlier mutant and caught in a
\* tree that holds nothing of another, and so does its cache unless removing that
\* failed, which the worker ignores (worker.go:86); no two slots judge one mutant,
\* no mutant is judged twice, and a drill that exits 0 leaves no process behind
\* (record, supervision_linux.go:151; Worker, worker.go:83; Next, slots.go:53;
\* Clean, supervise_linux.go:89).
DrillIsSound ==
    /\ \A s \in Slots : slotStep[s] = "running" => alive[s] \subseteq {judging[s]}
    /\ \A s \in Slots : outcome[s] = "caught" => left[s] \in {"nothing", "cache"}
    /\ \A s, t \in Slots :
          s # t /\ {slotStep[s], slotStep[t]} \subseteq {"spawn", "running", "reaped"}
            => judging[s] # judging[t]
    /\ \A s \in Slots :
          slotStep[s] \in {"spawn", "running"} => verdicts[judging[s]] = "none"
    /\ drillExit = 0 => \A s \in Slots : alive[s] = {}

\* The drill ends, whichever slots stop early: no slot waits for a queue whose
\* slot will never ask (Next, slots.go:53; Done, slots.go:90).
DrillFinishes == <>(drillPhase = "over")
=============================================================================
