----------------------------- MODULE CommandProofs -----------------------------
(***************************************************************************)
(* What one process works on, no other takes from it: proofs about the     *)
(* mutation drill, for any mutants, slots and interleaving of what may     *)
(* fail, about the shards of a sharded run and their gate (Drill), about   *)
(* the scratch directory drills and prunes share, and about the work       *)
(* directories of runs and the sweeps that remove them (WorkDirs); and     *)
(* what lint -fix settles on and writes (LintFix).                         *)
(***************************************************************************)
EXTENDS WorkDirs, LintFix, TLAPS, FiniteSetTheorems, SequenceTheorems, WellFoundedInduction

(* The slots of a drill *)

SlotSteps == {"over", "loop", "asking", "spawn", "running", "reaped"}
Busy(s) == slotStep[s] \in {"spawn", "running", "reaped"}

DrillTypes ==
    /\ modes \in [Mutants -> {"shared", "alone"}] /\ prefers \in [Mutants -> Slots]
    /\ queues \in [Slots -> Seq(Mutants)] /\ slotStep \in [Slots -> SlotSteps]
    /\ judging \in [Slots -> Mutants \cup {None}] /\ alive \in [Slots -> SUBSET Mutants]
    /\ sup \in [Slots -> BOOLEAN] /\ status \in [Slots -> {"none", "exit0", "failed", "unclean"}]
    /\ left \in [Slots -> {"nothing", "cache", "all"}] /\ outcome \in [Slots -> {"none", "copied", "caught"}]
    /\ slotErr \subseteq Slots /\ accounted \in 0..NSlots
    /\ failure1 \in BOOLEAN /\ drillStop \in BOOLEAN
    /\ verdicts \in [Mutants -> {"none", "caught", "failed"}]
    /\ drillPhase \in {"bootstrap", "shared", "alone", "clean", "over"}

\* What runs in a slot's tree by where the slot is.
AliveAt(s) ==
    /\ slotStep[s] \in {"running", "reaped"} => alive[s] \subseteq {judging[s]}
    /\ slotStep[s] \in {"loop", "asking", "spawn"} => alive[s] = {} \/ drillStop
    /\ slotStep[s] = "over" => alive[s] = {} \/ drillStop \/ s \in slotErr
    /\ slotStep[s] = "reaped" /\ status[s] \in {"exit0", "failed"} => alive[s] = {}
AliveTells == \A s \in Slots : AliveAt(s)

\* A supervisor runs while its slot waits for it, and has told nothing yet.
SupAt(s) ==
    /\ sup[s] => slotStep[s] = "running"
    /\ slotStep[s] = "running" => status[s] = "none"
SupsTell == \A s \in Slots : SupAt(s)

\* A worker that copied the snapshot did so where nothing else ran.
LeftTells == \A s \in Slots : outcome[s] # "none" => left[s] # "all"

\* What JudgeAll has heard of, and where the slots are by the phase.
HeardTell ==
    \A s \in Slots : s <= accounted => slotStep[s] = "over" /\ (s \in slotErr => failure1)
PhaseTells ==
    /\ drillPhase \notin {"shared", "alone"} => \A s \in Slots : slotStep[s] = "over"
    /\ drillPhase = "alone" => \A s \in Slots \ {1} : slotStep[s] = "over"
    /\ drillPhase = "bootstrap" => \A s \in Slots : alive[s] = {}
ExitTells == drillExit = 0 => drillPhase = "over" /\ \A s \in Slots : alive[s] = {}

\* Every mutant is in one place: one queue, one slot, or judged.
QueuesApart ==
    \A s, t \in Slots : \A i \in DOMAIN queues[s], j \in DOMAIN queues[t] :
        queues[s][i] = queues[t][j] => s = t /\ i = j
TakenApart ==
    /\ \A s, t \in Slots : Busy(s) => \A i \in DOMAIN queues[t] : judging[s] # queues[t][i]
    /\ \A s, t \in Slots : Busy(s) /\ Busy(t) /\ judging[s] = judging[t] => s = t

\* What is queued or taken is of the phase and not judged.
Unjudged(m) == m \in Mutants /\ modes[m] = drillPhase /\ verdicts[m] = "none"
UnjudgedWait ==
    /\ drillPhase \in {"shared", "alone"} =>
          \A s \in Slots : \A i \in DOMAIN queues[s] : Unjudged(queues[s][i])
    /\ \A s \in Slots : Busy(s) => Unjudged(judging[s])
    /\ \A m \in Mutants : verdicts[m] # "none" =>
          drillPhase # "bootstrap" /\ (drillPhase = "shared" => modes[m] = "shared")

DrillInv ==
    DrillTypes /\ AliveTells /\ SupsTell /\ LeftTells /\ HeardTell /\ PhaseTells /\ ExitTells
        /\ QueuesApart /\ TakenApart /\ UnjudgedWait

LEMMA LeastNatural ==
    ASSUME NEW T \in SUBSET Nat, T # {}
    PROVE  \E n \in T : \A m \in T : n <= m
<1>1. PICK n \in T : \A m \in T : ~(<<m, n>> \in OpToRel(<, Nat))
  BY NatLessThanWellFounded, WFMin
<1>2. ASSUME NEW m \in T PROVE n <= m
  <2>1. n \in Nat /\ m \in Nat /\ <<m, n>> \in Nat \X Nat
    OBVIOUS
  <2>2. ~(m < n)
    BY <1>1, <2>1 DEF OpToRel
  <2> QED
    BY <2>1, <2>2
<1> QED
  BY <1>2

Rises(q, n) == \A i, j \in 1..n : i < j => q[i] < q[j]
Sortable(T) == \E q \in [1..Cardinality(T) -> T] : Rises(q, Cardinality(T))

\* Any finite set of numbers can be listed in order.
LEMMA AllSortable ==
    ASSUME NEW S \in SUBSET Nat, IsFiniteSet(S)
    PROVE  Sortable(S)
<1> DEFINE Bad == {n \in Nat : \E T \in SUBSET Nat : IsFiniteSet(T) /\ Cardinality(T) = n /\ ~Sortable(T)}
<1>1. SUFFICES ASSUME Bad # {} PROVE FALSE
  BY FS_CardinalityType
<1>2. PICK n \in Bad : \A m \in Bad : n <= m
  <2>1. Bad \in SUBSET Nat
    OBVIOUS
  <2> QED
    BY <1>1, <2>1, LeastNatural
<1>3. PICK T \in SUBSET Nat : IsFiniteSet(T) /\ Cardinality(T) = n /\ ~Sortable(T)
  OBVIOUS
<1> HIDE DEF Bad
<1>4. T # {}
  <2> SUFFICES ASSUME T = {} PROVE FALSE
    OBVIOUS
  <2>1. Cardinality(T) = 0 /\ 1..0 = {}
    BY FS_EmptySet
  <2>2. [i \in {} |-> i] \in [1..Cardinality(T) -> T] /\ Rises([i \in {} |-> i], Cardinality(T))
    BY <2>1 DEF Rises
  <2> QED
    BY <1>3, <2>2 DEF Sortable
<1>5. PICK x \in T : \A y \in T : x <= y
  BY <1>4, LeastNatural
<1> DEFINE R == T \ {x}
<1>6. n \in Nat /\ n > 0 /\ IsFiniteSet(R) /\ Cardinality(R) = n - 1
  <2>1. IsFiniteSet(R) /\ Cardinality(R) = n - 1
    BY <1>3, FS_RemoveElement
  <2>2. Cardinality(R) \in Nat /\ n \in Nat
    BY <1>3, <2>1, FS_CardinalityType
  <2> QED
    BY <2>1, <2>2
<1>7. Sortable(R)
  <2> SUFFICES ASSUME ~Sortable(R) PROVE FALSE
    OBVIOUS
  <2>1. n - 1 \in Bad
    BY <1>6 DEF Bad
  <2> QED
    BY <1>2, <1>6, <2>1
<1>8. PICK q \in [1..(n - 1) -> R] : Rises(q, n - 1)
  BY <1>6, <1>7 DEF Sortable
<1> DEFINE p == [i \in 1..n |-> IF i = 1 THEN x ELSE q[i - 1]]
<1>9. \A i \in 1..n : i # 1 => i - 1 \in 1..(n - 1) /\ q[i - 1] \in R
  BY <1>6, <1>8
<1>10. p \in [1..n -> T]
  BY <1>9
<1>11. Rises(p, n)
  <2> SUFFICES ASSUME NEW i \in 1..n, NEW j \in 1..n, i < j PROVE p[i] < p[j]
    BY DEF Rises
  <2>0. j # 1 /\ j - 1 \in 1..(n - 1) /\ q[j - 1] \in R /\ p[j] = q[j - 1]
    BY <1>6, <1>9
  <2>1. CASE i = 1
    <3>1. q[j - 1] \in Nat /\ x \in Nat /\ x <= q[j - 1] /\ x # q[j - 1]
      BY <1>5, <2>0
    <3> QED
      BY <2>0, <2>1, <3>1
  <2>2. CASE i # 1
    <3>1. i - 1 \in 1..(n - 1) /\ i - 1 < j - 1 /\ p[i] = q[i - 1]
      BY <1>6, <2>2
    <3> QED
      BY <1>8, <2>0, <3>1 DEF Rises
  <2> QED
    BY <2>1, <2>2
<1> HIDE DEF p, R
<1> QED
  BY <1>3, <1>10, <1>11 DEF Sortable

\* What is listed: each once, and nothing else.
LEMMA ListedAre ==
    ASSUME NEW S \in SUBSET Mutants
    PROVE  /\ SetToSeq1(S) \in Seq(Mutants)
           /\ \A i \in DOMAIN SetToSeq1(S) : SetToSeq1(S)[i] \in S
           /\ \A i, j \in DOMAIN SetToSeq1(S) : SetToSeq1(S)[i] = SetToSeq1(S)[j] => i = j
<1>1. S \in SUBSET Nat /\ IsFiniteSet(S) /\ Cardinality(S) \in Nat
  BY DrillAssumption, FS_Subset, FS_CardinalityType
<1> DEFINE n == Cardinality(S)
           q == SetToSeq1(S)
<1>2. q \in [1..n -> S] /\ \A i, j \in 1..n : i < j => q[i] < q[j]
  <2>1. \E p \in [1..n -> S] : \A i, j \in 1..n : i < j => p[i] < p[j]
    BY <1>1, AllSortable DEF Sortable, Rises
  <2> QED
    BY <2>1 DEF SetToSeq1
<1> HIDE DEF n, q
<1>3. n \in Nat
  BY <1>1 DEF n
<1>4. q \in Seq(S)
  BY <1>2, <1>3, SeqDef
<1>5. q \in Seq(Mutants)
  BY <1>2, <1>3, SeqDef
<1>6. ASSUME NEW i \in DOMAIN q, NEW j \in DOMAIN q, q[i] = q[j] PROVE i = j
  <2>1. i \in 1..n /\ j \in 1..n /\ q[i] \in Nat /\ q[j] \in Nat
    BY <1>1, <1>2
  <2> QED
    BY <1>2, <1>3, <1>6, <2>1
<1> QED
  BY <1>2, <1>5, <1>6 DEF q

LEMMA SlotsAre == Slots \subseteq Nat /\ IsFiniteSet(Slots) /\ Cardinality(Slots) = NSlots /\ NSlots \in Nat \ {0}
BY DrillAssumption, FS_Interval DEF Slots

LEMMA DrillStart == DrillInit => DrillInv
<1> SUFFICES ASSUME DrillInit PROVE DrillInv
  OBVIOUS
<1> USE DEF DrillInit, DrillIn
<1>1. DrillTypes
  <2>1. queues \in [Slots -> Seq(Mutants)]
    BY EmptySeq
  <2>2. slotStep \in [Slots -> SlotSteps] /\ judging \in [Slots -> Mutants \cup {None}]
    BY DEF SlotSteps
  <2>3. alive \in [Slots -> SUBSET Mutants] /\ sup \in [Slots -> BOOLEAN] /\ left \in [Slots -> {"nothing", "cache", "all"}]
    OBVIOUS
  <2>4. /\ status \in [Slots -> {"none", "exit0", "failed", "unclean"}]
        /\ outcome \in [Slots -> {"none", "copied", "caught"}]
        /\ verdicts \in [Mutants -> {"none", "caught", "failed"}]
    OBVIOUS
  <2>5. accounted \in 0..NSlots
    BY SlotsAre
  <2> QED
    BY <2>1, <2>2, <2>3, <2>4, <2>5 DEF DrillTypes
<1>2. AliveTells /\ SupsTell /\ LeftTells
  BY DEF AliveTells, SupsTell, LeftTells, AliveAt, SupAt
<1>3. HeardTell /\ PhaseTells /\ ExitTells
  BY SlotsAre DEF HeardTell, PhaseTells, ExitTells
<1>4. QueuesApart /\ TakenApart
  <2>1. \A s \in Slots : DOMAIN queues[s] = {} /\ ~Busy(s)
    BY DEF Busy
  <2> QED
    BY <2>1 DEF QueuesApart, TakenApart
<1>5. UnjudgedWait
  BY DEF UnjudgedWait, Busy
<1> QED
  BY <1>1, <1>2, <1>3, <1>4, <1>5 DEF DrillInv

\* Taking leaves the rest of a queue in order.
Remains(rest, q, m) ==
    /\ rest \in Seq(Mutants)
    /\ \E x \in DOMAIN q : m = q[x]
    /\ \E d \in {0, 1} : \A k \in DOMAIN rest :
          k + d \in DOMAIN q /\ rest[k] = q[k + d] /\ q[k + d] # m

LEMMA HeadRemains ==
    ASSUME NEW q \in Seq(Mutants), q # <<>>, \A i, j \in DOMAIN q : q[i] = q[j] => i = j
    PROVE  Remains(Tail(q), q, Head(q))
<1>1. /\ Tail(q) \in Seq(Mutants) /\ Len(Tail(q)) = Len(q) - 1 /\ Head(q) = q[1]
      /\ \A k \in 1..Len(Tail(q)) : Tail(q)[k] = q[k + 1]
  BY HeadTailProperties
<1>2. Len(q) \in Nat /\ Len(q) > 0 /\ DOMAIN q = 1..Len(q) /\ DOMAIN Tail(q) = 1..Len(Tail(q))
  BY <1>1, LenProperties, EmptySeq
<1>3. \A k \in DOMAIN Tail(q) : k + 1 \in DOMAIN q /\ Tail(q)[k] = q[k + 1] /\ q[k + 1] # q[1]
  BY <1>1, <1>2
<1>4. 1 \in DOMAIN q
  BY <1>2
<1> QED
  BY <1>1, <1>3, <1>4 DEF Remains

LEMMA LastRemains ==
    ASSUME NEW q \in Seq(Mutants), q # <<>>, \A i, j \in DOMAIN q : q[i] = q[j] => i = j
    PROVE  Remains(SubSeq(q, 1, Len(q) - 1), q, q[Len(q)])
<1> DEFINE n == Len(q)
           r == SubSeq(q, 1, n - 1)
<1>1. n \in Nat /\ n > 0 /\ DOMAIN q = 1..n
  BY LenProperties, EmptySeq
<1>2. /\ r \in Seq(Mutants) /\ Len(r) = n - 1
      /\ \A k \in 1..(n - 1) : r[k] = q[k]
  BY <1>1, SubSeqProperties
<1> HIDE DEF r
<1>3. DOMAIN r = 1..(n - 1)
  BY <1>2, LenProperties
<1>4. \A k \in DOMAIN r : k + 0 \in DOMAIN q /\ r[k] = q[k + 0] /\ q[k + 0] # q[n]
  BY <1>1, <1>2, <1>3
<1>5. n \in DOMAIN q
  BY <1>1
<1> QED
  BY <1>2, <1>4, <1>5 DEF Remains, r

StaysBusy == \A t \in Slots : Busy(t)' => Busy(t) /\ judging'[t] = judging[t]

\* Where no slot takes a mutant, the mutants stay where they are.
LEMMA StillApart ==
    ASSUME DrillInv, StaysBusy, UNCHANGED queues
    PROVE  QueuesApart' /\ TakenApart'
<1>1. QueuesApart'
  BY DEF DrillInv, QueuesApart
<1>2. ASSUME NEW s \in Slots, NEW t \in Slots, Busy(s)', NEW i \in DOMAIN queues'[t]
      PROVE  judging'[s] # queues'[t][i]
  BY <1>2 DEF DrillInv, TakenApart, StaysBusy
<1>3. ASSUME NEW s \in Slots, NEW t \in Slots, Busy(s)', Busy(t)', judging'[s] = judging'[t]
      PROVE  s = t
  BY <1>3 DEF DrillInv, TakenApart, StaysBusy
<1>4. TakenApart'
  BY <1>2, <1>3 DEF TakenApart
<1> QED
  BY <1>1, <1>4

LEMMA StillUnjudged ==
    ASSUME DrillInv, StaysBusy, UNCHANGED queues, UNCHANGED modes, UNCHANGED verdicts, UNCHANGED drillPhase
    PROVE  UnjudgedWait'
<1>1. ASSUME NEW s \in Slots, Busy(s)' PROVE Unjudged(judging[s]) /\ judging'[s] = judging[s]
  BY <1>1 DEF DrillInv, UnjudgedWait, StaysBusy
<1>2. ASSUME NEW s \in Slots, Busy(s)' PROVE Unjudged(judging[s])'
  BY <1>1, <1>2 DEF Unjudged
<1>3. drillPhase' \in {"shared", "alone"} =>
          \A s \in Slots : \A i \in DOMAIN queues'[s] : Unjudged(queues[s][i])'
  BY DEF DrillInv, UnjudgedWait, Unjudged
<1>4. \A m \in Mutants : verdicts'[m] # "none" =>
          drillPhase' # "bootstrap" /\ (drillPhase' = "shared" => modes'[m] = "shared")
  BY DEF DrillInv, UnjudgedWait
<1> QED
  BY <1>2, <1>3, <1>4 DEF UnjudgedWait

\* A slot that ends leaves its fields as they were.
LEMMA EndedIs ==
    ASSUME DrillTypes, NEW s \in Slots, NEW err \in BOOLEAN, SlotEnds(s, err)
    PROVE  /\ slotStep' \in [Slots -> SlotSteps] /\ slotStep'[s] = "over"
           /\ \A t \in Slots \ {s} : slotStep'[t] = slotStep[t]
           /\ slotErr' \subseteq Slots /\ slotErr \subseteq slotErr' /\ slotErr' \subseteq slotErr \cup {s}
           /\ err => s \in slotErr'
BY DEF DrillTypes, SlotEnds, SlotSteps

\* A slot whose goroutine goes on has not been heard of, in a phase of its own.
LEMMA WorkingIs ==
    ASSUME DrillInv, NEW s \in Slots, slotStep[s] # "over"
    PROVE  drillPhase \in {"shared", "alone"} /\ ~(s <= accounted) /\ drillExit # 0
           /\ (drillPhase = "alone" => s = 1)
BY DEF DrillInv, HeardTell, PhaseTells, ExitTells

\* Where one slot steps: what the phases and JudgeAll know stays so.
LEMMA StillHeard ==
    ASSUME DrillInv, NEW s \in Slots, slotStep[s] # "over",
           \A t \in Slots \ {s} : slotStep'[t] = slotStep[t],
           slotErr' \subseteq slotErr \cup {s},
           UNCHANGED accounted, UNCHANGED failure1, UNCHANGED drillPhase, UNCHANGED drillExit
    PROVE  HeardTell' /\ PhaseTells' /\ ExitTells'
<1>1. drillPhase \in {"shared", "alone"} /\ ~(s <= accounted) /\ drillExit # 0 /\ (drillPhase = "alone" => s = 1)
  BY WorkingIs
<1>2. HeardTell'
  BY <1>1 DEF DrillInv, HeardTell
<1>3. PhaseTells'
  BY <1>1 DEF DrillInv, PhaseTells
<1>4. ExitTells'
  BY <1>1 DEF ExitTells
<1> QED
  BY <1>2, <1>3, <1>4

\* The slots beside the one that steps.
LEMMA OthersStay ==
    ASSUME DrillInv, NEW s \in Slots,
           \A t \in Slots \ {s} : /\ slotStep'[t] = slotStep[t] /\ alive'[t] \subseteq alive[t]
                                  /\ judging'[t] = judging[t] /\ status'[t] = status[t] /\ sup'[t] = sup[t],
           slotErr \subseteq slotErr', drillStop => drillStop',
           AliveAt(s)', SupAt(s)'
    PROVE  AliveTells' /\ SupsTell'
<1>1. ASSUME NEW t \in Slots PROVE AliveAt(t)' /\ SupAt(t)'
  <2>1. CASE t = s
    BY <2>1
  <2>2. CASE t # s
    <3>1. AliveAt(t) /\ SupAt(t)
      BY DEF DrillInv, AliveTells, SupsTell, AliveAt, SupAt
    <3>2. /\ slotStep'[t] = slotStep[t] /\ alive'[t] \subseteq alive[t] /\ judging'[t] = judging[t]
          /\ status'[t] = status[t] /\ sup'[t] = sup[t]
      BY <2>2
    <3> QED
      BY <3>1, <3>2 DEF AliveAt, SupAt
  <2> QED
    BY <2>1, <2>2
<1> QED
  BY <1>1 DEF AliveTells, SupsTell, AliveAt, SupAt

LEMMA SlotIs ==
    ASSUME DrillInv, NEW s \in Slots
    PROVE  AliveAt(s) /\ SupAt(s)
BY DEF DrillInv, AliveTells, SupsTell, AliveAt, SupAt
LEMMA LoopKeeps == ASSUME DrillInv, NEW s \in Slots, Loop(s) PROVE DrillInv'
<1>1. DrillTypes /\ slotStep[s] = "loop" /\ AliveAt(s) /\ SupAt(s)
  BY SlotIs DEF DrillInv, Loop
<1>2. /\ slotStep' \in [Slots -> SlotSteps] /\ \A t \in Slots \ {s} : slotStep'[t] = slotStep[t]
      /\ slotStep'[s] \in {"asking", "over"} /\ (slotStep'[s] = "over" => drillStop)
      /\ slotErr \subseteq slotErr' /\ slotErr' \subseteq slotErr \cup {s} /\ slotErr' \subseteq Slots
  <2>1. CASE SlotEnds(s, FALSE) /\ drillStop
    BY <1>1, <2>1, EndedIs
  <2>2. CASE slotStep' = [slotStep EXCEPT ![s] = "asking"] /\ UNCHANGED slotErr
    BY <1>1, <2>2 DEF DrillTypes, SlotSteps
  <2> QED
    BY <2>1, <2>2 DEF Loop
<1>3. DrillTypes'
  BY <1>1, <1>2 DEF Loop, DrillTypes
<1>4. AliveTells' /\ SupsTell'
  <2>1. AliveAt(s)' /\ SupAt(s)'
    BY <1>1, <1>2 DEF Loop, AliveAt, SupAt
  <2> QED
    BY <1>2, <2>1, OthersStay DEF Loop
<1>5. LeftTells'
  BY DEF DrillInv, LeftTells, Loop
<1>6. HeardTell' /\ PhaseTells' /\ ExitTells'
  BY <1>1, <1>2, StillHeard DEF Loop
<1>7. QueuesApart' /\ TakenApart'
  <2>1. StaysBusy
    BY <1>2 DEF StaysBusy, Busy, Loop
  <2> QED
    BY <2>1, StillApart DEF Loop
<1>8. UnjudgedWait'
  <2>1. StaysBusy
    BY <1>2 DEF StaysBusy, Busy, Loop
  <2> QED
    BY <2>1, StillUnjudged DEF Loop
<1> QED
  BY <1>3, <1>4, <1>5, <1>6, <1>7, <1>8 DEF DrillInv

LEMMA StartWorkerKeeps == ASSUME DrillInv, NEW s \in Slots, StartWorker(s) PROVE DrillInv'
<1>1. DrillTypes /\ slotStep[s] = "spawn" /\ AliveAt(s) /\ SupAt(s) /\ Busy(s) /\ judging[s] \in Mutants
  BY SlotIs DEF DrillInv, StartWorker, Busy, UnjudgedWait, Unjudged
<1> DEFINE Starts == /\ ~drillStop /\ slotStep' = [slotStep EXCEPT ![s] = "running"]
                     /\ alive' = [alive EXCEPT ![s] = @ \cup {judging[s]}]
                     /\ sup' = [sup EXCEPT ![s] = TRUE]
                     /\ status' = [status EXCEPT ![s] = "none"]
                     /\ outcome' = [outcome EXCEPT ![s] = "none"]
                     /\ UNCHANGED slotErr
           GivesUp(err) == /\ SlotEnds(s, err) /\ (err \/ drillStop)
                        /\ UNCHANGED alive /\ UNCHANGED sup /\ UNCHANGED status /\ UNCHANGED outcome
<1>2. Starts \/ GivesUp(TRUE) \/ GivesUp(FALSE)
  BY DEF StartWorker
<1>a. /\ UNCHANGED left /\ UNCHANGED judging /\ UNCHANGED drillStop /\ UNCHANGED queues /\ UNCHANGED modes
      /\ UNCHANGED verdicts /\ UNCHANGED drillPhase /\ UNCHANGED prefers /\ UNCHANGED accounted
      /\ UNCHANGED failure1 /\ UNCHANGED drillExit
  BY DEF StartWorker
<1>b. /\ slotStep' \in [Slots -> SlotSteps] /\ \A t \in Slots \ {s} : slotStep'[t] = slotStep[t]
      /\ slotErr \subseteq slotErr' /\ slotErr' \subseteq slotErr \cup {s} /\ slotErr' \subseteq Slots
      /\ slotStep'[s] = "over" \/ (Starts /\ slotStep'[s] = "running")
  <2>1. ASSUME NEW err \in BOOLEAN, GivesUp(err) PROVE <1>b!:
    BY <1>1, <2>1, EndedIs
  <2>2. CASE Starts
    BY <1>1, <2>2 DEF DrillTypes, SlotSteps
  <2> QED
    BY <1>2, <2>1, <2>2
<1>3. DrillTypes'
  <2>1. /\ alive' \in [Slots -> SUBSET Mutants] /\ sup' \in [Slots -> BOOLEAN]
        /\ status' \in [Slots -> {"none", "exit0", "failed", "unclean"}]
        /\ outcome' \in [Slots -> {"none", "copied", "caught"}]
    <3>1. CASE Starts
      BY <1>1, <3>1 DEF DrillTypes
    <3>2. ASSUME NEW err \in BOOLEAN, GivesUp(err) PROVE <2>1!:
      BY <1>1, <3>2 DEF DrillTypes
    <3> QED
      BY <1>2, <3>1, <3>2
  <2> QED
    BY <1>1, <1>a, <1>b, <2>1 DEF DrillTypes
<1>4. AliveTells' /\ SupsTell'
  <2>1. /\ AliveAt(s)' /\ SupAt(s)'
        /\ \A t \in Slots \ {s} : alive'[t] = alive[t] /\ status'[t] = status[t] /\ sup'[t] = sup[t]
    <3>1. CASE Starts
      BY <1>1, <1>a, <3>1 DEF DrillTypes, AliveAt, SupAt
    <3>2. ASSUME NEW err \in BOOLEAN, GivesUp(err) PROVE <2>1!:
      <4>1. slotStep'[s] = "over" /\ (err => s \in slotErr')
        BY <1>1, <3>2, EndedIs
      <4> QED
        BY <1>1, <1>a, <3>2, <4>1 DEF AliveAt, SupAt
    <3> QED
      BY <1>2, <3>1, <3>2
  <2> QED
    BY <1>a, <1>b, <2>1, OthersStay
<1>5. LeftTells'
  <2>1. \A t \in Slots : outcome'[t] = outcome[t] \/ outcome'[t] = "none"
    BY <1>1, <1>2 DEF DrillTypes
  <2> QED
    BY <1>a, <2>1 DEF DrillInv, LeftTells
<1>6. HeardTell' /\ PhaseTells' /\ ExitTells'
  BY <1>1, <1>a, <1>b, StillHeard
<1>9. StaysBusy
  BY <1>1, <1>a, <1>b DEF StaysBusy, Busy
<1>7. QueuesApart' /\ TakenApart'
  BY <1>9, <1>a, StillApart
<1>8. UnjudgedWait'
  BY <1>9, <1>a, StillUnjudged
<1> QED
  BY <1>3, <1>4, <1>5, <1>6, <1>7, <1>8 DEF DrillInv

LEMMA WorkerCopiesKeeps == ASSUME DrillInv, NEW s \in Slots, WorkerCopies(s) PROVE DrillInv'
<1>1. DrillTypes /\ slotStep[s] = "running" /\ AliveAt(s) /\ judging[s] \in alive[s]
  BY SlotIs DEF DrillInv, WorkerCopies
<1>2. /\ UNCHANGED judging /\ UNCHANGED drillStop /\ UNCHANGED queues /\ UNCHANGED modes /\ UNCHANGED verdicts
      /\ UNCHANGED drillPhase /\ UNCHANGED alive /\ UNCHANGED sup /\ UNCHANGED status
      /\ UNCHANGED accounted /\ UNCHANGED failure1 /\ UNCHANGED drillExit /\ UNCHANGED slotStep /\ UNCHANGED slotErr
  BY DEF WorkerCopies
<1>3. DrillTypes'
  BY <1>1 DEF DrillTypes, WorkerCopies
<1>4. AliveTells' /\ SupsTell'
  BY <1>2 DEF DrillInv, AliveTells, SupsTell, AliveAt, SupAt
<1>5. LeftTells'
  <2>1. alive[s] = {judging[s]}
    BY <1>1 DEF AliveAt
  <2>2. \A t \in Slots : t # s => left'[t] = left[t] /\ outcome'[t] = outcome[t]
    BY <1>1 DEF WorkerCopies, DrillTypes
  <2>3. left'[s] # "all"
    BY <1>1, <2>1 DEF WorkerCopies, DrillTypes, DrillInv, LeftTells
  <2> QED
    BY <2>2, <2>3 DEF DrillInv, LeftTells
<1>6. HeardTell' /\ PhaseTells' /\ ExitTells'
  BY <1>2 DEF DrillInv, HeardTell, PhaseTells, ExitTells
<1>9. StaysBusy
  BY <1>2 DEF StaysBusy, Busy
<1>7. QueuesApart' /\ TakenApart'
  BY <1>2, <1>9, StillApart
<1>8. UnjudgedWait'
  BY <1>2, <1>9, StillUnjudged
<1> QED
  BY <1>3, <1>4, <1>5, <1>6, <1>7, <1>8 DEF DrillInv

LEMMA WorkerJudgesKeeps == ASSUME DrillInv, NEW s \in Slots, WorkerJudges(s) PROVE DrillInv'
<1>1. DrillTypes /\ slotStep[s] = "running" /\ AliveAt(s) /\ judging[s] \in alive[s]
  BY SlotIs DEF DrillInv, WorkerJudges
<1>2. /\ UNCHANGED judging /\ UNCHANGED drillStop /\ UNCHANGED queues /\ UNCHANGED modes /\ UNCHANGED verdicts
      /\ UNCHANGED drillPhase /\ UNCHANGED alive /\ UNCHANGED sup /\ UNCHANGED status
      /\ UNCHANGED accounted /\ UNCHANGED failure1 /\ UNCHANGED drillExit /\ UNCHANGED slotStep /\ UNCHANGED slotErr
  BY DEF WorkerJudges
<1>3. DrillTypes'
  BY <1>1 DEF DrillTypes, WorkerJudges
<1>4. AliveTells' /\ SupsTell'
  BY <1>2 DEF DrillInv, AliveTells, SupsTell, AliveAt, SupAt
<1>5. LeftTells'
  <2>1. alive[s] = {judging[s]}
    BY <1>1 DEF AliveAt
  <2>2. \A t \in Slots : t # s => left'[t] = left[t] /\ outcome'[t] = outcome[t]
    BY <1>1 DEF WorkerJudges, DrillTypes
  <2>3. left'[s] # "all"
    BY <1>1, <2>1 DEF WorkerJudges, DrillTypes, DrillInv, LeftTells
  <2> QED
    BY <2>2, <2>3 DEF DrillInv, LeftTells
<1>6. HeardTell' /\ PhaseTells' /\ ExitTells'
  BY <1>2 DEF DrillInv, HeardTell, PhaseTells, ExitTells
<1>9. StaysBusy
  BY <1>2 DEF StaysBusy, Busy
<1>7. QueuesApart' /\ TakenApart'
  BY <1>2, <1>9, StillApart
<1>8. UnjudgedWait'
  BY <1>2, <1>9, StillUnjudged
<1> QED
  BY <1>3, <1>4, <1>5, <1>6, <1>7, <1>8 DEF DrillInv

LEMMA SuperviseKeeps == ASSUME DrillInv, NEW s \in Slots, Supervise(s) \/ SupervisorDies(s) PROVE DrillInv'
<1>1. DrillTypes /\ sup[s] /\ slotStep[s] = "running" /\ AliveAt(s) /\ SupAt(s)
  BY SlotIs DEF DrillInv, Supervise, SupervisorDies, SupAt
<1>2. /\ UNCHANGED judging /\ UNCHANGED drillStop /\ UNCHANGED queues /\ UNCHANGED modes /\ UNCHANGED verdicts
      /\ UNCHANGED drillPhase /\ UNCHANGED prefers /\ UNCHANGED left /\ UNCHANGED outcome /\ UNCHANGED slotErr
      /\ UNCHANGED accounted /\ UNCHANGED failure1 /\ UNCHANGED drillExit
      /\ slotStep' = [slotStep EXCEPT ![s] = "reaped"] /\ sup' = [sup EXCEPT ![s] = FALSE]
  BY DEF Supervise, SupervisorDies
<1>a. \/ \E observed \in {"exit0", "failed"} : /\ alive' = [alive EXCEPT ![s] = @ \ {judging[s]}]
                                               /\ status' = [status EXCEPT ![s] = observed]
      \/ status' = [status EXCEPT ![s] = "unclean"] /\ UNCHANGED alive
      \/ UNCHANGED alive /\ UNCHANGED status
  BY DEF Supervise, SupervisorDies
<1>b. /\ slotStep' \in [Slots -> SlotSteps] /\ slotStep'[s] = "reaped"
      /\ \A t \in Slots \ {s} : slotStep'[t] = slotStep[t]
  BY <1>1, <1>2 DEF DrillTypes, SlotSteps
<1>c. /\ alive' \in [Slots -> SUBSET Mutants] /\ status' \in [Slots -> {"none", "exit0", "failed", "unclean"}]
      /\ \A t \in Slots \ {s} : alive'[t] = alive[t] /\ status'[t] = status[t]
      /\ alive'[s] \subseteq alive[s]
      /\ status'[s] \in {"exit0", "failed"} => alive'[s] = alive[s] \ {judging[s]}
  <2>1. CASE \E observed \in {"exit0", "failed"} : /\ alive' = [alive EXCEPT ![s] = @ \ {judging[s]}]
                                                 /\ status' = [status EXCEPT ![s] = observed]
    BY <1>1, <2>1 DEF DrillTypes
  <2>2. CASE status' = [status EXCEPT ![s] = "unclean"] /\ UNCHANGED alive
    BY <1>1, <2>2 DEF DrillTypes
  <2>3. CASE UNCHANGED alive /\ UNCHANGED status
    BY <1>1, <2>3 DEF DrillTypes, SupAt
  <2> QED
    BY <1>a, <2>1, <2>2, <2>3
<1>3. DrillTypes'
  BY <1>1, <1>2, <1>b, <1>c DEF DrillTypes
<1>4. AliveTells' /\ SupsTell'
  <2>1. AliveAt(s)'
    BY <1>1, <1>2, <1>b, <1>c DEF AliveAt
  <2>2. SupAt(s)'
    BY <1>1, <1>2, <1>b DEF SupAt, DrillTypes
  <2>3. \A t \in Slots \ {s} : sup'[t] = sup[t]
    BY <1>1, <1>2 DEF DrillTypes
  <2> QED
    BY <1>2, <1>b, <1>c, <2>1, <2>2, <2>3, OthersStay
<1>5. LeftTells'
  BY <1>2 DEF DrillInv, LeftTells
<1>6. HeardTell' /\ PhaseTells' /\ ExitTells'
  BY <1>1, <1>2, <1>b, StillHeard
<1>9. StaysBusy
  BY <1>1, <1>2, <1>b DEF StaysBusy, Busy
<1>7. QueuesApart' /\ TakenApart'
  BY <1>2, <1>9, StillApart
<1>8. UnjudgedWait'
  BY <1>2, <1>9, StillUnjudged
<1> QED
  BY <1>3, <1>4, <1>5, <1>6, <1>7, <1>8 DEF DrillInv

LEMMA RecordKeeps == ASSUME DrillInv, NEW s \in Slots, Record(s) PROVE DrillInv'
<1>1. DrillTypes /\ slotStep[s] = "reaped" /\ AliveAt(s) /\ SupAt(s) /\ Busy(s) /\ Unjudged(judging[s])
  BY SlotIs DEF DrillInv, Record, Busy, UnjudgedWait
<1> DEFINE Cleared == alive' = [t \in Slots |-> IF sup[t] THEN alive[t] ELSE {}]
<1>a. /\ UNCHANGED modes /\ UNCHANGED prefers /\ UNCHANGED queues /\ UNCHANGED sup /\ UNCHANGED accounted
      /\ UNCHANGED failure1 /\ UNCHANGED drillPhase /\ UNCHANGED drillExit
  BY DEF Record
<1>2. \/ /\ Records(s)
         /\ \/ status[s] \in {"exit0", "failed"} /\ UNCHANGED alive /\ UNCHANGED drillStop
            \/ Cleared /\ UNCHANGED drillStop
            \/ drillStop' = TRUE /\ UNCHANGED alive
      \/ /\ SlotEnds(s, TRUE) /\ UNCHANGED alive /\ UNCHANGED drillStop /\ UNCHANGED verdicts /\ UNCHANGED judging
         /\ UNCHANGED status /\ UNCHANGED outcome /\ UNCHANGED left
  BY DEF Record
<1>b. /\ alive' \in [Slots -> SUBSET Mutants] /\ \A t \in Slots : alive'[t] \subseteq alive[t]
      /\ (drillStop => drillStop') /\ drillStop' \in BOOLEAN
  <2>1. CASE UNCHANGED alive
    BY <1>1, <1>2, <2>1 DEF DrillTypes
  <2>2. CASE Cleared
    BY <1>1, <1>2, <2>2 DEF DrillTypes
  <2> QED
    BY <1>2, <2>1, <2>2
<1>c. CASE /\ SlotEnds(s, TRUE) /\ UNCHANGED verdicts /\ UNCHANGED judging
           /\ UNCHANGED status /\ UNCHANGED outcome /\ UNCHANGED left
  <2>0. /\ slotStep' \in [Slots -> SlotSteps] /\ slotStep'[s] = "over"
        /\ \A t \in Slots \ {s} : slotStep'[t] = slotStep[t]
        /\ slotErr' \subseteq Slots /\ slotErr \subseteq slotErr' /\ slotErr' \subseteq slotErr \cup {s} /\ s \in slotErr'
    BY <1>1, <1>c, EndedIs
  <2>3. DrillTypes'
    BY <1>1, <1>a, <1>b, <1>c, <2>0 DEF DrillTypes
  <2>4. AliveTells' /\ SupsTell'
    <3>1. AliveAt(s)' /\ SupAt(s)'
      BY <1>1, <1>a, <2>0 DEF AliveAt, SupAt
    <3> QED
      BY <1>a, <1>b, <1>c, <2>0, <3>1, OthersStay
  <2>5. LeftTells'
    BY <1>c DEF DrillInv, LeftTells
  <2>6. HeardTell' /\ PhaseTells' /\ ExitTells'
    BY <1>1, <1>a, <2>0, StillHeard
  <2>9. StaysBusy
    BY <1>c, <2>0 DEF StaysBusy, Busy
  <2>7. QueuesApart' /\ TakenApart'
    BY <1>a, <2>9, StillApart
  <2>8. UnjudgedWait'
    BY <1>a, <1>c, <2>9, StillUnjudged
  <2> QED
    BY <2>3, <2>4, <2>5, <2>6, <2>7, <2>8 DEF DrillInv
<1>d. CASE Records(s)
  <2>0. /\ slotStep' \in [Slots -> SlotSteps] /\ slotStep'[s] = "loop"
        /\ \A t \in Slots \ {s} : slotStep'[t] = slotStep[t] /\ judging'[t] = judging[t] /\ status'[t] = status[t]
        /\ slotErr' = slotErr
    BY <1>1, <1>d DEF Records, DrillTypes, SlotSteps
  <2>1. judging[s] \in Mutants /\ ReadResult(s) \in {"caught", "failed"}
    BY <1>1 DEF Unjudged, ReadResult
  <2>2. /\ verdicts' \in [Mutants -> {"none", "caught", "failed"}]
        /\ \A m \in Mutants : m # judging[s] => verdicts'[m] = verdicts[m]
    BY <1>1, <1>d, <2>1 DEF Records, DrillTypes
  <2>3. DrillTypes'
    <3>1. /\ judging' \in [Slots -> Mutants \cup {None}] /\ left' \in [Slots -> {"nothing", "cache", "all"}]
          /\ status' \in [Slots -> {"none", "exit0", "failed", "unclean"}]
          /\ outcome' \in [Slots -> {"none", "copied", "caught"}]
      BY <1>1, <1>d DEF Records, DrillTypes
    <3> QED
      BY <1>1, <1>a, <1>b, <2>0, <2>2, <3>1 DEF DrillTypes
  <2>4. AliveTells' /\ SupsTell'
    <3>1. alive'[s] = {} \/ drillStop'
      <4>1. CASE status[s] \in {"exit0", "failed"} /\ UNCHANGED alive
        BY <1>1, <4>1 DEF AliveAt
      <4>2. CASE Cleared
        BY <1>1, <4>2 DEF SupAt
      <4> QED
        BY <1>2, <1>d, <2>0, <4>1, <4>2 DEF SlotEnds, DrillTypes
    <3>2. AliveAt(s)' /\ SupAt(s)'
      BY <1>1, <1>a, <2>0, <3>1 DEF AliveAt, SupAt
    <3> QED
      BY <1>a, <1>b, <2>0, <3>2, OthersStay
  <2>5. LeftTells'
    <3>1. \A t \in Slots \ {s} : outcome'[t] = outcome[t] /\ left'[t] = left[t]
      BY <1>1, <1>d DEF Records, DrillTypes
    <3>2. outcome'[s] = "none"
      BY <1>1, <1>d DEF Records, DrillTypes
    <3> QED
      BY <3>1, <3>2 DEF DrillInv, LeftTells
  <2>6. HeardTell' /\ PhaseTells' /\ ExitTells'
    BY <1>1, <1>a, <2>0, StillHeard
  <2>9. StaysBusy /\ ~Busy(s)'
    BY <2>0 DEF StaysBusy, Busy
  <2>7. QueuesApart' /\ TakenApart'
    BY <1>a, <2>9, StillApart
  <2>8. UnjudgedWait'
    <3>0. drillPhase \in {"shared", "alone"} /\ modes[judging[s]] = drillPhase
      BY <1>1, WorkingIs DEF Unjudged
    <3>1. ASSUME NEW t \in Slots, NEW i \in DOMAIN queues'[t] PROVE Unjudged(queues[t][i])'
      <4>1. Unjudged(queues[t][i]) /\ queues[t][i] # judging[s]
        BY <1>1, <1>a, <3>0, <3>1 DEF DrillInv, UnjudgedWait, TakenApart
      <4> QED
        BY <1>a, <2>2, <4>1 DEF Unjudged
    <3>2. ASSUME NEW t \in Slots, Busy(t)' PROVE Unjudged(judging[t])'
      <4>1. Busy(t) /\ judging'[t] = judging[t] /\ t # s
        BY <2>9, <3>2 DEF StaysBusy
      <4>2. Unjudged(judging[t]) /\ judging[t] # judging[s]
        BY <1>1, <4>1 DEF DrillInv, UnjudgedWait, TakenApart
      <4> QED
        BY <1>a, <2>2, <4>1, <4>2 DEF Unjudged
    <3>3. ASSUME NEW m \in Mutants, verdicts'[m] # "none"
          PROVE  drillPhase' # "bootstrap" /\ (drillPhase' = "shared" => modes'[m] = "shared")
      <4>1. CASE m = judging[s]
        BY <1>a, <3>0, <4>1
      <4>2. CASE m # judging[s]
        BY <1>a, <2>2, <3>3, <4>2 DEF DrillInv, UnjudgedWait
      <4> QED
        BY <4>1, <4>2
    <3> QED
      BY <3>1, <3>2, <3>3 DEF UnjudgedWait
  <2> QED
    BY <2>3, <2>4, <2>5, <2>6, <2>7, <2>8 DEF DrillInv
<1> QED
  BY <1>2, <1>c, <1>d

\* A slot takes a mutant from a queue.
LEMMA TakesKeeps ==
    ASSUME DrillInv, NEW s \in Slots, slotStep[s] = "asking", NEW m, NEW from \in Slots, NEW rest,
           Takes(s, m, from, rest), Remains(rest, queues[from], m),
           UNCHANGED modes, UNCHANGED prefers, UNCHANGED left, UNCHANGED alive, UNCHANGED sup, UNCHANGED status,
           UNCHANGED outcome, UNCHANGED accounted, UNCHANGED failure1, UNCHANGED drillStop, UNCHANGED verdicts,
           UNCHANGED drillPhase, UNCHANGED drillExit
    PROVE  DrillInv'
<1>1. DrillTypes /\ AliveAt(s) /\ SupAt(s) /\ drillPhase \in {"shared", "alone"} /\ ~Busy(s)
  BY SlotIs, WorkingIs DEF DrillInv, Busy
<1>2. PICK x \in DOMAIN queues[from] : m = queues[from][x]
  BY DEF Remains
<1>3. m \in Mutants /\ Unjudged(m)
  BY <1>1, <1>2 DEF DrillInv, UnjudgedWait, Unjudged
<1>4. PICK d \in {0, 1} : \A k \in DOMAIN rest :
          k + d \in DOMAIN queues[from] /\ rest[k] = queues[from][k + d] /\ queues[from][k + d] # m
  BY DEF Remains
<1>5. /\ queues' \in [Slots -> Seq(Mutants)] /\ queues'[from] = rest
      /\ \A t \in Slots \ {from} : queues'[t] = queues[t]
  BY <1>1 DEF Takes, DrillTypes, Remains
<1>6. /\ slotStep' \in [Slots -> SlotSteps] /\ slotStep'[s] = "spawn"
      /\ judging' \in [Slots -> Mutants \cup {None}] /\ judging'[s] = m
      /\ \A t \in Slots \ {s} : slotStep'[t] = slotStep[t] /\ judging'[t] = judging[t]
      /\ slotErr' = slotErr
  BY <1>1, <1>3 DEF Takes, DrillTypes, SlotSteps
<1>7. DrillTypes'
  BY <1>1, <1>5, <1>6 DEF DrillTypes
<1>8. AliveTells' /\ SupsTell'
  <2>1. AliveAt(s)' /\ SupAt(s)'
    BY <1>1, <1>6 DEF AliveAt, SupAt
  <2> QED
    BY <1>6, <2>1, OthersStay
<1>9. LeftTells'
  BY DEF DrillInv, LeftTells
<1>10. HeardTell' /\ PhaseTells' /\ ExitTells'
  BY <1>1, <1>6, StillHeard
<1>11. ASSUME NEW t \in Slots, NEW i \in DOMAIN queues'[t]
       PROVE  \E j \in DOMAIN queues[t] : /\ queues'[t][i] = queues[t][j] /\ queues'[t][i] # m
                                         /\ j = (IF t = from THEN i + d ELSE i)
  <2>1. CASE t = from
    BY <1>4, <1>5, <2>1
  <2>2. CASE t # from
    <3>1. queues'[t] = queues[t] /\ queues[t][i] # queues[from][x]
      BY <1>2, <1>5, <2>2 DEF DrillInv, QueuesApart
    <3> QED
      BY <1>2, <2>2, <3>1
  <2> QED
    BY <2>1, <2>2
<1>12. QueuesApart'
  <2> SUFFICES ASSUME NEW t \in Slots, NEW u \in Slots, NEW i \in DOMAIN queues'[t], NEW j \in DOMAIN queues'[u],
                      queues'[t][i] = queues'[u][j]
               PROVE  t = u /\ i = j
    BY DEF QueuesApart
  <2>1. PICK k \in DOMAIN queues[t] : queues'[t][i] = queues[t][k] /\ k = (IF t = from THEN i + d ELSE i)
    BY <1>11
  <2>2. PICK l \in DOMAIN queues[u] : queues'[u][j] = queues[u][l] /\ l = (IF u = from THEN j + d ELSE j)
    BY <1>11
  <2>3. t = u /\ k = l
    <3>1. queues[t][k] = queues[u][l]
      BY <2>1, <2>2
    <3>2. QueuesApart
      BY DEF DrillInv
    <3> HIDE DEF DrillInv
    <3> QED
      BY <3>1, <3>2 DEF QueuesApart
  <2>4. i \in Nat /\ j \in Nat
    BY <1>5, LenProperties
  <2> QED
    BY <2>1, <2>2, <2>3, <2>4
<1>13. TakenApart'
  <2>1. ASSUME NEW t \in Slots, NEW u \in Slots, Busy(t)', NEW i \in DOMAIN queues'[u]
        PROVE  judging'[t] # queues'[u][i]
    <3>1. PICK j \in DOMAIN queues[u] : queues'[u][i] = queues[u][j] /\ queues'[u][i] # m
      BY <1>11
    <3>2. CASE t = s
      BY <1>6, <3>1, <3>2
    <3>3. CASE t # s
      BY <1>6, <2>1, <3>1, <3>3 DEF Busy, DrillInv, TakenApart
    <3> QED
      BY <3>2, <3>3
  <2>2. ASSUME NEW t \in Slots \ {s}, Busy(t)' PROVE judging'[t] # m
    BY <1>2, <1>6, <2>2 DEF Busy, DrillInv, TakenApart
  <2>3. ASSUME NEW t \in Slots, NEW u \in Slots, Busy(t)', Busy(u)', judging'[t] = judging'[u] PROVE t = u
    <3>1. CASE t = s \/ u = s
      BY <1>6, <2>2, <2>3, <3>1
    <3>2. CASE t # s /\ u # s
      BY <1>6, <2>3, <3>2 DEF Busy, DrillInv, TakenApart
    <3> QED
      BY <3>1, <3>2
  <2> QED
    BY <2>1, <2>3 DEF TakenApart
<1>14. UnjudgedWait'
  <2>1. ASSUME NEW t \in Slots, NEW i \in DOMAIN queues'[t] PROVE Unjudged(queues[t][i])'
    <3>1. PICK j \in DOMAIN queues[t] : queues'[t][i] = queues[t][j]
      BY <1>11
    <3>2. Unjudged(queues[t][j])
      BY <1>1 DEF DrillInv, UnjudgedWait
    <3> QED
      BY <3>1, <3>2 DEF Unjudged
  <2>2. ASSUME NEW t \in Slots, Busy(t)' PROVE Unjudged(judging[t])'
    <3>1. CASE t = s
      BY <1>3, <1>6, <3>1 DEF Unjudged
    <3>2. CASE t # s
      <4>1. Unjudged(judging[t]) /\ judging'[t] = judging[t]
        BY <1>6, <2>2, <3>2 DEF Busy, DrillInv, UnjudgedWait
      <4> QED
        BY <4>1 DEF Unjudged
    <3> QED
      BY <3>1, <3>2
  <2>3. \A n \in Mutants : verdicts'[n] # "none" =>
            drillPhase' # "bootstrap" /\ (drillPhase' = "shared" => modes'[n] = "shared")
    BY DEF DrillInv, UnjudgedWait
  <2> QED
    BY <2>1, <2>2, <2>3 DEF UnjudgedWait
<1> QED
  BY <1>7, <1>8, <1>9, <1>10, <1>12, <1>13, <1>14 DEF DrillInv

LEMMA QueuesNextKeeps == ASSUME DrillInv, NEW s \in Slots, QueuesNext(s) PROVE DrillInv'
<1>1. DrillTypes /\ slotStep[s] = "asking" /\ AliveAt(s) /\ SupAt(s) /\ queues \in [Slots -> Seq(Mutants)]
  BY SlotIs DEF DrillInv, QueuesNext, DrillTypes
<1>2. ASSUME NEW t \in Slots PROVE queues[t] \in Seq(Mutants) /\ \A i, j \in DOMAIN queues[t] : queues[t][i] = queues[t][j] => i = j
  BY <1>1 DEF DrillInv, QueuesApart
<1> DEFINE robbed(t) == t \in Slots /\ queues[t] # <<>> /\ Takes(s, Last(queues[t]), t, Front(queues[t]))
<1>a. /\ UNCHANGED modes /\ UNCHANGED prefers /\ UNCHANGED left /\ UNCHANGED alive /\ UNCHANGED sup
      /\ UNCHANGED status /\ UNCHANGED outcome /\ UNCHANGED accounted /\ UNCHANGED failure1
      /\ UNCHANGED drillStop /\ UNCHANGED verdicts /\ UNCHANGED drillPhase /\ UNCHANGED drillExit
  BY DEF QueuesNext
<1>b. \/ queues[s] # <<>> /\ Takes(s, Head(queues[s]), s, Tail(queues[s]))
      \/ \E t \in Slots : robbed(t)
      \/ (\A t \in Slots : queues[t] = <<>>) /\ SlotEnds(s, FALSE) /\ UNCHANGED queues /\ UNCHANGED judging
  BY DEF QueuesNext
<1>c. CASE queues[s] # <<>> /\ Takes(s, Head(queues[s]), s, Tail(queues[s]))
  <2>1. Remains(Tail(queues[s]), queues[s], Head(queues[s]))
    BY <1>2, <1>c, HeadRemains
  <2> QED
    BY <1>1, <1>a, <1>c, <2>1, TakesKeeps
<1>d. ASSUME NEW t \in Slots, robbed(t) PROVE DrillInv'
  <2>1. Remains(Front(queues[t]), queues[t], Last(queues[t]))
    BY <1>2, <1>d, LastRemains DEF Last, Front
  <2> QED
    BY <1>1, <1>a, <1>d, <2>1, TakesKeeps
<1>e. CASE SlotEnds(s, FALSE) /\ UNCHANGED queues /\ UNCHANGED judging
  <2> HIDE DEF robbed
  <2>0. /\ slotStep' \in [Slots -> SlotSteps] /\ slotStep'[s] = "over"
        /\ \A t \in Slots \ {s} : slotStep'[t] = slotStep[t]
        /\ slotErr' \subseteq Slots /\ slotErr \subseteq slotErr' /\ slotErr' \subseteq slotErr \cup {s}
    BY <1>1, <1>e, EndedIs
  <2>3. DrillTypes'
    BY <1>1, <1>a, <1>e, <2>0 DEF DrillTypes
  <2>4. AliveTells' /\ SupsTell'
    <3>1. AliveAt(s)' /\ SupAt(s)'
      BY <1>1, <1>a, <2>0 DEF AliveAt, SupAt
    <3> QED
      BY <1>a, <1>e, <2>0, <3>1, OthersStay
  <2>5. LeftTells'
    BY <1>a DEF DrillInv, LeftTells
  <2>6. HeardTell' /\ PhaseTells' /\ ExitTells'
    BY <1>1, <1>a, <2>0, StillHeard
  <2>9. StaysBusy
    BY <1>e, <2>0 DEF StaysBusy, Busy
  <2>7. QueuesApart' /\ TakenApart'
    BY <1>e, <2>9, StillApart
  <2>8. UnjudgedWait'
    BY <1>a, <1>e, <2>9, StillUnjudged
  <2> QED
    BY <2>3, <2>4, <2>5, <2>6, <2>7, <2>8 DEF DrillInv
<1> QED
  BY <1>b, <1>c, <1>d, <1>e

LEMMA WorkersAre == /\ Cardinality(Workers("shared")) = NSlots /\ Cardinality(Workers("alone")) = 1 /\ NSlots \in Nat \ {0}
<1>1. Workers("shared") = Slots /\ Workers("alone") = {1}
  BY DEF Workers
<1>2. Cardinality({1}) = 1
  BY FS_Singleton
<1> QED
  BY <1>1, <1>2, SlotsAre

LEMMA AccountKeeps == ASSUME DrillInv, Account PROVE DrillInv'
<1> DEFINE n == accounted + 1
<1>1. DrillTypes /\ drillPhase \in {"shared", "alone"} /\ accounted \in 0..NSlots /\ NSlots \in Nat \ {0}
  BY SlotsAre DEF DrillInv, Account, DrillTypes
<1>2. accounted < Cardinality(Workers(drillPhase)) /\ slotStep[n] = "over" /\ accounted' = n
  BY DEF Account
<1>3. Cardinality(Workers(drillPhase)) \in 1..NSlots
  BY <1>1, WorkersAre
<1>4. n \in 0..NSlots
  BY <1>1, <1>2, <1>3
<1>5. /\ UNCHANGED modes /\ UNCHANGED prefers /\ UNCHANGED left /\ UNCHANGED queues /\ UNCHANGED slotStep
      /\ UNCHANGED judging /\ UNCHANGED alive /\ UNCHANGED sup /\ UNCHANGED status /\ UNCHANGED outcome
      /\ UNCHANGED slotErr /\ UNCHANGED verdicts /\ UNCHANGED drillPhase /\ UNCHANGED drillExit
  BY DEF Account
<1>6. /\ failure1' \in BOOLEAN /\ drillStop' \in BOOLEAN /\ (failure1 => failure1') /\ (drillStop => drillStop')
      /\ (n \in slotErr => failure1')
  <2>1. failure1 \in BOOLEAN /\ drillStop \in BOOLEAN
    BY <1>1 DEF DrillTypes
  <2> QED
    BY <2>1 DEF Account
<1>7. DrillTypes'
  BY <1>1, <1>2, <1>4, <1>5, <1>6 DEF DrillTypes
<1>8. AliveTells' /\ SupsTell'
  BY <1>5, <1>6 DEF DrillInv, AliveTells, SupsTell, AliveAt, SupAt
<1>9. LeftTells'
  BY <1>5 DEF DrillInv, LeftTells
<1>10. HeardTell'
  <2>1. ASSUME NEW s \in Slots, s <= n PROVE slotStep[s] = "over" /\ (s \in slotErr => failure1')
    <3>1. s = n \/ s <= accounted
      BY <1>1, <2>1, SlotsAre
    <3> QED
      BY <1>2, <1>6, <3>1 DEF DrillInv, HeardTell
  <2> QED
    BY <1>2, <1>5, <2>1 DEF HeardTell
<1>11. PhaseTells' /\ ExitTells'
  BY <1>5 DEF DrillInv, PhaseTells, ExitTells
<1>12. StaysBusy
  BY <1>5 DEF StaysBusy, Busy
<1>13. QueuesApart' /\ TakenApart'
  BY <1>5, <1>12, StillApart
<1>14. UnjudgedWait'
  BY <1>5, <1>12, StillUnjudged
<1> QED
  BY <1>7, <1>8, <1>9, <1>10, <1>11, <1>13, <1>14 DEF DrillInv

LEMMA StopSignalKeeps == ASSUME DrillInv, StopSignal PROVE DrillInv'
<1>1. /\ UNCHANGED modes /\ UNCHANGED prefers /\ UNCHANGED left /\ UNCHANGED queues /\ UNCHANGED slotStep
      /\ UNCHANGED judging /\ UNCHANGED alive /\ UNCHANGED sup /\ UNCHANGED status /\ UNCHANGED outcome
      /\ UNCHANGED slotErr /\ UNCHANGED verdicts /\ UNCHANGED drillPhase /\ UNCHANGED drillExit
      /\ UNCHANGED accounted /\ UNCHANGED failure1 /\ drillStop' = TRUE
  BY DEF StopSignal
<1>2. DrillTypes'
  BY <1>1 DEF DrillInv, DrillTypes
<1>3. AliveTells' /\ SupsTell'
  BY <1>1 DEF DrillInv, AliveTells, SupsTell, AliveAt, SupAt
<1>4. LeftTells' /\ HeardTell' /\ PhaseTells' /\ ExitTells'
  BY <1>1 DEF DrillInv, LeftTells, HeardTell, PhaseTells, ExitTells
<1>5. StaysBusy
  BY <1>1 DEF StaysBusy, Busy
<1>6. QueuesApart' /\ TakenApart'
  BY <1>1, <1>5, StillApart
<1>7. UnjudgedWait'
  BY <1>1, <1>5, StillUnjudged
<1> QED
  BY <1>2, <1>3, <1>4, <1>6, <1>7 DEF DrillInv

\* Outside the phases no slot works.
LEMMA IdleIs ==
    ASSUME DrillInv, drillPhase \notin {"shared", "alone"}
    PROVE  \A s \in Slots : slotStep[s] = "over" /\ ~Busy(s)
BY DEF DrillInv, PhaseTells, Busy

LEMMA DrillEndsKeeps == ASSUME DrillInv, DrillEnds PROVE DrillInv'
<1>1. /\ UNCHANGED modes /\ UNCHANGED prefers /\ UNCHANGED left /\ UNCHANGED queues /\ UNCHANGED slotStep
      /\ UNCHANGED judging /\ UNCHANGED drillStop /\ UNCHANGED sup /\ UNCHANGED status /\ UNCHANGED outcome
      /\ UNCHANGED slotErr /\ UNCHANGED verdicts /\ UNCHANGED accounted /\ UNCHANGED failure1
      /\ drillPhase = "clean" /\ drillPhase' = "over"
  BY DEF DrillEnds
<1>2. \/ alive' = [s \in Slots |-> {}]
      \/ UNCHANGED alive /\ drillExit' = 1
  BY DEF DrillEnds
<1>3. \A s \in Slots : slotStep[s] = "over" /\ ~Busy(s)
  BY <1>1, IdleIs
<1>4. DrillTypes'
  <2>1. alive' \in [Slots -> SUBSET Mutants]
    BY <1>2 DEF DrillInv, DrillTypes
  <2> QED
    BY <1>1, <2>1 DEF DrillInv, DrillTypes
<1>5. AliveTells' /\ SupsTell'
  <2>1. \A s \in Slots : alive'[s] = {} \/ alive'[s] = alive[s]
    BY <1>2
  <2> QED
    BY <1>1, <1>3, <2>1 DEF DrillInv, AliveTells, SupsTell, AliveAt, SupAt
<1>6. LeftTells' /\ HeardTell'
  BY <1>1 DEF DrillInv, LeftTells, HeardTell
<1>7. PhaseTells' /\ ExitTells'
  BY <1>1, <1>2, <1>3 DEF PhaseTells, ExitTells
<1>8. StaysBusy /\ \A s \in Slots : ~Busy(s)'
  BY <1>1, <1>3 DEF StaysBusy, Busy
<1>9. QueuesApart' /\ TakenApart'
  BY <1>1, <1>8, StillApart
<1>10. UnjudgedWait'
  BY <1>1, <1>8 DEF UnjudgedWait
<1> QED
  BY <1>4, <1>5, <1>6, <1>7, <1>9, <1>10 DEF DrillInv

\* The work of a phase ends for good.
LEMMA CleanKeeps ==
    ASSUME DrillInv, \A s \in Slots : slotStep[s] = "over",
           drillPhase' = "clean", drillExit # 0, failure1' \in BOOLEAN, failure1 => failure1',
           UNCHANGED modes, UNCHANGED prefers, UNCHANGED left, UNCHANGED queues, UNCHANGED slotStep,
           UNCHANGED judging, UNCHANGED alive, UNCHANGED sup, UNCHANGED status, UNCHANGED outcome,
           UNCHANGED slotErr, UNCHANGED accounted, UNCHANGED drillStop, UNCHANGED verdicts, UNCHANGED drillExit
    PROVE  DrillInv'
<1>1. DrillTypes'
  BY DEF DrillInv, DrillTypes
<1>2. AliveTells' /\ SupsTell'
  BY DEF DrillInv, AliveTells, SupsTell, AliveAt, SupAt
<1>3. LeftTells' /\ HeardTell'
  BY DEF DrillInv, LeftTells, HeardTell
<1>4. PhaseTells' /\ ExitTells'
  BY DEF PhaseTells, ExitTells
<1>5. StaysBusy /\ \A s \in Slots : ~Busy(s)'
  BY DEF StaysBusy, Busy
<1>6. QueuesApart' /\ TakenApart'
  BY <1>5, StillApart
<1>7. UnjudgedWait'
  BY <1>5 DEF UnjudgedWait
<1> QED
  BY <1>1, <1>2, <1>3, <1>4, <1>6, <1>7 DEF DrillInv

\* The queues of a phase list what is judged in it.
LEMMA PhaseBegins ==
    ASSUME DrillInv, NEW phase \in {"shared", "alone"}, BeginPhase(phase),
           \A s \in Slots : slotStep[s] = "over" /\ (alive[s] = {} \/ drillStop),
           drillExit # 0, \A m \in Mutants : modes[m] = phase => verdicts[m] = "none",
           \A m \in Mutants : verdicts[m] # "none" => phase = "alone",
           UNCHANGED modes, UNCHANGED prefers, UNCHANGED left, UNCHANGED judging, UNCHANGED alive, UNCHANGED sup,
           UNCHANGED status, UNCHANGED outcome, UNCHANGED slotErr, UNCHANGED failure1, UNCHANGED drillStop,
           UNCHANGED verdicts, UNCHANGED drillExit
    PROVE  DrillInv'
<1> DEFINE slot(m) == IF phase = "shared" THEN prefers[m] ELSE 1
           Theirs(s) == {m \in Mutants : modes[m] = phase /\ slot(m) = s}
<1>1. /\ drillPhase' = phase /\ accounted' = 0 /\ queues' = [s \in Slots |-> SetToSeq1(Theirs(s))]
      /\ slotStep' = [s \in Slots |-> IF s \in Workers(phase) THEN "loop" ELSE "over"]
  BY DEF BeginPhase
<1>2. ASSUME NEW s \in Slots
      PROVE  /\ queues'[s] \in Seq(Mutants)
             /\ \A i \in DOMAIN queues'[s] : queues'[s][i] \in Theirs(s)
             /\ \A i, j \in DOMAIN queues'[s] : queues'[s][i] = queues'[s][j] => i = j
  <2>1. Theirs(s) \in SUBSET Mutants /\ queues'[s] = SetToSeq1(Theirs(s))
    BY <1>1
  <2> HIDE DEF Theirs
  <2> QED
    BY <2>1, ListedAre
<1>3. queues' \in [Slots -> Seq(Mutants)]
  BY <1>1, <1>2
<1> HIDE DEF slot
<1>4. \A s \in Slots : slotStep'[s] \in {"loop", "over"} /\ (phase = "alone" /\ s # 1 => slotStep'[s] = "over")
  BY <1>1 DEF Workers
<1>5. DrillTypes'
  <2>1. slotStep' \in [Slots -> SlotSteps] /\ accounted' \in 0..NSlots
    BY <1>1, SlotsAre DEF SlotSteps
  <2> QED
    BY <1>1, <1>3, <2>1 DEF DrillInv, DrillTypes
<1>6. AliveTells' /\ SupsTell'
  BY <1>4 DEF DrillInv, AliveTells, SupsTell, AliveAt, SupAt
<1>7. LeftTells'
  BY DEF DrillInv, LeftTells
<1>8. HeardTell' /\ ExitTells'
  BY <1>1, SlotsAre DEF HeardTell, ExitTells, Slots
<1>9. PhaseTells'
  BY <1>1, <1>4 DEF PhaseTells
<1>10. QueuesApart'
  <2> SUFFICES ASSUME NEW s \in Slots, NEW t \in Slots, NEW i \in DOMAIN queues'[s], NEW j \in DOMAIN queues'[t],
                      queues'[s][i] = queues'[t][j]
               PROVE  s = t /\ i = j
    BY DEF QueuesApart
  <2>1. slot(queues'[s][i]) = s /\ slot(queues'[t][j]) = t
    BY <1>2
  <2>2. s = t
    BY <2>1
  <2> QED
    BY <1>2, <2>2
<1>11. \A s \in Slots : ~Busy(s)'
  BY <1>4 DEF Busy
<1>12. TakenApart'
  BY <1>11 DEF TakenApart
<1>13. UnjudgedWait'
  <2>1. ASSUME NEW s \in Slots, NEW i \in DOMAIN queues'[s] PROVE Unjudged(queues[s][i])'
    <3>1. queues'[s][i] \in Mutants /\ modes[queues'[s][i]] = phase
      BY <1>2
    <3> QED
      BY <1>1, <3>1 DEF Unjudged
  <2>2. \A m \in Mutants : verdicts'[m] # "none" =>
            drillPhase' # "bootstrap" /\ (drillPhase' = "shared" => modes'[m] = "shared")
    BY <1>1
  <2> QED
    BY <1>11, <2>1, <2>2 DEF UnjudgedWait
<1> QED
  BY <1>5, <1>6, <1>7, <1>8, <1>9, <1>10, <1>12, <1>13 DEF DrillInv

LEMMA BootstrapKeeps == ASSUME DrillInv, Bootstrap PROVE DrillInv'
<1>1. /\ drillPhase = "bootstrap" /\ UNCHANGED modes /\ UNCHANGED prefers /\ UNCHANGED left /\ UNCHANGED judging
      /\ UNCHANGED alive /\ UNCHANGED sup /\ UNCHANGED status /\ UNCHANGED outcome /\ UNCHANGED slotErr
      /\ UNCHANGED drillStop /\ UNCHANGED verdicts /\ UNCHANGED drillExit
  BY DEF Bootstrap
<1>2. \A s \in Slots : slotStep[s] = "over" /\ alive[s] = {}
  BY <1>1 DEF DrillInv, PhaseTells
<1>3. drillExit # 0 /\ \A m \in Mutants : verdicts[m] = "none"
  BY <1>1 DEF DrillInv, ExitTells, UnjudgedWait
<1>4. CASE BeginPhase("shared") /\ UNCHANGED failure1
  BY <1>1, <1>2, <1>3, <1>4, PhaseBegins
<1>5. CASE /\ drillPhase' = "clean" /\ failure1' = TRUE /\ UNCHANGED accounted /\ UNCHANGED queues
           /\ UNCHANGED slotState /\ UNCHANGED slotStep
  BY <1>1, <1>2, <1>3, <1>5, CleanKeeps
<1> QED
  BY <1>4, <1>5 DEF Bootstrap

LEMMA PhaseEndsKeeps == ASSUME DrillInv, PhaseEnds PROVE DrillInv'
<1>1. /\ drillPhase \in {"shared", "alone"} /\ UNCHANGED modes /\ UNCHANGED prefers /\ UNCHANGED left
      /\ UNCHANGED judging /\ UNCHANGED alive /\ UNCHANGED sup /\ UNCHANGED status /\ UNCHANGED outcome
      /\ UNCHANGED slotErr /\ UNCHANGED failure1 /\ UNCHANGED drillStop /\ UNCHANGED verdicts
      /\ UNCHANGED drillExit /\ accounted = Cardinality(Workers(drillPhase))
  BY DEF PhaseEnds
<1>2. \A s \in Slots : s <= accounted \/ (drillPhase = "alone" /\ s # 1)
  <2>1. CASE drillPhase = "shared"
    BY <1>1, <2>1, WorkersAre DEF Slots
  <2>2. CASE drillPhase = "alone"
    BY <1>1, <2>2, WorkersAre DEF Slots
  <2> QED
    BY <1>1, <2>1, <2>2
<1>3. \A s \in Slots : slotStep[s] = "over"
  BY <1>2 DEF DrillInv, HeardTell, PhaseTells
<1>4. drillExit # 0
  BY <1>1 DEF DrillInv, ExitTells
<1>5. CASE drillPhase = "shared" /\ ~failure1 /\ BeginPhase("alone")
  <2>1. \A s \in Slots : alive[s] = {} \/ drillStop
    BY <1>2, <1>3, <1>5 DEF DrillInv, HeardTell, AliveTells, AliveAt
  <2>2. \A m \in Mutants : modes[m] = "alone" => verdicts[m] = "none"
    BY <1>5 DEF DrillInv, UnjudgedWait
  <2> QED
    BY <1>1, <1>3, <1>4, <1>5, <2>1, <2>2, PhaseBegins
<1>6. CASE drillPhase' = "clean" /\ UNCHANGED accounted /\ UNCHANGED queues /\ UNCHANGED slotStep
  <2>1. failure1' \in BOOLEAN
    BY <1>1 DEF DrillInv, DrillTypes
  <2> QED
    BY <1>1, <1>3, <1>4, <1>6, <2>1, CleanKeeps
<1> QED
  BY <1>5, <1>6 DEF PhaseEnds

LEMMA DrillStays == ASSUME DrillInv, UNCHANGED drillVars PROVE DrillInv'
<1>1. DrillTypes' /\ AliveTells' /\ SupsTell' /\ LeftTells'
  BY DEF drillVars, DrillInv, DrillTypes, AliveTells, SupsTell, LeftTells, AliveAt, SupAt
<1>2. HeardTell' /\ PhaseTells' /\ ExitTells'
  BY DEF drillVars, DrillInv, HeardTell, PhaseTells, ExitTells
<1>3. StaysBusy /\ UNCHANGED queues /\ UNCHANGED modes /\ UNCHANGED verdicts /\ UNCHANGED drillPhase
  BY DEF drillVars, StaysBusy, Busy
<1> QED
  BY <1>1, <1>2, <1>3, StillApart, StillUnjudged DEF DrillInv

LEMMA DrillSteps == DrillInv /\ [DrillNext]_drillVars => DrillInv'
<1> SUFFICES ASSUME DrillInv, [DrillNext]_drillVars PROVE DrillInv'
  OBVIOUS
<1>1. ASSUME NEW s \in Slots, SlotCode(s) PROVE DrillInv'
  BY <1>1, LoopKeeps, QueuesNextKeeps, StartWorkerKeeps, RecordKeeps DEF SlotCode
<1>2. ASSUME NEW s \in Slots, WorkerCopies(s) \/ WorkerJudges(s) \/ Supervise(s) \/ SupervisorDies(s) PROVE DrillInv'
  BY <1>2, WorkerCopiesKeeps, WorkerJudgesKeeps, SuperviseKeeps
<1>3. CASE Bootstrap \/ Account \/ PhaseEnds \/ StopSignal \/ DrillEnds
  BY <1>3, BootstrapKeeps, AccountKeeps, PhaseEndsKeeps, StopSignalKeeps, DrillEndsKeeps
<1>4. CASE UNCHANGED drillVars
  BY <1>4, DrillStays
<1> QED
  BY <1>1, <1>2, <1>3, <1>4 DEF DrillNext

LEMMA DrillInvIsSound == DrillInv => DrillIsSound
<1> SUFFICES ASSUME DrillInv PROVE DrillIsSound
  OBVIOUS
<1>1. \A s \in Slots : slotStep[s] = "running" => alive[s] \subseteq {judging[s]}
  BY DEF DrillInv, AliveTells, AliveAt
<1>2. \A s \in Slots : outcome[s] = "caught" => left[s] \in {"nothing", "cache"}
  BY DEF DrillInv, LeftTells, DrillTypes
<1>3. \A s, t \in Slots : s # t /\ {slotStep[s], slotStep[t]} \subseteq {"spawn", "running", "reaped"}
                             => judging[s] # judging[t]
  BY DEF DrillInv, TakenApart, Busy
<1>4. \A s \in Slots : slotStep[s] \in {"spawn", "running"} => verdicts[judging[s]] = "none"
  BY DEF DrillInv, UnjudgedWait, Unjudged, Busy
<1>5. drillExit = 0 => \A s \in Slots : alive[s] = {}
  BY DEF DrillInv, ExitTells
<1> QED
  BY <1>1, <1>2, <1>3, <1>4, <1>5 DEF DrillIsSound

\* A drill judges every mutant alone in its tree and once, and one that is
\* clean leaves no process, for any mutants, slots and interleaving (record,
\* supervision_linux.go:151; Next, slots.go:53).
THEOREM DrillsAreSound == DrillSpec => []DrillIsSound
<1>1. DrillInit => DrillInv
  BY DrillStart
<1>2. DrillInv /\ [DrillNext]_drillVars => DrillInv'
  BY DrillSteps
<1>3. DrillInv => DrillIsSound
  BY DrillInvIsSound
<1> QED
  BY <1>1, <1>2, <1>3, PTL DEF DrillSpec

-----------------------------------------------------------------------------
(* The shards of a run and their gate *)

LEMMA WeightIs == \A timing \in Timings, m \in Mutants : Weight(timing, m) \in Nat
BY DrillAssumption DEF Weight, DefaultWeight

Soonest(timing, T, a) == a \in T /\ \A b \in T \ {a} : Sooner(timing, a, b)

\* The mutants of any rest have a first one to deal.
LEMMA SoonestExists ==
    ASSUME NEW timing \in Timings, NEW S \in SUBSET Mutants, S # {}
    PROVE  \E a \in S : Soonest(timing, S, a)
<1> DEFINE Firsts(T) == \E a \in T : Soonest(timing, T, a)
           Bad == {n \in Nat : \E T \in SUBSET Mutants :
                                  IsFiniteSet(T) /\ Cardinality(T) = n /\ T # {} /\ ~Firsts(T)}
<1>0. \A T \in SUBSET Mutants : IsFiniteSet(T) /\ Cardinality(T) \in Nat
  BY DrillAssumption, FS_Subset, FS_CardinalityType
<1>1. SUFFICES ASSUME Bad # {} PROVE FALSE
  BY <1>0
<1>2. PICK n \in Bad : \A m \in Bad : n <= m
  <2>1. Bad \in SUBSET Nat
    OBVIOUS
  <2> QED
    BY <1>1, <2>1, LeastNatural
<1>3. PICK T \in SUBSET Mutants : IsFiniteSet(T) /\ Cardinality(T) = n /\ T # {} /\ ~Firsts(T)
  OBVIOUS
<1>4. n \in Nat /\ \A m \in Nat : m \in Bad => n <= m
  BY <1>2
<1>5. PICK x \in T : TRUE
  BY <1>3
<1> DEFINE R == T \ {x}
<1>6. R \in SUBSET Mutants /\ IsFiniteSet(R) /\ Cardinality(R) = n - 1 /\ n - 1 \in Nat
  <2>1. IsFiniteSet(R) /\ Cardinality(R) = n - 1
    BY <1>3, <1>5, FS_RemoveElement
  <2>2. Cardinality(R) \in Nat
    BY <2>1, FS_CardinalityType
  <2> QED
    BY <2>1, <2>2
<1> HIDE DEF Firsts
<1>7. R = {} \/ Firsts(R)
  <2> SUFFICES ASSUME R # {}, ~Firsts(R) PROVE FALSE
    OBVIOUS
  <2>1. n - 1 \in Bad
    BY <1>6
  <2> HIDE DEF Bad
  <2> QED
    BY <1>4, <1>6, <2>1
<1> HIDE DEF Bad
<1>8. CASE R = {}
  <2>1. \A b \in T : b = x
    BY <1>8
  <2> QED
    BY <1>3, <1>5, <2>1 DEF Firsts, Soonest
<1>9. CASE Firsts(R)
  <2>1. PICK r \in R : Soonest(timing, R, r)
    BY <1>9 DEF Firsts
  <2>2. r \in T /\ r \in Mutants /\ x \in Mutants /\ r # x
    BY <1>3, <1>5, <2>1
  <2>3. \A b \in T : b \in Nat /\ Weight(timing, b) \in Nat
    BY <1>3, DrillAssumption, WeightIs
  <2>4. CASE Sooner(timing, r, x)
    <3>1. \A b \in T \ {r} : Sooner(timing, r, b)
      BY <2>1, <2>4 DEF Soonest
    <3> QED
      BY <1>3, <2>2, <3>1 DEF Firsts, Soonest
  <2>5. CASE Sooner(timing, x, r)
    <3>1. ASSUME NEW b \in T \ {x} PROVE Sooner(timing, x, b)
      <4>1. b = r \/ Sooner(timing, r, b)
        BY <2>1 DEF Soonest
      <4>2. b \in Nat /\ r \in Nat /\ x \in Nat /\ Weight(timing, b) \in Nat /\ Weight(timing, r) \in Nat /\ Weight(timing, x) \in Nat
        BY <1>5, <2>2, <2>3
      <4> QED
        BY <2>5, <4>1, <4>2 DEF Sooner
    <3> QED
      BY <1>3, <1>5, <3>1 DEF Firsts, Soonest
  <2>6. Sooner(timing, r, x) \/ Sooner(timing, x, r)
    <3>1. r \in Nat /\ x \in Nat /\ Weight(timing, r) \in Nat /\ Weight(timing, x) \in Nat
      BY <1>5, <2>2, <2>3
    <3> QED
      BY <2>2, <3>1 DEF Sooner
  <2> QED
    BY <2>4, <2>5, <2>6
<1> QED
  BY <1>7, <1>8, <1>9

\* A plan under way: every mutant waits or is in one bucket, once.
PlanTypes(plan, n) ==
    /\ plan.rest \in SUBSET Mutants /\ plan.load \in [1..n -> Nat] /\ plan.buckets \in [1..n -> Seq(Mutants)]
DealtOnce(plan, n) ==
    /\ \A j, l \in 1..n : \A i \in DOMAIN plan.buckets[j], k \in DOMAIN plan.buckets[l] :
          plan.buckets[j][i] = plan.buckets[l][k] => j = l /\ i = k
    /\ \A j \in 1..n : \A i \in DOMAIN plan.buckets[j] : plan.buckets[j][i] \notin plan.rest
DealtAll(plan, n) ==
    \A m \in Mutants : m \in plan.rest \/ \E j \in 1..n : \E i \in DOMAIN plan.buckets[j] : plan.buckets[j][i] = m
DealtTo(plan, n, k) ==
    /\ Cardinality(plan.rest) = Cardinality(Mutants) - k
    /\ \A j \in 1..n : Len(plan.buckets[j]) <= k
IsPlan(plan, n, k) == PlanTypes(plan, n) /\ DealtOnce(plan, n) /\ DealtAll(plan, n) /\ DealtTo(plan, n, k)

\* One more mutant is dealt, to one shard.
OneDealt(next, plan, n) ==
    \E m \in plan.rest, shard \in 1..n :
        /\ next.rest = plan.rest \ {m} /\ next.load \in [1..n -> Nat]
        /\ next.buckets = [plan.buckets EXCEPT ![shard] = Append(@, m)]

LEMMA DealIs ==
    ASSUME NEW mode, NEW timing \in Timings, NEW n \in Nat \ {0}, NEW plan, PlanTypes(plan, n), plan.rest # {}
    PROVE  OneDealt(Deal(mode, timing, plan), plan, n)
<1> DEFINE m == CHOOSE a \in plan.rest : \A b \in plan.rest \ {a} : Sooner(timing, a, b)
           cost == Weight(timing, m) * (IF mode[m] = "shared" THEN 1 ELSE SharedDivisor)
           lightest == {i \in DOMAIN plan.load : \A j \in DOMAIN plan.load : plan.load[i] <= plan.load[j]}
           shard == CHOOSE i \in lightest : \A j \in lightest : i <= j
<1>1. /\ Deal(mode, timing, plan).rest = plan.rest \ {m}
      /\ Deal(mode, timing, plan).load = [plan.load EXCEPT ![shard] = @ + cost]
      /\ Deal(mode, timing, plan).buckets = [plan.buckets EXCEPT ![shard] = Append(@, m)]
  BY DEF Deal
<1>2. m \in plan.rest
  <2>1. \E a \in plan.rest : \A b \in plan.rest \ {a} : Sooner(timing, a, b)
    BY SoonestExists DEF PlanTypes, Soonest
  <2> QED
    BY <2>1
<1>3. m \in Mutants
  BY <1>2 DEF PlanTypes
<1> HIDE DEF m
<1>4. cost \in Nat
  <2>1. Weight(timing, m) \in Nat
    BY <1>3, WeightIs
  <2> QED
    BY <2>1 DEF SharedDivisor
<1> HIDE DEF cost
<1>5. lightest # {}
  <2> DEFINE loads == {plan.load[i] : i \in 1..n}
  <2>1. loads \in SUBSET Nat /\ loads # {}
    BY DEF PlanTypes
  <2>2. PICK w \in loads : \A v \in loads : w <= v
    <3> HIDE DEF loads
    <3> QED
      BY <2>1, LeastNatural
  <2>3. PICK i \in 1..n : w = plan.load[i]
    BY <2>2
  <2>4. i \in lightest
    BY <2>2, <2>3 DEF PlanTypes
  <2> QED
    BY <2>4
<1>6. lightest \in SUBSET Nat /\ lightest \subseteq 1..n
  BY DEF PlanTypes
<1>7. shard \in lightest
  <2> HIDE DEF lightest
  <2>1. \E i \in lightest : \A j \in lightest : i <= j
    BY <1>5, <1>6, LeastNatural
  <2> QED
    BY <2>1
<1> HIDE DEF shard, lightest
<1>8. shard \in 1..n
  BY <1>6, <1>7
<1>9. [plan.load EXCEPT ![shard] = @ + cost] \in [1..n -> Nat]
  BY <1>4, <1>8 DEF PlanTypes
<1> QED
  BY <1>1, <1>2, <1>8, <1>9 DEF OneDealt

LEMMA DealKeeps ==
    ASSUME NEW mode, NEW timing \in Timings, NEW n \in Nat \ {0}, NEW plan,
           NEW k \in Nat, k < Cardinality(Mutants), IsPlan(plan, n, k)
    PROVE  IsPlan(Deal(mode, timing, plan), n, k + 1)
<1>0. IsFiniteSet(plan.rest) /\ Cardinality(Mutants) \in Nat /\ PlanTypes(plan, n)
  BY DrillAssumption, FS_Subset, FS_CardinalityType DEF IsPlan, PlanTypes
<1>1. plan.rest # {}
  <2>1. Cardinality(plan.rest) # 0
    BY <1>0 DEF IsPlan, DealtTo
  <2> QED
    BY <2>1, FS_EmptySet
<1> DEFINE next == Deal(mode, timing, plan)
<1>2. PICK m \in plan.rest, shard \in 1..n :
        /\ next.rest = plan.rest \ {m} /\ next.load \in [1..n -> Nat]
        /\ next.buckets = [plan.buckets EXCEPT ![shard] = Append(@, m)]
  <2>1. OneDealt(next, plan, n)
    BY <1>0, <1>1, DealIs
  <2> QED
    BY <2>1 DEF OneDealt
<1> HIDE DEF next
<1>3. m \in Mutants /\ plan.buckets \in [1..n -> Seq(Mutants)] /\ plan.buckets[shard] \in Seq(Mutants)
  BY <1>0 DEF PlanTypes
<1> DEFINE q == plan.buckets[shard]
           p == Append(q, m)
<1>4. /\ p \in Seq(Mutants) /\ Len(p) = Len(q) + 1 /\ Len(q) \in Nat
      /\ \A i \in 1..Len(q) : p[i] = q[i]
      /\ p[Len(q) + 1] = m
  BY <1>3, AppendProperties, LenProperties
<1>5. DOMAIN p = 1..(Len(q) + 1) /\ DOMAIN q = 1..Len(q)
  BY <1>3, <1>4, LenProperties
<1> HIDE DEF p
<1>6. next.buckets[shard] = p /\ \A j \in 1..n : j # shard => next.buckets[j] = plan.buckets[j]
  BY <1>2, <1>3 DEF p
<1>7. PlanTypes(next, n)
  BY <1>0, <1>2, <1>3, <1>4 DEF PlanTypes, p
<1>8. ASSUME NEW j \in 1..n, NEW i \in DOMAIN next.buckets[j]
      PROVE  \/ i \in DOMAIN plan.buckets[j] /\ next.buckets[j][i] = plan.buckets[j][i]
             \/ j = shard /\ i = Len(q) + 1 /\ next.buckets[j][i] = m
  <2>1. CASE j = shard
    <3> HIDE DEF q
    <3>1. i \in 1..(Len(q) + 1) /\ next.buckets[j] = p
      BY <1>5, <1>6, <2>1
    <3>2. i \in 1..Len(q) \/ i = Len(q) + 1
      BY <1>4, <3>1
    <3>3. i \in 1..Len(q) => i \in DOMAIN q /\ next.buckets[j][i] = q[i]
      BY <1>4, <1>5, <3>1
    <3>4. i = Len(q) + 1 => next.buckets[j][i] = m
      BY <1>4, <3>1
    <3> QED
      BY <2>1, <3>2, <3>3, <3>4 DEF q
  <2>2. CASE j # shard
    BY <1>6, <2>2
  <2> QED
    BY <2>1, <2>2
<1> HIDE DEF q
<1>9. DealtOnce(next, n)
  <2>0. DealtOnce(plan, n)
    BY DEF IsPlan
  <2>1. ASSUME NEW j \in 1..n, NEW l \in 1..n, NEW i \in DOMAIN next.buckets[j], NEW h \in DOMAIN next.buckets[l],
               next.buckets[j][i] = next.buckets[l][h]
        PROVE  j = l /\ i = h
    <3>1. CASE i \in DOMAIN plan.buckets[j] /\ next.buckets[j][i] = plan.buckets[j][i]
      <4>1. plan.buckets[j][i] # m
        BY <2>0, <3>1 DEF DealtOnce
      <4>2. h \in DOMAIN plan.buckets[l] /\ next.buckets[l][h] = plan.buckets[l][h]
        BY <1>8, <2>1, <3>1, <4>1
      <4>3. plan.buckets[j][i] = plan.buckets[l][h]
        BY <2>1, <3>1, <4>2
      <4> QED
        BY <2>0, <3>1, <4>2, <4>3 DEF DealtOnce
    <3>2. CASE j = shard /\ i = Len(q) + 1 /\ next.buckets[j][i] = m
      <4>1. ASSUME h \in DOMAIN plan.buckets[l], next.buckets[l][h] = plan.buckets[l][h] PROVE FALSE
        BY <2>0, <2>1, <3>2, <4>1 DEF DealtOnce
      <4> QED
        BY <1>8, <3>2, <4>1
    <3> QED
      BY <1>8, <3>1, <3>2
  <2>2. ASSUME NEW j \in 1..n, NEW i \in DOMAIN next.buckets[j] PROVE next.buckets[j][i] \notin next.rest
    BY <1>2, <1>8, <2>0 DEF DealtOnce
  <2> QED
    BY <2>1, <2>2 DEF DealtOnce
<1>10. DealtAll(next, n)
  <2> SUFFICES ASSUME NEW a \in Mutants, a \notin next.rest
               PROVE  \E j \in 1..n : \E i \in DOMAIN next.buckets[j] : next.buckets[j][i] = a
    BY DEF DealtAll
  <2>1. CASE a = m
    BY <1>4, <1>5, <1>6, <2>1 DEF p
  <2>2. CASE a # m
    <3>1. a \notin plan.rest
      BY <1>2, <2>2
    <3>2. PICK j \in 1..n : \E i \in DOMAIN plan.buckets[j] : plan.buckets[j][i] = a
      BY <3>1 DEF IsPlan, DealtAll
    <3>3. PICK i \in DOMAIN plan.buckets[j] : plan.buckets[j][i] = a
      BY <3>2
    <3>4. i \in DOMAIN next.buckets[j] /\ next.buckets[j][i] = a
      <4>1. CASE j = shard
        <5>1. i \in 1..Len(q) /\ q[i] = a
          BY <1>5, <3>3, <4>1 DEF q
        <5>2. i \in DOMAIN p /\ p[i] = a
          BY <1>4, <1>5, <5>1
        <5> QED
          BY <1>6, <4>1, <5>2
      <4>2. CASE j # shard
        BY <1>6, <3>3, <4>2
      <4> QED
        BY <4>1, <4>2
    <3> QED
      BY <3>4
  <2> QED
    BY <2>1, <2>2
<1>11. DealtTo(next, n, k + 1)
  <2>1. Cardinality(next.rest) = Cardinality(plan.rest) - 1
    <3> DEFINE R == plan.rest
    <3>1. IsFiniteSet(R) /\ m \in R
      BY <1>0
    <3> HIDE DEF R
    <3>2. Cardinality(R \ {m}) = Cardinality(R) - 1
      BY <3>1, FS_RemoveElement
    <3> QED
      BY <1>2, <3>2 DEF R
  <2>2. ASSUME NEW j \in 1..n PROVE Len(next.buckets[j]) <= k + 1
    <3>1. Len(plan.buckets[j]) <= k /\ Len(plan.buckets[j]) \in Nat
      BY <1>3, LenProperties DEF IsPlan, DealtTo
    <3>2. CASE j = shard
      BY <1>4, <1>6, <3>1, <3>2 DEF q
    <3>3. CASE j # shard
      BY <1>6, <3>1, <3>3
    <3> QED
      BY <3>2, <3>3
  <2> QED
    BY <1>0, <2>1, <2>2 DEF IsPlan, DealtTo
<1> QED
  BY <1>7, <1>9, <1>10, <1>11 DEF IsPlan, next

LEMMA PlanStarts ==
    ASSUME NEW n \in Nat \ {0}
    PROVE  IsPlan([rest |-> Mutants, load |-> [i \in 1..n |-> 0], buckets |-> [i \in 1..n |-> <<>>]], n, 0)
<1> DEFINE plan == [rest |-> Mutants, load |-> [i \in 1..n |-> 0], buckets |-> [i \in 1..n |-> <<>>]]
<1>1. plan.rest = Mutants /\ plan.load = [i \in 1..n |-> 0] /\ plan.buckets = [i \in 1..n |-> <<>>]
  OBVIOUS
<1> HIDE DEF plan
<1>2. \A j \in 1..n : plan.buckets[j] = <<>>
  BY <1>1
<1>3. <<>> \in Seq(Mutants) /\ Len(<<>>) = 0 /\ DOMAIN <<>> = {}
  BY EmptySeq
<1>4. PlanTypes(plan, n)
  BY <1>1, <1>3 DEF PlanTypes
<1>5. DealtOnce(plan, n) /\ DealtAll(plan, n)
  BY <1>1, <1>2, <1>3 DEF DealtOnce, DealtAll
<1>6. DealtTo(plan, n, 0)
  <2>1. Cardinality(Mutants) \in Nat
    BY DrillAssumption, FS_CardinalityType
  <2> QED
    BY <1>1, <1>2, <1>3, <2>1 DEF DealtTo
<1>7. IsPlan(plan, n, 0)
  BY <1>4, <1>5, <1>6 DEF IsPlan
<1> QED
  BY <1>7 DEF plan

\* The plans that Schedule goes through, up to the k-th.
PlanFrom(n) == [rest |-> Mutants, load |-> [i \in 1..n |-> 0], buckets |-> [i \in 1..n |-> <<>>]]
Dealt(f, mode, timing, n, k) ==
    f = [j \in 0..k |-> IF j = 0 THEN PlanFrom(n) ELSE Deal(mode, timing, f[j - 1])]

\* There is such a row of plans, and only plans are in it.
LEMMA DealtExists ==
    ASSUME NEW mode, NEW timing, NEW n \in Nat \ {0}, NEW k \in Nat
    PROVE  \E f : Dealt(f, mode, timing, n, k)
<1> DEFINE Bad == {j \in Nat : ~\E f : Dealt(f, mode, timing, n, j)}
<1>1. SUFFICES ASSUME Bad # {} PROVE FALSE
  OBVIOUS
<1>2. PICK l \in Bad : \A j \in Bad : l <= j
  <2>1. Bad \in SUBSET Nat
    OBVIOUS
  <2> QED
    BY <1>1, <2>1, LeastNatural
<1>3. CASE l = 0
  <2> DEFINE f == [j \in 0..0 |-> PlanFrom(n)]
  <2>1. Dealt(f, mode, timing, n, 0)
    BY DEF Dealt
  <2> QED
    BY <1>3, <2>1
<1>4. CASE l # 0
  <2>1. l - 1 \in Nat /\ l \in Nat /\ ~(l <= l - 1)
    BY <1>4
  <2>2. l - 1 \notin Bad
    <3> HIDE DEF Bad
    <3> QED
      BY <1>2, <2>1
  <2>3. PICK f : Dealt(f, mode, timing, n, l - 1)
    BY <2>1, <2>2
  <2> DEFINE g == [j \in 0..l |-> IF j = l THEN Deal(mode, timing, f[l - 1]) ELSE f[j]]
  <2>4. \A j \in 0..(l - 1) : f[j] = IF j = 0 THEN PlanFrom(n) ELSE Deal(mode, timing, f[j - 1])
    BY <2>3 DEF Dealt
  <2>5. ASSUME NEW j \in 0..l PROVE g[j] = IF j = 0 THEN PlanFrom(n) ELSE Deal(mode, timing, g[j - 1])
    <3>1. CASE j = l
      <4>1. j # 0 /\ j - 1 \in 0..l /\ j - 1 # l
        BY <2>1, <3>1
      <4>2. g[j - 1] = f[l - 1] /\ g[j] = Deal(mode, timing, f[l - 1])
        BY <3>1, <4>1
      <4> QED
        BY <4>1, <4>2
    <3>2. CASE j # l
      <4>1. j \in 0..(l - 1) /\ g[j] = f[j]
        BY <2>1, <3>2
      <4>2. CASE j = 0
        BY <2>4, <4>1, <4>2
      <4>3. CASE j # 0
        <5>1. j - 1 \in 0..l /\ j - 1 # l
          BY <2>1, <4>3, <3>2
        <5>2. g[j - 1] = f[j - 1]
          BY <5>1
        <5> QED
          BY <2>4, <4>1, <4>3, <5>2
      <4> QED
        BY <4>2, <4>3
    <3> QED
      BY <3>1, <3>2
  <2>6. Dealt(g, mode, timing, n, l)
    BY <2>5 DEF Dealt
  <2> QED
    BY <2>6
<1> QED
  BY <1>3, <1>4

LEMMA DealtArePlans ==
    ASSUME NEW mode, NEW timing \in Timings, NEW n \in Nat \ {0}, NEW f, NEW k \in Nat,
           Dealt(f, mode, timing, n, k), k <= Cardinality(Mutants)
    PROVE  IsPlan(f[k], n, k)
<1>0. Cardinality(Mutants) \in Nat
  BY DrillAssumption, FS_CardinalityType
<1> DEFINE Bad == {j \in 0..k : ~IsPlan(f[j], n, j)}
<1>1. SUFFICES ASSUME Bad # {} PROVE FALSE
  OBVIOUS
<1>2. PICK l \in Bad : \A j \in Bad : l <= j
  <2>1. Bad \in SUBSET Nat
    OBVIOUS
  <2> QED
    BY <1>1, <2>1, LeastNatural
<1>3. l \in 0..k /\ ~IsPlan(f[l], n, l)
  OBVIOUS
<1>4. f[l] = IF l = 0 THEN PlanFrom(n) ELSE Deal(mode, timing, f[l - 1])
  BY <1>3 DEF Dealt
<1>5. CASE l = 0
  BY <1>3, <1>4, <1>5, PlanStarts DEF PlanFrom
<1>6. CASE l # 0
  <2>1. l - 1 \in 0..k /\ l - 1 < Cardinality(Mutants) /\ ~(l <= l - 1) /\ l = (l - 1) + 1 /\ l - 1 \in Nat
    BY <1>0, <1>3, <1>6
  <2>2. IsPlan(f[l - 1], n, l - 1)
    <3>1. l - 1 \notin Bad
      <4> HIDE DEF Bad
      <4> QED
        BY <1>2, <2>1
    <3> QED
      BY <2>1, <3>1
  <2>3. IsPlan(Deal(mode, timing, f[l - 1]), n, (l - 1) + 1)
    <3> HIDE DEF Bad
    <3> QED
      BY <2>1, <2>2, DealKeeps
  <2> QED
    BY <1>3, <1>4, <1>6, <2>1, <2>3
<1> QED
  BY <1>5, <1>6

\* What a schedule assigns: every mutant to one shard, once.
Assigns(assignment, n) ==
    /\ assignment \in [1..n -> Seq(Mutants)]
    /\ \A j, l \in 1..n : \A i \in DOMAIN assignment[j], k \in DOMAIN assignment[l] :
          assignment[j][i] = assignment[l][k] => j = l /\ i = k
    /\ \A m \in Mutants : \E j \in 1..n : \E i \in DOMAIN assignment[j] : assignment[j][i] = m
    /\ \A j \in 1..n : Len(assignment[j]) <= Cardinality(Mutants)

LEMMA SchedulesAssign ==
    ASSUME NEW mode, NEW timing \in Timings, NEW n \in Nat \ {0}
    PROVE  Assigns(Schedule(mode, timing, n), n)
<1> DEFINE N == Cardinality(Mutants)
           row == CHOOSE f : Dealt(f, mode, timing, n, N)
<1>1. N \in Nat /\ N <= N
  BY DrillAssumption, FS_CardinalityType
<1>2. Schedule(mode, timing, n) = row[N].buckets
  BY DEF Schedule, Dealt, PlanFrom
<1> HIDE DEF N
<1>3. Dealt(row, mode, timing, n, N)
  <2>1. \E f : Dealt(f, mode, timing, n, N)
    BY <1>1, DealtExists
  <2> QED
    BY <2>1
<1> HIDE DEF row
<1>4. IsPlan(row[N], n, N)
  BY <1>1, <1>3, DealtArePlans DEF N
<1> DEFINE plan == row[N]
<1>5. IsPlan(plan, n, N)
  BY <1>4
<1> HIDE DEF plan
<1>6. plan.rest = {}
  <2>1. IsFiniteSet(plan.rest) /\ Cardinality(plan.rest) = 0
    BY <1>1, <1>5, DrillAssumption, FS_Subset DEF IsPlan, PlanTypes, DealtTo, N
  <2> QED
    BY <2>1, FS_EmptySet
<1>7. Assigns(plan.buckets, n)
  BY <1>5, <1>6 DEF IsPlan, PlanTypes, DealtOnce, DealtAll, DealtTo, Assigns, N
<1> QED
  BY <1>2, <1>7 DEF plan

\* What reaches the gate was made by judge, of some plan it could read.
Selected == {SelectionOf(share, timing, text) : share \in ShardWays, timing \in Timings, text \in PlanTexts}
ShardsInv == selections \in Seq(Selected) /\ (gate = "open" => CheckShards(selections))

LEMMA SelectedIs ==
    ASSUME NEW f \in Selected
    PROVE  /\ f.shards \in Nat \ {0} /\ f.shard \in 1..f.shards /\ Assigns(f.assignment, f.shards)
           /\ f.selects = f.assignment[f.shard]
<1>1. PICK share \in ShardWays, timing \in Timings, text \in PlanTexts : f = SelectionOf(share, timing, text)
  BY DEF Selected
<1> DEFINE a == Schedule(ModesOf(text), timing, share[2])
<1>2. /\ f = [shard |-> share[1], shards |-> share[2], assignment |-> a, selects |-> a[share[1]]]
      /\ share[2] \in Nat /\ share[1] \in 1..share[2]
  BY <1>1, DrillAssumption DEF SelectionOf
<1>3. share[2] \in Nat \ {0}
  BY <1>2
<1>4. Assigns(a, share[2])
  BY <1>3, SchedulesAssign
<1> HIDE DEF a
<1> QED
  BY <1>2, <1>3, <1>4

\* Files that CheckShards accepts are one for each shard of one schedule, so a
\* mutant is in one place of one file.
LEMMA AcceptedSplit ==
    ASSUME ShardsInv, gate = "open", NEW m \in Mutants
    PROVE  \E x : {p \in (DOMAIN selections) \X (1..Cardinality(Mutants)) :
                      p[2] \in DOMAIN selections[p[1]].selects /\ selections[p[1]].selects[p[2]] = m} = {x}
<1> DEFINE n == selections[1].shards
           A == selections[1].assignment
           f == [i \in 1..n |-> selections[i].shard]
           N == Cardinality(Mutants)
           Found == {p \in (DOMAIN selections) \X (1..N) :
                        p[2] \in DOMAIN selections[p[1]].selects /\ selections[p[1]].selects[p[2]] = m}
<1>1. CheckShards(selections)
  BY DEF ShardsInv
<1>2. PICK l \in Nat : DOMAIN selections = 1..l /\ Len(selections) = l
  BY LenProperties DEF ShardsInv
<1>3. l = n
  BY <1>1, <1>2 DEF CheckShards, NotOneEach
<1>4. \A i \in DOMAIN selections :
          /\ selections[i].shards = n /\ selections[i].assignment = A /\ selections[i].shard \in 1..selections[i].shards
          /\ selections[i].shards \in Nat \ {0} /\ Assigns(selections[i].assignment, selections[i].shards)
          /\ selections[i].selects = selections[i].assignment[selections[i].shard]
  BY <1>1, <1>2, SelectedIs, ElementOfSeq DEF ShardsInv, CheckShards, Disagree
<1>5. DOMAIN selections # {}
  <2>1. {selections[i].shard : i \in DOMAIN selections} = 1..n
    BY <1>1 DEF CheckShards, NotOneEach
  <2>2. l # 0
    <3> SUFFICES ASSUME l = 0 PROVE FALSE
      OBVIOUS
    <3>1. DOMAIN selections = {}
      BY <1>2
    <3>2. selections = <<>>
      BY <1>2, <3>1
    <3> QED
      BY <1>1, <3>2 DEF CheckShards
  <2> QED
    BY <1>2, <2>2
<1>6. n \in Nat \ {0} /\ Assigns(A, n)
  BY <1>4, <1>5
<1>7. {selections[i].shard : i \in 1..n} = 1..n /\ DOMAIN selections = 1..n
  BY <1>1, <1>2, <1>3 DEF CheckShards, NotOneEach
<1> HIDE DEF n, A
<1>8. f \in [1..n -> 1..n]
  BY <1>4, <1>7
<1>9. \A t \in 1..n : \E i \in 1..n : f[i] = t
  BY <1>7
<1>10. \A i, j \in 1..n : f[i] = f[j] => i = j
  <2>1. f \in Surjection(1..n, 1..n)
    BY <1>8, <1>9 DEF Surjection
  <2>2. IsFiniteSet(1..n)
    BY <1>6, FS_Interval
  <2> HIDE DEF f
  <2>3. f \in Injection(1..n, 1..n)
    BY <2>1, <2>2, FS_SurjSameCardinalityImpliesInj
  <2> QED
    BY <2>3 DEF Injection, IsInjective
<1>11. \A i \in 1..n : selections[i].selects = A[f[i]]
  BY <1>4, <1>7
<1> HIDE DEF f
<1>12. PICK j \in 1..n : \E k \in DOMAIN A[j] : A[j][k] = m
  BY <1>6 DEF Assigns
<1>13. PICK k \in DOMAIN A[j] : A[j][k] = m
  BY <1>12
<1>14. PICK i \in 1..n : f[i] = j
  BY <1>9
<1>15. k \in 1..N
  <2>1. A[j] \in Seq(Mutants) /\ Len(A[j]) <= N
    BY <1>6 DEF Assigns
  <2>2. N \in Nat
    BY DrillAssumption, FS_CardinalityType
  <2> HIDE DEF N
  <2> QED
    BY <1>13, <2>1, <2>2, LenProperties
<1>16. <<i, k>> \in Found
  BY <1>7, <1>11, <1>13, <1>14, <1>15
<1>17. ASSUME NEW p \in Found PROVE p = <<i, k>>
  <2>1. /\ p = <<p[1], p[2]>> /\ p[1] \in 1..n /\ p[2] \in DOMAIN A[f[p[1]]] /\ A[f[p[1]]][p[2]] = m
    BY <1>7, <1>11
  <2>2. f[p[1]] \in 1..n
    BY <1>8, <2>1
  <2>3. f[p[1]] = j /\ p[2] = k
    <3>1. A[f[p[1]]][p[2]] = A[j][k]
      BY <1>13, <2>1
    <3>2. \A g, h \in 1..n : \A x \in DOMAIN A[g], y \in DOMAIN A[h] :
              A[g][x] = A[h][y] => g = h /\ x = y
      BY <1>6 DEF Assigns
    <3> QED
      BY <1>13, <2>1, <2>2, <3>1, <3>2
  <2>4. p[1] = i
    BY <1>10, <1>14, <2>1, <2>3
  <2> QED
    BY <2>1, <2>3, <2>4
<1>18. Found = {<<i, k>>}
  <2> HIDE DEF Found
  <2> QED
    BY <1>16, <1>17
<1> QED
  BY <1>18

LEMMA GateSplits == ShardsInv => ShardsSplitAll
<1> SUFFICES ASSUME ShardsInv, gate = "open", NEW m \in Mutants
             PROVE  Cardinality({p \in (DOMAIN selections) \X (1..Cardinality(Mutants)) :
                p[2] \in DOMAIN selections[p[1]].selects /\ selections[p[1]].selects[p[2]] = m}) = 1
  BY DEF ShardsSplitAll
<1> DEFINE Found == {p \in (DOMAIN selections) \X (1..Cardinality(Mutants)) :
                p[2] \in DOMAIN selections[p[1]].selects /\ selections[p[1]].selects[p[2]] = m}
<1>1. PICK x : Found = {x}
  BY AcceptedSplit
<1> HIDE DEF Found
<1>2. Cardinality(Found) = 1
  BY <1>1, FS_Singleton
<1> QED
  BY <1>2 DEF Found

LEMMA ShardsStart == ShardsIn("start") => ShardsInv
<1> SUFFICES ASSUME ShardsIn("start") PROVE ShardsInv
  OBVIOUS
<1>1. selections = <<>> /\ gate = "none"
  BY DEF ShardsIn
<1> QED
  BY <1>1, EmptySeq DEF ShardsInv

LEMMA ShardsSteps == ShardsInv /\ [ShardsNext]_shardVars => ShardsInv'
<1> SUFFICES ASSUME ShardsInv, [ShardsNext]_shardVars PROVE ShardsInv'
  OBVIOUS
<1>1. CASE gate = "none" /\ RunShard
  <2>1. gate' # "open"
    BY <1>1 DEF RunShard
  <2>2. CASE selections' = selections
    BY <2>1, <2>2 DEF ShardsInv, Selected
  <2>3. ASSUME NEW share \in ShardWays, NEW timing \in Timings, NEW text \in PlanTexts,
               selections' = Append(selections, SelectionOf(share, timing, text))
        PROVE  ShardsInv'
    <3> DEFINE f == SelectionOf(share, timing, text)
    <3>1. f \in Selected
      BY DEF Selected
    <3> HIDE DEF f
    <3>2. Append(selections, f) \in Seq(Selected)
      BY <3>1, AppendProperties DEF ShardsInv
    <3>3. selections' \in Seq(Selected)
      BY <2>3, <3>2 DEF f
    <3> QED
      BY <2>1, <3>3 DEF ShardsInv, Selected
  <2> QED
    BY <1>1, <2>2, <2>3 DEF RunShard
<1>2. CASE OpenGate
  BY <1>2 DEF OpenGate, ShardsInv, Selected
<1>3. CASE UNCHANGED shardVars
  BY <1>3 DEF shardVars, ShardsInv, Selected
<1> QED
  BY <1>1, <1>2, <1>3 DEF ShardsNext

\* Whatever runs of any shards, plans and timings bring to the gate or lose, an
\* open one has every mutant in one selection, once (CheckShards, plan.go:208).
THEOREM GatesSplit == ShardsSpec => []ShardsSplitAll
<1>1. ShardsIn("start") => ShardsInv
  BY ShardsStart
<1>2. ShardsInv /\ [ShardsNext]_shardVars => ShardsInv'
  BY ShardsSteps
<1>3. ShardsInv => ShardsSplitAll
  BY GateSplits
<1> QED
  BY <1>1, <1>2, <1>3, PTL DEF ShardsSpec

-----------------------------------------------------------------------------
(* The scratch directory of a drill *)

ScratchTypes ==
    /\ locks \in Files /\ lockAtPath \in 0..locks
    /\ holder \in [Files -> Openers \cup {Nobody}] /\ fd \in [Openers -> 0..locks]
    /\ opener \in [Openers -> {"idle", "opened", "locked", "using", "orphans", "move", "remove",
                               "close", "out"}]

\* Who is past the look at the path holds the lock of the file there, until a
\* prune has removed the file; a drill that writes holds the directory.
HoldersTell ==
    \A p \in Openers :
       /\ opener[p] \in {"locked", "using", "orphans", "move", "remove", "close"} => holder[fd[p]] = p
       /\ opener[p] \in {"locked", "using", "orphans", "move", "remove"} => fd[p] = lockAtPath
       /\ opener[p] \notin {"idle", "out"} => fd[p] # 0
       /\ opener[p] \in {"using", "orphans"} => p \in Drills /\ tree = p
       /\ opener[p] \in {"move", "remove", "close"} => p \in Prunes

ScratchInv == ScratchTypes /\ HoldersTell

LEMMA ScratchInitHolds == ScratchInit => ScratchInv
  BY ScratchAssumption
     DEF ScratchInit, ScratchIn, ScratchInv, ScratchTypes, HoldersTell, Files, Openers, Nobody

LEMMA ScratchStep == ScratchInv /\ [ScratchNext]_scratchVars => ScratchInv'
  <1> SUFFICES ASSUME ScratchInv, ScratchNext \/ UNCHANGED scratchVars PROVE ScratchInv'
    OBVIOUS
  <1> USE ScratchAssumption DEF ScratchInv, ScratchTypes, HoldersTell, Files, Openers, Nobody, Step, Lock1
  <1>1. ASSUME NEW p \in Openers, OpenLockFile(p) PROVE ScratchInv'
    <2>1. /\ opener[p] = "idle" /\ opener' = [opener EXCEPT ![p] = "opened"]
          /\ UNCHANGED <<holder, unused, tree>>
      BY <1>1 DEF OpenLockFile
    <2>2. CASE lockAtPath # 0 /\ fd' = [fd EXCEPT ![p] = lockAtPath] /\ UNCHANGED <<lockAtPath, locks>>
      BY <2>1, <2>2
    <2>3. CASE /\ lockAtPath = 0 /\ locks < MaxLocks
               /\ locks' = locks + 1 /\ lockAtPath' = locks' /\ fd' = [fd EXCEPT ![p] = locks']
      BY <2>1, <2>3
    <2> QED BY <1>1, <2>2, <2>3 DEF OpenLockFile
  <1>2. ASSUME NEW p \in Openers, TryLockScratch(p) PROVE ScratchInv'
    <2>1. opener[p] = "opened" /\ UNCHANGED <<lockAtPath, locks, unused, fd, tree>>
      BY <1>2 DEF TryLockScratch
    <2>2. CASE /\ holder[fd[p]] = Nobody /\ fd[p] = lockAtPath
               /\ opener' = [opener EXCEPT ![p] = "locked"] /\ holder' = [holder EXCEPT ![fd[p]] = p]
      BY <2>1, <2>2
    <2>3. CASE UNCHANGED holder /\ \E to \in {"idle", "out"} : opener' = [opener EXCEPT ![p] = to]
      BY <2>1, <2>3
    <2> QED BY <1>2, <2>2, <2>3 DEF TryLockScratch
  <1>3. ASSUME NEW d \in Openers, OpenScratch(d) PROVE ScratchInv'
    BY <1>3 DEF OpenScratch
  <1>4. ASSUME NEW d \in Openers, ReleaseScratch(d) \/ WorkersEnd(d) PROVE ScratchInv'
    <2>1. /\ opener[d] \in {"using", "orphans"} /\ opener' = [opener EXCEPT ![d] = "out"]
          /\ holder' = [holder EXCEPT ![fd[d]] = Nobody] /\ UNCHANGED <<lockAtPath, locks, fd>>
      BY <1>4 DEF ReleaseScratch, WorkersEnd
    <2>2. \A p \in Openers : opener[p] \in {"using", "orphans"} => p = d
      BY <2>1
    <2> QED BY <2>1, <2>2
  <1>5. ASSUME NEW d \in Openers, DrillKilled(d) PROVE ScratchInv'
    BY <1>5 DEF DrillKilled
  <1>6. ASSUME NEW p \in Openers, PruneJudges(p) PROVE ScratchInv'
    <2>1. CASE fd[p] \in unused
      <3>1. /\ p \in Prunes /\ opener[p] = "locked" /\ opener' = [opener EXCEPT ![p] = "move"]
            /\ UNCHANGED <<lockAtPath, locks, holder, unused, fd, tree>>
        BY <1>6, <2>1 DEF PruneJudges
      <3> QED BY <3>1
    <2>2. CASE fd[p] \notin unused
      <3>1. /\ opener[p] = "locked" /\ opener' = [opener EXCEPT ![p] = "out"]
            /\ holder' = [holder EXCEPT ![fd[p]] = Nobody]
            /\ UNCHANGED <<lockAtPath, locks, unused, fd, tree>>
        BY <1>6, <2>2 DEF PruneJudges
      <3>2. \A q \in Openers : q # p /\ opener[q] \in {"locked", "using", "orphans", "move", "remove", "close"}
                => holder[fd[q]] = q /\ fd[q] # fd[p]
        BY <3>1
      <3> QED BY <3>1, <3>2
    <2> QED BY <2>1, <2>2
  <1>7. ASSUME NEW p \in Openers, PruneMoves(p) PROVE ScratchInv'
    <2>1. /\ p \in Prunes /\ opener[p] = "move" /\ UNCHANGED <<lockAtPath, locks, holder, fd>>
          /\ \E to \in {"remove", "close"} : opener' = [opener EXCEPT ![p] = to]
      BY <1>7 DEF PruneMoves
    <2>2. \A q \in Openers : opener[q] \notin {"using", "orphans"}
      BY <2>1
    <2> QED BY <2>1, <2>2
  <1>8. ASSUME NEW p \in Openers, PruneRemoves(p) PROVE ScratchInv'
    BY <1>8 DEF PruneRemoves
  <1>9. ASSUME NEW p \in Openers, PruneCloses(p) PROVE ScratchInv'
    BY <1>9 DEF PruneCloses
  <1>10. CASE WeekPasses
    BY <1>10 DEF WeekPasses
  <1>11. CASE UNCHANGED scratchVars
    BY <1>11 DEF scratchVars
  <1> QED BY <1>1, <1>2, <1>3, <1>4, <1>5, <1>6, <1>7, <1>8, <1>9, <1>10, <1>11 DEF ScratchNext

\* For any drills and prunes of one scratch directory: one drill at a time
\* writes there, the workers of a killed one included, and no prune moves its
\* trees away meanwhile (drill/scratch.go).
THEOREM ScratchIsAlone == ScratchSpec => []ScratchAlone
  <1>1. ScratchInv => ScratchAlone
    BY DEF ScratchInv, ScratchTypes, HoldersTell, Openers, ScratchAlone
  <1> QED BY <1>1, ScratchInitHolds, ScratchStep, PTL DEF ScratchSpec

-----------------------------------------------------------------------------
(* The work directories *)

RunStages ==
    {"unborn", "sweep", "make", "owner", "pid", "files", "json", "mark",
     "work", "await", "tell", "wait", "over", "crashed"}
DirContents == {"owner", "pid", "files", "json", "keep"}
Directories == [there : BOOLEAN, holds : SUBSET DirContents, age : 0..Week]

DirTypes ==
    /\ way \in Ways
    /\ runAt \in [DirRuns -> RunStages]
    /\ dirOf \in [DirRuns -> Directories]
    /\ todo \in [DirRuns -> SUBSET DirRuns]
    /\ doomed \in [DirRuns -> SUBSET DirRuns]
    /\ \A s \in DirRuns : \A x, y \in doomed[s] : x = y
    /\ owedTo \in [DirRuns -> SUBSET DirRuns]
    /\ sweptBy \in [DirRuns -> DirRuns \cup {0}]
    /\ pidTaken \subseteq DirRuns
    /\ compiled = [r \in DirRuns |-> {}]
    /\ fixturesOf \in [DirRuns -> {"none", "up", "released", "failed"}]
    /\ codeOf \in [DirRuns -> {-1, 0, 1, 2}]

HasEnded(r) == runAt[r] \in {"over", "crashed"}
Stamped(r) == {"owner", "pid"} \subseteq dirOf[r].holds

\* The stamps of a run's version.
StampsOf(r) ==
    CASE way[r].writer = "current" -> {"owner", "pid"}
      [] way[r].writer = "earlierOverlay" -> {"pid"}
      [] way[r].writer = "earlierWork" -> {}

\* What a directory holds where its owner is.
HoldsAt(r) ==
    /\ runAt[r] \in {"unborn", "sweep", "make"} => dirOf[r] = NoDir
    /\ runAt[r] \in {"owner", "pid", "files", "json", "mark"} => dirOf[r].age = 0
    /\ runAt[r] = "owner" => way[r].writer = "current" /\ dirOf[r].holds = {}
    /\ runAt[r] = "pid" => /\ way[r].writer # "earlierWork"
                           /\ dirOf[r].holds = StampsOf(r) \ {"pid"}
    /\ runAt[r] = "files" => dirOf[r].holds = StampsOf(r)
    /\ runAt[r] = "json" => dirOf[r].holds = StampsOf(r) \cup {"files"}
    /\ runAt[r] = "mark" => /\ way[r].does = "debug"
                            /\ dirOf[r].holds = StampsOf(r) \cup {"files", "json"}
    /\ Working(r) => StampsOf(r) \cup {"files", "json"} \subseteq dirOf[r].holds
    /\ "owner" \in dirOf[r].holds => way[r].writer = "current"
    /\ "pid" \in dirOf[r].holds => way[r].writer # "earlierWork"
    /\ "keep" \in dirOf[r].holds => way[r].does = "debug"
HoldsTell == \A r \in DirRuns : HoldsAt(r)

\* A sweep dooms what is over, or what it misjudges, and of its own place alone
\* what is stamped.
DoomTells ==
    \A s \in DirRuns : \A r \in doomed[s] :
        /\ HasEnded(r) \/ Misjudged(r)
        /\ Stamped(r) => SameID(way[r].place, way[s].place)

SweptTells ==
    \A r \in DirRuns : sweptBy[r] # 0 =>
        /\ HasEnded(r) \/ Misjudged(r)
        /\ Stamped(r) => SameID(way[r].place, way[sweptBy[r]].place)

\* A directory is there from MkdirTemp until its run ends.
LiveTells ==
    \A r \in DirRuns :
        runAt[r] \notin {"unborn", "sweep", "make", "over", "crashed"} /\ ~Misjudged(r) => dirOf[r].there

KeptTells ==
    \A r \in DirRuns : "keep" \in dirOf[r].holds =>
        /\ ~dirOf[r].there => dirOf[r].age = Week
        /\ (\E s \in DirRuns : r \in doomed[s]) => dirOf[r].age = Week

\* What a sweep owes is over and stays stamped; it is judged, doomed or gone.
OwedTells ==
    \A s \in DirRuns :
        /\ runAt[s] = "unborn" => owedTo[s] = {}
        /\ \A r \in owedTo[s] :
              /\ HasEnded(r) /\ Stamped(r) /\ ~Kept(r)
              /\ SameID(way[r].place, way[s].place)
              /\ r \notin pidTaken /\ dirOf[r].there =>
                    \/ runAt[s] = "sweep" /\ r \in todo[s] \cup doomed[s]
                    \/ runAt[s] = "crashed"

\* A prepare's fixtures are up while it waits, and no longer.
FixturesAt(r) ==
    /\ runAt[r] \notin {"await", "tell", "wait", "over", "crashed"} => fixturesOf[r] = "none"
    /\ runAt[r] = "over" => fixturesOf[r] # "up"
    /\ fixturesOf[r] = "failed" => runAt[r] = "over" /\ codeOf[r] # 0
    /\ runAt[r] = "over" /\ way[r].does = "prepare" => ~dirOf[r].there
FixturesTell == \A r \in DirRuns : FixturesAt(r)

DirInv ==
    DirTypes /\ HoldsTell /\ DoomTells /\ SweptTells /\ LiveTells /\ KeptTells /\ OwedTells /\ FixturesTell

\* A step sets the directory of r, and no other.
DirBecomes(r, there, holds, age) ==
    /\ dirOf' \in [DirRuns -> Directories]
    /\ \A x \in DirRuns \ {r} : dirOf'[x] = dirOf[x]
    /\ dirOf'[r].there = there /\ dirOf'[r].holds = holds /\ dirOf'[r].age = age

LEMMA DirectoryIs ==
    ASSUME NEW d \in Directories
    PROVE  d.there \in BOOLEAN /\ d.holds \subseteq DirContents /\ d.age \in 0..2
BY DEF Directories, Week

LEMMA DirIsSet ==
    ASSUME DirTypes, NEW r \in DirRuns, NEW d \in Directories, dirOf' = [dirOf EXCEPT ![r] = d]
    PROVE  DirBecomes(r, d.there, d.holds, d.age)
BY DEF DirTypes, DirBecomes

LEMMA DirRemoved ==
    ASSUME DirTypes, NEW r \in DirRuns, dirOf' = Removed(r)
    PROVE  DirBecomes(r, FALSE, dirOf[r].holds, dirOf[r].age)
<1> DEFINE d == [dirOf[r] EXCEPT !.there = FALSE]
<1>0. dirOf[r] \in Directories
  BY DEF DirTypes
<1>1. /\ d \in Directories
      /\ d.there = FALSE /\ d.holds = dirOf[r].holds /\ d.age = dirOf[r].age
  BY <1>0 DEF Directories
<1>2. dirOf' = [dirOf EXCEPT ![r] = d]
  BY DEF Removed
<1> HIDE DEF d
<1> QED
  BY <1>1, <1>2, DirIsSet

LEMMA DirHolding ==
    ASSUME DirTypes, NEW r \in DirRuns, NEW what \in SUBSET DirContents, dirOf' = Holding(r, what)
    PROVE  DirBecomes(r, dirOf[r].there, dirOf[r].holds \cup what, 0)
<1> DEFINE c == [dirOf[r] EXCEPT !.holds = @ \cup what]
           d == [c EXCEPT !.age = 0]
<1>0. dirOf[r] \in Directories
  BY DEF DirTypes
<1>1. c \in Directories /\ c.there = dirOf[r].there /\ c.holds = dirOf[r].holds \cup what
  BY <1>0 DEF Directories
<1>2. d \in Directories /\ d.there = c.there /\ d.holds = c.holds /\ d.age = 0
  <2> HIDE DEF c
  <2> QED
    BY <1>1 DEF Directories, Week
<1>3. dirOf' = [dirOf EXCEPT ![r] = d]
  BY DEF Holding, DirTypes
<1> HIDE DEF c, d
<1> QED
  BY <1>1, <1>2, <1>3, DirIsSet

LEMMA DirMade ==
    ASSUME DirTypes, NEW r \in DirRuns, dirOf' = [dirOf EXCEPT ![r] = [NoDir EXCEPT !.there = TRUE]]
    PROVE  DirBecomes(r, TRUE, {}, 0)
<1> DEFINE d == [NoDir EXCEPT !.there = TRUE]
<1>0. NoDir \in Directories /\ NoDir.holds = {} /\ NoDir.age = 0
  BY DEF NoDir, Directories, Week
<1>1. d \in Directories /\ d.there = TRUE /\ d.holds = {} /\ d.age = 0
  BY <1>0 DEF Directories
<1>2. dirOf' = [dirOf EXCEPT ![r] = d]
  OBVIOUS
<1> HIDE DEF d
<1> QED
  BY <1>1, <1>2, DirIsSet

LEMMA DirGains ==
    ASSUME DirTypes, NEW r \in DirRuns, NEW what \in SUBSET DirContents,
           dirOf' = [dirOf EXCEPT ![r].holds = @ \cup what]
    PROVE  DirBecomes(r, dirOf[r].there, dirOf[r].holds \cup what, dirOf[r].age)
<1> DEFINE d == [dirOf[r] EXCEPT !.holds = @ \cup what]
<1>0. dirOf[r] \in Directories
  BY DEF DirTypes
<1>1. /\ d \in Directories
      /\ d.there = dirOf[r].there /\ d.holds = dirOf[r].holds \cup what /\ d.age = dirOf[r].age
  BY <1>0 DEF Directories
<1>2. dirOf' = [dirOf EXCEPT ![r] = d]
  BY DEF DirTypes
<1> HIDE DEF d
<1> QED
  BY <1>1, <1>2, DirIsSet

LEMMA DirAges ==
    ASSUME DirTypes, NEW r \in DirRuns, dirOf[r].age < Week, dirOf' = [dirOf EXCEPT ![r].age = @ + 1]
    PROVE  DirBecomes(r, dirOf[r].there, dirOf[r].holds, dirOf[r].age + 1)
<1> DEFINE d == [dirOf[r] EXCEPT !.age = @ + 1]
<1>0. dirOf[r] \in Directories
  BY DEF DirTypes
<1>1. /\ d \in Directories
      /\ d.there = dirOf[r].there /\ d.holds = dirOf[r].holds /\ d.age = dirOf[r].age + 1
  BY <1>0 DEF Directories, Week
<1>2. dirOf' = [dirOf EXCEPT ![r] = d]
  BY DEF DirTypes
<1> HIDE DEF d
<1> QED
  BY <1>1, <1>2, DirIsSet

LEMMA DirStart == DirsInit => DirInv
<1> SUFFICES ASSUME DirsInit PROVE DirInv
  OBVIOUS
<1>0. /\ NoDir \in Directories /\ NoDir.there = FALSE /\ NoDir.holds = {} /\ NoDir.age = 0
      /\ \A r \in DirRuns : dirOf[r] = NoDir /\ runAt[r] = "unborn" /\ fixturesOf[r] = "none"
                            /\ doomed[r] = {} /\ sweptBy[r] = 0 /\ owedTo[r] = {}
  BY DEF DirsInit, DirsIn, NoDir, Directories, Week
<1>1. DirTypes
  BY <1>0 DEF DirsInit, DirsIn, DirTypes, RunStages
<1>2. HoldsTell /\ DoomTells /\ SweptTells /\ LiveTells
  BY <1>0 DEF HoldsTell, HoldsAt, DoomTells, SweptTells, LiveTells, Working
<1>3. KeptTells /\ OwedTells /\ FixturesTell
  BY <1>0 DEF KeptTells, OwedTells, FixturesTell, FixturesAt
<1> QED
  BY <1>1, <1>2, <1>3 DEF DirInv

LEMMA WaysAre ==
    ASSUME DirTypes, NEW r \in DirRuns
    PROVE  /\ way[r].writer \in {"current", "earlierOverlay", "earlierWork"}
           /\ way[r].does \in {"run", "debug", "prepare"}
           /\ way[r].writer # "current" => way[r].does = "run"
BY WaysAssumption DEF DirTypes

LEMMA DirTypesStep == DirTypes /\ [DirsNext]_dirVars => DirTypes'
<1> SUFFICES ASSUME DirTypes, [DirsNext]_dirVars PROVE DirTypes'
  OBVIOUS
<1>0. UNCHANGED dirVars => DirTypes'
  BY DEF dirVars, DirTypes
<1>1. ASSUME NEW r \in DirRuns, Removed(r) = dirOf' PROVE dirOf' \in [DirRuns -> Directories]
  BY <1>1, DirRemoved DEF DirBecomes
<1>2. ASSUME NEW r \in DirRuns, NEW what \in SUBSET DirContents, Holding(r, what) = dirOf'
      PROVE  dirOf' \in [DirRuns -> Directories]
  BY <1>2, DirHolding DEF DirBecomes
<1>3. ASSUME NEW r \in DirRuns, Begin(r) \/ Swept(r)
      PROVE  DirTypes'
  BY <1>3 DEF DirTypes, Begin, Swept, RunStages, Owed
<1>4. ASSUME NEW r \in DirRuns, NEW x \in DirRuns, Judge(r, x)
      PROVE  DirTypes'
  BY <1>4 DEF DirTypes, Judge
<1>5. ASSUME NEW r \in DirRuns, NEW x \in DirRuns, Sweep(r, x)
      PROVE  DirTypes'
  BY <1>1, <1>5 DEF DirTypes, Sweep
<1>6. ASSUME NEW r \in DirRuns, NEW stage, NEW dir, NEW next \in RunStages, Made(r, stage, dir, next),
             dirOf' \in [DirRuns -> Directories], compiled' = compiled
      PROVE  DirTypes'
  BY <1>6 DEF DirTypes, Made, Goes
<1>7. ASSUME NEW r \in DirRuns, Make(r) PROVE DirTypes'
  <2> DEFINE next == CASE way[r].writer = "current" -> "owner"
                       [] way[r].writer = "earlierOverlay" -> "pid"
                       [] way[r].writer = "earlierWork" -> "files"
  <2>1. next \in RunStages
    BY WaysAre DEF RunStages
  <2>2. /\ Made(r, "make", [dirOf EXCEPT ![r] = [NoDir EXCEPT !.there = TRUE]], next)
        /\ compiled' = compiled
    BY <1>7 DEF Make
  <2> HIDE DEF next
  <2>3. dirOf' \in [DirRuns -> Directories]
    BY <2>2, DirMade DEF Made, DirBecomes
  <2> QED
    BY <1>6, <2>1, <2>2, <2>3
<1>8. ASSUME NEW r \in DirRuns, StampOwner(r) \/ StampPid(r) \/ WriteFiles(r) PROVE DirTypes'
  <2>1. compiled' = compiled
    <3>1. WriteFiles(r) => compiled' = [compiled EXCEPT ![r] = {}]
      BY DEF WriteFiles, StaleStubs, Harnesses
    <3> QED
      BY <1>8, <3>1 DEF StampOwner, StampPid, DirTypes
  <2> QED
    BY <1>2, <1>6, <1>8, <2>1 DEF StampOwner, StampPid, WriteFiles, Made, DirContents, RunStages
<1>9. ASSUME NEW r \in DirRuns, WriteJson(r) PROVE DirTypes'
  <2>1. dirOf' \in [DirRuns -> Directories]
    BY <1>9, DirGains DEF WriteJson, Made, DirContents, DirBecomes
  <2> QED
    BY <1>6, <1>9, <2>1 DEF WriteJson, RunStages
<1>10. ASSUME NEW r \in DirRuns, Mark(r) PROVE DirTypes'
  <2>1. PICK marked \in {{}, {"keep"}} :
            Made(r, "mark", IF marked = {} THEN dirOf ELSE Holding(r, marked), "work")
    BY <1>10 DEF Mark
  <2>2. dirOf' = dirOf \/ dirOf' = Holding(r, {"keep"})
    BY <2>1 DEF Made
  <2>3. dirOf' \in [DirRuns -> Directories]
    BY <1>2, <2>2 DEF DirContents, DirTypes
  <2> QED
    BY <1>6, <1>10, <2>1, <2>3 DEF Mark, RunStages
<1>11. ASSUME NEW r \in DirRuns, Fails(r) PROVE DirTypes'
  BY <1>1, <1>11 DEF DirTypes, Fails, Goes, RunStages
<1>12. ASSUME NEW r \in DirRuns, NEW code \in {0, 1, 2}, Ends(r, code),
              fixturesOf' \in [DirRuns -> {"none", "up", "released", "failed"}]
       PROVE  DirTypes'
  <2>1. dirOf' \in [DirRuns -> Directories]
    BY <1>1, <1>12 DEF Ends, DirTypes
  <2> QED
    BY <1>12, <2>1 DEF DirTypes, Ends, Goes, RunStages
<1>13. ASSUME NEW r \in DirRuns, NEW at \in RunStages, NEW f \in {"none", "up", "released", "failed"},
              Stays(r, at, f)
       PROVE  DirTypes'
  BY <1>13 DEF DirTypes, Stays, Goes
<1>14. ASSUME NEW r \in DirRuns, NEW code \in {0, 2}, Teardown(r, code)
       PROVE  DirTypes'
  <2>1. fixturesOf' \in [DirRuns -> {"none", "up", "released", "failed"}]
    BY <1>14 DEF DirTypes, Teardown
  <2> QED
    BY <1>12, <1>14, <2>1 DEF Teardown
<1>15. ASSUME NEW r \in DirRuns, FailsToMake(r) \/ Run(r) PROVE DirTypes'
  BY <1>11, <1>12, <1>15 DEF FailsToMake, Run, DirTypes
<1>16. ASSUME NEW r \in DirRuns, PrepareStart(r) \/ PrepareAwait(r) \/ PrepareTell(r) \/ PrepareStop(r)
       PROVE  DirTypes'
  <2>1. fixturesOf[r] \in {"none", "up", "released", "failed"}
    BY DEF DirTypes
  <2> QED
    BY <1>11, <1>13, <1>14, <1>16, <2>1 DEF PrepareStart, PrepareAwait, PrepareTell, PrepareStop, RunStages
<1>17. ASSUME NEW r \in DirRuns, Crash(r) \/ PidIsTaken(r) PROVE DirTypes'
  BY <1>17 DEF DirTypes, Crash, PidIsTaken, Goes, RunStages
<1>18. ASSUME NEW r \in DirRuns, Older(r) PROVE DirTypes'
  <2>1. dirOf' \in [DirRuns -> Directories]
    BY <1>18, DirAges DEF Older, DirBecomes
  <2> QED
    BY <1>18, <2>1 DEF DirTypes, Older
<1> QED
  BY <1>0, <1>3, <1>4, <1>5, <1>7, <1>8, <1>9, <1>10, <1>15, <1>16, <1>17, <1>18 DEF DirsNext, AllEnded

\* Nothing that sweeps have to do with changes.
NoSweep ==
    /\ way' = way /\ todo' = todo /\ doomed' = doomed /\ owedTo' = owedTo
    /\ sweptBy' = sweptBy /\ pidTaken' = pidTaken

\* A run that has its directory, or makes it now, goes on to another stage.
RunGoesOn(r, at) ==
    /\ runAt[r] \notin {"unborn", "sweep", "over", "crashed"}
    /\ at \notin {"unborn", "sweep", "make", "crashed"}
    /\ runAt'[r] = at /\ \A x \in DirRuns \ {r} : runAt'[x] = runAt[x]

OthersFixtures(r) ==
    \A x \in DirRuns \ {r} : fixturesOf'[x] = fixturesOf[x] /\ codeOf'[x] = codeOf[x]

LEMMA GoingOnKeeps ==
    ASSUME DirInv, DirTypes', NoSweep, NEW r \in DirRuns, NEW there, NEW holds, NEW age, NEW at,
           DirBecomes(r, there, holds, age), RunGoesOn(r, at), OthersFixtures(r),
           HoldsAt(r)', FixturesAt(r)',
           Misjudged(r) => Misjudged(r)',
           at = "over" \/ Misjudged(r) \/ there,
           "keep" \in holds => there /\ way[r].writer = "current"
    PROVE  DirInv'
<1> USE DEF NoSweep, DirBecomes, RunGoesOn, OthersFixtures
<1>0. \A x \in DirRuns \ {r} : runAt'[x] = runAt[x] /\ dirOf'[x] = dirOf[x]
                               /\ fixturesOf'[x] = fixturesOf[x] /\ codeOf'[x] = codeOf[x]
  OBVIOUS
<1>1. HoldsTell'
  <2> SUFFICES ASSUME NEW x \in DirRuns, x # r PROVE HoldsAt(x)'
    BY DEF HoldsTell
  <2>1. StampsOf(x)' = StampsOf(x) /\ Working(x)' = Working(x)
    BY <1>0 DEF StampsOf, Working
  <2>2. HoldsAt(x)
    BY DEF DirInv, HoldsTell
  <2> QED
    BY <1>0, <2>1, <2>2 DEF HoldsAt
<1>2. FixturesTell'
  <2> SUFFICES ASSUME NEW x \in DirRuns, x # r PROVE FixturesAt(x)'
    BY DEF FixturesTell
  <2> QED
    BY <1>0 DEF DirInv, FixturesTell, FixturesAt
<1>3. \A x \in DirRuns : Misjudged(x) => Misjudged(x)'
  BY <1>0 DEF Misjudged
<1>4. \A x \in DirRuns : HasEnded(x) => HasEnded(x)' /\ dirOf'[x] = dirOf[x]
  BY <1>0 DEF HasEnded
<1>5. \A x \in DirRuns : Misjudged(x) => way[x].writer # "current"
  BY DEF Misjudged
<1>6. \A x \in DirRuns : Stamped(x)' => way[x].writer = "current"
  BY <1>1 DEF HoldsTell, HoldsAt, Stamped
<1>7. DoomTells'
  <2> SUFFICES ASSUME NEW s \in DirRuns, NEW x \in doomed[s]
               PROVE  /\ HasEnded(x)' \/ Misjudged(x)'
                      /\ Stamped(x)' => SameID(way[x].place, way[s].place)
    BY DEF DoomTells, SameID
  <2>1. x \in DirRuns
    BY DEF DirInv, DirTypes
  <2>2. /\ HasEnded(x) \/ Misjudged(x)
        /\ Stamped(x) => SameID(way[x].place, way[s].place)
    BY DEF DirInv, DoomTells
  <2> QED
    BY <1>3, <1>4, <1>5, <1>6, <2>1, <2>2 DEF Stamped
<1>8. SweptTells'
  BY <1>3, <1>4, <1>5, <1>6 DEF DirInv, SweptTells, Stamped
<1>9. LiveTells'
  BY <1>0, <1>3 DEF DirInv, LiveTells
<1>10. KeptTells'
  <2>1. way[r].writer = "current" => \A s \in DirRuns : r \notin doomed[s]
    BY <1>5 DEF DirInv, DoomTells, HasEnded
  <2> QED
    BY <1>0, <2>1 DEF DirInv, KeptTells
<1>11. OwedTells'
  <2>1. \A s \in DirRuns : runAt'[s] \in {"unborn", "sweep", "crashed"} => runAt'[s] = runAt[s]
    BY <1>0
  <2>2. runAt[r] \notin {"sweep", "crashed"}
    BY DEF RunGoesOn
  <2>3. ASSUME NEW s \in DirRuns, NEW x \in owedTo[s]
        PROVE  /\ HasEnded(x)' /\ Stamped(x)' /\ ~Kept(x)'
               /\ SameID(way[x].place, way[s].place)
               /\ x \notin pidTaken /\ dirOf'[x].there =>
                    \/ runAt'[s] = "sweep" /\ x \in todo[s] \cup doomed[s]
                    \/ runAt'[s] = "crashed"
    <3>1. x \in DirRuns
      BY DEF DirInv, DirTypes
    <3>2. /\ HasEnded(x) /\ Stamped(x) /\ ~Kept(x)
          /\ SameID(way[x].place, way[s].place)
          /\ x \notin pidTaken /\ dirOf[x].there =>
                \/ runAt[s] = "sweep" /\ x \in todo[s] \cup doomed[s]
                \/ runAt[s] = "crashed"
      BY DEF DirInv, OwedTells
    <3> QED
      BY <1>0, <1>4, <2>2, <3>1, <3>2 DEF Stamped, Kept
  <2>4. ASSUME NEW s \in DirRuns, runAt'[s] = "unborn" PROVE owedTo[s] = {}
    BY <2>1, <2>4 DEF DirInv, OwedTells
  <2> QED
    BY <2>3, <2>4 DEF OwedTells, SameID
<1> QED
  BY <1>1, <1>2, <1>7, <1>8, <1>9, <1>10, <1>11 DEF DirInv

LEMMA MakingKeeps ==
    ASSUME DirInv, DirTypes', NEW r \in DirRuns,
           \/ Make(r) \/ StampOwner(r) \/ StampPid(r) \/ WriteFiles(r) \/ WriteJson(r) \/ Mark(r)
    PROVE  DirInv'
<1>0. /\ runAt \in [DirRuns -> RunStages] /\ HoldsAt(r) /\ FixturesAt(r)
      /\ ~Misjudged(r) /\ runAt[r] \notin {"unborn", "sweep", "make", "over", "crashed"} => dirOf[r].there
      /\ DirTypes
  BY DEF DirInv, HoldsTell, FixturesTell, LiveTells, DirTypes
<1>1. ASSUME NEW stage, NEW dir, NEW next, Made(r, stage, dir, next)
      PROVE  /\ NoSweep /\ OthersFixtures(r) /\ runAt[r] = stage /\ dirOf' = dir
             /\ runAt'[r] = next /\ \A x \in DirRuns \ {r} : runAt'[x] = runAt[x]
             /\ fixturesOf' = fixturesOf /\ codeOf' = codeOf
  BY <1>0, <1>1 DEF Made, NoSweep, OthersFixtures, Goes
<1>2. CASE Make(r)
  <2> DEFINE next == CASE way[r].writer = "current" -> "owner"
                       [] way[r].writer = "earlierOverlay" -> "pid"
                       [] way[r].writer = "earlierWork" -> "files"
  <2>0. Made(r, "make", [dirOf EXCEPT ![r] = [NoDir EXCEPT !.there = TRUE]], next)
    BY <1>2 DEF Make
  <2>1. next \in {"owner", "pid", "files"}
        /\ (next = "owner" => way[r].writer = "current")
        /\ (next = "pid" => way[r].writer = "earlierOverlay")
        /\ (next = "files" => way[r].writer = "earlierWork")
    BY <1>0, WaysAre
  <2> HIDE DEF next
  <2>2. DirBecomes(r, TRUE, {}, 0)
    BY <1>0, <1>1, <2>0, DirMade
  <2>3. RunGoesOn(r, next)
    BY <1>1, <2>0, <2>1 DEF RunGoesOn
  <2>4. HoldsAt(r)'
    <3>1. way' = way /\ runAt'[r] = next
      BY <1>1, <2>0 DEF NoSweep
    <3> QED
      BY <2>1, <2>2, <3>1 DEF HoldsAt, StampsOf, DirBecomes, Working
  <2>5. FixturesAt(r)'
    BY <1>0, <1>1, <2>0, <2>1 DEF FixturesAt
  <2>6. Misjudged(r) => Misjudged(r)'
    <3>1. way' = way /\ dirOf[r].age = 0
      BY <1>0, <1>1, <2>0 DEF NoSweep, HoldsAt, NoDir
    <3> QED
      BY <3>1 DEF Misjudged, Week
  <2> QED
    BY <1>1, <2>0, <2>2, <2>3, <2>4, <2>5, <2>6, GoingOnKeeps
<1>3. ASSUME ~Misjudged(r)' => ~Misjudged(r), FixturesAt(r)', HoldsAt(r)',
             NEW stage \in {"owner", "pid", "files", "json", "mark"}, NEW dir, NEW next,
             next \in {"pid", "files", "json", "mark", "work"},
             Made(r, stage, dir, next),
             NEW holds, NEW age, DirBecomes(r, dirOf[r].there, holds, age),
             "keep" \in holds => way[r].writer = "current"
      PROVE  DirInv'
  <2>1. RunGoesOn(r, next)
    BY <1>1, <1>3 DEF RunGoesOn
  <2>2. "keep" \in holds => dirOf[r].there
    BY <1>0, <1>1, <1>3 DEF Misjudged
  <2>3. Misjudged(r) \/ dirOf[r].there
    BY <1>0, <1>1, <1>3
  <2>4. NoSweep /\ OthersFixtures(r)
    BY <1>1, <1>3
  <2> QED
    BY <1>3, <2>1, <2>2, <2>3, <2>4, GoingOnKeeps
<1>4. ASSUME NEW stage \in {"owner", "pid", "files", "json", "mark"}, NEW dir, NEW next,
             next \in {"pid", "files", "json", "mark", "work"},
             Made(r, stage, dir, next),
             NEW holds, NEW there, DirBecomes(r, there, holds, 0)
      PROVE  (~Misjudged(r)' => ~Misjudged(r)) /\ FixturesAt(r)'
  <2>1. /\ way' = way /\ dirOf[r].age = 0 /\ dirOf'[r].age = 0 /\ runAt[r] = stage
        /\ runAt'[r] = next /\ fixturesOf' = fixturesOf
    BY <1>0, <1>1, <1>4 DEF NoSweep, HoldsAt, DirBecomes
  <2>2. FixturesAt(r)'
    BY <1>0, <1>4, <2>1 DEF FixturesAt
  <2> QED
    BY <2>1, <2>2 DEF Misjudged
<1>5. CASE StampOwner(r)
  <2>1. DirBecomes(r, dirOf[r].there, dirOf[r].holds \cup {"owner"}, 0)
    BY <1>0, <1>1, <1>5, DirHolding DEF StampOwner, DirContents
  <2>2. HoldsAt(r)'
    BY <1>0, <1>1, <1>5, <2>1 DEF StampOwner, HoldsAt, NoSweep, StampsOf, DirBecomes, Working
  <2>3. "keep" \notin dirOf[r].holds \cup {"owner"}
    BY <1>0, <1>1, <1>5 DEF StampOwner, HoldsAt
  <2> QED
    BY <1>3, <1>4, <1>5, <2>1, <2>2, <2>3 DEF StampOwner
<1>6. CASE StampPid(r)
  <2>1. DirBecomes(r, dirOf[r].there, dirOf[r].holds \cup {"pid"}, 0)
    BY <1>0, <1>1, <1>6, DirHolding DEF StampPid, DirContents
  <2>2. HoldsAt(r)'
    BY <1>0, <1>1, <1>6, <2>1, WaysAre DEF StampPid, HoldsAt, NoSweep, StampsOf, DirBecomes, Working
  <2>3. "keep" \notin dirOf[r].holds \cup {"pid"}
    BY <1>0, <1>1, <1>6, WaysAre DEF StampPid, HoldsAt, StampsOf
  <2> QED
    BY <1>3, <1>4, <1>6, <2>1, <2>2, <2>3 DEF StampPid
<1>7. CASE WriteFiles(r)
  <2>1. DirBecomes(r, dirOf[r].there, dirOf[r].holds \cup {"files"}, 0)
    BY <1>0, <1>1, <1>7, DirHolding DEF WriteFiles, DirContents
  <2>2. HoldsAt(r)'
    BY <1>0, <1>1, <1>7, <2>1, WaysAre DEF WriteFiles, HoldsAt, NoSweep, StampsOf, DirBecomes, Working
  <2>3. "keep" \notin dirOf[r].holds \cup {"files"}
    BY <1>0, <1>1, <1>7, WaysAre DEF WriteFiles, HoldsAt, StampsOf
  <2> QED
    BY <1>3, <1>4, <1>7, <2>1, <2>2, <2>3 DEF WriteFiles
<1>8. CASE WriteJson(r)
  <2> DEFINE next == IF way[r].does = "debug" THEN "mark" ELSE "work"
  <2>0. Made(r, "json", [dirOf EXCEPT ![r].holds = @ \cup {"json"}], next)
    BY <1>8 DEF WriteJson
  <2>1. next \in {"mark", "work"} /\ (next = "mark" => way[r].does = "debug")
    OBVIOUS
  <2> HIDE DEF next
  <2>2. dirOf[r].age = 0
    BY <1>0, <1>1, <2>0 DEF HoldsAt
  <2>3. DirBecomes(r, dirOf[r].there, dirOf[r].holds \cup {"json"}, 0)
    BY <1>0, <1>1, <2>0, <2>2, DirGains DEF DirContents
  <2>4. HoldsAt(r)'
    BY <1>0, <1>1, <2>0, <2>1, <2>3, WaysAre DEF HoldsAt, NoSweep, StampsOf, DirBecomes, Working
  <2>5. "keep" \notin dirOf[r].holds \cup {"json"}
    BY <1>0, <1>1, <2>0, WaysAre DEF HoldsAt, StampsOf
  <2> QED
    BY <1>3, <1>4, <2>0, <2>1, <2>3, <2>4, <2>5
<1>9. CASE Mark(r)
  <2>1. PICK marked \in {{}, {"keep"}} :
            Made(r, "mark", IF marked = {} THEN dirOf ELSE Holding(r, marked), "work")
    BY <1>9 DEF Mark
  <2>2. /\ dirOf[r].age = 0 /\ way[r].does = "debug" /\ way[r].writer = "current"
        /\ dirOf[r].holds = StampsOf(r) \cup {"files", "json"}
    BY <1>0, <1>1, <2>1, WaysAre DEF HoldsAt
  <2>3. DirBecomes(r, dirOf[r].there, dirOf[r].holds \cup marked, 0)
    <3>1. CASE marked = {}
      <4>1. dirOf' = dirOf
        BY <1>1, <2>1, <3>1
      <4> QED
        BY <1>0, <2>2, <3>1, <4>1 DEF DirTypes, DirBecomes
    <3>2. CASE marked = {"keep"}
      <4>1. dirOf' = Holding(r, {"keep"})
        BY <1>1, <2>1, <3>2
      <4> QED
        BY <1>0, <3>2, <4>1, DirHolding DEF DirContents
    <3> QED
      BY <3>1, <3>2
  <2>4. HoldsAt(r)'
    BY <1>0, <1>1, <2>1, <2>2, <2>3 DEF HoldsAt, NoSweep, StampsOf, DirBecomes, Working
  <2> QED
    BY <1>3, <1>4, <2>1, <2>2, <2>3, <2>4
<1> QED
  BY <1>2, <1>5, <1>6, <1>7, <1>8, <1>9

\* A run in one of these stages may end, or start and tell of its fixtures.
LEMMA OverKeeps ==
    ASSUME DirInv, DirTypes', NoSweep, NEW r \in DirRuns, RunGoesOn(r, "over"), OthersFixtures(r),
           \/ dirOf' = Removed(r) /\ "keep" \notin dirOf[r].holds
           \/ dirOf' = dirOf /\ way[r].does = "debug",
           fixturesOf'[r] # "up", fixturesOf'[r] = "failed" => codeOf'[r] # 0
    PROVE  DirInv'
<1>0. /\ DirTypes /\ HoldsAt(r)
      /\ ~Misjudged(r) /\ runAt[r] \notin {"unborn", "sweep", "make", "over", "crashed"} => dirOf[r].there
  BY DEF DirInv, HoldsTell, LiveTells
<1>1. runAt'[r] = "over" /\ way' = way
  BY DEF RunGoesOn, NoSweep
<1>2. ASSUME NEW there, DirBecomes(r, there, dirOf[r].holds, dirOf[r].age),
             "keep" \in dirOf[r].holds => there,
             way[r].does = "prepare" => ~there
      PROVE  DirInv'
  <2>1. HoldsAt(r)'
    BY <1>0, <1>1, <1>2 DEF HoldsAt, DirBecomes, Working
  <2>2. FixturesAt(r)'
    BY <1>1, <1>2 DEF FixturesAt, DirBecomes
  <2>3. Misjudged(r) => Misjudged(r)'
    BY <1>1, <1>2 DEF Misjudged, DirBecomes
  <2>4. "keep" \in dirOf[r].holds => way[r].writer = "current"
    BY <1>0, WaysAre DEF HoldsAt
  <2> QED
    BY <1>2, <2>1, <2>2, <2>3, <2>4, GoingOnKeeps
<1>3. CASE dirOf' = Removed(r) /\ "keep" \notin dirOf[r].holds
  BY <1>0, <1>2, <1>3, DirRemoved
<1>4. CASE dirOf' = dirOf /\ way[r].does = "debug"
  <2>1. DirBecomes(r, dirOf[r].there, dirOf[r].holds, dirOf[r].age)
    BY <1>0, <1>4 DEF DirTypes, DirBecomes
  <2>2. "keep" \in dirOf[r].holds => dirOf[r].there
    <3>1. way[r].writer = "current"
      BY <1>0, <1>4, WaysAre
    <3>2. ~Misjudged(r)
      BY <3>1 DEF Misjudged
    <3>3. runAt[r] = "make" => dirOf[r] = NoDir
      BY <1>0 DEF HoldsAt
    <3>4. NoDir.holds = {}
      BY DEF NoDir
    <3> QED
      BY <1>0, <3>2, <3>3, <3>4 DEF RunGoesOn
  <2> QED
    BY <1>2, <1>4, <2>1, <2>2
<1> QED
  BY <1>3, <1>4

LEMMA StaysKeeps ==
    ASSUME DirInv, DirTypes', NEW r \in DirRuns, NEW at \in {"await", "tell", "wait"}, NEW f \in {"none", "up", "released"},
           Working(r), Stays(r, at, f)
    PROVE  DirInv'
<1>0. DirTypes /\ HoldsAt(r) /\ FixturesAt(r) /\ (~Misjudged(r) => dirOf[r].there)
      /\ ("keep" \in dirOf[r].holds => way[r].writer = "current")
  BY WaysAre DEF DirInv, HoldsTell, FixturesTell, LiveTells, HoldsAt, Working
<1>1. NoSweep /\ RunGoesOn(r, at) /\ OthersFixtures(r) /\ runAt'[r] = at /\ way' = way
      /\ dirOf' = dirOf /\ fixturesOf'[r] = f
  BY <1>0 DEF Stays, Goes, NoSweep, RunGoesOn, OthersFixtures, Working, DirTypes
<1>2. DirBecomes(r, dirOf[r].there, dirOf[r].holds, dirOf[r].age)
  BY <1>0, <1>1 DEF DirTypes, DirBecomes
<1>3. HoldsAt(r)'
  BY <1>0, <1>1 DEF HoldsAt, Working, StampsOf
<1>4. FixturesAt(r)'
  BY <1>1 DEF FixturesAt
<1>5. Misjudged(r) => Misjudged(r)'
  BY <1>1 DEF Misjudged
<1>6. "keep" \in dirOf[r].holds => dirOf[r].there
  BY <1>0 DEF Misjudged
<1> QED
  BY <1>0, <1>1, <1>2, <1>3, <1>4, <1>5, <1>6, GoingOnKeeps

LEMMA EndingKeeps ==
    ASSUME DirInv, DirTypes', NEW r \in DirRuns,
           \/ FailsToMake(r) \/ Run(r)
           \/ PrepareStart(r) \/ PrepareAwait(r) \/ PrepareTell(r) \/ PrepareStop(r)
    PROVE  DirInv'
<1>0. DirTypes /\ HoldsAt(r) /\ FixturesAt(r)
  BY DEF DirInv, HoldsTell, FixturesTell
<1>1. ASSUME Fails(r), runAt[r] \in {"owner", "pid", "files", "json", "work"},
             "keep" \notin dirOf[r].holds
      PROVE  DirInv'
  <2>1. NoSweep /\ RunGoesOn(r, "over") /\ OthersFixtures(r) /\ fixturesOf'[r] = "none"
    BY <1>0, <1>1 DEF Fails, Goes, NoSweep, RunGoesOn, OthersFixtures, DirTypes, FixturesAt
  <2> QED
    BY <1>1, <2>1, OverKeeps DEF Fails
<1>2. ASSUME NEW code, Ends(r, code), Working(r),
             \A x \in DirRuns \ {r} : fixturesOf'[x] = fixturesOf[x],
             fixturesOf'[r] # "up", fixturesOf'[r] = "failed" => code # 0
      PROVE  DirInv'
  <2>1. NoSweep /\ RunGoesOn(r, "over") /\ OthersFixtures(r) /\ codeOf'[r] = code
    BY <1>0, <1>2 DEF Ends, Goes, NoSweep, RunGoesOn, OthersFixtures, DirTypes, Working
  <2>2. way[r].does # "debug" => "keep" \notin dirOf[r].holds
    BY <1>0 DEF HoldsAt
  <2> QED
    BY <1>2, <2>1, <2>2, OverKeeps DEF Ends
<1>3. ASSUME NEW code \in {0, 2}, Teardown(r, code), Working(r)
      PROVE  DirInv'
  BY <1>0, <1>2, <1>3 DEF Teardown, DirTypes
<1>4. CASE FailsToMake(r)
  <2>1. "keep" \notin dirOf[r].holds
    BY <1>0, <1>4, WaysAre DEF FailsToMake, HoldsAt, StampsOf
  <2> QED
    BY <1>1, <1>4, <2>1 DEF FailsToMake
<1>5. CASE Run(r)
  BY <1>0, <1>2, <1>5 DEF Run, FixturesAt, Working
<1>6. CASE PrepareStart(r)
  <2>1. runAt[r] = "work" /\ "keep" \notin dirOf[r].holds
    BY <1>0, <1>6 DEF PrepareStart, HoldsAt
  <2> QED
    BY <1>1, <1>6, <2>1, StaysKeeps DEF PrepareStart, Working
<1>7. CASE PrepareAwait(r)
  BY <1>3, <1>7, StaysKeeps DEF PrepareAwait, Working
<1>8. CASE PrepareTell(r)
  <2>1. fixturesOf[r] \in {"none", "up", "released"}
    BY <1>0, <1>8 DEF PrepareTell, FixturesAt, DirTypes
  <2> QED
    BY <1>3, <1>8, <2>1, StaysKeeps DEF PrepareTell, Working
<1>9. CASE PrepareStop(r)
  BY <1>3, <1>9 DEF PrepareStop, Working
<1> QED
  BY <1>4, <1>5, <1>6, <1>7, <1>8, <1>9

LEMMA CrashKeeps ==
    ASSUME DirInv, DirTypes', NEW r \in DirRuns, Crash(r)
    PROVE  DirInv'
<1>0. /\ ~Dead(r) /\ runAt'[r] = "crashed" /\ way' = way /\ dirOf' = dirOf /\ owedTo' = owedTo
      /\ sweptBy' = sweptBy /\ pidTaken' = pidTaken /\ fixturesOf' = fixturesOf /\ codeOf' = codeOf
      /\ todo'[r] = {} /\ doomed'[r] = {}
      /\ \A x \in DirRuns \ {r} : runAt'[x] = runAt[x] /\ todo'[x] = todo[x] /\ doomed'[x] = doomed[x]
  BY DEF Crash, Goes, DirInv, DirTypes
<1>1. \A x \in DirRuns : HasEnded(x) => HasEnded(x)'
  BY <1>0 DEF HasEnded
<1>2. \A x \in DirRuns : /\ Misjudged(x)' = Misjudged(x) /\ Stamped(x)' = Stamped(x)
                         /\ Kept(x)' = Kept(x) /\ StampsOf(x)' = StampsOf(x)
                         /\ (Working(x)' => Working(x))
  BY <1>0 DEF Misjudged, Stamped, Kept, StampsOf, Working
<1>3. HoldsTell'
  <2> SUFFICES ASSUME NEW x \in DirRuns PROVE HoldsAt(x)'
    BY DEF HoldsTell
  <2>1. HoldsAt(x)
    BY DEF DirInv, HoldsTell
  <2> QED
    BY <1>0, <1>2, <2>1 DEF HoldsAt
<1>4. FixturesTell'
  <2> SUFFICES ASSUME NEW x \in DirRuns PROVE FixturesAt(x)'
    BY DEF FixturesTell
  <2>1. FixturesAt(x)
    BY DEF DirInv, FixturesTell
  <2> QED
    BY <1>0, <2>1 DEF FixturesAt, Dead
<1>5. \A s \in DirRuns : doomed'[s] \subseteq doomed[s]
  BY <1>0
<1>6. DoomTells'
  BY <1>0, <1>1, <1>2, <1>5 DEF DirInv, DirTypes, DoomTells, SameID
<1>7. SweptTells'
  BY <1>0, <1>1, <1>2 DEF DirInv, SweptTells, SameID
<1>8. LiveTells'
  BY <1>0, <1>2 DEF DirInv, LiveTells
<1>9. KeptTells'
  BY <1>0, <1>5 DEF DirInv, KeptTells
<1>10. OwedTells'
  <2> SUFFICES ASSUME NEW s \in DirRuns
               PROVE  /\ runAt'[s] = "unborn" => owedTo[s] = {}
                      /\ \A x \in owedTo[s] :
                            /\ HasEnded(x)' /\ Stamped(x)' /\ ~Kept(x)'
                            /\ SameID(way[x].place, way[s].place)
                            /\ x \notin pidTaken /\ dirOf[x].there =>
                                  \/ runAt'[s] = "sweep" /\ x \in todo'[s] \cup doomed'[s]
                                  \/ runAt'[s] = "crashed"
    BY <1>0 DEF OwedTells, SameID
  <2>1. owedTo[s] \subseteq DirRuns
    BY DEF DirInv, DirTypes
  <2>2. /\ runAt[s] = "unborn" => owedTo[s] = {}
        /\ \A x \in owedTo[s] :
              /\ HasEnded(x) /\ Stamped(x) /\ ~Kept(x)
              /\ SameID(way[x].place, way[s].place)
              /\ x \notin pidTaken /\ dirOf[x].there =>
                    \/ runAt[s] = "sweep" /\ x \in todo[s] \cup doomed[s]
                    \/ runAt[s] = "crashed"
    BY DEF DirInv, OwedTells
  <2> QED
    BY <1>0, <1>1, <1>2, <2>1, <2>2
<1> QED
  BY <1>3, <1>4, <1>6, <1>7, <1>8, <1>9, <1>10 DEF DirInv

LEMMA PidTakenKeeps ==
    ASSUME DirInv, DirTypes', NEW r \in DirRuns, PidIsTaken(r)
    PROVE  DirInv'
<1>0. /\ way' = way /\ runAt' = runAt /\ dirOf' = dirOf /\ owedTo' = owedTo /\ todo' = todo
      /\ doomed' = doomed /\ sweptBy' = sweptBy /\ fixturesOf' = fixturesOf /\ codeOf' = codeOf
      /\ pidTaken \subseteq pidTaken'
  BY DEF PidIsTaken
<1>1. \A x \in DirRuns : /\ HasEnded(x)' = HasEnded(x)
                         /\ Misjudged(x)' = Misjudged(x) /\ Stamped(x)' = Stamped(x)
                         /\ Kept(x)' = Kept(x) /\ StampsOf(x)' = StampsOf(x)
                         /\ Working(x)' = Working(x)
  BY <1>0 DEF HasEnded, Misjudged, Stamped, Kept, StampsOf, Working
<1>2. HoldsTell' /\ FixturesTell'
  BY <1>0, <1>1 DEF DirInv, HoldsTell, FixturesTell, HoldsAt, FixturesAt
<1>3. DoomTells' /\ SweptTells'
  BY <1>0, <1>1 DEF DirInv, DirTypes, DoomTells, SweptTells, SameID
<1>4. LiveTells' /\ KeptTells'
  BY <1>0, <1>1 DEF DirInv, LiveTells, KeptTells
<1>5. OwedTells'
  <2>1. \A s \in DirRuns : owedTo[s] \subseteq DirRuns
    BY DEF DirInv, DirTypes
  <2> QED
    BY <1>0, <1>1, <2>1 DEF DirInv, OwedTells, SameID
<1> QED
  BY <1>2, <1>3, <1>4, <1>5 DEF DirInv

LEMMA OlderKeeps ==
    ASSUME DirInv, DirTypes', NEW r \in DirRuns, Older(r)
    PROVE  DirInv'
<1>0. /\ way' = way /\ runAt' = runAt /\ owedTo' = owedTo /\ todo' = todo /\ pidTaken' = pidTaken
      /\ doomed' = doomed /\ sweptBy' = sweptBy /\ fixturesOf' = fixturesOf /\ codeOf' = codeOf
      /\ dirOf[r].there /\ runAt[r] \notin {"owner", "pid", "files", "json", "mark"}
      /\ dirOf[r].age \in 0..1
  <2>1. dirOf[r] \in Directories
    BY DEF DirInv, DirTypes
  <2> QED
    BY <2>1, DirectoryIs DEF Older, Week
<1>1. DirBecomes(r, dirOf[r].there, dirOf[r].holds, dirOf[r].age + 1)
  BY DirAges DEF DirInv, Older
<1>2. \A x \in DirRuns : /\ dirOf'[x].holds = dirOf[x].holds /\ dirOf'[x].there = dirOf[x].there
                         /\ (dirOf[x].age = Week => dirOf'[x].age = Week)
                         /\ (dirOf'[x] = dirOf[x] \/ (x = r /\ dirOf[r].there))
  <2> TAKE x \in DirRuns
  <2>1. CASE x = r
    <3>1. dirOf'[r].holds = dirOf[r].holds /\ dirOf'[r].there = dirOf[r].there
      BY <1>1, Zenon DEF DirBecomes
    <3>2. dirOf[r].age # Week
      BY <1>0 DEF Week
    <3> QED
      BY <1>0, <2>1, <3>1, <3>2
  <2>2. CASE x # r
    BY <1>1, <2>2 DEF DirBecomes
  <2> QED
    BY <2>1, <2>2
<1>3. \A x \in DirRuns : /\ HasEnded(x)' = HasEnded(x)
                         /\ (Misjudged(x) => Misjudged(x)') /\ Stamped(x)' = Stamped(x)
                         /\ StampsOf(x)' = StampsOf(x)
                         /\ Working(x)' = Working(x)
  BY <1>0, <1>2 DEF HasEnded, Misjudged, Stamped, StampsOf, Working
<1>4. \A x \in DirRuns : Kept(x)' => Kept(x)
  BY <1>0, <1>1, <1>2 DEF Kept, DirBecomes, Week
<1>5. HoldsTell'
  <2> SUFFICES ASSUME NEW x \in DirRuns PROVE HoldsAt(x)'
    BY DEF HoldsTell
  <2>1. HoldsAt(x)
    BY DEF DirInv, HoldsTell
  <2>2. NoDir.there = FALSE
    BY DEF NoDir
  <2> QED
    BY <1>0, <1>2, <1>3, <2>1, <2>2 DEF HoldsAt
<1>6. FixturesTell'
  BY <1>0, <1>2 DEF DirInv, FixturesTell, FixturesAt
<1>7. DoomTells' /\ SweptTells'
  BY <1>0, <1>3 DEF DirInv, DirTypes, DoomTells, SweptTells, SameID
<1>8. LiveTells' /\ KeptTells'
  BY <1>0, <1>2, <1>3 DEF DirInv, LiveTells, KeptTells
<1>9. OwedTells'
  <2>1. \A s \in DirRuns : owedTo[s] \subseteq DirRuns
    BY DEF DirInv, DirTypes
  <2> QED
    BY <1>0, <1>2, <1>3, <1>4, <2>1 DEF DirInv, OwedTells, SameID
<1> QED
  BY <1>5, <1>6, <1>7, <1>8, <1>9 DEF DirInv

\* Nothing of any run's own changes.
NoRun ==
    /\ way' = way /\ fixturesOf' = fixturesOf /\ codeOf' = codeOf /\ pidTaken' = pidTaken

\* What a sweep s may see an owed directory as.
OwedAt(s) ==
    /\ runAt[s] = "unborn" => owedTo[s] = {}
    /\ \A x \in owedTo[s] :
          /\ HasEnded(x) /\ Stamped(x) /\ ~Kept(x)
          /\ SameID(way[x].place, way[s].place)
          /\ x \notin pidTaken /\ dirOf[x].there =>
                \/ runAt[s] = "sweep" /\ x \in todo[s] \cup doomed[s]
                \/ runAt[s] = "crashed"

LEMMA OwedIs == OwedTells <=> \A s \in DirRuns : OwedAt(s)
BY DEF OwedTells, OwedAt

\* The stage of s changes, and what s has to do, before s has a directory.
LEMMA BirthKeeps ==
    ASSUME DirInv, DirTypes', NoRun, NEW s \in DirRuns, dirOf' = dirOf, sweptBy' = sweptBy,
           runAt[s] \in {"unborn", "sweep"}, runAt'[s] \in {"sweep", "make"},
           \A x \in DirRuns \ {s} : runAt'[x] = runAt[x] /\ todo'[x] = todo[x] /\ owedTo'[x] = owedTo[x],
           \A x \in DirRuns \ {s} : doomed'[x] = doomed[x],
           \A x \in doomed'[s] : /\ HasEnded(x) \/ Misjudged(x)
                                 /\ Stamped(x) => SameID(way[x].place, way[s].place)
                                 /\ "keep" \in dirOf[x].holds => dirOf[x].age = Week,
           OwedAt(s)'
    PROVE  DirInv'
<1>0. \A x \in DirRuns : x # s => runAt'[x] = runAt[x]
  OBVIOUS
<1>1. \A x \in DirRuns : /\ (HasEnded(x) <=> HasEnded(x)')
                         /\ Misjudged(x)' = Misjudged(x) /\ Stamped(x)' = Stamped(x)
                         /\ Kept(x)' = Kept(x) /\ StampsOf(x)' = StampsOf(x)
                         /\ (Working(x)' <=> Working(x))
  BY <1>0 DEF NoRun, HasEnded, Misjudged, Stamped, Kept, StampsOf, Working
<1>2. HoldsTell'
  <2> SUFFICES ASSUME NEW x \in DirRuns PROVE HoldsAt(x)'
    BY DEF HoldsTell
  <2>1. HoldsAt(x)
    BY DEF DirInv, HoldsTell
  <2> QED
    BY <1>0, <1>1, <2>1 DEF HoldsAt, NoRun
<1>3. FixturesTell'
  <2> SUFFICES ASSUME NEW x \in DirRuns PROVE FixturesAt(x)'
    BY DEF FixturesTell
  <2>1. FixturesAt(x)
    BY DEF DirInv, FixturesTell
  <2> QED
    BY <1>0, <2>1 DEF FixturesAt, NoRun
<1>4. DoomTells'
  <2>1. ASSUME NEW z \in DirRuns, NEW x \in doomed'[z]
        PROVE  /\ HasEnded(x) \/ Misjudged(x)
               /\ Stamped(x) => SameID(way[x].place, way[z].place)
    BY <2>1 DEF DirInv, DoomTells
  <2> QED
    BY <1>1, <2>1 DEF DirTypes, DoomTells, NoRun, SameID
<1>5. SweptTells'
  BY <1>1 DEF DirInv, SweptTells, NoRun, SameID
<1>6. LiveTells'
  BY <1>0, <1>1 DEF DirInv, LiveTells
<1>7. KeptTells'
  <2>1. ASSUME NEW z \in DirRuns, NEW x \in doomed'[z], x \in DirRuns, "keep" \in dirOf[x].holds
        PROVE  dirOf[x].age = Week
    BY <2>1 DEF DirInv, KeptTells
  <2> QED
    BY <2>1 DEF DirInv, KeptTells
<1>8. OwedTells'
  <2> SUFFICES ASSUME NEW z \in DirRuns, z # s PROVE OwedAt(z)'
    BY DEF OwedTells, OwedAt
  <2>1. OwedAt(z) /\ owedTo[z] \subseteq DirRuns
    BY OwedIs DEF DirInv, DirTypes
  <2> QED
    BY <1>0, <1>1, <2>1 DEF OwedAt, NoRun, SameID
<1> QED
  BY <1>2, <1>3, <1>4, <1>5, <1>6, <1>7, <1>8 DEF DirInv

LEMMA BeginKeeps ==
    ASSUME DirInv, DirTypes', NEW s \in DirRuns, Begin(s)
    PROVE  DirInv'
<1>0. /\ NoRun /\ dirOf' = dirOf /\ sweptBy' = sweptBy /\ doomed' = doomed
      /\ runAt[s] = "unborn" /\ runAt'[s] \in {"sweep", "make"}
      /\ \A x \in DirRuns \ {s} : runAt'[x] = runAt[x] /\ todo'[x] = todo[x] /\ owedTo'[x] = owedTo[x]
      /\ \/ /\ runAt'[s] = "sweep" /\ todo'[s] = {x \in DirRuns : dirOf[x].there}
            /\ owedTo'[s] = Owed(s)
         \/ owedTo'[s] = owedTo[s]
  BY DEF DirInv, DirTypes, Begin, NoRun
<1>1. \A x \in doomed[s] : /\ HasEnded(x) \/ Misjudged(x)
                           /\ Stamped(x) => SameID(way[x].place, way[s].place)
                           /\ "keep" \in dirOf[x].holds => dirOf[x].age = Week
  BY DEF DirInv, DirTypes, DoomTells, KeptTells
<1>2. OwedAt(s)'
  <2>1. CASE owedTo'[s] = owedTo[s]
    <3>1. owedTo'[s] = {}
      BY <1>0, <2>1, OwedIs DEF DirInv, OwedAt
    <3> QED
      BY <1>0, <3>1 DEF OwedAt
  <2>2. CASE runAt'[s] = "sweep" /\ todo'[s] = {x \in DirRuns : dirOf[x].there} /\ owedTo'[s] = Owed(s)
    <3> SUFFICES ASSUME NEW x \in Owed(s)
                 PROVE  /\ HasEnded(x)' /\ Stamped(x)' /\ ~Kept(x)'
                        /\ SameID(way[x].place, way[s].place)
                        /\ dirOf[x].there => x \in todo'[s] \cup doomed'[s]
      BY <1>0, <2>2 DEF OwedAt, NoRun, SameID
    <3>1. /\ x \in DirRuns /\ dirOf[x].there /\ Dead(x) /\ Stamped(x) /\ ~Kept(x)
          /\ SameID(way[x].place, way[s].place)
      BY DEF Owed, Stamped
    <3>2. runAt[x] # "unborn"
      <4>1. HoldsAt(x) /\ NoDir.there = FALSE
        BY <3>1 DEF DirInv, HoldsTell, NoDir
      <4> QED
        BY <3>1, <4>1 DEF HoldsAt
    <3>3. runAt'[x] = runAt[x]
      BY <1>0, <3>1, <3>2
    <3> QED
      BY <1>0, <2>2, <3>1, <3>2, <3>3 DEF Dead, HasEnded, Stamped, Kept
  <2> QED
    BY <1>0, <2>1, <2>2
<1> QED
  BY <1>0, <1>1, <1>2, BirthKeeps

\* A directory that can be judged dead is over or misjudged, and of the sweep's
\* own place if it is stamped.
LEMMA JudgedAre ==
    ASSUME DirInv, NEW s \in DirRuns, NEW x \in DirRuns, NEW owner \in JudgeOwner(s, x),
           dirOf[x].there, owner = "gone" \/ (owner = "unknown" /\ dirOf[x].age >= GraceOf(x))
    PROVE  /\ HasEnded(x) \/ Misjudged(x)
           /\ Stamped(x) => SameID(way[x].place, way[s].place)
<1>0. HoldsAt(x) /\ dirOf[x] \in Directories /\ DirTypes
  BY DEF DirInv, HoldsTell, DirTypes
<1>1. dirOf[x].age \in 0..2 /\ NoDir.there = FALSE
  BY <1>0, DirectoryIs DEF NoDir
<1>2. runAt[x] \notin {"unborn", "sweep", "make"} /\ runAt[x] \in RunStages
  BY <1>0, <1>1 DEF HoldsAt, DirTypes
<1>3. CASE "pid" \notin dirOf[x].holds
  <2>1. owner = "unknown"
    BY <1>3 DEF JudgeOwner
  <2>2. dirOf[x].age # 0 /\ (way[x].writer # "earlierOverlay" => dirOf[x].age = Week)
    BY <1>1, <2>1 DEF GraceOf, Week
  <2>3. runAt[x] \notin {"owner", "pid", "files", "json", "mark"}
    BY <1>0, <2>2 DEF HoldsAt
  <2>4. HasEnded(x) \/ Working(x)
    BY <1>2, <2>3 DEF HasEnded, Working, RunStages
  <2>5. Working(x) => "pid" \notin StampsOf(x)
    BY <1>0, <1>3 DEF HoldsAt
  <2>6. "pid" \notin StampsOf(x) => way[x].writer = "earlierWork"
    BY <1>0, WaysAre DEF StampsOf
  <2> QED
    BY <1>3, <2>2, <2>4, <2>5, <2>6 DEF Misjudged, Stamped
<1>4. CASE "pid" \in dirOf[x].holds
  <2>1. ~("owner" \in dirOf[x].holds /\ ~SameID(way[x].place, way[s].place))
    BY <1>4 DEF JudgeOwner
  <2>2. PICK lives \in AliveAsSeen(s, x) : owner = IF lives THEN "live" ELSE "gone"
    BY <1>4, <2>1 DEF JudgeOwner
  <2>3. ~lives
    BY <2>2
  <2>4. way[s].place # way[x].place \/ Dead(x)
    BY <2>2, <2>3 DEF AliveAsSeen
  <2>5. CASE Dead(x)
    BY <1>2, <2>1, <2>5 DEF Dead, HasEnded, Stamped
  <2>6. CASE way[s].place # way[x].place
    <3>1. "owner" \notin dirOf[x].holds
      BY <2>1, <2>6 DEF SameID
    <3>2. way[x].writer # "earlierWork"
      BY <1>0, <1>4 DEF HoldsAt
    <3>3. way[x].writer = "current" => HasEnded(x)
      <4> SUFFICES ASSUME way[x].writer = "current", ~HasEnded(x) PROVE FALSE
        OBVIOUS
      <4>1. StampsOf(x) = {"owner", "pid"}
        BY DEF StampsOf
      <4>2. "owner" \in dirOf[x].holds
        BY <1>0, <1>2, <1>4, <4>1 DEF HoldsAt, HasEnded, Working, RunStages
      <4> QED
        BY <3>1, <4>2
    <3> QED
      BY <1>0, <2>6, <3>1, <3>2, <3>3, WaysAre DEF Misjudged, Stamped
  <2> QED
    BY <2>4, <2>5, <2>6
<1> QED
  BY <1>3, <1>4

LEMMA JudgeKeeps ==
    ASSUME DirInv, DirTypes', NEW s \in DirRuns, NEW r \in DirRuns, Judge(s, r)
    PROVE  DirInv'
<1>0. /\ NoRun /\ dirOf' = dirOf /\ sweptBy' = sweptBy /\ runAt' = runAt /\ owedTo' = owedTo
      /\ runAt[s] = "sweep" /\ doomed[s] = {} /\ todo'[s] = todo[s] \ {r}
      /\ \A x \in DirRuns \ {s} : todo'[x] = todo[x] /\ doomed'[x] = doomed[x]
  BY DEF DirInv, DirTypes, Judge, NoRun
<1>1. OwedAt(s)
  BY OwedIs DEF DirInv
<1>2. CASE /\ dirOf[r].there /\ ~Kept(r) /\ doomed' = [doomed EXCEPT ![s] = {r}]
           /\ \E owner \in JudgeOwner(s, r) :
                owner = "gone" \/ (owner = "unknown" /\ dirOf[r].age >= GraceOf(r))
  <2>1. doomed'[s] = {r}
    BY <1>2 DEF DirInv, DirTypes
  <2>2. /\ HasEnded(r) \/ Misjudged(r)
        /\ Stamped(r) => SameID(way[r].place, way[s].place)
    BY <1>2, JudgedAre
  <2>3. "keep" \in dirOf[r].holds => dirOf[r].age = Week
    <3>1. dirOf[r] \in Directories
      BY DEF DirInv, DirTypes
    <3> QED
      BY <1>2, <3>1, DirectoryIs DEF Kept, Week
  <2>4. OwedAt(s)'
    BY <1>0, <1>1, <2>1 DEF OwedAt, NoRun, HasEnded, Stamped, Kept, SameID
  <2> QED
    BY <1>0, <2>1, <2>2, <2>3, <2>4, BirthKeeps
<1>3. CASE /\ doomed' = doomed
           /\ \/ ~dirOf[r].there \/ Kept(r)
              \/ \E owner \in JudgeOwner(s, r) :
                   owner \in {"live", "elsewhere"} \/ (owner = "unknown" /\ dirOf[r].age < GraceOf(r))
  <2>1. ASSUME r \in owedTo[s], r \notin pidTaken, dirOf[r].there
        PROVE  FALSE
    <3>1. HasEnded(r) /\ Stamped(r) /\ ~Kept(r) /\ SameID(way[r].place, way[s].place)
      BY <1>1, <2>1 DEF OwedAt
    <3>2. PICK owner \in JudgeOwner(s, r) : owner \in {"live", "elsewhere", "unknown"}
      BY <1>3, <2>1, <3>1
    <3>3. owner \in {IF lives THEN "live" ELSE "gone" : lives \in AliveAsSeen(s, r)}
      BY <3>1, <3>2 DEF JudgeOwner, Stamped
    <3>4. AliveAsSeen(s, r) = {FALSE}
      BY <2>1, <3>1 DEF AliveAsSeen, SameID, Dead, HasEnded
    <3> QED
      BY <3>2, <3>3, <3>4
  <2>2. OwedAt(s)'
    BY <1>0, <1>1, <1>3, <2>1 DEF OwedAt, NoRun, HasEnded, Stamped, Kept, SameID
  <2> QED
    BY <1>0, <1>3, <2>2, BirthKeeps
<1> QED
  BY <1>2, <1>3 DEF Judge

LEMMA SweptKeeps ==
    ASSUME DirInv, DirTypes', NEW s \in DirRuns, Swept(s)
    PROVE  DirInv'
<1>0. /\ NoRun /\ dirOf' = dirOf /\ sweptBy' = sweptBy /\ owedTo' = owedTo /\ todo' = todo
      /\ doomed' = doomed /\ runAt[s] = "sweep" /\ todo[s] = {} /\ doomed[s] = {}
      /\ runAt'[s] = "make" /\ \A x \in DirRuns \ {s} : runAt'[x] = runAt[x]
  BY DEF DirInv, DirTypes, Swept, NoRun
<1>1. OwedAt(s) /\ owedTo[s] \subseteq DirRuns
  BY OwedIs DEF DirInv, DirTypes
<1>2. OwedAt(s)'
  BY <1>0, <1>1 DEF OwedAt, NoRun, HasEnded, Stamped, Kept, SameID
<1> QED
  BY <1>0, <1>2, BirthKeeps

LEMMA SweepKeeps ==
    ASSUME DirInv, DirTypes', NEW s \in DirRuns, NEW r \in DirRuns, Sweep(s, r)
    PROVE  DirInv'
<1>0. /\ NoRun /\ runAt' = runAt /\ owedTo' = owedTo /\ todo' = todo
      /\ runAt[s] = "sweep" /\ r \in doomed[s] /\ doomed'[s] = {}
      /\ \A x \in DirRuns \ {s} : doomed'[x] = doomed[x]
      /\ sweptBy'[r] \in {s, sweptBy[r]} /\ \A x \in DirRuns \ {r} : sweptBy'[x] = sweptBy[x]
  BY DEF DirInv, DirTypes, Sweep, NoRun
<1>1. DirBecomes(r, FALSE, dirOf[r].holds, dirOf[r].age)
  BY DirRemoved DEF DirInv, Sweep
<1>2. \A x \in DirRuns : /\ dirOf'[x].holds = dirOf[x].holds /\ dirOf'[x].age = dirOf[x].age
                         /\ (dirOf'[x].there => dirOf[x].there /\ x # r)
                         /\ (x # r => dirOf'[x] = dirOf[x])
  BY <1>1 DEF DirBecomes
<1>3. \A x \in DirRuns : /\ HasEnded(x)' = HasEnded(x)
                         /\ Misjudged(x)' = Misjudged(x) /\ Stamped(x)' = Stamped(x)
                         /\ Kept(x)' = Kept(x) /\ StampsOf(x)' = StampsOf(x)
                         /\ Working(x)' = Working(x)
  BY <1>0, <1>2 DEF NoRun, HasEnded, Misjudged, Stamped, Kept, StampsOf, Working
<1>4. \A x \in DirRuns : doomed'[x] \subseteq doomed[x]
  BY <1>0
<1>5. /\ HasEnded(r) \/ Misjudged(r)
      /\ Stamped(r) => SameID(way[r].place, way[s].place)
  BY <1>0 DEF DirInv, DoomTells
<1>6. HoldsTell'
  <2> SUFFICES ASSUME NEW x \in DirRuns PROVE HoldsAt(x)'
    BY DEF HoldsTell
  <2>1. HoldsAt(x)
    BY DEF DirInv, HoldsTell
  <2>2. CASE x # r
    BY <1>0, <1>2, <1>3, <2>1, <2>2 DEF HoldsAt, NoRun
  <2>3. CASE x = r /\ runAt[r] \notin {"unborn", "sweep", "make"}
    BY <1>0, <1>2, <1>3, <2>1, <2>3 DEF HoldsAt, NoRun
  <2>4. CASE x = r /\ runAt[r] \in {"unborn", "sweep", "make"}
    <3>1. dirOf[r] = NoDir
      BY <2>1, <2>4 DEF HoldsAt
    <3>2. NoDir.there = FALSE /\ NoDir.holds = {} /\ NoDir.age = 0
      BY DEF NoDir
    <3>3. dirOf'[r] \in Directories /\ dirOf'[r].there = FALSE /\ dirOf'[r].holds = {} /\ dirOf'[r].age = 0
      BY <1>1, <3>1, <3>2 DEF DirBecomes
    <3>4. dirOf'[r] = NoDir
      BY <3>3 DEF Directories, NoDir
    <3>5. dirOf'[r] = dirOf[r]
      BY <3>1, <3>4
    <3> QED
      BY <1>0, <1>3, <2>1, <2>4, <3>5 DEF HoldsAt, NoRun
  <2> QED
    BY <2>2, <2>3, <2>4
<1>7. FixturesTell'
  BY <1>0, <1>2 DEF DirInv, FixturesTell, FixturesAt, NoRun
<1>8. DoomTells'
  BY <1>0, <1>3, <1>4 DEF DirInv, DirTypes, DoomTells, NoRun, SameID
<1>9. SweptTells'
  BY <1>0, <1>3, <1>5 DEF DirInv, SweptTells, NoRun, SameID
<1>10. LiveTells'
  <2> SUFFICES ASSUME NEW x \in DirRuns, ~Misjudged(x)',
                      runAt'[x] \notin {"unborn", "sweep", "make", "over", "crashed"}
               PROVE  dirOf'[x].there
    BY DEF LiveTells
  <2>1. x # r
    BY <1>0, <1>3, <1>5 DEF HasEnded
  <2> QED
    BY <1>0, <1>2, <1>3, <2>1 DEF DirInv, LiveTells
<1>11. KeptTells'
  BY <1>0, <1>2, <1>4 DEF DirInv, KeptTells
<1>12. OwedTells'
  <2> SUFFICES ASSUME NEW z \in DirRuns PROVE OwedAt(z)'
    BY DEF OwedTells, OwedAt
  <2>1. OwedAt(z) /\ owedTo[z] \subseteq DirRuns
    BY OwedIs DEF DirInv, DirTypes
  <2>2. \A x \in doomed[z] : x = r \/ x \in doomed'[z]
    BY <1>0 DEF DirInv, DirTypes
  <2> QED
    BY <1>0, <1>2, <1>3, <2>1, <2>2 DEF OwedAt, NoRun, SameID
<1> QED
  BY <1>6, <1>7, <1>8, <1>9, <1>10, <1>11, <1>12 DEF DirInv

LEMMA DirsRest == ASSUME DirInv, UNCHANGED dirVars PROVE DirInv'
<1>0. /\ UNCHANGED way /\ UNCHANGED runAt /\ UNCHANGED dirOf /\ UNCHANGED todo /\ UNCHANGED doomed
      /\ UNCHANGED owedTo /\ UNCHANGED sweptBy /\ UNCHANGED pidTaken /\ UNCHANGED fixturesOf
      /\ UNCHANGED codeOf /\ UNCHANGED compiled
  BY DEF dirVars
<1>1. DirTypes'
  BY <1>0 DEF DirInv, DirTypes
<1>2. HoldsTell'
  <2> SUFFICES ASSUME NEW r \in DirRuns PROVE HoldsAt(r)'
    BY DEF HoldsTell, HoldsAt
  <2>1. HoldsAt(r)
    BY DEF DirInv, HoldsTell
  <2> QED
    BY <1>0, <2>1 DEF HoldsAt, StampsOf, Working
<1>3. FixturesTell'
  BY <1>0 DEF DirInv, FixturesTell, FixturesAt
<1>4. DoomTells' /\ SweptTells'
  BY <1>0 DEF DirInv, DoomTells, SweptTells, HasEnded, Misjudged, Stamped
<1>5. LiveTells' /\ KeptTells'
  BY <1>0 DEF DirInv, LiveTells, KeptTells, Misjudged
<1>6. OwedTells'
  BY <1>0 DEF DirInv, OwedTells, HasEnded, Stamped, Kept
<1> QED
  BY <1>1, <1>2, <1>3, <1>4, <1>5, <1>6 DEF DirInv

LEMMA DirStep == DirInv /\ [DirsNext]_dirVars => DirInv'
<1> SUFFICES ASSUME DirInv, [DirsNext]_dirVars PROVE DirInv'
  OBVIOUS
<1>1. DirTypes'
  BY DirTypesStep DEF DirInv
<1>2. UNCHANGED dirVars => DirInv'
  BY DirsRest
<1> QED
  BY <1>1, <1>2, BeginKeeps, JudgeKeeps, SweepKeeps, SweptKeeps, MakingKeeps, EndingKeeps, CrashKeeps,
     PidTakenKeeps, OlderKeeps DEF DirsNext, AllEnded

LEMMA DirInvOwns == DirInv => DirsAreOwned
<1> SUFFICES ASSUME DirInv PROVE DirsAreOwned
  OBVIOUS
<1>1. LiveDirStays
  <2> SUFFICES ASSUME NEW r \in DirRuns, Working(r), ~Misjudged(r)
               PROVE  dirOf[r].there /\ {"files", "json"} \subseteq dirOf[r].holds
    BY DEF LiveDirStays
  <2>1. HoldsAt(r)
    BY DEF DirInv, HoldsTell
  <2> QED
    BY <2>1 DEF DirInv, LiveTells, HoldsAt, Working
<1>2. DeadDirsGo
  <2>1. ASSUME NEW s \in DirRuns, runAt[s] \notin {"unborn", "sweep", "crashed"},
               NEW r \in owedTo[s] \ pidTaken
        PROVE  ~dirOf[r].there
    BY <2>1 DEF DirInv, OwedTells
  <2> QED
    BY <2>1 DEF DeadDirsGo, DirInv, SweptTells, Stamped
<1>3. KeptStays
  BY DEF KeptStays, DirInv, KeptTells
<1>4. StaleNeverCompiled
  BY DEF StaleNeverCompiled, DirInv, DirTypes
<1>5. PrepareReleases
  BY DEF PrepareReleases, DirInv, FixturesTell, FixturesAt
<1> QED
  BY <1>1, <1>2, <1>3, <1>4, <1>5 DEF DirsAreOwned

\* No run's work directory is swept but when its owner is dead and its sweep
\* can tell, a debugged one stays for a week, none compiles what an earlier
\* generate left, and a prepare that ends has released its fixtures
\* (cleanStaleTmpOverlays, overlay_cleanup.go; runPrepare, prepare.go).
THEOREM DirsStayOwned == DirsSpec => []DirsAreOwned
<1>1. DirsSpec => []DirInv
  BY DirStart, DirStep, PTL DEF DirsSpec
<1> QED
  BY <1>1, DirInvOwns, PTL

-----------------------------------------------------------------------------
(* All of it *)

\* Whatever drills, prunes, runs and sweeps do beside each other, what one works
\* on no other takes from it (supervision_linux.go:151, plan.go:208,
\* scratch.go:99, overlay_cleanup.go:17).
THEOREM NothingOfOthersIsTaken ==
    DrillSpec /\ ShardsSpec /\ ScratchSpec /\ DirsSpec => []NothingIsShared
<1>1. DrillIsSound /\ ShardsSplitAll /\ ScratchAlone /\ DirsAreOwned => NothingIsShared
  BY DEF NothingIsShared
<1> QED
  BY <1>1, DrillsAreSound, GatesSplit, ScratchIsAlone, DirsStayOwned, PTL

------------------------------------------------------------------------------
(* What lint -fix writes *)

FileTypes ==
    /\ target \in [Changes -> Changes] /\ disk \in [Changes -> {"old", "new", "torn"}]
    /\ staged \in Seq(Changes) /\ stageAt \in Nat /\ temps \subseteq Changes /\ wrote \subseteq Changes
    /\ writer \in {"idle", "staging", "committing", "inplace", "done"}
    /\ failure \in {"none", "stage", "rename", "stuck", "open", "write", "close", "partly"}

\* What is staged by where Stage or Commit is: each file once, and those with a
\* replacement among them.
StagedTell ==
    /\ \A i, j \in DOMAIN staged : staged[i] = staged[j] => i = j
    /\ writer # "done" => failure = "none" /\ \A t \in temps : Staged(t)
    /\ writer \in {"idle", "done"} => staged = <<>>
    /\ writer = "staging" => stageAt \in Changes
    /\ writer = "idle" => stageAt = 1
    /\ writer \in {"committing", "inplace"} => staged # <<>>
    /\ writer = "inplace" => Head(staged) \notin temps
    /\ writer = "done" /\ temps # {} => failure = "stuck"

\* Where the file of a change is: as it was until it is written, and torn only
\* while it is written in place.
ChangeAt(n) ==
    /\ writer \in {"idle", "staging"} => n \notin wrote
    /\ writer = "staging" /\ n < stageAt => Staged(target[n])
    /\ writer \in {"committing", "inplace"} => Staged(target[n]) \/ n \in wrote
    /\ Staged(target[n]) => n \notin wrote
    /\ n \in wrote => disk[target[n]] = "new"
    /\ disk[target[n]] = "torn" =>
          failure = "partly" \/ (writer = "inplace" /\ target[n] = Head(staged))
    /\ disk[target[n]] = "new" => n \in wrote \/ failure = "close"
    /\ writer = "done" /\ failure = "none" => n \in wrote
ChangesTell == \A n \in Changes : ChangeAt(n)

FileInv == FileTypes /\ StagedTell /\ ChangesTell

LEMMA FilesStart == FileInit => FileInv
<1> SUFFICES ASSUME FileInit PROVE FileInv
  OBVIOUS
<1>1. 1 \in Changes /\ staged = <<>> /\ Len(staged) = 0 /\ target \in [Changes -> Changes]
  BY ChangesAssumption DEF FileInit, Changes, Targets
<1>2. FileTypes
  BY <1>1 DEF FileInit, FileTypes
<1>3. \A t : ~Staged(t)
  BY <1>1 DEF Staged
<1>4. StagedTell
  BY <1>1 DEF FileInit, StagedTell
<1>5. ChangesTell
  BY <1>1, <1>3 DEF FileInit, ChangesTell, ChangeAt
<1> QED
  BY <1>2, <1>4, <1>5 DEF FileInv

\* The files staged after one more, and after the first is written.
LEMMA StagedAppended ==
    ASSUME NEW q \in Seq(Changes), NEW t \in Changes
    PROVE  /\ Append(q, t) \in Seq(Changes) /\ DOMAIN Append(q, t) = 1..(Len(q) + 1)
           /\ Len(Append(q, t)) = Len(q) + 1 /\ Append(q, t)[Len(q) + 1] = t
           /\ \A i \in 1..Len(q) : Append(q, t)[i] = q[i]
           /\ DOMAIN q = 1..Len(q) /\ Len(q) \in Nat
  BY LenProperties

LEMMA StagedTail ==
    ASSUME NEW q \in Seq(Changes), q # <<>>
    PROVE  /\ Tail(q) \in Seq(Changes) /\ Len(Tail(q)) = Len(q) - 1
           /\ DOMAIN Tail(q) = 1..(Len(q) - 1) /\ DOMAIN q = 1..Len(q)
           /\ \A i \in 1..(Len(q) - 1) : i + 1 \in 1..Len(q) /\ Tail(q)[i] = q[i + 1]
           /\ Head(q) = q[1] /\ 1 \in 1..Len(q) /\ Len(q) \in Nat /\ q[1] \in Changes
           /\ Len(q) = 1 => Tail(q) = <<>>
<1>1. Len(q) \in Nat /\ DOMAIN q = 1..Len(q) /\ Len(q) # 0
  BY EmptySeq, LenProperties
<1>2. Head(q) = q[1] /\ q[1] \in Changes
  BY <1>1, ElementOfSeq
<1>3. Tail(q) \in Seq(Changes) /\ Len(Tail(q)) = Len(q) - 1
  BY <1>1, HeadTailProperties
<1>4. DOMAIN Tail(q) = 1..(Len(q) - 1)
  BY <1>3, LenProperties
<1>5. \A i \in 1..(Len(q) - 1) : i + 1 \in 1..Len(q) /\ Tail(q)[i] = q[i + 1]
  BY <1>1, <1>3, HeadTailProperties
<1>6. Len(q) = 1 => Tail(q) = <<>>
  <2> SUFFICES ASSUME Len(q) = 1 PROVE Tail(q) = <<>>
    OBVIOUS
  <2>1. Len(Tail(q)) = 0
    BY <1>3
  <2> QED
    BY <1>3, <2>1, EmptySeq
<1> QED
  BY <1>1, <1>2, <1>3, <1>4, <1>5, <1>6

\* An error ends it, and leaves the files as they are.
LEMMA FailKeeps ==
    ASSUME FileInv, writer \in {"staging", "committing"},
           NEW err \in {"stage", "rename", "open"}, FailWith(err), UNCHANGED <<target, disk, wrote>>
    PROVE  FileInv'
<1>1. /\ failure' = err /\ temps' = {} /\ staged' = <<>> /\ writer' = "done" /\ stageAt' = stageAt
      /\ target' = target /\ disk' = disk /\ wrote' = wrote /\ Len(staged') = 0
  BY DEF FailWith
<1>2. FileTypes'
  BY <1>1 DEF FileInv, FileTypes
<1>3. \A t : ~Staged(t)'
  BY <1>1 DEF Staged
<1>4. StagedTell'
  BY <1>1 DEF StagedTell
<1>5. ChangesTell'
  BY <1>1, <1>3 DEF FileInv, StagedTell, ChangesTell, ChangeAt
<1> QED
  BY <1>2, <1>4, <1>5 DEF FileInv

LEMMA StageKeeps == ASSUME FileInv, StageChange PROVE FileInv'
<1> DEFINE t == target[stageAt]
<1>1. /\ writer = "staging" /\ stageAt \in Changes /\ failure = "none" /\ t \in Changes
      /\ target' = target /\ disk' = disk /\ wrote' = wrote
  BY DEF FileInv, FileTypes, StagedTell, StageChange
<1>2. CASE FailWith("stage")
  BY <1>1, <1>2, FailKeeps
<1>3. CASE NextChange /\ failure' = failure
           /\ (\/ ~Staged(t) /\ temps' \in {temps, temps \cup {t}} /\ staged' = Append(staged, t)
               \/ Staged(t) /\ temps' = temps /\ staged' = staged)
  <2>1. /\ staged' \in Seq(Changes) /\ staged' # <<>> /\ temps' \subseteq Changes
        /\ \A i, j \in DOMAIN staged' : staged'[i] = staged'[j] => i = j
        /\ \A u \in Changes : Staged(u)' <=> (Staged(u) \/ u = t)
        /\ \A u \in temps' : u \in temps \/ u = t
    <3>1. staged \in Seq(Changes) /\ temps \subseteq Changes
      BY DEF FileInv, FileTypes
    <3>2. CASE ~Staged(t) /\ temps' \in {temps, temps \cup {t}} /\ staged' = Append(staged, t)
      <4>1. /\ staged' \in Seq(Changes) /\ DOMAIN staged' = 1..(Len(staged) + 1) /\ Len(staged') = Len(staged) + 1
            /\ staged'[Len(staged) + 1] = t /\ \A i \in 1..Len(staged) : staged'[i] = staged[i]
            /\ DOMAIN staged = 1..Len(staged) /\ Len(staged) \in Nat
        BY <1>1, <3>1, <3>2, StagedAppended
      <4>2. staged' # <<>>
        BY <4>1
      <4>3. \A i, j \in DOMAIN staged' : staged'[i] = staged'[j] => i = j
        BY <3>2, <4>1 DEF FileInv, StagedTell, Staged
      <4>4. ASSUME NEW u \in Changes PROVE Staged(u)' <=> (Staged(u) \/ u = t)
        BY <4>1 DEF Staged
      <4> QED
        BY <1>1, <3>1, <3>2, <4>1, <4>2, <4>3, <4>4
    <3>3. CASE Staged(t) /\ temps' = temps /\ staged' = staged
      <4>1. staged # <<>>
        BY <3>3 DEF Staged
      <4>2. \A u \in Changes : Staged(u)' <=> Staged(u)
        BY <3>3 DEF Staged
      <4> QED
        BY <3>1, <3>3, <4>1, <4>2 DEF FileInv, StagedTell
    <3> QED
      BY <1>3, <3>2, <3>3
  <2>2. /\ stageAt' = stageAt + 1 /\ stageAt' \in Nat
        /\ writer' = IF stageAt = NChanges THEN "committing" ELSE "staging"
    BY <1>1, <1>3 DEF NextChange, Changes
  <2>3. writer' = "staging" => stageAt' \in Changes
    BY <1>1, <2>2, ChangesAssumption DEF Changes
  <2>4. FileTypes'
    BY <1>1, <1>3, <2>1, <2>2 DEF FileInv, FileTypes
  <2>5. StagedTell'
    <3>1. \A u \in temps' : u \in Changes /\ Staged(u)'
      BY <1>1, <2>1 DEF FileInv, StagedTell
    <3> QED
      BY <1>1, <1>3, <2>1, <2>2, <2>3, <3>1 DEF StagedTell
  <2>6. ASSUME NEW n \in Changes PROVE ChangeAt(n)'
    <3>1. target[n] \in Changes /\ ChangeAt(n)
      BY DEF FileInv, FileTypes, ChangesTell
    <3>2. n < stageAt' => n < stageAt \/ target[n] = t
      BY <1>1, <2>2 DEF Changes
    <3>3. writer' = "committing" => n < stageAt'
      BY <1>1, <2>2, ChangesAssumption DEF Changes
    <3>4. (n < stageAt' => Staged(target[n])') /\ n \notin wrote
      BY <1>1, <2>1, <3>1, <3>2 DEF ChangeAt
    <3> QED
      BY <1>1, <1>3, <2>2, <3>1, <3>3, <3>4 DEF ChangeAt
  <2> QED
    BY <2>4, <2>5, <2>6 DEF FileInv, ChangesTell
<1> QED
  BY <1>2, <1>3 DEF StageChange

\* The first file staged is written whole.
LEMMA WrittenKeeps ==
    ASSUME FileInv, writer \in {"committing", "inplace"}, FileWritten(Head(staged)), target' = target
    PROVE  FileInv'
<1> DEFINE t == Head(staged)
<1>1. /\ staged \in Seq(Changes) /\ staged # <<>> /\ failure = "none"
  BY DEF FileInv, FileTypes, StagedTell
<1>2. /\ staged' = Tail(staged) /\ staged' \in Seq(Changes) /\ Len(staged') = Len(staged) - 1
      /\ DOMAIN staged' = 1..(Len(staged) - 1) /\ DOMAIN staged = 1..Len(staged)
      /\ \A i \in 1..(Len(staged) - 1) : i + 1 \in 1..Len(staged) /\ staged'[i] = staged[i + 1]
      /\ t = staged[1] /\ 1 \in 1..Len(staged) /\ Len(staged) \in Nat /\ t \in Changes
      /\ Len(staged) = 1 => staged' = <<>>
  BY <1>1, StagedTail DEF FileWritten
<1>3. /\ disk' = [disk EXCEPT ![t] = "new"] /\ wrote' = wrote \cup NamesOf(t) /\ temps' = temps \ {t}
      /\ writer' = IF Len(staged) = 1 THEN "done" ELSE "committing"
      /\ stageAt' = stageAt /\ failure' = failure
  BY DEF FileWritten
<1>4. \A i, j \in DOMAIN staged : staged[i] = staged[j] => i = j
  BY DEF FileInv, StagedTell
<1>5. ASSUME NEW u \in Changes PROVE Staged(u)' <=> (Staged(u) /\ u # t)
  <2>1. ASSUME Staged(u)' PROVE Staged(u) /\ u # t
    <3>1. PICK i \in 1..(Len(staged) - 1) : staged'[i] = u
      BY <1>2, <2>1 DEF Staged
    <3>2. i + 1 \in 1..Len(staged) /\ staged[i + 1] = u /\ i + 1 # 1
      BY <1>2, <3>1
    <3>3. u # t
      BY <1>2, <1>4, <3>2
    <3> QED
      BY <3>2, <3>3 DEF Staged
  <2>2. ASSUME Staged(u), u # t PROVE Staged(u)'
    <3>1. PICK i \in 1..Len(staged) : staged[i] = u
      BY <2>2 DEF Staged
    <3>2. i - 1 \in 1..(Len(staged) - 1) /\ (i - 1) + 1 = i
      BY <1>2, <2>2, <3>1
    <3>3. staged'[i - 1] = u
      BY <1>2, <3>1, <3>2
    <3> QED
      BY <1>2, <3>2, <3>3 DEF Staged
  <2> QED
    BY <2>1, <2>2
<1>6. FileTypes'
  BY <1>1, <1>2, <1>3 DEF FileInv, FileTypes, NamesOf
<1>7. StagedTell'
  <2>1. \A i, j \in DOMAIN staged' : staged'[i] = staged'[j] => i = j
    <3> SUFFICES ASSUME NEW i \in DOMAIN staged', NEW j \in DOMAIN staged', staged'[i] = staged'[j] PROVE i = j
      OBVIOUS
    <3>1. i + 1 \in DOMAIN staged /\ j + 1 \in DOMAIN staged /\ staged[i + 1] = staged[j + 1]
      BY <1>2
    <3>2. i + 1 = j + 1
      BY <1>4, <3>1
    <3> QED
      BY <1>2, <3>2
  <2>2. \A u \in temps' : Staged(u)'
    BY <1>3, <1>5 DEF FileInv, FileTypes, StagedTell
  <2>3. writer' = "done" => temps' = {}
    <3> SUFFICES ASSUME writer' = "done", NEW u \in temps' PROVE FALSE
      OBVIOUS
    <3>1. Len(staged') = 0 /\ Staged(u)'
      BY <1>2, <1>3, <2>2
    <3> QED
      BY <3>1 DEF Staged
  <2>4. writer' = "committing" => staged' # <<>>
    <3> SUFFICES ASSUME writer' = "committing", staged' = <<>> PROVE FALSE
      OBVIOUS
    <3>1. Len(staged') = 0 /\ Len(staged) # 1
      BY <1>3
    <3>2. Len(staged) >= 1
      BY <1>2
    <3> QED
      BY <1>2, <3>1, <3>2
  <2> QED
    BY <1>1, <1>2, <1>3, <2>1, <2>2, <2>3, <2>4 DEF StagedTell
<1>8. ASSUME NEW n \in Changes PROVE ChangeAt(n)'
  <2>1. target[n] \in Changes /\ ChangeAt(n) /\ disk \in [Changes -> {"old", "new", "torn"}]
    BY DEF FileInv, FileTypes, ChangesTell
  <2>2. target[n] = t <=> n \in NamesOf(t)
    BY DEF NamesOf
  <2>3. disk'[target[n]] = IF target[n] = t THEN "new" ELSE disk[target[n]]
    BY <1>3, <2>1
  <2>4. n \in wrote' <=> (n \in wrote \/ target[n] = t)
    BY <1>3, <2>2
  <2>5. Staged(target[n])' <=> (Staged(target[n]) /\ target[n] # t)
    BY <1>5, <2>1
  <2>6. writer' = "done" => ~Staged(target[n])'
    BY <1>2, <1>3 DEF Staged
  <2>7. writer' \in {"committing", "done"} /\ (Staged(target[n]) \/ n \in wrote) /\ failure = "none"
    BY <1>1, <1>3, <2>1 DEF ChangeAt
  <2> HIDE DEF t
  <2> QED
    BY <1>3, <2>1, <2>3, <2>4, <2>5, <2>6, <2>7 DEF ChangeAt, t
<1> QED
  BY <1>6, <1>7, <1>8 DEF FileInv, ChangesTell

\* What a step says of the first file staged, and of nothing else.
LEMMA HeadIs ==
    ASSUME FileInv, writer \in {"committing", "inplace"}
    PROVE  /\ staged \in Seq(Changes) /\ staged # <<>> /\ failure = "none"
           /\ Head(staged) \in Changes /\ Staged(Head(staged))
<1>1. staged \in Seq(Changes) /\ staged # <<>> /\ failure = "none"
  BY DEF FileInv, FileTypes, StagedTell
<1>2. Head(staged) = staged[1] /\ 1 \in 1..Len(staged) /\ staged[1] \in Changes
  BY <1>1, StagedTail
<1> QED
  BY <1>1, <1>2 DEF Staged

LEMMA RenameKeeps == ASSUME FileInv, CommitRename PROVE FileInv'
<1> DEFINE t == Head(staged)
<1>1. writer = "committing" /\ t \in temps /\ target' = target
  BY DEF CommitRename
<1>2. staged \in Seq(Changes) /\ staged # <<>> /\ failure = "none" /\ t \in Changes /\ Staged(t)
  BY <1>1, HeadIs
<1>3. CASE FileWritten(t)
  BY <1>1, <1>3, WrittenKeeps
<1>4. CASE FailWith("rename") /\ UNCHANGED <<disk, wrote>>
  BY <1>1, <1>4, FailKeeps
<1>5. CASE /\ failure' = "stuck" /\ temps' = {t} /\ staged' = <<>> /\ writer' = "done"
           /\ disk' = disk /\ wrote' = wrote /\ stageAt' = stageAt
  <2>1. FileTypes'
    BY <1>1, <1>2, <1>5 DEF FileInv, FileTypes
  <2>2. \A u : ~Staged(u)'
    BY <1>5 DEF Staged
  <2>3. StagedTell'
    BY <1>5 DEF StagedTell
  <2>4. ChangesTell'
    BY <1>1, <1>2, <1>5, <2>2 DEF FileInv, ChangesTell, ChangeAt
  <2> QED
    BY <2>1, <2>3, <2>4 DEF FileInv
<1>6. CASE /\ temps' = temps \ {t} /\ disk' = disk /\ wrote' = wrote /\ staged' = staged /\ writer' = writer
           /\ stageAt' = stageAt /\ failure' = failure
  <2>1. FileTypes'
    BY <1>1, <1>6 DEF FileInv, FileTypes
  <2>2. \A u : Staged(u)' <=> Staged(u)
    BY <1>6 DEF Staged
  <2>3. StagedTell'
    BY <1>1, <1>6, <2>2 DEF FileInv, StagedTell
  <2>4. ChangesTell'
    BY <1>1, <1>6, <2>2 DEF FileInv, ChangesTell, ChangeAt
  <2> QED
    BY <2>1, <2>3, <2>4 DEF FileInv
<1> QED
  BY <1>3, <1>4, <1>5, <1>6 DEF CommitRename

LEMMA OpenKeeps == ASSUME FileInv, OpenInPlace PROVE FileInv'
<1> DEFINE t == Head(staged)
<1>1. writer = "committing" /\ t \notin temps /\ target' = target /\ wrote' = wrote
  BY DEF OpenInPlace
<1>2. staged \in Seq(Changes) /\ staged # <<>> /\ failure = "none" /\ t \in Changes /\ Staged(t)
  BY <1>1, HeadIs
<1>3. CASE FailWith("open") /\ disk' = disk
  BY <1>1, <1>3, FailKeeps
<1>4. CASE /\ disk' = [disk EXCEPT ![t] = "torn"] /\ writer' = "inplace"
           /\ temps' = temps /\ staged' = staged /\ stageAt' = stageAt /\ failure' = failure
  <2>1. FileTypes'
    BY <1>1, <1>2, <1>4 DEF FileInv, FileTypes
  <2>2. \A u : Staged(u)' <=> Staged(u)
    BY <1>4 DEF Staged
  <2>3. StagedTell'
    BY <1>1, <1>2, <1>4, <2>2 DEF FileInv, StagedTell
  <2>4. ASSUME NEW n \in Changes PROVE ChangeAt(n)'
    <3>1. target[n] \in Changes /\ ChangeAt(n) /\ disk \in [Changes -> {"old", "new", "torn"}]
      BY DEF FileInv, FileTypes, ChangesTell
    <3>2. disk'[target[n]] = IF target[n] = t THEN "torn" ELSE disk[target[n]]
      BY <1>4, <3>1
    <3>3. (Staged(target[n])' <=> Staged(target[n])) /\ (target[n] = t => Staged(target[n]))
      BY <1>1, <1>2, <2>2 DEF Staged
    <3>4. Head(staged') = t
      BY <1>4
    <3> HIDE DEF t
    <3> QED
      BY <1>1, <1>2, <1>4, <3>1, <3>2, <3>3, <3>4 DEF ChangeAt
  <2> QED
    BY <2>1, <2>3, <2>4 DEF FileInv, ChangesTell
<1> QED
  BY <1>3, <1>4 DEF OpenInPlace

\* The write in place ends with an error.
LEMMA InPlaceFails ==
    ASSUME FileInv, writer = "inplace", target' = target, wrote' = wrote,
           NEW err \in {"close", "write", "partly"}, FailWith(err),
           NEW end \in {"old", "new", "torn"}, disk' = [disk EXCEPT ![Head(staged)] = end],
           \A n \in Changes : target[n] = Head(staged) /\ end = "new" => err = "close",
           end = "torn" => err = "partly"
    PROVE  FileInv'
<1> DEFINE t == Head(staged)
<1>1. staged \in Seq(Changes) /\ staged # <<>> /\ failure = "none" /\ t \in Changes /\ Staged(t)
  BY HeadIs
<1>2. /\ failure' = err /\ temps' = {} /\ staged' = <<>> /\ writer' = "done" /\ stageAt' = stageAt /\ Len(staged') = 0
  BY DEF FailWith
<1>3. FileTypes'
  BY <1>1, <1>2 DEF FileInv, FileTypes
<1>4. \A u : ~Staged(u)'
  BY <1>2 DEF Staged
<1>5. StagedTell'
  BY <1>2 DEF StagedTell
<1>6. ASSUME NEW n \in Changes PROVE ChangeAt(n)'
  <2>1. target[n] \in Changes /\ ChangeAt(n) /\ disk \in [Changes -> {"old", "new", "torn"}]
    BY DEF FileInv, FileTypes, ChangesTell
  <2>2. disk'[target[n]] = IF target[n] = t THEN end ELSE disk[target[n]]
    BY <2>1
  <2>3. target[n] = t => n \notin wrote
    BY <1>1, <2>1 DEF ChangeAt
  <2> HIDE DEF t
  <2> QED
    BY <1>1, <1>2, <1>4, <2>1, <2>2, <2>3 DEF ChangeAt, t
<1> QED
  BY <1>3, <1>5, <1>6 DEF FileInv, ChangesTell

LEMMA InPlaceKeeps == ASSUME FileInv, WriteInPlace PROVE FileInv'
<1> DEFINE t == Head(staged)
<1>1. writer = "inplace" /\ target' = target
  BY DEF WriteInPlace
<1>2. staged \in Seq(Changes) /\ staged # <<>> /\ failure = "none" /\ t \in Changes /\ Staged(t)
  BY <1>1, HeadIs
<1>3. CASE FileWritten(t)
  BY <1>1, <1>3, WrittenKeeps
<1>4. CASE FailWith("close") /\ disk' = [disk EXCEPT ![t] = "new"] /\ UNCHANGED wrote
  BY <1>1, <1>4, InPlaceFails
<1>5. CASE FailWith("write") /\ disk' = [disk EXCEPT ![t] = "old"] /\ UNCHANGED wrote
  BY <1>1, <1>5, InPlaceFails
<1>6. CASE FailWith("partly") /\ UNCHANGED <<disk, wrote>>
  <2>1. disk \in [Changes -> {"old", "new", "torn"}] /\ disk[t] \in {"old", "new", "torn"}
    BY <1>2 DEF FileInv, FileTypes
  <2>2. \A n \in Changes : target[n] = t => disk[t] # "new"
    BY <1>2 DEF FileInv, ChangesTell, ChangeAt
  <2>3. disk' = [disk EXCEPT ![t] = disk[t]]
    BY <1>6, <2>1
  <2> QED
    BY <1>1, <1>6, <2>1, <2>2, <2>3, InPlaceFails
<1> QED
  BY <1>3, <1>4, <1>5, <1>6 DEF WriteInPlace

------------------------------------------------------------------------------
(* The command and its signals *)

BeforeWrites == {"make", "catch", "analyze", "fix", "lock"}
LintSteps == BeforeWrites \cup {"write", "report", "stop", "clean", "over"}

\* What is written by where the command is, and what holds the exit off; the
\* load's directory is there no longer once a second signal removed it.
LintTells ==
    /\ lint \in LintSteps
    /\ lint \in BeforeWrites => writer = "idle" /\ written = {}
    /\ lint = "write" => writer # "idle" /\ written = {}
    /\ lint \in {"report", "stop", "clean", "over"} => writer \in {"idle", "done"} /\ written = wrote
    /\ lint = "write" <=> forcedExit = "run"
    /\ lint = "make" => lintTemp # "there"
    /\ lintTemp = "there" => lint # "over" /\ stopper \in {"first", "window", "armed", "last", "returned"}

\* Signals count once they are caught, and what a second one said stays true:
\* once a signal came nothing is written that was not about to be.
SaidTells ==
    /\ lint \in {"make", "catch"} => stopper = "first"
    /\ stopper # "first" => cancelled
    /\ lastSaid.at # "none" => cancelled
    /\ lastSaid.at = "write" => lastSaid.of = {}
    /\ lastSaid.at \notin {"none", "write"} => lastSaid.of = written /\ lint # "write"

\* How the command ended.
ExitTold ==
    /\ stopper = "gate" => forcedExit = "stop"
    /\ exited = "own" => lint = "over"
    /\ exited = "forced" => stopper = "gate"
    /\ exited = "killed" => lint \in {"make", "catch", "clean", "over"}
    /\ runDone => lint \in {"clean", "over"}
    /\ exited \in {"no", "own", "forced", "killed"}

LintInv == FileInv /\ LintTells /\ SaidTells /\ ExitTold

LEMMA LintStart == LintInit => LintInv
<1> SUFFICES ASSUME LintInit PROVE LintInv
  OBVIOUS
<1>1. FileInv
  BY FilesStart DEF LintInit, LintIn
<1>2. LintTells /\ ExitTold
  BY DEF LintInit, LintIn, ShutdownIn, FileInit, LintTells, LintSteps, BeforeWrites, ExitTold
<1>3. SaidTells
  BY DEF LintInit, LintIn, ShutdownIn, SaidTells, Silent
<1> QED
  BY <1>1, <1>2, <1>3 DEF LintInv

LEMMA FilesStay == ASSUME FileInv, UNCHANGED fileVars PROVE FileInv'
<1>1. /\ target' = target /\ disk' = disk /\ temps' = temps /\ staged' = staged /\ writer' = writer
      /\ stageAt' = stageAt /\ wrote' = wrote /\ failure' = failure
  BY DEF fileVars
<1>2. \A t : Staged(t)' <=> Staged(t)
  BY <1>1 DEF Staged
<1>3. FileTypes'
  BY <1>1 DEF FileInv, FileTypes
<1>4. StagedTell'
  BY <1>1, <1>2 DEF FileInv, StagedTell
<1>5. ChangesTell'
  BY <1>1, <1>2 DEF FileInv, ChangesTell, ChangeAt
<1> QED
  BY <1>3, <1>4, <1>5 DEF FileInv

\* The lock is taken, and the first change is staged next.
LEMMA StagingBegins ==
    ASSUME FileInv, writer = "idle", writer' = "staging",
           UNCHANGED <<target, disk, temps, staged, stageAt, wrote, failure>>
    PROVE  FileInv'
<1>1. 1 \in Changes
  BY ChangesAssumption DEF Changes
<1>2. \A t : Staged(t)' <=> Staged(t)
  BY DEF Staged
<1>3. FileTypes'
  BY DEF FileInv, FileTypes
<1>4. StagedTell'
  BY <1>1, <1>2 DEF FileInv, StagedTell
<1>5. ASSUME NEW n \in Changes PROVE ChangeAt(n)'
  <2>1. ~(n < stageAt) /\ n \notin wrote
    BY DEF FileInv, StagedTell, ChangesTell, ChangeAt, Changes
  <2> QED
    BY <1>2, <2>1 DEF FileInv, ChangesTell, ChangeAt
<1> QED
  BY <1>3, <1>4, <1>5 DEF FileInv, ChangesTell

\* A step of the files is one of FileWrites.
LEMMA WritesKeep == ASSUME FileInv, FileWrites PROVE FileInv' /\ writer' # "idle"
<1>1. FileInv'
  BY StageKeeps, RenameKeeps, OpenKeeps, InPlaceKeeps DEF FileWrites
<1>2. writer' # "idle"
  BY DEF FileWrites, StageChange, CommitRename, OpenInPlace, WriteInPlace, FailWith, NextChange, FileWritten
<1> QED
  BY <1>1, <1>2

\* The signals change neither the files nor where the command is.
LEMMA SignalsKeep ==
    ASSUME LintInv, \/ LintSignals \/ SignalUncaught \/ LastRemoves \/ LastSays \/ LintForcedExit
    PROVE  LintInv'
<1>1. /\ UNCHANGED fileVars /\ lint' = lint /\ written' = written /\ writer' = writer /\ wrote' = wrote
  BY DEF LintSignals, SignalUncaught, LastRemoves, LastSays, LintForcedExit, fileVars
<1>2. FileInv'
  BY <1>1, FilesStay DEF LintInv
<1>3. CASE LintSignals
  <2>1. /\ exited' = exited /\ exited = "no" /\ lintTemp' = lintTemp /\ runDone' = runDone
        /\ lastSaid' = lastSaid /\ lint \notin {"make", "catch"} /\ (cancelled => cancelled')
    BY <1>3 DEF LintSignals, Interrupted, StopperCode, CatchAgain, SecondSignal, NoSecondSignal,
           FurtherSignal, WindowPasses, ForcedStop, LockExit, StopperGoes, Lives
  <2>2. CASE LockExit
    <3>1. cancelled' = cancelled /\ stopper = "lock"
      BY <2>2 DEF LockExit, StopperGoes
    <3>2. SaidTells'
      BY <1>1, <2>1, <3>1 DEF LintInv, SaidTells
    <3> QED
      BY <1>1, <1>2, <2>1, <2>2, <3>2 DEF LockExit, StopperGoes, LintInv, LintTells, ExitTold
  <2>3. CASE ~LockExit
    <3>1. forcedExit' = forcedExit
      BY <1>3, <2>3 DEF LintSignals, Interrupted, StopperCode, CatchAgain, SecondSignal, NoSecondSignal,
         FurtherSignal, WindowPasses, ForcedStop, StopperGoes
    <3>2. \/ stopper' = stopper
          \/ /\ stopper \in {"first", "window", "armed"} /\ stopper' \in {"window", "armed", "last", "returned"}
             /\ (stopper = "first" => cancelled)
          \/ stopper \in {"ending", "follow"} /\ stopper' \in {"follow", "lock"}
      BY <1>3, <2>3 DEF LintSignals, Interrupted, StopperCode, CatchAgain, SecondSignal, NoSecondSignal,
         FurtherSignal, WindowPasses, ForcedStop, StopperGoes
    <3>3. SaidTells'
      BY <1>1, <2>1, <3>2 DEF LintInv, SaidTells
    <3> QED
      BY <1>1, <1>2, <2>1, <3>1, <3>2, <3>3 DEF LintInv, LintTells, ExitTold
  <2> QED
    BY <2>2, <2>3
<1>4. CASE LastRemoves \/ LastSays
  <2>1. /\ forcedExit' = forcedExit /\ exited' = exited /\ exited = "no" /\ runDone' = runDone
        /\ cancelled' = cancelled
        /\ stopper \in {"last", "asking"} /\ stopper' \in {"asking", "ending"}
        /\ lintTemp' # "there" \/ (lintTemp' = lintTemp /\ stopper = "asking")
        /\ lastSaid' = lastSaid \/ lastSaid' = [of |-> written, at |-> lint]
    BY <1>4 DEF LastRemoves, LastSays, StopperGoes, Lives, RemoveTemp
  <2>2. lintTemp' # "there"
    BY <2>1 DEF LintInv, LintTells
  <2>3. cancelled /\ lint \notin {"make", "catch"}
    BY <2>1 DEF LintInv, SaidTells
  <2>4. SaidTells'
    <3>1. CASE lastSaid' = lastSaid
      BY <1>1, <2>1, <2>3, <3>1 DEF LintInv, SaidTells
    <3>2. CASE lastSaid' = [of |-> written, at |-> lint]
      <4>1. lastSaid'.of = written /\ lastSaid'.at = lint
        BY <3>2
      <4> QED
        BY <1>1, <2>1, <2>3, <4>1 DEF LintInv, SaidTells, LintTells
    <3> QED
      BY <2>1, <3>1, <3>2
  <2> QED
    BY <1>1, <1>2, <2>1, <2>2, <2>4 DEF LintInv, LintTells, ExitTold
<1>5. CASE LintForcedExit
  <2>1. SaidTells'
    BY <1>1, <1>5 DEF LintForcedExit, LintInv, SaidTells
  <2> QED
    BY <1>1, <1>2, <1>5, <2>1 DEF LintForcedExit, ExitNow, Lives, LintInv, LintTells, ExitTold
<1>6. CASE SignalUncaught
  <2>1. SaidTells'
    BY <1>1, <1>6 DEF SignalUncaught, LintInv, SaidTells
  <2> QED
    BY <1>1, <1>2, <1>6, <2>1 DEF SignalUncaught, Lives, LintInv, LintTells, ExitTold
<1> QED
  BY <1>3, <1>4, <1>5, <1>6

\* The command before it works: the directory, then the handler.
LEMMA LintBeginsKeeps == ASSUME LintInv, LintMakes \/ LintCatches PROVE LintInv'
<1>1. /\ UNCHANGED fileVars /\ written' = written /\ writer' = writer /\ wrote' = wrote
      /\ stopper' = stopper /\ cancelled' = cancelled /\ forcedExit' = forcedExit /\ runDone' = runDone
      /\ lastSaid' = lastSaid /\ exited = "no" /\ lint \in {"make", "catch"}
  BY DEF LintMakes, LintCatches, fileVars, signalVars, Lives
<1>2. FileInv'
  BY <1>1, FilesStay DEF LintInv
<1>3. /\ writer = "idle" /\ written = {} /\ wrote = {} /\ forcedExit # "run" /\ stopper = "first" /\ ~runDone
  BY <1>1 DEF LintInv, LintTells, SaidTells, ExitTold, BeforeWrites, FileInv, FileTypes, ChangesTell, ChangeAt
<1>4. /\ lint' \in {"over", "catch", "analyze"}
      /\ lint' = "over" => exited' = "own" /\ lintTemp' # "there"
      /\ lint' # "over" => exited' = "no"
  BY <1>1 DEF LintMakes, LintCatches, signalVars, LintInv, LintTells
<1>5. LintTells'
  BY <1>1, <1>3, <1>4 DEF LintTells, LintSteps, BeforeWrites
<1>6. SaidTells'
  BY <1>1, <1>3, <1>4 DEF LintInv, SaidTells
<1>7. ExitTold'
  BY <1>1, <1>3, <1>4 DEF ExitTold
<1> QED
  BY <1>2, <1>5, <1>6, <1>7 DEF LintInv

LEMMA LintCodeKeeps ==
    ASSUME LintInv, \/ LintPass \/ LintLocks \/ LintWrites \/ LintWrote \/ LintReports
                    \/ LintStops \/ LintCleans \/ LintExits
    PROVE  LintInv'
<1>0. /\ stopper' = stopper /\ lastSaid' = lastSaid /\ lint \notin {"make", "catch"}
      /\ lint' \notin {"make", "catch"} /\ (cancelled => cancelled')
      /\ (lint' = "write" => lint = "write" \/ ~cancelled)
      /\ (written' = written \/ lint = "write")
  BY DEF LintPass, LintLocks, LintWrites, LintWrote, LintReports, LintStops, LintCleans, LintExits, LintReturns,
         RunEnds, OwnExit, signalVars
<1>s. SaidTells'
  BY <1>0 DEF LintInv, SaidTells
<1>1. CASE LintPass \/ LintReports \/ LintCleans
  <2>1. UNCHANGED fileVars /\ writer' = writer /\ wrote' = wrote /\ written' = written
    BY <1>1 DEF LintPass, LintReports, LintCleans, fileVars
  <2>2. FileInv'
    BY <2>1, FilesStay DEF LintInv
  <2>3. /\ stopper' = stopper /\ forcedExit' = forcedExit /\ exited' = exited /\ exited = "no"
        /\ runDone' = runDone
    BY <1>1 DEF LintPass, LintReports, LintCleans, signalVars, Lives
  <2>4. /\ lint \in {"analyze", "fix", "report", "clean"}
        /\ \/ lint \in {"analyze", "fix"} /\ lint' \in {"fix", "lock", "report", "stop"} /\ lintTemp' = lintTemp
           \/ lint = "report" /\ lint' = "stop" /\ lintTemp' = lintTemp
           \/ lint = "clean" /\ lint' = "over" /\ lintTemp' # "there"
    BY <1>1 DEF LintPass, LintReports, LintCleans, LintReturns, RemoveTemp
  <2>5. writer = "idle" => wrote = {}
    BY DEF LintInv, FileInv, FileTypes, ChangesTell, ChangeAt
  <2>6. ExitTold'
    BY <2>3, <2>4 DEF LintInv, ExitTold
  <2>7. ASSUME lint' \in {"fix", "lock"} PROVE LintTells'
    BY <2>1, <2>3, <2>4, <2>7 DEF LintInv, LintTells, LintSteps, BeforeWrites
  <2>8. ASSUME lint' \in {"report", "stop", "over"} PROVE LintTells'
    <3>1. /\ writer \in {"idle", "done"} /\ written = wrote /\ forcedExit # "run"
      BY <2>4, <2>5 DEF LintInv, LintTells, BeforeWrites
    <3>2. lintTemp' = "there" => lint' # "over" /\ stopper \in {"first", "window", "armed", "last", "returned"}
      BY <2>4 DEF LintInv, LintTells
    <3> QED
      BY <2>1, <2>3, <2>8, <3>1, <3>2 DEF LintTells, LintSteps, BeforeWrites
  <2>9. lint' \in {"fix", "lock", "report", "stop", "over"}
    BY <2>4
  <2>10. LintTells'
    BY <2>7, <2>8, <2>9
  <2> QED
    BY <1>s, <2>2, <2>6, <2>10 DEF LintInv
<1>2. CASE LintLocks
  <2>1. CASE cancelled
    <3>1. UNCHANGED fileVars /\ writer' = writer /\ wrote' = wrote
      BY <1>2, <2>1 DEF LintLocks, fileVars
    <3>2. FileInv'
      BY <3>1, FilesStay DEF LintInv
    <3> QED
      BY <1>2, <1>s, <2>1, <3>1, <3>2 DEF LintLocks, LintReturns, Lives, LintInv, LintTells, LintSteps, BeforeWrites,
         ExitTold, FileInv, ChangesTell, ChangeAt, FileTypes
  <2>2. CASE ~cancelled
    <3>1. FileInv'
      BY <1>2, <2>2, StagingBegins DEF LintLocks, LintInv, LintTells, BeforeWrites
    <3> QED
      BY <1>2, <1>s, <2>2, <3>1 DEF LintLocks, Lives, LintInv, LintTells, LintSteps, BeforeWrites, ExitTold
  <2> QED
    BY <2>1, <2>2
<1>3. CASE LintWrites
  <2>1. FileInv' /\ writer' # "idle"
    BY <1>3, WritesKeep DEF LintWrites, LintInv
  <2> QED
    BY <1>3, <1>s, <2>1 DEF LintWrites, Lives, signalVars, LintInv, LintTells, LintSteps, BeforeWrites, ExitTold
<1>4. CASE LintWrote
  <2>1. UNCHANGED fileVars /\ writer' = writer /\ wrote' = wrote
    BY <1>4 DEF LintWrote, fileVars
  <2>2. FileInv'
    BY <2>1, FilesStay DEF LintInv
  <2> QED
    BY <1>4, <1>s, <2>1, <2>2 DEF LintWrote, LintReturns, Lives, LintInv, LintTells, LintSteps, BeforeWrites, ExitTold
<1>5. CASE LintStops \/ LintExits
  <2>1. UNCHANGED fileVars /\ writer' = writer /\ wrote' = wrote
    BY <1>5 DEF LintStops, LintExits, fileVars
  <2>2. FileInv'
    BY <2>1, FilesStay DEF LintInv
  <2> QED
    BY <1>5, <1>s, <2>1, <2>2 DEF LintStops, LintExits, RunEnds, OwnExit, Lives, LintInv, LintTells, LintSteps,
       BeforeWrites, ExitTold
<1> QED
  BY <1>1, <1>2, <1>3, <1>4, <1>5

LEMMA LintStep == LintInv /\ [LintNext]_lintVars => LintInv'
<1> SUFFICES ASSUME LintInv, [LintNext]_lintVars PROVE LintInv'
  OBVIOUS
<1>1. CASE UNCHANGED lintVars
  <2>1. UNCHANGED fileVars /\ writer' = writer /\ wrote' = wrote
    BY <1>1 DEF lintVars, fileVars
  <2>2. FileInv'
    BY <2>1, FilesStay DEF LintInv
  <2> QED
    BY <1>1, <2>1, <2>2 DEF lintVars, signalVars, LintInv, LintTells, SaidTells, ExitTold
<1> QED
  BY <1>1, SignalsKeep, LintBeginsKeeps, LintCodeKeeps DEF LintNext

LEMMA LintInvNames == LintInv => FixesAllOrNamed
<1> SUFFICES ASSUME LintInv, ~Lives PROVE FixesAllOrNamed
  BY DEF FixesAllOrNamed
<1>1. exited \in {"own", "forced", "killed"}
  BY DEF LintInv, ExitTold, Lives
<1>2. lint # "write" /\ (lintTemp = "there" => exited = "killed")
  BY <1>1 DEF LintInv, ExitTold, LintTells
<1>s. /\ lastSaid.at = "write" => lastSaid.of = {}
      /\ lastSaid.at \notin {"none", "write"} => lastSaid.of = written
  BY DEF LintInv, SaidTells
<1>3. CASE writer = "idle" /\ written = {}
  BY <1>2, <1>3, <1>s DEF LintInv, FileInv, StagedTell, ChangesTell, ChangeAt, FixesAllOrNamed, Staged
<1>4. CASE writer \in {"idle", "done"} /\ written = wrote
  <2>1. temps # {} => failure = "stuck"
    BY <1>4 DEF LintInv, FileInv, StagedTell, Staged
  <2>2. ASSUME NEW n \in Changes
        PROVE  /\ disk[target[n]] = "torn" => failure = "partly"
               /\ n \in written => disk[target[n]] = "new"
               /\ disk[target[n]] = "new" => n \in written \/ failure = "close"
               /\ writer = "done" /\ failure = "none" => n \in written
               /\ writer = "idle" => n \notin written
    BY <1>4 DEF LintInv, FileInv, ChangesTell, ChangeAt
  <2>3. written # {} /\ failure = "none" => written = Changes
    BY <1>4, <2>2 DEF LintInv, FileInv, FileTypes
  <2> QED
    BY <1>2, <1>s, <2>1, <2>2, <2>3 DEF FixesAllOrNamed
<1> QED
  BY <1>2, <1>3, <1>4 DEF LintInv, LintTells, LintSteps, BeforeWrites

\* However lint -fix ends, by itself or by a second or third signal, the files
\* are as it says (Commit, filewrite.go:133; writeLintFixes, lint.go:320).
THEOREM FilesAreNamed == LintSpec => []FixesAllOrNamed
<1>1. LintInit => LintInv
  BY LintStart
<1>2. LintInv /\ [LintNext]_lintVars => LintInv'
  BY LintStep
<1>3. LintInv => FixesAllOrNamed
  BY LintInvNames
<1> QED
  BY <1>1, <1>2, <1>3, PTL DEF LintSpec

------------------------------------------------------------------------------
(* What the passes of lint -fix settle on *)

\* A row whose every entry follows from the one before it, there and kept.
RowOf(f, N, first, step) == f[0] = first /\ \A n \in 1..N : f[n] = step[<<n, f[n - 1]>>]

LEMMA RowExists ==
    ASSUME NEW N \in Nat, NEW T, NEW first \in T, NEW step \in [(1..N) \X T -> T]
    PROVE  \E f \in [0..N -> T] : RowOf(f, N, first, step)
<1> DEFINE Bad == {k \in 0..N : ~\E f \in [0..k -> T] : RowOf(f, k, first, step)}
<1>1. SUFFICES ASSUME Bad # {} PROVE FALSE
  <2>1. N \in 0..N
    OBVIOUS
  <2> QED
    BY <2>1
<1>2. PICK l \in Bad : \A j \in Bad : l <= j
  <2>1. Bad \in SUBSET Nat
    OBVIOUS
  <2> QED
    BY <1>1, <2>1, LeastNatural
<1>3. l \in 0..N /\ ~\E f \in [0..l -> T] : RowOf(f, l, first, step)
  OBVIOUS
<1>4. CASE l = 0
  <2> DEFINE f == [j \in 0..0 |-> first]
  <2>1. f \in [0..l -> T] /\ RowOf(f, l, first, step)
    BY <1>4 DEF RowOf
  <2> HIDE DEF f
  <2> QED
    BY <1>3, <2>1
<1>5. CASE l # 0
  <2>1. l - 1 \in 0..N /\ l \in 1..N /\ ~(l <= l - 1)
    BY <1>3, <1>5
  <2>2. l - 1 \notin Bad
    <3> HIDE DEF Bad
    <3> QED
      BY <1>2, <2>1
  <2>3. PICK f \in [0..(l - 1) -> T] : RowOf(f, l - 1, first, step)
    BY <2>1, <2>2
  <2> DEFINE g == [j \in 0..l |-> IF j = l THEN step[<<l, f[l - 1]>>] ELSE f[j]]
  <2>4. step[<<l, f[l - 1]>>] \in T
    BY <2>1
  <2>5. g \in [0..l -> T] /\ g[0] = first /\ g[l] = step[<<l, f[l - 1]>>] /\ g[l - 1] = f[l - 1]
    BY <1>5, <2>1, <2>3, <2>4 DEF RowOf
  <2>6. ASSUME NEW n \in 1..l, n # l PROVE g[n] = step[<<n, g[n - 1]>>]
    <3>1. n \in 1..(l - 1) /\ n \in 0..l /\ n - 1 \in 0..l /\ n - 1 # l
      BY <2>1, <2>6
    <3>2. g[n] = f[n] /\ g[n - 1] = f[n - 1]
      BY <2>6, <3>1
    <3> QED
      BY <2>3, <3>1, <3>2 DEF RowOf
  <2> HIDE DEF g
  <2>7. RowOf(g, l, first, step)
    BY <2>5, <2>6 DEF RowOf
  <2> QED
    BY <1>3, <2>5, <2>7
<1> QED
  BY <1>4, <1>5

LEMMA RowHolds ==
    ASSUME NEW N \in Nat, NEW S, NEW f, f[0] \in S[0],
           \A n \in 1..N : f[n - 1] \in S[n - 1] => f[n] \in S[n]
    PROVE  \A n \in 0..N : f[n] \in S[n]
<1> DEFINE Bad == {k \in 0..N : f[k] \notin S[k]}
<1>1. SUFFICES ASSUME Bad # {} PROVE FALSE
  OBVIOUS
<1>2. PICK l \in Bad : \A j \in Bad : l <= j
  <2>1. Bad \in SUBSET Nat
    OBVIOUS
  <2> QED
    BY <1>1, <2>1, LeastNatural
<1>3. l \in 0..N /\ f[l] \notin S[l] /\ l # 0
  OBVIOUS
<1>4. l - 1 \in 0..N /\ l \in 1..N /\ ~(l <= l - 1)
  BY <1>3
<1>5. l - 1 \notin Bad
  <2> HIDE DEF Bad
  <2> QED
    BY <1>2, <1>4
<1> QED
  BY <1>3, <1>4, <1>5

\* What a pass may be asked about: any findings, keys and refusals.
PassTypes ==
    /\ fixKey \in [Fixes -> 0..NFixes] /\ dropped \in [0..NFixes -> Nat]
    /\ applied \subseteq Fixes /\ unapplied \subseteq Fixes /\ findings \in [Packages -> SUBSET Fixes]

Found == UNION {findings[p] : p \in Packages}

\* What collect has after the first n fixes: each that was found is in it or
\* was left for a reason.
Collections ==
    [fixes : Seq(Fixes), refused : SUBSET Fixes, skipped : [0..NFixes -> Nat], dropped : [0..NFixes -> Nat]]
DroppedAreNamed == \A k \in 0..NFixes : dropped[k] > 0 => \E g \in unapplied : fixKey[g] = k
Counts(acc) == \A k \in 0..NFixes : acc.dropped[k] > 0 => \E g \in unapplied \cup acc.refused : fixKey[g] = k
LeftOut(f, refused) ==
    \/ \E g \in unapplied \cup refused : fixKey[g] = fixKey[f]
    \/ \E g \in Fixes : {f, g} \in clash
CollectedTo(n) ==
    {acc \in Collections :
        /\ Len(acc.fixes) <= n /\ Counts(acc)
        /\ \A f \in Found : f <= n => LeftOut(f, acc.refused) \/ f \in acc.refused \/ f \in Range(acc.fixes)}

LEMMA RangeAppended ==
    ASSUME NEW q \in Seq(Fixes), NEW f \in Fixes
    PROVE  /\ Append(q, f) \in Seq(Fixes) /\ Len(Append(q, f)) = Len(q) + 1
           /\ Range(Append(q, f)) = Range(q) \cup {f}
<1>1. /\ Append(q, f) \in Seq(Fixes) /\ Len(Append(q, f)) = Len(q) + 1 /\ DOMAIN Append(q, f) = 1..(Len(q) + 1)
      /\ Append(q, f)[Len(q) + 1] = f /\ \A i \in 1..Len(q) : Append(q, f)[i] = q[i]
      /\ DOMAIN q = 1..Len(q) /\ Len(q) \in Nat
  BY AppendProperties, LenProperties
<1> QED
  BY <1>1 DEF Range

LEMMA CollectOneKeeps ==
    ASSUME PassTypes, NEW f \in Fixes, NEW acc \in Collections, Counts(acc)
    PROVE  /\ CollectOne(acc, f) \in Collections
           /\ Len(CollectOne(acc, f).fixes) \in {Len(acc.fixes), Len(acc.fixes) + 1}
           /\ Range(acc.fixes) \subseteq Range(CollectOne(acc, f).fixes)
           /\ acc.refused \subseteq CollectOne(acc, f).refused
           /\ Counts(CollectOne(acc, f))
           /\ LeftOut(f, acc.refused) \/ f \in CollectOne(acc, f).refused \/ f \in Range(CollectOne(acc, f).fixes)
<1> DEFINE k == fixKey[f]
<1>1. /\ k \in 0..NFixes /\ acc.dropped[k] \in Nat /\ acc.fixes \in Seq(Fixes) /\ acc.refused \subseteq Fixes
      /\ acc.skipped \in [0..NFixes -> Nat] /\ acc.skipped[k] \in Nat /\ acc.dropped \in [0..NFixes -> Nat]
      /\ acc = [fixes |-> acc.fixes, refused |-> acc.refused, skipped |-> acc.skipped, dropped |-> acc.dropped]
  BY DEF PassTypes, Collections
<1>2. CASE acc.skipped[k] < acc.dropped[k]
  <2> DEFINE skips == [acc.skipped EXCEPT ![k] = @ + 1]
  <2>1. CollectOne(acc, f) =
            [fixes |-> acc.fixes, refused |-> acc.refused, skipped |-> skips, dropped |-> acc.dropped]
    BY <1>1, <1>2 DEF CollectOne
  <2>2. skips \in [0..NFixes -> Nat]
    BY <1>1
  <2>3. LeftOut(f, acc.refused)
    BY <1>1, <1>2 DEF LeftOut, Counts
  <2> HIDE DEF skips
  <2>4. Counts(CollectOne(acc, f))
    BY <2>1 DEF Counts
  <2> QED
    BY <1>1, <2>1, <2>2, <2>3, <2>4 DEF Collections
<1>3. CASE ~(acc.skipped[k] < acc.dropped[k]) /\ f \in refusing
  <2> DEFINE drops == [acc.dropped EXCEPT ![k] = @ + 1]
             refused == acc.refused \cup {f}
  <2>1. CollectOne(acc, f) =
            [fixes |-> acc.fixes, refused |-> refused, skipped |-> acc.skipped, dropped |-> drops]
    BY <1>1, <1>3 DEF CollectOne
  <2>2. drops \in [0..NFixes -> Nat] /\ \A j \in 0..NFixes : j # k => drops[j] = acc.dropped[j]
    BY <1>1
  <2>3. f \in refused /\ refused \subseteq Fixes /\ acc.refused \subseteq refused
    BY <1>1
  <2> HIDE DEF drops, refused
  <2>4. ASSUME NEW j \in 0..NFixes, drops[j] > 0 PROVE \E g \in unapplied \cup refused : fixKey[g] = j
    <3>1. CASE j = k
      BY <2>3, <3>1
    <3>2. CASE j # k
      <4>1. acc.dropped[j] > 0
        BY <2>2, <2>4, <3>2
      <4> QED
        BY <2>3, <4>1 DEF Counts
    <3> QED
      BY <3>1, <3>2
  <2>5. Counts(CollectOne(acc, f))
    BY <2>1, <2>4 DEF Counts
  <2> QED
    BY <1>1, <2>1, <2>2, <2>3, <2>5 DEF Collections
<1> DEFINE clashes == \E i \in 1..Len(acc.fixes) : {f, acc.fixes[i]} \in clash /\ f # acc.fixes[i]
<1>4. CASE ~(acc.skipped[k] < acc.dropped[k]) /\ f \notin refusing /\ clashes
  <2>1. CollectOne(acc, f) = acc
    BY <1>4 DEF CollectOne
  <2>2. \A i \in 1..Len(acc.fixes) : acc.fixes[i] \in Fixes
    BY <1>1, ElementOfSeq
  <2>3. LeftOut(f, acc.refused)
    BY <1>4, <2>2 DEF LeftOut
  <2> QED
    BY <1>1, <2>1, <2>3
<1>5. CASE ~(acc.skipped[k] < acc.dropped[k]) /\ f \notin refusing /\ ~clashes
  <2>1. CollectOne(acc, f) = [fixes |-> Append(acc.fixes, f), refused |-> acc.refused,
                              skipped |-> acc.skipped, dropped |-> acc.dropped]
    BY <1>1, <1>5 DEF CollectOne
  <2>2. /\ Append(acc.fixes, f) \in Seq(Fixes) /\ Len(Append(acc.fixes, f)) = Len(acc.fixes) + 1
        /\ Range(Append(acc.fixes, f)) = Range(acc.fixes) \cup {f}
    BY <1>1, RangeAppended
  <2>3. Counts(CollectOne(acc, f))
    BY <2>1 DEF Counts
  <2> QED
    BY <1>1, <2>1, <2>2, <2>3 DEF Collections
<1> QED
  BY <1>2, <1>3, <1>4, <1>5

\* collect: what it takes is in order, as many as there are at most, and what
\* was found and not taken was refused or left for a reason.
LEMMA CollectTells ==
    ASSUME PassTypes, DroppedAreNamed
    PROVE  Collect \in CollectedTo(NFixes)
<1> DEFINE Counted == {acc \in Collections : Counts(acc)}
           next(n, acc) == IF n \in Found THEN CollectOne(acc, n) ELSE acc
           step == [x \in (1..NFixes) \X Counted |-> next(x[1], x[2])]
           IsRow(f) == f = [n \in 0..NFixes |-> IF n = 0 THEN NoneCollected ELSE next(n, f[n - 1])]
           row == CHOOSE f : IsRow(f)
<1>1. NFixes \in Nat /\ Fixes = 1..NFixes
  BY FixAssumption DEF Fixes
<1>2. Collect = row[NFixes]
  BY DEF Collect, Found
<1>3. NoneCollected \in Counted
  <2>1. dropped \in [0..NFixes -> Nat] /\ NoneCollected.dropped = dropped
    BY DEF PassTypes, NoneCollected
  <2>2. Counts(NoneCollected)
    BY <2>1 DEF Counts, DroppedAreNamed
  <2>3. NoneCollected \in Collections
    BY <2>1, EmptySeq DEF NoneCollected, Collections
  <2> QED
    BY <2>2, <2>3
<1>4. ASSUME NEW n \in 1..NFixes, NEW acc \in Counted PROVE next(n, acc) \in Counted
  BY <1>1, CollectOneKeeps
<1>5. step \in [(1..NFixes) \X Counted -> Counted]
  BY <1>4
<1>6. \A n \in 1..NFixes : \A acc \in Counted : step[<<n, acc>>] = next(n, acc)
  OBVIOUS
<1> HIDE DEF step, next
<1>7. PICK f \in [0..NFixes -> Counted] : RowOf(f, NFixes, NoneCollected, step)
  BY <1>1, <1>3, <1>5, RowExists
<1>8. IsRow(f)
  <2>1. f = [n \in 0..NFixes |-> f[n]]
    BY <1>7
  <2>2. ASSUME NEW n \in 0..NFixes PROVE f[n] = IF n = 0 THEN NoneCollected ELSE next(n, f[n - 1])
    <3>1. CASE n = 0
      BY <1>7, <3>1 DEF RowOf
    <3>2. CASE n # 0
      <4>1. n \in 1..NFixes /\ n - 1 \in 0..NFixes
        BY <1>1, <3>2
      <4> QED
        BY <1>6, <1>7, <3>2, <4>1 DEF RowOf
    <3> QED
      BY <3>1, <3>2
  <2>3. f = [n \in 0..NFixes |-> IF n = 0 THEN NoneCollected ELSE next(n, f[n - 1])]
    BY <1>7, <2>2
  <2> QED
    BY <2>3
<1>9. IsRow(row)
  BY <1>8
<1> HIDE DEF row
<1> DEFINE S == [n \in 0..NFixes |-> CollectedTo(n)]
<1>10. row[0] \in S[0]
  <2>1. row[0] = NoneCollected
    BY <1>1, <1>9
  <2>2. Len(NoneCollected.fixes) = 0 /\ \A f1 \in Found : ~(f1 <= 0)
    BY <1>1 DEF NoneCollected, PassTypes, Found
  <2> QED
    BY <1>1, <1>3, <2>1, <2>2 DEF CollectedTo
<1>11. ASSUME NEW n \in 1..NFixes, row[n - 1] \in S[n - 1] PROVE row[n] \in S[n]
  <2> DEFINE acc == row[n - 1]
  <2>1. n - 1 \in 0..NFixes /\ n \in 0..NFixes /\ n # 0 /\ Found \subseteq Fixes
    BY <1>1 DEF PassTypes, Found
  <2>2. acc \in CollectedTo(n - 1)
    BY <1>11, <2>1
  <2>3. row[n] = next(n, acc)
    BY <1>9, <2>1
  <2> HIDE DEF acc
  <2>4. /\ acc \in Collections /\ Len(acc.fixes) <= n - 1 /\ Counts(acc)
        /\ \A g \in Found : g <= n - 1 => LeftOut(g, acc.refused) \/ g \in acc.refused \/ g \in Range(acc.fixes)
    BY <2>2 DEF CollectedTo
  <2>5. \A g \in Found : g <= n => g <= n - 1 \/ g = n
    BY <1>1, <2>1
  <2>6. Len(acc.fixes) \in Nat
    BY <2>4, LenProperties DEF Collections
  <2>7. CASE n \in Found
    <3> DEFINE got == CollectOne(acc, n)
    <3>1. /\ got \in Collections /\ Len(got.fixes) \in {Len(acc.fixes), Len(acc.fixes) + 1}
          /\ Range(acc.fixes) \subseteq Range(got.fixes) /\ acc.refused \subseteq got.refused
          /\ Counts(got) /\ (LeftOut(n, acc.refused) \/ n \in got.refused \/ n \in Range(got.fixes))
      BY <1>1, <2>4, CollectOneKeeps
    <3>2. row[n] = got
      BY <2>3, <2>7 DEF next
    <3> HIDE DEF got
    <3>3. Len(got.fixes) <= n
      BY <2>1, <2>4, <2>6, <3>1
    <3>6. \A g \in Fixes : LeftOut(g, acc.refused) => LeftOut(g, got.refused)
      BY <3>1 DEF LeftOut
    <3>4. \A g \in Found : g <= n => LeftOut(g, got.refused) \/ g \in got.refused \/ g \in Range(got.fixes)
      BY <1>1, <2>1, <2>4, <2>5, <3>1, <3>6
    <3>5. got \in CollectedTo(n)
      BY <3>1, <3>3, <3>4 DEF CollectedTo
    <3> QED
      BY <2>1, <3>2, <3>5
  <2>8. CASE n \notin Found
    <3>1. row[n] = acc /\ Len(acc.fixes) <= n
      BY <2>1, <2>3, <2>4, <2>6, <2>8 DEF next
    <3>2. \A g \in Found : g <= n => LeftOut(g, acc.refused) \/ g \in acc.refused \/ g \in Range(acc.fixes)
      BY <2>4, <2>5, <2>8
    <3>3. acc \in CollectedTo(n)
      BY <2>4, <3>1, <3>2 DEF CollectedTo
    <3> QED
      BY <2>1, <3>1, <3>3
  <2> QED
    BY <2>7, <2>8
<1>12. \A n \in 0..NFixes : row[n] \in S[n]
  <2> HIDE DEF S
  <2> QED
    BY <1>1, <1>10, <1>11, RowHolds
<1> QED
  BY <1>1, <1>2, <1>12

\* What settle asks and answers: nothing is kept that does not compile with the
\* rest, and what it was asked about is kept or dropped.
Asked == (SUBSET Fixes) \X Seq(Fixes)
Answers == [kept : SUBSET Fixes, dropped : SUBSET Fixes]
IsAnswer(r, accepted, group) ==
    /\ accepted \subseteq r.kept /\ r.kept \subseteq accepted \cup Range(group)
    /\ r.dropped \subseteq Range(group) /\ Range(group) \subseteq r.kept \cup r.dropped
    /\ Compile(applied \cup r.kept)
SettlesTo(n) ==
    {h \in [Asked -> Answers] :
        \A q \in Asked : Compile(applied \cup q[1]) /\ Len(q[2]) <= n => IsAnswer(h[q], q[1], q[2])}

\* The two halves of a group are smaller, and make it up.
LEMMA HalvesOf ==
    ASSUME NEW q \in Seq(Fixes), NEW n \in Nat, Len(q) <= n, Len(q) > 1
    PROVE  LET mid == Len(q) \div 2
               a == SubSeq(q, 1, mid)
               b == SubSeq(q, mid + 1, Len(q))
           IN  /\ a \in Seq(Fixes) /\ b \in Seq(Fixes) /\ Len(a) <= n - 1 /\ Len(b) <= n - 1
               /\ Range(q) = Range(a) \cup Range(b)
<1> DEFINE mid == Len(q) \div 2
           a == SubSeq(q, 1, mid)
           b == SubSeq(q, mid + 1, Len(q))
<1>1. /\ Len(q) \in Nat /\ DOMAIN q = 1..Len(q) /\ \A i \in 1..Len(q) : q[i] \in Fixes
  BY LenProperties, ElementOfSeq
<1>2. mid \in Nat /\ 1 <= mid /\ mid < Len(q)
  BY <1>1
<1> HIDE DEF mid
<1>3. /\ a \in Seq(Fixes) /\ Len(a) = mid /\ DOMAIN a = 1..mid
      /\ \A i \in 1..mid : a[i] = q[i]
  <2>1. a = [i \in 1..mid |-> q[i]]
    BY <1>1, <1>2, SubSeqProperties
  <2>2. a \in Seq(Fixes) /\ Len(a) = mid
    BY <1>1, <1>2, SubSeqProperties
  <2> QED
    BY <2>1, <2>2
<1>4. /\ b \in Seq(Fixes) /\ Len(b) = Len(q) - mid /\ DOMAIN b = 1..(Len(q) - mid)
      /\ \A i \in 1..(Len(q) - mid) : b[i] = q[mid + i]
  <2> DEFINE m == mid + 1
             k == Len(q)
  <2>1. m \in 1..(k + 1) /\ k \in 0..k /\ k \in (m - 1)..k /\ k - m + 1 = k - mid
    BY <1>1, <1>2
  <2>2. /\ SubSeq(q, m, k) \in Seq(Fixes) /\ Len(SubSeq(q, m, k)) = k - m + 1
        /\ SubSeq(q, m, k) = [i \in 1..(1 + k - m) |-> q[i + m - 1]]
    <3> HIDE DEF m
    <3> QED
      BY <2>1, SubSeqProperties
  <2>3. 1 + k - m = k - mid /\ \A i \in 1..(k - mid) : i + m - 1 = mid + i
    BY <1>1, <1>2
  <2>4. \A i \in 1..(k - mid) : SubSeq(q, m, k)[i] = q[mid + i]
    <3> HIDE DEF m, k
    <3> QED
      BY <2>2, <2>3
  <2>5. b \in Seq(Fixes) /\ Len(b) = k - mid /\ DOMAIN b = 1..(k - mid)
    BY <2>1, <2>2, <2>3
  <2> QED
    BY <2>4, <2>5
<1> HIDE DEF a, b
<1>5. Len(a) <= n - 1 /\ Len(b) <= n - 1
  BY <1>1, <1>2, <1>3, <1>4
<1>6. ASSUME NEW f PROVE f \in Range(q) <=> f \in Range(a) \/ f \in Range(b)
  <2>1. ASSUME f \in Range(q) PROVE f \in Range(a) \/ f \in Range(b)
    <3>1. PICK i \in 1..Len(q) : f = q[i]
      BY <1>1, <2>1 DEF Range
    <3>2. CASE i <= mid
      <4>1. i \in 1..mid /\ f = a[i]
        BY <1>1, <1>2, <1>3, <3>1, <3>2
      <4> QED
        BY <1>3, <4>1 DEF Range
    <3>3. CASE ~(i <= mid)
      <4>1. i - mid \in 1..(Len(q) - mid) /\ mid + (i - mid) = i
        BY <1>1, <1>2, <3>1, <3>3
      <4>2. f = b[i - mid]
        BY <1>4, <3>1, <4>1
      <4> QED
        BY <1>4, <4>1, <4>2 DEF Range
    <3> QED
      BY <3>2, <3>3
  <2>2. ASSUME f \in Range(a) PROVE f \in Range(q)
    <3>1. PICK i \in 1..mid : f = a[i]
      BY <1>3, <2>2 DEF Range
    <3>2. i \in 1..Len(q) /\ f = q[i]
      BY <1>1, <1>2, <1>3, <3>1
    <3> QED
      BY <1>1, <3>2 DEF Range
  <2>3. ASSUME f \in Range(b) PROVE f \in Range(q)
    <3>1. PICK i \in 1..(Len(q) - mid) : f = b[i]
      BY <1>4, <2>3 DEF Range
    <3>2. mid + i \in 1..Len(q) /\ f = q[mid + i]
      BY <1>1, <1>2, <1>4, <3>1
    <3> QED
      BY <1>1, <3>2 DEF Range
  <2> QED
    BY <2>1, <2>2, <2>3
<1>7. Range(q) = Range(a) \cup Range(b)
  BY <1>6
<1> QED
  BY <1>3, <1>4, <1>5, <1>7 DEF a, b, mid

LEMMA GroupRange ==
    ASSUME NEW q \in Seq(Fixes)
    PROVE  /\ Range(q) \subseteq Fixes /\ Len(q) \in Nat
           /\ q # <<>> => Len(q) # 0
           /\ q = <<>> => Range(q) = {}
<1>1. Len(q) \in Nat /\ DOMAIN q = 1..Len(q)
  BY LenProperties
<1>2. \A i \in 1..Len(q) : q[i] \in Fixes
  BY ElementOfSeq
<1>3. Range(q) \subseteq Fixes
  BY <1>1, <1>2 DEF Range
<1>4. q # <<>> => Len(q) # 0
  BY EmptySeq
<1>5. q = <<>> => Range(q) = {}
  <2> SUFFICES ASSUME q = <<>> PROVE Range(q) = {}
    OBVIOUS
  <2>1. DOMAIN q = {}
    BY <1>1
  <2> QED
    BY <2>1 DEF Range
<1> QED
  BY <1>1, <1>3, <1>4, <1>5

LEMMA MoreThanOne == ASSUME NEW k \in Nat, k # 0, k # 1 PROVE k > 1 /\ k <= k
  OBVIOUS

\* One step of settle: what it answers when the halves are settled.
LEMMA SettleWithAnswers ==
    ASSUME NEW h \in [Asked -> Answers], NEW acc \in SUBSET Fixes, NEW group \in Seq(Fixes), group # <<>>
    PROVE  SettleWith(h, acc, group) \in Answers
<1> DEFINE mid == Len(group) \div 2
           first == h[<<acc, SubSeq(group, 1, mid)>>]
           second == h[<<first.kept, SubSeq(group, mid + 1, Len(group))>>]
<1>1. Range(group) \subseteq Fixes /\ Len(group) \in Nat /\ Len(group) # 0
  BY GroupRange
<1>2. CASE Compile(applied \cup acc \cup Range(group))
  <2>1. SettleWith(h, acc, group) = [kept |-> acc \cup Range(group), dropped |-> {}]
    BY <1>2 DEF SettleWith
  <2> QED
    BY <1>1, <2>1 DEF Answers
<1>3. CASE ~Compile(applied \cup acc \cup Range(group)) /\ Len(group) = 1
  <2>1. SettleWith(h, acc, group) = [kept |-> acc, dropped |-> Range(group)]
    BY <1>3 DEF SettleWith
  <2> QED
    BY <1>1, <2>1 DEF Answers
<1>4. CASE ~Compile(applied \cup acc \cup Range(group)) /\ Len(group) # 1
  <2>1. SettleWith(h, acc, group) = [kept |-> second.kept, dropped |-> first.dropped \cup second.dropped]
    BY <1>4 DEF SettleWith
  <2>2. SubSeq(group, 1, mid) \in Seq(Fixes) /\ SubSeq(group, mid + 1, Len(group)) \in Seq(Fixes)
    <3>1. Len(group) # 1
      BY <1>4
    <3>2. Len(group) > 1 /\ Len(group) <= Len(group)
      BY <1>1, <3>1, MoreThanOne, Zenon
    <3> QED
      BY <1>1, <3>2, HalvesOf
  <2>3. first \in Answers
    BY <2>2 DEF Asked
  <2>4. first.kept \in SUBSET Fixes /\ first.dropped \in SUBSET Fixes
    <3> HIDE DEF first
    <3> QED
      BY <2>3 DEF Answers
  <2>5. second \in Answers
    <3> HIDE DEF first
    <3> QED
      BY <2>2, <2>4 DEF Asked
  <2>6. second.kept \in SUBSET Fixes /\ second.dropped \in SUBSET Fixes
    <3> HIDE DEF second
    <3> QED
      BY <2>5 DEF Answers
  <2> HIDE DEF first, second
  <2> QED
    BY <2>1, <2>4, <2>6 DEF Answers
<1> QED
  BY <1>2, <1>3, <1>4

LEMMA SettleWithKeeps ==
    ASSUME NEW n \in Nat, n # 0, NEW h \in SettlesTo(n - 1), NEW acc \in SUBSET Fixes,
           NEW group \in Seq(Fixes), group # <<>>, Len(group) <= n, Compile(applied \cup acc)
    PROVE  IsAnswer(SettleWith(h, acc, group), acc, group)
<1> DEFINE mid == Len(group) \div 2
           a == SubSeq(group, 1, mid)
           b == SubSeq(group, mid + 1, Len(group))
           first == h[<<acc, a>>]
           second == h[<<first.kept, b>>]
<1>1. Range(group) \subseteq Fixes /\ Len(group) \in Nat /\ Len(group) # 0
  BY GroupRange
<1>2. CASE Compile(applied \cup acc \cup Range(group))
  <2>1. SettleWith(h, acc, group) = [kept |-> acc \cup Range(group), dropped |-> {}]
    BY <1>2 DEF SettleWith
  <2> DEFINE all == acc \cup Range(group)
  <2>2. applied \cup all = applied \cup acc \cup Range(group)
    OBVIOUS
  <2>3. Compile(applied \cup all)
    BY <1>2, <2>2
  <2>4. acc \subseteq all /\ Range(group) \subseteq all
    OBVIOUS
  <2>5. SettleWith(h, acc, group) = [kept |-> all, dropped |-> {}]
    BY <2>1
  <2> HIDE DEF all
  <2>6. SettleWith(h, acc, group).kept = all /\ SettleWith(h, acc, group).dropped = {}
    BY <2>5
  <2> QED
    BY <2>3, <2>4, <2>6 DEF IsAnswer, all
<1>3. CASE ~Compile(applied \cup acc \cup Range(group)) /\ Len(group) = 1
  <2>1. SettleWith(h, acc, group) = [kept |-> acc, dropped |-> Range(group)]
    BY <1>3 DEF SettleWith
  <2> QED
    BY <2>1 DEF IsAnswer
<1>4. CASE ~Compile(applied \cup acc \cup Range(group)) /\ Len(group) # 1
  <2>1. SettleWith(h, acc, group) = [kept |-> second.kept, dropped |-> first.dropped \cup second.dropped]
    BY <1>4 DEF SettleWith
  <2>2. /\ a \in Seq(Fixes) /\ b \in Seq(Fixes) /\ Len(a) <= n - 1 /\ Len(b) <= n - 1
        /\ Range(group) = Range(a) \cup Range(b)
    <3>1. Len(group) # 1
      BY <1>4
    <3>2. Len(group) > 1
      BY <1>1, <3>1, MoreThanOne, Zenon
    <3> QED
      BY <3>2, HalvesOf
  <2> HIDE DEF a, b
  <2>3. /\ h \in [Asked -> Answers]
        /\ \A q \in Asked : Compile(applied \cup q[1]) /\ Len(q[2]) <= n - 1 => IsAnswer(h[q], q[1], q[2])
    BY DEF SettlesTo
  <2>4. <<acc, a>> \in Asked /\ first \in Answers /\ IsAnswer(first, acc, a)
    <3>1. <<acc, a>> \in Asked
      BY <2>2 DEF Asked
    <3> QED
      BY <2>2, <2>3, <3>1
  <2> HIDE DEF first
  <2>5. first.kept \in SUBSET Fixes /\ Compile(applied \cup first.kept)
    BY <2>4 DEF Answers, IsAnswer
  <2>6. IsAnswer(second, first.kept, b)
    <3>1. <<first.kept, b>> \in Asked
      BY <2>2, <2>5 DEF Asked
    <3> QED
      BY <2>2, <2>3, <2>5, <3>1
  <2> HIDE DEF second
  <2> QED
    BY <2>1, <2>2, <2>4, <2>6 DEF IsAnswer
<1> QED
  BY <1>2, <1>3, <1>4

\* settle answers for every group of the fixes.
LEMMA SettleAnswers ==
    ASSUME NEW acc \in SUBSET Fixes, NEW group \in Seq(Fixes), Len(group) <= NFixes, Compile(applied \cup acc)
    PROVE  IsAnswer(Settle(acc, group), acc, group) /\ Settle(acc, group) \in Answers
<1> DEFINE Rows == [Asked -> Answers]
           answer(n, h, q) == IF n = 0 \/ q[2] = <<>> THEN [kept |-> q[1], dropped |-> {}]
                              ELSE SettleWith(h, q[1], q[2])
           next(n, h) == [q \in Asked |-> answer(n, h, q)]
           none == [q \in Asked |-> [kept |-> q[1], dropped |-> {}]]
           step == [x \in (1..NFixes) \X Rows |-> next(x[1], x[2])]
           IsRow(f) == f = [n \in 0..NFixes |-> next(n, f[n - 1])]
           row == CHOOSE f : IsRow(f)
<1>1. NFixes \in Nat /\ Len(group) \in 0..NFixes
  BY FixAssumption, GroupRange
<1>2. Settle(acc, group) = row[Len(group)][<<acc, group>>]
  BY DEF Settle, Asked
<1>3. \A q \in Asked : q[1] \in SUBSET Fixes /\ q[2] \in Seq(Fixes)
  BY DEF Asked
<1>4. none \in Rows
  BY <1>3 DEF Answers
<1>5. \A h : next(0, h) = none
  OBVIOUS
<1>6. ASSUME NEW n \in 1..NFixes, NEW h \in Rows PROVE next(n, h) \in Rows
  <2>1. ASSUME NEW q \in Asked PROVE answer(n, h, q) \in Answers
    <3>1. CASE q[2] = <<>>
      BY <1>3, <3>1 DEF Answers
    <3>2. CASE q[2] # <<>>
      BY <1>3, <3>2, SettleWithAnswers
    <3> QED
      BY <3>1, <3>2
  <2> HIDE DEF answer
  <2> QED
    BY <2>1
<1>7. step \in [(1..NFixes) \X Rows -> Rows]
  <2> HIDE DEF next, Rows
  <2> QED
    BY <1>6
<1>8. \A n \in 1..NFixes : \A h \in Rows : step[<<n, h>>] = next(n, h)
  <2> HIDE DEF next, Rows
  <2> QED
    OBVIOUS
<1> HIDE DEF step, next, none, answer
<1>9. PICK f \in [0..NFixes -> Rows] : RowOf(f, NFixes, none, step)
  <2> HIDE DEF Rows
  <2> QED
    BY <1>1, <1>4, <1>7, RowExists
<1>10. IsRow(f)
  <2> HIDE DEF Rows
  <2>1. ASSUME NEW n \in 0..NFixes PROVE f[n] = next(n, f[n - 1])
    <3>1. CASE n = 0
      <4>1. f[0] = none /\ next(0, f[n - 1]) = none
        BY <1>5, <1>9 DEF RowOf
      <4> QED
        BY <3>1, <4>1
    <3>2. CASE n # 0
      <4>1. n \in 1..NFixes /\ n - 1 \in 0..NFixes
        BY <1>1, <3>2
      <4>2. f[n] = step[<<n, f[n - 1]>>] /\ f[n - 1] \in Rows
        BY <1>9, <4>1 DEF RowOf
      <4> QED
        BY <1>8, <4>1, <4>2
    <3> QED
      BY <3>1, <3>2
  <2>2. f = [n \in 0..NFixes |-> f[n]]
    BY <1>9
  <2> QED
    BY <2>1, <2>2
<1>11. IsRow(row)
  BY <1>10
<1> HIDE DEF row
<1> DEFINE S == [n \in 0..NFixes |-> SettlesTo(n)]
<1>12. row[0] \in S[0]
  <2>1. row[0] = none /\ 0 \in 0..NFixes
    BY <1>1, <1>5, <1>11
  <2>2. ASSUME NEW q \in Asked, Compile(applied \cup q[1]), Len(q[2]) <= 0
        PROVE  IsAnswer(none[q], q[1], q[2])
    <3>1. q[2] \in Seq(Fixes) /\ Range(q[2]) = {}
      <4>1. q[2] \in Seq(Fixes)
        BY <1>3
      <4>2. Len(q[2]) \in Nat /\ (q[2] # <<>> => Len(q[2]) # 0) /\ (q[2] = <<>> => Range(q[2]) = {})
        BY <4>1, GroupRange
      <4>3. Len(q[2]) = 0
        BY <2>2, <4>2
      <4> QED
        BY <4>1, <4>2, <4>3
    <3>2. none[q] = [kept |-> q[1], dropped |-> {}]
      BY DEF none
    <3>3. none[q].kept = q[1] /\ none[q].dropped = {}
      BY <3>2
    <3> QED
      BY <2>2, <3>1, <3>3 DEF IsAnswer
  <2>3. none \in SettlesTo(0)
    BY <1>4, <2>2 DEF SettlesTo
  <2> QED
    BY <2>1, <2>3
<1>13. ASSUME NEW n \in 1..NFixes, row[n - 1] \in S[n - 1] PROVE row[n] \in S[n]
  <2> DEFINE h == row[n - 1]
  <2>1. n - 1 \in 0..NFixes /\ n \in 0..NFixes /\ n # 0 /\ n \in Nat
    BY <1>1
  <2>2. h \in SettlesTo(n - 1)
    BY <1>13, <2>1
  <2>3. row[n] = next(n, h)
    BY <1>11, <2>1
  <2> HIDE DEF h
  <2>4. h \in Rows
    BY <2>2 DEF SettlesTo
  <2>5. next(n, h) \in Rows
    BY <1>6, <2>4
  <2>6. ASSUME NEW q \in Asked, Compile(applied \cup q[1]), Len(q[2]) <= n
        PROVE  IsAnswer(next(n, h)[q], q[1], q[2])
    <3>1. q[1] \in SUBSET Fixes /\ q[2] \in Seq(Fixes)
      BY <1>3
    <3>2. CASE q[2] = <<>>
      <4>1. next(n, h)[q] = [kept |-> q[1], dropped |-> {}]
        BY <3>2 DEF next, answer
      <4>2. next(n, h)[q].kept = q[1] /\ next(n, h)[q].dropped = {}
        BY <4>1
      <4>3. Range(q[2]) = {}
        BY <3>1, <3>2, GroupRange
      <4> QED
        BY <2>6, <4>2, <4>3 DEF IsAnswer
    <3>3. CASE q[2] # <<>>
      <4>1. next(n, h)[q] = SettleWith(h, q[1], q[2])
        BY <2>1, <3>3 DEF next, answer
      <4>2. IsAnswer(SettleWith(h, q[1], q[2]), q[1], q[2])
        BY <2>1, <2>2, <2>6, <3>1, <3>3, SettleWithKeeps
      <4> QED
        BY <4>1, <4>2
    <3> QED
      BY <3>2, <3>3
  <2>7. next(n, h) \in SettlesTo(n)
    BY <2>5, <2>6 DEF SettlesTo
  <2> QED
    BY <2>1, <2>3, <2>7
<1>14. \A n \in 0..NFixes : row[n] \in S[n]
  <2> HIDE DEF S
  <2> QED
    BY <1>1, <1>12, <1>13, RowHolds
<1>15. row[Len(group)] \in SettlesTo(Len(group))
  BY <1>1, <1>14
<1>16. <<acc, group>> \in Asked
  BY DEF Asked
<1>17. Len(group) <= Len(group)
  BY <1>1
<1> QED
  BY <1>2, <1>15, <1>16, <1>17 DEF SettlesTo

FixTypes ==
    /\ PassTypes /\ NFixes \in Nat
    /\ after \in [Fixes -> Fixes \cup {0}]
    /\ \A f \in Fixes : after[f] # 0 => Home[after[f]] \in Reach(Home[f])
    /\ \A b \in broken : b # {}
    /\ fixing \in {"pass", "done", "failed"}

FixInv == FixTypes /\ FixesSettle /\ DroppedAreNamed

LEMMA FixStarts == FixInit => FixInv
<1> SUFFICES ASSUME FixInit PROVE FixInv
  OBVIOUS
<1>1. NFixes \in Nat /\ Fixes = 1..NFixes /\ Fixes # {}
  <2>1. \E f \in Fixes : \E g \in {0} \cup {h \in Fixes \ {f} : Home[h] \in Reach(Home[f])} :
           after = [x \in Fixes |-> IF x = f THEN g ELSE 0]
    BY DEF FixInit, FixIn
  <2>2. Fixes # {}
    BY <2>1
  <2>3. NFixes \in Nat
    BY FixAssumption
  <2> QED
    BY <2>2, <2>3 DEF Fixes
<1>2. fixKey \in [Fixes -> 0..NFixes]
  <2>1. \A f \in Fixes : f \in 0..NFixes /\ f % 2 \in 0..1 /\ 1 \in 0..NFixes
    BY <1>1
  <2>2. \A f \in Fixes : f % 2 \in 0..NFixes
    BY <1>1, <2>1
  <2> QED
    BY <2>1, <2>2 DEF FixInit, FixIn
<1>3. PICK f \in Fixes : \E g \in {0} \cup {h \in Fixes \ {f} : Home[h] \in Reach(Home[f])} :
                            after = [x \in Fixes |-> IF x = f THEN g ELSE 0]
  BY DEF FixInit, FixIn
<1>4. PICK g \in {0} \cup {h \in Fixes \ {f} : Home[h] \in Reach(Home[f])} :
            after = [x \in Fixes |-> IF x = f THEN g ELSE 0]
  BY <1>3
<1>5. after \in [Fixes -> Fixes \cup {0}] /\ \A x \in Fixes : after[x] # 0 => Home[after[x]] \in Reach(Home[x])
  BY <1>4
<1>6. \A b \in broken : b # {}
  BY DEF FixInit, FixIn
<1>7. /\ applied = {} /\ unapplied = {} /\ fixing = "pass" /\ findings = [p \in Packages |-> Analyse(p, {})]
      /\ dropped = [k \in 0..NFixes |-> 0]
  BY DEF FixInit, FixIn
<1>8. FixTypes
  <2>1. \A p \in Packages : Analyse(p, {}) \in SUBSET Fixes
    BY DEF Analyse
  <2>2. findings \in [Packages -> SUBSET Fixes] /\ dropped \in [0..NFixes -> Nat]
    BY <1>1, <1>7, <2>1
  <2> QED
    BY <1>1, <1>2, <1>5, <1>6, <1>7, <2>2 DEF FixTypes, PassTypes
<1>9. Compile(applied)
  BY <1>6, <1>7 DEF Compile
<1>10. \A k \in 0..NFixes : ~(dropped[k] > 0)
  BY <1>7
<1> QED
  BY <1>7, <1>8, <1>9, <1>10 DEF FixInv, FixesSettle, DroppedAreNamed

\* What a package that is not affected would be found to have.
LEMMA UnaffectedStays ==
    ASSUME FixTypes, NEW kept \in SUBSET Fixes, NEW q \in Packages,
           q \notin Affected({Home[f] : f \in kept})
    PROVE  Analyse(q, applied) = Analyse(q, applied \cup kept)
<1>1. \A f \in kept : Home[f] \notin Reach(q)
  BY DEF Affected
<1>2. q \in Reach(q)
  BY DEF Reach, ImportsOf
<1>3. ASSUME NEW f \in Fixes, Home[f] = q PROVE f \notin kept /\ after[f] \notin kept \ {0}
  BY <1>1, <1>2, <1>3 DEF FixTypes
<1>4. 0 \notin kept
  BY DEF Fixes
<1> QED
  BY <1>3, <1>4 DEF Analyse

\* One pass keeps it all.
LEMMA PassKeeps == ASSUME FixInv, FixOnePass PROVE FixInv'
<1> DEFINE p == Collect
           s == Settle({}, p.fixes)
           gone == p.refused \cup s.dropped
           last == fixPass = FixPassBound \/ \A q \in Packages : findings[q] = {}
<1>1. /\ fixKey' = fixKey /\ clash' = clash /\ broken' = broken /\ after' = after /\ refusing' = refusing
      /\ fixing = "pass" /\ FixTypes /\ PassTypes /\ NFixes \in Nat /\ Compile(applied)
      /\ \A q \in Packages : findings[q] = Analyse(q, applied)
      /\ DroppedAreNamed
  BY DEF FixOnePass, FixInv, FixTypes, FixesSettle
<1>2. p \in CollectedTo(NFixes)
  BY <1>1, CollectTells
<1> HIDE DEF p
<1>3. /\ p.fixes \in Seq(Fixes) /\ p.refused \subseteq Fixes /\ Len(p.fixes) <= NFixes
      /\ p.dropped \in [0..NFixes -> Nat] /\ Counts(p)
      /\ \A f \in Found : LeftOut(f, p.refused) \/ f \in p.refused \/ f \in Range(p.fixes)
  <2>1. \A f \in Found : f <= NFixes
    BY <1>1 DEF Found, PassTypes, Fixes
  <2> QED
    BY <1>2, <2>1 DEF CollectedTo, Collections
<1>4. IsAnswer(s, {}, p.fixes) /\ s \in Answers
  <2>1. {} \in SUBSET Fixes /\ Compile(applied \cup {})
    <3>1. applied \cup {} = applied
      OBVIOUS
    <3> QED
      BY <1>1, <3>1
  <2> QED
    BY <1>3, <2>1, SettleAnswers
<1> HIDE DEF s
<1>5. /\ s.kept \subseteq Fixes /\ s.dropped \subseteq Fixes /\ gone \subseteq Fixes
      /\ Compile(applied \cup s.kept) /\ Range(p.fixes) \subseteq s.kept \cup s.dropped
  BY <1>3, <1>4 DEF IsAnswer, Answers
<1> HIDE DEF gone, last
<1>6. CASE fixing' = "failed" /\ applied' = {} /\ findings' = findings /\ dropped' = dropped
           /\ unapplied' = unapplied /\ fixPass' = fixPass
  <2>1. Compile({})'
    BY <1>1 DEF Compile, FixTypes
  <2>2. FixTypes'
    BY <1>1, <1>6 DEF FixTypes, PassTypes, Reach, ImportsOf
  <2>3. FixesSettle'
    BY <1>6, <2>1 DEF FixesSettle, Compile
  <2> QED
    BY <1>1, <1>6, <2>2, <2>3 DEF FixInv, DroppedAreNamed
<1>7. CASE last /\ fixing' = "done" /\ findings' = findings /\ applied' = applied /\ dropped' = dropped
           /\ unapplied' = unapplied /\ fixPass' = fixPass
  <2>1. FixTypes'
    BY <1>1, <1>7 DEF FixTypes, PassTypes, Reach, ImportsOf
  <2>2. Compile(applied)' /\ \A q \in Packages : findings'[q] = Analyse(q, applied)'
    BY <1>1, <1>7 DEF Compile, Analyse
  <2>3. \A q \in Packages : \A f \in findings'[q] : fixPass' = FixPassBound
    BY <1>7 DEF last
  <2>4. FixesSettle'
    BY <1>7, <2>2, <2>3 DEF FixesSettle
  <2> QED
    BY <1>1, <1>7, <2>1, <2>4 DEF FixInv, DroppedAreNamed
<1>8. CASE /\ unapplied' = unapplied \cup gone
           /\ dropped' = [k \in 0..NFixes |-> p.dropped[k] + Cardinality({f \in s.dropped : fixKey[f] = k})]
           /\ applied' = applied \cup s.kept
           /\ IF s.kept = {} THEN fixing' = "done" /\ findings' = findings
              ELSE /\ fixing' = fixing
                   /\ \E ps \in {Packages, Affected({Home[f] : f \in s.kept})} :
                         findings' = [q \in Packages |->
                                        IF q \in ps THEN Analyse(q, applied') ELSE findings[q]]
  <2>1. ASSUME NEW k \in 0..NFixes
        PROVE  /\ Cardinality({f \in s.dropped : fixKey[f] = k}) \in Nat
               /\ Cardinality({f \in s.dropped : fixKey[f] = k}) > 0 => \E g \in s.dropped : fixKey[g] = k
    <3> DEFINE these == {f \in s.dropped : fixKey[f] = k}
    <3>1. IsFiniteSet(Fixes) /\ these \subseteq Fixes
      <4>1. NFixes \in Int /\ 1 \in Int
        BY <1>1 DEF FixTypes, FixInv
      <4>2. IsFiniteSet(1..NFixes)
        BY <4>1, FS_Interval
      <4>3. s.dropped \subseteq Fixes
        BY <1>1, <1>5
      <4> QED
        BY <4>2, <4>3 DEF Fixes
    <3>2. IsFiniteSet(these)
      BY <3>1, FS_Subset
    <3>3. Cardinality(these) \in Nat /\ (these = {} => Cardinality(these) = 0)
      <4> HIDE DEF these
      <4> QED
        BY <3>2, FS_CardinalityType, FS_EmptySet
    <3>4. these # {} => \E g \in s.dropped : fixKey[g] = k
      OBVIOUS
    <3> HIDE DEF these
    <3>5. Cardinality(these) > 0 => these # {}
      BY <3>3
    <3> QED
      BY <3>3, <3>4, <3>5 DEF these
  <2>2. dropped' \in [0..NFixes -> Nat]
    <3> DEFINE more(k) == Cardinality({f \in s.dropped : fixKey[f] = k})
    <3>1. \A k \in 0..NFixes : more(k) \in Nat /\ p.dropped[k] \in Nat
      BY <1>3, <2>1
    <3>2. dropped' = [k \in 0..NFixes |-> p.dropped[k] + more(k)]
      BY <1>8
    <3> HIDE DEF more
    <3> QED
      BY <3>1, <3>2
  <2>3. ASSUME NEW k \in 0..NFixes, dropped'[k] > 0 PROVE \E g \in unapplied' : fixKey[g] = k
    <3> DEFINE c == Cardinality({f \in s.dropped : fixKey[f] = k})
    <3>1. dropped'[k] = p.dropped[k] + c /\ p.dropped[k] \in Nat /\ c \in Nat
      BY <1>3, <1>8, <2>1
    <3>2. c > 0 => \E g \in s.dropped : fixKey[g] = k
      BY <2>1
    <3> HIDE DEF c
    <3>3. p.dropped[k] > 0 \/ c > 0
      BY <2>3, <3>1
    <3>4. p.dropped[k] > 0 => \E g \in unapplied \cup p.refused : fixKey[g] = k
      BY <1>3 DEF Counts
    <3>5. unapplied' = unapplied \cup p.refused \cup s.dropped
      BY <1>8 DEF gone
    <3> QED
      BY <3>2, <3>3, <3>4, <3>5
  <2>4. \A q \in Packages : findings'[q] = Analyse(q, applied)'
    <3>1. \A q \in Packages : Analyse(q, applied)' = Analyse(q, applied \cup s.kept)
      BY <1>1, <1>8 DEF Analyse
    <3>2. CASE s.kept = {}
      <4>1. applied \cup s.kept = applied
        BY <3>2
      <4> QED
        BY <1>1, <1>8, <3>1, <3>2, <4>1
    <3>3. CASE s.kept # {}
      <4>1. PICK ps \in {Packages, Affected({Home[f] : f \in s.kept})} :
               findings' = [q \in Packages |-> IF q \in ps THEN Analyse(q, applied') ELSE findings[q]]
        BY <1>8, <3>3
      <4>2. ASSUME NEW q \in Packages PROVE findings'[q] = Analyse(q, applied \cup s.kept)
        <5>1. CASE q \in ps
          <6>1. findings'[q] = Analyse(q, applied')
            BY <4>1, <5>1
          <6> QED
            BY <1>8, <6>1
        <5>2. CASE q \notin ps
          <6>1. findings'[q] = findings[q] /\ q \notin Affected({Home[f] : f \in s.kept})
            BY <4>1, <5>2
          <6>2. Analyse(q, applied) = Analyse(q, applied \cup s.kept)
            BY <1>1, <1>5, <6>1, UnaffectedStays
          <6> QED
            BY <1>1, <6>1, <6>2
        <5> QED
          BY <5>1, <5>2
      <4> QED
        BY <3>1, <4>2
    <3> QED
      BY <3>2, <3>3
  <2>5. FixTypes'
    <3>1. \A q \in Packages : Analyse(q, applied)' \in SUBSET Fixes
      BY DEF Analyse
    <3>2. findings' \in [Packages -> SUBSET Fixes]
      <4>1. \/ findings' = findings
            \/ \E ps : findings' = [q \in Packages |-> IF q \in ps THEN Analyse(q, applied') ELSE findings[q]]
        BY <1>8
      <4>2. findings' = [q \in Packages |-> findings'[q]]
        BY <1>1, <4>1 DEF PassTypes
      <4> QED
        BY <2>4, <3>1, <4>2
    <3>3. applied' \subseteq Fixes /\ unapplied' \subseteq Fixes
      BY <1>1, <1>5, <1>8 DEF PassTypes
    <3>4. fixing' \in {"pass", "done", "failed"}
      BY <1>1, <1>8
    <3> QED
      BY <1>1, <2>2, <3>2, <3>3, <3>4 DEF FixTypes, PassTypes, Reach, ImportsOf
  <2>6. Compile(applied)'
    BY <1>1, <1>5, <1>8 DEF Compile
  <2>7. ASSUME fixing' = "done", NEW q \in Packages, NEW f \in findings'[q]
        PROVE  \/ f \in unapplied' \/ \E g \in Fixes : {f, g} \in clash
               \/ \E g \in unapplied' : fixKey[g] = fixKey[f]
    <3>1. s.kept = {} /\ findings' = findings
      BY <1>1, <1>8, <2>7
    <3>2. f \in Found /\ f \in Fixes /\ fixKey[f] \in 0..NFixes
      BY <1>1, <2>7, <3>1 DEF Found, PassTypes
    <3>3. CASE LeftOut(f, p.refused)
      <4>1. unapplied \cup p.refused \subseteq unapplied'
        BY <1>8 DEF gone
      <4> QED
        BY <3>3, <4>1 DEF LeftOut
    <3>4. CASE f \in p.refused \/ f \in Range(p.fixes)
      <4>1. f \in gone
        BY <1>5, <3>1, <3>4 DEF gone
      <4> QED
        BY <1>8, <4>1
    <3> QED
      BY <1>3, <3>2, <3>3, <3>4
  <2>8. FixesSettle'
    BY <1>1, <2>4, <2>6, <2>7 DEF FixesSettle
  <2> QED
    BY <1>1, <2>3, <2>5, <2>8 DEF FixInv, DroppedAreNamed
<1> QED
  BY <1>6, <1>7, <1>8 DEF FixOnePass, p, s, gone, last

LEMMA FixStep == FixInv /\ [FixNext]_fixVars => FixInv'
<1> SUFFICES ASSUME FixInv, UNCHANGED fixVars PROVE FixInv'
  BY PassKeeps DEF FixNext
<1> QED
  BY DEF fixVars, FixInv, DroppedAreNamed, FixTypes, PassTypes, FixesSettle, Compile, Analyse, Reach, ImportsOf

\* What the passes leave compiles, is what an analysis finds, and names what was
\* not applied (Fix, fix.go:65; settle, fix.go:105; reanalyze, fix.go:264).
THEOREM FixesAreSettled == FixSpec => []FixesSettle
<1>1. FixInit => FixInv
  BY FixStarts
<1>2. FixInv /\ [FixNext]_fixVars => FixInv'
  BY FixStep
<1>3. FixInv => FixesSettle
  BY DEF FixInv
<1> QED
  BY <1>1, <1>2, <1>3, PTL DEF FixSpec

\* Passes and writing together: what is written compiles and settles, and is all
\* there or named (fix.go:101, filewrite.go:133).
THEOREM LintFixKeepsItsWord == LintSpec /\ FixSpec => []LintFixIsSafe
<1>1. FixesSettle /\ FixesAllOrNamed => LintFixIsSafe
  BY DEF LintFixIsSafe
<1> QED
  BY <1>1, FilesAreNamed, FixesAreSettled, PTL
==============================================================================
