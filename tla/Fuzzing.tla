------------------------------ MODULE Fuzzing ------------------------------
(***************************************************************************)
(* Fuzz sessions, what they record, and gotest fuzz promote                *)
(* (internal/gotestrunner/fuzzrun.go, fuzzsession.go; cmd/gotest/fuzz.go,  *)
(* fuzztriage.go).                                                         *)
(*                                                                         *)
(* Command lines run side by side over one checkout and one cache: fuzz    *)
(* sessions, whose engine writes crashers into testdata/fuzz, a promote    *)
(* that turns the recorded ones into seeds, and the user, who edits and    *)
(* removes corpus files.  The engine names a crasher by its content.       *)
(***************************************************************************)
EXTENDS Naturals, FiniteSets

CONSTANTS
    FuzzTargets,
    Crashers,     \* corpus files
    TargetOf,     \* TargetOf[c]: the target whose corpus c is in
    Sessions,     \* the gotest fuzz command lines, numbers in the order they start
    Promoters,    \* the gotest fuzz promote command lines
    MaxTouches    \* bound: how many corpus files the user edits or removes

ASSUME FuzzAssumption ==
    /\ TargetOf \in [Crashers -> FuzzTargets] /\ IsFiniteSet(Crashers)

VARIABLES
    corpus,     \* corpus[c]: "none", "found" as written, or "edited"
    seeds,      \* crashers whose value is an f.Add seed
    sessionFile,  \* the crashers FuzzSession records
    recordLock, \* who holds the lock file of the record
    fuzz,       \* fuzz[s]: where session s is
    picked,     \* picked[s]: its targets
    fuzzed,     \* fuzzed[s]: its targets that ran to their end
    before,     \* before[s]: the corpus files there when it began
    fresh,      \* fresh[s]: the crashers it saw appear
    digests,    \* digests[s]: them with the content they had when recorded
    previous,   \* previous[s]: the record as it read it
    fuzzCode,   \* fuzzCode[s]: its exit code
    promote,    \* promote[p]: where promote p is
    taken,      \* taken[p]: the session record it read
    queue,      \* queue[p]: what it promotes
    found,      \* history: crashers an engine ever wrote
    touched,    \* history: corpus files the user edited or removed
    due         \* history: what the sessions recorded so far add up to

fuzzVars == <<corpus, seeds, sessionFile, recordLock, fuzz, picked, fuzzed,
              before, fresh, digests, previous, fuzzCode, promote, taken, queue, found,
              touched, due>>
sessionVars == <<fuzz, picked, fuzzed, before, fresh, digests, previous, fuzzCode>>
promoteVars == <<promote, taken, queue>>

FuzzIn(where) ==
    /\ corpus = [c \in Crashers |-> "none"] /\ seeds = {} /\ sessionFile = {}
    /\ recordLock = "free"
    /\ fuzz = [s \in Sessions |-> where] /\ picked = [s \in Sessions |-> {}]
    /\ fuzzed = [s \in Sessions |-> {}] /\ before = [s \in Sessions |-> {}]
    /\ fresh = [s \in Sessions |-> {}] /\ digests = [s \in Sessions |-> {}]
    /\ previous = [s \in Sessions |-> {}]
    /\ fuzzCode = [s \in Sessions |-> 0]
    /\ promote = [p \in Promoters |-> where]
    /\ taken = [p \in Promoters |-> {}] /\ queue = [p \in Promoters |-> {}]
    /\ found = {} /\ touched = {} /\ due = {}

FuzzInit == FuzzIn("start")

There == {c \in Crashers : corpus[c] # "none"}
Corpora(ts) == {c \in Crashers : TargetOf[c] \in ts}

-----------------------------------------------------------------------------
(* gotest fuzz *)

\* --target narrows the session to one; the corpus is listed before a target's
\* process starts.
SessionStarts(s, ts) ==
    /\ fuzz[s] = "start" /\ fuzz' = [fuzz EXCEPT ![s] = "run"]
    /\ \A r \in Sessions : r < s => fuzz[r] # "start"
    /\ picked' = [picked EXCEPT ![s] = ts]
    /\ before' = [before EXCEPT ![s] = There \cap Corpora(ts)]
    /\ UNCHANGED <<corpus, seeds, sessionFile, recordLock, fuzzed, fresh,
                   digests, previous, fuzzCode, promoteVars, found, touched, due>>

\* The engine fails on an input and writes it.
EngineFinds(s, c) ==
    /\ fuzz[s] = "run" /\ TargetOf[c] \in picked[s] \ fuzzed[s] /\ corpus[c] = "none"
    /\ corpus' = [corpus EXCEPT ![c] = "found"] /\ found' = found \cup {c}
    /\ UNCHANGED <<seeds, sessionFile, recordLock, sessionVars, promoteVars,
                   touched, due>>

\* runOneFuzzTarget returns: out of time, failing, cut short by the deadline or
\* an interrupt, or never started for want of a slot.  EffectiveExitCode: a
\* target cut short without a crasher is no failure, a new crasher always is.
TargetEnds(s, t) ==
    LET new == (There \cap Corpora({t})) \ before[s] IN
    /\ fuzz[s] = "run" /\ t \in picked[s] \ fuzzed[s]
    /\ fuzzed' = [fuzzed EXCEPT ![s] = @ \cup {t}]
    /\ \/ /\ fresh' = [fresh EXCEPT ![s] = @ \cup new]
          /\ \E code \in {0, 1}, cut \in BOOLEAN :
                LET bare == IF cut /\ new = {} THEN 0 ELSE code
                    effective == IF bare = 0 /\ new # {} THEN 1 ELSE bare IN
                fuzzCode' = [fuzzCode EXCEPT ![s] = IF effective > @ THEN effective ELSE @]
       \/ UNCHANGED <<fresh, fuzzCode>>
    /\ UNCHANGED <<corpus, seeds, sessionFile, recordLock, fuzz, picked, before,
                   digests, previous, promoteVars, found, touched, due>>

\* RecordFuzzSession reads the digest of each crasher; one that is gone fails
\* the recording, which the session only reports.
Digests(s) ==
    /\ fuzz[s] = "run" /\ fuzzed[s] = picked[s]
    /\ fuzz' = [fuzz EXCEPT ![s] = IF fresh[s] \subseteq There THEN "lock" ELSE "over"]
    /\ digests' = [digests EXCEPT ![s] = {<<c, corpus[c]>> : c \in fresh[s]}]
    /\ UNCHANGED <<corpus, seeds, sessionFile, recordLock, picked, fuzzed, before,
                   fresh, previous, fuzzCode, promoteVars, found, touched, due>>

\* Mutant: the record is read and written without its lock.
LocksRecord_Not(s) ==
    /\ fuzz[s] = "lock" /\ fuzz' = [fuzz EXCEPT ![s] = "write"]
    /\ previous' = [previous EXCEPT ![s] = sessionFile]
    /\ UNCHANGED <<corpus, seeds, sessionFile, recordLock, picked, fuzzed,
                   before, fresh, digests, fuzzCode, promoteVars, found, touched, due>>

LocksRecord(s) ==
    /\ fuzz[s] = "lock" /\ recordLock = "free" /\ recordLock' = "held"
    /\ fuzz' = [fuzz EXCEPT ![s] = "write"]
    /\ previous' = [previous EXCEPT ![s] = sessionFile]
    /\ UNCHANGED <<corpus, seeds, sessionFile, picked, fuzzed, before, fresh,
                   digests, fuzzCode, promoteVars, found, touched, due>>

\* What other targets left stays; the rename makes it one step.  A write that
\* fails leaves the record as it was.  The process is over, and what it knew gone.
WritesRecord(s) ==
    /\ fuzz[s] = "write" /\ fuzz' = [fuzz EXCEPT ![s] = "over"]
    /\ picked' = [picked EXCEPT ![s] = {}] /\ fuzzed' = [fuzzed EXCEPT ![s] = {}]
    /\ before' = [before EXCEPT ![s] = {}] /\ previous' = [previous EXCEPT ![s] = {}]
    /\ digests' = [digests EXCEPT ![s] = {}]
    /\ recordLock' = "free"
    /\ \/ /\ sessionFile' = {d \in previous[s] : TargetOf[d[1]] \notin picked[s]} \cup digests[s]
          /\ due' = {d \in due : TargetOf[d[1]] \notin picked[s]} \cup digests[s]
       \/ UNCHANGED <<sessionFile, due>>
    /\ UNCHANGED <<corpus, seeds, fresh, fuzzCode, promoteVars, found, touched>>

-----------------------------------------------------------------------------
(* gotest fuzz promote *)

ReadsRecord(p) ==
    /\ promote[p] = "start" /\ promote' = [promote EXCEPT ![p] = "scan"]
    /\ taken' = [taken EXCEPT ![p] = sessionFile]
    /\ UNCHANGED <<corpus, seeds, sessionFile, recordLock, sessionVars, queue,
                   found, touched, due>>

\* A file no session recorded is left in place; one that changed since refuses
\* the whole command.
Scans(p) ==
    LET mine == {d \in taken[p] : d[1] \in There} IN
    /\ promote[p] = "scan" /\ taken' = [taken EXCEPT ![p] = {}]
    /\ IF \E d \in mine : corpus[d[1]] # d[2]
         THEN promote' = [promote EXCEPT ![p] = "over"] /\ UNCHANGED queue
         ELSE /\ promote' = [promote EXCEPT ![p] = "promote"]
              /\ queue' = [queue EXCEPT ![p] = {d[1] : d \in mine}]
    /\ UNCHANGED <<corpus, seeds, sessionFile, recordLock, sessionVars,
                   found, touched, due>>

\* promoteCrasher: the seed is spliced in, then the file removed, which may
\* fail; a value that cannot be written exactly keeps its file.
PromoteCrasher(p, c) ==
    /\ promote[p] = "promote" /\ c \in queue[p]
    /\ queue' = [queue EXCEPT ![p] = @ \ {c}]
    /\ \/ /\ corpus[c] # "none" /\ seeds' = seeds \cup {c}
          /\ corpus' \in {corpus, [corpus EXCEPT ![c] = "none"]}
       \/ UNCHANGED <<seeds, corpus>>
    /\ UNCHANGED <<sessionFile, recordLock, sessionVars, promote, taken, found,
                   touched, due>>

Promoted(p) ==
    /\ promote[p] = "promote" /\ queue[p] = {}
    /\ promote' = [promote EXCEPT ![p] = "over"]
    /\ UNCHANGED <<corpus, seeds, sessionFile, recordLock, sessionVars, taken,
                   queue, found, touched, due>>

-----------------------------------------------------------------------------
UserTouches(c) ==
    /\ corpus[c] # "none" /\ c \notin touched /\ Cardinality(touched) < MaxTouches
    /\ touched' = touched \cup {c}
    /\ \E v \in {"none", "edited"} : corpus' = [corpus EXCEPT ![c] = v]
    /\ UNCHANGED <<seeds, sessionFile, recordLock, sessionVars, promoteVars,
                   found, due>>

FuzzNext ==
    \/ \E s \in Sessions :
          \/ \E ts \in SUBSET FuzzTargets : ts # {} /\ SessionStarts(s, ts)
          \/ (\E c \in Crashers : EngineFinds(s, c)) \/ \E t \in FuzzTargets : TargetEnds(s, t)
          \/ Digests(s) \/ LocksRecord(s) \/ WritesRecord(s)
    \/ \E p \in Promoters :
          \/ ReadsRecord(p) \/ Scans(p) \/ Promoted(p)
          \/ \E c \in Crashers : PromoteCrasher(p, c)
    \/ \E c \in Crashers : UserTouches(c)
    \/ UNCHANGED fuzzVars

FuzzSpec == FuzzInit /\ [][FuzzNext]_fuzzVars

-----------------------------------------------------------------------------
(* Properties *)

\* No input an engine found is lost, whichever sessions and promotes run side
\* by side: it is in its corpus, or a seed, unless the user took it away; and
\* the record holds what every session found that no later one of the same
\* target replaced (RecordFuzzSession, fuzzsession.go:152; promoteCrasher,
\* fuzztriage.go:698).  A session that saw a crasher appear fails.
FindsAreKept ==
    /\ \A c \in found : corpus[c] # "none" \/ c \in seeds \cup touched
    /\ sessionFile = due
    /\ \A s \in Sessions : fuzz[s] = "over" /\ fresh[s] # {} => fuzzCode[s] # 0
=============================================================================
