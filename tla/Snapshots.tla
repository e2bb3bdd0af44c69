------------------------------ MODULE Snapshots ------------------------------
(***************************************************************************)
(* MatchSnapshot (pkg/gotest/snapshot.go) and the files it keeps baselines *)
(* in (internal/snapfile): tests of one process, some of them parallel,    *)
(* each find their section, compare with it, and generate, update or, when *)
(* the release before exact names wrote it, rename it.  The process may be *)
(* killed at any moment.                                                   *)
(*                                                                         *)
(* A line of text is <<"text", what, CRs before its newline>>; one spelled *)
(* like a section header is <<"snap", key, CRs>>.  Keys are numbered as    *)
(* they sort.                                                              *)
(*                                                                         *)
(* Bounds: one process at a time has the files open, no two tests share a  *)
(* key, and the directory of the files can be made.                        *)
(***************************************************************************)
EXTENDS Naturals, Sequences, FiniteSets, SequencesExt

CONSTANTS
    SnapCalls,   \* the calls of MatchSnapshot
    SnapSource,  \* SnapSource[c]: the file of baselines that belongs to c's caller
    SnapKey,     \* SnapKey[c]: the key of its section
    OldKey,      \* OldKey[k]: k without its #<digits>, as the earlier release wrote it
    SnapValues,  \* what the tests may pass: a value for each call
    Baselines    \* what the files may hold

SnapFiles == {SnapSource[c] : c \in SnapCalls}

ASSUME SnapAssumption ==
    \A c, d \in SnapCalls : SnapSource[c] = SnapSource[d] /\ SnapKey[c] = SnapKey[d] => c = d

VARIABLES
    snapMode,   \* [update, ci]: GOTEST_UPDATE_SNAPSHOTS and GOTEST_CI
    given,      \* what each call is given, or Absent
    baseline,   \* the files' lines
    callAt,     \* "new", "locked", "write", "open", "ended"
    fileMutex,  \* who holds each file's mutex
    claims,     \* the sections a key of this process has read
    toWrite,    \* the sections a call is about to write
    matched,    \* "none", "pass", "fail"
    was,        \* the files when the process began
    tookOld     \* the calls that read a section by its old key

snapVars == <<snapMode, given, baseline, callAt, fileMutex, claims, toWrite, matched, was, tookOld>>

Absent == [renders |-> FALSE, lines |-> <<>>]

------------------------------------------------------------------------------
(* snapfile *)

\* Parse: a CR before a newline is dropped.
Parse(file) ==
    LET read == [i \in DOMAIN file |-> [file[i] EXCEPT ![3] = IF @ = 0 THEN 0 ELSE @ - 1]]
        IsHeader(i) == read[i][1] = "snap" /\ read[i][3] = 0
        heads == SetToSortSeq({i \in DOMAIN read : IsHeader(i)}, <)
        EndOf(j) == IF j = Len(heads) THEN Len(read) ELSE heads[j + 1] - 1
    IN [j \in DOMAIN heads |->
           [key |-> read[heads[j]][2], lines |-> SubSeq(read, heads[j] + 1, EndOf(j))]]

\* Serialize, in the order of the keys
Serialize(sections) ==
    LET sorted == SortSeq(sections, LAMBDA a, b : a.key < b.key)
    IN FlattenSeq([i \in DOMAIN sorted |-> <<<<"snap", sorted[i].key, 0>>>> \o sorted[i].lines])

\* ValidateContent
HasHeader(lines) == \E i \in DOMAIN lines : lines[i][1] = "snap" /\ lines[i][3] = 0

\* sectionIndex, or 0
SectionIndex(sections, key) ==
    LET at == {i \in DOMAIN sections : sections[i].key = key}
    IN IF at = {} THEN 0 ELSE CHOOSE i \in at : \A j \in at : i <= j

------------------------------------------------------------------------------
(* matchSnapshot *)

\* snapshotContent, with every CR that ends a line dropped.
Content(c) == [i \in DOMAIN given[c].lines |-> [given[c].lines[i] EXCEPT ![3] = 0]]

SnapIn(where) ==
    /\ callAt = [c \in SnapCalls |-> where]
    /\ fileMutex = [f \in SnapFiles |-> {}] /\ claims = [f \in SnapFiles |-> {}]
    /\ toWrite = [c \in SnapCalls |-> <<>>] /\ matched = [c \in SnapCalls |-> "none"]
    /\ was = baseline /\ tookOld = {}

SnapInit ==
    /\ snapMode \in [update : BOOLEAN, ci : BOOLEAN]
    /\ baseline \in Baselines
    /\ given \in SnapValues
    /\ SnapIn("new")

Judged(c, verdict) ==
    /\ callAt' = [callAt EXCEPT ![c] = "ended"] /\ matched' = [matched EXCEPT ![c] = verdict]

\* A value that does not render, or renders to a line like a header.
RefuseValue(c) ==
    /\ callAt[c] = "new" /\ given[c] # Absent
    /\ ~given[c].renders \/ HasHeader(Content(c))
    /\ Judged(c, "fail")
    /\ UNCHANGED <<snapMode, given, baseline, fileMutex, claims, toWrite, was, tookOld>>

\* fileMutex
MayLock(c) == fileMutex[SnapSource[c]] = {}

LockFile(c) ==
    /\ callAt[c] = "new" /\ given[c].renders /\ ~HasHeader(Content(c))
    /\ MayLock(c)
    /\ fileMutex' = [fileMutex EXCEPT ![SnapSource[c]] = @ \cup {c}]
    /\ callAt' = [callAt EXCEPT ![c] = "locked"]
    /\ UNCHANGED <<snapMode, given, baseline, claims, toWrite, matched, was, tookOld>>

Unlocked(c) == fileMutex' = [fileMutex EXCEPT ![SnapSource[c]] = @ \ {c}]

\* What is read under the mutex, and what becomes of it.
LookUp(c) ==
    LET file == SnapSource[c]
        key == SnapKey[c]
        old == OldKey[key]
        sections == Parse(baseline[file])
        exact == SectionIndex(sections, key)
        legacy == exact = 0 /\ old # key /\ old \notin claims[file] /\ SectionIndex(sections, old) # 0
        i == IF legacy THEN SectionIndex(sections, old) ELSE exact
        mine == [key |-> key, lines |-> Content(c)]
        Writes(next) == /\ toWrite' = [toWrite EXCEPT ![c] = next]
                        /\ callAt' = [callAt EXCEPT ![c] = "write"]
                        /\ UNCHANGED <<fileMutex, matched>>
        Settles(verdict) == Judged(c, verdict) /\ Unlocked(c) /\ UNCHANGED toWrite
    IN /\ callAt[c] = "locked"
       /\ claims' = [claims EXCEPT ![file] = @ \cup {key} \cup (IF legacy THEN {old} ELSE {})]
       /\ tookOld' = IF legacy THEN tookOld \cup {c} ELSE tookOld
       /\ CASE i = 0 /\ (snapMode.update \/ ~snapMode.ci) -> Writes(Append(sections, mine))
            [] i = 0 /\ ~snapMode.update /\ snapMode.ci -> Settles("fail")
            [] i # 0 /\ snapMode.update -> Writes([sections EXCEPT ![i] = mine])
            [] i # 0 /\ ~snapMode.update ->
                 IF sections[i].lines # Content(c) THEN Settles("fail")
                 ELSE IF legacy /\ ~snapMode.ci THEN Writes([sections EXCEPT ![i].key = key])
                 ELSE Settles("pass")
       /\ UNCHANGED <<snapMode, given, baseline, was>>

\* os.WriteFile truncates, then writes; it may be refused.
Truncate(c) ==
    /\ callAt[c] = "write"
    /\ \/ /\ baseline' = [baseline EXCEPT ![SnapSource[c]] = <<>>]
          /\ callAt' = [callAt EXCEPT ![c] = "open"]
          /\ UNCHANGED <<matched, fileMutex>>
       \/ Judged(c, "fail") /\ Unlocked(c) /\ UNCHANGED baseline
    /\ UNCHANGED <<snapMode, given, claims, toWrite, was, tookOld>>

WriteBaselines(c) ==
    /\ callAt[c] = "open"
    /\ baseline' = [baseline EXCEPT ![SnapSource[c]] = Serialize(toWrite[c])]
    /\ Judged(c, "pass") /\ Unlocked(c)
    /\ UNCHANGED <<snapMode, given, claims, toWrite, was, tookOld>>

\* The process is killed, or every test has ended.
SnapKilled ==
    /\ callAt' = [c \in SnapCalls |-> IF callAt[c] = "open" THEN "open" ELSE "ended"]
    /\ UNCHANGED <<snapMode, given, baseline, fileMutex, claims, toWrite, matched, was, tookOld>>

SnapNext ==
    \/ \E c \in SnapCalls : RefuseValue(c) \/ LockFile(c) \/ LookUp(c) \/ Truncate(c) \/ WriteBaselines(c)
    \/ SnapKilled

------------------------------------------------------------------------------
(* Properties *)

Asserted(c) == given[c] # Absent
Recorded(file) == Parse([i \in DOMAIN file |-> [file[i] EXCEPT ![3] = 0]])
BaselinesBefore(f) == Recorded(was[f])
BaselinesNow(f) == Recorded(baseline[f])
SectionOf(sections, key) == sections[SectionIndex(sections, key)]

\* Being written: a kill here leaves the file cut short.
Torn(f) == \E c \in SnapCalls : SnapSource[c] = f /\ callAt[c] = "open"

\* Another key without a section reads this one as its own of an earlier
\* release.
Contested(f, key) ==
    \E d \in SnapCalls : /\ Asserted(d) /\ SnapSource[d] = f /\ SnapKey[d] # key
                         /\ OldKey[SnapKey[d]] = key
                         /\ SectionIndex(BaselinesBefore(f), SnapKey[d]) = 0

\* A value is judged by its own baseline of before, by nothing else of the
\* process, and a value that did not change passes however its lines end or
\* the file was checked out (snapshot.go:27-29).
ChangeIsCaught ==
    \A c \in SnapCalls :
        LET f == SnapSource[c]  key == SnapKey[c] IN
        /\ matched[c] # "none" /\ given[c].renders /\ ~snapMode.update
        /\ SectionIndex(BaselinesBefore(f), key) # 0 /\ ~Contested(f, key)
        => (matched[c] = "pass" <=> Content(c) = SectionOf(BaselinesBefore(f), key).lines)

\* With --ci nothing is generated or renamed (snapshot.go:281-284).
CiWritesNothing == snapMode.ci /\ ~snapMode.update => baseline = was

\* A baseline is changed by its own test's update alone, whatever parallel tests
\* write beside it (README.md:627).
BaselinesKept ==
    \A f \in SnapFiles : ~Torn(f) => \A i \in DOMAIN BaselinesBefore(f) :
        LET s == BaselinesBefore(f)[i] IN
        \/ s \in ToSet(BaselinesNow(f))
        \/ Contested(f, s.key)
        \/ snapMode.update /\ \E c \in SnapCalls :
              Asserted(c) /\ SnapSource[c] = f /\ SnapKey[c] = s.key
                /\ [key |-> s.key, lines |-> Content(c)] \in ToSet(BaselinesNow(f))

\* What a test's success left is its value, so that the next run judges by it:
\* no other key takes the section of a key that has read it
\* (snapshot.go:290-292).
PassedIsKept ==
    \A c \in SnapCalls :
        LET f == SnapSource[c] IN
        matched[c] = "pass" /\ (snapMode.update \/ ~snapMode.ci) /\ ~Torn(f) =>
            [key |-> SnapKey[c], lines |-> Content(c)] \in ToSet(BaselinesNow(f))

\* A section of the earlier release serves one key by its old name
\* (snapshot.go:290-292).
OldServesOne ==
    \A c, d \in tookOld :
        SnapSource[c] = SnapSource[d] /\ OldKey[SnapKey[c]] = OldKey[SnapKey[d]] => c = d

SnapshotsAreTrue ==
    ChangeIsCaught /\ CiWritesNothing /\ BaselinesKept /\ PassedIsKept /\ OldServesOne
=============================================================================
