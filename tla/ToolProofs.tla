------------------------------ MODULE ToolProofs ------------------------------
(***************************************************************************)
(* Proofs about what stands beside a run: the editor's child processes     *)
(* across its sessions (EditorProcs), its watcher, runs and discovery      *)
(* (EditorWatch, EditorRun, EditorDiscovery) and its choice of a command   *)
(* line (EditorCli), the fuzz sessions and what they record (Fuzzing), the *)
(* tests and fixtures a run selects (Selection), how long it waits for the *)
(* fixtures' process (SharedProtocol), and what benchmark runs are judged  *)
(* by (Bench).                                                             *)
(***************************************************************************)
EXTENDS EditorDiscovery, EditorCli, Fuzzing, Selection, SharedProtocol, Bench, TLAPS,
        FiniteSetTheorems, SequenceTheorems, WellFoundedInduction

(* The editor's child processes *)

ProcTypes ==
    /\ host \in [Hosts -> {"no", "loading", "up", "dead"}]
    /\ childOf \in [Children -> Hosts \cup {NoOne}]
    /\ leader \in [Children -> {"no", "runs", "gone"}]
    /\ rest \in [Children -> {"runs", "gone"}]
    /\ current \in [Hosts -> SUBSET Children]
    /\ inheritedRecs \in [Hosts -> SUBSET (Hosts \X Children)]
    /\ inherited \in [Hosts -> SUBSET Hosts] /\ toRead \in [Hosts -> SUBSET Hosts]
    /\ toSettle \in [Hosts -> SUBSET (Hosts \X (SUBSET Children))]
    /\ table \in [Hosts -> (SUBSET Children) \cup {Absent}]
    /\ stranger \subseteq Children /\ grace \subseteq Children

\* A child has the host that spawned it; a pid is a stranger's only once its
\* host saw the exit, or is gone.
PidsTell ==
    /\ \A c \in Children :
          /\ leader[c] = "no" <=> childOf[c] = NoOne
          /\ childOf[c] = NoOne => rest[c] = "gone"
          /\ childOf[c] # NoOne => host[childOf[c]] # "no"
    /\ \A c \in stranger :
          leader[c] = "gone" /\ rest[c] = "gone" /\ (c \in exited \/ host[childOf[c]] = "dead")
    /\ \A c \in grace : childOf[c] # NoOne

\* A table names children of its own session alone ...
TablesAreOwn ==
    /\ \A h \in Hosts : \A c \in current[h] : childOf[c] = h
    /\ \A h \in Hosts, c \in Children : c \in table[h] => childOf[c] = h
    /\ \A h \in Hosts : host[h] = "no" => table[h] = Absent

\* ... and what a host inherited is of sessions whose host is dead, and so is
\* what it is about to write.
InheritedIsDead ==
    /\ \A h, f \in Hosts : f \in inherited[h] => host[f] = "dead"
    /\ \A h, f \in Hosts, c \in Children :
          <<f, c>> \in inheritedRecs[h] => host[f] = "dead" /\ childOf[c] = f

SettledIsDead ==
    /\ \A h, f \in Hosts, left \in SUBSET Children : <<f, left>> \in toSettle[h] => host[f] = "dead"
    /\ \A h, f \in Hosts, left \in SUBSET Children, c \in Children :
          <<f, left>> \in toSettle[h] /\ c \in left => childOf[c] = f

RecordsTell == TablesAreOwn /\ InheritedIsDead /\ SettledIsDead

\* Whoever inherited a file still has all it names that runs and nothing else
\* that does, and so has what it is about to write there.
HeldIsRecorded ==
    \A h, f \in Hosts, c \in Children :
       leader[c] = "runs" /\ <<f, c>> \in inheritedRecs[h] => c \in table[f]

RecordedIsHeld ==
    \A h, f \in Hosts, c \in Children :
       leader[c] = "runs" /\ f \in inherited[h] /\ c \in table[f] => <<f, c>> \in inheritedRecs[h]

SettledIsRecorded ==
    \A h, f \in Hosts, left \in SUBSET Children, c \in Children :
       leader[c] = "runs" /\ <<f, left>> \in toSettle[h] => (c \in left <=> c \in table[f])

OrphansTell == HeldIsRecorded /\ RecordedIsHeld /\ SettledIsRecorded

ProcInv == ProcTypes /\ PidsTell /\ RecordsTell /\ OrphansTell /\ OnlyOwnAreSignalled

LEMMA ProcInit == EditorProcsInit => ProcInv
  <1> SUFFICES ASSUME EditorProcsInit PROVE ProcInv
    OBVIOUS
  <1> USE DEF EditorProcsInit, EditorProcsIn
  <1>1. ProcTypes
    BY DEF ProcTypes, NoOne, Absent
  <1>2. PidsTell
    BY DEF PidsTell, NoOne
  <1>3. RecordsTell /\ OrphansTell
    BY ProcsAssumption
       DEF RecordsTell, TablesAreOwn, InheritedIsDead, SettledIsDead,
           OrphansTell, HeldIsRecorded, RecordedIsHeld, SettledIsRecorded, Absent
  <1>4. OnlyOwnAreSignalled
    BY DEF OnlyOwnAreSignalled
  <1> QED BY <1>1, <1>2, <1>3, <1>4 DEF ProcInv

LEMMA ProcTypesStep == ProcTypes /\ [EditorProcsNext]_procVars => ProcTypes'
  <1> SUFFICES ASSUME ProcTypes, EditorProcsNext \/ UNCHANGED procVars PROVE ProcTypes'
    OBVIOUS
  <1> USE DEF ProcTypes, childVars, tableVars
  <1>1. ASSUME NEW h \in Hosts, Activate(h) PROVE ProcTypes'
    BY <1>1 DEF Activate
  <1>2. ASSUME NEW h \in Hosts, ReapOrphans(h) PROVE ProcTypes'
    <2>1. PICK heard :
             /\ leader' = [c \in Children |-> IF c \in heard THEN "gone" ELSE leader[c]]
             /\ rest' = [c \in Children |-> IF c \in heard THEN "gone" ELSE rest[c]]
      BY <1>2 DEF ReapOrphans
    <2>2. inheritedRecs' \in [Hosts -> SUBSET (Hosts \X Children)]
      BY <1>2 DEF ReapOrphans
    <2>3. host' = [host EXCEPT ![h] = "up"]
          /\ UNCHANGED <<childOf, stranger, grace, current, inherited, toRead, toSettle, table>>
      BY <1>2 DEF ReapOrphans
    <2> QED BY <2>1, <2>2, <2>3
  <1>3. ASSUME NEW h \in Hosts, EscalateOrphans(h) PROVE ProcTypes'
    BY <1>3 DEF EscalateOrphans
  <1>4. ASSUME NEW h \in Hosts, WriteToDisk(h) PROVE ProcTypes'
    <2>1. toSettle' \in [Hosts -> SUBSET (Hosts \X (SUBSET Children))]
      <3> DEFINE left(f) == {r[2] : r \in {q \in inheritedRecs[h] : q[1] = f}}
      <3>1. \A f \in inherited[h] : f \in Hosts /\ left(f) \in SUBSET Children
        OBVIOUS
      <3>2. toSettle' = [toSettle EXCEPT ![h] = {<<f, left(f)>> : f \in inherited[h]}]
        BY <1>4 DEF WriteToDisk
      <3> HIDE DEF left
      <3>3. {<<f, left(f)>> : f \in inherited[h]} \in SUBSET (Hosts \X (SUBSET Children))
        BY <3>1
      <3> QED BY <3>2, <3>3
    <2>2. table' = [table EXCEPT ![h] = current[h]]
          /\ UNCHANGED <<host, childOf, leader, rest, stranger, grace, current, inheritedRecs,
                         inherited, toRead>>
      BY <1>4 DEF WriteToDisk
    <2> QED BY <2>1, <2>2
  <1>5. ASSUME NEW h \in Hosts, HostDies(h) PROVE ProcTypes'
    BY <1>5 DEF HostDies
  <1>6. ASSUME NEW h \in Hosts, NEW c \in Children, Spawn(h, c) PROVE ProcTypes'
    BY <1>6 DEF Spawn
  <1>7. ASSUME NEW h \in Hosts, NEW c \in Children, Terminate(h, c) PROVE ProcTypes'
    BY <1>7 DEF Terminate, TermHeard
  <1>8. ASSUME NEW c \in Children, ProcessEnds(c) PROVE ProcTypes'
    BY <1>8 DEF ProcessEnds
  <1>9. ASSUME NEW c \in Children, PidReused(c) PROVE ProcTypes'
    BY <1>9 DEF PidReused
  <1>10. ASSUME NEW c \in Children, SettleExit(c) PROVE ProcTypes'
    BY <1>10 DEF SettleExit
  <1>11. ASSUME NEW c \in Children, GraceOver(c) PROVE ProcTypes'
    BY <1>11 DEF GraceOver, Killed
  <1>12. ASSUME NEW h \in Hosts, NEW f \in Hosts, LoadFile(h, f) PROVE ProcTypes'
    <2>1. table' \in [Hosts -> (SUBSET Children) \cup {Absent}]
      BY <1>12 DEF LoadFile
    <2>2. inheritedRecs' \in [Hosts -> SUBSET (Hosts \X Children)]
      BY <1>12 DEF LoadFile
    <2>3. inherited' \in [Hosts -> SUBSET Hosts] /\ toRead' \in [Hosts -> SUBSET Hosts]
      BY <1>12 DEF LoadFile
    <2>4. UNCHANGED <<host, childOf, leader, rest, stranger, grace, current, toSettle>>
      BY <1>12 DEF LoadFile
    <2> QED BY <2>1, <2>2, <2>3, <2>4
  <1>13. ASSUME NEW h \in Hosts, NEW f \in Hosts, NEW left \in SUBSET Children,
                ReconcileInherited(h, f, left)
         PROVE  ProcTypes'
    BY <1>13 DEF ReconcileInherited
  <1>14. CASE UNCHANGED procVars
    BY <1>14 DEF procVars
  <1> QED BY <1>1, <1>2, <1>3, <1>4, <1>5, <1>6, <1>7, <1>8, <1>9, <1>10, <1>11, <1>12, <1>13, <1>14
          DEF EditorProcsNext

LEMMA PidsStep == ProcInv /\ [EditorProcsNext]_procVars => PidsTell'
  <1> SUFFICES ASSUME ProcInv, EditorProcsNext \/ UNCHANGED procVars PROVE PidsTell'
    OBVIOUS
  <1> USE DEF ProcInv, ProcTypes, PidsTell, childVars, tableVars, Up
  <1>1. ASSUME NEW h \in Hosts, Activate(h) PROVE PidsTell'
    BY <1>1 DEF Activate
  <1>2. ASSUME NEW h \in Hosts, ReapOrphans(h) PROVE PidsTell'
    <2>1. PICK heard :
             /\ heard \subseteq {r[2] : r \in {q \in inheritedRecs[h] : Identify(q[2])}}
             /\ leader' = [c \in Children |-> IF c \in heard THEN "gone" ELSE leader[c]]
             /\ rest' = [c \in Children |-> IF c \in heard THEN "gone" ELSE rest[c]]
      BY <1>2 DEF ReapOrphans
    <2>2. \A c \in heard : leader[c] = "runs"
      BY <2>1 DEF Identify
    <2>3. /\ host' = [host EXCEPT ![h] = "up"] /\ host[h] = "loading"
          /\ UNCHANGED <<childOf, stranger, grace, exited>>
      BY <1>2 DEF ReapOrphans
    <2> QED BY <2>1, <2>2, <2>3
  <1>3. ASSUME NEW h \in Hosts, EscalateOrphans(h) PROVE PidsTell'
    <2>1. PICK shot :
             /\ shot = {r[2] : r \in {q \in inheritedRecs[h] : Identify(q[2])}}
             /\ leader' = [c \in Children |-> IF c \in shot THEN "gone" ELSE leader[c]]
             /\ rest' = [c \in Children |-> IF c \in shot THEN "gone" ELSE rest[c]]
      BY <1>3 DEF EscalateOrphans
    <2>2. \A c \in shot : leader[c] = "runs"
      BY <2>1 DEF Identify
    <2>3. UNCHANGED <<host, childOf, stranger, grace, exited>>
      BY <1>3 DEF EscalateOrphans
    <2> QED BY <2>1, <2>2, <2>3
  <1>4. ASSUME NEW h \in Hosts, WriteToDisk(h) PROVE PidsTell'
    BY <1>4 DEF WriteToDisk
  <1>5. ASSUME NEW h \in Hosts, HostDies(h) PROVE PidsTell'
    BY <1>5 DEF HostDies
  <1>6. ASSUME NEW h \in Hosts, NEW c \in Children, Spawn(h, c) PROVE PidsTell'
    BY <1>6, ProcsAssumption DEF Spawn, NoOne
  <1>7. ASSUME NEW h \in Hosts, NEW c \in Children, Terminate(h, c) PROVE PidsTell'
    BY <1>7, ProcsAssumption DEF Terminate, TermHeard, NoOne
  <1>8. ASSUME NEW c \in Children, ProcessEnds(c) PROVE PidsTell'
    BY <1>8 DEF ProcessEnds
  <1>9. ASSUME NEW c \in Children, PidReused(c) PROVE PidsTell'
    BY <1>9, ProcsAssumption DEF PidReused, NoOne
  <1>10. ASSUME NEW c \in Children, SettleExit(c) PROVE PidsTell'
    BY <1>10 DEF SettleExit
  <1>11. ASSUME NEW c \in Children, GraceOver(c) PROVE PidsTell'
    BY <1>11 DEF GraceOver, Killed
  <1>12. ASSUME NEW h \in Hosts, NEW f \in Hosts, LoadFile(h, f) PROVE PidsTell'
    BY <1>12 DEF LoadFile
  <1>13. ASSUME NEW h \in Hosts, NEW f \in Hosts, NEW left \in SUBSET Children,
                ReconcileInherited(h, f, left)
         PROVE  PidsTell'
    BY <1>13 DEF ReconcileInherited
  <1>14. CASE UNCHANGED procVars
    BY <1>14 DEF procVars
  <1> QED BY <1>1, <1>2, <1>3, <1>4, <1>5, <1>6, <1>7, <1>8, <1>9, <1>10, <1>11, <1>12, <1>13, <1>14
          DEF EditorProcsNext

\* The children that run were running, and none of them changes its host.
LEMMA RunningStays ==
    ASSUME ProcInv, EditorProcsNext \/ UNCHANGED procVars
    PROVE  /\ \A c \in Children : childOf[c] # NoOne => childOf'[c] = childOf[c]
           /\ \A c \in Children : childOf[c] # NoOne /\ leader'[c] = "runs" => leader[c] = "runs"
           /\ \A h \in Hosts : host[h] = "dead" => host'[h] = "dead"
  <1> DEFINE Onward ==
               /\ \A c \in Children : childOf[c] # NoOne => childOf'[c] = childOf[c]
               /\ \A c \in Children : childOf[c] # NoOne /\ leader'[c] = "runs" => leader[c] = "runs"
               /\ \A h \in Hosts : host[h] = "dead" => host'[h] = "dead"
  <1> USE DEF ProcInv, ProcTypes, PidsTell, childVars, Up
  <1>1. ASSUME NEW h \in Hosts, Activate(h) \/ WriteToDisk(h) \/ HostDies(h) PROVE Onward
    BY <1>1 DEF Activate, WriteToDisk, HostDies
  <1>2. ASSUME NEW h \in Hosts, ReapOrphans(h) PROVE Onward
    <2>1. PICK heard : leader' = [d \in Children |-> IF d \in heard THEN "gone" ELSE leader[d]]
      BY <1>2 DEF ReapOrphans
    <2>2. host' = [host EXCEPT ![h] = "up"] /\ host[h] = "loading" /\ UNCHANGED childOf
      BY <1>2 DEF ReapOrphans
    <2> QED BY <2>1, <2>2
  <1>3. ASSUME NEW h \in Hosts, EscalateOrphans(h) PROVE Onward
    <2>1. PICK shot : leader' = [d \in Children |-> IF d \in shot THEN "gone" ELSE leader[d]]
      BY <1>3 DEF EscalateOrphans
    <2>2. UNCHANGED <<host, childOf>>
      BY <1>3 DEF EscalateOrphans
    <2> QED BY <2>1, <2>2
  <1>4. ASSUME NEW h \in Hosts, NEW d \in Children, Spawn(h, d) \/ Terminate(h, d) PROVE Onward
    BY <1>4 DEF Spawn, Terminate, TermHeard
  <1>5. ASSUME NEW d \in Children, ProcessEnds(d) \/ PidReused(d) \/ SettleExit(d) \/ GraceOver(d)
        PROVE  Onward
    BY <1>5 DEF ProcessEnds, PidReused, SettleExit, GraceOver, Killed
  <1>6. ASSUME NEW h \in Hosts, NEW f \in Hosts, LoadFile(h, f) PROVE Onward
    BY <1>6 DEF LoadFile
  <1>7. ASSUME NEW h \in Hosts, NEW f \in Hosts, NEW left \in SUBSET Children,
               ReconcileInherited(h, f, left)
        PROVE  Onward
    BY <1>7 DEF ReconcileInherited
  <1>8. CASE UNCHANGED procVars
    BY <1>8 DEF procVars
  <1> QED BY <1>1, <1>2, <1>3, <1>4, <1>5, <1>6, <1>7, <1>8 DEF EditorProcsNext

\* A step that takes records away keeps what they tell, if the tables still
\* name the same running children and what is inherited still has them.
LEMMA RecordsShrink ==
    ASSUME ProcInv, EditorProcsNext \/ UNCHANGED procVars,
           \A h \in Hosts : \A c \in current'[h] : c \in current[h],
           \A h, f \in Hosts : f \in inherited'[h] => f \in inherited[h],
           \A h, f \in Hosts, c \in Children :
              <<f, c>> \in inheritedRecs'[h] => <<f, c>> \in inheritedRecs[h],
           \A h, f \in Hosts, left \in SUBSET Children :
              <<f, left>> \in toSettle'[h] => <<f, left>> \in toSettle[h],
           \A h \in Hosts, c \in Children : c \in table'[h] => childOf[c] = h,
           \A h \in Hosts : host'[h] = "no" => table'[h] = Absent,
           \A h \in Hosts, c \in Children :
              leader'[c] = "runs" => (c \in table'[h] <=> c \in table[h]),
           \A h, f \in Hosts, c \in Children :
              leader'[c] = "runs" /\ f \in inherited'[h] /\ <<f, c>> \in inheritedRecs[h]
                 => <<f, c>> \in inheritedRecs'[h]
    PROVE  RecordsTell' /\ OrphansTell'
  <1>1. /\ \A c \in Children : childOf[c] # NoOne => childOf'[c] = childOf[c]
        /\ \A c \in Children : childOf[c] # NoOne /\ leader'[c] = "runs" => leader[c] = "runs"
        /\ \A h \in Hosts : host[h] = "dead" => host'[h] = "dead"
    BY RunningStays
  <1>2. \A h \in Hosts : h # NoOne
    BY ProcsAssumption DEF NoOne
  <1>3. \A h \in Hosts : current[h] \subseteq Children
    BY DEF ProcInv, ProcTypes
  <1>4. TablesAreOwn /\ InheritedIsDead /\ SettledIsDead
    BY DEF ProcInv, RecordsTell
  <1>5. HeldIsRecorded /\ RecordedIsHeld /\ SettledIsRecorded
    BY DEF ProcInv, OrphansTell
  <1>6. TablesAreOwn'
    BY <1>1, <1>2, <1>3, <1>4 DEF TablesAreOwn
  <1>7. InheritedIsDead'
    BY <1>1, <1>2, <1>4 DEF InheritedIsDead
  <1>8. SettledIsDead'
    BY <1>1, <1>2, <1>4 DEF SettledIsDead
  <1>9. HeldIsRecorded'
    BY <1>1, <1>2, <1>4, <1>5 DEF HeldIsRecorded, InheritedIsDead
  <1>10. RecordedIsHeld'
    <2> SUFFICES ASSUME NEW h \in Hosts, NEW f \in Hosts, NEW c \in Children,
                        leader'[c] = "runs", f \in inherited'[h], c \in table'[f]
                 PROVE  <<f, c>> \in inheritedRecs'[h]
      BY DEF RecordedIsHeld
    <2>1. f \in inherited[h] /\ c \in table[f] /\ childOf[c] # NoOne
      BY <1>2, <1>4
    <2>2. leader[c] = "runs"
      BY <1>1, <2>1
    <2> QED BY <1>5, <2>1, <2>2 DEF RecordedIsHeld
  <1>11. SettledIsRecorded'
    <2> SUFFICES ASSUME NEW h \in Hosts, NEW f \in Hosts, NEW left \in SUBSET Children,
                        NEW c \in Children, leader'[c] = "runs", <<f, left>> \in toSettle'[h]
                 PROVE  c \in left <=> c \in table'[f]
      BY DEF SettledIsRecorded
    <2>1. <<f, left>> \in toSettle[h] /\ (c \in table'[f] <=> c \in table[f])
      OBVIOUS
    <2>2. c \in left \/ c \in table'[f] => childOf[c] # NoOne
      BY <1>2, <1>4, <2>1 DEF SettledIsDead
    <2>3. c \in left \/ c \in table'[f] => leader[c] = "runs"
      BY <1>1, <2>2
    <2>4. leader[c] = "runs" => (c \in left <=> c \in table[f])
      BY <1>5, <2>1 DEF SettledIsRecorded
    <2> QED BY <2>1, <2>3, <2>4
  <1> QED BY <1>6, <1>7, <1>8, <1>9, <1>10, <1>11 DEF RecordsTell, OrphansTell

LEMMA RecordsStep == ProcInv /\ [EditorProcsNext]_procVars => RecordsTell' /\ OrphansTell'
  <1> SUFFICES ASSUME ProcInv, EditorProcsNext \/ UNCHANGED procVars
               PROVE  RecordsTell' /\ OrphansTell'
    OBVIOUS
  <1> DEFINE Told == RecordsTell' /\ OrphansTell'
  <1> USE DEF childVars, tableVars
  <1>1. ProcTypes /\ TablesAreOwn /\ InheritedIsDead /\ SettledIsDead
        /\ HeldIsRecorded /\ RecordedIsHeld /\ SettledIsRecorded
    BY DEF ProcInv, RecordsTell, OrphansTell
  <1>2. \A h \in Hosts : h # NoOne
    BY ProcsAssumption DEF NoOne
  <1>3. ASSUME UNCHANGED <<table, inherited, inheritedRecs, toSettle>>,
               \A h \in Hosts : \A c \in current'[h] : c \in current[h],
               \A h \in Hosts : host'[h] = "no" => host[h] = "no"
        PROVE  Told
    <2>1. table' = table /\ inherited' = inherited /\ inheritedRecs' = inheritedRecs
          /\ toSettle' = toSettle
      BY <1>3
    <2>2. \A h \in Hosts, c \in Children : c \in table'[h] => childOf[c] = h
      BY <1>1, <2>1 DEF TablesAreOwn
    <2>3. \A h \in Hosts : host'[h] = "no" => table'[h] = Absent
      BY <1>1, <1>3, <2>1 DEF TablesAreOwn
    <2> QED BY <1>3, <2>1, <2>2, <2>3, RecordsShrink
  <1>4. ASSUME NEW h \in Hosts, Activate(h) PROVE Told
    <2>1. UNCHANGED <<current, table, inherited, inheritedRecs, toSettle>>
          /\ \A g \in Hosts : host'[g] = "no" => host[g] = "no"
      BY <1>1, <1>4 DEF Activate, ProcTypes
    <2> QED BY <1>3, <2>1
  <1>5. ASSUME NEW h \in Hosts, ReapOrphans(h) PROVE Told
    <2>1. /\ inheritedRecs' = [inheritedRecs EXCEPT ![h] = {r \in inheritedRecs[h] : Identify(r[2])}]
          /\ UNCHANGED <<current, inherited, toSettle, table>>
          /\ host' = [host EXCEPT ![h] = "up"]
      BY <1>5 DEF ReapOrphans
    <2>2. \A g, f \in Hosts, c \in Children :
             /\ <<f, c>> \in inheritedRecs'[g] => <<f, c>> \in inheritedRecs[g]
             /\ <<f, c>> \in inheritedRecs[g] /\ leader[c] = "runs" => <<f, c>> \in inheritedRecs'[g]
      BY <1>1, <2>1 DEF Identify, ProcTypes
    <2>3. \A g, f \in Hosts, c \in Children :
             leader'[c] = "runs" /\ <<f, c>> \in inheritedRecs[g] => leader[c] = "runs"
      BY <1>1, <1>2, RunningStays DEF InheritedIsDead
    <2>4. \A g \in Hosts : host'[g] = "no" => table'[g] = Absent
      BY <1>1, <2>1 DEF TablesAreOwn, ProcTypes
    <2>5. \A g \in Hosts, c \in Children : c \in table'[g] => childOf[c] = g
      BY <1>1, <2>1 DEF TablesAreOwn
    <2> QED BY <2>1, <2>2, <2>3, <2>4, <2>5, RecordsShrink
  <1>6. ASSUME NEW h \in Hosts, EscalateOrphans(h) PROVE Told
    <2>1. /\ inheritedRecs' = [inheritedRecs EXCEPT ![h] = {}]
          /\ UNCHANGED <<host, current, inherited, toSettle, table>>
      BY <1>6 DEF EscalateOrphans
    <2>2. PICK shot :
             /\ shot = {r[2] : r \in {q \in inheritedRecs[h] : Identify(q[2])}}
             /\ leader' = [c \in Children |-> IF c \in shot THEN "gone" ELSE leader[c]]
      BY <1>6 DEF EscalateOrphans
    <2>3. \A f \in Hosts, c \in Children :
             <<f, c>> \in inheritedRecs[h] /\ leader[c] = "runs" => leader'[c] = "gone"
      <3> SUFFICES ASSUME NEW f \in Hosts, NEW c \in Children,
                          <<f, c>> \in inheritedRecs[h], leader[c] = "runs"
                   PROVE  c \in shot
        BY <2>2
      <3>1. <<f, c>>[2] = c /\ Identify(<<f, c>>[2])
        BY DEF Identify
      <3> QED BY <2>2, <3>1
    <2>4. inheritedRecs'[h] = {} /\ \A g \in Hosts : g # h => inheritedRecs'[g] = inheritedRecs[g]
      BY <1>1, <2>1 DEF ProcTypes
    <2>5. \A g, f \in Hosts, c \in Children :
             leader'[c] = "runs" /\ <<f, c>> \in inheritedRecs[g] => leader[c] = "runs"
      BY <1>1, <1>2, RunningStays DEF InheritedIsDead
    <2>6. \A g, f \in Hosts, c \in Children :
             leader'[c] = "runs" /\ <<f, c>> \in inheritedRecs[g] => <<f, c>> \in inheritedRecs'[g]
      BY <2>3, <2>4, <2>5
    <2>7. \A g, f \in Hosts, c \in Children :
             <<f, c>> \in inheritedRecs'[g] => <<f, c>> \in inheritedRecs[g]
      BY <2>4
    <2>8. \A g \in Hosts : host'[g] = "no" => table'[g] = Absent
      BY <1>1, <2>1 DEF TablesAreOwn
    <2>9. \A g \in Hosts, c \in Children : c \in table'[g] => childOf[c] = g
      BY <1>1, <2>1 DEF TablesAreOwn
    <2> QED BY <2>1, <2>6, <2>7, <2>8, <2>9, RecordsShrink
  <1>7. ASSUME NEW h \in Hosts, HostDies(h) PROVE Told
    <2>1. /\ current' = [current EXCEPT ![h] = {}] /\ inheritedRecs' = [inheritedRecs EXCEPT ![h] = {}]
          /\ inherited' = [inherited EXCEPT ![h] = {}] /\ toSettle' = [toSettle EXCEPT ![h] = {}]
          /\ UNCHANGED <<childOf, leader, table>> /\ host' = [host EXCEPT ![h] = "dead"]
      BY <1>7 DEF HostDies
    <2>2. \A g \in Hosts :
             /\ current'[g] = IF g = h THEN {} ELSE current[g]
             /\ inherited'[g] = IF g = h THEN {} ELSE inherited[g]
             /\ inheritedRecs'[g] = IF g = h THEN {} ELSE inheritedRecs[g]
             /\ toSettle'[g] = IF g = h THEN {} ELSE toSettle[g]
      BY <1>1, <2>1 DEF ProcTypes
    <2>3. \A g \in Hosts : host'[g] = "no" => table'[g] = Absent
      BY <1>1, <2>1 DEF TablesAreOwn, ProcTypes
    <2>4. \A g \in Hosts, c \in Children : c \in table'[g] => childOf[c] = g
      BY <1>1, <2>1 DEF TablesAreOwn
    <2> QED BY <2>1, <2>2, <2>3, <2>4, RecordsShrink
  <1>8. CASE (\E h \in Hosts, c \in Children : Terminate(h, c))
             \/ \E c \in Children : ProcessEnds(c) \/ PidReused(c) \/ GraceOver(c)
    <2>1. UNCHANGED <<host, current, table, inherited, inheritedRecs, toSettle>>
      BY <1>8 DEF Terminate, ProcessEnds, PidReused, GraceOver
    <2> QED BY <1>3, <2>1
  <1>9. ASSUME NEW c \in Children, SettleExit(c) PROVE Told
    <2>1. /\ \A h \in Hosts : \A d \in current'[h] : d \in current[h]
          /\ UNCHANGED <<host, table, inherited, inheritedRecs, toSettle>>
      BY <1>1, <1>9 DEF SettleExit, ProcTypes
    <2> QED BY <1>3, <2>1
  <1>10. CASE UNCHANGED procVars
    <2>1. UNCHANGED <<host, current, table, inherited, inheritedRecs, toSettle>>
      BY <1>10 DEF procVars
    <2> QED BY <1>3, <2>1
  <1>11. ASSUME NEW h \in Hosts, NEW c \in Children, Spawn(h, c) PROVE Told
    <2>1. /\ leader' = [leader EXCEPT ![c] = "runs"] /\ childOf' = [childOf EXCEPT ![c] = h]
          /\ current' = [current EXCEPT ![h] = @ \cup {c}] /\ childOf[c] = NoOne
          /\ UNCHANGED <<host, table, inherited, inheritedRecs, toSettle>>
      BY <1>11 DEF Spawn, PidsTell, ProcInv
    <2>2. \A f \in Hosts : c \notin table[f] /\ c \notin current[f]
      BY <1>1, <1>2, <2>1 DEF TablesAreOwn
    <2>3. \A f, g \in Hosts : <<f, c>> \notin inheritedRecs[g]
      BY <1>1, <1>2, <2>1 DEF InheritedIsDead
    <2>4. \A g, f \in Hosts, left \in SUBSET Children : <<f, left>> \in toSettle[g] => c \notin left
      BY <1>1, <1>2, <2>1 DEF SettledIsDead
    <2>5. \A d \in Children : d # c => childOf'[d] = childOf[d] /\ leader'[d] = leader[d]
      BY <1>1, <2>1 DEF ProcTypes
    <2>6. TablesAreOwn'
      BY <1>1, <2>1, <2>2, <2>5 DEF TablesAreOwn, ProcTypes
    <2>7. InheritedIsDead'
      BY <1>1, <2>1, <2>3, <2>5 DEF InheritedIsDead
    <2>8. SettledIsDead'
      BY <1>1, <2>1, <2>4, <2>5 DEF SettledIsDead
    <2>9. HeldIsRecorded'
      BY <1>1, <2>1, <2>3, <2>5 DEF HeldIsRecorded
    <2>10. RecordedIsHeld'
      BY <1>1, <2>1, <2>2, <2>5 DEF RecordedIsHeld
    <2>11. SettledIsRecorded'
      BY <1>1, <2>1, <2>2, <2>4, <2>5 DEF SettledIsRecorded
    <2> QED BY <2>6, <2>7, <2>8, <2>9, <2>10, <2>11 DEF RecordsTell, OrphansTell
  <1>12. ASSUME NEW h \in Hosts, WriteToDisk(h) PROVE Told
    <2> DEFINE left(f) == {r[2] : r \in {q \in inheritedRecs[h] : q[1] = f}}
    <2>1. /\ table' = [table EXCEPT ![h] = current[h]] /\ host[h] \in {"loading", "up"}
          /\ UNCHANGED <<host, childOf, leader, current, inherited, inheritedRecs>>
          /\ toSettle' = [toSettle EXCEPT ![h] = {<<f, left(f)>> : f \in inherited[h]}]
      BY <1>12 DEF WriteToDisk, Up
    <2>2. \A f \in Hosts, c \in Children : c \in left(f) <=> <<f, c>> \in inheritedRecs[h]
      <3> SUFFICES ASSUME NEW f \in Hosts, NEW c \in Children
                   PROVE  c \in left(f) <=> <<f, c>> \in inheritedRecs[h]
        OBVIOUS
      <3>1. ASSUME c \in left(f) PROVE <<f, c>> \in inheritedRecs[h]
        <4>1. PICK r \in inheritedRecs[h] : r[1] = f /\ r[2] = c
          BY <3>1
        <4>2. r = <<f, c>>
          BY <1>1, <4>1 DEF ProcTypes
        <4> QED BY <4>1, <4>2
      <3>2. ASSUME <<f, c>> \in inheritedRecs[h] PROVE c \in left(f)
        <4>1. <<f, c>>[1] = f /\ <<f, c>>[2] = c
          OBVIOUS
        <4> QED BY <3>2, <4>1
      <3> QED BY <3>1, <3>2
    <2> HIDE DEF left
    <2>3. \A f \in Hosts, rem \in SUBSET Children :
             <<f, rem>> \in toSettle'[h] => f \in inherited[h] /\ rem = left(f)
      BY <1>1, <2>1 DEF ProcTypes
    <2>4. \A g \in Hosts : g # h => toSettle'[g] = toSettle[g] /\ table'[g] = table[g]
      BY <1>1, <2>1 DEF ProcTypes
    <2>5. table'[h] = current[h]
      BY <1>1, <2>1 DEF ProcTypes
    <2>6. \A g, f \in Hosts : f \in inherited[g] => f # h
      BY <1>1, <2>1 DEF InheritedIsDead
    <2>7. \A g, f \in Hosts, c \in Children : <<f, c>> \in inheritedRecs[g] => f # h
      BY <1>1, <2>1 DEF InheritedIsDead
    <2>8. \A g, f \in Hosts, rem \in SUBSET Children : <<f, rem>> \in toSettle[g] => f # h
      BY <1>1, <2>1 DEF SettledIsDead
    <2>9. TablesAreOwn'
      <3>1. \A g \in Hosts, c \in Children : c \in table'[g] => childOf[c] = g
        BY <1>1, <2>4, <2>5 DEF TablesAreOwn
      <3>2. \A g \in Hosts : host[g] = "no" => table'[g] = Absent
        BY <1>1, <2>1, <2>4 DEF TablesAreOwn
      <3> QED BY <1>1, <2>1, <3>1, <3>2 DEF TablesAreOwn
    <2>10. InheritedIsDead'
      BY <1>1, <2>1 DEF InheritedIsDead
    <2>11. SettledIsDead'
      <3>1. ASSUME NEW g \in Hosts, NEW f \in Hosts, NEW rem \in SUBSET Children,
                   <<f, rem>> \in toSettle'[g]
            PROVE  host[f] = "dead" /\ \A c \in Children : c \in rem => childOf[c] = f
        <4>1. CASE g = h
          <5>1. f \in inherited[h] /\ rem = left(f)
            BY <2>3, <3>1, <4>1
          <5>2. \A c \in Children : c \in rem => <<f, c>> \in inheritedRecs[h]
            BY <2>2, <5>1
          <5> QED BY <1>1, <5>1, <5>2 DEF InheritedIsDead
        <4>2. CASE g # h
          BY <1>1, <2>4, <3>1, <4>2 DEF SettledIsDead
        <4> QED BY <4>1, <4>2
      <3> QED BY <2>1, <3>1 DEF SettledIsDead
    <2>12. HeldIsRecorded'
      BY <1>1, <2>1, <2>4, <2>7 DEF HeldIsRecorded
    <2>13. RecordedIsHeld'
      BY <1>1, <2>1, <2>4, <2>6 DEF RecordedIsHeld
    <2>14. SettledIsRecorded'
      <3>1. ASSUME NEW g \in Hosts, NEW f \in Hosts, NEW rem \in SUBSET Children, NEW c \in Children,
                   leader[c] = "runs", <<f, rem>> \in toSettle'[g]
            PROVE  c \in rem <=> c \in table'[f]
        <4>1. CASE g = h
          <5>1. f \in inherited[h] /\ (c \in rem <=> <<f, c>> \in inheritedRecs[h])
            BY <2>2, <2>3, <3>1, <4>1
          <5>2. <<f, c>> \in inheritedRecs[h] <=> c \in table[f]
            BY <1>1, <3>1, <5>1 DEF HeldIsRecorded, RecordedIsHeld
          <5> QED BY <2>4, <2>6, <5>1, <5>2
        <4>2. CASE g # h
          BY <1>1, <2>4, <2>8, <3>1, <4>2 DEF SettledIsRecorded
        <4> QED BY <4>1, <4>2
      <3> QED BY <2>1, <3>1 DEF SettledIsRecorded
    <2> QED BY <2>9, <2>10, <2>11, <2>12, <2>13, <2>14 DEF RecordsTell, OrphansTell
  <1>13. ASSUME NEW h \in Hosts, NEW f \in Hosts, LoadFile(h, f) PROVE Told
    <2>1. UNCHANGED <<host, childOf, leader, current, toSettle>>
      BY <1>13 DEF LoadFile
    <2>2. CASE table[f] = Absent \/ Up(f)
      <3>1. UNCHANGED <<table, inherited, inheritedRecs>>
        BY <1>13, <2>2 DEF LoadFile
      <3> QED BY <1>3, <2>1, <3>1
    <2>3. CASE table[f] = {} /\ table[f] # Absent /\ ~Up(f)
      <3>1. UNCHANGED <<inherited, inheritedRecs>> /\ table' = [table EXCEPT ![f] = Absent]
        BY <1>13, <2>3 DEF LoadFile
      <3>2. \A c \in Children, g \in Hosts : c \in table'[g] <=> c \in table[g]
        BY <1>1, <2>3, <3>1, ProcsAssumption DEF ProcTypes, Absent
      <3>3. \A g \in Hosts, c \in Children : c \in table'[g] => childOf[c] = g
        BY <1>1, <3>2 DEF TablesAreOwn
      <3>4. \A g \in Hosts : host'[g] = "no" => table'[g] = Absent
        BY <1>1, <2>1, <3>1 DEF TablesAreOwn, ProcTypes
      <3> QED BY <2>1, <3>1, <3>2, <3>3, <3>4, RecordsShrink
    <2>4. CASE table[f] # {} /\ table[f] # Absent /\ ~Up(f)
      <3>1. /\ inherited' = [inherited EXCEPT ![h] = @ \cup {f}] /\ UNCHANGED table
            /\ inheritedRecs' = [inheritedRecs EXCEPT ![h] = @ \cup ({f} \X table[f])]
        BY <1>13, <2>4 DEF LoadFile
      <3>2. host[f] = "dead"
        BY <1>1, <2>4 DEF TablesAreOwn, ProcTypes, Up
      <3>3. \A g, e \in Hosts, c \in Children :
               <<e, c>> \in inheritedRecs'[g] <=>
                  <<e, c>> \in inheritedRecs[g] \/ (g = h /\ e = f /\ c \in table[f])
        BY <1>1, <3>1 DEF ProcTypes
      <3>4. \A g, e \in Hosts : e \in inherited'[g] <=> e \in inherited[g] \/ (g = h /\ e = f)
        BY <1>1, <3>1 DEF ProcTypes
      <3>5. TablesAreOwn' /\ SettledIsDead' /\ SettledIsRecorded'
        BY <1>1, <2>1, <3>1 DEF TablesAreOwn, SettledIsDead, SettledIsRecorded
      <3>6. InheritedIsDead'
        BY <1>1, <2>1, <3>2, <3>3, <3>4 DEF InheritedIsDead, TablesAreOwn
      <3>7. HeldIsRecorded'
        BY <1>1, <2>1, <3>1, <3>3 DEF HeldIsRecorded
      <3>8. RecordedIsHeld'
        BY <1>1, <2>1, <3>1, <3>3, <3>4 DEF RecordedIsHeld
      <3> QED BY <3>5, <3>6, <3>7, <3>8 DEF RecordsTell, OrphansTell
    <2> QED BY <2>2, <2>3, <2>4
  <1>14. ASSUME NEW h \in Hosts, NEW f \in Hosts, NEW left \in SUBSET Children,
                ReconcileInherited(h, f, left)
         PROVE  Told
    <2>1. /\ toSettle' = [toSettle EXCEPT ![h] = @ \ {<<f, left>>}] /\ <<f, left>> \in toSettle[h]
          /\ UNCHANGED <<host, childOf, leader, current, inheritedRecs>>
          /\ \/ left = {} /\ table' = [table EXCEPT ![f] = Absent]
             \/ UNCHANGED table
             \/ table' = [table EXCEPT ![f] = left]
          /\ inherited' \in {inherited, [inherited EXCEPT ![h] = @ \ {f}]}
      BY <1>14 DEF ReconcileInherited
    <2>2. host[f] = "dead" /\ \A c \in left : childOf[c] = f
      BY <1>1, <2>1 DEF SettledIsDead
    <2>3. \A c \in Children : leader[c] = "runs" => (c \in left <=> c \in table[f])
      BY <1>1, <2>1 DEF SettledIsRecorded
    <2>4. \A c \in Children, g \in Hosts :
             c \in table'[g] => c \in table[g] \/ (g = f /\ c \in left)
      BY <1>1, <2>1, ProcsAssumption DEF ProcTypes, Absent
    <2>5. \A c \in Children, g \in Hosts : leader[c] = "runs" => (c \in table'[g] <=> c \in table[g])
      BY <1>1, <2>1, <2>3, ProcsAssumption DEF ProcTypes, Absent
    <2>6. /\ \A g \in Hosts : inherited'[g] \subseteq inherited[g]
          /\ \A g \in Hosts : toSettle'[g] \subseteq toSettle[g]
          /\ \A g \in Hosts : g # f => table'[g] = table[g]
      BY <1>1, <2>1 DEF ProcTypes
    <2>7. \A g \in Hosts, c \in Children : c \in table'[g] => childOf[c] = g
      BY <1>1, <2>2, <2>4 DEF TablesAreOwn
    <2>8. \A g \in Hosts : host'[g] = "no" => table'[g] = Absent
      BY <1>1, <2>1, <2>2, <2>6 DEF TablesAreOwn
    <2> QED BY <2>1, <2>5, <2>6, <2>7, <2>8, RecordsShrink
  <1> QED
    BY <1>4, <1>5, <1>6, <1>7, <1>8, <1>9, <1>10, <1>11, <1>12, <1>13, <1>14 DEF EditorProcsNext

\* Whose processes a signal reached: its sender's own children, or those of a
\* session whose host is dead.
LEMMA SignalsStep == ProcInv /\ [EditorProcsNext]_procVars => OnlyOwnAreSignalled'
  <1> SUFFICES ASSUME ProcInv, EditorProcsNext \/ UNCHANGED procVars PROVE OnlyOwnAreSignalled'
    OBVIOUS
  <1> DEFINE Fair(s) == s[3] # "stranger" /\ (s[3] \in Hosts \ {s[1]} => host[s[3]] = "dead")
  <1> USE DEF childVars, tableVars
  <1>1. ProcTypes /\ PidsTell /\ InheritedIsDead /\ OnlyOwnAreSignalled
    BY DEF ProcInv, RecordsTell
  <1>2. \A h \in Hosts : host[h] = "dead" => host'[h] = "dead"
    BY RunningStays
  <1>3. ASSUME \A s \in hits' : s \in hits \/ Fair(s) PROVE OnlyOwnAreSignalled'
    <2> SUFFICES ASSUME NEW s \in hits'
                 PROVE  s[3] # "stranger" /\ (s[3] \in Hosts \ {s[1]} => host'[s[3]] = "dead")
      BY DEF OnlyOwnAreSignalled
    <2>1. Fair(s)
      BY <1>1, <1>3 DEF OnlyOwnAreSignalled
    <2>2. s[3] \in Hosts => (host[s[3]] = "dead" => host'[s[3]] = "dead")
      BY Zenon, <1>2
    <2> QED BY Zenon, <2>1, <2>2
  <1>4. CASE UNCHANGED hits
    BY <1>3, <1>4
  <1>5. \A c \in Children : leader[c] = "runs" =>
           childOf[c] \in Hosts /\ Reached(c) = childOf[c] /\ childOf[c] # "stranger"
    BY <1>1, ProcsAssumption DEF Reached, PidsTell, ProcTypes, NoOne
  <1>6. ASSUME NEW h \in Hosts, NEW c \in Children, childOf[c] = h, Up(h), c \notin exited
        PROVE  Reached(c) \in {h, NoOne}
    BY <1>1, <1>6 DEF Reached, PidsTell, Up
  <1>7. \A h \in Hosts : h # "stranger"
    BY ProcsAssumption
  <1>8. ASSUME NEW h \in Hosts, NEW c, NEW reached \in {h, NoOne}
         PROVE  \A s \in {<<h, c, reached>>} : Fair(s)
    <2>1. reached # "stranger" /\ reached \notin Hosts \ {h}
      BY <1>7, ProcsAssumption DEF NoOne
    <2>2. <<h, c, reached>>[3] = reached /\ <<h, c, reached>>[1] = h
      OBVIOUS
    <2> QED BY <2>1, <2>2
  <1>9. ASSUME NEW h \in Hosts, NEW c \in Children, Terminate(h, c) PROVE OnlyOwnAreSignalled'
    <2>1. hits' = hits \cup {<<h, c, Reached(c)>>} /\ Reached(c) \in {h, NoOne}
      BY <1>6, <1>9 DEF Terminate
    <2>2. \A s \in {<<h, c, Reached(c)>>} : Fair(s)
      BY <1>8, <2>1
    <2> QED BY <1>3, <2>1, <2>2
  <1>10. ASSUME NEW c \in Children, GraceOver(c) PROVE OnlyOwnAreSignalled'
    <2>1. CASE c \in exited
      BY <1>4, <1>10, <2>1 DEF GraceOver
    <2>2. CASE c \notin exited
      <3> DEFINE h == childOf[c]
      <3>1. h \in Hosts /\ Up(h) /\ hits' = hits \cup {<<h, c, Reached(c)>>}
        BY <1>1, <1>10, <2>2 DEF GraceOver, PidsTell, ProcTypes
      <3>2. Reached(c) \in {h, NoOne}
        BY <1>6, <2>2, <3>1
      <3>3. \A s \in {<<h, c, Reached(c)>>} : Fair(s)
        BY <1>8, <3>1, <3>2
      <3> QED BY <1>3, <3>1, <3>3
    <2> QED BY <2>1, <2>2
  <1>11. ASSUME NEW h \in Hosts, NEW heard,
                heard = {r[2] : r \in {q \in inheritedRecs[h] : Identify(q[2])}},
                hits' = hits \cup {<<h, c, Reached(c)>> : c \in heard}
         PROVE  OnlyOwnAreSignalled'
    <2>1. ASSUME NEW c \in heard PROVE Reached(c) # "stranger" /\ host[Reached(c)] = "dead"
      <3>1. PICK r \in inheritedRecs[h] : Identify(r[2]) /\ c = r[2]
        BY <1>11, <2>1
      <3>2. r = <<r[1], r[2]>> /\ r[1] \in Hosts /\ r[2] \in Children
        BY <1>1, <3>1 DEF ProcTypes
      <3>3. host[r[1]] = "dead" /\ childOf[c] = r[1]
        BY <1>1, <3>1, <3>2 DEF InheritedIsDead
      <3> QED BY <1>5, <3>1, <3>2, <3>3 DEF Identify
    <2>2. \A s \in {<<h, c, Reached(c)>> : c \in heard} : Fair(s)
      BY <2>1
    <2> QED BY <1>3, <1>11, <2>2
  <1>12. ASSUME NEW h \in Hosts, ReapOrphans(h) \/ EscalateOrphans(h) PROVE OnlyOwnAreSignalled'
    <2>1. hits' = hits \cup {<<h, c, Reached(c)>> :
                                c \in {r[2] : r \in {q \in inheritedRecs[h] : Identify(q[2])}}}
      BY <1>12 DEF ReapOrphans, EscalateOrphans
    <2> QED BY <1>11, <2>1
  <1>13. CASE \/ \E h \in Hosts : Activate(h) \/ WriteToDisk(h) \/ HostDies(h)
              \/ \E h \in Hosts, c \in Children : Spawn(h, c)
              \/ \E c \in Children : ProcessEnds(c) \/ PidReused(c) \/ SettleExit(c)
              \/ \E h, f \in Hosts : LoadFile(h, f)
              \/ \E h, f \in Hosts, left \in SUBSET Children : ReconcileInherited(h, f, left)
              \/ UNCHANGED procVars
    <2>1. UNCHANGED hits
      BY <1>13 DEF Activate, WriteToDisk, HostDies, Spawn, ProcessEnds, PidReused, SettleExit,
                   LoadFile, ReconcileInherited, procVars
    <2> QED BY <1>4, <2>1
  <1> QED BY <1>9, <1>10, <1>12, <1>13 DEF EditorProcsNext

LEMMA ProcInvHolds == EditorProcsSpec => []ProcInv
  <1>1. ProcInv /\ [EditorProcsNext]_procVars => ProcInv'
    BY ProcTypesStep, PidsStep, RecordsStep, SignalsStep DEF ProcInv
  <1> QED BY <1>1, ProcInit, PTL DEF EditorProcsSpec

\* For any sessions and children, however hosts die and pids are reused: no
\* signal of the extension reaches a stranger, nor a child of a session whose
\* host runs (ManagedChild.terminate, ProcessRegistry.reapOrphans).
THEOREM SignalsReachOwnOnly == EditorProcsSpec => []OnlyOwnAreSignalled
  BY ProcInvHolds, PTL DEF ProcInv

\* For any sessions and children: a recorded child whose host died stays in
\* some file until it is gone (ProcessRegistry.reconcileInherited).
THEOREM OrphansAreKeptOnRecord == EditorProcsSpec => OrphansStayOnRecord
  <1> DEFINE OnRecord ==
        \A c \in Children :
           /\ leader'[c] = "runs" /\ childOf[c] # NoOne /\ host[childOf[c]] = "dead"
           /\ \E f \in Hosts : table[f] # Absent /\ c \in table[f]
           => \E f \in Hosts : table'[f] # Absent /\ c \in table'[f]
  <1>1. ProcInv /\ [EditorProcsNext]_procVars => OnRecord
    <2> SUFFICES ASSUME ProcInv, EditorProcsNext \/ UNCHANGED procVars,
                        NEW c \in Children, leader'[c] = "runs", childOf[c] # NoOne,
                        host[childOf[c]] = "dead",
                        NEW f \in Hosts, table[f] # Absent, c \in table[f]
                 PROVE  table'[f] # Absent /\ c \in table'[f]
      OBVIOUS
    <2>1. ProcTypes /\ TablesAreOwn /\ SettledIsRecorded
      BY DEF ProcInv, RecordsTell, OrphansTell
    <2>2. leader[c] = "runs" /\ childOf[c] = f /\ host[f] = "dead"
      BY <2>1, RunningStays DEF TablesAreOwn
    <2>3. table[f] \in SUBSET Children
      BY <2>1 DEF ProcTypes
    <2>4. c # "absent"
      BY ProcsAssumption
    <2>5. ASSUME c \in table'[f] PROVE table'[f] # Absent
      BY <2>4, <2>5 DEF Absent
    <2>6. CASE UNCHANGED table
      BY <2>6
    <2>7. ASSUME NEW h \in Hosts, WriteToDisk(h) PROVE c \in table'[f]
      BY <2>1, <2>2, <2>7 DEF WriteToDisk, Up, ProcTypes
    <2>8. ASSUME NEW h \in Hosts, NEW g \in Hosts, LoadFile(h, g) PROVE c \in table'[f]
      BY <2>1, <2>8 DEF LoadFile, ProcTypes
    <2>9. ASSUME NEW h \in Hosts, NEW g \in Hosts, NEW left \in SUBSET Children,
                 ReconcileInherited(h, g, left)
          PROVE  c \in table'[f]
      <3>1. g = f => c \in left
        BY <2>1, <2>2, <2>9 DEF ReconcileInherited, SettledIsRecorded
      <3> QED BY <2>1, <2>9, <3>1 DEF ReconcileInherited, ProcTypes
    <2>10. CASE \/ \E h \in Hosts : Activate(h) \/ ReapOrphans(h) \/ EscalateOrphans(h) \/ HostDies(h)
                \/ \E h \in Hosts, d \in Children : Spawn(h, d) \/ Terminate(h, d)
                \/ \E d \in Children : ProcessEnds(d) \/ PidReused(d) \/ SettleExit(d) \/ GraceOver(d)
                \/ UNCHANGED procVars
      <3>1. UNCHANGED table
        BY <2>10 DEF Activate, ReapOrphans, EscalateOrphans, HostDies, Spawn, Terminate, ProcessEnds,
                     PidReused, SettleExit, GraceOver, procVars, tableVars
      <3> QED BY <2>6, <3>1
    <2>11. c \in table'[f]
      BY <2>7, <2>8, <2>9, <2>10 DEF EditorProcsNext
    <2> QED BY <2>5, <2>11
  <1>2. ProcInv /\ [EditorProcsNext]_procVars => [OnRecord]_procVars
    BY <1>1
  <1> QED BY <1>1, ProcInvHolds, PTL DEF EditorProcsSpec, OrphansStayOnRecord
-----------------------------------------------------------------------------
(* Fuzz sessions and what they record *)

Contents == {"none", "found", "edited"}

FuzzTypes ==
    /\ corpus \in [Crashers -> Contents]
    /\ sessionFile \subseteq Crashers \X Contents
    /\ recordLock \in {"free", "held"}
    /\ fuzz \in [Sessions -> {"start", "run", "lock", "write", "over"}]
    /\ fresh \in [Sessions -> SUBSET Crashers]
    /\ digests \in [Sessions -> SUBSET (Crashers \X Contents)]
    /\ previous \in [Sessions -> SUBSET (Crashers \X Contents)]
    /\ fuzzCode \in [Sessions -> {0, 1}]
    /\ found \subseteq Crashers

\* The session that writes holds the lock, alone, and has the record as it is.
LockTells ==
    /\ \A s \in Sessions : fuzz[s] = "write" => recordLock = "held" /\ previous[s] = sessionFile
    /\ \A s, r \in Sessions : fuzz[s] = "write" /\ fuzz[r] = "write" => s = r
    /\ sessionFile = due

FoundTells == \A c \in found : corpus[c] # "none" \/ c \in seeds \cup touched

CodeTells == \A s \in Sessions : fresh[s] # {} => fuzzCode[s] # 0

FuzzInv == FuzzTypes /\ LockTells /\ FoundTells /\ CodeTells

LEMMA FuzzInitHolds == FuzzInit => FuzzInv
  BY DEF FuzzInit, FuzzIn, FuzzInv, FuzzTypes, Contents, LockTells, FoundTells, CodeTells

LEMMA FuzzStep == FuzzInv /\ [FuzzNext]_fuzzVars => FuzzInv'
  <1> SUFFICES ASSUME FuzzInv, FuzzNext \/ UNCHANGED fuzzVars PROVE FuzzInv'
    OBVIOUS
  <1> USE DEF FuzzInv, FuzzTypes, Contents, sessionVars, promoteVars
  <1>1. ASSUME NEW s \in Sessions, NEW ts \in SUBSET FuzzTargets, SessionStarts(s, ts) PROVE FuzzInv'
    BY <1>1 DEF SessionStarts, LockTells, FoundTells, CodeTells
  <1>2. ASSUME NEW s \in Sessions, NEW c \in Crashers, EngineFinds(s, c) PROVE FuzzInv'
    BY <1>2 DEF EngineFinds, LockTells, FoundTells, CodeTells
  <1>3. ASSUME NEW s \in Sessions, NEW t \in FuzzTargets, TargetEnds(s, t) PROVE FuzzInv'
    <2> DEFINE new == (There \cap Corpora({t})) \ before[s]
    <2>1. UNCHANGED <<corpus, seeds, sessionFile, recordLock, fuzz, digests, previous, found,
                      touched, due>>
      BY <1>3 DEF TargetEnds
    <2>2. CASE UNCHANGED <<fresh, fuzzCode>>
      BY <2>1, <2>2 DEF LockTells, FoundTells, CodeTells
    <2>3. ASSUME NEW code \in {0, 1}, new # {} => code = 1,
                 fresh' = [fresh EXCEPT ![s] = @ \cup new],
                 fuzzCode' = [fuzzCode EXCEPT ![s] = IF code > @ THEN code ELSE @]
          PROVE  FuzzInv'
      <3>1. new \subseteq Crashers
        BY DEF There
      <3> HIDE DEF new
      <3>2. fuzzCode' \in [Sessions -> {0, 1}] /\ fresh' \in [Sessions -> SUBSET Crashers]
        BY <2>3, <3>1
      <3>3. CodeTells'
        BY <2>3 DEF CodeTells
      <3>4. LockTells' /\ FoundTells'
        BY <2>1 DEF LockTells, FoundTells
      <3> QED BY <2>1, <3>2, <3>3, <3>4
    <2> HIDE DEF new
    <2>4. UNCHANGED <<fresh, fuzzCode>>
          \/ \E code \in {0, 1} :
                /\ new # {} => code = 1
                /\ fresh' = [fresh EXCEPT ![s] = @ \cup new]
                /\ fuzzCode' = [fuzzCode EXCEPT ![s] = IF code > @ THEN code ELSE @]
      <3>1. UNCHANGED <<fresh, fuzzCode>>
            \/ /\ fresh' = [fresh EXCEPT ![s] = @ \cup new]
               /\ \E code \in {0, 1}, cut \in BOOLEAN :
                     LET bare == IF cut /\ new = {} THEN 0 ELSE code
                         effective == IF bare = 0 /\ new # {} THEN 1 ELSE bare IN
                     fuzzCode' = [fuzzCode EXCEPT ![s] = IF effective > @ THEN effective ELSE @]
        BY <1>3 DEF TargetEnds, new
      <3> QED BY <3>1
    <2> QED BY <2>2, <2>3, <2>4
  <1>4. ASSUME NEW s \in Sessions, Digests(s) PROVE FuzzInv'
    BY <1>4 DEF Digests, LockTells, FoundTells, CodeTells
  <1>5. ASSUME NEW s \in Sessions, LocksRecord(s) PROVE FuzzInv'
    BY <1>5 DEF LocksRecord, LockTells, FoundTells, CodeTells
  <1>6. ASSUME NEW s \in Sessions, WritesRecord(s) PROVE FuzzInv'
    <2>1. /\ fuzz' = [fuzz EXCEPT ![s] = "over"] /\ fuzz[s] = "write" /\ recordLock' = "free"
          /\ previous' = [previous EXCEPT ![s] = {}] /\ digests' = [digests EXCEPT ![s] = {}]
          /\ UNCHANGED <<corpus, seeds, fresh, fuzzCode, found, touched>>
      BY <1>6 DEF WritesRecord
    <2>2. sessionFile' = due' /\ sessionFile' \subseteq Crashers \X Contents
      BY <1>6 DEF WritesRecord, LockTells
    <2>3. LockTells'
      BY <2>1, <2>2 DEF LockTells
    <2> QED BY <2>1, <2>2, <2>3 DEF FoundTells, CodeTells
  <1>7. ASSUME NEW p \in Promoters, NEW c \in Crashers, PromoteCrasher(p, c) PROVE FuzzInv'
    BY <1>7 DEF PromoteCrasher, LockTells, FoundTells, CodeTells
  <1>8. ASSUME NEW c \in Crashers, UserTouches(c) PROVE FuzzInv'
    BY <1>8 DEF UserTouches, LockTells, FoundTells, CodeTells
  <1>9. CASE (\E p \in Promoters : ReadsRecord(p) \/ Scans(p) \/ Promoted(p)) \/ UNCHANGED fuzzVars
    <2>1. UNCHANGED <<corpus, seeds, sessionFile, recordLock, fuzz, fresh, digests, previous,
                      fuzzCode, found, touched, due>>
      BY <1>9 DEF ReadsRecord, Scans, Promoted, fuzzVars
    <2> QED BY <2>1 DEF LockTells, FoundTells, CodeTells
  <1> QED BY <1>1, <1>2, <1>3, <1>4, <1>5, <1>6, <1>7, <1>8, <1>9 DEF FuzzNext

\* For any targets, sessions, promotes and edits side by side: no input an
\* engine found is lost, the record adds up to what the sessions found, and a
\* session that saw a crasher appear fails (fuzzsession.go; fuzztriage.go).
THEOREM WhatIsFoundIsKept == FuzzSpec => []FindsAreKept
  <1>1. FuzzInv => FindsAreKept
    BY DEF FuzzInv, LockTells, FoundTells, CodeTells, FindsAreKept
  <1> QED BY <1>1, FuzzInitHolds, FuzzStep, PTL DEF FuzzSpec
------------------------------------------------------------------------------
(* The watcher's events *)

\* The cycle a child's complete lines have come to.
CameTo(c) ==
    IF c \in midway /\ lastLine[c][1] = "start" THEN lastLine[c][2] - 1 ELSE lastLine[c][2]
Spoken == {"start", "event"} \X (Nat \ {0})
KidsTell ==
    /\ spawned \in Kids /\ liveKids \subseteq 1..spawned /\ midway \subseteq liveKids
    /\ lastLine \in [Kids -> Spoken \cup {NoLine}]
    /\ \A c \in Kids \ liveKids : lastLine[c] = NoLine
    /\ \A c \in midway : lastLine[c] # NoLine
\* Of a child started alone, all that came since is its own, and the open run is
\* of the cycle its lines have come to.
AloneTells ==
    /\ ~beside => \A c, d \in liveKids : c = d
    /\ ~beside => \A c \in liveKids :
          InOrder(c) /\ (CameTo(c) # 0 => runCycle \in {NoRun, <<c, CameTo(c)>>})

WatchInv == KidsTell /\ AloneTells /\ unflushed = <<>> /\ EventsToTheirCycle

LEMMA WatchStart == EditorWatchInit => WatchInv
  <1> SUFFICES ASSUME EditorWatchInit PROVE WatchInv
    OBVIOUS
  <1>1. /\ spawned = 1 /\ liveKids \in {{}, {1}} /\ midway = {} /\ half = {} /\ unflushed = <<>>
        /\ lastLine = [c \in Kids |-> NoLine] /\ ~astray /\ watchRecord = "running"
    BY DEF EditorWatchInit, WatcherIn
  <1>2. 1 \in Kids /\ NoLine[2] = 0
    BY SpawnsAssumption DEF Kids, NoLine
  <1>3. KidsTell
    BY <1>1, <1>2 DEF KidsTell
  <1>4. \A c \in liveKids : c = 1 /\ CameTo(c) = 0
    BY <1>1, <1>2 DEF CameTo
  <1>5. AloneTells
    BY <1>1, <1>4 DEF AloneTells, InOrder
  <1> QED BY <1>1, <1>3, <1>5 DEF WatchInv, EventsToTheirCycle

\* What becomes of the children when one may have closed, or none has.
LEMMA KidsKept ==
    ASSUME KidsTell, NEW c \in liveKids,
           liveKids' = liveKids \ {c} /\ midway' = midway \ {c} /\ spawned' = spawned,
           lastLine' = [lastLine EXCEPT ![c] = NoLine]
    PROVE  /\ KidsTell' /\ \A d \in liveKids' : d # c /\ d \in liveKids
           /\ \A d \in liveKids' : CameTo(d)' = CameTo(d) /\ (d \in midway' <=> d \in midway)
  <1>1. liveKids \subseteq Kids
    BY SpawnsAssumption DEF KidsTell, Kids
  <1>2. \A d \in liveKids' : d # c /\ lastLine'[d] = lastLine[d] /\ (d \in midway' <=> d \in midway)
    BY <1>1 DEF KidsTell
  <1>3. \A d \in liveKids' : CameTo(d)' = CameTo(d)
    BY <1>2 DEF CameTo
  <1> QED BY <1>1, <1>2, <1>3 DEF KidsTell

\* What MaybeRestart leaves of the run and the record.
LEMMA RestartKeeps ==
    ASSUME NEW auto \in BOOLEAN, MaybeRestart(auto), WatchInv, KidsTell', liveKids' \subseteq liveKids,
           \A c \in liveKids' : CameTo(c)' = CameTo(c) /\ (c \in midway' <=> c \in midway)
    PROVE  WatchInv'
  <1>1. /\ half' = half /\ unflushed' = unflushed /\ beside' = beside /\ astray' = astray
        /\ \/ runCycle' = NoRun
           \/ runCycle' = runCycle /\ openedAs' = openedAs /\ watchRecord' = watchRecord
    BY DEF MaybeRestart, OnExit, pipeVars
  <1>2. AloneTells'
    BY <1>1 DEF WatchInv, AloneTells, InOrder
  <1> QED BY <1>1, <1>2 DEF WatchInv, EventsToTheirCycle

\* What processBuffer holds when its lines have come to cycle k of child c.
Buffer(h, r, a) == [held |-> h, run |-> r, applied |-> a]
Fits(p, c, k) ==
    \E h, r, a :
        /\ p = Buffer(h, r, a) /\ \A x \in a : x[1] = x[2]
        /\ h \in Seq({<<c, k>>}) /\ r \in {NoRun, <<c, k>>}

\* What Flush makes of it.
Applied(h, r, a) == IF r = NoRun THEN a ELSE a \cup {<<h[i], r>> : i \in DOMAIN h}
LEMMA FlushIs ==
    ASSUME NEW h, NEW r, NEW a
    PROVE  Flush(Buffer(h, r, a)) =
             Buffer(<<>>, r, Applied(h, r, a))
  <1> DEFINE B == Buffer(h, r, a)
             t == Applied(h, r, a)
  <1>1. B.held = h /\ B.run = r /\ B.applied = a
    BY DEF Buffer
  <1>2. [B EXCEPT !.held = <<>>, !.applied = t] = Buffer(<<>>, r, t)
    <2> HIDE DEF t
    <2>1. [Buffer(h, r, a) EXCEPT !.held = <<>>] = Buffer(<<>>, r, a)
      BY DEF Buffer
    <2>2. [Buffer(<<>>, r, a) EXCEPT !.applied = t] = Buffer(<<>>, r, t)
      BY DEF Buffer
    <2>3. [B EXCEPT !.held = <<>>, !.applied = t] = [[B EXCEPT !.held = <<>>] EXCEPT !.applied = t]
      BY DEF Buffer
    <2> QED BY <2>1, <2>2, <2>3
  <1>3. Flush(B) = [B EXCEPT !.held = <<>>, !.applied = t]
    <2> HIDE DEF B
    <2> QED BY <1>1, Zenon DEF Flush, Applied
  <1> QED BY <1>2, <1>3

LEMMA FlushFits ==
    ASSUME NEW p, NEW c, NEW k, Fits(p, c, k)
    PROVE  Fits(Flush(p), c, k) /\ Flush(p).held = <<>>
  <1>1. PICK h, r, a : /\ p = Buffer(h, r, a) /\ \A x \in a : x[1] = x[2]
                      /\ h \in Seq({<<c, k>>}) /\ r \in {NoRun, <<c, k>>}
    BY DEF Fits
  <1> DEFINE b == Applied(h, r, a)
  <1>2. Flush(Buffer(h, r, a)) = Buffer(<<>>, r, b)
    BY FlushIs
  <1>3. \A x \in b : x[1] = x[2]
    BY <1>1 DEF Applied
  <1> HIDE DEF b
  <1>4. <<>> \in Seq({<<c, k>>}) /\ Buffer(<<>>, r, b).held = <<>>
    BY DEF Buffer
  <1> QED BY <1>1, <1>2, <1>3, <1>4 DEF Fits

LEMMA StartFits ==
    ASSUME NEW h, NEW r, NEW a, NEW c, NEW n,
           \A x \in a : x[1] = x[2],
           h = <<>> \/ \E k : Fits(Buffer(h, r, a), c, k)
    PROVE  Fits(Line(Buffer(h, r, a), c, <<"start", n>>), c, n)
  <1> DEFINE b == Applied(h, r, a)
  <1>1. Line(Buffer(h, r, a), c, <<"start", n>>) = Buffer(<<>>, <<c, n>>, b)
    <2>1. Flush(Buffer(h, r, a)) = Buffer(<<>>, r, b)
      BY FlushIs
    <2> HIDE DEF b
    <2>2. [Buffer(<<>>, r, b) EXCEPT !.run = <<c, n>>] = Buffer(<<>>, <<c, n>>, b)
      BY DEF Buffer
    <2> QED BY <2>1, <2>2 DEF Line
  <1>2. \A x \in b : x[1] = x[2]
    <2>1. CASE h = <<>>
      BY <2>1 DEF Applied
    <2>2. ASSUME NEW k, Fits(Buffer(h, r, a), c, k) PROVE \A x \in b : x[1] = x[2]
      <3>1. h \in Seq({<<c, k>>}) /\ r \in {NoRun, <<c, k>>}
        BY <2>2 DEF Fits, Buffer
      <3> QED BY <3>1 DEF Applied
    <2> QED BY <2>1, <2>2
  <1> HIDE DEF b
  <1>3. <<>> \in Seq({<<c, n>>})
    OBVIOUS
  <1> QED BY <1>1, <1>2, <1>3 DEF Fits

LEMMA EventFits ==
    ASSUME NEW p, NEW c, NEW k, Fits(p, c, k)
    PROVE  Fits(Line(p, c, <<"event", k>>), c, k)
  <1>1. PICK h, r, a : /\ p = Buffer(h, r, a) /\ \A x \in a : x[1] = x[2]
                      /\ h \in Seq({<<c, k>>}) /\ r \in {NoRun, <<c, k>>}
    BY DEF Fits
  <1>2. Line(Buffer(h, r, a), c, <<"event", k>>) = Buffer(Append(h, <<c, k>>), r, a)
    BY DEF Line, Buffer
  <1>3. Append(h, <<c, k>>) \in Seq({<<c, k>>})
    <2> DEFINE e == <<c, k>>
    <2>1. h \in Seq({e}) /\ e \in {e}
      BY <1>1
    <2> HIDE DEF e
    <2>2. Append(h, e) \in Seq({e})
      BY <2>1
    <2> QED BY <2>2 DEF e
  <1> QED BY <1>1, <1>2, <1>3 DEF Fits

\* Whatever a line says, only a start opens a run.
LEMMA LineIs ==
    ASSUME NEW h, NEW r, NEW a, NEW c, NEW line
    PROVE  \E h2, r2, a2 : /\ Line(Buffer(h, r, a), c, line) = Buffer(h2, r2, a2)
                           /\ line[1] # "start" => r2 = r
  <1>1. CASE line[1] = "start"
    <2> DEFINE b == Applied(h, r, a)
               run == <<c, line[2]>>
    <2>1. Flush(Buffer(h, r, a)) = Buffer(<<>>, r, b)
      BY FlushIs
    <2> HIDE DEF b
    <2>2. [Buffer(<<>>, r, b) EXCEPT !.run = run] = Buffer(<<>>, run, b)
      BY DEF Buffer
    <2> QED BY <1>1, <2>1, <2>2 DEF Line
  <1>2. CASE line[1] = "event"
    <2> DEFINE B == Buffer(h, r, a)
               g == Append(h, <<c, line[2]>>)
    <2>1. B.held = h
      BY DEF Buffer
    <2>2. [B EXCEPT !.held = g] = Buffer(g, r, a)
      <3> HIDE DEF g
      <3> QED BY DEF Buffer
    <2>3. Line(B, c, line) = [B EXCEPT !.held = g]
      <3> HIDE DEF B
      <3> QED BY <1>2, <2>1, Zenon DEF Line
    <2> QED BY <1>2, <2>2, <2>3
  <1>3. CASE line[1] \notin {"start", "event"}
    BY <1>3 DEF Line
  <1> QED BY <1>1, <1>2, <1>3

\* The lines a child writes next: what it owes of the last, or one that follows.
LEMMA WritesAre ==
    ASSUME KidsTell, NEW c \in liveKids, NEW lines \in Writes(c)
    PROVE  \E l \in Spoken :
              /\ IF c \in midway THEN l = lastLine[c] ELSE l \in Follows(lastLine[c])
              /\ lines[1] = l
              /\ \/ lines = <<l>> /\ Len(lines) = 1
                 \/ \E m \in Spoken : m \in Follows(l) /\ lines = <<l, m>> /\ Len(lines) = 2
  <1> DEFINE firsts == IF c \in midway THEN {lastLine[c]} ELSE Follows(lastLine[c])
  <1>1. PICK l \in firsts : lines = <<l>> \/ \E m \in Follows(l) : lines = <<l, m>>
    BY DEF Writes
  <1>2. ASSUME NEW k \in Spoken \cup {NoLine} PROVE Follows(k) \subseteq Spoken
    BY <1>2 DEF Follows, Spoken, NoLine
  <1>3. c \in Kids
    BY SpawnsAssumption DEF KidsTell, Kids
  <1>4. l \in Spoken
    <2>1. lastLine[c] \in Spoken \cup {NoLine}
      BY <1>3 DEF KidsTell
    <2> QED BY <1>1, <1>2, <2>1 DEF KidsTell
  <1>5. CASE lines = <<l>>
    BY <1>1, <1>4, <1>5
  <1>6. ASSUME NEW m \in Follows(l), lines = <<l, m>> PROVE m \in Spoken
    BY <1>2, <1>4
  <1> QED BY <1>1, <1>4, <1>5, <1>6

\* After its line, a child has come to the cycle of it, or is about to start the next.
LEMMA FollowsIs ==
    ASSUME NEW l \in Spoken \cup {NoLine}, NEW m \in Follows(l)
    PROVE  /\ m \in Spoken /\ (m[1] = "event" => m[2] = l[2] /\ l[2] # 0)
           /\ m[1] = "start" => m[2] = l[2] + 1
           /\ m = <<m[1], m[2]>> /\ m[1] \in {"start", "event"}
  BY DEF Follows, Spoken, NoLine

\* A line of a child heard alone keeps what it holds of one cycle.
LEMMA LineFits ==
    ASSUME NEW p, NEW c, NEW k \in Nat, NEW l \in Spoken, Fits(p, c, k) \/ p = Buffer(<<>>, runCycle, {}),
           l[1] = "event" => Fits(p, c, k) /\ l[2] = k
    PROVE  Fits(Line(p, c, l), c, l[2])
  <1>1. l = <<l[1], l[2]>> /\ l[1] \in {"start", "event"}
    BY DEF Spoken
  <1>2. CASE l[1] = "start"
    <2>1. PICK h, r, a : /\ p = Buffer(h, r, a) /\ \A x \in a : x[1] = x[2]
                         /\ h = <<>> \/ Fits(p, c, k)
      BY DEF Fits
    <2>2. Fits(Line(Buffer(h, r, a), c, <<"start", l[2]>>), c, l[2])
      BY <2>1, StartFits
    <2> QED BY <1>1, <1>2, <2>1, <2>2
  <1>3. CASE l[1] = "event"
    BY <1>1, <1>3, EventFits
  <1> QED BY <1>1, <1>2, <1>3

\* A chunk of a child heard alone puts every event on the run of its own cycle.
LEMMA ChunkKeeps ==
    ASSUME WatchInv, NEW c \in liveKids, NEW cut \in BOOLEAN, NEW garbled \in {"skipped", "event", "start"},
           NEW lines \in Writes(c), Chunk(c, lines, cut, garbled)
    PROVE  WatchInv'
  <1> DEFINE whole == IF cut THEN Len(lines) - 1 ELSE Len(lines)
             first == IF InOrder(c) THEN lines[1] ELSE <<garbled, 1>>
             p0 == Buffer(unflushed, runCycle, {})
             p1 == IF whole < 1 THEN p0 ELSE Line(p0, IF InOrder(c) THEN c ELSE 0, first)
             p2 == IF whole < 2 THEN p1 ELSE Line(p1, c, lines[2])
             done == Flush(p2)
             started == (whole >= 1 /\ first[1] = "start") \/ (whole >= 2 /\ lines[2][1] = "start")
             last == lines[Len(lines)]
  <1>1. /\ lastLine' = [lastLine EXCEPT ![c] = last]
        /\ midway' = (IF cut THEN midway \cup {c} ELSE midway \ {c})
        /\ half' = (IF ~cut THEN {} ELSE IF whole > 0 \/ InOrder(c) THEN {c} ELSE {0})
        /\ unflushed' = done.held /\ runCycle' = done.run
        /\ astray' = (astray \/ \E a \in done.applied : a[1] # a[2])
        /\ openedAs' = (IF started THEN watchRecord ELSE openedAs)
        /\ spawned' = spawned /\ liveKids' = liveKids /\ beside' = beside /\ watchRecord' = watchRecord
    BY DEF Chunk, Buffer
  <1>2. PICK l \in Spoken :
           /\ IF c \in midway THEN l = lastLine[c] ELSE l \in Follows(lastLine[c])
           /\ lines[1] = l
           /\ \/ lines = <<l>> /\ Len(lines) = 1
              \/ \E m \in Spoken : m \in Follows(l) /\ lines = <<l, m>> /\ Len(lines) = 2
    BY WritesAre DEF WatchInv
  <1>3. c \in Kids /\ unflushed = <<>>
    BY SpawnsAssumption DEF WatchInv, KidsTell, Kids
  <1>4. last \in Spoken /\ lastLine'[c] = last /\ \A d \in Kids \ {c} : lastLine'[d] = lastLine[d]
    BY <1>1, <1>2, <1>3 DEF WatchInv, KidsTell
  <1>5. KidsTell'
    <2>1. NoLine \notin Spoken
      BY DEF NoLine, Spoken
    <2> HIDE DEF last
    <2>2. midway' \subseteq liveKids' /\ lastLine' \in [Kids -> Spoken \cup {NoLine}]
      BY <1>1, <1>4 DEF WatchInv, KidsTell
    <2>3. midway \subseteq Kids /\ midway' \subseteq midway \cup {c}
      BY <1>1, SpawnsAssumption DEF WatchInv, KidsTell, Kids
    <2>4. \A d \in midway' : lastLine'[d] # NoLine
      BY <1>1, <1>4, <2>1, <2>3 DEF WatchInv, KidsTell
    <2> QED BY <1>1, <1>3, <1>4, <2>2, <2>4 DEF WatchInv, KidsTell
  <1>6. whole \in 0..2 /\ Len(lines) \in 1..2
    BY <1>2
  \* Whoever wrote it, nothing is held back, and only a start changes the run.
  <1>7. \E r, b : done = Buffer(<<>>, r, b) /\ (~started => r = runCycle)
    <2>1. PICK h, r, a : p1 = Buffer(h, r, a) /\ (~started => r = runCycle)
      <3>1. CASE whole < 1
        BY <3>1
      <3>2. CASE ~(whole < 1)
        <4>1. whole >= 1
          BY <1>6, <3>2
        <4> HIDE DEF whole, first
        <4>2. PICK h, r, a : /\ Line(p0, IF InOrder(c) THEN c ELSE 0, first) = Buffer(h, r, a)
                             /\ first[1] # "start" => r = runCycle
          BY LineIs
        <4> QED BY <3>2, <4>1, <4>2
      <3> QED BY <3>1, <3>2
    <2> HIDE DEF p1
    <2>2. PICK h3, r3, a3 : p2 = Buffer(h3, r3, a3) /\ (~started => r3 = runCycle)
      <3>1. CASE whole < 2
        BY <2>1, <3>1
      <3>2. CASE ~(whole < 2)
        <4>1. whole >= 2
          BY <1>6, <3>2
        <4> HIDE DEF whole, first
        <4>2. PICK h2, r2, a2 : /\ Line(Buffer(h, r, a), c, lines[2]) = Buffer(h2, r2, a2)
                                /\ lines[2][1] # "start" => r2 = r
          BY LineIs
        <4> QED BY <2>1, <3>2, <4>1, <4>2
      <3> QED BY <3>1, <3>2
    <2> HIDE DEF p2, started
    <2>3. Flush(Buffer(h3, r3, a3)) = Buffer(<<>>, r3, Applied(h3, r3, a3))
      BY FlushIs
    <2> QED BY <2>2, <2>3
  <1>8. unflushed' = <<>> /\ (runCycle' = runCycle \/ openedAs' = watchRecord)
        /\ ((runCycle' = runCycle /\ openedAs' = openedAs) \/ openedAs' = watchRecord)
    <2> HIDE DEF started, done
    <2>1. PICK r, b : done = Buffer(<<>>, r, b) /\ (~started => r = runCycle)
      BY <1>7
    <2>2. done.held = <<>> /\ done.run = r
      BY <2>1 DEF Buffer
    <2> QED BY <1>1, <2>1, <2>2
  \* A child heard alone.
  <1>9. ASSUME ~beside
        PROVE  /\ InOrder(c)' /\ ~astray'
               /\ CameTo(c)' # 0 => runCycle' \in {NoRun, <<c, CameTo(c)'>>}
    <2>1. InOrder(c) /\ ~astray /\ (CameTo(c) # 0 => runCycle \in {NoRun, <<c, CameTo(c)>>})
      BY <1>9 DEF WatchInv, AloneTells, EventsToTheirCycle
    <2>2. InOrder(c)'
      BY <1>1, <2>1 DEF InOrder
    <2>3. first = l /\ p0 = Buffer(<<>>, runCycle, {})
      BY <1>2, <1>3, <2>1
    <2>4. lastLine[c] \in Spoken \cup {NoLine}
      BY <1>3 DEF WatchInv, KidsTell
    <2>5. CameTo(c) \in Nat /\ (l[1] = "event" => l[2] = CameTo(c) /\ CameTo(c) # 0)
          /\ (l[1] = "start" => l[2] = CameTo(c) + 1)
      <3>1. CASE c \in midway
        BY <1>2, <3>1 DEF CameTo, Spoken
      <3>2. CASE c \notin midway
        <4>1. lastLine[c][2] \in Nat
          BY <2>4 DEF Spoken, NoLine
        <4> QED BY <1>2, <2>4, <3>2, <4>1, FollowsIs DEF CameTo
      <3> QED BY <3>1, <3>2
    <2>6. CameTo(c) # 0 => Fits(p0, c, CameTo(c))
      <3> DEFINE k == CameTo(c)
      <3>1. <<>> \in Seq({<<c, k>>}) /\ \A x \in {} : x[1] = x[2]
        OBVIOUS
      <3>2. k # 0 => runCycle \in {NoRun, <<c, k>>}
        BY <2>1
      <3> HIDE DEF k, p0
      <3>3. ASSUME k # 0 PROVE Fits(p0, c, k)
        <4>1. /\ p0 = Buffer(<<>>, runCycle, {})
              /\ <<>> \in Seq({<<c, k>>}) /\ runCycle \in {NoRun, <<c, k>>}
          BY <2>3, <3>1, <3>2, <3>3
        <4>2. PICK h, r, a : /\ h = <<>> /\ r = runCycle /\ a = {}
                             /\ p0 = Buffer(h, r, a)
          BY <4>1
        <4>3. \A x \in a : x[1] = x[2]
          BY <4>2
        <4> QED BY <4>1, <4>2, <4>3 DEF Fits
      <3> QED BY <3>3 DEF k
    <2>7. Fits(Line(p0, c, l), c, l[2])
      BY <2>3, <2>5, <2>6, LineFits
    <2>8. CASE whole = 0
      <3>0. cut /\ Len(lines) = 1
        BY <1>6, <2>8
      <3>1. cut /\ last = l /\ c \in midway'
        BY <1>1, <1>2, <3>0
      <3>2. CameTo(c)' = CameTo(c)
        BY <1>1, <1>2, <1>4, <2>5, <3>1 DEF CameTo, Spoken
      <3>3. p2 = Buffer(<<>>, runCycle, {})
        <4> HIDE DEF whole
        <4>1. whole < 1 /\ whole < 2
          BY <2>8
        <4> QED BY <2>3, <4>1
      <3>4. done = Buffer(<<>>, runCycle, Applied(<<>>, runCycle, {}))
        BY <3>3, FlushIs
      <3>5. Applied(<<>>, runCycle, {}) = {}
        BY DEF Applied
      <3>6. done.run = runCycle /\ done.applied = {}
        <4> HIDE DEF done
        <4> QED BY <3>4, <3>5 DEF Buffer
      <3> QED BY <1>1, <2>1, <2>2, <3>2, <3>6
    <2>9. CASE whole # 0
      <3>1. Fits(p2, c, CameTo(c)')
        <4>1. p1 = Line(p0, c, l)
          <5>1. ~(whole < 1)
            BY <1>6, <2>9
          <5> HIDE DEF whole, p0, first
          <5> QED BY <2>1, <2>3, <5>1
        <4>2. CASE whole = 1 /\ ~cut
          <5>1. last = l /\ c \notin midway'
            BY <1>1, <1>2, <4>2
          <5>2. CameTo(c)' = l[2]
            BY <1>4, <5>1 DEF CameTo
          <5>3. p2 = p1
            BY <4>2
          <5> HIDE DEF p1, p2
          <5> QED BY <2>7, <4>1, <5>2, <5>3
        <4>3. CASE whole = 1 /\ cut
          <5>1. PICK m \in Spoken : m \in Follows(l) /\ lines = <<l, m>> /\ Len(lines) = 2
            BY <1>2, <4>3
          <5>2. last = m /\ c \in midway'
            BY <1>1, <4>3, <5>1
          <5>3. CameTo(c)' = l[2]
            BY <1>4, <5>1, <5>2, FollowsIs DEF CameTo, Spoken
          <5> HIDE DEF whole, p1
          <5>4. p2 = p1
            BY <4>3
          <5> HIDE DEF p2
          <5> QED BY <2>7, <4>1, <5>3, <5>4
        <4>4. CASE whole = 2
          <5>1. PICK m \in Spoken : m \in Follows(l) /\ lines = <<l, m>> /\ Len(lines) = 2
            BY <1>2, <4>4
          <5>2. last = m /\ ~cut /\ c \notin midway' /\ lines[2] = m
            BY <1>1, <4>4, <5>1
          <5>3. CameTo(c)' = m[2]
            BY <1>4, <5>2 DEF CameTo
          <5>4. l[2] \in Nat /\ (m[1] = "event" => m[2] = l[2])
            BY <5>1, FollowsIs DEF Spoken
          <5> HIDE DEF p1
          <5>5. Fits(p1, c, l[2])
            BY <2>7, <4>1
          <5>6. Fits(Line(p1, c, m), c, m[2])
            BY <5>1, <5>4, <5>5, LineFits
          <5>7. p2 = Line(p1, c, m)
            <6> HIDE DEF whole
            <6>1. ~(whole < 2)
              BY <4>4
            <6> QED BY <5>2, <6>1
          <5> HIDE DEF p2
          <5> QED BY <5>3, <5>6, <5>7
        <4> QED BY <1>6, <2>9, <4>2, <4>3, <4>4
      <3> HIDE DEF p2
      <3>2. Fits(done, c, CameTo(c)')
        BY <3>1, FlushFits
      <3> HIDE DEF done
      <3>3. PICK h, r, a : /\ done = Buffer(h, r, a) /\ \A x \in a : x[1] = x[2]
                           /\ r \in {NoRun, <<c, CameTo(c)'>>}
        BY <3>2 DEF Fits
      <3>4. done.run = r /\ done.applied = a
        BY <3>3 DEF Buffer
      <3> QED BY <1>1, <2>1, <2>2, <3>3, <3>4
    <2> QED BY <2>8, <2>9
  <1>10. AloneTells'
    <2>1. ~beside => \A d \in liveKids : d = c
      BY DEF WatchInv, AloneTells
    <2> QED BY <1>1, <1>9, <2>1 DEF WatchInv, AloneTells
  <1>11. EventsToTheirCycle'
    BY <1>1, <1>8, <1>9 DEF WatchInv, EventsToTheirCycle
  <1> QED BY <1>5, <1>8, <1>10, <1>11 DEF WatchInv

\* A new child finds the buffers empty.
LEMMA ChildKeeps ==
    ASSUME WatchInv, StartChild, spawned < MaxSpawns,
           watchRecord' = watchRecord
    PROVE  WatchInv'
  <1>1. /\ spawned' = spawned + 1 /\ liveKids' \in {liveKids, liveKids \cup {spawned'}}
        /\ half' = {} /\ unflushed' = <<>> /\ beside' = (liveKids # {}) /\ ~astray'
        /\ lastLine' = lastLine /\ midway' = midway /\ runCycle' = runCycle /\ openedAs' = openedAs
    BY DEF StartChild, streamVars
  <1>2. KidsTell /\ spawned \in Nat /\ spawned' \in Kids /\ spawned' \notin liveKids
    BY <1>1, SpawnsAssumption DEF WatchInv, KidsTell, Kids
  <1>3. lastLine[spawned'] = NoLine /\ spawned' \notin midway
    BY <1>2 DEF KidsTell
  <1>4. KidsTell'
    BY <1>1, <1>2, <1>3 DEF KidsTell, Kids
  <1>5. AloneTells'
    <2>1. SUFFICES ASSUME liveKids = {} PROVE AloneTells'
      BY <1>1 DEF AloneTells
    <2>2. \A c \in liveKids' : c = spawned' /\ CameTo(c)' = 0
      BY <1>1, <1>3, <2>1 DEF CameTo, NoLine
    <2>3. \A c \in liveKids' : InOrder(c)'
      BY <1>1, <1>3, <2>2 DEF InOrder
    <2> QED BY <2>2, <2>3 DEF AloneTells
  <1> QED BY <1>1, <1>4, <1>5 DEF WatchInv, EventsToTheirCycle

LEMMA WatchStep == WatchInv /\ [EditorWatchNext]_editorWatchVars => WatchInv'
  <1> SUFFICES ASSUME WatchInv, [EditorWatchNext]_editorWatchVars PROVE WatchInv'
    OBVIOUS
  <1> DEFINE still == /\ liveKids' = liveKids /\ spawned' = spawned /\ UNCHANGED streamVars
  <1>1. ASSUME still, UNCHANGED <<half, unflushed, beside, astray>>,
               \/ runCycle' = NoRun
               \/ UNCHANGED <<runCycle, openedAs, watchRecord>>
        PROVE  WatchInv'
    <2>1. KidsTell' /\ \A c \in liveKids : CameTo(c)' = CameTo(c)
      BY <1>1 DEF streamVars, WatchInv, KidsTell, CameTo
    <2>2. AloneTells'
      BY <1>1, <2>1 DEF streamVars, WatchInv, AloneTells, InOrder
    <2> QED BY <1>1, <2>1, <2>2 DEF WatchInv, EventsToTheirCycle
  <1>2. CASE UNCHANGED editorWatchVars
    BY <1>1, <1>2 DEF editorWatchVars, pipeVars
  <1>3. ASSUME NEW c \in liveKids \cup failedSpawn, NEW auto \in BOOLEAN, ChildCloses(c, auto)
        PROVE  WatchInv'
    <2>1. /\ c \in liveKids /\ liveKids' = liveKids \ {c} /\ midway' = midway \ {c} /\ spawned' = spawned
          /\ lastLine' = [lastLine EXCEPT ![c] = NoLine] /\ MaybeRestart(auto)
      BY <1>3 DEF ChildCloses
    <2>2. /\ KidsTell' /\ liveKids' \subseteq liveKids
          /\ \A d \in liveKids' : CameTo(d)' = CameTo(d) /\ (d \in midway' <=> d \in midway)
      BY <2>1, KidsKept DEF WatchInv
    <2> QED BY <2>1, <2>2, RestartKeeps
  <1>4. ASSUME NEW c \in liveKids \cup failedSpawn, NEW auto \in BOOLEAN,
               SpawnError(c, auto) \/ CloseAfterError(c, auto)
        PROVE  WatchInv'
    <2>1. MaybeRestart(auto) /\ still
      BY <1>4 DEF SpawnError, CloseAfterError
    <2> QED BY <1>1, <2>1 DEF MaybeRestart, OnExit, pipeVars
  <1>5. CASE RestartFires
    <2>1. CASE spawned < MaxSpawns /\ StartChild
      BY <1>5, <2>1, ChildKeeps DEF RestartFires
    <2>2. CASE ~(spawned < MaxSpawns /\ StartChild)
      BY <1>1, <1>5, <2>2 DEF RestartFires, pipeVars
    <2> QED BY <2>1, <2>2
  <1>6. CASE StopWatcher
    BY <1>1, <1>6 DEF StopWatcher
  <1>7. ASSUME NEW there \in BOOLEAN, Resolves(there) PROVE WatchInv'
    <2>1. CASE there
      BY <1>7, <2>1, ChildKeeps DEF Resolves
    <2>2. CASE ~there
      BY <1>1, <1>7, <2>2 DEF Resolves, OnExit
    <2> QED BY <2>1, <2>2
  <1>8. ASSUME NEW c \in liveKids, NEW cut \in BOOLEAN, NEW garbled \in {"skipped", "event", "start"},
               NEW lines \in Writes(c), Chunk(c, lines, cut, garbled)
        PROVE  WatchInv'
    BY <1>8, ChunkKeeps
  <1> QED BY <1>2, <1>3, <1>4, <1>5, <1>6, <1>7, <1>8 DEF EditorWatchNext

\* For any children and cycles: whatever way a watcher's output is cut, an event
\* of a child heard alone is put on the run of its own cycle, and a watcher
\* stopped or given up leaves no run open but one made since (watch.ts,
\* processBuffer, stop and onExit).
THEOREM EventsReachTheirCycle == EditorWatchSpec => []EventsToTheirCycle
  <1>1. EditorWatchSpec => []WatchInv
    BY WatchStart, WatchStep, PTL DEF EditorWatchSpec
  <1> QED BY <1>1, PTL DEF WatchInv

------------------------------------------------------------------------------
(* The editor's runs *)

Verdict == {"unset", "started", "passed", "skipped", "failed", "errored"}
Red == {"failed", "errored"}
Shown == [Items -> Verdict]

RunTypes ==
    /\ reqState \in [RunRequests -> {"no", "waits", "runs", "over", "off"}]
    /\ record \in [RunRequests -> {"none", "running", "cancelled", "completed"}]
    /\ shown \in Shown
    /\ result \in [Items -> {"none", "passed", "skipped", "failed"}]
    /\ known \subseteq TreePackages
    /\ exitsBad \in BOOLEAN
    /\ batch \subseteq TreePackages /\ streamed \subseteq TreePackages
    /\ \A b \in batches : b # {} /\ b \subseteq TreePackages

\* The run that goes on is the last one, its record the active one until a
\* newer request settles it; a run that is over has its record settled.
RecordTells ==
    /\ activeRun # NoRequest => activeRun \in RunRequests /\ reqState[activeRun] = "runs"
    /\ activeRecord \in {NoRequest, activeRun}
    /\ \A r \in RunRequests : reqState[r] = "runs" =>
          /\ r = activeRun /\ r = latest
          /\ activeRecord # r => record[r] = "cancelled" /\ r \in canceled
    /\ \A r \in RunRequests :
          reqState[r] = "over" => record[r] = IF r \in canceled THEN "cancelled" ELSE "completed"
    /\ batch # {} => activeRun # NoRequest

\* A failure the stream carried is shown once its package is told of, and a
\* failed result is shown at once.
StreamTellsFailures ==
    /\ failing \subseteq batch \/ batch = {}
    /\ \A p \in failing \cap streamed : shown[Package(p)] \in Red
    /\ \A p \in TreePackages : result[TestOf(p)] = "failed" => shown[TestOf(p)] \in Red

\* Whatever is red is so for a reason the exit code, the cache or the stream
\* has, and the other way round for the first two.
RedTells ==
    /\ exitsBad \/ known # TreePackages => \E i \in Items : shown[i] \in Red
    /\ activeRun # NoRequest /\ activeRun \notin canceled =>
          /\ (\E i \in Items : shown[i] \in Red) => exitsBad \/ known # TreePackages \/ failing # {}
          /\ batch = {} /\ failing # {} => exitsBad

RunInv == RunTypes /\ RecordTells /\ StreamTellsFailures /\ RedTells /\ RunIsTold

\* What a package is known by in the marks.
LEMMA ItemsAre ==
    ASSUME NEW p \in TreePackages
    PROVE  TestOf(p) \in Items /\ Package(p) \in Items /\ Selected(p) \in Items
  BY DEF TestOf, Package, Selected, Items, Tests

LEMMA GraverIs ==
    ASSUME NEW old \in Verdict, NEW new \in Verdict
    PROVE  /\ old \in Red /\ Graver(old, new) => new \in Red
           /\ new \in Red => Graver(old, new) \/ old \in Red
           /\ new = "errored" => Graver(old, new)
           /\ Graver(old, new) \in BOOLEAN
  BY DEF Graver, Verdict, Red

\* A verdict shown takes nothing red away, and adds no more than itself.
LEMMA ShowIs ==
    ASSUME NEW marks \in Shown, NEW i \in Items, NEW v \in Verdict
    PROVE  /\ Show(marks, i, v) \in Shown
           /\ \A j \in Items : marks[j] \in Red => Show(marks, i, v)[j] \in Red
           /\ \A j \in Items : Show(marks, i, v)[j] \in Red => marks[j] \in Red \/ (j = i /\ v \in Red)
           /\ v \in Red => Show(marks, i, v)[i] \in Red
  <1>1. \A j \in Items : Show(marks, i, v)[j] = IF j = i /\ Graver(marks[i], v) THEN v ELSE marks[j]
    BY DEF Show, Shown
  <1>2. Show(marks, i, v) \in Shown
    BY DEF Show, Shown
  <1>3. marks[i] \in Verdict
    BY DEF Shown
  <1> QED BY <1>1, <1>2, <1>3, GraverIs

LEMMA ShowAllIs ==
    ASSUME NEW marks \in Shown, NEW is, NEW v \in Verdict
    PROVE  /\ ShowAll(marks, is, v) \in Shown
           /\ \A j \in Items : marks[j] \in Red => ShowAll(marks, is, v)[j] \in Red
           /\ \A j \in Items : ShowAll(marks, is, v)[j] \in Red => marks[j] \in Red \/ (j \in is /\ v \in Red)
           /\ v = "errored" => \A j \in Items \cap is : ShowAll(marks, is, v)[j] \in Red
  <1>1. \A j \in Items : ShowAll(marks, is, v)[j] = IF j \in is /\ Graver(marks[j], v) THEN v ELSE marks[j]
    BY DEF ShowAll
  <1>2. ShowAll(marks, is, v) \in Shown
    BY DEF ShowAll, Shown
  <1>3. \A j \in Items : marks[j] \in Verdict
    BY DEF Shown
  <1>4. "errored" \in Red
    BY DEF Red
  <1> QED BY <1>1, <1>2, <1>3, <1>4, GraverIs

LEMMA ResolvedIs ==
    ASSUME RunTypes, StreamTellsFailures
    PROVE  /\ Resolved(shown) \in Shown
           /\ \A j \in Items : shown[j] \in Red => Resolved(shown)[j] \in Red
           /\ (\E j \in Items : Resolved(shown)[j] \in Red) => \E j \in Items : shown[j] \in Red
  <1> DEFINE V(i) == IF result[TestOf(i[1])] = "failed" THEN "failed" ELSE "passed"
             Takes(i) == i[2] = "package" /\ result[TestOf(i[1])] # "none" /\ Graver(shown[i], V(i))
  <1>1. \A i \in Items : Resolved(shown)[i] = IF Takes(i) THEN V(i) ELSE shown[i]
    BY DEF Resolved
  <1>2. Resolved(shown) \in Shown
    BY DEF Resolved, Shown, RunTypes, Verdict
  <1>3. \A i \in Items : i[1] \in TreePackages /\ shown[i] \in Verdict /\ V(i) \in Verdict
    BY DEF Items, Tests, RunTypes, Shown, Verdict
  <1>4. ASSUME NEW j \in Items, shown[j] \in Red PROVE Resolved(shown)[j] \in Red
    BY <1>1, <1>3, <1>4, GraverIs
  <1>5. ASSUME NEW j \in Items, Resolved(shown)[j] \in Red PROVE \E i \in Items : shown[i] \in Red
    <2>1. CASE Takes(j)
      <3>1. result[TestOf(j[1])] = "failed"
        BY <1>1, <1>5, <2>1 DEF Red
      <3> QED BY <1>3, <3>1, ItemsAre DEF StreamTellsFailures
    <2>2. CASE ~Takes(j)
      BY <1>1, <1>5, <2>2
    <2> QED BY <2>1, <2>2
  <1> QED BY <1>2, <1>4, <1>5

LEMMA RunStart == EditorRunInit => RunInv
  <1> SUFFICES ASSUME EditorRunInit PROVE RunInv
    OBVIOUS
  <1>1. PICK first \in {"no", "off"} : \E saves : EditorRunIn(first, saves)
    BY DEF EditorRunInit
  <1>2. RunTypes
    <2>1. /\ reqState \in [RunRequests -> {"no", "waits", "runs", "over", "off"}]
          /\ record \in [RunRequests -> {"none", "running", "cancelled", "completed"}]
      BY <1>1 DEF EditorRunIn
    <2>2. shown \in Shown /\ result \in [Items -> {"none", "passed", "skipped", "failed"}]
      BY <1>1 DEF EditorRunIn, Shown, Verdict
    <2>3. known \subseteq TreePackages /\ exitsBad \in BOOLEAN /\ batch = {} /\ streamed = {} /\ batches = {}
      BY <1>1 DEF EditorRunIn
    <2> QED BY <2>1, <2>2, <2>3 DEF RunTypes
  <1>3. RecordTells
    BY <1>1 DEF EditorRunIn, RecordTells
  <1>4. StreamTellsFailures
    BY <1>1, ItemsAre DEF EditorRunIn, StreamTellsFailures
  <1>5. RedTells
    BY <1>1 DEF EditorRunIn, RedTells
  <1>6. RunIsTold
    BY <1>1 DEF EditorRunIn, RunIsTold
  <1> QED BY <1>2, <1>3, <1>4, <1>5, <1>6 DEF RunInv

\* What is over and told stays so while another run goes on, or none does
\* anything to the marks.
LEMMA ToldStays ==
    ASSUME RunInv, reqState' = reqState, record' = record, latest' = latest, canceled' = canceled,
           activeRun # NoRequest
    PROVE  RunIsTold'
  <1>1. \A r \in RunRequests : reqState[r] = "over" => r # latest
    BY DEF RunInv, RecordTells
  <1> QED BY <1>1 DEF RunInv, RunIsTold

LEMMA RequestKeeps ==
    ASSUME RunInv, NEW r \in RunRequests, Request(r)
    PROVE  RunInv'
  <1> USE RequestsAssumption DEF Request
  <1>1. RunTypes'
    BY DEF RunInv, RunTypes, RecordTells
  <1>2. RecordTells'
    BY DEF RunInv, RunTypes, RecordTells
  <1>3. StreamTellsFailures' /\ RedTells'
    BY DEF RunInv, RunTypes, StreamTellsFailures, RedTells, TestOf, Package
  <1>4. RunIsTold'
    <2>1. \A q \in RunRequests : reqState'[q] = "over" =>
              /\ reqState[q] = "over" /\ record'[q] = record[q] /\ (q \in canceled' <=> q \in canceled)
      BY DEF RunInv, RunTypes, RecordTells
    <2>2. UNCHANGED <<latest, exitsBad, known, shown>>
      OBVIOUS
    <2> HIDE DEF Request
    <2> QED BY <2>1, <2>2 DEF RunInv, RunIsTold
  <1> QED BY <1>1, <1>2, <1>3, <1>4 DEF RunInv

LEMMA BeginsKeeps ==
    ASSUME RunInv, NEW r \in RunRequests, NEW lost \in SUBSET TreePackages,
           NEW filtered \in SUBSET TreePackages, RunBegins(r, lost, filtered)
    PROVE  RunInv'
  <1> USE RequestsAssumption DEF RunBegins
  <1>1. RunTypes'
    <2>1. \A b \in Batches(TreePackages \ lost, filtered) : b # {} /\ b \subseteq TreePackages
      BY DEF Batches
    <2>2. shown' \in Shown
      BY DEF Shown, Verdict
    <2> QED BY <2>1, <2>2 DEF RunInv, RunTypes
  <1>2. RecordTells'
    BY DEF RunInv, RunTypes, RecordTells
  <1>3. StreamTellsFailures'
    BY ItemsAre DEF StreamTellsFailures, TestOf, Package
  <1>4. RedTells'
    <2>1. \A i \in Items : shown'[i] \in Red => i[1] \in lost
      BY DEF Red
    <2>2. \A p \in lost : shown'[IF p \in filtered THEN TestOf(p) ELSE Package(p)] \in Red
      BY ItemsAre DEF TestOf, Package, Red
    <2>3. \A i \in Items : i[1] \in TreePackages
      BY DEF Items, Tests
    <2>4. known' # TreePackages => \E i \in Items : shown'[i] \in Red
      BY <2>2, ItemsAre
    <2>5. (\E i \in Items : shown'[i] \in Red) => known' # TreePackages
      BY <2>1, <2>3
    <2> QED BY <2>4, <2>5 DEF RedTells
  <1>5. RunIsTold'
    BY DEF RunInv, RunTypes, RunIsTold
  <1> QED BY <1>1, <1>2, <1>3, <1>4, <1>5 DEF RunInv

LEMMA StopKeeps ==
    ASSUME RunInv, NEW r \in RunRequests, Stop(r)
    PROVE  RunInv'
  <1> USE RequestsAssumption DEF Stop
  <1>1. RunTypes' /\ RecordTells'
    BY DEF RunInv, RunTypes, RecordTells
  <1>2. StreamTellsFailures' /\ RedTells'
    BY DEF RunInv, RunTypes, StreamTellsFailures, RedTells, TestOf, Package
  <1>3. RunIsTold'
    BY DEF RunInv, RunTypes, RecordTells, RunIsTold
  <1> QED BY <1>1, <1>2, <1>3 DEF RunInv

LEMMA NextBatchKeeps ==
    ASSUME RunInv, NEW r \in RunRequests, NEW b \in batches, NextBatch(r, b)
    PROVE  RunInv'
  <1> USE RequestsAssumption
  <1>1. /\ activeRun = r /\ activeRun # NoRequest /\ batch = {} /\ b # {} /\ b \subseteq TreePackages
        /\ batches' = batches \ {b} /\ streamed' = {} /\ failing' = {}
        /\ UNCHANGED <<reqState, activeRun, activeRecord, record, canceled, known, pickedIn, result,
                       latest>>
    BY DEF NextBatch, RunInv, RunTypes, RecordTells
  <1> DEFINE sel == {Selected(p) : p \in b}
  <1>2. /\ shown' \in Shown /\ exitsBad' \in BOOLEAN /\ batch' \in {{}, b}
        /\ \A j \in Items : shown[j] \in Red => shown'[j] \in Red
        /\ exitsBad' => exitsBad \/ \E j \in Items : shown'[j] \in Red
        /\ (\E j \in Items : shown'[j] \in Red) => exitsBad' \/ \E j \in Items : shown[j] \in Red
        /\ exitsBad => exitsBad'
    <2>0. shown \in Shown /\ {"skipped", "errored"} \subseteq Verdict /\ "skipped" \notin Red
      BY DEF RunInv, RunTypes, Verdict, Red
    <2>1. CASE shown' = ShowAll(shown, sel, "skipped") /\ UNCHANGED <<batch, exitsBad>>
      BY <1>1, <2>0, <2>1, ShowAllIs DEF RunInv, RunTypes
    <2>2. CASE batch' = b /\ UNCHANGED <<shown, exitsBad>>
      BY <2>0, <2>2 DEF RunInv, RunTypes
    <2>3. CASE /\ exitsBad' = TRUE /\ batch' = batch
               /\ shown' = ShowAll(ShowAll(shown, sel, "errored"), {TestOf(p) : p \in b \ pickedIn},
                                   "skipped")
      <3>1. PICK p \in b : TRUE
        BY <1>1
      <3>2. Selected(p) \in Items \cap sel
        BY <1>1, <3>1, ItemsAre
      <3> DEFINE mid == ShowAll(shown, sel, "errored")
                 ts == {TestOf(q) : q \in b \ pickedIn}
      <3>3. /\ mid \in Shown /\ mid[Selected(p)] \in Red
            /\ \A j \in Items : shown[j] \in Red => mid[j] \in Red
        BY <2>0, <3>2, ShowAllIs
      <3> HIDE DEF mid
      <3>4. /\ ShowAll(mid, ts, "skipped") \in Shown
            /\ \A j \in Items : mid[j] \in Red => ShowAll(mid, ts, "skipped")[j] \in Red
        BY <2>0, <3>3, ShowAllIs
      <3>5. shown' = ShowAll(mid, ts, "skipped")
        BY <2>3 DEF mid
      <3> QED BY <1>1, <2>3, <3>2, <3>3, <3>4, <3>5
    <2> QED BY <2>1, <2>2, <2>3 DEF NextBatch
  <1>3. RunTypes'
    BY <1>1, <1>2 DEF RunInv, RunTypes
  <1>4. RecordTells'
    BY <1>1 DEF RunInv, RecordTells
  <1>5. StreamTellsFailures'
    BY <1>1, <1>2, ItemsAre DEF RunInv, StreamTellsFailures, TestOf, Package
  <1>6. RedTells'
    BY <1>1, <1>2 DEF RunInv, RedTells
  <1>7. RunIsTold'
    BY <1>1, ToldStays
  <1> QED BY <1>3, <1>4, <1>5, <1>6, <1>7 DEF RunInv

LEMMA TestKeeps ==
    ASSUME RunInv, NEW p \in TreePackages, NEW v \in {"passed", "skipped", "failed"},
           NEW inTree \in BOOLEAN, StreamTest(p, v, inTree)
    PROVE  RunInv'
  <1> USE RequestsAssumption
  <1>1. /\ activeRun # NoRequest /\ p \in batch \ streamed
        /\ failing' = IF v = "failed" THEN failing \cup {p} ELSE failing
        /\ UNCHANGED <<reqState, activeRun, activeRecord, record, canceled, known, pickedIn,
                       batches, batch, streamed, exitsBad, latest>>
    BY DEF StreamTest, RunInv, RecordTells
  <1>2. /\ shown' \in Shown
        /\ \A j \in Items : shown[j] \in Red => shown'[j] \in Red
        /\ \A j \in Items : shown'[j] \in Red => shown[j] \in Red \/ v = "failed"
        /\ result' \in [Items -> {"none", "passed", "skipped", "failed"}]
        /\ \A q \in TreePackages : result'[TestOf(q)] = "failed" => shown'[TestOf(q)] \in Red
    <2>0. shown \in Shown /\ v \in Verdict /\ (v \in Red <=> v = "failed") /\ TestOf(p) \in Items
      BY ItemsAre DEF RunInv, RunTypes, Verdict, Red
    <2>1. CASE inTree
      <3>1. /\ shown' = Show(shown, TestOf(p), v) /\ result' = [result EXCEPT ![TestOf(p)] = v]
        BY <2>1 DEF StreamTest
      <3>2. \A q \in TreePackages : TestOf(q) = TestOf(p) => q = p
        BY DEF TestOf
      <3>3. /\ shown' \in Shown
            /\ \A j \in Items : shown[j] \in Red => shown'[j] \in Red
            /\ \A j \in Items : shown'[j] \in Red => shown[j] \in Red \/ (j = TestOf(p) /\ v \in Red)
            /\ v \in Red => shown'[TestOf(p)] \in Red
        BY <2>0, <3>1, ShowIs
      <3> QED BY <2>0, <3>1, <3>2, <3>3, ItemsAre DEF RunInv, RunTypes, StreamTellsFailures
    <2>2. CASE ~inTree
      BY <2>0, <2>2 DEF StreamTest, RunInv, RunTypes, StreamTellsFailures
    <2> QED BY <2>1, <2>2
  <1>3. RunTypes'
    BY <1>1, <1>2 DEF RunInv, RunTypes
  <1>4. RecordTells'
    BY <1>1 DEF RunInv, RecordTells
  <1>5. StreamTellsFailures'
    <2>1. \A q \in TreePackages : Package(q)' = Package(q)
      BY DEF Package
    <2>2. failing' \subseteq batch' /\ failing' \cap streamed' = failing \cap streamed
      BY <1>1 DEF RunInv, StreamTellsFailures
    <2>3. streamed \subseteq TreePackages
      BY DEF RunInv, RunTypes
    <2> QED BY <1>1, <1>2, <2>2, <2>3, ItemsAre DEF RunInv, StreamTellsFailures, TestOf, Package
  <1>6. RedTells'
    BY <1>1, <1>2 DEF RunInv, RedTells
  <1>7. RunIsTold'
    BY <1>1, ToldStays
  <1> QED BY <1>3, <1>4, <1>5, <1>6, <1>7 DEF RunInv

LEMMA PackageKeeps ==
    ASSUME RunInv, NEW p \in TreePackages, NEW v \in {"passed", "skipped", "failed"},
           StreamPackage(p, v)
    PROVE  RunInv'
  <1> USE RequestsAssumption
  <1>1. /\ activeRun # NoRequest /\ p \in batch \ streamed /\ (p \in failing => v = "failed")
        /\ failing' = IF v = "failed" THEN failing \cup {p} ELSE failing
        /\ streamed' = streamed \cup {p}
        /\ shown' = Show(shown, Package(p), v) /\ result' = [result EXCEPT ![Package(p)] = v]
        /\ UNCHANGED <<reqState, activeRun, activeRecord, record, canceled, known, pickedIn,
                       batches, batch, exitsBad, latest>>
    BY DEF StreamPackage, RunInv, RecordTells
  <1>2. /\ shown' \in Shown
        /\ \A j \in Items : shown[j] \in Red => shown'[j] \in Red
        /\ \A j \in Items : shown'[j] \in Red => shown[j] \in Red \/ v = "failed"
        /\ v = "failed" => shown'[Package(p)] \in Red
        /\ result' \in [Items -> {"none", "passed", "skipped", "failed"}]
        /\ \A q \in TreePackages : result'[TestOf(q)] = result[TestOf(q)]
    <2>0. /\ shown \in Shown /\ v \in Verdict /\ (v \in Red <=> v = "failed") /\ Package(p) \in Items
          /\ result \in [Items -> {"none", "passed", "skipped", "failed"}]
      BY ItemsAre DEF RunInv, RunTypes, Verdict, Red
    <2>1. \A q \in TreePackages : TestOf(q) # Package(p)
      BY DEF TestOf, Package
    <2>2. /\ shown' \in Shown
          /\ \A j \in Items : shown[j] \in Red => shown'[j] \in Red
          /\ \A j \in Items : shown'[j] \in Red => shown[j] \in Red \/ (j = Package(p) /\ v \in Red)
          /\ v \in Red => shown'[Package(p)] \in Red
      BY <1>1, <2>0, ShowIs
    <2> QED BY <1>1, <2>0, <2>1, <2>2, ItemsAre
  <1>3. RunTypes'
    BY <1>1, <1>2 DEF RunInv, RunTypes
  <1>4. RecordTells'
    BY <1>1 DEF RunInv, RecordTells
  <1>5. StreamTellsFailures'
    <2>1. failing' \subseteq batch'
      BY <1>1 DEF RunInv, StreamTellsFailures
    <2>2. \A q \in failing' \cap streamed' : shown'[Package(q)] \in Red
      BY <1>1, <1>2, ItemsAre DEF RunInv, RunTypes, StreamTellsFailures
    <2> QED BY <1>1, <1>2, <2>1, <2>2, ItemsAre DEF RunInv, StreamTellsFailures, TestOf, Package
  <1>6. RedTells'
    BY <1>1, <1>2 DEF RunInv, RedTells
  <1>7. RunIsTold'
    BY <1>1, ToldStays
  <1> QED BY <1>3, <1>4, <1>5, <1>6, <1>7 DEF RunInv

LEMMA EndsKeeps ==
    ASSUME RunInv, NEW r \in RunRequests, NEW bad \in BOOLEAN, BatchEnds(r, bad)
    PROVE  RunInv'
  <1> USE RequestsAssumption
  <1>1. /\ activeRun = r /\ activeRun # NoRequest /\ batch # {} /\ batch' = {}
        /\ (failing # {} => bad)
        /\ UNCHANGED <<reqState, activeRun, activeRecord, record, canceled, known, pickedIn,
                       batches, streamed, failing, result, latest>>
    BY DEF BatchEnds, RunInv, RunTypes, RecordTells
  <1>2. shown \in Shown /\ {"skipped", "errored"} \subseteq Verdict /\ "skipped" \notin Red
    BY DEF RunInv, RunTypes, Verdict, Red
  <1> DEFINE left == batch \ streamed
             sel == {Selected(p) : p \in left}
             tests(done) == {TestOf(p) : p \in {q \in left : result[TestOf(q)] = "none"} \ done}
  <1>3. /\ shown' \in Shown /\ exitsBad' \in BOOLEAN
        /\ \A j \in Items : shown[j] \in Red => shown'[j] \in Red
        /\ exitsBad' => exitsBad \/ \E j \in Items : shown'[j] \in Red
        /\ exitsBad => exitsBad'
        /\ r \notin canceled => (bad => exitsBad')
        /\ r \notin canceled => ((\E j \in Items : shown'[j] \in Red) => bad \/ \E j \in Items : shown[j] \in Red)
    <2>1. CASE r \in canceled
      <3> DEFINE mid == ShowAll(shown, sel, "skipped")
                 ts == {TestOf(p) : p \in {q \in left : result[TestOf(q)] = "none"}}
      <3>1. mid \in Shown /\ \A j \in Items : shown[j] \in Red => mid[j] \in Red
        BY <1>2, ShowAllIs
      <3> HIDE DEF mid, ts
      <3>2. /\ ShowAll(mid, ts, "skipped") \in Shown
            /\ \A j \in Items : mid[j] \in Red => ShowAll(mid, ts, "skipped")[j] \in Red
        BY <1>2, <3>1, ShowAllIs
      <3>3. shown' = ShowAll(mid, ts, "skipped") /\ exitsBad' = exitsBad
        BY <2>1 DEF BatchEnds, mid, ts
      <3> QED BY <2>1, <3>1, <3>2, <3>3 DEF RunInv, RunTypes
    <2>2. CASE r \notin canceled /\ ~bad
      <3>1. shown' = shown /\ exitsBad' = (exitsBad \/ bad)
        BY <2>2 DEF BatchEnds, Attributed
      <3> QED BY <1>2, <2>2, <3>1 DEF RunInv, RunTypes
    <2>3. CASE r \notin canceled /\ bad /\ left # {}
      <3> DEFINE mid == ShowAll(shown, sel, "errored")
                 ts == tests(pickedIn)
      <3>1. PICK p \in left : TRUE
        BY <2>3
      <3>2. Selected(p) \in Items \cap sel
        BY <3>1, ItemsAre DEF RunInv, RunTypes
      <3>3. /\ mid \in Shown /\ mid[Selected(p)] \in Red
            /\ \A j \in Items : shown[j] \in Red => mid[j] \in Red
        BY <1>2, <3>2, ShowAllIs
      <3> HIDE DEF mid, ts
      <3>4. /\ ShowAll(mid, ts, "skipped") \in Shown
            /\ \A j \in Items : mid[j] \in Red => ShowAll(mid, ts, "skipped")[j] \in Red
        BY <1>2, <3>3, ShowAllIs
      <3>5. shown' = ShowAll(mid, ts, "skipped") /\ exitsBad' = (exitsBad \/ bad)
        BY <2>3 DEF BatchEnds, Attributed, mid, ts
      <3> QED BY <2>3, <3>2, <3>3, <3>4, <3>5 DEF RunInv, RunTypes
    <2>4. CASE r \notin canceled /\ bad /\ left = {} /\ failing # {}
      <3>1. shown' = shown /\ exitsBad' = (exitsBad \/ bad)
        BY <2>4 DEF BatchEnds, Attributed
      <3>2. PICK p \in failing : p \in TreePackages
        BY <1>1, <2>4 DEF RunInv, RunTypes, StreamTellsFailures
      <3>3. shown[Package(p)] \in Red /\ Package(p) \in Items
        BY <1>1, <2>4, <3>2, ItemsAre DEF RunInv, StreamTellsFailures
      <3> QED BY <1>2, <2>4, <3>1, <3>3 DEF RunInv, RunTypes
    <2>5. CASE r \notin canceled /\ bad /\ left = {} /\ failing = {}
      <3> DEFINE ps == {Package(p) : p \in batch}
      <3>1. shown' = ShowAll(shown, ps, "errored") /\ exitsBad' = (exitsBad \/ bad)
        BY <2>5 DEF BatchEnds, Attributed
      <3>2. PICK p \in batch : p \in TreePackages
        BY <1>1 DEF RunInv, RunTypes
      <3>3. Package(p) \in Items \cap ps
        BY <3>2, ItemsAre
      <3> HIDE DEF ps
      <3>4. /\ ShowAll(shown, ps, "errored") \in Shown
            /\ \A j \in Items : shown[j] \in Red => ShowAll(shown, ps, "errored")[j] \in Red
            /\ ShowAll(shown, ps, "errored")[Package(p)] \in Red
        BY <1>2, <3>3, ShowAllIs
      <3> QED BY <2>5, <3>1, <3>3, <3>4 DEF RunInv, RunTypes
    <2> QED BY <2>1, <2>2, <2>3, <2>4, <2>5
  <1>4. RunTypes'
    BY <1>1, <1>3 DEF RunInv, RunTypes
  <1>5. RecordTells'
    BY <1>1 DEF RunInv, RecordTells
  <1>6. StreamTellsFailures'
    <2>1. failing \subseteq TreePackages
      BY <1>1 DEF RunInv, RunTypes, StreamTellsFailures
    <2> QED BY <1>1, <1>3, <2>1, ItemsAre DEF RunInv, StreamTellsFailures, TestOf, Package
  <1>7. RedTells'
    BY <1>1, <1>3 DEF RunInv, RedTells
  <1>8. RunIsTold'
    BY <1>1, ToldStays
  <1> QED BY <1>4, <1>5, <1>6, <1>7, <1>8 DEF RunInv

LEMMA OverKeeps ==
    ASSUME RunInv, NEW r \in RunRequests, RunOver(r)
    PROVE  RunInv'
  <1> USE RequestsAssumption
  <1>1. /\ reqState[r] = "runs" /\ activeRun = r /\ latest = r /\ batch = {} /\ activeRun' = NoRequest
        /\ reqState' = [reqState EXCEPT ![r] = "over"] /\ activeRecord' = NoRequest
        /\ record' = IF activeRecord = r
                     THEN [record EXCEPT ![r] = IF r \in canceled THEN "cancelled" ELSE "completed"]
                     ELSE record
        /\ UNCHANGED <<canceled, known, pickedIn, batches, batch, streamed, failing, result,
                       exitsBad, latest>>
    BY DEF RunOver, RunInv, RunTypes, RecordTells
  <1>2. /\ shown' \in Shown
        /\ \A j \in Items : shown[j] \in Red => shown'[j] \in Red
        /\ (\E j \in Items : shown'[j] \in Red) => \E j \in Items : shown[j] \in Red
    <2> DEFINE mid == Resolved(shown)
               ts == {t \in Tests : result[t] = "none" /\ t[1] \notin pickedIn}
    <2>1. /\ mid \in Shown /\ \A j \in Items : shown[j] \in Red => mid[j] \in Red
          /\ (\E j \in Items : mid[j] \in Red) => \E j \in Items : shown[j] \in Red
      BY ResolvedIs DEF RunInv
    <2>2. "skipped" \in Verdict \ Red
      BY DEF Verdict, Red
    <2>3. shown' = ShowAll(mid, ts, "skipped")
      BY DEF RunOver
    <2> HIDE DEF mid, ts
    <2>4. /\ ShowAll(mid, ts, "skipped") \in Shown
          /\ \A j \in Items : mid[j] \in Red => ShowAll(mid, ts, "skipped")[j] \in Red
          /\ \A j \in Items : ShowAll(mid, ts, "skipped")[j] \in Red => mid[j] \in Red
      BY <2>1, <2>2, ShowAllIs
    <2> QED BY <2>1, <2>3, <2>4
  <1>3. RunTypes'
    BY <1>1, <1>2 DEF RunInv, RunTypes
  <1>4. RecordTells'
    BY <1>1 DEF RunInv, RunTypes, RecordTells
  <1>5. StreamTellsFailures'
    <2>1. streamed \subseteq TreePackages
      BY DEF RunInv, RunTypes
    <2> QED BY <1>1, <1>2, <2>1, ItemsAre DEF RunInv, StreamTellsFailures, TestOf, Package
  <1>6. RedTells'
    BY <1>1, <1>2 DEF RunInv, RedTells
  <1>7. RunIsTold'
    <2>1. \A q \in RunRequests : reqState'[q] = "over" =>
              record'[q] = IF q \in canceled' THEN "cancelled" ELSE "completed"
      BY <1>4 DEF RecordTells
    <2>2. \A q \in RunRequests : reqState'[q] = "over" /\ q = latest' => q = r
      BY <1>1
    <2>3. r \notin canceled' =>
            ((exitsBad' \/ known' # TreePackages) <=> \E i \in Items : shown'[i] \in Red)
      BY <1>1, <1>2 DEF RunInv, RedTells
    <2> QED BY <2>1, <2>2, <2>3 DEF RunIsTold, Red
  <1> QED BY <1>3, <1>4, <1>5, <1>6, <1>7 DEF RunInv

\* What coverage on save does leaves the runs as they are.
LEMMA ElseKeeps ==
    ASSUME RunInv, UNCHANGED runnerVars
    PROVE  RunInv'
  BY DEF runnerVars, RunInv, RunTypes, RecordTells, StreamTellsFailures, RedTells, RunIsTold,
         TestOf, Package

LEMMA RunStep == RunInv /\ [EditorRunNext]_editorRunVars => RunInv'
  <1> SUFFICES ASSUME RunInv, [EditorRunNext]_editorRunVars PROVE RunInv'
    OBVIOUS
  <1>1. CASE UNCHANGED editorRunVars
    BY <1>1, ElseKeeps DEF editorRunVars
  <1>2. CASE (\E p \in TreePackages : Save(p) \/ CoverBegins(p)) \/ CoverEnds
    BY <1>2, ElseKeeps DEF Save, CoverBegins, CoverEnds
  <1>3. ASSUME NEW r \in RunRequests, Request(r) \/ Stop(r) \/ RunOver(r) PROVE RunInv'
    BY <1>3, RequestKeeps, StopKeeps, OverKeeps
  <1>4. ASSUME NEW r \in RunRequests, NEW lost \in SUBSET TreePackages,
               NEW filtered \in SUBSET TreePackages, RunBegins(r, lost, filtered)
        PROVE  RunInv'
    BY <1>4, BeginsKeeps
  <1>5. ASSUME NEW r \in RunRequests, NEW b \in batches, NextBatch(r, b) PROVE RunInv'
    BY <1>5, NextBatchKeeps
  <1>6. ASSUME NEW r \in RunRequests, NEW bad \in BOOLEAN, BatchEnds(r, bad) PROVE RunInv'
    BY <1>6, EndsKeeps
  <1>7. ASSUME NEW p \in TreePackages, NEW v \in {"passed", "skipped", "failed"},
               (\E inTree \in BOOLEAN : StreamTest(p, v, inTree)) \/ StreamPackage(p, v)
        PROVE  RunInv'
    BY <1>7, TestKeeps, PackageKeeps
  <1> QED BY <1>1, <1>2, <1>3, <1>4, <1>5, <1>6, <1>7 DEF EditorRunNext

(* Coverage on save *)

\* A package saved since its last coverage run is queued, or its run goes on.
CoverTells ==
    /\ coveredAt \in [TreePackages -> Nat] /\ saved \in [TreePackages -> Nat]
    /\ \A p \in TreePackages : coveredAt[p] <= saved[p]
    /\ covering = {} \/ \E p \in TreePackages, n \in Nat :
                          covering = {<<p, n>>} /\ coveredAt[p] <= n /\ n <= saved[p]
    /\ \A p \in TreePackages :
          coveredAt[p] = saved[p] \/ p \in coverQueue \/ <<p, saved[p]>> \in covering

LEMMA CoverStart == EditorRunInit => CoverTells
  BY RequestsAssumption DEF EditorRunInit, EditorRunIn, CoverTells

LEMMA CoverStep == CoverTells /\ [EditorRunNext]_editorRunVars => CoverTells'
  <1> SUFFICES ASSUME CoverTells, [EditorRunNext]_editorRunVars PROVE CoverTells'
    OBVIOUS
  <1> USE DEF CoverTells
  <1>1. ASSUME NEW p \in TreePackages, Save(p) PROVE CoverTells'
    BY <1>1 DEF Save
  <1>2. ASSUME NEW p \in TreePackages, CoverBegins(p) PROVE CoverTells'
    <2>1. covering = {} /\ covering' = {<<p, saved[p]>>} /\ coverQueue' = coverQueue \ {p}
          /\ UNCHANGED <<saved, coveredAt>>
      BY <1>2 DEF CoverBegins
    <2> QED BY <2>1
  <1>3. CASE CoverEnds
    <2>1. PICK p \in TreePackages, n \in Nat :
              covering = {<<p, n>>} /\ coveredAt[p] <= n /\ n <= saved[p]
      BY <1>3 DEF CoverEnds
    <2>2. PICK c \in covering : coveredAt' = [coveredAt EXCEPT ![c[1]] = c[2]]
      BY <1>3 DEF CoverEnds
    <2>3. c = <<p, n>> /\ c[1] = p /\ c[2] = n
      BY <2>1, <2>2
    <2>4. coveredAt' = [coveredAt EXCEPT ![p] = n] /\ coveredAt' \in [TreePackages -> Nat]
      BY <2>2, <2>3
    <2>5. covering' = {} /\ saved' = saved /\ coverQueue' = coverQueue
      BY <1>3 DEF CoverEnds
    <2>6. ASSUME NEW q \in TreePackages
          PROVE  coveredAt'[q] <= saved'[q] /\ (coveredAt'[q] = saved'[q] \/ q \in coverQueue')
      <3>1. CASE q = p
        BY <2>1, <2>4, <2>5, <3>1
      <3>2. CASE q # p
        BY <2>1, <2>4, <2>5, <3>2
      <3> QED BY <3>1, <3>2
    <2> QED BY <2>4, <2>5, <2>6
  <1>4. CASE UNCHANGED coverVars
    BY <1>4 DEF coverVars
  <1> QED BY <1>1, <1>2, <1>3, <1>4
      DEF EditorRunNext, editorRunVars, Request, Stop, RunOver, RunBegins, NextBatch, BatchEnds,
          StreamTest, StreamPackage

\* An editor's run that is over told what its command line said (runner.ts,
\* batchRunner.ts).
THEOREM RunsAreTold == EditorRunSpec => []RunIsTold
  <1>1. EditorRunSpec => []RunInv
    BY RunStart, RunStep, PTL DEF EditorRunSpec
  <1> QED BY <1>1, PTL DEF RunInv

\* For any saves: a package saved during its coverage run is measured again
\* (coverOnSave.ts).
THEOREM SavesAreMeasured == EditorRunSpec => []SaveIsMeasured
  <1>1. CoverTells => SaveIsMeasured
    BY DEF CoverTells, SaveIsMeasured
  <1> QED BY <1>1, CoverStart, CoverStep, PTL DEF EditorRunSpec

------------------------------------------------------------------------------
(* The editor's discovery *)

Requests == [folder : Folders, scope : SUBSET EditorPackages]
Reads == UNION {[q -> Nat \X BOOLEAN] : q \in SUBSET EditorPackages}
ScanRecords ==
    [folder : Folders, scope : SUBSET EditorPackages, attempt : Nat, looked : BOOLEAN, read : Reads]
DiscoveryTypes ==
    /\ edits \in [EditorPackages -> Nat] /\ cacheOf \in [EditorPackages -> Nat]
    /\ snapshot \in [EditorPackages -> Nat]
    /\ asked \in [Folders -> SUBSET EditorPackages]
    /\ pendingReqs \in Seq(Requests) /\ scan \in SUBSET ScanRecords

Waits(w) == \E i \in DOMAIN pendingReqs : pendingReqs[i].folder = w
Scanned(w) == \E s \in scan : s.folder = w
Fresh(s) == \A p \in s.scope : s.read[p][1] = edits[p] /\ (s.read[p][2] <=> p \in breaks)

\* One request at most waits for a folder, and it is the folder's last.
QueueTells ==
    /\ \A i, j \in DOMAIN pendingReqs : pendingReqs[i].folder = pendingReqs[j].folder => i = j
    /\ \A i \in DOMAIN pendingReqs : pendingReqs[i].scope = asked[pendingReqs[i].folder]
    /\ \A w \in Folders : asked[w] \subseteq FolderPackages[w]
    /\ scan = {} => pendingReqs = <<>>
\* A scan no request waits behind is of the last one.
ScanTells ==
    /\ \A s, t \in scan : s = t
    /\ \A s \in scan :
          /\ s.scope \subseteq FolderPackages[s.folder]
          /\ s.read # NotRead => s.read \in [s.scope -> Nat \X BOOLEAN]
          /\ ~Waits(s.folder) => s.scope = asked[s.folder] /\ (s.read # NotRead => Fresh(s))
\* A folder with no request left shows what it was asked for.
SettledTells ==
    \A w \in Folders :
        ~Waits(w) /\ ~Scanned(w) /\ w \notin gaveUp => \A p \in asked[w] : Shows(p)
TreeTells ==
    \A w \in Folders \ toWrite : \A p \in FolderPackages[w] : snapshot[p] = cacheOf[p]

DiscoveryInv == DiscoveryTypes /\ QueueTells /\ ScanTells /\ SettledTells /\ TreeTells

\* A package is of its folder, and of no other.
LEMMA FolderIs ==
    ASSUME NEW p \in EditorPackages
    PROVE  /\ FolderOf(p) \in Folders /\ p \in FolderPackages[FolderOf(p)]
           /\ \A w \in Folders : p \in FolderPackages[w] => w = FolderOf(p)
  <1>1. \E w \in Folders : p \in FolderPackages[w]
    BY DEF EditorPackages
  <1>2. FolderOf(p) \in Folders /\ p \in FolderPackages[FolderOf(p)]
    BY <1>1 DEF FolderOf
  <1>3. ASSUME NEW w \in Folders, p \in FolderPackages[w] PROVE w = FolderOf(p)
    BY <1>2, <1>3, FoldersAssumption
  <1> QED BY <1>2, <1>3

LEMMA DiscoveryStart == DiscoveryInit => DiscoveryInv
  <1> SUFFICES ASSUME DiscoveryInit PROVE DiscoveryInv
    OBVIOUS
  <1>1. /\ edits = [p \in EditorPackages |-> 0] /\ cacheOf = edits /\ snapshot = edits
        /\ scan = {} /\ pendingReqs = <<>> /\ asked = [w \in Folders |-> {}]
    BY DEF DiscoveryInit, DiscoveryIn
  <1>2. DiscoveryTypes
    BY <1>1 DEF DiscoveryTypes
  <1>3. QueueTells /\ ScanTells /\ SettledTells
    BY <1>1 DEF QueueTells, ScanTells, SettledTells
  <1>4. TreeTells
    BY <1>1 DEF TreeTells
  <1> QED BY <1>2, <1>3, <1>4 DEF DiscoveryInv

\* Without one element, the others keep their order.
Minus(s, f) == SubSeq(s, 1, f - 1) \o SubSeq(s, f + 1, Len(s))
LEMMA MinusIs ==
    ASSUME NEW R, NEW s \in Seq(R), NEW f \in 1..Len(s)
    PROVE  /\ Minus(s, f) \in Seq(R) /\ Len(Minus(s, f)) = Len(s) - 1
           /\ \A i \in 1..(Len(s) - 1) : Minus(s, f)[i] = IF i < f THEN s[i] ELSE s[i + 1]
  <1> DEFINE a == SubSeq(s, 1, f - 1)
             b == SubSeq(s, f + 1, Len(s))
  <1>1. Len(s) \in Nat /\ \A i \in 1..Len(s) : s[i] \in R
    BY LenProperties, ElementOfSeq
  <1>2. /\ a \in Seq(R) /\ Len(a) = f - 1
        /\ \A i \in 1..(f - 1) : a[i] = s[i]
    BY <1>1, SubSeqProperties
  <1>3. /\ b \in Seq(R) /\ Len(b) = Len(s) - f
        /\ \A i \in 1..(Len(s) - f) : b[i] = s[f + i]
    BY <1>1, SubSeqProperties
  <1> HIDE DEF a, b
  <1>4. Minus(s, f) = a \o b
    BY DEF Minus, a, b
  <1>5. /\ a \o b \in Seq(R) /\ Len(a \o b) = Len(a) + Len(b)
        /\ \A i \in 1..(Len(a) + Len(b)) :
              (a \o b)[i] = IF i <= Len(a) THEN a[i] ELSE b[i - Len(a)]
    BY <1>2, <1>3, ConcatProperties
  <1>6. Len(a) + Len(b) = Len(s) - 1
    BY <1>1, <1>2, <1>3
  <1>7. ASSUME NEW i \in 1..(Len(s) - 1)
        PROVE  (a \o b)[i] = IF i < f THEN s[i] ELSE s[i + 1]
    <2>1. (a \o b)[i] = IF i <= f - 1 THEN a[i] ELSE b[i - (f - 1)]
      BY <1>2, <1>5, <1>6
    <2>2. CASE i < f
      BY <1>1, <1>2, <2>1, <2>2
    <2>3. CASE ~(i < f)
      <3>1. i - (f - 1) \in 1..(Len(s) - f) /\ f + (i - (f - 1)) = i + 1 /\ ~(i <= f - 1)
        BY <1>1, <2>3
      <3> QED BY <1>3, <2>1, <2>3, <3>1
    <2> QED BY <2>2, <2>3
  <1> QED BY <1>4, <1>5, <1>6, <1>7

\* What remains of the requests are those of the other folders.
OthersOf(q, w) ==
    /\ q \in Seq(Requests)
    /\ \A i, j \in DOMAIN q : q[i].folder = q[j].folder => i = j
    /\ \A i \in DOMAIN q : q[i].folder # w /\ \E j \in DOMAIN pendingReqs : q[i] = pendingReqs[j]
    /\ \A j \in DOMAIN pendingReqs : pendingReqs[j].folder # w =>
          \E i \in DOMAIN q : q[i] = pendingReqs[j]

LEMMA WithoutOneIs ==
    ASSUME DiscoveryTypes, QueueTells, NEW w
    PROVE  OthersOf(WithoutOne(w), w)
  <1> DEFINE waiting == {i \in DOMAIN pendingReqs : pendingReqs[i].folder = w}
             f == CHOOSE i \in waiting : \A j \in waiting : i <= j
             q == Minus(pendingReqs, f)
  <1>0. /\ pendingReqs \in Seq(Requests)
        /\ \A i, j \in DOMAIN pendingReqs : pendingReqs[i].folder = pendingReqs[j].folder => i = j
        /\ DOMAIN pendingReqs = 1..Len(pendingReqs) /\ Len(pendingReqs) \in Nat
    BY LenProperties DEF DiscoveryTypes, QueueTells
  <1>1. CASE waiting = {}
    <2>1. WithoutOne(w) = pendingReqs
      BY <1>1 DEF WithoutOne
    <2> QED BY <1>0, <1>1, <2>1 DEF OthersOf
  <1>2. CASE waiting # {}
    <2>1. PICK i \in waiting : TRUE
      BY <1>2
    <2>2. \A j \in waiting : i = j
      BY <1>0, <2>1
    <2>3. i \in DOMAIN pendingReqs /\ pendingReqs[i].folder = w /\ \A j \in waiting : i <= j
      BY <1>0, <2>2
    <2>4. f = i
      <3>1. \E k \in waiting : \A j \in waiting : k <= j
        BY <2>1, <2>3
      <3>2. f \in waiting
        BY <3>1
      <3> QED BY <2>2, <3>2
    <2>5. WithoutOne(w) = q
      BY <1>2, Zenon DEF WithoutOne, Minus
    <2> DEFINE n == Len(pendingReqs)
    <2>6. q \in Seq(Requests) /\ Len(q) = n - 1 /\ DOMAIN q = 1..(n - 1)
          /\ \A k \in 1..(n - 1) : q[k] = IF k < i THEN pendingReqs[k] ELSE pendingReqs[k + 1]
      <3> HIDE DEF f
      <3>1. f \in 1..Len(pendingReqs)
        BY <1>0, <2>3, <2>4
      <3>2. /\ q \in Seq(Requests) /\ Len(q) = n - 1
            /\ \A k \in 1..(n - 1) : q[k] = IF k < f THEN pendingReqs[k] ELSE pendingReqs[k + 1]
        BY <1>0, <3>1, MinusIs
      <3> QED BY <2>4, <3>2, LenProperties
    <2> HIDE DEF q, f, waiting
    <2>7. ASSUME NEW k \in DOMAIN q
          PROVE  \E j \in DOMAIN pendingReqs : j # i /\ q[k] = pendingReqs[j]
      <3>1. k \in 1..(n - 1) /\ k \in DOMAIN pendingReqs /\ k + 1 \in DOMAIN pendingReqs
        BY <1>0, <2>6
      <3>2. CASE k < i
        BY <2>6, <3>1, <3>2
      <3>3. CASE ~(k < i)
        <4>1. q[k] = pendingReqs[k + 1] /\ k + 1 # i
          BY <1>0, <2>3, <2>6, <3>1, <3>3
        <4> QED BY <3>1, <4>1
      <3> QED BY <3>2, <3>3
    <2>8. ASSUME NEW j \in DOMAIN pendingReqs, j # i
          PROVE  \E k \in DOMAIN q : q[k] = pendingReqs[j]
      <3>1. CASE j < i
        BY <1>0, <2>3, <2>6, <3>1
      <3>2. CASE j > i
        <4>1. j - 1 \in 1..(n - 1) /\ q[j - 1] = pendingReqs[j]
          BY <1>0, <2>3, <2>6, <3>2
        <4> QED BY <2>6, <4>1
      <3> QED BY <1>0, <2>3, <2>8, <3>1, <3>2
    <2>9. ASSUME NEW k \in DOMAIN q, NEW l \in DOMAIN q, q[k].folder = q[l].folder
          PROVE  k = l
      <3> DEFINE at(m) == IF m < i THEN m ELSE m + 1
      <3>1. \A m \in DOMAIN q : at(m) \in DOMAIN pendingReqs /\ q[m] = pendingReqs[at(m)]
        BY <1>0, <2>3, <2>6
      <3>2. at(k) = at(l)
        <4> HIDE DEF at
        <4> QED BY <1>0, <2>9, <3>1
      <3> QED BY <1>0, <2>3, <2>6, <3>2
    <2>10. \A k \in DOMAIN q : q[k].folder # w
      BY <1>0, <2>3, <2>7
    <2>11. \A k \in DOMAIN q : q[k].folder # w /\ \E j \in DOMAIN pendingReqs : q[k] = pendingReqs[j]
      BY <2>7, <2>10
    <2>12. \A j \in DOMAIN pendingReqs : pendingReqs[j].folder # w =>
              \E k \in DOMAIN q : q[k] = pendingReqs[j]
      BY <2>3, <2>8
    <2>13. q \in Seq(Requests) /\ \A k, l \in DOMAIN q : q[k].folder = q[l].folder => k = l
      BY <2>6, <2>9
    <2>14. OthersOf(q, w)
      BY <2>11, <2>12, <2>13 DEF OthersOf
    <2> QED BY <2>5, <2>14
  <1> QED BY <1>1, <1>2

\* A request that is made waits, or is scanned at once.
LEMMA DiscoverGives ==
    ASSUME DiscoveryTypes, QueueTells, NEW w \in Folders, NEW scope,
           scope \subseteq FolderPackages[w], Discover(w, scope)
    PROVE  /\ QueueTells' /\ pendingReqs' \in Seq(Requests)
           /\ asked' \in [Folders -> SUBSET EditorPackages]
           /\ asked' = [asked EXCEPT ![w] = scope]
           /\ \A v \in Folders : v # w => (Waits(v)' <=> Waits(v))
           /\ scan # {} => Waits(w)' /\ scan' = scan
           /\ scan = {} => scan' = Start(w, scope)
  <1>0. /\ pendingReqs \in Seq(Requests) /\ asked \in [Folders -> SUBSET EditorPackages]
        /\ \A i, j \in DOMAIN pendingReqs : pendingReqs[i].folder = pendingReqs[j].folder => i = j
        /\ \A i \in DOMAIN pendingReqs : pendingReqs[i].scope = asked[pendingReqs[i].folder]
        /\ \A v \in Folders : asked[v] \subseteq FolderPackages[v]
        /\ \A i \in DOMAIN pendingReqs : pendingReqs[i] \in Requests
    BY LenProperties, ElementOfSeq DEF DiscoveryTypes, QueueTells
  <1>1. scope \in SUBSET EditorPackages
    BY DEF EditorPackages
  <1>2. asked' = [asked EXCEPT ![w] = scope] /\ asked' \in [Folders -> SUBSET EditorPackages]
        /\ asked'[w] = scope /\ \A v \in Folders : v # w => asked'[v] = asked[v]
    BY <1>0, <1>1 DEF Discover
  <1>3. \A v \in Folders : asked'[v] \subseteq FolderPackages[v]
    BY <1>0, <1>2
  <1>4. CASE scan = {}
    <2>1. scan' = Start(w, scope) /\ pendingReqs' = pendingReqs
      BY <1>4 DEF Discover
    <2>2. pendingReqs = <<>> /\ scan' # {}
      BY <1>4, <2>1 DEF QueueTells, Start
    <2>3. QueueTells'
      BY <1>3, <2>1, <2>2 DEF QueueTells
    <2>4. \A v \in Folders : Waits(v)' <=> Waits(v)
      BY <2>1 DEF Waits
    <2> QED BY <1>0, <1>2, <1>4, <2>1, <2>3, <2>4
  <1>5. CASE scan # {}
    <2> DEFINE q == WithoutOne(w)
               r == [folder |-> w, scope |-> scope]
    <2>1. scan' = scan /\ pendingReqs' = Append(q, r)
      BY <1>5 DEF Discover
    <2>2. OthersOf(q, w)
      BY WithoutOneIs
    <2>3. q \in Seq(Requests) /\ r \in Requests /\ r.folder = w /\ r.scope = scope
      BY <1>1, <2>2 DEF OthersOf, Requests
    <2> HIDE DEF q, r
    <2>4. /\ pendingReqs' \in Seq(Requests) /\ Len(q) \in Nat
          /\ DOMAIN q = 1..Len(q) /\ DOMAIN pendingReqs' = 1..(Len(q) + 1)
          /\ pendingReqs'[Len(q) + 1] = r /\ \A i \in 1..Len(q) : pendingReqs'[i] = q[i]
      BY <2>1, <2>3, AppendProperties, LenProperties
    <2>5. \A i \in DOMAIN q : q[i].folder \in Folders /\ q[i].folder # w
                              /\ q[i].scope = asked[q[i].folder]
      BY <1>0, <2>2 DEF OthersOf, Requests
    <2>6. Waits(w)'
      BY <2>3, <2>4 DEF Waits
    <2>7. ASSUME NEW v \in Folders, v # w PROVE Waits(v)' <=> Waits(v)
      <3>1. (\E i \in DOMAIN pendingReqs' : pendingReqs'[i].folder = v)
            <=> \E i \in DOMAIN q : q[i].folder = v
        BY <2>3, <2>4, <2>7
      <3>2. (\E i \in DOMAIN pendingReqs : pendingReqs[i].folder = v)
            <=> \E i \in DOMAIN q : q[i].folder = v
        BY <2>2, <2>7 DEF OthersOf
      <3> QED BY <3>1, <3>2 DEF Waits
    <2>8. \A i, j \in DOMAIN pendingReqs' :
             pendingReqs'[i].folder = pendingReqs'[j].folder => i = j
      <3>1. \A i, j \in DOMAIN q : q[i].folder = q[j].folder => i = j
        BY <2>2 DEF OthersOf
      <3> QED BY <2>3, <2>4, <2>5, <3>1
    <2>9. \A i \in DOMAIN pendingReqs' : pendingReqs'[i].scope = asked'[pendingReqs'[i].folder]
      BY <1>2, <2>3, <2>4, <2>5
    <2>10. QueueTells'
      BY <1>3, <1>5, <2>1, <2>8, <2>9 DEF QueueTells
    <2> QED BY <1>2, <1>5, <2>1, <2>4, <2>6, <2>7, <2>10
  <1> QED BY <1>4, <1>5

LEMMA ScanIs ==
    ASSUME NEW w \in Folders, NEW scope \in SUBSET EditorPackages
    PROVE  \A s \in Start(w, scope) : /\ s \in ScanRecords /\ s.folder = w /\ s.scope = scope
                                      /\ s.read = NotRead
  <1>1. {} \in SUBSET EditorPackages /\ NotRead \in [{} -> Nat \X BOOLEAN]
    BY DEF NotRead
  <1>2. NotRead \in Reads
    BY <1>1 DEF Reads
  <1>3. ASSUME NEW r \in Reads
        PROVE  [folder |-> w, scope |-> scope, attempt |-> 1, looked |-> FALSE, read |-> r] \in ScanRecords
    BY DEF ScanRecords
  <1> QED BY <1>2, <1>3 DEF Start

\* The scan that follows is of the first request that waits.
LEMMA NextScanGives ==
    ASSUME DiscoveryTypes, QueueTells, NextScan, asked' = asked
    PROVE  /\ QueueTells' /\ pendingReqs' \in Seq(Requests)
           /\ \A s, t \in scan' : s = t
           /\ \A s \in scan' : /\ s \in ScanRecords /\ s.scope = asked[s.folder] /\ s.read = NotRead
                               /\ s.scope \subseteq FolderPackages[s.folder]
           /\ \A w \in Folders : Waits(w) => Waits(w)' \/ \E s \in scan' : s.folder = w
  <1>0. /\ pendingReqs \in Seq(Requests) /\ asked \in [Folders -> SUBSET EditorPackages]
        /\ \A i, j \in DOMAIN pendingReqs : pendingReqs[i].folder = pendingReqs[j].folder => i = j
        /\ \A i \in DOMAIN pendingReqs : pendingReqs[i].scope = asked[pendingReqs[i].folder]
        /\ \A v \in Folders : asked[v] \subseteq FolderPackages[v]
        /\ \A i \in DOMAIN pendingReqs : pendingReqs[i] \in Requests
    BY LenProperties, ElementOfSeq DEF DiscoveryTypes, QueueTells
  <1>1. CASE pendingReqs = <<>>
    <2>1. scan' = {} /\ pendingReqs' = <<>>
      BY <1>1 DEF NextScan
    <2>2. QueueTells'
      BY <1>0, <2>1 DEF QueueTells
    <2>3. \A w \in Folders : ~Waits(w)
      BY <1>1 DEF Waits
    <2> QED BY <1>1, <2>1, <2>2, <2>3
  <1>2. CASE pendingReqs # <<>>
    <2> DEFINE r == pendingReqs[1]
               q == pendingReqs'
    <2>1. scan' = Start(r.folder, r.scope) /\ q = Tail(pendingReqs)
      BY <1>2 DEF NextScan
    <2>2. /\ Len(pendingReqs) \in Nat \ {0} /\ DOMAIN pendingReqs = 1..Len(pendingReqs)
          /\ q \in Seq(Requests) /\ Len(q) = Len(pendingReqs) - 1
          /\ DOMAIN q = 1..(Len(pendingReqs) - 1)
          /\ \A i \in 1..(Len(pendingReqs) - 1) : q[i] = pendingReqs[i + 1]
      BY <1>0, <1>2, <2>1, LenProperties, EmptySeq, HeadTailProperties
    <2>3. 1 \in DOMAIN pendingReqs /\ r \in Requests /\ r.scope = asked[r.folder]
          /\ r.folder \in Folders /\ r.scope \subseteq FolderPackages[r.folder]
          /\ r.scope \in SUBSET EditorPackages
      BY <1>0, <2>2 DEF Requests
    <2> HIDE DEF r, q
    <2>5. \A s \in scan' : /\ s \in ScanRecords /\ s.folder = r.folder /\ s.scope = r.scope
                           /\ s.read = NotRead
      BY <2>1, <2>3, ScanIs
    <2>6. scan' # {} /\ \A s, t \in scan' : s = t
      BY <2>1 DEF Start
    <2>7. \A i, j \in DOMAIN q : q[i].folder = q[j].folder => i = j
      <3> SUFFICES ASSUME NEW i \in DOMAIN q, NEW j \in DOMAIN q, q[i].folder = q[j].folder
                   PROVE  i = j
        OBVIOUS
      <3>1. i + 1 \in DOMAIN pendingReqs /\ j + 1 \in DOMAIN pendingReqs
            /\ pendingReqs[i + 1].folder = pendingReqs[j + 1].folder
        BY <2>2
      <3>2. i + 1 = j + 1
        BY <1>0, <3>1
      <3> QED BY <2>2, <3>2
    <2>8. \A i \in DOMAIN q : q[i].scope = asked[q[i].folder]
      <3>1. \A i \in DOMAIN q : i + 1 \in DOMAIN pendingReqs /\ q[i] = pendingReqs[i + 1]
        BY <2>2
      <3> QED BY <1>0, <3>1
    <2>9. QueueTells'
      BY <1>0, <2>6, <2>7, <2>8 DEF QueueTells, q
    <2>10. ASSUME NEW w \in Folders, Waits(w) PROVE Waits(w)' \/ \E s \in scan' : s.folder = w
      <3>1. PICK i \in DOMAIN pendingReqs : pendingReqs[i].folder = w
        BY <2>10 DEF Waits
      <3>2. CASE i = 1
        BY <2>5, <2>6, <3>1, <3>2 DEF r
      <3>3. CASE i # 1
        <4>1. i - 1 \in DOMAIN q /\ q[i - 1] = pendingReqs[i]
          BY <2>2, <3>1, <3>3
        <4> QED BY <3>1, <4>1 DEF Waits, q
      <3> QED BY <3>2, <3>3
    <2> QED BY <2>2, <2>3, <2>5, <2>6, <2>9, <2>10 DEF q
  <1> QED BY <1>1, <1>2

\* A package of one folder is of no other.
LEMMA ApartAre ==
    ASSUME NEW v \in Folders, NEW w \in Folders, v # w, NEW p, p \in FolderPackages[v]
    PROVE  p \notin FolderPackages[w]
  BY FoldersAssumption

\* A request disturbs only what it asks for.
LEMMA RequestDisturbs ==
    ASSUME DiscoveryInv, NEW w \in Folders, NEW scope, scope \subseteq FolderPackages[w],
           Discover(w, scope), edits' \in [EditorPackages -> Nat],
           \A q \in EditorPackages \ scope :
               edits'[q] = edits[q] /\ (q \in breaks' <=> q \in breaks),
           cacheOf' = cacheOf, badge' = badge, gaveUp' = gaveUp, toWrite' = toWrite,
           snapshot' = snapshot
    PROVE  DiscoveryInv'
  <1>1. DiscoveryTypes /\ QueueTells /\ ScanTells /\ SettledTells /\ TreeTells
    BY DEF DiscoveryInv
  <1>2. /\ QueueTells' /\ pendingReqs' \in Seq(Requests)
        /\ asked' \in [Folders -> SUBSET EditorPackages]
        /\ asked' = [asked EXCEPT ![w] = scope]
        /\ \A v \in Folders : v # w => (Waits(v)' <=> Waits(v))
        /\ scan # {} => Waits(w)' /\ scan' = scan
        /\ scan = {} => scan' = Start(w, scope)
    BY <1>1, DiscoverGives
  <1>3. scope \in SUBSET EditorPackages
    BY DEF EditorPackages
  <1>4. asked'[w] = scope /\ \A v \in Folders : v # w => asked'[v] = asked[v]
    BY <1>1, <1>2 DEF DiscoveryTypes
  <1>5. DiscoveryTypes'
    <2>1. scan' \in SUBSET ScanRecords
      <3>1. \A s \in Start(w, scope) : s \in ScanRecords
        BY <1>3, ScanIs
      <3>2. scan \in SUBSET ScanRecords
        BY <1>1 DEF DiscoveryTypes
      <3> QED BY <1>2, <3>1, <3>2
    <2> QED BY <1>1, <1>2, <2>1 DEF DiscoveryTypes
  <1>6. \A v \in Folders : v # w => \A q \in FolderPackages[v] :
           edits'[q] = edits[q] /\ (q \in breaks' <=> q \in breaks)
    <2> SUFFICES ASSUME NEW v \in Folders, v # w, NEW q \in FolderPackages[v]
                 PROVE  edits'[q] = edits[q] /\ (q \in breaks' <=> q \in breaks)
      OBVIOUS
    <2>1. q \in EditorPackages /\ q \notin scope
      BY ApartAre DEF EditorPackages
    <2> QED BY <2>1
  <1>7. ScanTells'
    <2>1. CASE scan = {}
      <3>1. \A s \in scan' : s.folder = w /\ s.scope = scope /\ s.read = NotRead
        BY <1>2, <1>3, <2>1, ScanIs
      <3>2. \A s, t \in scan' : s = t
        BY <1>2, <2>1 DEF Start
      <3> QED BY <1>4, <3>1, <3>2 DEF ScanTells
    <2>2. CASE scan # {}
      <3>1. scan' = scan /\ Waits(w)'
        BY <1>2, <2>2
      <3>2. ASSUME NEW s \in scan, ~Waits(s.folder)'
            PROVE  s.scope = asked'[s.folder] /\ (s.read # NotRead => Fresh(s)')
        <4>1. s.folder \in Folders /\ s.folder # w
          BY <1>1, <3>1, <3>2 DEF DiscoveryTypes, ScanRecords
        <4>2. ~Waits(s.folder)
          BY <1>2, <3>2, <4>1
        <4>3. /\ s.scope = asked[s.folder] /\ s.scope \subseteq FolderPackages[s.folder]
              /\ s.read # NotRead => Fresh(s)
          BY <1>1, <4>2 DEF ScanTells
        <4>4. s.scope = asked'[s.folder]
          BY <1>4, <4>1, <4>3
        <4>5. ASSUME s.read # NotRead PROVE Fresh(s)'
          <5>1. \A q \in s.scope : edits'[q] = edits[q] /\ (q \in breaks' <=> q \in breaks)
            BY <1>6, <4>1, <4>3
          <5>2. \A q \in s.scope : s.read[q][1] = edits[q] /\ (s.read[q][2] <=> q \in breaks)
            BY <4>3, <4>5 DEF Fresh
          <5>3. \A q \in s.scope : s.read[q][1] = edits'[q] /\ (s.read[q][2] <=> q \in breaks')
            BY <5>1, <5>2
          <5> QED BY <5>3 DEF Fresh
        <4> QED BY <4>4, <4>5
      <3>3. \A s, t \in scan : s = t
        BY <1>1 DEF ScanTells
      <3>4. \A s \in scan : /\ s.scope \subseteq FolderPackages[s.folder]
                            /\ s.read # NotRead => s.read \in [s.scope -> Nat \X BOOLEAN]
        BY <1>1 DEF ScanTells
      <3> QED BY <3>1, <3>2, <3>3, <3>4 DEF ScanTells
    <2> QED BY <2>1, <2>2
  <1>8. SettledTells'
    <2> SUFFICES ASSUME NEW v \in Folders, ~Waits(v)', ~Scanned(v)', v \notin gaveUp',
                        NEW p \in asked'[v]
                 PROVE  Shows(p)'
      BY DEF SettledTells
    <2>1. v # w
      <3>1. CASE scan = {}
        <4> DEFINE s == [folder |-> w, scope |-> scope, attempt |-> 1, looked |-> FALSE,
                         read |-> NotRead]
        <4>1. s \in scan' /\ s.folder = w
          BY <1>2, <3>1 DEF Start
        <4> QED BY <4>1 DEF Scanned
      <3> QED BY <1>2, <3>1
    <2>2. ~Waits(v) /\ ~Scanned(v) /\ v \notin gaveUp /\ p \in asked[v]
      BY <1>2, <1>4, <2>1 DEF Scanned
    <2>3. Shows(p)
      BY <1>1, <2>2 DEF SettledTells
    <2>4. p \in FolderPackages[v]
      BY <1>1, <2>2 DEF QueueTells
    <2>5. edits'[p] = edits[p] /\ (p \in breaks' <=> p \in breaks)
      BY <1>6, <2>1, <2>4
    <2> QED BY <2>3, <2>5 DEF Shows
  <1>9. TreeTells'
    BY <1>1 DEF TreeTells
  <1> QED BY <1>2, <1>5, <1>7, <1>8, <1>9 DEF DiscoveryInv

\* A scan that goes on keeps its folder and its scope.
LEMMA ScanGoesOn ==
    ASSUME DiscoveryInv, NEW s \in scan, NEW t \in ScanRecords, scan' = {t},
           t.folder = s.folder, t.scope = s.scope,
           t.read # NotRead => \/ t.read = s.read
                               \/ Fresh(t) /\ t.read \in [s.scope -> Nat \X BOOLEAN],
           edits' = edits, breaks' = breaks, pendingReqs' = pendingReqs, asked' = asked,
           cacheOf' = cacheOf, badge' = badge, gaveUp' = gaveUp, toWrite' = toWrite,
           snapshot' = snapshot
    PROVE  DiscoveryInv'
  <1>1. DiscoveryTypes /\ QueueTells /\ ScanTells /\ SettledTells /\ TreeTells
    BY DEF DiscoveryInv
  <1>2. DiscoveryTypes'
    BY <1>1 DEF DiscoveryTypes
  <1>3. \A w \in Folders : Waits(w)' <=> Waits(w)
    BY DEF Waits
  <1>4. \A w \in Folders : Scanned(w)' <=> Scanned(w)
    <2>1. \A u \in scan : u = s
      BY <1>1 DEF ScanTells
    <2> QED BY <2>1 DEF Scanned
  <1>5. QueueTells'
    BY <1>1 DEF QueueTells
  <1>6. ScanTells'
    <2>1. s.folder \in Folders /\ s.scope \subseteq FolderPackages[s.folder]
      BY <1>1 DEF DiscoveryTypes, ScanRecords, ScanTells
    <2>2. ASSUME ~Waits(t.folder)'
          PROVE  t.scope = asked'[t.folder] /\ (t.read # NotRead => Fresh(t)')
      <3>1. s.scope = asked[s.folder] /\ (s.read # NotRead => Fresh(s))
        BY <1>1, <1>3, <2>1, <2>2 DEF ScanTells
      <3>2. t.read # NotRead => Fresh(t)
        BY <3>1 DEF Fresh
      <3> QED BY <3>1, <3>2 DEF Fresh
    <2>3. t.read # NotRead => t.read \in [t.scope -> Nat \X BOOLEAN]
      BY <1>1 DEF ScanTells
    <2> QED BY <2>1, <2>2, <2>3 DEF ScanTells
  <1>7. SettledTells'
    BY <1>1, <1>3, <1>4 DEF SettledTells, Shows
  <1>8. TreeTells'
    BY <1>1 DEF TreeTells
  <1> QED BY <1>2, <1>5, <1>6, <1>7, <1>8 DEF DiscoveryInv

\* A scan that ends leaves its folder served, given up, or asked for again.
LEMMA ScanEnds ==
    ASSUME DiscoveryInv, NEW s \in scan, NextScan, TreeTells',
           asked' = asked, edits' = edits, breaks' = breaks, snapshot' = snapshot,
           cacheOf' \in [EditorPackages -> Nat],
           \A p \in EditorPackages \ s.scope :
               cacheOf'[p] = cacheOf[p] /\ (p \in badge' <=> p \in badge),
           \A v \in Folders : v # s.folder => (v \in gaveUp' <=> v \in gaveUp),
           ~Waits(s.folder) => s.folder \in gaveUp' \/ \A p \in s.scope : Shows(p)'
    PROVE  DiscoveryInv'
  <1>1. DiscoveryTypes /\ QueueTells /\ ScanTells /\ SettledTells
    BY DEF DiscoveryInv
  <1>2. /\ QueueTells' /\ pendingReqs' \in Seq(Requests)
        /\ \A t, u \in scan' : t = u
        /\ \A t \in scan' : /\ t \in ScanRecords /\ t.scope = asked[t.folder] /\ t.read = NotRead
                            /\ t.scope \subseteq FolderPackages[t.folder]
        /\ \A w \in Folders : Waits(w) => Waits(w)' \/ \E t \in scan' : t.folder = w
    BY <1>1, NextScanGives
  <1>3. DiscoveryTypes'
    BY <1>1, <1>2 DEF DiscoveryTypes
  <1>4. ScanTells'
    BY <1>2 DEF ScanTells
  <1>5. SettledTells'
    <2> SUFFICES ASSUME NEW v \in Folders, ~Waits(v)', ~Scanned(v)', v \notin gaveUp',
                        NEW p \in asked'[v]
                 PROVE  Shows(p)'
      BY DEF SettledTells
    <2>1. ~Waits(v)
      BY <1>2 DEF Scanned
    <2>2. s.folder \in Folders /\ s.scope \subseteq FolderPackages[s.folder]
      BY <1>1 DEF DiscoveryTypes, ScanRecords, ScanTells
    <2>3. CASE v = s.folder
      <3>1. s.scope = asked[v]
        BY <1>1, <2>1, <2>3 DEF ScanTells
      <3> QED BY <2>1, <2>3, <3>1
    <2>4. CASE v # s.folder
      <3>1. p \in FolderPackages[v] /\ p \in asked[v]
        BY <1>1 DEF QueueTells
      <3>2. p \in EditorPackages /\ p \notin s.scope
        BY <2>2, <2>4, <3>1, ApartAre DEF EditorPackages
      <3>3. ~Scanned(v)
        BY <1>1, <2>4 DEF Scanned, ScanTells
      <3>4. Shows(p)
        BY <1>1, <2>1, <2>4, <3>1, <3>3 DEF SettledTells
      <3> QED BY <3>2, <3>4 DEF Shows
    <2> QED BY <2>3, <2>4
  <1> QED BY <1>2, <1>3, <1>4, <1>5 DEF DiscoveryInv

LEMMA AnswersKeep ==
    ASSUME DiscoveryInv, NEW s \in scan, ScanAnswers(s)
    PROVE  DiscoveryInv'
  <1> DEFINE good == {p \in s.scope : ~s.read[p][2]}
  <1>1. DiscoveryTypes /\ QueueTells /\ ScanTells /\ SettledTells /\ TreeTells
    BY DEF DiscoveryInv
  <1>2. /\ s.read # NotRead /\ NextScan
        /\ cacheOf' = [p \in EditorPackages |-> IF p \in good THEN s.read[p][1] ELSE cacheOf[p]]
        /\ badge' = (badge \ s.scope) \cup (s.scope \ good)
        /\ gaveUp' = gaveUp \ {s.folder} /\ toWrite' = toWrite \cup {s.folder}
        /\ edits' = edits /\ breaks' = breaks /\ asked' = asked /\ snapshot' = snapshot
    BY DEF ScanAnswers
  <1>3. s \in ScanRecords /\ s.folder \in Folders /\ s.scope \subseteq FolderPackages[s.folder]
        /\ s.scope \subseteq EditorPackages
    BY <1>1 DEF DiscoveryTypes, ScanRecords, ScanTells
  <1>4. \A p \in EditorPackages \ s.scope :
           cacheOf'[p] = cacheOf[p] /\ (p \in badge' <=> p \in badge)
    BY <1>2
  <1>5. ~Waits(s.folder) => \A p \in s.scope : Shows(p)'
    <2> SUFFICES ASSUME ~Waits(s.folder), NEW p \in s.scope PROVE Shows(p)'
      OBVIOUS
    <2>1. s.read[p][1] = edits[p] /\ (s.read[p][2] <=> p \in breaks)
      BY <1>1, <1>2 DEF ScanTells, Fresh
    <2>2. CASE p \in good
      BY <1>2, <1>3, <2>1, <2>2 DEF Shows
    <2>3. CASE p \notin good
      BY <1>2, <2>1, <2>3 DEF Shows
    <2> QED BY <2>2, <2>3
  <1>6. cacheOf' \in [EditorPackages -> Nat]
    <2>1. \A p \in good : s.read[p][1] \in Nat
      BY <1>1, <1>2 DEF ScanTells
    <2> QED BY <1>1, <1>2, <2>1 DEF DiscoveryTypes
  <1>7. TreeTells'
    <2> SUFFICES ASSUME NEW w \in Folders \ toWrite', NEW p \in FolderPackages[w]
                 PROVE  snapshot'[p] = cacheOf'[p]
      BY DEF TreeTells
    <2>1. w \in Folders /\ w # s.folder /\ w \notin toWrite
      BY <1>2
    <2>2. p \in EditorPackages /\ p \notin s.scope
      BY <1>3, <2>1, ApartAre DEF EditorPackages
    <2> QED BY <1>1, <1>2, <1>4, <2>1, <2>2 DEF TreeTells
  <1> QED BY <1>2, <1>4, <1>5, <1>6, <1>7, ScanEnds

LEMMA FailsKeep ==
    ASSUME DiscoveryInv, NEW s \in scan, NEW retryable, ScanFails(s, retryable)
    PROVE  DiscoveryInv'
  <1>1. DiscoveryTypes /\ QueueTells /\ ScanTells /\ SettledTells /\ TreeTells
    BY DEF DiscoveryInv
  <1>2. /\ edits' = edits /\ breaks' = breaks /\ asked' = asked /\ snapshot' = snapshot
        /\ cacheOf' = cacheOf /\ badge' = badge /\ toWrite' = toWrite
    BY DEF ScanFails
  <1>3. CASE retryable /\ s.attempt < MaxAttempts
    <2> DEFINE t == [s EXCEPT !.attempt = @ + 1, !.looked = FALSE, !.read = NotRead]
    <2>1. scan' = {t} /\ pendingReqs' = pendingReqs /\ gaveUp' = gaveUp
      BY <1>3 DEF ScanFails
    <2>2. NotRead \in Reads
      <3>1. {} \in SUBSET EditorPackages /\ NotRead \in [{} -> Nat \X BOOLEAN]
        BY DEF NotRead
      <3> QED BY <3>1 DEF Reads
    <2>3. t \in ScanRecords /\ t.folder = s.folder /\ t.scope = s.scope /\ t.read = NotRead
      <3>1. s \in ScanRecords
        BY <1>1 DEF DiscoveryTypes
      <3> DEFINE t1 == [s EXCEPT !.attempt = @ + 1]
                 t2 == [t1 EXCEPT !.looked = FALSE]
                 t3 == [t2 EXCEPT !.read = NotRead]
      <3>2. t1 \in ScanRecords /\ t1.folder = s.folder /\ t1.scope = s.scope
        BY <3>1 DEF ScanRecords
      <3>3. t = t3
        BY <3>1 DEF ScanRecords
      <3> HIDE DEF t1
      <3>4. t2 \in ScanRecords /\ t2.folder = s.folder /\ t2.scope = s.scope
        BY <3>2 DEF ScanRecords
      <3> HIDE DEF t2
      <3>5. t3 \in ScanRecords /\ t3.folder = s.folder /\ t3.scope = s.scope /\ t3.read = NotRead
        BY <2>2, <3>4 DEF ScanRecords
      <3> QED BY <3>3, <3>5
    <2> HIDE DEF t
    <2> QED BY <1>2, <2>1, <2>3, ScanGoesOn
  <1>4. CASE ~(retryable /\ s.attempt < MaxAttempts)
    <2>1. NextScan /\ gaveUp' = gaveUp \cup {s.folder}
      BY <1>4 DEF ScanFails
    <2>2. TreeTells'
      BY <1>1, <1>2 DEF TreeTells
    <2> QED BY <1>1, <1>2, <2>1, <2>2, ScanEnds DEF DiscoveryTypes
  <1> QED BY <1>3, <1>4

LEMMA LooksKeep ==
    ASSUME DiscoveryInv, NEW s \in scan, ScanLooks(s) \/ ScanReads(s)
    PROVE  DiscoveryInv'
  <1>1. DiscoveryTypes /\ QueueTells /\ ScanTells /\ SettledTells /\ TreeTells
    BY DEF DiscoveryInv
  <1>2. /\ edits' = edits /\ breaks' = breaks /\ asked' = asked /\ snapshot' = snapshot
        /\ cacheOf' = cacheOf /\ badge' = badge /\ toWrite' = toWrite /\ gaveUp' = gaveUp
    BY DEF ScanLooks, ScanReads
  <1>3. s \in ScanRecords /\ s.scope \in SUBSET EditorPackages
    BY <1>1 DEF DiscoveryTypes, ScanRecords
  <1>4. CASE ScanLooks(s) /\ Waits(s.folder)
    <2>1. NextScan
      BY <1>4 DEF ScanLooks, Waits
    <2>2. TreeTells'
      BY <1>1, <1>2 DEF TreeTells
    <2> QED BY <1>1, <1>2, <1>4, <2>1, <2>2, ScanEnds DEF DiscoveryTypes
  <1>5. CASE ScanLooks(s) /\ ~Waits(s.folder)
    <2> DEFINE t == [s EXCEPT !.looked = TRUE]
    <2>1. scan' = {t} /\ pendingReqs' = pendingReqs
      BY <1>5 DEF ScanLooks, Waits
    <2>2. t \in ScanRecords /\ t.folder = s.folder /\ t.scope = s.scope /\ t.read = s.read
      BY <1>3 DEF ScanRecords
    <2> HIDE DEF t
    <2> QED BY <1>2, <2>1, <2>2, ScanGoesOn
  <1>6. CASE ScanReads(s)
    <2> DEFINE r == [p \in s.scope |-> <<edits[p], p \in breaks>>]
               t == [s EXCEPT !.read = r]
    <2>1. scan' = {t} /\ pendingReqs' = pendingReqs
      BY <1>6 DEF ScanReads
    <2>2. r \in [s.scope -> Nat \X BOOLEAN]
      <3>1. \A p \in s.scope : edits[p] \in Nat /\ (p \in breaks) \in BOOLEAN
        BY <1>1, <1>3 DEF DiscoveryTypes
      <3> QED BY <3>1
    <2>3. r \in Reads
      BY <1>3, <2>2 DEF Reads
    <2>4. \A p \in s.scope : r[p][1] = edits[p] /\ (r[p][2] <=> p \in breaks)
      OBVIOUS
    <2> HIDE DEF r
    <2>5. t \in ScanRecords /\ t.folder = s.folder /\ t.scope = s.scope /\ t.read = r
      BY <1>3, <2>3 DEF ScanRecords
    <2> HIDE DEF t
    <2>6. Fresh(t)
      BY <2>4, <2>5 DEF Fresh
    <2> QED BY <1>2, <2>1, <2>2, <2>5, <2>6, ScanGoesOn
  <1> QED BY <1>4, <1>5, <1>6

LEMMA DiscoveryStep == DiscoveryInv /\ [DiscoveryNext]_discoveryVars => DiscoveryInv'
  <1> SUFFICES ASSUME DiscoveryInv, [DiscoveryNext]_discoveryVars PROVE DiscoveryInv'
    OBVIOUS
  <1>0. DiscoveryTypes /\ QueueTells /\ ScanTells /\ SettledTells /\ TreeTells
    BY DEF DiscoveryInv
  <1>1. CASE UNCHANGED discoveryVars
    <2>1. /\ edits' = edits /\ breaks' = breaks /\ asked' = asked /\ snapshot' = snapshot
          /\ cacheOf' = cacheOf /\ badge' = badge /\ toWrite' = toWrite /\ gaveUp' = gaveUp
          /\ scan' = scan /\ pendingReqs' = pendingReqs
      BY <1>1 DEF discoveryVars
    <2>2. DiscoveryTypes' /\ QueueTells' /\ TreeTells'
      BY <1>0, <2>1 DEF DiscoveryTypes, QueueTells, TreeTells
    <2>3. ScanTells' /\ SettledTells'
      BY <1>0, <2>1 DEF ScanTells, SettledTells, Waits, Scanned, Fresh, Shows
    <2> QED BY <2>2, <2>3 DEF DiscoveryInv
  <1>2. ASSUME NEW p \in EditorPackages, FileChange(p) PROVE DiscoveryInv'
    <2> DEFINE w == FolderOf(p)
    <2>1. w \in Folders /\ {p} \subseteq FolderPackages[w]
      BY FolderIs
    <2>2. /\ Discover(w, {p}) /\ edits' = [edits EXCEPT ![p] = @ + 1]
          /\ breaks' \in {breaks \ {p}, breaks \cup {p}}
          /\ cacheOf' = cacheOf /\ badge' = badge /\ gaveUp' = gaveUp
          /\ toWrite' = toWrite /\ snapshot' = snapshot
      BY <1>2 DEF FileChange
    <2> HIDE DEF w
    <2>3. edits' \in [EditorPackages -> Nat]
      BY <1>0, <2>2 DEF DiscoveryTypes
    <2>4. \A q \in EditorPackages \ {p} : edits'[q] = edits[q] /\ (q \in breaks' <=> q \in breaks)
      BY <1>0, <2>2 DEF DiscoveryTypes
    <2> QED BY <2>1, <2>2, <2>3, <2>4, RequestDisturbs
  <1>3. ASSUME NEW w \in Folders, Refresh(w) PROVE DiscoveryInv'
    <2>1. /\ Discover(w, FolderPackages[w]) /\ edits' = edits /\ breaks' = breaks
          /\ cacheOf' = cacheOf /\ badge' = badge /\ gaveUp' = gaveUp
          /\ toWrite' = toWrite /\ snapshot' = snapshot
      BY <1>3 DEF Refresh
    <2> QED BY <1>0, <2>1, RequestDisturbs DEF DiscoveryTypes
  <1>4. ASSUME NEW w \in Folders, WriteSnapshot(w) PROVE DiscoveryInv'
    <2>1. /\ toWrite' = toWrite \ {w}
          /\ snapshot' = [p \in EditorPackages |-> IF p \in FolderPackages[w] THEN cacheOf[p]
                                                   ELSE snapshot[p]]
          /\ edits' = edits /\ breaks' = breaks /\ asked' = asked
          /\ cacheOf' = cacheOf /\ badge' = badge /\ gaveUp' = gaveUp
          /\ scan' = scan /\ pendingReqs' = pendingReqs
      BY <1>4 DEF WriteSnapshot
    <2>2. DiscoveryTypes' /\ QueueTells'
      BY <1>0, <2>1 DEF DiscoveryTypes, QueueTells
    <2>3. ScanTells' /\ SettledTells'
      BY <1>0, <2>1 DEF ScanTells, SettledTells, Waits, Scanned, Fresh, Shows
    <2>4. TreeTells'
      <3> SUFFICES ASSUME NEW v \in Folders \ toWrite', NEW p \in FolderPackages[v]
                   PROVE  snapshot'[p] = cacheOf'[p]
        BY DEF TreeTells
      <3>1. p \in EditorPackages
        BY DEF EditorPackages
      <3>2. CASE v = w
        BY <2>1, <3>1, <3>2
      <3>3. CASE v # w
        <4>1. p \notin FolderPackages[w] /\ v \notin toWrite
          BY <2>1, <3>3, ApartAre
        <4> QED BY <1>0, <2>1, <3>1, <4>1 DEF TreeTells
      <3> QED BY <3>2, <3>3
    <2> QED BY <2>2, <2>3, <2>4 DEF DiscoveryInv
  <1>5. ASSUME NEW s \in scan, ScanLooks(s) \/ ScanReads(s) PROVE DiscoveryInv'
    BY <1>5, LooksKeep
  <1>6. ASSUME NEW s \in scan, ScanAnswers(s) PROVE DiscoveryInv'
    BY <1>6, AnswersKeep
  <1>7. ASSUME NEW s \in scan, NEW retryable \in BOOLEAN, ScanFails(s, retryable)
        PROVE  DiscoveryInv'
    BY <1>7, FailsKeep
  <1> QED BY <1>1, <1>2, <1>3, <1>4, <1>5, <1>6, <1>7 DEF DiscoveryNext

LEMMA DiscoveryInvServes == DiscoveryInv => LastRequestServed
  <1> SUFFICES ASSUME DiscoveryInv PROVE LastRequestServed
    OBVIOUS
  <1>1. DiscoveryTypes /\ SettledTells /\ TreeTells
    BY DEF DiscoveryInv
  <1>2. Idle => \A w \in Folders \ gaveUp : \A p \in asked[w] : Shows(p)
    BY <1>1 DEF Idle, SettledTells, Waits, Scanned
  <1>3. ASSUME toWrite = {} PROVE snapshot = cacheOf
    <2>1. \A p \in EditorPackages : snapshot[p] = cacheOf[p]
      BY <1>1, <1>3 DEF TreeTells, EditorPackages
    <2> QED BY <1>1, <2>1 DEF DiscoveryTypes
  <1> QED BY <1>2, <1>3 DEF LastRequestServed

\* For any folders and packages: once discovery is idle, what the last request of
\* a folder asked for is shown as it is, unless its scan gave up; and with no
\* write due the snapshot on disk is the cache (discovery.ts,
\* discoverySnapshotStore.ts).
THEOREM RequestsAreServed == DiscoverySpec => []LastRequestServed
  <1>1. DiscoverySpec => []DiscoveryInv
    BY DiscoveryStart, DiscoveryStep, PTL DEF DiscoverySpec
  <1> QED BY <1>1, DiscoveryInvServes, PTL

\* For any folders, packages, requests and sessions: what the editor shows is what
\* the command line said, of the last state asked for, and what it stops is its own
\* (runner.ts, watch.ts, discovery.ts, coverOnSave.ts, processRegistry.ts).
THEOREM EditorShowsTheTruth ==
    EditorRunSpec /\ EditorWatchSpec /\ DiscoverySpec /\ EditorProcsSpec => []EditorIsTrue
  BY RunsAreTold, SavesAreMeasured, EventsReachTheirCycle, RequestsAreServed, SignalsReachOwnOnly,
     PTL DEF EditorIsTrue

------------------------------------------------------------------------------
(* The upgrade of a project's command raised *)

\* What the plan may do to a module: a release at or above the floor, whose go
\* line does not move the module's language version.
MayMove(m, r) ==
    /\ m \in CliModules /\ r \in Releases /\ r >= CliFloor
    /\ GoLineFits(ReleaseLine[r], goLine[m])
Moves == CliModules \X Releases
PlanTells ==
    /\ pin \in [CliModules -> {NoPin} \cup Releases]
    /\ goLine = [m \in CliModules |-> goLine[m]]
    /\ pinnedDirs \subseteq CliModules
    /\ plan \in Seq(Moves)
    /\ \A i \in DOMAIN plan : MayMove(plan[i][1], plan[i][2])
    /\ \A i, j \in DOMAIN plan : plan[i][1] = plan[j][1] => plan[i][2] = plan[j][2]
\* A plan is there while an upgrade runs and nothing else, and a go get is its
\* first step.
UpgradeTells ==
    /\ upgradeState # "upgrading" \/ looking => plan = NoPlan
    /\ looking => upgradeState = "upgrading"
    /\ getting # {} => upgradeState = "upgrading" /\ ~looking
CliPlanInv == PlanTells /\ UpgradeTells

\* A set of releases has a newest one.
LEMMA NewestIs ==
    ASSUME NEW rs \in SUBSET Releases, rs # {}
    PROVE  Newest(rs) \in rs
  <1>1. PICK top \in Nat : Releases \subseteq 1..top
    BY CliAssumption
  <1> DEFINE T == {n \in Nat : top - n \in rs}
  <1>2. T # {}
    <2>1. PICK r \in rs : TRUE
      OBVIOUS
    <2>2. r \in 1..top /\ top - r \in Nat /\ top - (top - r) = r
      BY <1>1, <2>1
    <2> QED BY <2>1, <2>2
  <1>3. PICK n \in T : \A k \in T : ~(<<k, n>> \in OpToRel(<, Nat))
    BY <1>2, NatLessThanWellFounded, WFMin
  <1>4. ASSUME NEW q \in rs PROVE q <= top - n
    <2>1. q \in 1..top /\ top - q \in Nat /\ top - (top - q) = q /\ n \in Nat
      BY <1>1
    <2>2. top - q \in T /\ <<top - q, n>> \in Nat \X Nat
      BY <2>1
    <2>3. ~(top - q < n)
      BY <1>3, <2>2 DEF OpToRel
    <2> QED BY <2>1, <2>3
  <1>5. \E r \in rs : \A q \in rs : q <= r
    BY <1>4
  <1> QED BY <1>5 DEF Newest

LEMMA NotLessThanItself ==
    ASSUME NEW r \in Releases
    PROVE  ~GoLess(ReleaseLine[r], ReleaseLine[r])
  <1>1. ReleaseLine[r] \in Int \X Int \X Int
    BY CliAssumption
  <1>2. \A i \in DOMAIN ReleaseLine[r] : ReleaseLine[r][i] \in Int
    BY <1>1
  <1> QED BY <1>2 DEF GoLess

LEMMA CliStart == EditorCliInit => CliPlanInv
  <1> SUFFICES ASSUME EditorCliInit PROVE CliPlanInv
    OBVIOUS
  <1>1. /\ goLine \in [CliModules -> ModuleLines] /\ pin \in [CliModules -> {NoPin} \cup Releases]
        /\ upgradeState = "idle" /\ pinnedDirs = {} /\ plan = NoPlan /\ looking = FALSE /\ getting = {}
    BY DEF EditorCliInit, ProjectIn
  <1>2. plan \in Seq(Moves) /\ DOMAIN plan = {}
    BY <1>1 DEF NoPlan
  <1>3. goLine = [m \in CliModules |-> goLine[m]] /\ DOMAIN goLine = CliModules
    BY <1>1
  <1>4. PlanTells
    BY <1>1, <1>2, <1>3 DEF PlanTells
  <1>5. UpgradeTells
    BY <1>1 DEF UpgradeTells
  <1> QED BY <1>4, <1>5 DEF CliPlanInv

\* What the lookup plans may be done.
LEMMA LookUpKeeps ==
    ASSUME CliPlanInv, NEW resolved \in ReleaseAnswers, LookUp(resolved)
    PROVE  CliPlanInv'
  <1> DEFINE upgrades == PlanUpgrade(pinnedDirs, resolved)
             best(m) == Newest(Fit(goLine[m], resolved))
  <1>1. PlanTells /\ UpgradeTells
    BY DEF CliPlanInv
  <1>2. /\ looking /\ looking' = FALSE /\ upgradeState' \in {"idle", "upgrading"}
        /\ pin' = pin /\ goLine' = goLine /\ pinnedDirs' = pinnedDirs /\ getting' = getting
        /\ upgradeState' = "idle" => upgrades = {}
    BY DEF LookUp, projectVars
  <1>3. PICK order \in [1..Cardinality(upgrades) -> upgrades] : plan' = order
    BY DEF LookUp
  <1>4. \A e \in upgrades : /\ e \in Moves /\ MayMove(e[1], e[2]) /\ e[2] = best(e[1])
    <2> SUFFICES ASSUME NEW m \in pinnedDirs, Fit(goLine[m], resolved) # {}
                 PROVE  /\ <<m, best(m)>> \in Moves /\ MayMove(m, best(m))
      BY DEF PlanUpgrade
    <2>1. resolved \subseteq Releases /\ \A r \in resolved : r >= CliFloor
      BY DEF ReleaseAnswers
    <2>2. Fit(goLine[m], resolved) \in SUBSET Releases
      BY <2>1 DEF Fit
    <2>3. best(m) \in Fit(goLine[m], resolved)
      BY <2>2, NewestIs
    <2>4. /\ best(m) \in Releases /\ best(m) >= CliFloor
          /\ GoLineFits(ReleaseLine[best(m)], goLine[m]) /\ m \in CliModules
      BY <1>1, <2>1, <2>3 DEF Fit, PlanTells
    <2> HIDE DEF best
    <2> QED BY <2>4 DEF MayMove, Moves
  <1>5. IsFiniteSet(upgrades)
    <2>1. IsFiniteSet(Releases)
      <3>1. PICK top \in Nat : Releases \subseteq 1..top
        BY CliAssumption
      <3>2. IsFiniteSet(1..top)
        BY FS_Interval
      <3> QED BY <3>1, <3>2, FS_Subset
    <2>2. IsFiniteSet(Moves)
      BY <2>1, CliAssumption, FS_Product DEF Moves
    <2> QED BY <1>4, <2>2, FS_Subset
  <1>6. Cardinality(upgrades) \in Nat /\ (upgrades = {} => Cardinality(upgrades) = 0)
    BY <1>5, FS_CardinalityType, FS_EmptySet
  <1> HIDE DEF upgrades
  <1>7. plan' \in Seq(Moves) /\ DOMAIN plan' = 1..Cardinality(upgrades)
        /\ \A i \in DOMAIN plan' : plan'[i] \in upgrades
    <2>1. order \in [1..Cardinality(upgrades) -> Moves]
      BY <1>3, <1>4
    <2> QED BY <1>3, <1>6, <2>1, SeqDef
  <1> HIDE DEF best
  <1>8. \A i \in DOMAIN plan' : MayMove(plan'[i][1], plan'[i][2])
    BY <1>4, <1>7
  <1>9. \A i, j \in DOMAIN plan' : plan'[i][1] = plan'[j][1] => plan'[i][2] = plan'[j][2]
    BY <1>4, <1>7
  <1>10. PlanTells'
    BY <1>1, <1>2, <1>7, <1>8, <1>9 DEF PlanTells, MayMove
  <1>11. ASSUME upgrades = {} PROVE plan' = NoPlan
    <2>1. Len(plan') = 0
      BY <1>6, <1>7, <1>11, LenProperties
    <2> QED BY <1>7, <2>1, EmptySeq DEF NoPlan
  <1>12. UpgradeTells'
    BY <1>1, <1>2, <1>11 DEF UpgradeTells
  <1> QED BY <1>10, <1>12 DEF CliPlanInv

\* What a go get that went well leaves of the plan.
LEMMA GoGetKeeps ==
    ASSUME CliPlanInv, NEW ok \in BOOLEAN, GoGetEnds(ok)
    PROVE  CliPlanInv' /\ UpgradeStep
  <1> DEFINE m == plan[1][1]
             r == plan[1][2]
             raised == IF GoLess(goLine[m], ReleaseLine[r]) THEN ReleaseLine[r] ELSE goLine[m]
  <1>1. PlanTells /\ UpgradeTells
    BY DEF CliPlanInv
  <1>2. /\ plan # NoPlan /\ getting = {m} /\ getting' = {}
        /\ pinnedDirs' = pinnedDirs /\ looking' = looking
        /\ plan' = IF ok THEN Tail(plan) ELSE NoPlan
        /\ upgradeState' = IF plan' = NoPlan THEN "idle" ELSE "upgrading"
    BY DEF GoGetEnds
  <1>3. /\ plan \in Seq(Moves) /\ Len(plan) \in Nat \ {0} /\ DOMAIN plan = 1..Len(plan)
        /\ \A i \in DOMAIN plan : plan[i] \in Moves
    BY <1>1, <1>2, EmptySeq, LenProperties, ElementOfSeq DEF PlanTells, NoPlan
  <1>4. 1 \in DOMAIN plan /\ m \in CliModules /\ r \in Releases /\ r >= CliFloor
        /\ GoLineFits(ReleaseLine[r], goLine[m])
    <2>1. 1 \in DOMAIN plan
      BY <1>3
    <2>2. MayMove(plan[1][1], plan[1][2])
      BY <1>1, <2>1 DEF PlanTells
    <2> QED BY <2>1, <2>2 DEF MayMove
  <1>5. UpgradeTells'
    BY <1>1, <1>2 DEF UpgradeTells
  <1>6. CASE ~ok
    <2>1. pin' = pin /\ goLine' = goLine /\ plan' = <<>>
      BY <1>2, <1>6 DEF GoGetEnds, NoPlan
    <2> HIDE DEF m, r, raised
    <2>2. PlanTells'
      <3>1. plan' \in Seq(Moves) /\ DOMAIN plan' = {}
        BY <2>1
      <3> QED BY <1>1, <1>2, <2>1, <3>1 DEF PlanTells
    <2> QED BY <1>5, <2>1, <2>2 DEF CliPlanInv, UpgradeStep
  <1>7. CASE ok
    <2>1. /\ pin' = [pin EXCEPT ![m] = r] /\ goLine' = [goLine EXCEPT ![m] = raised]
          /\ plan' = Tail(plan)
      BY <1>2, <1>7 DEF GoGetEnds
    <2>2. raised[1] = goLine[m][1] /\ (raised = goLine[m] \/ raised = ReleaseLine[r])
      <3>1. CASE GoLess(goLine[m], ReleaseLine[r])
        <4>1. ReleaseLine[r] = <<goLine[m][1], 3, 0>>
          BY <1>4, <3>1 DEF GoLineFits
        <4> QED BY <3>1, <4>1
      <3>2. CASE ~GoLess(goLine[m], ReleaseLine[r])
        BY <3>2
      <3> QED BY <3>1, <3>2
    <2>3. /\ plan' \in Seq(Moves) /\ Len(plan') = Len(plan) - 1
          /\ DOMAIN plan' = 1..(Len(plan) - 1)
          /\ \A i \in 1..(Len(plan) - 1) : plan'[i] = plan[i + 1]
      BY <1>2, <1>3, <2>1, HeadTailProperties, LenProperties DEF NoPlan
    <2>4. \A i \in DOMAIN plan' : i + 1 \in DOMAIN plan /\ plan'[i] = plan[i + 1]
      BY <1>3, <2>3
    <2> HIDE DEF raised
    <2>5. /\ pin' \in [CliModules -> {NoPin} \cup Releases] /\ DOMAIN goLine' = CliModules
          /\ goLine' = [n \in CliModules |-> goLine'[n]]
          /\ pin'[m] = r /\ goLine'[m] = raised
          /\ \A n \in CliModules : n # m => pin'[n] = pin[n] /\ goLine'[n] = goLine[n]
      <3> HIDE DEF m, r
      <3> QED BY <1>1, <1>4, <2>1 DEF PlanTells
    <2>6. UpgradeStep
      <3> HIDE DEF m, r
      <3> QED BY <1>2, <1>4, <2>2, <2>5 DEF UpgradeStep
    <2>7. ASSUME NEW i \in DOMAIN plan'
          PROVE  /\ plan'[i][1] \in CliModules /\ plan'[i][2] \in Releases
                 /\ plan'[i][2] >= CliFloor
                 /\ GoLineFits(ReleaseLine[plan'[i][2]], goLine'[plan'[i][1]])
      <3>1. i + 1 \in DOMAIN plan /\ plan'[i] = plan[i + 1]
        BY <2>4
      <3> DEFINE n == plan[i + 1][1]
                 q == plan[i + 1][2]
      <3>2. n \in CliModules /\ q \in Releases /\ q >= CliFloor /\ GoLineFits(ReleaseLine[q], goLine[n])
        BY <1>1, <3>1 DEF PlanTells, MayMove
      <3>3. n = m => q = r
        BY <1>1, <1>4, <3>1 DEF PlanTells
      <3> HIDE DEF n, q, m, r
      <3>4. GoLineFits(ReleaseLine[q], goLine'[n])
        <4>1. CASE n # m \/ raised = goLine[m]
          BY <2>5, <3>2, <4>1
        <4>2. CASE n = m /\ raised = ReleaseLine[r]
          <5>1. ~GoLess(ReleaseLine[r], ReleaseLine[r])
            BY <1>4, NotLessThanItself
          <5> QED BY <2>5, <3>3, <4>2, <5>1 DEF GoLineFits
        <4> QED BY <2>2, <4>1, <4>2
      <3> QED BY <3>1, <3>2, <3>4 DEF n, q
    <2>8. \A i, j \in DOMAIN plan' : plan'[i][1] = plan'[j][1] => plan'[i][2] = plan'[j][2]
      BY <1>1, <2>4 DEF PlanTells
    <2>9. PlanTells'
      BY <1>1, <1>2, <2>3, <2>5, <2>7, <2>8 DEF PlanTells, MayMove
    <2> QED BY <1>5, <2>6, <2>9 DEF CliPlanInv
  <1> QED BY <1>6, <1>7

LEMMA CliPlanStep == CliPlanInv /\ [EditorCliNext]_cliVars => CliPlanInv' /\ [UpgradeStep]_cliVars
  <1> SUFFICES ASSUME CliPlanInv, [EditorCliNext]_cliVars
               PROVE  CliPlanInv' /\ [UpgradeStep]_cliVars
    OBVIOUS
  <1>0. PlanTells /\ UpgradeTells
    BY DEF CliPlanInv
  <1>1. CASE /\ pin' = pin /\ goLine' = goLine /\ pinnedDirs' = pinnedDirs /\ plan' = plan
             /\ upgradeState' = upgradeState /\ looking' = looking /\ getting' = getting
    <2>1. PlanTells' /\ UpgradeTells'
      BY <1>0, <1>1 DEF PlanTells, UpgradeTells, MayMove
    <2> QED BY <1>1, <2>1 DEF CliPlanInv, UpgradeStep
  <1>2. CASE UNCHANGED cliVars
    BY <1>1, <1>2 DEF cliVars, projectVars
  <1>3. ASSUME NEW byUser \in BOOLEAN, BuildCliCommand(byUser)
        PROVE  CliPlanInv' /\ [UpgradeStep]_cliVars
    <2>1. /\ pin' = pin /\ goLine' = goLine /\ plan' = plan
          /\ looking' = looking /\ getting' = getting
      BY <1>3 DEF BuildCliCommand, projectVars
    <2>2. \/ pinnedDirs' = pinnedDirs /\ upgradeState' = upgradeState
          \/ upgradeState = "idle" /\ upgradeState' = "asking" /\ pinnedDirs' = Pinning
      BY <1>3 DEF BuildCliCommand, ShowUpgradeDialog
    <2>3. pinnedDirs' \subseteq CliModules
      BY <1>0, <2>2 DEF Pinning, PlanTells
    <2>4. PlanTells' /\ UpgradeTells'
      BY <1>0, <2>1, <2>2, <2>3 DEF PlanTells, UpgradeTells, MayMove
    <2> QED BY <2>1, <2>4 DEF CliPlanInv, UpgradeStep
  <1>4. ASSUME NEW upgrade \in BOOLEAN, Answer(upgrade)
        PROVE  CliPlanInv' /\ [UpgradeStep]_cliVars
    <2>1. /\ pin' = pin /\ goLine' = goLine /\ plan' = plan /\ pinnedDirs' = pinnedDirs
          /\ getting' = getting /\ looking' = upgrade /\ upgradeState = "asking"
          /\ upgradeState' = IF upgrade THEN "upgrading" ELSE "idle"
      BY <1>4 DEF Answer, projectVars
    <2>2. PlanTells' /\ UpgradeTells'
      BY <1>0, <2>1 DEF PlanTells, UpgradeTells, MayMove
    <2> QED BY <2>1, <2>2 DEF CliPlanInv, UpgradeStep
  <1>5. ASSUME NEW resolved \in ReleaseAnswers, LookUp(resolved)
        PROVE  CliPlanInv' /\ [UpgradeStep]_cliVars
    BY <1>5, LookUpKeeps DEF LookUp, projectVars, UpgradeStep
  <1>6. ASSUME NEW m \in CliModules, NEW v \in Releases, NEW raised \in ModuleLines,
               EditGoMod(m, v, raised)
        PROVE  CliPlanInv' /\ [UpgradeStep]_cliVars
    <2>1. /\ pin' = [pin EXCEPT ![m] = v] /\ goLine' = [goLine EXCEPT ![m] = raised]
          /\ plan' = plan /\ pinnedDirs' = pinnedDirs /\ getting' = getting /\ looking' = looking
          /\ upgradeState = "asking" /\ upgradeState' = upgradeState
      BY <1>6 DEF EditGoMod
    <2>2. plan = <<>> /\ getting = {}
      BY <1>0, <2>1 DEF UpgradeTells, NoPlan
    <2>3. PlanTells'
      BY <1>0, <2>1, <2>2 DEF PlanTells
    <2>4. UpgradeTells'
      BY <1>0, <2>1 DEF UpgradeTells
    <2> QED BY <2>2, <2>3, <2>4 DEF CliPlanInv, UpgradeStep
  <1>7. CASE ClearBinaryCache
    BY <1>1, <1>7 DEF ClearBinaryCache, projectVars
  <1>8. CASE GoGetStarts
    <2>1. /\ pin' = pin /\ goLine' = goLine /\ plan' = plan /\ pinnedDirs' = pinnedDirs
          /\ looking' = looking /\ upgradeState' = upgradeState
          /\ upgradeState = "upgrading" /\ ~looking
      BY <1>8 DEF GoGetStarts, projectVars
    <2>2. PlanTells' /\ UpgradeTells'
      BY <1>0, <2>1 DEF PlanTells, UpgradeTells, MayMove
    <2> QED BY <2>1, <2>2 DEF CliPlanInv, UpgradeStep
  <1>9. ASSUME NEW ok \in BOOLEAN, GoGetEnds(ok)
        PROVE  CliPlanInv' /\ [UpgradeStep]_cliVars
    BY <1>9, GoGetKeeps
  <1> QED BY <1>2, <1>3, <1>4, <1>5, <1>6, <1>7, <1>8, <1>9 DEF EditorCliNext

\* For any modules, go lines and releases: an upgrade moves no module to a newer
\* language version, nor to a release below the floor (cli.ts, planUpgrade).
THEOREM UpgradesKeepGo == EditorCliSpec => UpgradeKeepsGo
  <1> QED BY CliStart, CliPlanStep, PTL DEF EditorCliSpec, UpgradeKeepsGo

\* For any sessions, children, modules and releases: a child whose host died
\* stays on record until it is gone, and an upgrade moves no module to a newer
\* Go nor below the floor (processRegistry.ts, cliUpgrade.ts).
THEOREM EditorKeepsItsRecords == EditorProcsSpec /\ EditorCliSpec => EditorKeepsRecords
  BY OrphansAreKeptOnRecord, UpgradesKeepGo, PTL DEF EditorKeepsRecords

------------------------------------------------------------------------------
(* What a run selects *)

LEMMA LeastNatural ==
    ASSUME NEW T \in SUBSET Nat, T # {}
    PROVE  \E n \in T : \A m \in T : n <= m
<1>1. PICK n \in T : \A m \in T : ~(<<m, n>> \in OpToRel(<, Nat))
  BY NatLessThanWellFounded, WFMin
<1>2. ASSUME NEW m \in T PROVE n <= m
  <2>1. n \in Nat /\ m \in Nat /\ <<m, n>> \in Nat \X Nat
    OBVIOUS
  <2>2. ~(m < n)
    BY <1>1, <2>1 DEF OpToRel
  <2> QED
    BY <2>1, <2>2
<1> QED
  BY <1>2

\* A pattern enters a function exactly when one of its alternatives does, and
\* what it takes whole, one of its alternatives takes whole.
LEMMA PatternEnters ==
    ASSUME NEW pattern, Len(pattern) \in Nat, DOMAIN pattern = 1..Len(pattern), NEW f
    PROVE  /\ MatchTop(pattern, f) # "no" <=> \E i \in DOMAIN pattern : f \in pattern[i].top
           /\ MatchTop(pattern, f) = "whole" =>
                 \E i \in DOMAIN pattern : f \in pattern[i].top /\ pattern[i].sub = ""
<1> DEFINE entered == {i \in DOMAIN pattern : f \in pattern[i].top}
<1>1. CASE entered = {}
  <2>1. MatchTop(pattern, f) = "no"
    BY <1>1 DEF MatchTop
  <2> QED
    BY <2>1, <1>1
<1>2. CASE entered # {}
  <2>1. \E i \in entered : \A j \in entered : i <= j
    <3>1. entered \in SUBSET Nat /\ entered # {}
      BY <1>2
    <3> QED
      BY <3>1, LeastNatural
  <2> DEFINE first == CHOOSE i \in entered : \A j \in entered : i <= j
  <2>2. first \in entered
    BY <2>1
  <2>3. MatchTop(pattern, f) = IF Has2(pattern[first]) THEN "partial" ELSE "whole"
    BY <1>2 DEF MatchTop
  <2> HIDE DEF first
  <2> QED
    BY <2>2, <2>3 DEF Has2
<1> QED
  BY <1>1, <1>2

\* What a set of suites keeps alive is what they ask for, with all it depends on.
LEMMA AliveAre ==
    ASSUME NEW ss \in SUBSET SuiteSet
    PROVE  /\ AliveFixtureKeys(ss) \subseteq Fixtures
           /\ Closed(AliveFixtureKeys(ss))
           /\ RequiredBy(ss) \subseteq AliveFixtureKeys(ss)
<1>1. RequiredBy(ss) \subseteq Fixtures
  BY SelectionAssumption DEF RequiredBy
<1>2. RequiredBy(ss) \subseteq AliveFixtureKeys(ss)
  BY <1>1 DEF AliveFixtureKeys
<1>3. ASSUME NEW k \in AliveFixtureKeys(ss), NEW d \in Dependencies[k]
      PROVE  d \in AliveFixtureKeys(ss)
  <2>1. k \in Fixtures /\ d \in Fixtures
    BY SelectionAssumption DEF AliveFixtureKeys
  <2>2. ASSUME NEW keys \in SUBSET Fixtures, Closed(keys), RequiredBy(ss) \subseteq keys
        PROVE  d \in keys
    <3>1. k \in keys
      BY <2>2 DEF AliveFixtureKeys
    <3> QED
      BY <2>2, <3>1 DEF Closed
  <2> QED
    BY <2>1, <2>2 DEF AliveFixtureKeys
<1> QED
  BY <1>2, <1>3 DEF Closed, AliveFixtureKeys

LEMMA AliveGrows ==
    ASSUME NEW tt \in SUBSET SuiteSet, NEW ss \in SUBSET tt
    PROVE  AliveFixtureKeys(ss) \subseteq AliveFixtureKeys(tt)
BY DEF AliveFixtureKeys, RequiredBy

------------------------------------------------------------------------------
\* A listing of fixtures: each once, after those it depends on.
Arranges(q, n) ==
    /\ \A i, j \in 1..n : i # j => q[i] # q[j]
    /\ \A i, j \in 1..n : q[i] \in Dependencies[q[j]] => i < j
Orderable(keys) == \E q \in [1..Cardinality(keys) -> keys] : Arranges(q, Cardinality(keys))

\* Among any fixtures is one none of them depends on.
LEMMA SomeIsLast ==
    ASSUME NEW keys \in SUBSET Fixtures, keys # {}
    PROVE  \E x \in keys : \A k \in keys : x \notin Dependencies[k]
<1>1. PICK depth \in [Fixtures -> 0..Cardinality(Fixtures)] :
             \A f \in Fixtures : \A d \in Dependencies[f] : depth[d] < depth[f]
  BY SelectionAssumption
<1> DEFINE N == Cardinality(Fixtures)
           heights == {N - depth[k] : k \in keys}
<1>2. N \in Nat
  BY SelectionAssumption, FS_CardinalityType
<1> HIDE DEF N
<1>3. \A k \in keys : depth[k] \in Nat /\ N - depth[k] \in Nat
  BY <1>1, <1>2 DEF N
<1>4. PICK h \in heights : \A m \in heights : h <= m
  <2>1. heights \in SUBSET Nat /\ heights # {}
    BY <1>3
  <2> QED
    BY <2>1, LeastNatural
<1>5. PICK x \in keys : h = N - depth[x]
  BY <1>4
<1>6. ASSUME NEW k \in keys, x \in Dependencies[k] PROVE FALSE
  <2>1. depth[x] < depth[k]
    BY <1>1, <1>6
  <2>2. N - depth[x] <= N - depth[k]
    BY <1>4, <1>5
  <2> QED
    BY <1>2, <1>3, <2>1, <2>2
<1> QED
  BY <1>6

LEMMA AllOrderable ==
    ASSUME NEW keys \in SUBSET Fixtures
    PROVE  Orderable(keys)
<1> DEFINE Bad == {n \in Nat : \E T \in SUBSET Fixtures : Cardinality(T) = n /\ ~Orderable(T)}
<1>0. \A T \in SUBSET Fixtures : IsFiniteSet(T) /\ Cardinality(T) \in Nat
  BY SelectionAssumption, FS_Subset, FS_CardinalityType
<1>1. SUFFICES ASSUME Bad # {} PROVE FALSE
  BY <1>0
<1>2. PICK n \in Bad : \A m \in Bad : n <= m
  <2>1. Bad \in SUBSET Nat
    OBVIOUS
  <2> QED
    BY <1>1, <2>1, LeastNatural
<1>3. PICK T \in SUBSET Fixtures : Cardinality(T) = n /\ ~Orderable(T)
  OBVIOUS
<1>4. T # {}
  <2> SUFFICES ASSUME T = {} PROVE FALSE
    OBVIOUS
  <2>1. Cardinality(T) = 0 /\ 1..0 = {}
    BY FS_EmptySet
  <2>2. [i \in {} |-> i] \in [1..Cardinality(T) -> T] /\ Arranges([i \in {} |-> i], Cardinality(T))
    BY <2>1 DEF Arranges
  <2> QED
    BY <1>3, <2>2 DEF Orderable
<1>5. PICK x \in T : \A k \in T : x \notin Dependencies[k]
  BY <1>4, SomeIsLast
<1> DEFINE R == T \ {x}
<1>6. n \in Nat /\ n > 0 /\ Cardinality(R) = n - 1
  <2>1. Cardinality(R) = n - 1
    BY <1>0, <1>3, FS_RemoveElement
  <2>2. Cardinality(R) \in Nat /\ n \in Nat
    BY <1>0, <1>3
  <2> QED
    BY <2>1, <2>2
<1>7. Orderable(R)
  <2> SUFFICES ASSUME ~Orderable(R) PROVE FALSE
    OBVIOUS
  <2>1. n - 1 \in Bad
    BY <1>6
  <2>2. n <= n - 1
    BY <1>2, <2>1
  <2> QED
    BY <1>6, <2>2
<1> HIDE DEF Bad
<1>8. PICK q \in [1..(n - 1) -> R] : Arranges(q, n - 1)
  BY <1>6, <1>7 DEF Orderable
<1> DEFINE p == [i \in 1..n |-> IF i < n THEN q[i] ELSE x]
<1>9. p \in [1..n -> T]
  BY <1>6, <1>8
<1>10. ASSUME NEW i \in 1..n, NEW j \in 1..n
       PROVE  (i # j => p[i] # p[j]) /\ (p[i] \in Dependencies[p[j]] => i < j)
  <2>1. CASE i < n /\ j < n
    <3>1. i \in 1..(n - 1) /\ j \in 1..(n - 1) /\ p[i] = q[i] /\ p[j] = q[j]
      BY <1>6, <2>1
    <3> QED
      BY <1>8, <3>1 DEF Arranges
  <2>2. CASE i = n
    <3>1. p[i] = x /\ p[j] \in T /\ x \notin Dependencies[p[j]]
      BY <1>5, <1>6, <1>9, <2>2
    <3>2. i # j => p[j] \in R
      <4>1. i # j => j \in 1..(n - 1) /\ p[j] = q[j]
        BY <1>6, <2>2
      <4> QED
        BY <4>1, <1>8
    <3> HIDE DEF p
    <3> QED
      BY <3>1, <3>2
  <2>3. CASE i < n /\ j = n
    <3>1. i \in 1..(n - 1) /\ p[i] = q[i] /\ p[j] = x /\ q[i] \in R
      BY <1>6, <1>8, <2>3
    <3> HIDE DEF p
    <3> QED
      BY <2>3, <3>1
  <2> QED
    BY <1>6, <2>1, <2>2, <2>3
<1> HIDE DEF p, R
<1>11. Arranges(p, n)
  BY <1>10 DEF Arranges
<1> QED
  BY <1>3, <1>9, <1>11 DEF Orderable

Listing(q, keys) ==
    /\ ToSet(q) = keys
    /\ \A i \in DOMAIN q : Dependencies[q[i]] \subseteq {q[j] : j \in 1..(i - 1)}

\* The plan lists all the fixtures it is given, each after its dependencies.
LEMMA ListedInOrder ==
    ASSUME NEW keys \in SUBSET Fixtures, Closed(keys)
    PROVE  Listing(DependenciesFirst(keys), keys)
<1> DEFINE n == Cardinality(keys)
           q == DependenciesFirst(keys)
<1>1. IsFiniteSet(keys) /\ n \in Nat
  BY SelectionAssumption, FS_Subset, FS_CardinalityType
<1>2. q \in [1..n -> keys] /\ Arranges(q, n)
  <2> DEFINE Ordered(r) == /\ \A i, j \in DOMAIN r : i # j => r[i] # r[j]
                        /\ \A i, j \in DOMAIN r : r[i] \in Dependencies[r[j]] => i < j
  <2>1. PICK r \in [1..n -> keys] : Arranges(r, n)
    BY AllOrderable DEF Orderable
  <2>2. Ordered(r)
    BY <2>1 DEF Arranges
  <2>3. q = CHOOSE r1 \in [1..n -> keys] : Ordered(r1)
    BY DEF DependenciesFirst
  <2> HIDE DEF Ordered
  <2>4. q \in [1..n -> keys] /\ Ordered(q)
    BY <2>2, <2>3
  <2> QED
    BY <2>4 DEF Ordered, Arranges
<1> HIDE DEF n, q
<1>3. \A k \in keys : \E i \in 1..n : q[i] = k
  <2>1. q \in Injection(1..n, keys)
    BY <1>2 DEF Arranges, Injection, IsInjective
  <2>2. IsFiniteSet(1..n) /\ Cardinality(1..n) = n
    BY <1>1, FS_Interval
  <2>3. q \in Surjection(1..n, keys)
    BY <1>1, <2>1, <2>2, FS_Injection DEF n
  <2> QED
    BY <2>3 DEF Surjection
<1>4. ToSet(q) = keys
  BY <1>2, <1>3 DEF ToSet
<1>5. ASSUME NEW i \in DOMAIN q, NEW d \in Dependencies[q[i]]
      PROVE  \E j \in 1..(i - 1) : q[j] = d
  <2>1. i \in 1..n /\ q[i] \in keys
    BY <1>2
  <2>2. d \in keys
    BY <2>1 DEF Closed
  <2>3. PICK j \in 1..n : q[j] = d
    BY <1>3, <2>2
  <2>4. j < i
    BY <1>2, <2>1, <2>3 DEF Arranges
  <2> QED
    BY <1>1, <2>1, <2>3, <2>4
<1> QED
  BY <1>4, <1>5 DEF q, Listing

\* What is started of a set: each once.
LEMMA StartedOnce ==
    ASSUME NEW keys \in SUBSET Fixtures
    PROVE  /\ SetToSeq(keys) \in Seq(keys)
           /\ ToSet(SetToSeq(keys)) = keys
           /\ IsInjective(SetToSeq(keys))
<1> DEFINE n == Cardinality(keys)
           q == SetToSeq(keys)
<1>1. IsFiniteSet(keys) /\ n \in Nat
  BY SelectionAssumption, FS_Subset, FS_CardinalityType
<1>2. \E r \in [1..n -> keys] : IsInjective(r)
  <2>1. PICK r \in [1..n -> keys] : Arranges(r, n)
    BY AllOrderable DEF Orderable
  <2> QED
    BY <2>1 DEF Arranges, IsInjective
<1>3. q \in [1..n -> keys] /\ IsInjective(q)
  BY <1>2 DEF SetToSeq
<1> HIDE DEF n, q
<1>4. q \in Surjection(1..n, keys)
  <2>1. q \in Injection(1..n, keys)
    BY <1>3 DEF Injection, IsInjective
  <2>2. IsFiniteSet(1..n) /\ Cardinality(1..n) = n
    BY <1>1, FS_Interval
  <2> QED
    BY <1>1, <2>1, <2>2, FS_Injection DEF n
<1>5. q \in Seq(keys)
  BY <1>1, <1>3, SeqDef
<1> QED
  BY <1>3, <1>4, <1>5 DEF q, ToSet, Surjection

------------------------------------------------------------------------------
InputsTell ==
    /\ runPattern \in Patterns /\ skipPattern \in Patterns /\ benching \in BOOLEAN
    /\ planStage \in {"groups", "plan", "targets", "slots", "over", "refused"}

AsPlanned == planned = IF benching THEN PlannedBenches ELSE PlannedSuites
IsListed ==
    /\ bulkKeys \subseteq ToSet(listed)
    /\ ToSet(listed) \subseteq Fixtures
    /\ \A s \in planned : AliveFixtureKeys({s}) \subseteq ToSet(listed)
    /\ Listing(listed, ToSet(listed))
SelectsTell == planStage \in {"targets", "slots", "over"} => AsPlanned /\ IsListed

AsTargeted == targets = IF benching THEN BuildBenchTargets ELSE BuildSuiteTargets
\* A slot's fixtures are started once: those started that a slot still needs are alive.
SlotsTell ==
    /\ slotAt \in Nat \ {0}
    /\ startedKeys \in Seq(Fixtures) /\ IsInjective(startedKeys)
    /\ ToSet(startedKeys) \subseteq ToSet(listed)
    /\ ToSet(startedKeys) \cap LaterNeeds(slotAt) \subseteq aliveKeys
    /\ benching => aliveKeys \subseteq ToSet(startedKeys)
TargetsTell ==
    /\ planStage \in {"slots", "over"} => AsTargeted /\ SlotsTell
    /\ planStage = "slots" => benching

SelectionInv == InputsTell /\ SelectsTell /\ TargetsTell

\* What is planned is the suites the targets are made of, but for the compiler.
LEMMA TargetsAre ==
    /\ {t.suite : t \in BuildSuiteTargets} = PlannedSuites \ uncompiled
    /\ {t.suite : t \in BuildBenchTargets} = PlannedBenches \ uncompiled
    /\ PlannedSuites \subseteq SuiteSet /\ PlannedBenches \subseteq SuiteSet
<1>1. \A s : SuiteTarget(s).suite = s
  BY DEF SuiteTarget
<1>2. {t.suite : t \in BuildSuiteTargets} = PlannedSuites \ uncompiled
  BY <1>1 DEF BuildSuiteTargets, PlannedSuites
<1>3. {t.suite : t \in BuildBenchTargets} = PlannedBenches \ uncompiled
  <2>1. \A s : BenchTarget(s).suite = s
    BY DEF BenchTarget
  <2> QED
    BY <2>1 DEF BuildBenchTargets, PlannedBenches
<1>4. PlannedSuites \subseteq SuiteSet
  BY DEF PlannedSuites
<1>5. PlannedBenches \subseteq BenchesIn /\ BenchesIn \subseteq SuiteSet
  BY SelectionAssumption DEF PlannedBenches
<1> QED
  BY <1>2, <1>3, <1>4, <1>5

LEMMA PatternsAre ==
    ASSUME NEW p \in Patterns
    PROVE  Len(p) \in Nat /\ DOMAIN p = 1..Len(p)
BY SelectionAssumption

LEMMA SelectionStarts == SelectionInit => SelectionInv
BY DEF SelectionInit, SelectionIn, SelectionInv, InputsTell, SelectsTell, TargetsTell

\* The plan counts on every suite it will dispatch.
LEMMA PlanStep ==
    ASSUME SelectionInv, PlanWindows PROVE SelectionInv'
<1> USE DEF PlanWindows
<1>0. /\ planStage = "plan" /\ planStage' = "targets" /\ UNCHANGED selectionInputs
      /\ UNCHANGED <<runPattern, skipPattern, benchPattern, only, without, benching, uncompiled>>
  BY DEF selectionInputs
<1>1. InputsTell'
  BY <1>0 DEF SelectionInv, InputsTell
<1>2. PlannedSuites' = PlannedSuites /\ PlannedBenches' = PlannedBenches
  BY <1>0 DEF PlannedSuites, PlannedBenches, SelectsGroup, SelectsSuite, SkipsSuite, SelectsBench
<1>3. planned' = IF benching THEN PlannedBenches ELSE PlannedSuites
  OBVIOUS
<1>4. AsPlanned'
  BY <1>0, <1>2, <1>3 DEF AsPlanned
<1>5. planned' \subseteq SuiteSet
  BY <1>3, TargetsAre
<1> DEFINE early == IF benching THEN FirstOf(planned') ELSE FirstBulk
           behind == planned' \ (IF benching THEN {} ELSE FirstBulk)
<1>6. early \in SUBSET SuiteSet /\ behind \in SUBSET SuiteSet /\ planned' \subseteq early \cup behind
  <2>1. FirstBulk \subseteq SuiteSet
    BY TargetsAre DEF FirstBulk
  <2>2. ASSUME benching PROVE FirstOf(planned') \subseteq SuiteSet
    <3>1. CASE planned' = {}
      BY <3>1 DEF FirstOf
    <3>2. CASE planned' # {}
      <4> DEFINE places == {i \in DOMAIN Suites : Suites[i] \in planned'}
                 IsFirst(i) == Suites[i] \in planned' /\ \A j \in 1..(i - 1) : Suites[j] \notin planned'
                 first == CHOOSE i \in DOMAIN Suites : IsFirst(i)
      <4>1. places \in SUBSET Nat /\ places # {}
        BY <1>5, <3>2, SelectionAssumption DEF SuiteSet, ToSet
      <4>2. PICK i \in places : \A j \in places : i <= j
        BY <4>1, LeastNatural
      <4>3. IsFirst(i)
        <5>1. ASSUME NEW j \in 1..(i - 1), Suites[j] \in planned' PROVE FALSE
          <6>1. i \in 1..Len(Suites) /\ Len(Suites) \in Nat
            BY SelectionAssumption
          <6>2. j \in places /\ j < i
            BY <5>1, <6>1, SelectionAssumption
          <6> QED
            BY <4>2, <6>1, <6>2
        <5> QED
          BY <5>1
      <4>4. FirstOf(planned') = {Suites[first]}
        BY <3>2 DEF FirstOf
      <4> HIDE DEF IsFirst
      <4>5. first \in DOMAIN Suites
        BY <4>3
      <4> HIDE DEF first
      <4> QED
        BY <4>4, <4>5 DEF SuiteSet, ToSet
    <3> QED
      BY <3>1, <3>2
  <2> QED
    BY <1>5, <2>1, <2>2
<1>7. bulkKeys' = AliveFixtureKeys(early) /\ tailKeys' = AliveFixtureKeys(behind)
  OBVIOUS
<1>8. listed' = DependenciesFirst(bulkKeys' \cup tailKeys')
  OBVIOUS
<1>9. \A s \in planned' : AliveFixtureKeys({s}) \subseteq bulkKeys' \cup tailKeys'
  <2> TAKE s \in planned'
  <2>1. CASE s \in early
    BY <1>6, <1>7, <2>1, AliveGrows
  <2>2. CASE s \in behind
    BY <1>6, <1>7, <2>2, AliveGrows
  <2> QED
    BY <1>6, <2>1, <2>2
<1> DEFINE keys == bulkKeys' \cup tailKeys'
<1>10. keys \in SUBSET Fixtures /\ Closed(keys)
  BY <1>6, <1>7, AliveAre DEF Closed
<1>11. bulkKeys' \subseteq keys /\ listed' = DependenciesFirst(keys)
  BY <1>8
<1> HIDE DEF early, behind, keys
<1>12. Listing(listed', keys)
  BY <1>10, <1>11, ListedInOrder
<1>13. \A s \in planned' : AliveFixtureKeys({s}) \subseteq keys
  BY <1>9 DEF keys
<1>14. IsListed'
  <2>1. \A s : AliveFixtureKeys({s})' = AliveFixtureKeys({s})
    BY DEF AliveFixtureKeys, RequiredBy, Closed
  <2> QED
    BY <1>10, <1>11, <1>12, <1>13, <2>1 DEF IsListed, Listing
<1>15. TargetsTell'
  BY <1>0 DEF TargetsTell
<1> QED
  BY <1>1, <1>4, <1>14, <1>15 DEF SelectionInv, SelectsTell

\* What a slot needs is planned for, and is needed until it is over.
LEMMA NeedsAre ==
    ASSUME AsTargeted, AsPlanned, IsListed, benching, NEW i \in DOMAIN Suites
    PROVE  /\ SlotNeeds(i) \in SUBSET Fixtures
           /\ SlotNeeds(i) \subseteq ToSet(listed)
           /\ SlotNeeds(i) \subseteq LaterNeeds(i)
<1>1. i \in 1..Len(Suites) /\ Len(Suites) \in Nat
  BY SelectionAssumption
<1>2. SlotNeeds(i) \subseteq LaterNeeds(i)
  <2>1. i \in i..Len(Suites)
    BY <1>1
  <2> QED
    BY <2>1 DEF LaterNeeds
<1>3. SlotNeeds(i) \subseteq ToSet(listed)
  <2>1. CASE ~Targeted(i)
    BY <2>1 DEF SlotNeeds
  <2>2. CASE Targeted(i)
    <3>1. PICK t \in targets : t.suite = Suites[i]
      BY <2>2 DEF Targeted
    <3>2. targets = BuildBenchTargets /\ planned = PlannedBenches
      BY DEF AsTargeted, AsPlanned
    <3>3. Suites[i] \in planned
      BY <3>1, <3>2, TargetsAre
    <3>4. AliveFixtureKeys({Suites[i]}) \subseteq ToSet(listed)
      BY <3>3 DEF IsListed
    <3> QED
      BY <2>2, <3>4 DEF SlotNeeds
  <2> QED
    BY <2>1, <2>2
<1>4. ToSet(listed) \subseteq Fixtures
  BY DEF IsListed
<1> QED
  BY <1>2, <1>3, <1>4

LEMMA TargetsStep ==
    ASSUME SelectionInv, BuildTargets PROVE SelectionInv'
<1> USE DEF BuildTargets
<1>0. /\ planStage = "targets" /\ planStage' = (IF benching THEN "slots" ELSE "over")
      /\ UNCHANGED <<runPattern, skipPattern, benchPattern, only, without, benching, uncompiled>>
      /\ UNCHANGED planned /\ UNCHANGED listed /\ UNCHANGED bulkKeys
  BY DEF selectionInputs
<1>1. InputsTell'
  BY <1>0 DEF SelectionInv, InputsTell
<1>2. AsPlanned /\ IsListed
  BY <1>0 DEF SelectionInv, SelectsTell
<1>3. \A s : AliveFixtureKeys({s})' = AliveFixtureKeys({s})
  BY DEF AliveFixtureKeys, RequiredBy, Closed
<1>4. AsPlanned' /\ IsListed'
  BY <1>0, <1>2, <1>3 DEF AsPlanned, IsListed, PlannedSuites, PlannedBenches, SelectsGroup, SelectsSuite,
     SkipsSuite, SelectsBench
<1>5. AsTargeted'
  BY <1>0 DEF AsTargeted, BuildSuiteTargets, BuildBenchTargets, SelectsSuite, SkipsSuite, SelectsGroup,
     SelectsBench, SuiteTarget, BenchTarget
<1>6. slotAt' = 1 /\ aliveKeys' = bulkKeys /\ startedKeys' = IF benching THEN SetToSeq(bulkKeys) ELSE <<>>
  OBVIOUS
<1>7. bulkKeys \in SUBSET Fixtures /\ bulkKeys \subseteq ToSet(listed)
  BY <1>2 DEF IsListed
<1>8. SlotsTell'
  <2>1. CASE benching
    <3>1. /\ startedKeys' \in Seq(bulkKeys) /\ ToSet(startedKeys') = bulkKeys
          /\ IsInjective(startedKeys')
      BY <1>6, <1>7, <2>1, StartedOnce
    <3>2. startedKeys' \in Seq(Fixtures)
      BY <1>7, <3>1, SeqMonotonic
    <3> QED
      BY <1>0, <1>6, <1>7, <3>1, <3>2 DEF SlotsTell
  <2>2. CASE ~benching
    <3>1. startedKeys' = <<>>
      BY <1>6, <2>2
    <3>2. <<>> \in Seq(Fixtures) /\ ToSet(<<>>) = {} /\ IsInjective(<<>>)
      <4>1. DOMAIN <<>> = {}
        OBVIOUS
      <4> QED
        BY <4>1, EmptySeq DEF ToSet, IsInjective
    <3> QED
      BY <1>0, <1>6, <2>2, <3>2 DEF SlotsTell
  <2> QED
    BY <2>1, <2>2
<1> QED
  BY <1>0, <1>1, <1>4, <1>5, <1>8 DEF SelectionInv, SelectsTell, TargetsTell

\* Two lists with nothing in common, each without repeats, make one without.
LEMMA JoinedOnce ==
    ASSUME NEW S, NEW p \in Seq(S), NEW q \in Seq(S), IsInjective(p), IsInjective(q),
           ToSet(p) \cap ToSet(q) = {}
    PROVE  p \o q \in Seq(S) /\ IsInjective(p \o q) /\ ToSet(p \o q) = ToSet(p) \cup ToSet(q)
<1> DEFINE m == Len(p)
           n == Len(q)
           r == p \o q
<1>1. /\ m \in Nat /\ n \in Nat /\ DOMAIN p = 1..m /\ DOMAIN q = 1..n
      /\ r \in Seq(S) /\ DOMAIN r = 1..(m + n)
      /\ \A i \in 1..(m + n) : r[i] = IF i <= m THEN p[i] ELSE q[i - m]
  BY ConcatProperties, LenProperties
<1>2. /\ \A i \in 1..m : r[i] = p[i]
      /\ \A i \in 1..n : i + m \in 1..(m + n) /\ r[i + m] = q[i]
  BY <1>1
<1> HIDE DEF m, n, r
<1>3. ASSUME NEW i \in 1..(m + n), ~(i <= m)
      PROVE  i - m \in 1..n /\ r[i] = q[i - m] /\ i - m \in DOMAIN q
  BY <1>1, <1>3
<1>8. ASSUME NEW i \in 1..(m + n), i <= m
       PROVE  i \in 1..m /\ r[i] = p[i] /\ i \in DOMAIN p
  BY <1>1, <1>8
<1>4. ToSet(r) \subseteq ToSet(p) \cup ToSet(q)
  <2>1. \A i \in 1..(m + n) : r[i] \in ToSet(p) \cup ToSet(q)
    BY <1>3, <1>8 DEF ToSet
  <2> QED
    BY <1>1, <2>1 DEF ToSet
<1>5. ToSet(p) \subseteq ToSet(r) /\ ToSet(q) \subseteq ToSet(r)
  <2>1. \A i \in 1..m : i \in 1..(m + n)
    BY <1>1
  <2>2. \A i \in DOMAIN p : p[i] \in ToSet(r)
    BY <1>1, <1>2, <2>1 DEF ToSet
  <2>3. ASSUME NEW i \in DOMAIN q PROVE q[i] \in ToSet(r)
    <3>1. i + m \in DOMAIN r /\ r[i + m] = q[i]
      BY <1>1, <1>2
    <3> QED
      BY <3>1 DEF ToSet
  <2> QED
    BY <2>2, <2>3 DEF ToSet
<1>6. ASSUME NEW i \in 1..(m + n), NEW j \in 1..(m + n), r[i] = r[j] PROVE i = j
  <2>1. CASE i <= m /\ j <= m
    <3>1. i \in DOMAIN p /\ j \in DOMAIN p /\ p[i] = p[j]
      BY <1>8, <1>6, <2>1
    <3> QED
      BY <3>1 DEF IsInjective
  <2>2. CASE ~(i <= m) /\ ~(j <= m)
    <3>1. i - m \in DOMAIN q /\ j - m \in DOMAIN q /\ q[i - m] = q[j - m]
      BY <1>3, <1>6, <2>2
    <3>2. i - m = j - m
      BY <3>1 DEF IsInjective
    <3> QED
      BY <1>1, <3>2
  <2>3. CASE i <= m /\ ~(j <= m)
    <3>1. i \in DOMAIN p /\ j - m \in DOMAIN q /\ p[i] = q[j - m]
      BY <1>3, <1>8, <1>6, <2>3
    <3>2. p[i] \in ToSet(p) /\ p[i] \in ToSet(q)
      BY <3>1 DEF ToSet
    <3> QED
      BY <3>2
  <2>4. CASE ~(i <= m) /\ j <= m
    <3>1. j \in DOMAIN p /\ i - m \in DOMAIN q /\ p[j] = q[i - m]
      BY <1>3, <1>8, <1>6, <2>4
    <3>2. p[j] \in ToSet(p) /\ p[j] \in ToSet(q)
      BY <3>1 DEF ToSet
    <3> QED
      BY <3>2
  <2> QED
    BY <2>1, <2>2, <2>3, <2>4
<1>7. IsInjective(r)
  BY <1>1, <1>6 DEF IsInjective
<1> QED
  BY <1>1, <1>4, <1>5, <1>7 DEF r

LEMMA SlotBegins ==
    ASSUME SelectionInv, BeforeSlot PROVE SelectionInv'
<1> USE DEF BeforeSlot
<1>0. /\ planStage = "slots" /\ UNCHANGED planStage /\ slotAt <= Len(Suites)
      /\ UNCHANGED <<runPattern, skipPattern, benchPattern, only, without, benching, uncompiled>>
      /\ UNCHANGED planned /\ UNCHANGED listed /\ UNCHANGED bulkKeys /\ UNCHANGED targets
      /\ UNCHANGED slotAt
  BY DEF selectionInputs
<1>1. InputsTell'
  BY <1>0 DEF SelectionInv, InputsTell
<1>2. AsPlanned /\ IsListed /\ AsTargeted /\ SlotsTell /\ benching
  BY <1>0 DEF SelectionInv, SelectsTell, TargetsTell
<1>3. \A s : AliveFixtureKeys({s})' = AliveFixtureKeys({s})
  BY DEF AliveFixtureKeys, RequiredBy, Closed
<1>4. AsPlanned' /\ IsListed'
  BY <1>0, <1>2, <1>3 DEF AsPlanned, IsListed, PlannedSuites, PlannedBenches, SelectsGroup, SelectsSuite,
     SkipsSuite, SelectsBench
<1>5. AsTargeted'
  BY <1>0, <1>2 DEF AsTargeted, BuildSuiteTargets, BuildBenchTargets, SelectsSuite, SkipsSuite, SelectsGroup,
     SelectsBench, SuiteTarget, BenchTarget
<1>6. slotAt \in DOMAIN Suites
  BY <1>0, <1>2, SelectionAssumption DEF SlotsTell
<1> DEFINE needed == SlotNeeds(slotAt)
           new == needed \ aliveKeys
<1>7. needed \in SUBSET Fixtures /\ needed \subseteq ToSet(listed) /\ needed \subseteq LaterNeeds(slotAt)
  BY <1>2, <1>6, NeedsAre
<1>8. startedKeys' = startedKeys \o SetToSeq(new) /\ aliveKeys' = aliveKeys \cup needed
  OBVIOUS
<1>9. LaterNeeds(slotAt)' = LaterNeeds(slotAt)
  BY <1>0, <1>3 DEF LaterNeeds, SlotNeeds, Targeted
<1> HIDE DEF needed
<1>10. /\ SetToSeq(new) \in Seq(Fixtures) /\ ToSet(SetToSeq(new)) = new /\ IsInjective(SetToSeq(new))
  <2>1. new \in SUBSET Fixtures
    BY <1>7
  <2>2. SetToSeq(new) \in Seq(new) /\ ToSet(SetToSeq(new)) = new /\ IsInjective(SetToSeq(new))
    BY <2>1, StartedOnce
  <2> QED
    BY <2>1, <2>2, SeqMonotonic
<1>11. ToSet(startedKeys) \cap new = {}
  BY <1>2, <1>7 DEF SlotsTell
<1> HIDE DEF new
<1> DEFINE joined == startedKeys \o SetToSeq(new)
<1>12. /\ startedKeys' \in Seq(Fixtures) /\ IsInjective(startedKeys')
       /\ ToSet(startedKeys') = ToSet(startedKeys) \cup new
  <2>1. startedKeys \in Seq(Fixtures) /\ IsInjective(startedKeys)
    BY <1>2 DEF SlotsTell
  <2>2. joined \in Seq(Fixtures) /\ IsInjective(joined) /\ ToSet(joined) = ToSet(startedKeys) \cup new
    BY <1>10, <1>11, <2>1, JoinedOnce
  <2>3. startedKeys' = joined
    BY <1>8
  <2> QED
    BY <2>2, <2>3
<1>13. SlotsTell'
  <2>1. new \subseteq needed /\ needed \subseteq aliveKeys \cup new
    BY DEF new
  <2>2. /\ ToSet(startedKeys') \subseteq ToSet(listed)
        /\ ToSet(startedKeys') \cap LaterNeeds(slotAt) \subseteq aliveKeys'
        /\ aliveKeys' \subseteq ToSet(startedKeys')
    BY <1>2, <1>7, <1>8, <1>12, <2>1 DEF SlotsTell
  <2> QED
    BY <1>0, <1>2, <1>9, <1>12, <2>2 DEF SlotsTell
<1> QED
  BY <1>0, <1>1, <1>2, <1>4, <1>5, <1>13 DEF SelectionInv, SelectsTell, TargetsTell

LEMMA SlotStep ==
    ASSUME SelectionInv, SlotRuns PROVE SelectionInv'
<1> USE DEF SlotRuns
<1>0. /\ planStage = "slots" /\ planStage' \in {"slots", "over"}
      /\ UNCHANGED <<runPattern, skipPattern, benchPattern, only, without, benching, uncompiled>>
      /\ UNCHANGED planned /\ UNCHANGED listed /\ UNCHANGED bulkKeys /\ UNCHANGED targets
      /\ UNCHANGED startedKeys
  BY DEF selectionInputs
<1>1. InputsTell'
  BY <1>0 DEF SelectionInv, InputsTell
<1>2. AsPlanned /\ IsListed /\ AsTargeted /\ SlotsTell /\ benching
  BY <1>0 DEF SelectionInv, SelectsTell, TargetsTell
<1>3. \A s : AliveFixtureKeys({s})' = AliveFixtureKeys({s})
  BY DEF AliveFixtureKeys, RequiredBy, Closed
<1>4. AsPlanned' /\ IsListed'
  BY <1>0, <1>2, <1>3 DEF AsPlanned, IsListed, PlannedSuites, PlannedBenches, SelectsGroup, SelectsSuite,
     SkipsSuite, SelectsBench
<1>5. AsTargeted'
  BY <1>0, <1>2 DEF AsTargeted, BuildSuiteTargets, BuildBenchTargets, SelectsSuite, SkipsSuite, SelectsGroup,
     SelectsBench, SuiteTarget, BenchTarget
<1>6. \A i : SlotNeeds(i)' = SlotNeeds(i)
  BY <1>0, <1>3 DEF SlotNeeds, Targeted
<1>7. CASE slotAt > Len(Suites)
  <2>1. slotAt' = slotAt /\ aliveKeys' = aliveKeys
    BY <1>7
  <2>2. LaterNeeds(slotAt)' = LaterNeeds(slotAt)
    BY <1>6, <2>1 DEF LaterNeeds
  <2>3. SlotsTell'
    BY <1>0, <1>2, <2>1, <2>2 DEF SlotsTell
  <2> QED
    BY <1>0, <1>1, <1>2, <1>4, <1>5, <2>3 DEF SelectionInv, SelectsTell, TargetsTell
<1>8. CASE ~(slotAt > Len(Suites))
  <2>1. /\ slotAt' = slotAt + 1
        /\ aliveKeys' = IF Targeted(slotAt) THEN aliveKeys \cap LaterNeeds(slotAt + 1) ELSE aliveKeys
    BY <1>8 DEF AfterSlot
  <2>2. LaterNeeds(slotAt)' = LaterNeeds(slotAt + 1)
    BY <1>6, <2>1 DEF LaterNeeds
  <2>3. LaterNeeds(slotAt + 1) \subseteq LaterNeeds(slotAt)
    <3>1. slotAt \in Nat /\ Len(Suites) \in Nat
      BY <1>2, SelectionAssumption DEF SlotsTell
    <3>2. (slotAt + 1)..Len(Suites) \subseteq slotAt..Len(Suites)
      BY <3>1
    <3> QED
      BY <3>2 DEF LaterNeeds
  <2>4. /\ ToSet(startedKeys) \cap LaterNeeds(slotAt + 1) \subseteq aliveKeys'
        /\ aliveKeys' \subseteq ToSet(startedKeys)
    BY <1>2, <2>1, <2>3 DEF SlotsTell
  <2>5. slotAt' \in Nat \ {0}
    BY <1>2, <2>1 DEF SlotsTell
  <2>6. SlotsTell'
    BY <1>0, <1>2, <2>2, <2>4, <2>5 DEF SlotsTell
  <2> QED
    BY <1>0, <1>1, <1>2, <1>4, <1>5, <2>6 DEF SelectionInv, SelectsTell, TargetsTell
<1> QED
  BY <1>7, <1>8

LEMMA SelectionStep == SelectionInv /\ [SelectionNext]_selectionVars => SelectionInv'
<1> SUFFICES ASSUME SelectionInv, [SelectionNext]_selectionVars PROVE SelectionInv'
  OBVIOUS
<1>1. CASE SelectGroups
  <2>1. /\ planStage' \in {"plan", "refused"}
        /\ UNCHANGED <<runPattern, skipPattern, benchPattern, only, without, benching, uncompiled>>
    BY <1>1 DEF SelectGroups, selectionInputs
  <2> QED
    BY <2>1 DEF SelectionInv, InputsTell, SelectsTell, TargetsTell
<1>2. CASE PlanWindows
  BY <1>2, PlanStep
<1>3. CASE BuildTargets
  BY <1>3, TargetsStep
<1>4. CASE BeforeSlot
  BY <1>4, SlotBegins
<1>5. CASE SlotRuns
  BY <1>5, SlotStep
<1>6. CASE UNCHANGED selectionVars
  <2>1. /\ UNCHANGED <<runPattern, skipPattern, benchPattern, only, without, benching, uncompiled>>
        /\ UNCHANGED <<planStage, bulkKeys, tailKeys, listed, planned, targets, slotAt, aliveKeys, startedKeys>>
    BY <1>6 DEF selectionVars, selectionInputs
  <2>2. \A s : AliveFixtureKeys({s})' = AliveFixtureKeys({s})
    BY DEF AliveFixtureKeys, RequiredBy, Closed
  <2>3. InputsTell'
    BY <2>1 DEF SelectionInv, InputsTell
  <2>4. (AsPlanned => AsPlanned') /\ (IsListed => IsListed')
    BY <2>1, <2>2 DEF AsPlanned, IsListed, PlannedSuites, PlannedBenches, SelectsGroup, SelectsSuite,
       SkipsSuite, SelectsBench
  <2>5. AsTargeted => AsTargeted'
    BY <2>1 DEF AsTargeted, BuildSuiteTargets, BuildBenchTargets, SelectsSuite, SkipsSuite, SelectsGroup,
       SelectsBench, SuiteTarget, BenchTarget
  <2>6. LaterNeeds(slotAt)' = LaterNeeds(slotAt)
    BY <2>1, <2>2 DEF LaterNeeds, SlotNeeds, Targeted
  <2>7. SlotsTell => SlotsTell'
    BY <2>1, <2>6 DEF SlotsTell
  <2> QED
    BY <2>1, <2>3, <2>4, <2>5, <2>7 DEF SelectionInv, SelectsTell, TargetsTell
<1> QED
  BY <1>1, <1>2, <1>3, <1>4, <1>5, <1>6 DEF SelectionNext

------------------------------------------------------------------------------
\* What go test would run of a suite gets it a target that runs it.
LEMMA TestIsRun ==
    ASSUME InputsTell, NEW s \in SuiteSet \ (TestlessIn \cup uncompiled), NEW x,
           SelectsGroup(NamedGroup[s]), GoTestRuns(TestName(s), x)
    PROVE  SuiteTarget(s) \in BuildSuiteTargets /\ TargetRuns(SuiteTarget(s), TestName(s), x)
<1> DEFINE f == TestName(s)
           t == SuiteTarget(s)
           own == SuiteRunFilter(runPattern, f)
<1>1. runPattern \in Patterns /\ skipPattern \in Patterns
  BY DEF InputsTell
<1>2. f \in SuiteFuncs(s)
  BY DEF SuiteFuncs
<1>3. Entered(runPattern, f, x) /\ NotSkipped(f, x)
  BY DEF GoTestRuns
<1>4. t.suite = s /\ t.filter = IF own # {} THEN own
                    ELSE IF runPattern # <<>> /\ (s \in TestlessIn \/ ~SelectsFunc(runPattern, f))
                    THEN ToSet(runPattern) ELSE {}
  BY DEF SuiteTarget
<1> HIDE DEF f, t
<1>5. SelectsFunc(runPattern, f)
  <2>1. CASE runPattern = <<>>
    BY <2>1 DEF SelectsFunc
  <2>2. CASE runPattern # <<>>
    <3>1. \E i \in DOMAIN runPattern : f \in runPattern[i].top
      BY <1>3, <2>2 DEF Entered, Matches
    <3>2. Len(runPattern) \in Nat /\ DOMAIN runPattern = 1..Len(runPattern)
      BY <1>1, PatternsAre
    <3>3. MatchTop(runPattern, f) # "no"
      BY <3>1, <3>2, PatternEnters
    <3> QED
      BY <3>3 DEF SelectsFunc
  <2> QED
    BY <2>1, <2>2
<1>6. ~SkipsFunc(skipPattern, f)
  <2> SUFFICES ASSUME SkipsFunc(skipPattern, f) PROVE FALSE
    OBVIOUS
  <2>1. Len(skipPattern) \in Nat /\ DOMAIN skipPattern = 1..Len(skipPattern)
    BY <1>1, PatternsAre
  <2>2. MatchTop(skipPattern, f) = "whole"
    BY DEF SkipsFunc
  <2>3. PICK i \in DOMAIN skipPattern : f \in skipPattern[i].top /\ skipPattern[i].sub = ""
    BY <2>1, <2>2, PatternEnters
  <2> QED
    BY <1>3, <2>3 DEF NotSkipped, Matches, Has2
<1>7. t \in BuildSuiteTargets
  <2>1. SelectsSuite(s) /\ ~SkipsSuite(s)
    BY <1>2, <1>5, <1>6 DEF SelectsSuite, SkipsSuite
  <2> QED
    BY <2>1 DEF BuildSuiteTargets, t
<1>8. t.filter = own
  BY <1>4, <1>5
<1>9. ASSUME own = {}
      PROVE  TargetRuns(t, f, x)
  <2>1. t.filter = {} /\ f = TestName(t.suite)
    BY <1>4, <1>8, <1>9 DEF f
  <2> QED
    BY <1>3, <2>1 DEF TargetRuns, CommandEnters
<1>10. ASSUME own # {}
       PROVE  TargetRuns(t, f, x)
  <2>1. runPattern # <<>>
    <3> SUFFICES ASSUME runPattern = <<>> PROVE FALSE
      OBVIOUS
    <3>1. DOMAIN runPattern = {}
      OBVIOUS
    <3> QED
      BY <1>10, <3>1 DEF SuiteRunFilter
  <2>2. PICK i \in DOMAIN runPattern : Matches(runPattern[i], f, x)
    BY <1>3, <2>1 DEF Entered
  <2>3. f \in runPattern[i].top /\ runPattern[i] \in ToSet(runPattern)
    BY <2>2 DEF Matches, ToSet
  <2>4. runPattern[i] \in own
    BY <1>10, <2>3 DEF SuiteRunFilter
  <2> HIDE DEF own
  <2> QED
    BY <1>3, <1>8, <1>10, <2>2, <2>3, <2>4 DEF TargetRuns, CommandEnters
<1> QED
  BY <1>7, <1>9, <1>10 DEF f, t

\* A target runs what go test would, and its own suite's fuzz seeds.
LEMMA TargetRunsOwn ==
    ASSUME InputsTell, NEW t \in BuildSuiteTargets, NEW f, NEW x, TargetRuns(t, f, x)
    PROVE  GoTestRuns(f, x) \/ f \in WrapperOf(t.suite)
<1> SUFFICES ASSUME f \notin WrapperOf(t.suite) PROVE Entered(runPattern, f, x)
  BY DEF TargetRuns, GoTestRuns
<1>1. PICK s \in SuiteSet : t = SuiteTarget(s)
  BY DEF BuildSuiteTargets
<1> DEFINE own == SuiteRunFilter(runPattern, TestName(s))
<1>2. t.suite = s /\ t.filter = IF own # {} THEN own
                    ELSE IF runPattern # <<>> /\ (s \in TestlessIn \/ ~SelectsFunc(runPattern, TestName(s)))
                    THEN ToSet(runPattern) ELSE {}
  BY <1>1 DEF SuiteTarget
<1>3. Len(runPattern) \in Nat /\ DOMAIN runPattern = 1..Len(runPattern)
  BY PatternsAre DEF InputsTell
<1>4. own \subseteq ToSet(runPattern)
  BY DEF SuiteRunFilter
<1>5. CASE t.filter # {}
  <2>1. PICK a \in t.filter : Matches(a, f, x)
    BY <1>5 DEF TargetRuns
  <2>2. t.filter \subseteq ToSet(runPattern)
    BY <1>2, <1>4
  <2>3. PICK i \in DOMAIN runPattern : a = runPattern[i]
    BY <2>1, <2>2 DEF ToSet
  <2> QED
    BY <2>1, <2>3 DEF Entered
<1>6. CASE t.filter = {}
  <2>1. f = TestName(s)
    BY <1>2, <1>6 DEF TargetRuns, CommandEnters
  <2>2. CASE runPattern = <<>>
    BY <2>2 DEF Entered
  <2>3. CASE runPattern # <<>>
    <3>1. own = {}
      BY <1>2, <1>6
    <3> HIDE DEF own
    <3>2. SelectsFunc(runPattern, f)
      <4> SUFFICES ASSUME ~SelectsFunc(runPattern, f) PROVE FALSE
        OBVIOUS
      <4>1. ToSet(runPattern) = {}
        BY <1>2, <1>6, <2>1, <2>3, <3>1
      <4>2. \A i \in DOMAIN runPattern : runPattern[i] \in ToSet(runPattern)
        BY DEF ToSet
      <4>3. DOMAIN runPattern = {}
        BY <4>1, <4>2
      <4>4. MatchTop(runPattern, f) = "no"
        BY <1>3, <4>3, PatternEnters
      <4>5. MatchTop(runPattern, f) # "no"
        BY <2>3, <4>4, <4>3 DEF SelectsFunc
      <4> QED
        BY <4>4, <4>5
    <3>3. PICK i \in DOMAIN runPattern : f \in runPattern[i].top
      <4>1. MatchTop(runPattern, f) # "no"
        BY <2>3, <3>2 DEF SelectsFunc
      <4> QED
        BY <1>3, <4>1, PatternEnters
    <3>4. runPattern[i] \in ToSet(runPattern)
      BY DEF ToSet
    <3>5. ~Has2(runPattern[i])
      BY <2>1, <3>1, <3>3, <3>4 DEF SuiteRunFilter, own
    <3> QED
      BY <3>3, <3>5 DEF Entered, Matches
  <2> QED
    BY <2>2, <2>3
<1> QED
  BY <1>5, <1>6

LEMMA SelectionInvTells == SelectionInv => RunIsSelected
<1> SUFFICES ASSUME SelectionInv PROVE RunIsSelected
  OBVIOUS
<1>1. InputsTell
  BY DEF SelectionInv
<1>2. SelectionIsGoTests
  <2> SUFFICES ASSUME planStage = "over", ~benching PROVE SelectionIsGoTests
    BY DEF SelectionIsGoTests
  <2>1. targets = BuildSuiteTargets
    BY DEF SelectionInv, TargetsTell, AsTargeted
  <2>2. ASSUME NEW s \in SuiteSet \ (TestlessIn \cup uncompiled), NEW x \in Subtests,
               SelectsGroup(NamedGroup[s]), GoTestRuns(TestName(s), x)
        PROVE  \E t \in targets : t.suite = s /\ TargetRuns(t, TestName(s), x)
    <3>1. SuiteTarget(s) \in targets /\ TargetRuns(SuiteTarget(s), TestName(s), x)
      BY <1>1, <2>1, <2>2, TestIsRun
    <3>2. SuiteTarget(s).suite = s
      BY DEF SuiteTarget
    <3> QED
      BY <3>1, <3>2
  <2>3. ASSUME NEW t \in targets, NEW f \in TestFuncs, NEW x \in Subtests, TargetRuns(t, f, x)
        PROVE  GoTestRuns(f, x) \/ f \in WrapperOf(t.suite)
    BY <1>1, <2>1, <2>3, TargetRunsOwn
  <2> QED
    BY <2>2, <2>3 DEF SelectionIsGoTests
<1>3. FixturesArePlanned
  <2> SUFFICES ASSUME planStage \in {"slots", "over"} PROVE FixturesArePlanned
    BY DEF FixturesArePlanned
  <2>1. AsPlanned /\ IsListed /\ AsTargeted /\ SlotsTell
    BY DEF SelectionInv, SelectsTell, TargetsTell
  <2>2. {t.suite : t \in targets} = planned \ uncompiled
    BY <2>1, TargetsAre DEF AsPlanned, AsTargeted
  <2>3. \A t \in targets : AliveFixtureKeys({t.suite}) \subseteq ToSet(listed)
    BY <2>1, <2>2 DEF IsListed
  <2>4. Listing(listed, ToSet(listed)) /\ IsInjective(startedKeys) /\ ToSet(startedKeys) \subseteq ToSet(listed)
    BY <2>1 DEF IsListed, SlotsTell
  <2> QED
    BY <2>2, <2>3, <2>4 DEF FixturesArePlanned, Listing
<1> QED
  BY <1>2, <1>3 DEF RunIsSelected

\* For any suites, groups, patterns and fixtures whose dependencies make no cycle:
\* a run enters the tests go test would, and no others but fuzz seeds, the plan
\* counts on just the suites dispatched and lists their fixtures in order, and a
\* bench run starts none twice (BuildSuiteTargets, planFixtureWindows, runBench).
THEOREM RunsAreSelected == SelectionSpec => []RunIsSelected
<1>1. SelectionSpec => []SelectionInv
  BY SelectionStarts, SelectionStep, PTL DEF SelectionSpec
<1> QED
  BY <1>1, SelectionInvTells, PTL

------------------------------------------------------------------------------
(* The budgets a setup and a teardown are given *)

SetupStages == {"no", "setup", "up", "failed", "gone"}
FixtureStages == [ProtoKeys -> SetupStages]
TeardownBudgets == {TeardownLasts(fx) : fx \in FixtureStages}
WireLines ==
    ({"_setup"} \X Nat) \cup ({"state"} \X ProtoKeys) \cup ({"_cmd", "release"} \X TeardownBudgets)
        \cup ({"_done"} \X BOOLEAN \X TeardownBudgets) \cup {<<"_teardown">>}

ProtocolTypes ==
    /\ now \in Nat /\ setupBegan \in Nat /\ flat \in Int
    /\ setupDeadline \in Int /\ armed \in Int /\ (setupDeadline = Never \/ setupDeadline >= 0)
    /\ setupUnbounded \in BOOLEAN /\ budgetSeen \in BOOLEAN
    /\ fixture \in FixtureStages /\ wire \in Seq(WireLines)
    /\ since \in [ProtoKeys -> Nat] /\ lasts \in [ProtoKeys -> Nat]

\* A setup's budget is on the wire since it began, or the reader knows it.
OnWire(f) ==
    since[f] = now /\ \E i \in DOMAIN wire : wire[i] = <<"_setup", lasts[f]>>
HeardOf(f) ==
    /\ lasts[f] = 0 => setupUnbounded
    /\ lasts[f] > 0 => setupDeadline >= since[f] + lasts[f]
BudgetsKnown == Waiting => \A f \in InSetup : OnWire(f) \/ HeardOf(f)

\* The timer follows what was heard, and no setup begun before now is unheard of.
Followed ==
    armed = IF setupUnbounded THEN Never
            ELSE IF setupDeadline = Never THEN setupBegan + ReportFloor ELSE setupDeadline
TimerCovers(f) == lasts[f] # 0 /\ since[f] + lasts[f] <= armed
TimerTells ==
    /\ flat < 0 => armed = Never
    /\ Waiting /\ flat = 0 /\ ~budgetSeen => Followed
    /\ Waiting /\ flat = 0 /\ armed # Never => \A f \in InSetup : since[f] < now => TimerCovers(f)

SetupsTell ==
    /\ \A f \in InSetup : since[f] <= now
    /\ process = "exited" => InSetup = {}
    /\ process = "serving" => InSetup \subseteq DeferredKeys

TeardownTells ==
    /\ over => process = "exited"
    /\ exitWait = "asked" => deadline = owed
    /\ exitWait = "exited" => over
    /\ exitWait = "killed" => process = "exited" /\ owed <= now
    /\ verdictP # "none" => over /\ exitWait \in {"exited", "killed"}
    /\ verdictP = "nil" => exitWait # "killed" /\ (exitStatus = "clean" \/ setupErr # "none")

TimesTell == teardownTimeout \in Int /\ setupBudget \in Int /\ owed \in Int

\* The ledger's keys: what lives is held, what a written acknowledgement names is
\* gone, and a release is overdue only once its budget has passed.
ReleaseWritten == \E i \in DOMAIN wire : wire[i][1] = "release"
HeldTells ==
    /\ releaseEnds \in Int
    /\ releasing \subseteq ProtoKeys /\ (release = "no" => releasing = {})
    /\ ReleaseWritten => release # "no" /\ \A f \in releasing : fixture[f] = "gone"
    /\ release = "overdue" => releaseEnds <= now
    /\ Living \subseteq held
    /\ \A f \in UpFrontKeys : f \in held \/ fixture[f] = "gone"
    /\ waiter = "start" => \A f \in DeferredKeys : f \in held \/ fixture[f] = "gone"

ProtocolInv ==
    ProtocolTypes /\ BudgetsKnown /\ TimerTells /\ SetupsTell /\ TeardownTells /\ ~cutShort

LEMMA LinesAre ==
    ASSUME NEW line \in WireLines, line[1] = "_setup"
    PROVE  line[2] \in Nat
<1>1. CASE line \in {"_setup"} \X Nat
  BY <1>1
<1>2. CASE line \in {"state"} \X ProtoKeys
  BY <1>2
<1>3. CASE line \in {"_cmd", "release"} \X TeardownBudgets
  BY <1>3
<1>4. CASE line \in {"_done"} \X BOOLEAN \X TeardownBudgets
  BY <1>4
<1>5. CASE line = <<"_teardown">>
  BY <1>5
<1> QED
  BY <1>1, <1>2, <1>3, <1>4, <1>5 DEF WireLines

\* What is written stands behind what was.
LEMMA LinesStay ==
    ASSUME ProtocolTypes, NEW more \in Seq(WireLines), wire' = wire \o more
    PROVE  /\ wire' \in Seq(WireLines)
           /\ \A i \in DOMAIN wire : i \in DOMAIN wire' /\ wire'[i] = wire[i]
  BY DEF ProtocolTypes

\* A caller that waits no more needs no timer.
LEMMA NotWaiting ==
    ASSUME ProtocolTypes, ~Waiting', flat' = flat, flat < 0 => armed' = Never
    PROVE  BudgetsKnown' /\ TimerTells'
  BY DEF BudgetsKnown, TimerTells, Waiting

LEMMA ProtocolStarts == ProtocolInit => ProtocolInv
<1> SUFFICES ASSUME ProtocolInit PROVE ProtocolInv
  OBVIOUS
<1> USE ProtocolAssumption DEF ProtocolInit, ProtocolIn
<1>1. ProtocolTypes
  <2>1. flat \in Int /\ armed \in Int
    BY DEF Never
  <2>2. fixture \in FixtureStages /\ wire \in Seq(WireLines)
    BY DEF FixtureStages, SetupStages
  <2>3. since \in [ProtoKeys -> Nat] /\ lasts \in [ProtoKeys -> Nat]
    OBVIOUS
  <2>4. now \in Nat /\ setupBegan \in Nat /\ setupDeadline \in Int /\ setupDeadline = Never
    BY DEF Never
  <2>5. setupUnbounded \in BOOLEAN /\ budgetSeen \in BOOLEAN
    BY Zenon
  <2> HIDE DEF ProtocolInit, ProtocolIn
  <2> QED
    BY <2>1, <2>2, <2>3, <2>4, <2>5 DEF ProtocolTypes
<1>2. InSetup = {}
  BY DEF InSetup
<1>3. TimerTells
  BY <1>1, <1>2 DEF TimerTells, Followed, ProtocolTypes, Never, Waiting
<1> QED
  BY <1>1, <1>2, <1>3 DEF ProtocolInv, BudgetsKnown, SetupsTell, TeardownTells

LEMMA ProcessTells ==
    ASSUME ProtocolInv, over => process' = "exited", UNCHANGED <<over, flat, callerVars>>,
           UNCHANGED now, UNCHANGED setupErr, exitStatus' = exitStatus \/ process # "exited",
           process = "exited" => process' = "exited"
    PROVE  TeardownTells'
  BY DEF ProtocolInv, TeardownTells, callerVars

LEMMA SetupBeginsKeeps ==
    ASSUME ProtocolInv, NEW f \in ProtoKeys, NEW b \in SetupLasts[f], SetupBegins(f, b)
    PROVE  ProtocolInv'
<1> USE DEF readerVars, callerVars
<1>1. ProtocolTypes /\ b \in Nat /\ InSetup \subseteq ProtoKeys
  BY ProtocolAssumption DEF ProtocolInv, InSetup
<1>2. /\ fixture' = [fixture EXCEPT ![f] = "setup"] /\ since' = [since EXCEPT ![f] = now]
      /\ lasts' = [lasts EXCEPT ![f] = b] /\ UNCHANGED <<now, process, flat>>
      /\ UNCHANGED <<waiter, armed>> /\ UNCHANGED <<setupDeadline, setupUnbounded, setupBegan, budgetSeen>>
      /\ wire' = Append(wire, <<"_setup", b>>) /\ fixture[f] = "no"
      /\ process \in {"upfront", "serving"} /\ (process = "serving" => f \in DeferredKeys)
  BY DEF SetupBegins
<1>3. wire \in Seq(WireLines) /\ <<"_setup", b>> \in WireLines
  BY <1>1 DEF ProtocolTypes, WireLines
<1>4. wire' \in Seq(WireLines) /\ Len(wire') = Len(wire) + 1 /\ wire'[Len(wire) + 1] = <<"_setup", b>>
      /\ \A i \in DOMAIN wire : i \in DOMAIN wire' /\ wire'[i] = wire[i]
  BY <1>2, <1>3
<1>5. ProtocolTypes'
  BY <1>1, <1>2, <1>4 DEF ProtocolTypes, FixtureStages, SetupStages
<1>6. InSetup' = InSetup \cup {f}
  BY <1>1, <1>2 DEF InSetup, ProtocolTypes, FixtureStages
<1>7. \A g \in InSetup : g # f /\ since'[g] = since[g] /\ lasts'[g] = lasts[g]
  BY <1>1, <1>2 DEF InSetup, ProtocolTypes
<1>8. since'[f] = now /\ lasts'[f] = b
  BY <1>1, <1>2 DEF ProtocolTypes
<1>9. BudgetsKnown'
  <2> SUFFICES ASSUME Waiting, NEW g \in InSetup', ~HeardOf(g)' PROVE OnWire(g)'
    BY <1>2 DEF BudgetsKnown, Waiting
  <2>1. CASE g = f
    BY <1>2, <1>3, <1>4, <1>8, <2>1 DEF OnWire
  <2>2. CASE g # f
    <3>1. g \in InSetup /\ ~HeardOf(g)
      BY <1>2, <1>6, <1>7, <2>2 DEF HeardOf
    <3>2. OnWire(g)
      BY <3>1 DEF ProtocolInv, BudgetsKnown
    <3> QED
      BY <1>2, <1>4, <1>7, <3>1, <3>2 DEF OnWire
  <2> QED
    BY <2>1, <2>2
<1>10. TimerTells'
  <2>1. \A g \in InSetup' : since'[g] < now' => g \in InSetup /\ since[g] < now
    BY <1>1, <1>2, <1>6, <1>7, <1>8 DEF ProtocolTypes
  <2>2. \A g \in InSetup : TimerCovers(g) => TimerCovers(g)'
    BY <1>2, <1>7 DEF TimerCovers
  <2>3. TimerTells
    BY DEF ProtocolInv
  <2>4. flat' < 0 => armed' = Never
    BY <1>2, <2>3 DEF TimerTells
  <2>5. Waiting' /\ flat' = 0 /\ ~budgetSeen' => Followed'
    BY <1>2, <2>3 DEF TimerTells, Waiting, Followed
  <2>6. Waiting' /\ flat' = 0 /\ armed' # Never => \A g \in InSetup' : since'[g] < now' => TimerCovers(g)'
    BY <1>2, <2>1, <2>2, <2>3 DEF TimerTells, Waiting
  <2> QED
    BY <2>4, <2>5, <2>6 DEF TimerTells
<1>11. SetupsTell'
  BY <1>1, <1>2, <1>6, <1>7, <1>8 DEF ProtocolInv, SetupsTell, ProtocolTypes
<1>12. TeardownTells'
  BY ProcessTells, <1>2 DEF SetupBegins, ProtocolInv, TeardownTells
<1> QED
  BY <1>2, <1>5, <1>9, <1>10, <1>11, <1>12 DEF SetupBegins, ProtocolInv

\* Where the reader and the timer do not move, what they know stays true of the
\* setups that go on.
LEMMA SetupsStay ==
    ASSUME ProtocolInv, InSetup' \subseteq InSetup,
           \A f \in InSetup' : since'[f] = since[f] /\ lasts'[f] = lasts[f],
           UNCHANGED <<now, flat>>, UNCHANGED <<setupBegan, setupDeadline>>,
           UNCHANGED <<setupUnbounded, budgetSeen>>, UNCHANGED armed, Waiting' => Waiting,
           \A i \in DOMAIN wire : i \in DOMAIN wire' /\ wire'[i] = wire[i]
    PROVE  BudgetsKnown' /\ TimerTells'
<1>1. BudgetsKnown'
  <2> SUFFICES ASSUME Waiting, NEW f \in InSetup', ~HeardOf(f)' PROVE OnWire(f)'
    BY DEF BudgetsKnown
  <2>1. f \in InSetup /\ ~HeardOf(f)
    BY DEF HeardOf
  <2>2. OnWire(f)
    BY <2>1 DEF ProtocolInv, BudgetsKnown
  <2> QED
    BY <2>1, <2>2 DEF OnWire
<1>2. TimerTells'
  <2>1. \A f \in InSetup' : TimerCovers(f) => TimerCovers(f)'
    BY DEF TimerCovers
  <2>2. Followed => Followed'
    BY DEF Followed
  <2>3. TimerTells
    BY DEF ProtocolInv
  <2>4. flat' < 0 => armed' = Never
    BY <2>3 DEF TimerTells
  <2>5. Waiting' /\ flat' = 0 /\ ~budgetSeen' => Followed'
    BY <2>2, <2>3 DEF TimerTells
  <2>6. Waiting' /\ flat' = 0 /\ armed' # Never => \A f \in InSetup' : since'[f] < now' => TimerCovers(f)'
    BY <2>1, <2>3 DEF TimerTells
  <2> QED
    BY <2>4, <2>5, <2>6 DEF TimerTells
<1> QED
  BY <1>1, <1>2

LEMMA SetupEndsKeeps ==
    ASSUME ProtocolInv, NEW f \in ProtoKeys, NEW how \in {"up", "failed"}, SetupEndsAs(f, how)
    PROVE  ProtocolInv'
<1> USE DEF readerVars, callerVars
<1> DEFINE fx == [fixture EXCEPT ![f] = how]
           b == TeardownLasts(fx)
           all == f \in DeferredKeys /\ \A g \in DeferredKeys : fx[g] \in {"up", "failed"}
           first == IF how = "up" THEN <<<<"state", f>>>> ELSE <<>>
           second == IF all THEN <<<<"_cmd", b>>>> ELSE <<>>
           more == first \o second
<1>1. ProtocolTypes
  BY DEF ProtocolInv
<1>2. /\ fixture' = fx /\ since' = [since EXCEPT ![f] = 0] /\ lasts' = [lasts EXCEPT ![f] = 0]
      /\ UNCHANGED <<now, process, flat>> /\ UNCHANGED <<waiter, armed>>
      /\ UNCHANGED <<setupBegan, setupDeadline>> /\ UNCHANGED <<setupUnbounded, budgetSeen>>
  BY DEF SetupEndsAs
<1>3. fx \in FixtureStages
  BY <1>1 DEF ProtocolTypes, FixtureStages, SetupStages
<1>4. <<"state", f>> \in WireLines /\ <<"_cmd", b>> \in WireLines
  BY <1>3 DEF WireLines, TeardownBudgets
<1>5. wire' = (wire \o first) \o second
  BY DEF SetupEndsAs
<1> HIDE DEF b, all
<1>6. first \in Seq(WireLines) /\ second \in Seq(WireLines) /\ wire \in Seq(WireLines)
  BY <1>1, <1>4 DEF ProtocolTypes
<1> HIDE DEF first, second
<1>13. more \in Seq(WireLines) /\ wire' = wire \o more
  BY <1>5, <1>6
<1> HIDE DEF more
<1>7. wire' \in Seq(WireLines) /\ \A i \in DOMAIN wire : i \in DOMAIN wire' /\ wire'[i] = wire[i]
  BY <1>1, <1>13, LinesStay
<1>8. ProtocolTypes'
  BY <1>1, <1>2, <1>3, <1>7 DEF ProtocolTypes
<1>9. InSetup' \subseteq InSetup /\ \A g \in InSetup' : since'[g] = since[g] /\ lasts'[g] = lasts[g]
  BY <1>1, <1>2 DEF InSetup, ProtocolTypes, FixtureStages
<1>10. BudgetsKnown' /\ TimerTells'
  BY <1>2, <1>7, <1>9, SetupsStay DEF Waiting
<1>11. SetupsTell'
  BY <1>2, <1>9 DEF ProtocolInv, SetupsTell
<1>12. TeardownTells'
  BY ProcessTells, <1>2 DEF SetupEndsAs, ProtocolInv, TeardownTells
<1> QED
  BY <1>8, <1>10, <1>11, <1>12 DEF SetupEndsAs, ProtocolInv

LEMMA UpFrontDoneKeeps == ASSUME ProtocolInv, UpFrontDone PROVE ProtocolInv'
<1> USE DEF readerVars, callerVars
<1> DEFINE b == TeardownLasts(fixture)
           all == \A f \in UpFrontKeys : fixture[f] = "up"
<1>1. ProtocolTypes
  BY DEF ProtocolInv
<1>2. /\ process = "upfront" /\ process' = "serving" /\ InSetup = {}
      /\ UNCHANGED <<fixture, since, lasts>> /\ UNCHANGED <<now, flat>>
      /\ UNCHANGED <<setupBegan, setupDeadline>> /\ UNCHANGED <<setupUnbounded, budgetSeen>>
      /\ UNCHANGED <<waiter, armed>>
  BY DEF UpFrontDone
<1>3. <<"_done", all, b>> \in WireLines
  BY <1>1 DEF ProtocolTypes, WireLines, TeardownBudgets
<1>4. wire' = Append(wire, <<"_done", all, b>>) /\ wire \in Seq(WireLines)
  BY <1>1 DEF UpFrontDone, ProtocolTypes
<1> HIDE DEF b, all
<1>5. wire' \in Seq(WireLines) /\ \A i \in DOMAIN wire : i \in DOMAIN wire' /\ wire'[i] = wire[i]
  BY <1>3, <1>4
<1>6. ProtocolTypes'
  BY <1>1, <1>2, <1>5 DEF ProtocolTypes
<1>7. InSetup' = {}
  BY <1>2 DEF InSetup
<1>8. BudgetsKnown' /\ TimerTells'
  BY <1>2, <1>5, <1>7, SetupsStay DEF Waiting
<1>9. SetupsTell'
  BY <1>7 DEF SetupsTell
<1>10. TeardownTells'
  BY ProcessTells, <1>2 DEF UpFrontDone, ProtocolInv, TeardownTells
<1> QED
  BY <1>6, <1>8, <1>9, <1>10 DEF UpFrontDone, ProtocolInv

LEMMA ReleaseServedKeeps == ASSUME ProtocolInv, ReleaseServed PROVE ProtocolInv'
<1> USE DEF readerVars, callerVars
<1>1. ProtocolTypes
  BY DEF ProtocolInv
<1>2. /\ fixture' = [f \in ProtoKeys |-> IF f \in releasing THEN "gone" ELSE fixture[f]]
      /\ wire' = Append(wire, <<"release", TeardownLasts(fixture')>>)
  BY DEF ReleaseServed
<1> DEFINE b == TeardownLasts(fixture')
<1>3. fixture' \in FixtureStages
  BY <1>1, <1>2 DEF ProtocolTypes, FixtureStages, SetupStages
<1>4. <<"release", b>> \in WireLines /\ wire \in Seq(WireLines)
  BY <1>1, <1>3 DEF WireLines, TeardownBudgets, ProtocolTypes
<1> HIDE DEF b
<1>5. wire' = Append(wire, <<"release", b>>)
  BY <1>2 DEF b
<1>6. wire' \in Seq(WireLines) /\ \A i \in DOMAIN wire : i \in DOMAIN wire' /\ wire'[i] = wire[i]
  BY <1>4, <1>5
<1>7. /\ UNCHANGED <<since, lasts, process>> /\ UNCHANGED <<now, flat>>
      /\ UNCHANGED <<setupBegan, setupDeadline>> /\ UNCHANGED <<setupUnbounded, budgetSeen>>
      /\ UNCHANGED <<waiter, armed>>
  BY DEF ReleaseServed
<1>8. ProtocolTypes'
  BY <1>1, <1>3, <1>6, <1>7 DEF ProtocolTypes
<1>9. InSetup' \subseteq InSetup
  BY <1>1, <1>2 DEF InSetup, ProtocolTypes, FixtureStages
<1>10. BudgetsKnown' /\ TimerTells'
  BY <1>6, <1>7, <1>9, SetupsStay DEF Waiting
<1>11. SetupsTell'
  BY <1>7, <1>9 DEF ProtocolInv, SetupsTell
<1>12. TeardownTells'
  BY ProcessTells, <1>7 DEF ReleaseServed, ProtocolInv, TeardownTells
<1> QED
  BY <1>8, <1>10, <1>11, <1>12 DEF ReleaseServed, ProtocolInv

\* What ends, ends for every fixture.
LEMMA AllGone ==
    ASSUME ProtocolTypes, GoneWith
    PROVE  /\ fixture' \in FixtureStages /\ since' \in [ProtoKeys -> Nat] /\ lasts' \in [ProtoKeys -> Nat]
           /\ InSetup' = {}
  BY DEF GoneWith, FixtureStages, SetupStages, InSetup

LEMMA ProcessExitsKeeps ==
    ASSUME ProtocolInv, NEW how \in {"clean", "torn", "other"}, ProcessExits(how)
    PROVE  ProtocolInv'
<1> USE DEF readerVars, callerVars
<1> DEFINE failed == how = "torn"
           more == IF failed THEN <<<<"_teardown">>>> ELSE <<>>
<1>1. ProtocolTypes
  BY DEF ProtocolInv
<1>2. more \in Seq(WireLines) /\ wire' = wire \o more
  <2>1. <<"_teardown">> \in WireLines /\ wire \in Seq(WireLines)
    BY <1>1 DEF WireLines, ProtocolTypes
  <2>2. wire' = IF failed THEN Append(wire, <<"_teardown">>) ELSE wire
    BY DEF ProcessExits
  <2> HIDE DEF failed
  <2>3. CASE failed
    BY <2>1, <2>2, <2>3
  <2>4. CASE ~failed
    BY <2>1, <2>2, <2>4
  <2> QED
    BY <2>3, <2>4
<1> HIDE DEF more
<1>3. wire' \in Seq(WireLines) /\ \A i \in DOMAIN wire : i \in DOMAIN wire' /\ wire'[i] = wire[i]
  BY <1>1, <1>2, LinesStay
<1>4. /\ process # "exited" /\ process' = "exited" /\ GoneWith /\ UNCHANGED <<now, flat>>
      /\ UNCHANGED <<setupBegan, setupDeadline>> /\ UNCHANGED <<setupUnbounded, budgetSeen>>
      /\ UNCHANGED <<waiter, armed>>
  BY DEF ProcessExits
<1>5. ProtocolTypes' /\ InSetup' = {}
  BY <1>1, <1>3, <1>4, AllGone DEF ProtocolTypes
<1>6. BudgetsKnown' /\ TimerTells'
  BY <1>3, <1>4, <1>5, SetupsStay DEF Waiting
<1>7. SetupsTell'
  BY <1>5 DEF SetupsTell
<1>8. TeardownTells'
  BY ProcessTells, <1>4 DEF ProcessExits
<1> QED
  BY <1>5, <1>6, <1>7, <1>8 DEF ProcessExits, ProtocolInv

LEMMA TeardownBeginsKeeps == ASSUME ProtocolInv, TeardownBegins PROVE ProtocolInv'
<1> USE DEF readerVars, callerVars
<1>1. /\ process' = "teardown" /\ InSetup = {} /\ process = "serving"
      /\ UNCHANGED <<fixture, since, lasts>> /\ UNCHANGED <<now, flat, wire>>
      /\ UNCHANGED <<setupBegan, setupDeadline>> /\ UNCHANGED <<setupUnbounded, budgetSeen>>
      /\ UNCHANGED <<waiter, armed>>
  BY DEF TeardownBegins
<1>2. ProtocolTypes' /\ InSetup' = {}
  BY <1>1 DEF ProtocolInv, ProtocolTypes, InSetup
<1>3. BudgetsKnown' /\ TimerTells'
  BY <1>1, <1>2, SetupsStay DEF Waiting
<1>4. TeardownTells'
  BY ProcessTells, <1>1 DEF TeardownBegins, ProtocolInv, TeardownTells
<1> QED
  BY <1>2, <1>3, <1>4 DEF TeardownBegins, ProtocolInv, SetupsTell

\* What a line changes of what the reader knows.
LineHeard(line) ==
    /\ line[1] = "_setup" => NoteSetupBudget(line[2])
    /\ line[1] # "_setup" => UNCHANGED <<setupDeadline, setupUnbounded>> /\ UNCHANGED budgetSeen
LineAnswers ==
    /\ setupErr' = setupErr \/ setupErr' # "none"
    /\ waiter' = waiter \/ waiter' = "idle"

LEMMA LineTells == ASSUME ReadLine PROVE LineHeard(wire[1]) /\ LineAnswers
<1> DEFINE line == wire[1]
<1> USE DEF ReadLine, LineHeard, LineAnswers
<1>1. CASE line[1] = "_setup"
  BY <1>1
<1>2. CASE line[1] = "_done"
  BY <1>2
<1>3. CASE line[1] = "_teardown"
  BY <1>3
<1>4. CASE line[1] \in {"_cmd", "release"}
  BY <1>4
<1>5. CASE line[1] \notin {"_setup", "_done", "_teardown", "_cmd", "release"}
  BY <1>5
<1> QED
  BY <1>1, <1>2, <1>3, <1>4, <1>5

LEMMA ReadLineKeeps == ASSUME ProtocolInv, ReadLine PROVE ProtocolInv'
<1> DEFINE line == wire[1]
<1>1. ProtocolTypes /\ wire \in Seq(WireLines) /\ wire # <<>> /\ wire' = Tail(wire)
  BY DEF ProtocolInv, ProtocolTypes, ReadLine
<1>2. /\ UNCHANGED <<fixture, since, lasts>> /\ UNCHANGED process /\ UNCHANGED <<now, flat>>
      /\ UNCHANGED setupBegan /\ UNCHANGED <<exitStatus, over, exitWait>>
      /\ UNCHANGED <<verdictP, cutShort>> /\ UNCHANGED <<deadline, owed>>
      /\ armed' = IF waiter' # waiter THEN Never ELSE armed
  BY DEF ReadLine, processVars
<1>3. LineHeard(line) /\ LineAnswers
  BY LineTells
<1>4. Len(wire) \in Nat /\ Len(wire) > 0 /\ DOMAIN wire = 1..Len(wire) /\ line \in WireLines
  BY <1>1
<1>5. wire' \in Seq(WireLines) /\ \A i \in DOMAIN wire : i # 1 => i - 1 \in DOMAIN wire' /\ wire'[i - 1] = wire[i]
  BY <1>1, <1>4
<1>6. line[1] = "_setup" => line[2] \in Nat
  BY <1>4, LinesAre
<1> HIDE DEF line
<1>7. /\ setupDeadline' \in Int /\ (setupDeadline' = Never \/ setupDeadline' >= 0)
      /\ setupDeadline' >= setupDeadline /\ (setupUnbounded => setupUnbounded')
      /\ ~budgetSeen' => ~budgetSeen /\ setupDeadline' = setupDeadline /\ setupUnbounded' = setupUnbounded
  BY <1>1, <1>3, <1>6 DEF LineHeard, NoteSetupBudget, ProtocolTypes, Never
<1>8. setupUnbounded' \in BOOLEAN /\ budgetSeen' \in BOOLEAN
  <2>1. setupUnbounded \in BOOLEAN /\ budgetSeen \in BOOLEAN
    BY <1>1 DEF ProtocolTypes
  <2>2. CASE line[1] = "_setup"
    BY Zenon, <1>3, <2>1, <2>2 DEF LineHeard, NoteSetupBudget
  <2>3. CASE line[1] # "_setup"
    BY Zenon, <1>3, <2>1, <2>3 DEF LineHeard
  <2> QED
    BY <2>2, <2>3
<1>9. ProtocolTypes'
  BY <1>1, <1>2, <1>5, <1>7, <1>8 DEF ProtocolTypes, Never
<1>10. InSetup' = InSetup /\ InSetup \subseteq ProtoKeys
  BY <1>2 DEF InSetup
<1>11. Waiting' => Waiting /\ armed' = armed
  BY <1>2, <1>3 DEF LineAnswers, Waiting
<1>12. BudgetsKnown'
  <2> SUFFICES ASSUME Waiting', NEW f \in InSetup, ~OnWire(f)' PROVE HeardOf(f)'
    BY <1>10 DEF BudgetsKnown
  <2>1. OnWire(f) \/ HeardOf(f)
    BY <1>11 DEF ProtocolInv, BudgetsKnown
  <2>2. since[f] \in Nat /\ lasts[f] \in Nat
    BY <1>1, <1>10 DEF ProtocolTypes
  <2>3. CASE HeardOf(f)
    BY <1>1, <1>2, <1>7, <2>2, <2>3 DEF HeardOf, ProtocolTypes
  <2>4. CASE OnWire(f)
    <3>1. PICK i \in DOMAIN wire : wire[i] = <<"_setup", lasts[f]>>
      BY <2>4 DEF OnWire
    <3>2. i = 1
      BY <1>2, <1>5, <2>4, <3>1 DEF OnWire
    <3>3. line[1] = "_setup" /\ line[2] = lasts[f] /\ since[f] = now
      BY <2>4, <3>1, <3>2 DEF line, OnWire
    <3>4. NoteSetupBudget(lasts[f])
      BY <1>3, <3>3 DEF LineHeard
    <3>5. lasts'[f] = 0 => setupUnbounded'
      BY Zenon, <1>2, <3>4 DEF NoteSetupBudget
    <3>6. lasts'[f] > 0 => setupDeadline' >= since'[f] + lasts'[f]
      BY <1>1, <1>2, <2>2, <3>3, <3>4 DEF NoteSetupBudget, ProtocolTypes
    <3> QED
      BY <3>5, <3>6 DEF HeardOf
  <2> QED
    BY <2>1, <2>3, <2>4
<1>13. TimerTells'
  <2>1. TimerTells
    BY DEF ProtocolInv
  <2>2. flat' < 0 => armed' = Never
    BY <1>2, <2>1 DEF TimerTells
  <2>3. Waiting' /\ flat' = 0 /\ ~budgetSeen' => Followed'
    BY <1>2, <1>7, <1>11, <2>1 DEF TimerTells, Followed
  <2>4. Waiting' /\ flat' = 0 /\ armed' # Never => \A f \in InSetup' : since'[f] < now' => TimerCovers(f)'
    BY <1>2, <1>10, <1>11, <2>1 DEF TimerTells, TimerCovers
  <2> QED
    BY <2>2, <2>3, <2>4 DEF TimerTells
<1>14. SetupsTell'
  BY <1>2, <1>10 DEF ProtocolInv, SetupsTell
<1>15. TeardownTells'
  <2>1. TeardownTells
    BY DEF ProtocolInv
  <2> QED
    BY <1>2, <1>3, <2>1 DEF TeardownTells, LineAnswers
<1> QED
  BY <1>2, <1>9, <1>12, <1>13, <1>14, <1>15 DEF ProtocolInv

LEMMA StreamOverKeeps == ASSUME ProtocolInv, StreamOver PROVE ProtocolInv'
<1> USE DEF processVars, callerVars
<1>1. ProtocolTypes /\ InSetup = {} /\ process = "exited"
  BY DEF ProtocolInv, SetupsTell, StreamOver
<1>2. /\ UNCHANGED <<fixture, since, lasts>> /\ UNCHANGED process /\ UNCHANGED <<now, flat>>
      /\ UNCHANGED <<setupBegan, setupDeadline>> /\ UNCHANGED <<setupUnbounded, budgetSeen>>
      /\ UNCHANGED <<waiter, armed>> /\ wire' = <<>>
      /\ UNCHANGED <<exitStatus, exitWait>> /\ UNCHANGED <<verdictP, cutShort>>
      /\ UNCHANGED <<deadline, owed>> /\ over' = TRUE
  BY DEF StreamOver
<1>3. wire' \in Seq(WireLines)
  BY <1>2
<1>4. ProtocolTypes' /\ InSetup' = {}
  BY <1>1, <1>2, <1>3 DEF ProtocolTypes, InSetup
<1>5. BudgetsKnown' /\ TimerTells'
  <2>1. TimerTells
    BY DEF ProtocolInv
  <2>2. Followed' <=> Followed
    BY <1>2 DEF Followed
  <2> QED
    BY <1>2, <1>4, <2>1, <2>2 DEF BudgetsKnown, TimerTells, Waiting
<1>6. TeardownTells'
  <2>1. TeardownTells /\ (setupErr # "none" => setupErr' # "none")
    BY DEF ProtocolInv, StreamOver
  <2> QED
    BY <1>1, <1>2, <2>1 DEF TeardownTells
<1> QED
  BY <1>2, <1>4, <1>5, <1>6 DEF ProtocolInv, SetupsTell

\* What a caller does leaves the setups as they are.
SetupsRest ==
    /\ UNCHANGED <<fixture, since, lasts>> /\ UNCHANGED process /\ UNCHANGED <<now, flat, wire>>
    /\ UNCHANGED exitStatus

LEMMA RestTells ==
    ASSUME ProtocolInv, SetupsRest
    PROVE  InSetup' = InSetup /\ InSetup \subseteq ProtoKeys /\ SetupsTell'
  BY DEF ProtocolInv, SetupsTell, SetupsRest, InSetup

\* A command or a teardown that keeps the timer keeps what is known of the setups.
LEMMA CommandKeeps ==
    ASSUME ProtocolInv, SetupsRest, UNCHANGED <<setupBegan, setupDeadline>>,
           UNCHANGED <<setupUnbounded, budgetSeen>>, UNCHANGED <<waiter, armed>>, UNCHANGED cutShort,
           TeardownTells'
    PROVE  ProtocolInv'
<1>1. ProtocolTypes'
  BY DEF ProtocolInv, ProtocolTypes, SetupsRest
<1>2. SetupsTell' /\ InSetup' = InSetup
  BY RestTells
<1>3. BudgetsKnown' /\ TimerTells'
  BY <1>2, SetupsStay DEF SetupsRest, Waiting
<1> QED
  BY <1>1, <1>2, <1>3 DEF ProtocolInv

\* A wait that ends keeps nothing of the timer.
LEMMA WaitEnds ==
    ASSUME ProtocolInv, SetupsRest, UNCHANGED <<setupBegan, setupDeadline>>,
           UNCHANGED <<setupUnbounded, budgetSeen>>, armed' = Never, ~Waiting', ~cutShort',
           TeardownTells'
    PROVE  ProtocolInv'
<1>1. ProtocolTypes'
  BY DEF ProtocolInv, ProtocolTypes, SetupsRest, Never
<1>2. BudgetsKnown' /\ TimerTells'
  BY DEF BudgetsKnown, TimerTells
<1> QED
  BY <1>1, <1>2, RestTells DEF ProtocolInv

LEMMA FollowKeeps == ASSUME ProtocolInv, Follow PROVE ProtocolInv'
<1>1. ProtocolTypes /\ TimerTells /\ BudgetsKnown /\ Waiting
  BY DEF ProtocolInv, Follow
<1>2. /\ SetupsRest /\ UNCHANGED <<setupBegan, setupDeadline>> /\ UNCHANGED setupUnbounded
      /\ UNCHANGED waiter /\ UNCHANGED cutShort /\ budgetSeen' = FALSE
  BY DEF Follow, keepAllBut, processVars, SetupsRest
<1>3. armed' = IF flat # 0 THEN armed
                ELSE IF setupUnbounded THEN Never
                ELSE IF setupDeadline = Never THEN setupBegan + ReportFloor
                ELSE setupDeadline
  BY DEF Follow
<1>4. flat = 0 => Followed'
  BY <1>2, <1>3 DEF Followed
<1>5. InSetup' = InSetup /\ InSetup \subseteq ProtoKeys /\ SetupsTell'
  BY <1>2, RestTells
<1>6. armed' \in Int /\ flat \in Int
  BY <1>1, <1>3, ProtocolAssumption DEF ProtocolTypes, Never
<1>7. ProtocolTypes'
  <2>1. budgetSeen' \in BOOLEAN
    BY <1>2
  <2> QED
    BY <1>1, <1>2, <1>6, <2>1 DEF ProtocolTypes, SetupsRest
<1>8. BudgetsKnown'
  BY <1>1, <1>2, <1>5 DEF BudgetsKnown, SetupsRest, OnWire, HeardOf
<1>9. TimerTells'
  <2>1. flat' < 0 => armed' = Never
    BY <1>1, <1>2, <1>3, <1>6 DEF TimerTells, SetupsRest
  <2>2. ASSUME flat = 0, armed' # Never, NEW f \in InSetup, since[f] < now PROVE TimerCovers(f)'
    <3>1. ~OnWire(f) /\ since[f] \in Nat /\ lasts[f] \in Nat /\ now \in Nat
      BY <1>1, <1>5, <2>2 DEF OnWire, ProtocolTypes
    <3>2. HeardOf(f)
      BY <1>1, <3>1 DEF BudgetsKnown
    <3>3. ~setupUnbounded
      BY <1>3, <2>2
    <3>4. lasts[f] > 0 /\ setupDeadline >= since[f] + lasts[f]
      BY <3>1, <3>2, <3>3 DEF HeardOf
    <3>5. armed' = setupDeadline
      BY <1>1, <1>3, <2>2, <3>1, <3>3, <3>4 DEF ProtocolTypes, Never
    <3> QED
      BY <1>2, <3>1, <3>4, <3>5 DEF TimerCovers, SetupsRest
  <2> QED
    BY <1>2, <1>4, <1>5, <2>1, <2>2 DEF TimerTells, SetupsRest
<1>10. TeardownTells'
  BY DEF ProtocolInv, TeardownTells, Follow, keepAllBut, processVars
<1> QED
  BY <1>2, <1>5, <1>7, <1>8, <1>9, <1>10 DEF ProtocolInv

\* The timer of a wait that follows the budgets fires when they have passed.
LEMMA ExpiresKeeps == ASSUME ProtocolInv, Expires PROVE ProtocolInv'
<1>1. ProtocolTypes /\ TimerTells /\ Waiting /\ armed # Never /\ armed <= now
  BY DEF ProtocolInv, Expires
<1>2. /\ SetupsRest /\ UNCHANGED <<setupBegan, setupDeadline>>
      /\ UNCHANGED <<setupUnbounded, budgetSeen>> /\ armed' = Never /\ waiter' = "given up"
  BY DEF Expires, keepAllBut, processVars, SetupsRest
<1>3. flat = 0 => AllOverran
  <2> SUFFICES ASSUME flat = 0, NEW f \in InSetup, since[f] < now
               PROVE  lasts[f] # 0 /\ since[f] + lasts[f] <= now
    BY DEF AllOverran
  <2>1. TimerCovers(f)
    BY <1>1 DEF TimerTells
  <2>2. f \in ProtoKeys
    BY DEF InSetup
  <2> QED
    BY <1>1, <2>1, <2>2 DEF TimerCovers, ProtocolTypes
<1>4. flat >= 0
  BY <1>1 DEF TimerTells, ProtocolTypes
<1>5. ~cutShort'
  <2>1. cutShort' = (process # "exited" /\ flat <= 0 /\ (flat = 0 => ~AllOverran))
    BY DEF Expires
  <2>2. ~(flat <= 0 /\ (flat = 0 => ~AllOverran))
    BY <1>1, <1>3, <1>4 DEF ProtocolTypes
  <2> QED
    BY <2>1, <2>2
<1>6. TeardownTells'
  BY DEF ProtocolInv, TeardownTells, Expires, keepAllBut, processVars
<1> QED
  BY <1>2, <1>5, <1>6, WaitEnds DEF Waiting

LEMMA StartKeeps == ASSUME ProtocolInv, StartCommand PROVE ProtocolInv'
<1>1. ProtocolTypes /\ SetupsTell
  BY DEF ProtocolInv
<1>2. /\ SetupsRest /\ UNCHANGED cutShort /\ UNCHANGED budgetSeen
      /\ setupBegan' = now /\ setupDeadline' = Never /\ setupUnbounded' = FALSE
      /\ armed' = IF flat > 0 THEN now + flat ELSE IF flat = 0 THEN now + ReportFloor ELSE Never
  BY DEF StartCommand, keepAllBut, processVars, SetupsRest
<1>3. InSetup = {}
  BY <1>1 DEF StartCommand, SetupsTell, InSetup
<1>4. InSetup' = InSetup /\ SetupsTell'
  BY <1>2, RestTells
<1>5. ProtocolTypes'
  <2>1. armed' \in Int /\ setupDeadline' \in Int
    BY <1>1, <1>2, ProtocolAssumption DEF ProtocolTypes, Never
  <2>2. setupUnbounded' \in BOOLEAN /\ budgetSeen' \in BOOLEAN
    BY Zenon, <1>1, <1>2 DEF ProtocolTypes
  <2> QED
    BY <1>1, <1>2, <2>1, <2>2 DEF ProtocolTypes, SetupsRest
<1>6. BudgetsKnown' /\ TimerTells'
  <2>1. flat' = flat /\ flat \in Int
    BY <1>1, <1>2 DEF SetupsRest, ProtocolTypes
  <2>2. flat' < 0 => armed' = Never
    BY <1>2, <2>1
  <2>3. flat' = 0 => Followed'
    BY <1>2, <2>1 DEF Followed
  <2> QED
    BY <1>3, <1>4, <2>2, <2>3 DEF BudgetsKnown, TimerTells
<1>7. TeardownTells'
  BY DEF ProtocolInv, TeardownTells, StartCommand, keepAllBut, processVars
<1> QED
  BY <1>2, <1>4, <1>5, <1>6, <1>7 DEF ProtocolInv

LEMMA AwaitKillsKeeps == ASSUME ProtocolInv, AwaitKills PROVE ProtocolInv'
<1> USE DEF readerVars
<1>1. ProtocolTypes /\ TeardownTells
  BY DEF ProtocolInv
<1>2. /\ process' = "exited" /\ GoneWith /\ UNCHANGED <<now, flat, wire>>
      /\ UNCHANGED <<setupBegan, setupDeadline>> /\ UNCHANGED <<setupUnbounded, budgetSeen>>
      /\ UNCHANGED <<waiter, armed>> /\ UNCHANGED cutShort
  BY DEF AwaitKills, ProcessKilled
<1>3. ProtocolTypes' /\ InSetup' = {}
  BY <1>1, <1>2, AllGone DEF ProtocolTypes
<1>4. BudgetsKnown' /\ TimerTells'
  BY <1>2, <1>3, SetupsStay DEF Waiting
<1>5. TeardownTells'
  <2>1. exitWait = "asked" => verdictP # "nil"
    BY <1>1 DEF TeardownTells
  <2>2. /\ exitWait = "asked" /\ exitWait' = "killed" /\ deadline <= now
        /\ UNCHANGED <<over, verdictP>> /\ UNCHANGED <<deadline, owed>> /\ UNCHANGED setupErr
        /\ verdictP # "nil"
    BY <2>1 DEF AwaitKills, ProcessKilled
  <2> QED
    BY <1>1, <1>2, <2>2 DEF TeardownTells
<1> QED
  BY <1>2, <1>3, <1>4, <1>5 DEF ProtocolInv, SetupsTell

LEMMA AskToExitKeeps == ASSUME ProtocolInv, HeldTells, AskToExit PROVE ProtocolInv'
<1> USE DEF readerVars
<1>1. ProtocolTypes /\ TeardownTells
  BY DEF ProtocolInv
<1>2. /\ UNCHANGED <<now, flat, wire>> /\ UNCHANGED <<setupBegan, setupDeadline>>
      /\ UNCHANGED <<setupUnbounded, budgetSeen>> /\ UNCHANGED <<waiter, armed>>
      /\ UNCHANGED <<over, cutShort>> /\ UNCHANGED <<verdictP, setupErr>>
  BY DEF AskToExit
<1>3. verdictP = "none"
  BY <1>1 DEF AskToExit, TeardownTells
<1>4. CASE OnlyOverdue /\ ~over
  <2>1. exitWait' = "killed" /\ process' = "exited" /\ GoneWith
    BY <1>4 DEF AskToExit, ProcessKilled
  <2>2. Living \subseteq releasing /\ releaseEnds <= now
    BY <1>4 DEF OnlyOverdue, HeldTells
  <2>3. owed' = releaseEnds
    BY <1>4, <2>2 DEF AskToExit
  <2>4. ProtocolTypes' /\ InSetup' = {}
    BY <1>1, <1>2, <2>1, AllGone DEF ProtocolTypes
  <2>5. BudgetsKnown' /\ TimerTells'
    BY <1>2, <2>4, SetupsStay DEF Waiting
  <2>6. TeardownTells'
    BY <1>2, <1>3, <1>4, <2>1, <2>2, <2>3 DEF TeardownTells
  <2> QED
    BY <1>2, <2>4, <2>5, <2>6 DEF ProtocolInv, SetupsTell
<1>5. CASE ~(OnlyOverdue /\ ~over)
  <2>1. SetupsRest /\ deadline' = owed' /\ exitWait' = IF over THEN "exited" ELSE "asked"
    BY <1>2, <1>5 DEF AskToExit, SetupsRest
  <2>2. TeardownTells'
    BY <1>1, <1>2, <1>3, <2>1 DEF TeardownTells, SetupsRest
  <2> QED
    BY <1>2, <2>1, <2>2, CommandKeeps
<1> QED
  BY <1>4, <1>5

LEMMA PassesKeeps == ASSUME ProtocolInv, TimesTell, Passes PROVE ProtocolInv'
<1> USE DEF processVars, readerVars, callerVars
<1>1. ProtocolTypes /\ BudgetsKnown /\ TimerTells /\ SetupsTell /\ TeardownTells
  BY DEF ProtocolInv
<1>2. /\ now' = now + 1 /\ UNCHANGED <<fixture, since, lasts>> /\ UNCHANGED <<process, exitStatus>>
      /\ UNCHANGED <<wire, flat>> /\ UNCHANGED <<setupBegan, setupDeadline>>
      /\ UNCHANGED <<setupUnbounded, budgetSeen>> /\ UNCHANGED <<waiter, armed>>
      /\ UNCHANGED <<over, cutShort>> /\ UNCHANGED <<exitWait, verdictP>>
      /\ UNCHANGED <<deadline, owed>> /\ UNCHANGED setupErr
      /\ wire = <<>> /\ ~(Waiting /\ budgetSeen) /\ verdictP = "none"
  BY DEF Passes
<1>3. ProtocolTypes'
  BY <1>1, <1>2 DEF ProtocolTypes
<1>4. InSetup' = InSetup /\ InSetup \subseteq ProtoKeys
  BY <1>2 DEF InSetup
<1>5. \A f \in InSetup : Waiting => HeardOf(f)
  <2> SUFFICES ASSUME NEW f \in InSetup, Waiting PROVE HeardOf(f)
    OBVIOUS
  <2>1. ~OnWire(f)
    BY <1>2 DEF OnWire
  <2> QED
    BY <1>1, <2>1 DEF BudgetsKnown
<1>6. BudgetsKnown'
  <2>1. \A f \in InSetup : HeardOf(f) => HeardOf(f)'
    BY <1>2 DEF HeardOf
  <2> QED
    BY <1>2, <1>4, <1>5, <2>1 DEF BudgetsKnown, Waiting
<1>7. TimerTells'
  <2>1. ASSUME Waiting, flat = 0, armed # Never, NEW f \in InSetup PROVE TimerCovers(f)
    <3>1. Followed
      BY <1>1, <1>2, <2>1 DEF TimerTells
    <3>2. HeardOf(f) /\ since[f] \in Nat /\ lasts[f] \in Nat
      BY <1>1, <1>4, <1>5, <2>1 DEF ProtocolTypes
    <3>3. ~setupUnbounded
      BY <2>1, <3>1 DEF Followed
    <3>4. lasts[f] > 0 /\ setupDeadline >= since[f] + lasts[f]
      BY <3>2, <3>3 DEF HeardOf
    <3>5. armed = setupDeadline
      BY <1>1, <3>1, <3>2, <3>3, <3>4 DEF Followed, ProtocolTypes, Never
    <3> QED
      BY <3>2, <3>4, <3>5 DEF TimerCovers
  <2>2. \A f \in InSetup : TimerCovers(f) => TimerCovers(f)'
    BY <1>2 DEF TimerCovers
  <2>3. Waiting' = Waiting /\ Followed' = Followed
    BY <1>2 DEF Waiting, Followed
  <2> QED
    BY <1>1, <1>2, <1>4, <2>1, <2>2, <2>3 DEF TimerTells
<1>8. SetupsTell'
  BY <1>1, <1>2, <1>4 DEF SetupsTell, ProtocolTypes
<1>9. TeardownTells'
  <2>1. exitWait = "killed" => owed <= now'
    <3> SUFFICES ASSUME exitWait = "killed" PROVE owed <= now'
      OBVIOUS
    <3>1. owed <= now /\ now \in Nat /\ owed \in Int
      BY <1>1 DEF TeardownTells, ProtocolTypes, TimesTell
    <3> QED
      BY <1>1, <1>2, <3>1 DEF TeardownTells
  <2> QED
    BY <1>1, <1>2, <2>1 DEF TeardownTells
<1> QED
  BY <1>2, <1>3, <1>6, <1>7, <1>8, <1>9 DEF ProtocolInv

LEMMA ProtocolStep == ProtocolInv /\ TimesTell /\ HeldTells /\ [ProtocolNext]_protoVars => ProtocolInv'
<1> SUFFICES ASSUME ProtocolInv, TimesTell, HeldTells, ProtocolNext \/ UNCHANGED protoVars PROVE ProtocolInv'
  OBVIOUS
<1> USE DEF processVars, readerVars, keepAllBut
<1>1. ASSUME NEW f \in ProtoKeys, NEW b \in SetupLasts[f], SetupBegins(f, b) PROVE ProtocolInv'
  BY <1>1, SetupBeginsKeeps
<1>2. ASSUME NEW f \in ProtoKeys, NEW how \in {"up", "failed"}, SetupEndsAs(f, how) PROVE ProtocolInv'
  BY <1>2, SetupEndsKeeps
<1>3. ASSUME NEW how \in {"clean", "torn", "other"}, ProcessExits(how) PROVE ProtocolInv'
  BY <1>3, ProcessExitsKeeps
<1>4. CASE SetupReturns \/ WaitCancelled
  <2>1. /\ SetupsRest /\ UNCHANGED <<setupBegan, setupDeadline>> /\ UNCHANGED <<setupUnbounded, budgetSeen>>
        /\ armed' = Never /\ waiter' \in {"idle", "failed"} /\ UNCHANGED cutShort
        /\ UNCHANGED <<over, exitWait>> /\ UNCHANGED <<verdictP, setupErr>> /\ UNCHANGED <<deadline, owed>>
    BY <1>4 DEF SetupReturns, WaitCancelled, SetupsRest
  <2>2. ~Waiting' /\ ~cutShort'
    BY <2>1 DEF Waiting, ProtocolInv
  <2>3. TeardownTells'
    BY <2>1 DEF ProtocolInv, TeardownTells, SetupsRest
  <2> QED
    BY <2>1, <2>2, <2>3, WaitEnds
<1>5. CASE ReleaseCommand \/ ReleaseGivenUp \/ TeardownReturns \/ AwaitDone \/ AwaitReport
  <2>1. /\ SetupsRest /\ UNCHANGED <<setupBegan, setupDeadline>> /\ UNCHANGED <<setupUnbounded, budgetSeen>>
        /\ UNCHANGED <<waiter, armed>> /\ UNCHANGED cutShort /\ UNCHANGED <<over, setupErr>>
    BY <1>5 DEF ReleaseCommand, ReleaseGivenUp, TeardownReturns, AwaitDone, AwaitReport, SetupsRest
  <2>2. TeardownTells
    BY DEF ProtocolInv
  <2>3. TeardownTells'
    <3>1. CASE ReleaseCommand \/ ReleaseGivenUp
      BY <2>1, <2>2, <3>1 DEF ReleaseCommand, ReleaseGivenUp, TeardownTells, SetupsRest
    <3>2. CASE TeardownReturns
      BY <2>1, <2>2, <3>2 DEF TeardownReturns, ExitVerdict, TeardownTells, SetupsRest
    <3>3. CASE AwaitDone
      BY <2>1, <2>2, <3>3 DEF AwaitDone, TeardownTells, SetupsRest
    <3>4. CASE AwaitReport
      <4>1. deadline' = owed' /\ exitWait' = exitWait /\ exitWait = "asked" /\ verdictP' = verdictP
        BY <2>2, <3>4 DEF AwaitReport, ExtendTo, TeardownTells
      <4> QED
        BY <2>1, <2>2, <4>1 DEF TeardownTells, SetupsRest
    <3> QED
      BY <1>5, <3>1, <3>2, <3>3, <3>4
  <2> QED
    BY <2>1, <2>3, CommandKeeps
<1>6. CASE UNCHANGED protoVars
  <2>1. /\ SetupsRest /\ UNCHANGED <<setupBegan, setupDeadline>> /\ UNCHANGED <<setupUnbounded, budgetSeen>>
        /\ UNCHANGED <<waiter, armed>> /\ UNCHANGED cutShort /\ UNCHANGED <<over, setupErr>>
        /\ UNCHANGED <<exitWait, verdictP>> /\ UNCHANGED <<deadline, owed>>
    BY <1>6 DEF protoVars, callerVars, SetupsRest
  <2>2. TeardownTells'
    BY <2>1 DEF ProtocolInv, TeardownTells, SetupsRest
  <2> QED
    BY <2>1, <2>2, CommandKeeps
<1> QED
  BY <1>1, <1>2, <1>3, <1>4, <1>5, <1>6, UpFrontDoneKeeps, ReleaseServedKeeps, TeardownBeginsKeeps,
     ReadLineKeeps, StreamOverKeeps, FollowKeeps, ExpiresKeeps, StartKeeps, AskToExitKeeps,
     AwaitKillsKeeps, PassesKeeps DEF ProtocolNext

\* What a teardown is promised is a number.
LEMMA TeardownBudgetsAre == TeardownBudgets \subseteq Nat
<1> SUFFICES ASSUME NEW fx \in FixtureStages PROVE TeardownLasts(fx) \in Nat
  BY DEF TeardownBudgets
<1> DEFINE reached == {f \in ProtoKeys : fx[f] \in {"setup", "up"}}
<1>1. Cardinality(reached) \in Nat
  BY ProtocolAssumption, FS_Subset, FS_CardinalityType
<1> QED
  BY <1>1 DEF TeardownLasts

LEMMA LineNumbers == ASSUME ProtocolTypes, TimesTell, ReadLine PROVE teardownTimeout' \in Int /\ setupBudget' \in Int
<1> DEFINE line == wire[1]
<1>1. line \in WireLines
  BY DEF ProtocolTypes, ReadLine
<1>2. TeardownBudgets \subseteq Int
  BY TeardownBudgetsAre
<1> USE DEF TimesTell
<1>3. CASE line \in {"_setup"} \X Nat
  <2>1. NoteSetupBudget(line[2]) /\ noTeardownNote /\ line[2] \in Nat
    BY <1>3 DEF ReadLine
  <2> QED
    BY <2>1 DEF NoteSetupBudget, noTeardownNote
<1>4. CASE line \in {"state"} \X ProtoKeys
  BY <1>4 DEF ReadLine, noTeardownNote
<1>5. CASE line \in {"_cmd", "release"} \X TeardownBudgets
  <2>1. NoteTeardownBudget(line[2]) /\ UNCHANGED setupBudget /\ line[2] \in TeardownBudgets
    BY <1>5 DEF ReadLine
  <2> QED
    BY <1>2, <2>1 DEF NoteTeardownBudget
<1>6. CASE line \in {"_done"} \X BOOLEAN \X TeardownBudgets
  <2>1. teardownTimeout' = line[3] /\ UNCHANGED setupBudget /\ line[3] \in TeardownBudgets
    BY <1>6 DEF ReadLine
  <2> QED
    BY <1>2, <2>1
<1>7. CASE line = <<"_teardown">>
  BY <1>7 DEF ReadLine, noTeardownNote
<1> QED
  BY <1>1, <1>3, <1>4, <1>5, <1>6, <1>7 DEF WireLines

LEMMA BudgetIs == TimesTell => TeardownBudget \in Int
  BY ProtocolAssumption DEF TimesTell, TeardownBudget

LEMMA TimesStart == ProtocolInit => TimesTell
  BY ProtocolAssumption DEF ProtocolInit, ProtocolIn, TimesTell

LEMMA TimesStep == ProtocolInv /\ TimesTell /\ HeldTells /\ [ProtocolNext]_protoVars => TimesTell'
<1> SUFFICES ASSUME ProtocolInv, TimesTell, HeldTells, ProtocolNext \/ UNCHANGED protoVars PROVE TimesTell'
  OBVIOUS
<1> USE DEF TimesTell, readerVars, callerVars, keepAllBut
<1>1. ProtocolTypes /\ TeardownBudget \in Int /\ now \in Int /\ releaseEnds \in Int
  BY ProtocolAssumption, BudgetIs DEF ProtocolInv, ProtocolTypes, HeldTells
<1>2. CASE ReadLine
  <2>1. owed' = owed
    BY <1>2 DEF ReadLine
  <2> QED
    BY <1>1, <1>2, <2>1, LineNumbers
<1>3. CASE Expires
  <2>1. owed' = owed /\ setupBudget' = setupBudget
    BY <1>3 DEF Expires
  <2>2. teardownTimeout' \in {teardownTimeout, setupBudget, 1}
    BY <1>3 DEF Expires
  <2> QED
    BY <2>1, <2>2
<1>4. CASE StartCommand
  BY <1>4 DEF StartCommand
<1>5. CASE AskToExit \/ AwaitReport
  <2>1. UNCHANGED <<teardownTimeout, setupBudget>> /\ owed' \in {owed, releaseEnds, now + TeardownBudget}
    BY <1>5 DEF AskToExit, AwaitReport
  <2> QED
    BY <1>1, <2>1
<1>6. ASSUME NEW f \in ProtoKeys, NEW b \in SetupLasts[f], SetupBegins(f, b) PROVE TimesTell'
  BY <1>6 DEF SetupBegins
<1>7. ASSUME NEW f \in ProtoKeys, NEW how \in {"up", "failed"}, SetupEndsAs(f, how) PROVE TimesTell'
  BY <1>7 DEF SetupEndsAs
<1>8. ASSUME NEW how \in {"clean", "torn", "other"}, ProcessExits(how) PROVE TimesTell'
  BY <1>8 DEF ProcessExits
<1>9. CASE UpFrontDone \/ ReleaseServed \/ TeardownBegins \/ Passes
  BY <1>9 DEF UpFrontDone, ReleaseServed, TeardownBegins, Passes
<1>10. CASE StreamOver \/ Follow \/ SetupReturns \/ WaitCancelled
  BY <1>10 DEF StreamOver, Follow, SetupReturns, WaitCancelled
<1>11. CASE ReleaseCommand \/ ReleaseGivenUp \/ AwaitKills \/ AwaitDone \/ TeardownReturns
  BY <1>11 DEF ReleaseCommand, ReleaseGivenUp, AwaitKills, AwaitDone, TeardownReturns
<1>12. CASE UNCHANGED protoVars
  BY <1>12 DEF protoVars
<1> QED
  BY <1>2, <1>3, <1>4, <1>5, <1>6, <1>7, <1>8, <1>9, <1>10, <1>11, <1>12 DEF ProtocolNext

LEMMA HeldStarts == ProtocolInit => HeldTells
  BY DEF ProtocolInit, ProtocolIn, HeldTells, ReleaseWritten, Living, ProtoKeys, Never

\* A step that brings nothing up and acknowledges nothing keeps the ledger.
LEMMA LedgerStays ==
    ASSUME ProtocolTypes, HeldTells, UNCHANGED releaseVars, waiter' = "start" => waiter = "start",
           now' \in Nat, now' >= now, ReleaseWritten' => ReleaseWritten, Living' \subseteq Living,
           \A f \in ProtoKeys : fixture[f] = "gone" => fixture'[f] = "gone"
    PROVE  HeldTells'
<1>1. UNCHANGED <<release, releasing>> /\ UNCHANGED <<releaseEnds, held>>
  BY DEF releaseVars
<1>2. ReleaseWritten' => release' # "no" /\ \A f \in releasing' : fixture'[f] = "gone"
  BY <1>1 DEF HeldTells
<1>3. release' = "overdue" => releaseEnds' <= now'
  BY <1>1 DEF HeldTells, ProtocolTypes
<1>4. Living' \subseteq held'
  BY <1>1 DEF HeldTells
<1>5. \A f \in ProtoKeys : f \in held \/ fixture[f] = "gone" => f \in held' \/ fixture'[f] = "gone"
  BY <1>1
<1> QED
  BY <1>1, <1>2, <1>3, <1>4, <1>5 DEF HeldTells, ProtoKeys

\* What a written line is not an acknowledgement of a release leaves as it was.
LEMMA NoReleaseIn ==
    ASSUME ProtocolTypes, NEW line \in WireLines, line[1] # "release", wire' = Append(wire, line)
    PROVE  ReleaseWritten' => ReleaseWritten
<1>1. wire \in Seq(WireLines) /\ DOMAIN wire' = 1..(Len(wire) + 1) /\ DOMAIN wire = 1..Len(wire)
  BY DEF ProtocolTypes
<1> SUFFICES ASSUME NEW i \in DOMAIN wire', wire'[i][1] = "release" PROVE ReleaseWritten
  BY DEF ReleaseWritten
<1>2. i \in DOMAIN wire /\ wire'[i] = wire[i]
  BY <1>1
<1> QED
  BY <1>2 DEF ReleaseWritten

LEMMA EndedIsGone ==
    ASSUME ProtocolTypes, GoneWith
    PROVE  Living' = {} /\ \A f \in ProtoKeys : fixture'[f] = "gone"
  BY DEF GoneWith, Living

LEMMA ReleaseHeard ==
    ASSUME ReadLine
    PROVE  /\ UNCHANGED <<fixture, releasing, now>> /\ wire # <<>> /\ wire' = Tail(wire)
           /\ waiter' \in {waiter, "idle"}
           /\ \/ UNCHANGED <<release, held, releaseEnds>>
              \/ /\ wire[1][1] = "release" /\ release' = "over" /\ held' = held \ releasing
                 /\ releaseEnds' = Never
<1> DEFINE line == wire[1]
<1> USE DEF ReadLine, processVars
<1>1. CASE line[1] = "_setup"
  BY <1>1
<1>2. CASE line[1] = "_done"
  BY <1>2
<1>3. CASE line[1] = "_teardown"
  BY <1>3
<1>4. CASE line[1] \in {"_cmd", "release"}
  BY <1>4
<1>5. CASE line[1] \notin {"_setup", "_done", "_teardown", "_cmd", "release"}
  BY <1>5
<1> QED
  BY <1>1, <1>2, <1>3, <1>4, <1>5

LEMMA ReadLineHolds == ASSUME ProtocolTypes, HeldTells, ReadLine PROVE HeldTells'
<1>1. /\ UNCHANGED <<fixture, releasing, now>> /\ wire # <<>> /\ wire' = Tail(wire)
      /\ waiter' \in {waiter, "idle"}
      /\ \/ UNCHANGED <<release, held, releaseEnds>>
         \/ /\ wire[1][1] = "release" /\ release' = "over" /\ held' = held \ releasing
            /\ releaseEnds' = Never
  BY ReleaseHeard
<1>2. wire \in Seq(WireLines) /\ 1 \in DOMAIN wire
  BY <1>1 DEF ProtocolTypes
<1>3. ReleaseWritten' => ReleaseWritten
  <2> SUFFICES ASSUME NEW i \in DOMAIN wire', wire'[i][1] = "release" PROVE ReleaseWritten
    BY DEF ReleaseWritten
  <2>1. i + 1 \in DOMAIN wire /\ wire'[i] = wire[i + 1]
    BY <1>1, <1>2
  <2> QED
    BY <2>1 DEF ReleaseWritten
<1>4. Living' = Living
  BY <1>1 DEF Living
<1>5. CASE UNCHANGED <<release, held, releaseEnds>>
  BY <1>1, <1>3, <1>4, <1>5 DEF HeldTells
<1>6. CASE wire[1][1] = "release" /\ release' = "over" /\ held' = held \ releasing /\ releaseEnds' = Never
  <2>1. \A f \in releasing : fixture[f] = "gone"
    BY <1>2, <1>6 DEF HeldTells, ReleaseWritten
  <2>2. Living' \subseteq held'
    BY <1>4, <1>6, <2>1 DEF HeldTells, Living
  <2>3. \A f \in ProtoKeys : f \in held \/ fixture[f] = "gone" => f \in held' \/ fixture'[f] = "gone"
    BY <1>1, <1>6, <2>1
  <2>4. waiter' = "start" => waiter = "start"
    BY <1>1
  <2> QED
    BY <1>1, <1>3, <1>6, <2>1, <2>2, <2>3, <2>4 DEF HeldTells, ProtoKeys, Never
<1> QED
  BY <1>1, <1>5, <1>6

LEMMA SetupBeginsHolds ==
    ASSUME ProtocolTypes, HeldTells, NEW f \in ProtoKeys, NEW b \in SetupLasts[f], SetupBegins(f, b)
    PROVE  HeldTells'
<1>1. /\ fixture' = [fixture EXCEPT ![f] = "setup"] /\ fixture[f] = "no" /\ UNCHANGED now
      /\ wire' = Append(wire, <<"_setup", b>>) /\ UNCHANGED waiter
      /\ UNCHANGED <<release, releasing>> /\ UNCHANGED <<releaseEnds, held>>
      /\ f \in UpFrontKeys \/ (f \in DeferredKeys /\ waiter = "start")
  BY DEF SetupBegins, callerVars, releaseVars
<1>2. f \in held
  BY <1>1 DEF HeldTells
<1>3. Living' \subseteq Living \cup {f}
  BY <1>1 DEF Living, ProtocolTypes, FixtureStages
<1>4. <<"_setup", b>> \in WireLines
  BY ProtocolAssumption DEF WireLines
<1>5. ReleaseWritten' => ReleaseWritten
  BY <1>1, <1>4, NoReleaseIn
<1>6. \A g \in ProtoKeys : fixture[g] = "gone" => fixture'[g] = "gone"
  BY <1>1 DEF ProtocolTypes, FixtureStages
<1>7. ReleaseWritten' => release' # "no" /\ \A g \in releasing' : fixture'[g] = "gone"
  BY <1>1, <1>5, <1>6 DEF HeldTells
<1>8. Living' \subseteq held'
  BY <1>1, <1>2, <1>3 DEF HeldTells
<1> QED
  BY <1>1, <1>6, <1>7, <1>8 DEF HeldTells, ProtoKeys

LEMMA SetupEndsHolds ==
    ASSUME ProtocolTypes, HeldTells, NEW f \in ProtoKeys, NEW how \in {"up", "failed"}, SetupEndsAs(f, how)
    PROVE  HeldTells'
<1> DEFINE fx == [fixture EXCEPT ![f] = how]
           all == f \in DeferredKeys /\ \A g \in DeferredKeys : fx[g] \in {"up", "failed"}
           b == TeardownLasts(fx)
           first == IF how = "up" THEN <<<<"state", f>>>> ELSE <<>>
           second == IF all THEN <<<<"_cmd", b>>>> ELSE <<>>
<1>1. /\ fixture' = fx /\ fixture[f] = "setup" /\ UNCHANGED now /\ UNCHANGED waiter
      /\ UNCHANGED releaseVars /\ wire' = (wire \o first) \o second
  BY DEF SetupEndsAs, callerVars
<1> HIDE DEF b, all
<1>2. ReleaseWritten' => ReleaseWritten
  <2>1. wire \in Seq(WireLines)
    BY DEF ProtocolTypes
  <2>2. \A i \in DOMAIN wire' : wire'[i][1] = "release" => i \in DOMAIN wire /\ wire'[i] = wire[i]
    <3>1. CASE how = "up" /\ all
      <4>1. Len(wire') = Len(wire) + 2 /\ wire'[Len(wire) + 1] = <<"state", f>>
            /\ wire'[Len(wire) + 2] = <<"_cmd", b>> /\ \A i \in 1..Len(wire) : wire'[i] = wire[i]
        BY <1>1, <2>1, <3>1
      <4> QED
        BY <1>1, <2>1, <3>1, <4>1
    <3>2. CASE how = "up" /\ ~all
      BY <1>1, <2>1, <3>2
    <3>3. CASE how # "up" /\ all
      BY <1>1, <2>1, <3>3
    <3>4. CASE how # "up" /\ ~all
      BY <1>1, <2>1, <3>4
    <3> QED
      BY <3>1, <3>2, <3>3, <3>4
  <2> QED
    BY <2>2 DEF ReleaseWritten
<1>3. Living' \subseteq Living /\ \A g \in ProtoKeys : fixture[g] = "gone" => fixture'[g] = "gone"
  BY <1>1 DEF Living, ProtocolTypes, FixtureStages
<1> QED
  BY <1>1, <1>2, <1>3, LedgerStays DEF ProtocolTypes

LEMMA ReleaseServedHolds == ASSUME ProtocolTypes, HeldTells, ReleaseServed PROVE HeldTells'
<1>1. /\ fixture' = [f \in ProtoKeys |-> IF f \in releasing THEN "gone" ELSE fixture[f]]
      /\ UNCHANGED now /\ UNCHANGED waiter /\ releasing # {}
      /\ UNCHANGED <<release, releasing>> /\ UNCHANGED <<releaseEnds, held>>
  BY DEF ReleaseServed, callerVars, releaseVars
<1>2. Living' \subseteq Living /\ \A g \in ProtoKeys : fixture[g] = "gone" => fixture'[g] = "gone"
  BY <1>1 DEF Living
<1>3. release' # "no" /\ \A f \in releasing' : fixture'[f] = "gone"
  BY <1>1 DEF HeldTells
<1> QED
  BY <1>1, <1>2, <1>3 DEF HeldTells, ProtoKeys

LEMMA HeldStep == ProtocolInv /\ TimesTell /\ HeldTells /\ [ProtocolNext]_protoVars => HeldTells'
<1> SUFFICES ASSUME ProtocolInv, TimesTell, HeldTells, ProtocolNext \/ UNCHANGED protoVars PROVE HeldTells'
  OBVIOUS
<1>1. ProtocolTypes /\ now \in Nat /\ TeardownBudget \in Int
  BY BudgetIs DEF ProtocolInv, ProtocolTypes
<1>2. ASSUME NEW f \in ProtoKeys, NEW b \in SetupLasts[f], SetupBegins(f, b) PROVE HeldTells'
  BY <1>1, <1>2, SetupBeginsHolds
<1>3. ASSUME NEW f \in ProtoKeys, NEW how \in {"up", "failed"}, SetupEndsAs(f, how) PROVE HeldTells'
  BY <1>1, <1>3, SetupEndsHolds
<1>4. ASSUME NEW how \in {"clean", "torn", "other"}, ProcessExits(how) PROVE HeldTells'
  <2>1. UNCHANGED releaseVars /\ UNCHANGED waiter /\ UNCHANGED now /\ GoneWith
        /\ wire' = IF how = "torn" THEN Append(wire, <<"_teardown">>) ELSE wire
    BY <1>4 DEF ProcessExits, callerVars
  <2>2. ReleaseWritten' => ReleaseWritten
    <3>1. CASE how = "torn"
      BY <1>1, <2>1, <3>1, NoReleaseIn DEF WireLines
    <3>2. CASE how # "torn"
      BY <2>1, <3>2 DEF ReleaseWritten
    <3> QED
      BY <3>1, <3>2
  <2> QED
    BY <1>1, <2>1, <2>2, EndedIsGone, LedgerStays
<1>5. CASE UpFrontDone
  <2> DEFINE all == \A f \in UpFrontKeys : fixture[f] = "up"
             b == TeardownLasts(fixture)
  <2>1. UNCHANGED releaseVars /\ UNCHANGED waiter /\ UNCHANGED <<now, fixture>>
        /\ wire' = Append(wire, <<"_done", all, b>>)
    BY <1>5 DEF UpFrontDone, callerVars
  <2>2. <<"_done", all, b>> \in WireLines
    BY <1>1 DEF ProtocolTypes, WireLines, TeardownBudgets
  <2> HIDE DEF all, b
  <2>3. ReleaseWritten' => ReleaseWritten
    BY <1>1, <2>1, <2>2, NoReleaseIn
  <2> QED
    BY <1>1, <2>1, <2>3, LedgerStays DEF Living
<1>6. CASE StreamOver
  <2>1. UNCHANGED releaseVars /\ UNCHANGED waiter /\ UNCHANGED <<now, fixture>> /\ wire' = <<>>
    BY <1>6 DEF StreamOver, processVars, callerVars
  <2>2. ~ReleaseWritten'
    BY <2>1 DEF ReleaseWritten
  <2> QED
    BY <1>1, <2>1, <2>2, LedgerStays DEF Living
<1>7. CASE SetupReturns \/ WaitCancelled \/ Follow \/ Expires
  <2>1. UNCHANGED releaseVars /\ UNCHANGED <<now, fixture, wire>> /\ (waiter' = "start" => waiter = "start")
    BY <1>7 DEF SetupReturns, WaitCancelled, Follow, Expires, keepAllBut, processVars
  <2> QED
    BY <1>1, <2>1, LedgerStays DEF Living, ReleaseWritten
<1>8. CASE TeardownBegins \/ Passes \/ AwaitReport \/ AwaitDone \/ TeardownReturns \/ UNCHANGED protoVars
  <2>1. UNCHANGED releaseVars /\ UNCHANGED <<fixture, wire, waiter>> /\ now' \in {now, now + 1}
    BY <1>8 DEF TeardownBegins, Passes, AwaitReport, AwaitDone, TeardownReturns, protoVars,
                keepAllBut, processVars, callerVars
  <2>2. now' \in Nat /\ now' >= now
    BY <1>1, <2>1
  <2> QED
    BY <1>1, <2>1, <2>2, LedgerStays DEF Living, ReleaseWritten
<1>9. CASE AskToExit \/ AwaitKills
  <2>1. UNCHANGED releaseVars /\ UNCHANGED <<wire, waiter>> /\ UNCHANGED now /\ (GoneWith \/ UNCHANGED fixture)
    BY <1>9 DEF AskToExit, AwaitKills, ProcessKilled
  <2>2. Living' \subseteq Living /\ \A f \in ProtoKeys : fixture[f] = "gone" => fixture'[f] = "gone"
    BY <1>1, <2>1, EndedIsGone DEF Living
  <2> QED
    BY <1>1, <2>1, <2>2, LedgerStays DEF ReleaseWritten
<1>10. CASE StartCommand
  <2>1. /\ UNCHANGED <<now, fixture, wire>> /\ UNCHANGED <<release, releasing, releaseEnds>>
        /\ held' = held \cup DeferredKeys
    BY <1>10 DEF StartCommand, keepAllBut, processVars
  <2> QED
    BY <2>1 DEF HeldTells, Living, ReleaseWritten
<1>11. CASE ReleaseCommand
  <2>1. /\ UNCHANGED <<now, fixture, wire>> /\ UNCHANGED <<waiter, held>> /\ release = "no"
        /\ release' = "sent" /\ releaseEnds' = now + TeardownBudget /\ releasing' \subseteq UpFrontKeys
    BY <1>11 DEF ReleaseCommand, keepAllBut, processVars
  <2>2. ~ReleaseWritten'
    BY <2>1 DEF HeldTells, ReleaseWritten
  <2> QED
    BY <1>1, <2>1, <2>2 DEF HeldTells, Living, ProtoKeys
<1>12. CASE ReleaseGivenUp
  <2>1. /\ UNCHANGED <<now, fixture, wire>> /\ UNCHANGED <<waiter, held, releasing>> /\ release' # "no"
        /\ \/ releaseEnds <= now /\ releaseEnds' = releaseEnds
           \/ release' = "dropped" /\ releaseEnds' = Never
    BY <1>12 DEF ReleaseGivenUp, keepAllBut, processVars
  <2> QED
    BY <1>1, <2>1 DEF HeldTells, Living, ReleaseWritten, Never
<1> QED
  BY <1>1, <1>2, <1>3, <1>4, <1>5, <1>6, <1>7, <1>8, <1>9, <1>10, <1>11, <1>12, ReleaseServedHolds,
     ReadLineHolds DEF ProtocolNext

\* For any fixtures, budgets and flat deadline, however the process writes and
\* ends: no wait that follows the budgets is given up before they have passed, no
\* process is killed before it has had its teardown's, or what lives in it that of
\* a release, and only a clean exit, or
\* one beside a failed setup, passes (WaitSetup, sharedfixture.go:179; awaitExit,
\* :338; exitVerdict, :733).
THEOREM WaitsLastAsPromised == ProtocolSpec => []BudgetsAreHonoured
<1>1. ProtocolInv => BudgetsAreHonoured
  BY DEF ProtocolInv, TeardownTells, BudgetsAreHonoured
<1>2. ProtocolInit => ProtocolInv /\ TimesTell /\ HeldTells
  BY ProtocolStarts, TimesStart, HeldStarts
<1>3. ProtocolInv /\ TimesTell /\ HeldTells /\ [ProtocolNext]_protoVars => (ProtocolInv /\ TimesTell /\ HeldTells)'
  BY ProtocolStep, TimesStep, HeldStep
<1> QED
  BY <1>1, <1>2, <1>3, PTL DEF ProtocolSpec

------------------------------------------------------------------------------
(* What a benchmark run says of the code *)

BenchFiles == {FileOf[p] : p \in BenchPaths}
Measuring == {"running", "ran", "loaded", "writing", "saved"}
Writing == {"writing", "saved", "exited", "killed"}
BenchTypes ==
    /\ scenario \in Scenarios /\ DOMAIN baselines = BenchFiles
    /\ DOMAIN benchPhase = BenchRuns /\ DOMAIN askedFor = BenchRuns /\ DOMAIN measured = BenchRuns
    /\ DOMAIN loaded = BenchRuns /\ DOMAIN benchCode = BenchRuns
    /\ benchPoints \in [Benches -> Seq([run : BenchRuns, ns : Nat,
                                        delta : [pct : Int, significant : BOOLEAN]])]

AreFlags(f) == {f.save, f.against} \subseteq {"", "="} \cup BenchPaths /\ f.gate \in Int
\* A run goes on only with flags that were not refused, and what it saw and read
\* are times.
RunTells(r) ==
    /\ AreFlags(askedFor[r].flags)
    /\ askedFor[r].how = "save" => askedFor[r].flags.save # ""
    /\ benchPhase[r] \in {"none"} \cup Measuring \cup {"exited", "killed"}
    /\ benchPhase[r] # "none" =>
          Refusals(askedFor[r].flags) = {} \/ (benchPhase[r] = "exited" /\ benchCode[r] = 2)
    /\ IsMeasured(measured[r]) /\ DOMAIN measured[r] \subseteq Benches
    /\ IsMeasured(loaded[r].results) /\ loaded[r].by # r
    /\ benchPhase[r] \in Measuring \ {"running"} /\ benchCode[r] = 0 => DOMAIN measured[r] = Benches
    /\ benchPhase[r] = "writing" => SaveTarget(askedFor[r].flags) # ""
GateOn(r) ==
    (/\ benchPhase[r] = "exited" /\ benchCode[r] = 0 /\ scenario.built
     /\ GatePct(askedFor[r].flags) > 0) =>
        /\ DOMAIN measured[r] = Benches /\ DOMAIN loaded[r].results \cap Benches # {}
        /\ \A k \in DOMAIN loaded[r].results :
              k \in Benches =>
                 \/ measured[r][k].ns * 100 < loaded[r].results[k].ns * (100 + GatePct(askedFor[r].flags) + 1)
                 \/ ~Significant(loaded[r], measured[r], k)
RunsTell == \A r \in BenchRuns : RunTells(r) /\ GateOn(r)

\* A file holds what a run that wrote it measured, or what it held at first.
FilesTell ==
    \A f \in BenchFiles :
        /\ IsMeasured(baselines[f].results)
        /\ baselines[f].by \in BenchRuns => benchPhase[baselines[f].by] \in {"saved", "exited", "killed"}

\* A file one run alone has written to holds that run's report.
WritesTo(r, f) ==
    /\ benchPhase[r] \in Writing /\ SaveTarget(askedFor[r].flags) \in BenchPaths
    /\ FileOf[SaveTarget(askedFor[r].flags)] = f
SoleWriter(r, f) == WritesTo(r, f) /\ \A q \in BenchRuns : WritesTo(q, f) => q = r
HoldsReport(r, f) ==
    /\ benchPhase[r] = "writing" => baselines[f] = NoFile
    /\ benchPhase[r] = "saved" => baselines[f] = [by |-> r, results |-> measured[r]]
SoleTells == \A r \in BenchRuns, f \in BenchFiles : SoleWriter(r, f) => HoldsReport(r, f)

Ended(r) == r \in BenchRuns /\ benchPhase[r] \in {"exited", "killed"}
ToldTells ==
    told.what = "saved" =>
        /\ told.run \in BenchRuns /\ benchPhase[told.run] = "exited"
        /\ SaveTarget(askedFor[told.run].flags) # ""

\* What is shown of a benchmark is what the runs measured whose end was read.
PointIs(k, p) ==
    /\ p.run \in readOut /\ k \in DOMAIN measured[p.run] /\ p.ns = measured[p.run][k].ns
    /\ p.delta.significant => loaded[p.run].results[k].ns # p.ns
PointsTell ==
    /\ \A r \in readOut : Ended(r)
    /\ \A k \in Benches :
        /\ Len(benchPoints[k]) <= MaxHistory
        /\ \A i \in DOMAIN benchPoints[k] :
              /\ PointIs(k, benchPoints[k][i])
              /\ \A j \in DOMAIN benchPoints[k] : j # i => benchPoints[k][j].run # benchPoints[k][i].run
        /\ k \in squiggles => benchPoints[k] # <<>>

BenchInv == BenchTypes /\ RunsTell /\ FilesTell /\ SoleTells /\ ToldTells /\ PointsTell

LEMMA SomeIsMost ==
    ASSUME NEW S, IsFiniteSet(S), S # {}, NEW v, \A k \in S : v[k] \in Int
    PROVE  \E k \in S : \A l \in S : v[l] <= v[k]
<1> DEFINE HasMost(U) == \E k \in U : \A l \in U : v[l] <= v[k]
           sizes == {n \in Nat : \E U \in SUBSET S : U # {} /\ Cardinality(U) = n /\ ~HasMost(U)}
<1> SUFFICES HasMost(S)
  OBVIOUS
<1>1. sizes = {}
  <2> SUFFICES ASSUME sizes # {} PROVE FALSE
    OBVIOUS
  <2>1. PICK n \in sizes : \A m \in sizes : n <= m
    BY LeastNatural
  <2>2. PICK U \in SUBSET S : U # {} /\ Cardinality(U) = n /\ ~HasMost(U)
    BY <2>1
  <2>3. PICK u : u \in U
    BY <2>2
  <2> DEFINE V == U \ {u}
  <2>4. IsFiniteSet(V) /\ Cardinality(V) = n - 1 /\ n - 1 \in Nat /\ n \in Nat
    <3>1. IsFiniteSet(U)
      BY FS_Subset
    <3>2. IsFiniteSet(V) /\ Cardinality(V) \in Nat
      BY <3>1, FS_Subset, FS_CardinalityType
    <3>3. Cardinality(V) = Cardinality(U) - 1
      BY <2>3, <3>1, FS_RemoveElement
    <3>4. n \in Nat /\ Cardinality(U) = n
      BY <2>1, <2>2
    <3> QED
      BY <3>2, <3>3, <3>4
  <2>5. V # {}
    <3> SUFFICES ASSUME V = {} PROVE FALSE
      OBVIOUS
    <3>1. \A l \in U : l = u
      OBVIOUS
    <3> QED
      BY <2>2, <2>3, <3>1
  <2>6. HasMost(V)
    <3>1. n - 1 \notin sizes
      BY <2>1, <2>4
    <3>2. V \in SUBSET S
      OBVIOUS
    <3> HIDE DEF V, HasMost
    <3> QED
      BY <2>4, <2>5, <3>1, <3>2
  <2>7. PICK k \in V : \A l \in V : v[l] <= v[k]
    BY <2>6
  <2>8. \A l \in U : l \in V \/ l = u
    OBVIOUS
  <2>9. v[u] \in Int /\ v[k] \in Int /\ \A l \in U : v[l] \in Int
    BY <2>3, <2>7
  <2>10. CASE v[u] <= v[k]
    BY <2>2, <2>7, <2>8, <2>10
  <2>11. CASE v[k] < v[u]
    <3>1. \A l \in U : v[l] <= v[u]
      BY <2>7, <2>8, <2>9, <2>11
    <3> QED
      BY <2>2, <2>3, <3>1
  <2> QED
    BY <2>9, <2>10, <2>11
<1>2. Cardinality(S) \in Nat
  BY FS_CardinalityType
<1> HIDE DEF HasMost
<1> QED
  BY <1>1, <1>2

\* What a change of so many percent says of the two times.
LEMMA ChangeBounds ==
    ASSUME NEW n \in Nat \ {0}, NEW o \in Nat \ {0}, NEW g \in Int, ((n - o) * 100) \div o <= g
    PROVE  n * 100 < o * (100 + g + 1)
<1> DEFINE d == ((n - o) * 100) \div o
<1>1. d \in Int /\ (n - o) * 100 < o * d + o
  OBVIOUS
<1>2. o * d <= o * g
  BY <1>1
<1> HIDE DEF d
<1>3. o * (100 + g + 1) = o * 100 + o * g + o
  OBVIOUS
<1> QED
  BY <1>1, <1>2, <1>3
LEMMA NoChange == ASSUME NEW o \in Nat \ {0} PROVE ((o - o) * 100) \div o = 0
  OBVIOUS

LEMMA NothingIsMeasured == IsMeasured(<<>>) /\ DOMAIN <<>> = {} /\ Len(<<>>) = 0
<1>1. <<>> \in Seq(Nat) /\ Len(<<>>) = 0
  BY EmptySeq
<1>2. DOMAIN <<>> = 1 .. 0
  BY <1>1, LenProperties
<1>3. DOMAIN <<>> = {}
  BY <1>2
<1> QED
  BY <1>1, <1>3 DEF IsMeasured
LEMMA NoFileIsOfNoRun == IsMeasured(NoFile.results) /\ NoFile.by \notin BenchRuns
<1>1. NoFile.results = <<>> /\ NoFile.by = -1
  BY DEF NoFile
<1>2. BenchRuns \subseteq Nat
  BY BenchAssumption
<1>3. -1 \notin BenchRuns
  BY <1>2
<1> QED
  BY <1>1, <1>3, NothingIsMeasured

LEMMA PlainFlags ==
    ASSUME NEW f, f.save \in {"", "="} \cup BenchPaths, f.against \in {"", "="} \cup BenchPaths, f.gate = -1
    PROVE  AreFlags(f)
<1>1. {f.save, f.against} \subseteq {"", "="} \cup BenchPaths
  OBVIOUS
<1>2. f.gate = -1
  OBVIOUS
<1>3. f.gate \in Int
  BY ONLY <1>2
<1> QED
  BY <1>1, <1>3 DEF AreFlags
LEMMA GateIsOff ==
    ASSUME NEW r, benchPhase'[r] # "exited" \/ benchCode'[r] # 0
    PROVE  GateOn(r)'
  BY DEF GateOn

\* What no step takes back of a run.
Forward ==
    /\ scenario' = scenario
    /\ \A q \in BenchRuns :
          /\ benchPhase[q] # "none" => askedFor'[q] = askedFor[q]
          /\ benchPhase[q] \in {"exited", "killed"} =>
                benchPhase'[q] = benchPhase[q] /\ measured'[q] = measured[q] /\ loaded'[q] = loaded[q]
          /\ benchPhase[q] \in Writing => benchPhase'[q] \in Writing
          /\ benchPhase[q] \in {"saved", "exited", "killed"} =>
                benchPhase'[q] \in {"saved", "exited", "killed"}
SameRow(q) ==
    /\ benchPhase'[q] = benchPhase[q] /\ askedFor'[q] = askedFor[q] /\ measured'[q] = measured[q]
    /\ loaded'[q] = loaded[q] /\ benchCode'[q] = benchCode[q]

LEMMA SameFlags ==
    ASSUME scenario' = scenario, NEW r, askedFor'[r] = askedFor[r]
    PROVE  /\ GatePct(askedFor[r].flags)' = GatePct(askedFor[r].flags)
           /\ Refusals(askedFor[r].flags)' = Refusals(askedFor[r].flags)
           /\ SaveTarget(askedFor[r].flags)' = SaveTarget(askedFor[r].flags)
  BY DEF GatePct, Promotes, ItsOwnBaseline, SaveTarget, AgainstOrConfig, SameFile, Refusals, AgainstPath

LEMMA RowStays ==
    ASSUME NEW r \in BenchRuns, scenario' = scenario, SameRow(r), RunTells(r), GateOn(r)
    PROVE  RunTells(r)' /\ GateOn(r)'
<1>1. /\ GatePct(askedFor[r].flags)' = GatePct(askedFor[r].flags)
      /\ Refusals(askedFor[r].flags)' = Refusals(askedFor[r].flags)
      /\ SaveTarget(askedFor[r].flags)' = SaveTarget(askedFor[r].flags)
  BY SameFlags DEF SameRow
<1>2. RunTells(r)'
  BY <1>1 DEF SameRow, RunTells, AreFlags
<1>3. GateOn(r)'
  BY <1>1 DEF SameRow, GateOn
<1> QED
  BY <1>2, <1>3

LEMMA FilesStay ==
    ASSUME BenchInv, Forward, baselines' = baselines
    PROVE  FilesTell'
  BY DEF BenchInv, FilesTell, Forward, IsMeasured
LEMMA BenchToldStays ==
    ASSUME BenchInv, Forward, told' = told
    PROVE  ToldTells'
<1> SUFFICES ASSUME told.what = "saved"
             PROVE  /\ told.run \in BenchRuns /\ benchPhase'[told.run] = "exited"
                    /\ SaveTarget(askedFor[told.run].flags)' # ""
  BY DEF ToldTells
<1>1. told.run \in BenchRuns /\ benchPhase[told.run] = "exited" /\ SaveTarget(askedFor[told.run].flags) # ""
  BY DEF BenchInv, ToldTells
<1>2. scenario' = scenario /\ askedFor'[told.run] = askedFor[told.run] /\ benchPhase'[told.run] = "exited"
  BY <1>1 DEF Forward
<1> QED
  BY <1>1, <1>2 DEF SaveTarget
LEMMA EndedStays ==
    ASSUME Forward, NEW r, Ended(r)
    PROVE  Ended(r)' /\ measured'[r] = measured[r] /\ loaded'[r] = loaded[r]
  BY DEF Forward, Ended
LEMMA PointsStay ==
    ASSUME BenchInv, Forward, readOut' = readOut, benchPoints' = benchPoints, squiggles' = squiggles
    PROVE  PointsTell'
<1>1. \A r \in readOut : Ended(r)'
  BY EndedStays DEF BenchInv, PointsTell
<1>2. ASSUME NEW k \in Benches, NEW i \in DOMAIN benchPoints[k]
      PROVE  PointIs(k, benchPoints[k][i])'
  <2>1. PointIs(k, benchPoints[k][i]) /\ Ended(benchPoints[k][i].run)
    BY <1>2 DEF BenchInv, PointsTell, PointIs
  <2>2. measured'[benchPoints[k][i].run] = measured[benchPoints[k][i].run]
        /\ loaded'[benchPoints[k][i].run] = loaded[benchPoints[k][i].run]
    BY <2>1, EndedStays
  <2> QED
    BY <2>1, <2>2 DEF PointIs
<1> QED
  BY <1>1, <1>2 DEF BenchInv, PointsTell

LEMMA WritesStay ==
    ASSUME Forward, NEW q \in BenchRuns, NEW f, WritesTo(q, f)
    PROVE  WritesTo(q, f)'
<1>1. askedFor'[q] = askedFor[q] /\ scenario' = scenario /\ benchPhase'[q] \in Writing
  BY DEF WritesTo, Forward, Writing
<1>2. SaveTarget(askedFor[q].flags)' = SaveTarget(askedFor[q].flags)
  BY <1>1, SameFlags
<1> QED
  BY <1>1, <1>2 DEF WritesTo
LEMMA SoleBefore ==
    ASSUME Forward, NEW q \in BenchRuns, NEW f, SoleWriter(q, f)', benchPhase[q] \in Writing
    PROVE  SoleWriter(q, f)
<1>1. askedFor'[q] = askedFor[q] /\ scenario' = scenario
  BY DEF Forward, Writing
<1>2. SaveTarget(askedFor[q].flags)' = SaveTarget(askedFor[q].flags)
  BY <1>1, SameFlags
<1>3. WritesTo(q, f)
  BY <1>2 DEF WritesTo, SoleWriter
<1>4. \A x \in BenchRuns : WritesTo(x, f) => x = q
  BY WritesStay DEF SoleWriter
<1> QED
  BY <1>3, <1>4 DEF SoleWriter
LEMMA SoleStays ==
    ASSUME BenchInv, Forward, NEW r \in BenchRuns, \A q \in BenchRuns \ {r} : SameRow(q),
           \A f \in BenchFiles : baselines'[f] = baselines[f] \/ WritesTo(r, f)',
           \A f \in BenchFiles : SoleWriter(r, f)' => HoldsReport(r, f)'
    PROVE  SoleTells'
<1> SUFFICES ASSUME NEW q \in BenchRuns \ {r}, NEW f \in BenchFiles, SoleWriter(q, f)'
             PROVE  HoldsReport(q, f)'
  BY DEF SoleTells
<1>1. SameRow(q) /\ q \in BenchRuns
  OBVIOUS
<1>2. CASE benchPhase[q] \notin {"writing", "saved"}
  BY <1>1, <1>2 DEF HoldsReport, SameRow
<1>3. CASE benchPhase[q] \in {"writing", "saved"}
  <2>1. SoleWriter(q, f) /\ HoldsReport(q, f)
    BY <1>3, SoleBefore DEF Writing, BenchInv, SoleTells
  <2>2. baselines'[f] = baselines[f]
    BY DEF SoleWriter
  <2> QED
    BY <1>1, <2>1, <2>2 DEF HoldsReport, SameRow
<1> QED
  BY <1>2, <1>3

LEMMA RowsTell ==
    ASSUME BenchInv, Forward, NEW r \in BenchRuns, \A q \in BenchRuns \ {r} : SameRow(q),
           RunTells(r)', GateOn(r)'
    PROVE  RunsTell'
<1> SUFFICES ASSUME NEW q \in BenchRuns \ {r} PROVE RunTells(q)' /\ GateOn(q)'
  BY DEF RunsTell
<1>1. SameRow(q) /\ RunTells(q) /\ GateOn(q) /\ scenario' = scenario
  BY DEF BenchInv, RunsTell, Forward
<1> QED
  BY <1>1, RowStays

\* A step of one run that neither writes a file nor is shown.
LEMMA QuietStep ==
    ASSUME BenchInv, Forward, BenchTypes', NEW r \in BenchRuns, \A q \in BenchRuns \ {r} : SameRow(q),
           RunTells(r)', GateOn(r)', benchPhase'[r] \notin {"writing", "saved"},
           baselines' = baselines, told' = told, readOut' = readOut, benchPoints' = benchPoints,
           squiggles' = squiggles
    PROVE  BenchInv'
<1>1. RunsTell'
  BY RowsTell
<1>2. FilesTell' /\ ToldTells' /\ PointsTell'
  BY FilesStay, BenchToldStays, PointsStay
<1>3. SoleTells'
  <2>1. \A f \in BenchFiles : SoleWriter(r, f)' => HoldsReport(r, f)'
    BY DEF HoldsReport
  <2> QED
    BY <2>1, SoleStays
<1> QED
  BY <1>1, <1>2, <1>3 DEF BenchInv

LEMMA BenchStartKeeps ==
    ASSUME BenchInv, NEW q \in BenchRuns, benchPhase[q] = "none", NEW how, NEW second, NEW flags,
           AreFlags(flags), how = "save" => flags.save # "", StartBench(q, how, second, flags),
           scenario' = scenario, measured' = measured, loaded' = loaded
    PROVE  /\ Forward /\ \A x \in BenchRuns \ {q} : SameRow(x)
           /\ RunTells(q)' /\ GateOn(q)' /\ benchPhase'[q] \notin {"writing", "saved"}
           /\ DOMAIN benchPhase' = BenchRuns /\ DOMAIN askedFor' = BenchRuns /\ DOMAIN benchCode' = BenchRuns
<1>1. /\ askedFor'[q].flags = flags /\ askedFor'[q].how = how
      /\ benchPhase'[q] = IF Refusals(flags) = {} THEN "running" ELSE "exited"
      /\ benchCode'[q] = IF Refusals(flags) = {} THEN 0 ELSE 2
  BY DEF BenchInv, BenchTypes, StartBench
<1>2. \A x \in BenchRuns \ {q} : SameRow(x)
  BY DEF BenchInv, BenchTypes, StartBench, SameRow
<1>3. Forward
  BY <1>2 DEF Forward, SameRow, Writing
<1>4. Refusals(askedFor[q].flags)' = Refusals(flags)
  BY <1>1 DEF Refusals, GatePct, Promotes, ItsOwnBaseline, SaveTarget, AgainstOrConfig, SameFile, AgainstPath
<1>5. RunTells(q)'
  <2>1. RunTells(q) /\ measured'[q] = measured[q] /\ loaded'[q] = loaded[q]
    BY DEF BenchInv, RunsTell
  <2>2. AreFlags(askedFor[q].flags)'
    BY <1>1 DEF AreFlags
  <2>3. (askedFor'[q].how = "save" => askedFor'[q].flags.save # "")
        /\ benchPhase'[q] \in {"none"} \cup Measuring \cup {"exited", "killed"}
    BY <1>1 DEF Measuring
  <2>4. Refusals(askedFor[q].flags)' = {} \/ (benchPhase'[q] = "exited" /\ benchCode'[q] = 2)
    BY <1>1, <1>4
  <2>5. benchPhase'[q] \notin Measuring \ {"running"}
    BY <1>1 DEF Measuring
  <2> QED
    BY <2>1, <2>2, <2>3, <2>4, <2>5 DEF RunTells
<1>6. GateOn(q)'
  <2>1. benchPhase'[q] # "exited" \/ benchCode'[q] # 0
    <3>1. CASE Refusals(flags) = {}
      <4>1. benchPhase'[q] = "running"
        BY <1>1, <3>1, Zenon
      <4> QED
        BY <4>1
    <3>2. CASE Refusals(flags) # {}
      <4>1. benchCode'[q] = 2
        BY <1>1, <3>2, Zenon
      <4> QED
        BY ONLY <4>1
    <3> QED
      BY <3>1, <3>2
  <2> QED
    BY <2>1, GateIsOff
<1>7. DOMAIN benchPhase' = BenchRuns /\ DOMAIN askedFor' = BenchRuns /\ DOMAIN benchCode' = BenchRuns
  BY DEF BenchInv, BenchTypes, StartBench
<1> QED
  BY <1>1, <1>2, <1>3, <1>5, <1>6, <1>7

LEMMA StartIsQuiet ==
    ASSUME BenchInv, NEW q \in BenchRuns, benchPhase[q] = "none", NEW how, NEW second, NEW flags,
           AreFlags(flags), how = "save" => flags.save # "", StartBench(q, how, second, flags),
           UNCHANGED <<scenario, measured, loaded, baselines, told, readOut, benchPoints, squiggles>>
    PROVE  BenchInv'
<1>1. /\ Forward /\ \A x \in BenchRuns \ {q} : SameRow(x)
      /\ RunTells(q)' /\ GateOn(q)' /\ benchPhase'[q] \notin {"writing", "saved"}
      /\ DOMAIN benchPhase' = BenchRuns /\ DOMAIN askedFor' = BenchRuns /\ DOMAIN benchCode' = BenchRuns
  BY BenchStartKeeps
<1>2. BenchTypes'
  BY <1>1 DEF BenchInv, BenchTypes
<1> QED
  BY <1>1, <1>2, QuietStep

LEMMA AskInTerminalKeeps ==
    ASSUME BenchInv, NEW r \in BenchRuns, AskInTerminal(r) PROVE BenchInv'
<1>1. PICK flags \in scenario.flags : StartBench(r, "terminal", FALSE, flags)
  BY DEF AskInTerminal
<1>2. AreFlags(flags)
  BY BenchAssumption DEF BenchInv, BenchTypes, AreFlags
<1>3. benchPhase[r] = "none"
      /\ UNCHANGED <<scenario, measured, loaded, baselines, told, readOut, benchPoints, squiggles>>
  BY DEF AskInTerminal, Starts, editorBenchVars
<1> QED
  BY <1>1, <1>2, <1>3, StartIsQuiet
LEMMA AskInEditorKeeps ==
    ASSUME BenchInv, NEW r \in BenchRuns, NEW how, AskInEditor(r, how) PROVE BenchInv'
<1> DEFINE plain == [Unasked.flags EXCEPT !.save = IF how = "save" THEN "=" ELSE ""]
<1>1. PICK n : StartBench(r, how, FALSE, [plain EXCEPT !.count = n])
  BY DEF AskInEditor
<1>2. AreFlags([plain EXCEPT !.count = n]) /\ (how = "save" => [plain EXCEPT !.count = n].save # "")
  <2> DEFINE flags == [plain EXCEPT !.count = n]
  <2>1. flags.save = IF how = "save" THEN "=" ELSE ""
    BY DEF Unasked
  <2>2. flags.against = ""
    BY DEF Unasked
  <2>3. flags.gate = -1
    BY DEF Unasked, NotGiven
  <2> HIDE DEF flags
  <2>4. AreFlags(flags)
    BY <2>1, <2>2, <2>3, PlainFlags
  <2> QED
    BY <2>1, <2>4 DEF flags
<1>3. benchPhase[r] = "none"
      /\ UNCHANGED <<scenario, measured, loaded, baselines, told, readOut, benchPoints, squiggles>>
  BY DEF AskInEditor, Starts
<1> HIDE DEF plain
<1> QED
  BY <1>1, <1>2, <1>3, StartIsQuiet

\* A step that ends or carries on the run r, whose flags stay.
LEMMA OnlyRow ==
    ASSUME BenchInv, NEW r \in BenchRuns, NEW to, benchPhase' = [benchPhase EXCEPT ![r] = to],
           benchPhase[r] \in Measuring, to \in Measuring \cup {"exited", "killed"},
           benchPhase[r] \in Writing => to \in Writing,
           benchPhase[r] = "saved" => to \in {"exited", "killed"},
           scenario' = scenario, askedFor' = askedFor,
           \A q \in BenchRuns \ {r} : /\ measured'[q] = measured[q] /\ loaded'[q] = loaded[q]
                                      /\ benchCode'[q] = benchCode[q]
    PROVE  /\ Forward /\ \A q \in BenchRuns \ {r} : SameRow(q)
           /\ benchPhase'[r] = to /\ DOMAIN benchPhase' = BenchRuns
           /\ Refusals(askedFor[r].flags) = {} /\ Refusals(askedFor[r].flags)' = {}
           /\ GatePct(askedFor[r].flags)' = GatePct(askedFor[r].flags)
<1>1. benchPhase'[r] = to /\ DOMAIN benchPhase' = BenchRuns /\ \A q \in BenchRuns \ {r} : SameRow(q)
  BY DEF BenchInv, BenchTypes, SameRow
<1>2. Forward
  BY <1>1 DEF Forward, SameRow, Writing, Measuring
<1>3. Refusals(askedFor[r].flags) = {}
  BY DEF BenchInv, RunsTell, RunTells, Measuring
<1>4. /\ Refusals(askedFor[r].flags)' = Refusals(askedFor[r].flags)
      /\ GatePct(askedFor[r].flags)' = GatePct(askedFor[r].flags)
  BY SameFlags
<1> QED
  BY <1>1, <1>2, <1>3, <1>4

LEMMA NothingToRunKeeps ==
    ASSUME BenchInv, NEW r \in BenchRuns, NothingToRun(r) PROVE BenchInv'
<1>1. /\ Forward /\ \A q \in BenchRuns \ {r} : SameRow(q)
      /\ benchPhase'[r] = "exited" /\ DOMAIN benchPhase' = BenchRuns
      /\ Refusals(askedFor[r].flags)' = {}
  BY OnlyRow DEF NothingToRun, Measuring, Writing
<1>2. RunTells(r)'
  BY <1>1 DEF BenchInv, RunsTell, RunTells, NothingToRun, AreFlags, Measuring
<1>3. GateOn(r)'
  BY DEF GateOn, NothingToRun
<1>4. BenchTypes'
  BY <1>1 DEF BenchInv, BenchTypes, NothingToRun, editorBenchVars
<1> QED
  BY <1>1, <1>2, <1>3, <1>4, QuietStep DEF NothingToRun, editorBenchVars
LEMMA KillBenchKeeps ==
    ASSUME BenchInv, NEW r \in BenchRuns, KillBench(r) PROVE BenchInv'
<1>1. /\ Forward /\ \A q \in BenchRuns \ {r} : SameRow(q)
      /\ benchPhase'[r] = "killed" /\ DOMAIN benchPhase' = BenchRuns
      /\ Refusals(askedFor[r].flags)' = {}
  BY OnlyRow DEF KillBench, Measuring, Writing
<1>2. RunTells(r)'
  BY <1>1 DEF BenchInv, RunsTell, RunTells, KillBench, AreFlags, Measuring
<1>3. GateOn(r)'
  BY <1>1 DEF GateOn
<1>4. BenchTypes'
  BY <1>1 DEF BenchInv, BenchTypes, KillBench, editorBenchVars
<1> QED
  BY <1>1, <1>2, <1>3, <1>4, QuietStep DEF KillBench, editorBenchVars

LEMMA RunBenchmarksKeeps ==
    ASSUME BenchInv, NEW r \in BenchRuns, RunBenchmarks(r) PROVE BenchInv'
<1>m. PICK m \in scenario.measured :
        \E seen \in SUBSET DOMAIN FromPackages(m) :
        /\ measured' = [measured EXCEPT ![r] = [k \in seen |-> FromPackages(m)[k]]]
        /\ benchCode' = [benchCode EXCEPT ![r] = IF seen = Benches /\ r \notin benchStopped THEN 0 ELSE 1]
  BY DEF RunBenchmarks
<1>1. PICK seen \in SUBSET DOMAIN FromPackages(m) :
        /\ measured' = [measured EXCEPT ![r] = [k \in seen |-> FromPackages(m)[k]]]
        /\ benchCode' = [benchCode EXCEPT ![r] = IF seen = Benches /\ r \notin benchStopped THEN 0 ELSE 1]
  BY <1>m
<1>2. /\ Forward /\ \A q \in BenchRuns \ {r} : SameRow(q)
      /\ benchPhase'[r] = "ran" /\ DOMAIN benchPhase' = BenchRuns
      /\ Refusals(askedFor[r].flags)' = {}
  <2>1. \A q \in BenchRuns \ {r} : /\ measured'[q] = measured[q] /\ loaded'[q] = loaded[q]
                                   /\ benchCode'[q] = benchCode[q]
    BY <1>1 DEF RunBenchmarks, BenchInv, BenchTypes
  <2> QED
    BY <2>1, OnlyRow DEF RunBenchmarks, Measuring, Writing
<1>3. /\ DOMAIN measured'[r] = seen /\ seen \subseteq Benches /\ IsMeasured(measured'[r])
      /\ benchCode'[r] = 0 => seen = Benches
  <2>1. Benches \subseteq DOMAIN m /\ IsMeasured(m)
    BY BenchAssumption DEF BenchInv, BenchTypes
  <2>2. seen \subseteq Benches /\ \A k \in seen : FromPackages(m)[k].ns = m[k].ns
    BY <1>1 DEF FromPackages
  <2>3. measured'[r] = [k \in seen |-> FromPackages(m)[k]]
        /\ benchCode'[r] = IF seen = Benches /\ r \notin benchStopped THEN 0 ELSE 1
    BY <1>1 DEF BenchInv, BenchTypes
  <2> QED
    BY <2>1, <2>2, <2>3 DEF IsMeasured
<1>4. RunTells(r)'
  <2>1. RunTells(r) /\ askedFor' = askedFor /\ loaded' = loaded
    BY DEF BenchInv, RunsTell, RunBenchmarks
  <2>2. AreFlags(askedFor[r].flags)' /\ IsMeasured(loaded'[r].results)
    BY <2>1 DEF RunTells, AreFlags
  <2> QED
    BY <1>2, <1>3, <2>1, <2>2 DEF RunTells, Measuring
<1>5. GateOn(r)'
  BY <1>2 DEF GateOn
<1>6. BenchTypes'
  BY <1>1, <1>2 DEF BenchInv, BenchTypes, RunBenchmarks, editorBenchVars
<1> QED
  BY <1>2, <1>4, <1>5, <1>6, QuietStep DEF RunBenchmarks, editorBenchVars

\* The paths a run goes by are named, and its gate is a number.
LEMMA PathsAreNamed ==
    ASSUME BenchInv, NEW r \in BenchRuns
    PROVE  /\ AgainstPath(askedFor[r].flags) \in {""} \cup BenchPaths
           /\ SaveTarget(askedFor[r].flags) \in {""} \cup BenchPaths \cup {"="}
           /\ GatePct(askedFor[r].flags) \in Int
           /\ SaveTarget(askedFor[r].flags) # "="
<1>1. AreFlags(askedFor[r].flags) /\ scenario.baseline \in {""} \cup BenchPaths /\ scenario.gate \in Nat
  BY BenchAssumption DEF BenchInv, BenchTypes, RunsTell, RunTells
<1>2. "=" \notin BenchPaths /\ "" \notin BenchPaths
  BY BenchAssumption
<1> DEFINE f == askedFor[r].flags
<1>3. {f.save, f.against} \subseteq {"", "="} \cup BenchPaths /\ f.gate \in Int
  BY <1>1 DEF AreFlags
<1> HIDE DEF f
<1>4. AgainstOrConfig(f) \in {""} \cup BenchPaths
  BY <1>1, <1>3 DEF AgainstOrConfig
<1>5. AgainstPath(f) \in {""} \cup BenchPaths
  BY <1>4 DEF AgainstPath
<1>6. SaveTarget(f) \in {""} \cup BenchPaths \cup {"="} /\ SaveTarget(f) # "="
  BY <1>1, <1>2, <1>3 DEF SaveTarget
<1>7. GatePct(f) \in Int
  <2>1. GatePct(f) = f.gate \/ GatePct(f) = 0 \/ GatePct(f) = scenario.gate
    BY DEF GatePct
  <2>2. f.gate \in Int
    BY <1>3
  <2>3. scenario.gate \in Nat
    BY <1>1
  <2> QED
    BY ONLY <2>1, <2>2, <2>3
<1> QED
  BY <1>5, <1>6, <1>7 DEF f

LEMMA LoadBaselineKeeps ==
    ASSUME BenchInv, NEW r \in BenchRuns, LoadBaseline(r) PROVE BenchInv'
<1> DEFINE path == AgainstPath(askedFor[r].flags)
           fails == path # "" /\ baselines[FileOf[path]] = NoFile
           to == IF fails THEN "exited" ELSE "loaded"
<1>1. /\ benchPhase[r] = "ran" /\ benchPhase' = [benchPhase EXCEPT ![r] = to]
      /\ UNCHANGED scenario /\ UNCHANGED baselines /\ UNCHANGED askedFor /\ UNCHANGED measured
      /\ UNCHANGED told /\ UNCHANGED readOut /\ UNCHANGED benchPoints /\ UNCHANGED squiggles
  BY DEF LoadBaseline, editorBenchVars
<1>2. /\ DOMAIN loaded' = BenchRuns /\ DOMAIN benchCode' = BenchRuns
      /\ \A q \in BenchRuns \ {r} : loaded'[q] = loaded[q] /\ benchCode'[q] = benchCode[q]
  BY DEF LoadBaseline, BenchInv, BenchTypes
<1>3. /\ loaded'[r] = loaded[r] \/ (path # "" /\ loaded'[r] = baselines[FileOf[path]])
      /\ IF fails THEN benchCode'[r] = 2 ELSE benchCode'[r] = benchCode[r]
  BY DEF LoadBaseline, BenchInv, BenchTypes
<1>4. path # "" => FileOf[path] \in BenchFiles
  BY PathsAreNamed DEF BenchFiles
<1>5. loaded'[r].by # r /\ IsMeasured(loaded'[r].results)
  <2>1. loaded[r].by # r /\ IsMeasured(loaded[r].results)
    BY DEF BenchInv, RunsTell, RunTells
  <2>2. \A f \in BenchFiles : IsMeasured(baselines[f].results) /\ baselines[f].by # r
    BY <1>1 DEF BenchInv, FilesTell
  <2> HIDE DEF path
  <2> QED
    BY <1>3, <1>4, <2>1, <2>2
<1>6. to \in {"exited", "loaded"}
  OBVIOUS
<1> HIDE DEF path, fails
<1>7. /\ Forward /\ \A q \in BenchRuns \ {r} : SameRow(q)
      /\ benchPhase'[r] = to /\ DOMAIN benchPhase' = BenchRuns
      /\ Refusals(askedFor[r].flags)' = {}
  BY <1>1, <1>2, <1>6, OnlyRow DEF Measuring, Writing
<1>8. RunTells(r)'
  <2>1. RunTells(r)
    BY DEF BenchInv, RunsTell
  <2>2. AreFlags(askedFor[r].flags)' /\ IsMeasured(measured'[r]) /\ DOMAIN measured'[r] \subseteq Benches
    BY <1>1, <2>1 DEF RunTells, AreFlags
  <2>3. benchPhase'[r] \in Measuring \ {"running"} /\ benchCode'[r] = 0 => DOMAIN measured'[r] = Benches
    BY <1>1, <1>3, <1>7, <2>1 DEF RunTells, Measuring
  <2> QED
    BY <1>1, <1>5, <1>6, <1>7, <2>1, <2>2, <2>3 DEF RunTells, Measuring
<1>9. GateOn(r)'
  <2>1. benchPhase'[r] # "exited" \/ benchCode'[r] # 0
    <3>1. CASE fails
      <4>1. benchCode'[r] = 2
        BY <1>3, <3>1, Zenon
      <4> QED
        BY ONLY <4>1
    <3>2. CASE ~fails
      <4>1. benchPhase'[r] = "loaded"
        BY <1>7, <3>2, Zenon DEF to
      <4> QED
        BY ONLY <4>1
    <3> QED
      BY <3>1, <3>2
  <2> QED
    BY <2>1, GateIsOff
<1>10. BenchTypes'
  BY <1>1, <1>2, <1>7 DEF BenchInv, BenchTypes
<1> QED
  BY <1>1, <1>6, <1>7, <1>8, <1>9, <1>10, QuietStep

\* A step of the run r that stays in the measuring phases or ends.
LEMMA RowCarriesOn ==
    ASSUME BenchInv, NEW r \in BenchRuns, benchPhase[r] \in Measuring \ {"running"},
           benchPhase'[r] \in Measuring, scenario' = scenario, askedFor' = askedFor,
           measured' = measured, loaded' = loaded, benchCode' = benchCode,
           Refusals(askedFor[r].flags)' = {},
           benchPhase'[r] = "writing" => SaveTarget(askedFor[r].flags)' # ""
    PROVE  RunTells(r)' /\ GateOn(r)'
<1>1. RunTells(r)
  BY DEF BenchInv, RunsTell
<1>2. AreFlags(askedFor[r].flags)'
  BY <1>1 DEF RunTells, AreFlags
<1>3. RunTells(r)'
  BY <1>1, <1>2 DEF RunTells, Measuring
<1>4. GateOn(r)'
  BY DEF GateOn, Measuring
<1> QED
  BY <1>3, <1>4

LEMMA TruncateBaselineKeeps ==
    ASSUME BenchInv, NEW r \in BenchRuns, TruncateBaseline(r) PROVE BenchInv'
<1> DEFINE path == SaveTarget(askedFor[r].flags)
           to == IF path = "" THEN "saved" ELSE "writing"
<1>1. /\ benchPhase[r] = "loaded" /\ benchPhase' = [benchPhase EXCEPT ![r] = to]
      /\ UNCHANGED scenario /\ UNCHANGED askedFor /\ UNCHANGED measured /\ UNCHANGED loaded
      /\ UNCHANGED benchCode
      /\ UNCHANGED told /\ UNCHANGED readOut /\ UNCHANGED benchPoints /\ UNCHANGED squiggles
  BY DEF TruncateBaseline, editorBenchVars
<1>2. IF path = "" THEN baselines' = baselines ELSE baselines' = [baselines EXCEPT ![FileOf[path]] = NoFile]
  BY DEF TruncateBaseline
<1>3. path \in {""} \cup BenchPaths
  BY PathsAreNamed
<1>4. to \in {"saved", "writing"}
  OBVIOUS
<1>5. /\ Forward /\ \A q \in BenchRuns \ {r} : SameRow(q)
      /\ benchPhase'[r] = to /\ DOMAIN benchPhase' = BenchRuns
      /\ Refusals(askedFor[r].flags)' = {}
  BY <1>1, <1>4, OnlyRow DEF Measuring, Writing
<1>6. path' = path
  BY <1>1, SameFlags
<1>7. RunTells(r)' /\ GateOn(r)'
  <2>1. benchPhase'[r] = "writing" => path # ""
    BY <1>5
  <2> HIDE DEF to
  <2> QED
    BY <1>1, <1>4, <1>5, <1>6, <2>1, RowCarriesOn DEF Measuring
<1>8. \A f \in BenchFiles : \/ baselines'[f] = baselines[f]
                            \/ path # "" /\ f = FileOf[path] /\ baselines'[f] = NoFile
  BY <1>2 DEF BenchInv, BenchTypes
<1>9. BenchTypes'
  BY <1>1, <1>2, <1>5 DEF BenchInv, BenchTypes
<1>10. FilesTell'
  <2>1. IsMeasured(NoFile.results) /\ NoFile.by \notin BenchRuns
    BY NoFileIsOfNoRun
  <2>2. \A f \in BenchFiles : baselines'[f] = baselines[f] \/ baselines'[f] = NoFile
    BY <1>8
  <2>3. ASSUME NEW f \in BenchFiles
        PROVE  /\ IsMeasured(baselines'[f].results)
               /\ baselines'[f].by \in BenchRuns => benchPhase'[baselines'[f].by] \in {"saved", "exited", "killed"}
    <3>1. CASE baselines'[f] = NoFile
      BY <2>1, <3>1
    <3>2. CASE baselines'[f] = baselines[f]
      BY <1>5, <3>2 DEF BenchInv, FilesTell, Forward
    <3> QED
      BY <2>2, <3>1, <3>2
  <2> QED
    BY <2>3 DEF FilesTell, IsMeasured
<1>11. SoleTells'
  <2>1. \A f \in BenchFiles : baselines'[f] = baselines[f] \/ WritesTo(r, f)'
    BY <1>1, <1>3, <1>5, <1>6, <1>8 DEF WritesTo, Writing
  <2>2. ASSUME NEW f \in BenchFiles, SoleWriter(r, f)' PROVE HoldsReport(r, f)'
    <3>1. path # "" /\ FileOf[path] = f
      <4>1. path \in BenchPaths /\ FileOf[path] = f
        BY <1>6, <2>2 DEF SoleWriter, WritesTo
      <4> QED
        BY <4>1, BenchAssumption
    <3>2. baselines'[f] = NoFile /\ benchPhase'[r] = "writing"
      BY <1>2, <1>5, <3>1 DEF BenchInv, BenchTypes
    <3> QED
      BY <3>2 DEF HoldsReport
  <2> QED
    BY <1>5, <2>1, <2>2, SoleStays
<1>12. RunsTell'
  BY <1>5, <1>7, RowsTell
<1>13. ToldTells' /\ PointsTell'
  BY <1>1, <1>5, BenchToldStays, PointsStay
<1> QED
  BY <1>9, <1>10, <1>11, <1>12, <1>13 DEF BenchInv

LEMMA WriteBaselineKeeps ==
    ASSUME BenchInv, NEW r \in BenchRuns, WriteBaseline(r) PROVE BenchInv'
<1> DEFINE file == FileOf[SaveTarget(askedFor[r].flags)]
           mine == [by |-> r, results |-> measured[r]]
<1>1. /\ benchPhase[r] = "writing" /\ benchPhase' = [benchPhase EXCEPT ![r] = "saved"]
      /\ UNCHANGED scenario /\ UNCHANGED askedFor /\ UNCHANGED measured /\ UNCHANGED loaded
      /\ UNCHANGED benchCode
      /\ UNCHANGED told /\ UNCHANGED readOut /\ UNCHANGED benchPoints /\ UNCHANGED squiggles
  BY DEF WriteBaseline, editorBenchVars
<1>2. PICK text \in {mine, NoFile} : /\ baselines' = [baselines EXCEPT ![file] = text]
                                     /\ text = mine \/ baselines[file] # NoFile
  BY DEF WriteBaseline
<1>3. /\ Forward /\ \A q \in BenchRuns \ {r} : SameRow(q)
      /\ benchPhase'[r] = "saved" /\ DOMAIN benchPhase' = BenchRuns
      /\ Refusals(askedFor[r].flags)' = {}
  BY <1>1, OnlyRow DEF Measuring, Writing
<1>4. SaveTarget(askedFor[r].flags)' = SaveTarget(askedFor[r].flags)
  BY <1>1, SameFlags
<1>5. RunTells(r)' /\ GateOn(r)'
  BY <1>1, <1>3, RowCarriesOn DEF Measuring
<1>6. \A f \in BenchFiles : baselines'[f] = baselines[f] \/ (f = file /\ baselines'[f] = text)
  BY <1>2 DEF BenchInv, BenchTypes
<1>7. BenchTypes'
  BY <1>1, <1>2, <1>3 DEF BenchInv, BenchTypes
<1>8. FilesTell'
  <2>1. IsMeasured(NoFile.results) /\ NoFile.by \notin BenchRuns
    BY NoFileIsOfNoRun
  <2>2. IsMeasured(mine.results) /\ mine.by = r
    BY DEF BenchInv, RunsTell, RunTells
  <2>3. \A f \in BenchFiles : baselines'[f] \in {baselines[f], mine, NoFile}
    BY <1>6
  <2> HIDE DEF mine, file
  <2>4. ASSUME NEW f \in BenchFiles
        PROVE  /\ IsMeasured(baselines'[f].results)
               /\ baselines'[f].by \in BenchRuns => benchPhase'[baselines'[f].by] \in {"saved", "exited", "killed"}
    <3>1. CASE baselines'[f] = NoFile
      BY <2>1, <3>1
    <3>2. CASE baselines'[f] = baselines[f]
      BY <1>3, <3>2 DEF BenchInv, FilesTell, Forward
    <3>3. CASE baselines'[f] = mine
      BY <1>3, <2>2, <3>3
    <3> QED
      BY <2>3, <3>1, <3>2, <3>3
  <2> QED
    BY <2>4 DEF FilesTell, IsMeasured
<1>9. SoleTells'
  <2>1. ASSUME NEW f \in BenchFiles, SoleWriter(r, f)' PROVE HoldsReport(r, f)'
    <3>1. SoleWriter(r, f) /\ HoldsReport(r, f)
      BY <1>1, <1>3, <2>1, SoleBefore DEF Writing, BenchInv, SoleTells
    <3>2. f = file /\ baselines[f] = NoFile
      BY <1>1, <3>1 DEF SoleWriter, WritesTo, HoldsReport
    <3>3. baselines'[f] = mine
      BY <1>2, <3>2 DEF BenchInv, BenchTypes
    <3> QED
      BY <1>1, <1>3, <3>3 DEF HoldsReport
  <2>2. SaveTarget(askedFor[r].flags) \in BenchPaths
    BY <1>1, PathsAreNamed DEF BenchInv, RunsTell, RunTells
  <2>3. \A f \in BenchFiles : baselines'[f] = baselines[f] \/ WritesTo(r, f)'
    BY <1>1, <1>3, <1>4, <1>6, <2>2 DEF WritesTo, Writing
  <2> QED
    BY <1>3, <2>1, <2>3, SoleStays
<1>10. RunsTell'
  BY <1>3, <1>5, RowsTell
<1>11. ToldTells' /\ PointsTell'
  BY <1>1, <1>3, BenchToldStays, PointsStay
<1> QED
  BY <1>7, <1>8, <1>9, <1>10, <1>11 DEF BenchInv

\* A gate that is on and passed compared what it gates, and the worst of it was
\* within the gate.
LEMMA GatePasses ==
    ASSUME BenchInv, NEW r \in BenchRuns, benchPhase[r] = "saved", Refusals(askedFor[r].flags) = {},
           GatePct(askedFor[r].flags) > 0, ExitWith(r, benchCode[r]) = 0
    PROVE  /\ benchCode[r] = 0 /\ DeltasOf(r) = Compare(loaded[r], measured[r])
           /\ DOMAIN DeltasOf(r) # {} /\ ~(WorstPct(DeltasOf(r)) > GatePct(askedFor[r].flags))
<1>1. AgainstPath(askedFor[r].flags) # ""
  <2>1. "against" \notin Refusals(askedFor[r].flags)
    OBVIOUS
  <2> QED
    BY <2>1 DEF Refusals
<1>2. IsGated(r) /\ DeltasOf(r) = Compare(loaded[r], measured[r])
  BY <1>1 DEF IsGated, Compared, DeltasOf
<1>3. benchCode[r] = 0 /\ ~ComparedNothing(r) /\ ~(WorstPct(DeltasOf(r)) > GatePct(askedFor[r].flags))
  BY <1>2 DEF ExitWith
<1> QED
  BY <1>2, <1>3 DEF ComparedNothing

LEMMA DeltasAreNumbers ==
    ASSUME NEW o, NEW n, IsMeasured(o.results), IsMeasured(n), DOMAIN n \subseteq Benches
    PROVE  /\ DOMAIN Compare(o, n) = Common(o, n) /\ IsFiniteSet(Common(o, n))
           /\ \A k \in Common(o, n) :
                 /\ Compare(o, n)[k].pct = Change(o, n, k) /\ Change(o, n, k) \in Int
                 /\ Compare(o, n)[k].significant = Significant(o, n, k)
                 /\ Compare(o, n)[k] \in [pct : Int, significant : BOOLEAN]
                 /\ Significant(o, n, k) => n[k].ns # o.results[k].ns
<1>1. IsFiniteSet(Common(o, n))
  <2>1. Common(o, n) \subseteq Benches
    BY DEF Common
  <2> QED
    BY <2>1, BenchAssumption, FS_Subset
<1>2. ASSUME NEW k \in Common(o, n)
      PROVE  /\ Change(o, n, k) \in Int /\ Significant(o, n, k) \in BOOLEAN
             /\ Significant(o, n, k) => n[k].ns # o.results[k].ns
  <2>1. n[k].ns \in Nat \ {0} /\ o.results[k].ns \in Nat \ {0}
    BY DEF Common, IsMeasured
  <2>2. Change(o, n, k) \in Int
    BY <2>1 DEF Change
  <2>3. Significant(o, n, k) \in BOOLEAN
    <3> DEFINE few == o.results[k].n < MinSamples \/ n[k].n < MinSamples
               far == Magnitude(Change(o, n, k)) >= Fallback
    <3>1. Welch(o.results[k], n[k]) \in BOOLEAN
      BY Zenon DEF Welch
    <3>2. far \in BOOLEAN
      BY SMT
    <3> HIDE DEF few, far
    <3>3. CASE few
      BY <3>2, <3>3 DEF Significant, few, far
    <3>4. CASE ~few
      BY <3>1, <3>4 DEF Significant, few, far
    <3> QED
      BY <3>3, <3>4
  <2>4. n[k].ns = o.results[k].ns => Change(o, n, k) = 0
    BY <2>1, NoChange DEF Change
  <2>5. n[k].ns = o.results[k].ns => ~Significant(o, n, k)
    BY <2>4 DEF Significant, Welch, Magnitude, Fallback
  <2> QED
    BY <2>2, <2>3, <2>5
<1>3. DOMAIN Compare(o, n) = Common(o, n)
      /\ \A k \in Common(o, n) : Compare(o, n)[k] = [pct |-> Change(o, n, k), significant |-> Significant(o, n, k)]
  BY DEF Compare
<1> QED
  BY <1>1, <1>2, <1>3

LEMMA WorstIsWorst ==
    ASSUME NEW o, NEW n, IsMeasured(o.results), IsMeasured(n), DOMAIN n \subseteq Benches,
           NEW g \in Nat, ~(WorstPct(Compare(o, n)) > g), NEW k \in Common(o, n), Significant(o, n, k)
    PROVE  Change(o, n, k) <= g
<1> DEFINE d == Compare(o, n)
           worst == CHOOSE x \in Regressions(d) : \A l \in Regressions(d) : d[l].pct <= d[x].pct
<1>1. /\ DOMAIN d = Common(o, n) /\ IsFiniteSet(Common(o, n))
      /\ \A x \in Common(o, n) : d[x].pct \in Int
      /\ d[k].pct = Change(o, n, k) /\ d[k].significant /\ Change(o, n, k) \in Int
  BY DeltasAreNumbers
<1> HIDE DEF d
<1>2. CASE ~(d[k].pct > 0)
  BY <1>1, <1>2
<1>3. CASE d[k].pct > 0
  <2>1. k \in Regressions(d)
    BY <1>1, <1>3 DEF Regressions
  <2>2. Regressions(d) \subseteq Common(o, n) /\ IsFiniteSet(Regressions(d))
    BY <1>1, FS_Subset DEF Regressions
  <2> DEFINE v == [x \in Common(o, n) |-> d[x].pct]
  <2>3. \A x \in Regressions(d) : v[x] \in Int /\ v[x] = d[x].pct
    BY <1>1, <2>2
  <2> HIDE DEF v
  <2>4. \E x \in Regressions(d) : \A l \in Regressions(d) : v[l] <= v[x]
    BY <2>1, <2>2, <2>3, SomeIsMost
  <2>5. \E x \in Regressions(d) : \A l \in Regressions(d) : d[l].pct <= d[x].pct
    BY <2>3, <2>4
  <2>6. worst \in Regressions(d) /\ \A l \in Regressions(d) : d[l].pct <= d[worst].pct
    BY <2>5
  <2>7. WorstPct(d) = d[worst].pct
    BY <2>1 DEF WorstPct
  <2>8. ~(d[worst].pct > g) /\ d[worst].pct \in Int
    BY <1>1, <2>2, <2>6, <2>7 DEF d
  <2>9. d[k].pct <= d[worst].pct
    BY <2>1, <2>6
  <2> HIDE DEF worst
  <2> QED
    BY <1>1, <2>8, <2>9
<1> QED
  BY <1>2, <1>3

LEMMA JudgeKeeps ==
    ASSUME BenchInv, NEW r \in BenchRuns, Judge(r) PROVE BenchInv'
<1>1. /\ benchPhase[r] = "saved" /\ benchPhase' = [benchPhase EXCEPT ![r] = "exited"]
      /\ UNCHANGED scenario /\ UNCHANGED baselines /\ UNCHANGED askedFor /\ UNCHANGED measured
      /\ UNCHANGED loaded
      /\ UNCHANGED told /\ UNCHANGED readOut /\ UNCHANGED benchPoints /\ UNCHANGED squiggles
  BY DEF Judge, editorBenchVars
<1>2. /\ benchCode'[r] = ExitWith(r, benchCode[r]) /\ DOMAIN benchCode' = BenchRuns
      /\ \A q \in BenchRuns \ {r} : benchCode'[q] = benchCode[q]
  BY DEF Judge, BenchInv, BenchTypes
<1>3. /\ Forward /\ \A q \in BenchRuns \ {r} : SameRow(q)
      /\ benchPhase'[r] = "exited" /\ DOMAIN benchPhase' = BenchRuns
      /\ Refusals(askedFor[r].flags) = {} /\ Refusals(askedFor[r].flags)' = {}
      /\ GatePct(askedFor[r].flags)' = GatePct(askedFor[r].flags)
  BY <1>1, <1>2, OnlyRow DEF Measuring, Writing
<1>4. RunTells(r)
  BY DEF BenchInv, RunsTell
<1>5. RunTells(r)'
  <2>1. AreFlags(askedFor[r].flags)' /\ IsMeasured(measured'[r]) /\ IsMeasured(loaded'[r].results)
    BY <1>1, <1>4 DEF RunTells, AreFlags
  <2> QED
    BY <1>1, <1>3, <1>4, <2>1 DEF RunTells, Measuring
<1>6. GateOn(r)'
  <2> SUFFICES ASSUME benchCode'[r] = 0, GatePct(askedFor[r].flags) > 0
               PROVE  /\ DOMAIN measured[r] = Benches /\ DOMAIN loaded[r].results \cap Benches # {}
                      /\ \A k \in DOMAIN loaded[r].results :
                            k \in Benches =>
                               \/ measured[r][k].ns * 100
                                    < loaded[r].results[k].ns * (100 + GatePct(askedFor[r].flags) + 1)
                               \/ ~Significant(loaded[r], measured[r], k)
    BY <1>1, <1>3 DEF GateOn, Significant, Change, Magnitude, Welch
  <2>1. /\ benchCode[r] = 0 /\ DeltasOf(r) = Compare(loaded[r], measured[r])
        /\ DOMAIN DeltasOf(r) # {} /\ ~(WorstPct(DeltasOf(r)) > GatePct(askedFor[r].flags))
    BY <1>1, <1>2, <1>3, GatePasses
  <2>2. /\ IsMeasured(measured[r]) /\ IsMeasured(loaded[r].results) /\ DOMAIN measured[r] = Benches
    BY <1>1, <1>4, <2>1 DEF RunTells, Measuring
  <2>3. DOMAIN DeltasOf(r) = Common(loaded[r], measured[r])
    BY <2>1, <2>2, DeltasAreNumbers
  <2>4. DOMAIN loaded[r].results \cap Benches # {}
    BY <2>1, <2>2, <2>3 DEF Common
  <2>5. GatePct(askedFor[r].flags) \in Nat
    <3>1. GatePct(askedFor[r].flags) \in Int
      BY PathsAreNamed
    <3> QED
      BY <3>1
  <2>6. ASSUME NEW k \in DOMAIN loaded[r].results, k \in Benches, Significant(loaded[r], measured[r], k)
        PROVE  measured[r][k].ns * 100 < loaded[r].results[k].ns * (100 + GatePct(askedFor[r].flags) + 1)
    <3>1. k \in Common(loaded[r], measured[r])
      BY <2>2, <2>6 DEF Common
    <3>2. Change(loaded[r], measured[r], k) <= GatePct(askedFor[r].flags)
      BY <2>1, <2>2, <2>5, <2>6, <3>1, WorstIsWorst
    <3>3. measured[r][k].ns \in Nat \ {0} /\ loaded[r].results[k].ns \in Nat \ {0}
      BY <2>2, <2>6 DEF IsMeasured
    <3> QED
      BY <2>5, <3>2, <3>3, ChangeBounds DEF Change
  <2> QED
    BY <2>2, <2>4, <2>6
<1>7. BenchTypes'
  BY <1>1, <1>2, <1>3 DEF BenchInv, BenchTypes
<1> QED
  BY <1>1, <1>3, <1>5, <1>6, <1>7, QuietStep

\* The history keeps its latest entries, in their order, and the last one is new.
Latest(b, s, e) ==
    \E d \in Nat :
       \A i \in DOMAIN b : \/ i + d \in DOMAIN s /\ b[i] = s[i + d]
                           \/ i + d = Len(s) + 1 /\ b[i] = e
LEMMA SumsDiffer ==
    ASSUME NEW i \in Int, NEW j \in Int, i # j, NEW d \in Int
    PROVE  i + d # j + d
  OBVIOUS
LEMMA BoundedKeeps ==
    ASSUME NEW T, NEW s \in Seq(T), NEW e \in T
    PROVE  /\ Bounded(Append(s, e)) \in Seq(T)
           /\ Len(Bounded(Append(s, e))) \in 1 .. MaxHistory
           /\ Latest(Bounded(Append(s, e)), s, e)
<1> DEFINE a == Append(s, e)
           n == Len(s) + 1
           lo == IF n > MaxHistory THEN n - MaxHistory + 1 ELSE 1
           b == SubSeq(a, lo, n)
<1>1. /\ Len(s) \in Nat /\ DOMAIN s = 1 .. Len(s) /\ n \in Nat \ {0} /\ MaxHistory \in Nat \ {0}
      /\ Len(a) = n /\ a \in Seq(T) /\ \A i \in 1 .. Len(s) : a[i] = s[i]
      /\ a[n] = e
  <2>1. Len(s) \in Nat /\ DOMAIN s = 1 .. Len(s)
    BY LenProperties
  <2>2. MaxHistory \in Nat \ {0}
    BY BenchAssumption
  <2>3. a \in Seq(T) /\ Len(a) = n /\ (\A i \in 1 .. Len(s) : a[i] = s[i]) /\ a[n] = e
    BY AppendProperties
  <2> HIDE DEF a
  <2> QED
    BY <2>1, <2>2, <2>3
<1>2. lo \in 1 .. n /\ n - lo + 1 \in 1 .. MaxHistory
  BY <1>1
<1>3. \A i \in 1 .. n : a[i] \in T
  BY <1>1
<1> HIDE DEF a, n, lo
<1>4. /\ b \in Seq(T) /\ Len(b) = n - lo + 1 /\ \A i \in 1 .. n - lo + 1 : b[i] = a[lo + i - 1]
  <2>1. lo \in Int /\ n \in Int /\ lo <= n /\ \A i \in lo .. n : a[i] \in T
    BY <1>1, <1>2, <1>3
  <2> QED
    BY <2>1, SubSeqProperties
<1>5. Bounded(Append(s, e)) = b
  BY <1>1 DEF Bounded, a, lo, n
<1>6. lo - 1 \in Nat /\ DOMAIN b = 1 .. n - lo + 1
  BY <1>1, <1>2, <1>4
<1> HIDE DEF b
<1>7. ASSUME NEW i \in DOMAIN b
      PROVE  \/ i + (lo - 1) \in DOMAIN s /\ b[i] = s[i + (lo - 1)]
             \/ i + (lo - 1) = Len(s) + 1 /\ b[i] = e
  <2>1. i + (lo - 1) \in 1 .. n /\ b[i] = a[i + (lo - 1)] /\ i + (lo - 1) \in Int
    <3>1. lo \in Int /\ n \in Int
      BY <1>1, <1>2
    <3>2. i \in 1 .. n - lo + 1
      BY <1>6
    <3>3. b[i] = a[lo + i - 1]
      BY <1>4, <3>2
    <3>4. lo + i - 1 = i + (lo - 1) /\ i + (lo - 1) \in 1 .. n /\ i + (lo - 1) \in Int
      BY <1>2, <3>1, <3>2
    <3> QED
      BY <3>3, <3>4
  <2>2. CASE i + (lo - 1) = n
    BY <1>1, <2>1, <2>2 DEF n
  <2>3. CASE i + (lo - 1) # n
    <3>1. i + (lo - 1) \in 1 .. Len(s)
      BY <1>1, <2>1, <2>3 DEF n
    <3> QED
      BY <1>1, <2>1, <3>1
  <2> QED
    BY <2>2, <2>3
<1>8. Latest(b, s, e)
  <2> DEFINE d == lo - 1
  <2>1. d \in Nat
    BY <1>6
  <2>2. \A i \in DOMAIN b : (i + d \in DOMAIN s /\ b[i] = s[i + d]) \/ (i + d = Len(s) + 1 /\ b[i] = e)
    BY <1>7
  <2> HIDE DEF d
  <2> QED
    BY <2>1, <2>2 DEF Latest
<1>9. Len(b) \in 1 .. MaxHistory
  BY <1>2, <1>4
<1> QED
  BY <1>4, <1>5, <1>8, <1>9

PointType == [run : BenchRuns, ns : Nat, delta : [pct : Int, significant : BOOLEAN]]
PointOf(r, k) == [run |-> r, ns |-> measured[r][k].ns, delta |-> VerdictOn(r, k)]

LEMMA PointIsTrue ==
    ASSUME BenchInv, NEW r \in BenchRuns, NEW k \in DOMAIN measured[r]
    PROVE  /\ PointOf(r, k) \in PointType
           /\ PointOf(r, k).delta.significant => loaded[r].results[k].ns # measured[r][k].ns
<1>1. RunTells(r) /\ IsMeasured(measured[r]) /\ IsMeasured(loaded[r].results) /\ DOMAIN measured[r] \subseteq Benches
  BY DEF BenchInv, RunsTell, RunTells
<1>2. measured[r][k].ns \in Nat
  BY <1>1 DEF IsMeasured
<1>3. CASE k \in DOMAIN DeltasOf(r)
  <2>1. DeltasOf(r) = Compare(loaded[r], measured[r])
    BY <1>3 DEF DeltasOf
  <2>2. /\ Compare(loaded[r], measured[r])[k] \in [pct : Int, significant : BOOLEAN]
        /\ Compare(loaded[r], measured[r])[k].significant => measured[r][k].ns # loaded[r].results[k].ns
    BY <1>1, <1>3, <2>1, DeltasAreNumbers
  <2>3. VerdictOn(r, k) = Compare(loaded[r], measured[r])[k]
    BY <1>3, <2>1 DEF VerdictOn
  <2> QED
    BY <1>2, <2>2, <2>3 DEF PointOf, PointType
<1>4. CASE k \notin DOMAIN DeltasOf(r)
  <2>1. VerdictOn(r, k) = [pct |-> 0, significant |-> FALSE]
    BY <1>4 DEF VerdictOn
  <2> QED
    BY <1>2, <2>1 DEF PointOf, PointType
<1> QED
  BY <1>3, <1>4

ShownNow(k, p) ==
    /\ p.run \in readOut' /\ k \in DOMAIN measured'[p.run] /\ p.ns = measured'[p.run][k].ns
    /\ p.delta.significant => loaded'[p.run].results[k].ns # p.ns

\* What a read report leaves of the history.
LEMMA ReportIsShown ==
    ASSUME BenchInv, Forward, NEW r \in BenchRuns, Ended(r), r \notin readOut, readOut' = readOut \cup {r},
           RecordReport(r)
    PROVE  PointsTell' /\ benchPoints' \in [Benches -> Seq(PointType)]
<1>1. /\ PointsTell /\ benchPoints \in [Benches -> Seq(PointType)]
      /\ benchPoints' = [k \in Benches |->
            IF k \notin DOMAIN measured[r] THEN benchPoints[k]
            ELSE Bounded(Append(benchPoints[k], PointOf(r, k)))]
      /\ squiggles' = GateOf(r)
  BY DEF BenchInv, BenchTypes, PointType, RecordReport, PointOf
<1>2. measured'[r] = measured[r] /\ loaded'[r] = loaded[r]
  BY EndedStays
<1>3. \A x \in readOut' : Ended(x)'
  BY <1>1, EndedStays DEF PointsTell
<1>4. DOMAIN measured[r] \subseteq Benches
  BY DEF BenchInv, RunsTell, RunTells
<1>5. GateOf(r) \subseteq DOMAIN measured[r]
  BY DEF GateOf, BreachedKeys, Regressions, DeltasOf, Compare, Common
<1>6. ASSUME NEW k \in Benches
      PROVE  /\ benchPoints'[k] \in Seq(PointType) /\ Len(benchPoints'[k]) <= MaxHistory
             /\ k \in squiggles' => benchPoints'[k] # <<>>
             /\ \A i \in DOMAIN benchPoints'[k] :
                   /\ ShownNow(k, benchPoints'[k][i])
                   /\ \A j \in DOMAIN benchPoints'[k] : j # i => benchPoints'[k][j].run # benchPoints'[k][i].run
  <2> DEFINE s == benchPoints[k]
             b == benchPoints'[k]
             e == PointOf(r, k)
  <2>1. /\ s \in Seq(PointType) /\ Len(s) <= MaxHistory /\ DOMAIN s \subseteq Int
        /\ \A i \in DOMAIN s :
              /\ PointIs(k, s[i]) /\ s[i].run \in readOut
              /\ \A j \in DOMAIN s : j # i => s[j].run # s[i].run
    BY <1>1 DEF PointsTell, PointIs
  <2>2. \A i \in DOMAIN s : ShownNow(k, s[i])
    <3> SUFFICES ASSUME NEW i \in DOMAIN s PROVE ShownNow(k, s[i])
      OBVIOUS
    <3>1. Ended(s[i].run)
      BY <1>1, <2>1 DEF PointsTell
    <3>2. measured'[s[i].run] = measured[s[i].run] /\ loaded'[s[i].run] = loaded[s[i].run]
      BY <3>1, EndedStays
    <3> QED
      BY <2>1, <3>2 DEF PointIs, ShownNow
  <2>3. CASE k \notin DOMAIN measured[r]
    <3>1. b = s /\ k \notin squiggles'
      BY <1>1, <1>5, <2>3
    <3> HIDE DEF b, s
    <3> QED
      BY <2>1, <2>2, <3>1 DEF b
  <2>4. CASE k \in DOMAIN measured[r]
    <3>1. e \in PointType /\ e.run = r
          /\ (e.delta.significant => loaded[r].results[k].ns # measured[r][k].ns)
          /\ e.ns = measured[r][k].ns
      BY <2>4, PointIsTrue DEF PointOf
    <3>2. ShownNow(k, e)
      BY <1>1, <1>2, <2>4, <3>1 DEF ShownNow
    <3>3. b = Bounded(Append(s, e))
      BY <1>1, <2>4
    <3> HIDE DEF b, s, e
    <3>4. b \in Seq(PointType) /\ Len(b) \in 1 .. MaxHistory
      BY <2>1, <3>1, <3>3, BoundedKeeps
    <3>l. Latest(b, s, e)
      BY <2>1, <3>1, <3>3, BoundedKeeps
    <3>5. PICK d \in Nat : \A i \in DOMAIN b : \/ i + d \in DOMAIN s /\ b[i] = s[i + d]
                                               \/ i + d = Len(s) + 1 /\ b[i] = e
      BY <3>l DEF Latest
    <3>6. \A i \in DOMAIN b : ShownNow(k, b[i])
      BY <2>2, <3>2, <3>5
    <3>7. ASSUME NEW i \in DOMAIN b, NEW j \in DOMAIN b, j # i PROVE b[j].run # b[i].run
      <4>1. i \in Int /\ j \in Int /\ d \in Int
        <5>1. DOMAIN b = 1 .. Len(b) /\ Len(b) \in Int
          BY <3>4
        <5> QED
          BY <5>1
      <4>2. i + d # j + d
        <5>1. i # j
          BY <3>7
        <5> QED
          BY <4>1, <5>1, SumsDiffer
      <4>3. \A x \in DOMAIN s : s[x].run # r
        BY <2>1
      <4> QED
        BY <2>1, <3>1, <3>5, <4>2, <4>3
    <3>8. b # <<>> /\ Len(b) <= MaxHistory
      BY <3>4
    <3> QED
      BY <3>4, <3>6, <3>7, <3>8 DEF b
  <2> QED
    BY <2>3, <2>4
<1>7. PointsTell'
  BY <1>3, <1>6 DEF PointsTell, PointIs, ShownNow
<1>8. benchPoints' \in [Benches -> Seq(PointType)]
  BY <1>1, <1>6
<1> QED
  BY <1>7, <1>8

\* A report that cannot be read leaves it as it was.
LEMMA NothingIsShown ==
    ASSUME BenchInv, Forward, NEW r \in BenchRuns, Ended(r), readOut' = readOut \cup {r},
           benchPoints' = benchPoints, squiggles' = squiggles
    PROVE  PointsTell' /\ benchPoints' \in [Benches -> Seq(PointType)]
<1>1. \A x \in readOut' : Ended(x)'
  BY EndedStays DEF BenchInv, PointsTell
<1>2. ASSUME NEW k \in Benches, NEW i \in DOMAIN benchPoints[k]
      PROVE  PointIs(k, benchPoints[k][i])'
  <2>1. PointIs(k, benchPoints[k][i]) /\ Ended(benchPoints[k][i].run)
    BY <1>2 DEF BenchInv, PointsTell, PointIs
  <2>2. measured'[benchPoints[k][i].run] = measured[benchPoints[k][i].run]
        /\ loaded'[benchPoints[k][i].run] = loaded[benchPoints[k][i].run]
    BY <2>1, EndedStays
  <2> QED
    BY <2>1, <2>2 DEF PointIs
<1>3. PointsTell'
  BY <1>1, <1>2 DEF BenchInv, PointsTell
<1>4. benchPoints' \in [Benches -> Seq(PointType)]
  BY DEF BenchInv, BenchTypes, PointType
<1> QED
  BY <1>3, <1>4

LEMMA ReadReportKeeps ==
    ASSUME BenchInv, NEW r \in BenchRuns, ReadReport(r) PROVE BenchInv'
<1>1. /\ Ended(r) /\ r \notin readOut /\ readOut' = readOut \cup {r}
      /\ UNCHANGED scenario /\ UNCHANGED baselines /\ UNCHANGED measured /\ UNCHANGED loaded
  BY DEF ReadReport, Ended
<1>2. RecordReport(r) \/ (benchPoints' = benchPoints /\ squiggles' = squiggles)
  BY DEF ReadReport
<1>3. ASSUME Forward, RunsTell', SoleTells', ToldTells', DOMAIN benchPhase' = BenchRuns,
             DOMAIN askedFor' = BenchRuns, DOMAIN benchCode' = BenchRuns
      PROVE  BenchInv'
  <2>1. PointsTell' /\ benchPoints' \in [Benches -> Seq(PointType)]
    BY <1>1, <1>2, <1>3, ReportIsShown, NothingIsShown
  <2>2. BenchTypes'
    BY <1>1, <1>3, <2>1 DEF BenchInv, BenchTypes, PointType
  <2>3. FilesTell'
    BY <1>1, <1>3, FilesStay
  <2> QED
    BY <1>3, <2>1, <2>2, <2>3 DEF BenchInv
<1>4. CASE \E q \in BenchRuns, path \in BenchPaths :
              Starts(q) /\ StartBench(q, askedFor[r].how, TRUE, Picked(r, path)) /\ UNCHANGED told
  <2>1. PICK q \in BenchRuns, path \in BenchPaths :
           Starts(q) /\ StartBench(q, askedFor[r].how, TRUE, Picked(r, path)) /\ UNCHANGED told
    BY <1>4
  <2>2. AreFlags(Picked(r, path)) /\ (askedFor[r].how = "save" => Picked(r, path).save # "")
    <3> DEFINE flags == Picked(r, path)
    <3>1. flags.save = IF askedFor[r].how = "save" THEN path ELSE ""
      BY DEF Picked, Unasked
    <3>2. flags.against = IF askedFor[r].how = "save" THEN "" ELSE path
      BY DEF Picked, Unasked
    <3>3. flags.gate = -1
      BY DEF Picked, Unasked, NotGiven
    <3>4. path # ""
      BY BenchAssumption
    <3> HIDE DEF flags
    <3>5. AreFlags(flags)
      BY <3>1, <3>2, <3>3, PlainFlags
    <3> QED
      BY <3>1, <3>4, <3>5 DEF flags
  <2>3. benchPhase[q] = "none"
    BY <2>1 DEF Starts
  <2>4. /\ Forward /\ \A x \in BenchRuns \ {q} : SameRow(x)
        /\ RunTells(q)' /\ GateOn(q)' /\ benchPhase'[q] \notin {"writing", "saved"}
        /\ DOMAIN benchPhase' = BenchRuns /\ DOMAIN askedFor' = BenchRuns /\ DOMAIN benchCode' = BenchRuns
    BY <1>1, <2>1, <2>2, <2>3, BenchStartKeeps
  <2>5. RunsTell' /\ ToldTells'
    BY <2>1, <2>4, RowsTell, BenchToldStays
  <2>6. SoleTells'
    <3>1. \A f \in BenchFiles : SoleWriter(q, f)' => HoldsReport(q, f)'
      BY <2>4 DEF HoldsReport
    <3> QED
      BY <1>1, <2>4, <3>1, SoleStays
  <2> QED
    BY <1>3, <2>4, <2>5, <2>6
<1>5. CASE /\ told' = IF AsksForPath(r) THEN told ELSE [what |-> Message(r), run |-> r]
           /\ UNCHANGED <<askedFor, benchPhase, benchCode, benchStopped>>
  <2>1. Forward /\ \A x \in BenchRuns : SameRow(x)
    BY <1>1, <1>5 DEF Forward, SameRow, Writing
  <2>2. RunTells(r)' /\ GateOn(r)'
    BY <1>1, <2>1, RowStays DEF BenchInv, RunsTell
  <2>3. RunsTell'
    BY <2>1, <2>2, RowsTell
  <2>4. SoleTells'
    <3>1. ASSUME NEW f \in BenchFiles, SoleWriter(r, f)' PROVE HoldsReport(r, f)'
      BY <1>1, <1>5 DEF HoldsReport, Ended
    <3> QED
      BY <1>1, <2>1, <3>1, SoleStays
  <2>5. ToldTells'
    <3>1. CASE told' = told
      BY <2>1, <3>1, BenchToldStays
    <3>2. CASE told' = [what |-> Message(r), run |-> r]
      <4> SUFFICES ASSUME Message(r) = "saved"
                   PROVE  benchPhase[r] = "exited" /\ SaveTarget(askedFor[r].flags)' # ""
        <5>1. told'.what = Message(r) /\ told'.run = r
          BY ONLY <3>2
        <5>2. benchPhase' = benchPhase
          BY <1>5
        <5> QED
          BY <5>1, <5>2 DEF ToldTells
      <4>1. Printed(r) /\ askedFor[r].how = "save"
        BY DEF Message
      <4>2. benchPhase[r] = "exited" /\ benchCode[r] # 2
        BY <4>1 DEF Printed
      <4>3. Refusals(askedFor[r].flags) = {} /\ askedFor[r].flags.save # ""
        BY <4>1, <4>2 DEF BenchInv, RunsTell, RunTells
      <4>4. ~(askedFor[r].flags.save = "=" /\ scenario.baseline = "")
        <5>1. "path" \notin Refusals(askedFor[r].flags)
          BY <4>3
        <5> QED
          BY <5>1 DEF Refusals
      <4>5. SaveTarget(askedFor[r].flags)' = SaveTarget(askedFor[r].flags)
        BY <1>1, <1>5, SameFlags
      <4> QED
        BY <4>2, <4>3, <4>4, <4>5 DEF SaveTarget
    <3> QED
      BY <1>5, <3>1, <3>2
  <2> QED
    BY <1>3, <1>5, <2>1, <2>3, <2>4, <2>5 DEF BenchInv, BenchTypes
<1> QED
  BY <1>4, <1>5 DEF ReadReport

LEMMA BenchStepKeeps == ASSUME BenchInv, BenchNext PROVE BenchInv'
<1>1. PICK r \in BenchRuns :
        \/ AskInTerminal(r) \/ NothingToRun(r) \/ RunBenchmarks(r) \/ LoadBaseline(r)
        \/ TruncateBaseline(r) \/ WriteBaseline(r) \/ Judge(r) \/ KillBench(r) \/ ReadReport(r)
        \/ \E how \in {"target", "save", "compare"} : AskInEditor(r, how)
  BY DEF BenchNext
<1> QED
  BY <1>1, AskInTerminalKeeps, NothingToRunKeeps, RunBenchmarksKeeps, LoadBaselineKeeps,
     TruncateBaselineKeeps, WriteBaselineKeeps, JudgeKeeps, KillBenchKeeps, ReadReportKeeps,
     AskInEditorKeeps

LEMMA BenchStutters == ASSUME BenchInv, UNCHANGED benchVars PROVE BenchInv'
<1>1. Forward /\ \A x \in BenchRuns : SameRow(x)
  BY DEF Forward, SameRow, Writing, benchVars, editorBenchVars
<1>2. /\ UNCHANGED scenario /\ UNCHANGED baselines /\ UNCHANGED told /\ UNCHANGED readOut
      /\ UNCHANGED benchPoints /\ UNCHANGED squiggles /\ UNCHANGED benchPhase
      /\ UNCHANGED measured
  BY DEF benchVars, editorBenchVars
<1>3. BenchTypes' /\ FilesTell' /\ ToldTells' /\ PointsTell'
  <2>1. BenchTypes'
    BY DEF BenchInv, BenchTypes, benchVars, editorBenchVars
  <2> QED
    BY <1>1, <1>2, <2>1, FilesStay, BenchToldStays, PointsStay
<1>4. RunsTell'
  BY <1>1, RowStays DEF BenchInv, RunsTell, Forward
<1>5. SoleTells'
  <2> SUFFICES ASSUME NEW r \in BenchRuns, NEW f \in BenchFiles, SoleWriter(r, f)' PROVE HoldsReport(r, f)'
    BY DEF SoleTells
  <2>1. CASE benchPhase[r] \in Writing
    <3>1. SoleWriter(r, f)
      BY <1>1, <2>1, SoleBefore
    <3> QED
      BY <1>2, <3>1 DEF BenchInv, SoleTells, HoldsReport
  <2>2. CASE benchPhase[r] \notin Writing
    BY <1>2, <2>2 DEF HoldsReport, Writing
  <2> QED
    BY <2>1, <2>2
<1> QED
  BY <1>3, <1>4, <1>5 DEF BenchInv

LEMMA BenchStarts == BenchInit => BenchInv
<1> SUFFICES ASSUME NEW s \in Scenarios, BenchIn(s) PROVE BenchInv
  BY DEF BenchInit
<1>1. /\ scenario = s /\ benchPhase = [r \in BenchRuns |-> "none"]
      /\ askedFor = [r \in BenchRuns |-> Unasked] /\ measured = [r \in BenchRuns |-> <<>>]
      /\ loaded = [r \in BenchRuns |-> Unread] /\ benchCode = [r \in BenchRuns |-> 0]
      /\ readOut = {} /\ squiggles = {} /\ told = [what |-> "", run |-> 0]
      /\ benchPoints = [k \in Benches |-> <<>>]
      /\ baselines = [f \in BenchFiles |-> IF f \in DOMAIN s.held THEN s.held[f] ELSE NoFile]
  BY DEF BenchIn, BenchFiles
<1>2. /\ IsMeasured(NoFile.results) /\ NoFile.by \notin BenchRuns
      /\ IsMeasured(Unread.results) /\ Unread.by \notin BenchRuns /\ IsMeasured(<<>>)
      /\ DOMAIN <<>> = {}
  <2>1. Unread.results = <<>> /\ Unread.by = -2
    BY DEF Unread
  <2>2. BenchRuns \subseteq Nat
    BY BenchAssumption
  <2>3. -2 \notin BenchRuns
    BY <2>2
  <2> QED
    BY <2>1, <2>3, NothingIsMeasured, NoFileIsOfNoRun
<1>3. BenchTypes
  <2>1. <<>> \in Seq(PointType)
    BY EmptySeq
  <2>2. benchPoints \in [Benches -> Seq(PointType)]
    <3> HIDE DEF PointType
    <3> QED
      BY <1>1, <2>1
  <2> QED
    BY <1>1, <2>2 DEF BenchTypes, PointType
<1>4. ASSUME NEW r \in BenchRuns PROVE RunTells(r) /\ GateOn(r)
  <2>1. benchPhase[r] = "none" /\ askedFor[r] = Unasked /\ measured[r] = <<>> /\ loaded[r] = Unread
    BY <1>1
  <2>2. AreFlags(Unasked.flags) /\ Unasked.how # "save"
    <3>1. Unasked.flags.save = "" /\ Unasked.flags.against = "" /\ Unasked.how = ""
      BY DEF Unasked
    <3>2. Unasked.flags.gate = -1
      BY DEF Unasked, NotGiven
    <3> QED
      BY <3>1, <3>2, PlainFlags
  <2>3. RunTells(r)
    BY <1>2, <2>1, <2>2 DEF RunTells, Measuring
  <2>4. GateOn(r)
    BY <2>1 DEF GateOn
  <2> QED
    BY <2>3, <2>4
<1>5. FilesTell
  <2> SUFFICES ASSUME NEW f \in BenchFiles
               PROVE  IsMeasured(baselines[f].results) /\ baselines[f].by \notin BenchRuns
    BY DEF FilesTell
  <2>1. CASE f \in DOMAIN s.held
    <3>1. baselines[f] = s.held[f]
      BY <1>1, <2>1
    <3>2. s.held[f].by \notin BenchRuns /\ IsMeasured(s.held[f].results)
      BY <2>1, BenchAssumption
    <3> QED
      BY <3>1, <3>2
  <2>2. CASE f \notin DOMAIN s.held
    BY <1>1, <1>2, <2>2
  <2> QED
    BY <2>1, <2>2
<1>6. SoleTells
  BY <1>1 DEF SoleTells, HoldsReport
<1>7. ToldTells
  BY <1>1 DEF ToldTells
<1>8. PointsTell
  <2>1. \A k \in Benches : benchPoints[k] = <<>> /\ Len(benchPoints[k]) = 0 /\ DOMAIN benchPoints[k] = {}
    <3>1. \A k \in Benches : benchPoints[k] = <<>>
      BY <1>1
    <3> QED
      BY <3>1, NothingIsMeasured
  <2>2. MaxHistory \in Nat
    BY BenchAssumption
  <2>3. readOut = {} /\ squiggles = {}
    BY <1>1
  <2> QED
    BY ONLY <2>1, <2>2, <2>3 DEF PointsTell
<1> QED
  BY <1>3, <1>4, <1>5, <1>6, <1>7, <1>8 DEF BenchInv, RunsTell

LEMMA OneWriterWrites ==
    ASSUME NEW f, NEW r, NEW q, r # q,
           Cardinality({x \in BenchRuns : WritesTo(x, f)}) = 1,
           r \in {x \in BenchRuns : WritesTo(x, f)}, q \in {x \in BenchRuns : WritesTo(x, f)}
    PROVE  FALSE
<1> DEFINE writers == {x \in BenchRuns : WritesTo(x, f)}
<1>1. IsFiniteSet(writers)
  BY BenchAssumption, FS_Subset
<1>2. \E x : writers = {x}
  BY <1>1, FS_Singleton
<1> QED
  BY <1>2

LEMMA BenchIsTold == BenchInv => BenchIsTrue
<1> SUFFICES ASSUME BenchInv PROVE BenchIsTrue
  OBVIOUS
<1>1. NeverItself
  BY DEF BenchInv, RunsTell, RunTells, NeverItself
<1>2. GateIsKept
  BY DEF BenchInv, RunsTell, GateOn, GateIsKept
<1>3. SavedIsTold
  <2>1. told.what = "saved" => benchPhase[told.run] = "exited" /\ SaveTarget(askedFor[told.run].flags) # ""
    BY DEF BenchInv, ToldTells
  <2>2. ASSUME NEW f \in BenchFiles, NEW r \in {x \in BenchRuns : WritesTo(x, f)},
               Cardinality({x \in BenchRuns : WritesTo(x, f)}) = 1, benchPhase[r] = "saved"
        PROVE  baselines[f] = [by |-> r, results |-> measured[r]]
    <3>1. \A q \in BenchRuns : WritesTo(q, f) => q = r
      BY <2>2, OneWriterWrites
    <3> QED
      BY <2>2, <3>1 DEF BenchInv, SoleTells, SoleWriter, HoldsReport
  <2>3. ASSUME NEW f \in BenchFiles
        PROVE  LET writers == {x \in BenchRuns : WritesTo(x, f)} IN
               (writers # {} /\ Cardinality(writers) = 1 /\ scenario.built) =>
                  \A r \in writers : benchPhase[r] = "saved" =>
                                        baselines[f] = [by |-> r, results |-> measured[r]]
    BY <2>2
  <2>4. DOMAIN baselines = BenchFiles
    BY DEF BenchInv, BenchTypes
  <2> QED
    BY <2>1, <2>3, <2>4, Zenon DEF SavedIsTold, WritesTo, Writing
<1>4. ShownIsMeasured
  BY DEF BenchInv, PointsTell, PointIs, ShownIsMeasured
<1> QED
  BY <1>1, <1>2, <1>3, <1>4 DEF BenchIsTrue

\* THEOREM: no run is judged by itself, a clean exit of a gated run means that its
\* benchmarks are within the gate of a baseline that knew some of them, "saved" is
\* said of a run that wrote a baseline, and what the editor shows is what was
\* measured, whatever runs share the baseline files and wherever they are killed
\* (cmd/gotest/bench.go, baseline.go, benchResultStore.ts).
THEOREM BenchesAreJudged == BenchSpec => []BenchIsTrue
<1>1. BenchInv /\ [BenchNext]_benchVars => BenchInv'
  BY BenchStepKeeps, BenchStutters
<1> QED
  BY <1>1, BenchStarts, BenchIsTold, PTL DEF BenchSpec
==============================================================================
