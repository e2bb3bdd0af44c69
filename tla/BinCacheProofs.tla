--------------------------- MODULE BinCacheProofs ---------------------------
(***************************************************************************)
(* What holds of the test binary cache for every number of concurrent runs *)
(* and sweeps: the locking discipline; that links are alone, copies find   *)
(* their binary and only what is unused is evicted until a sweep removes a *)
(* lock file it had not locked; and that none does as long as no two       *)
(* sweeps are at their lock files at once.                                 *)
(***************************************************************************)
EXTENDS BinCache, TLAPS

Base == TypeOK /\ LocksAccounted

\* The initial cache is well formed, with no lock taken.
LEMMA BaseInit == Init => Base
  <1> SUFFICES ASSUME Init PROVE Base
    OBVIOUS
  <1>1. scan \in [Sweepers -> Scan]
    <2>1. NoScan \in Scan
      BY DEF NoScan, Scan
    <2> QED BY <2>1 DEF Init, Found
  <1>2. ProcTypes
    BY <1>1, ProcsAssumption DEF Init, Found, ProcTypes, Procs, RunSteps, SweepSteps
  <1>3. DiskTypes
    <2>1. CASE dir
      BY <2>1 DEF Init, Found, DiskTypes
    <2>2. CASE ~dir
      BY <2>2 DEF Init, Found, DiskTypes
    <2> QED BY <2>1, <2>2
  <1>4. LocksAccounted
    BY DEF Init, Found, LocksAccounted, HoldSteps, Procs
  <1> QED BY <1>2, <1>3, <1>4 DEF Base, TypeOK

\* Opening the lock file, and writing the binary, keep the disk well formed.
LEMMA OpenDisk ==
    ASSUME DiskTypes, NEW p \in Procs, Open(p), UNCHANGED checkout
    PROVE  DiskTypes'
  <1> USE DEF Open, DiskTypes
  <1>1. CASE lockAt # 0
    BY <1>1
  <1>2. CASE lockAt = 0
    <2>1. made' \in Nat /\ lockAt' \in Nat /\ lockAt' <= made'
      BY <1>2
    <2>2. dir' \in BOOLEAN /\ dir' /\ UNCHANGED <<cwdFile, bin, stamps>>
      OBVIOUS
    <2>3. fresh' \subseteq {"bin", "dir"}
      BY <1>2
    <2> QED BY <2>1, <2>2, <2>3
  <1> QED BY <1>1, <1>2

LEMMA WritesOutputDisk ==
    ASSUME DiskTypes, WritesOutput, UNCHANGED <<cwdFile, lockAt, made, checkout>>
    PROVE  DiskTypes'
  <1>1. stamps' \in Nat /\ bin' \in Nat /\ bin' <= stamps'
    BY DEF WritesOutput, DiskTypes
  <1>2. dir' /\ fresh' \subseteq {"bin", "dir"}
    BY DEF WritesOutput, DiskTypes
  <1>3. dir' \in BOOLEAN
    BY DEF WritesOutput
  <1> QED BY <1>1, <1>2, <1>3 DEF DiskTypes

(* One lemma per step: types and locks are kept, whatever else runs.       *)

LEMMA MakeDirBase ==
    ASSUME Base, NEW r \in Runs, MakeDir(r)
    PROVE  Base'
  <1> USE DEF MakeDir, Goes
  <1>1. ProcTypes'
    BY ProcsAssumption DEF Base, TypeOK, ProcTypes, DiskTypes, Procs, RunSteps, SweepSteps
  <1>2. DiskTypes'
    BY DEF Base, TypeOK, DiskTypes
  <1>3. LocksAccounted'
    BY ProcsAssumption
    DEF Base, TypeOK, ProcTypes, LocksAccounted, HoldSteps, Procs, RunSteps, SweepSteps
  <1> QED BY <1>1, <1>2, <1>3 DEF Base, TypeOK

LEMMA RecordCheckoutBase ==
    ASSUME Base, NEW r \in Runs, RecordCheckout(r)
    PROVE  Base'
  <1> USE DEF RecordCheckout, Goes
  <1>1. ProcTypes'
    BY ProcsAssumption DEF Base, TypeOK, ProcTypes, DiskTypes, Procs, RunSteps, SweepSteps
  <1>2. DiskTypes'
    BY DEF Base, TypeOK, DiskTypes
  <1>3. LocksAccounted'
    BY ProcsAssumption
    DEF Base, TypeOK, ProcTypes, LocksAccounted, HoldSteps, Procs, RunSteps, SweepSteps
  <1> QED BY <1>1, <1>2, <1>3 DEF Base, TypeOK

LEMMA OpenLockBase ==
    ASSUME Base, NEW r \in Runs, OpenLock(r)
    PROVE  Base'
  <1> USE DEF OpenLock, Goes, Open, diskVars
  <1>1. ProcTypes'
    BY ProcsAssumption DEF Base, TypeOK, ProcTypes, DiskTypes, Procs, RunSteps, SweepSteps
  <1>2. DiskTypes'
    <2>1. CASE Open(r)
      BY <2>1, OpenDisk DEF Base, TypeOK, Procs
    <2>2. CASE UNCHANGED diskVars
      BY <2>2 DEF Base, TypeOK, DiskTypes
    <2> QED BY <2>1, <2>2
  <1>3. LocksAccounted'
    BY ProcsAssumption
    DEF Base, TypeOK, ProcTypes, LocksAccounted, HoldSteps, Procs, RunSteps, SweepSteps
  <1> QED BY <1>1, <1>2, <1>3 DEF Base, TypeOK

LEMMA WaitLockBase ==
    ASSUME Base, NEW r \in Runs, WaitLock(r)
    PROVE  Base'
  <1> USE DEF WaitLock, Goes, Lock, Free, diskVars
  <1>1. ProcTypes'
    BY ProcsAssumption DEF Base, TypeOK, ProcTypes, DiskTypes, Procs, RunSteps, SweepSteps
  <1>2. DiskTypes'
    BY DEF Base, TypeOK, DiskTypes
  <1>3. LocksAccounted'
    BY ProcsAssumption
    DEF Base, TypeOK, ProcTypes, LocksAccounted, HoldSteps, Procs, RunSteps, SweepSteps
  <1> QED BY <1>1, <1>2, <1>3 DEF Base, TypeOK

LEMMA CheckLockBase ==
    ASSUME Base, NEW r \in Runs, CheckLock(r)
    PROVE  Base'
  <1> USE DEF CheckLock, Goes, Unlock, diskVars
  <1>1. ProcTypes'
    BY ProcsAssumption DEF Base, TypeOK, ProcTypes, DiskTypes, Procs, RunSteps, SweepSteps
  <1>2. DiskTypes'
    BY DEF Base, TypeOK, DiskTypes
  <1>3. LocksAccounted'
    BY ProcsAssumption
    DEF Base, TypeOK, ProcTypes, LocksAccounted, HoldSteps, Procs, RunSteps, SweepSteps
  <1> QED BY <1>1, <1>2, <1>3 DEF Base, TypeOK

LEMMA LinkBase ==
    ASSUME Base, NEW r \in Runs, Link(r)
    PROVE  Base'
  <1> USE DEF Link, Goes, Unlock, WritesOutput
  <1>1. ProcTypes'
    BY ProcsAssumption DEF Base, TypeOK, ProcTypes, DiskTypes, Procs, RunSteps, SweepSteps
  <1>2. DiskTypes'
    <2>1. CASE WritesOutput
      BY <2>1, WritesOutputDisk DEF Base, TypeOK
    <2>2. CASE UNCHANGED <<dir, bin, stamps, fresh>>
      BY <2>2 DEF Base, TypeOK, DiskTypes
    <2> QED BY <2>1, <2>2
  <1>3. LocksAccounted'
    BY ProcsAssumption
    DEF Base, TypeOK, ProcTypes, LocksAccounted, HoldSteps, Procs, RunSteps, SweepSteps
  <1> QED BY <1>1, <1>2, <1>3 DEF Base, TypeOK

LEMMA CopyBase ==
    ASSUME Base, NEW r \in Runs, Copy(r)
    PROVE  Base'
  <1> USE DEF Copy, Goes, Unlock, diskVars
  <1>1. ProcTypes'
    BY ProcsAssumption DEF Base, TypeOK, ProcTypes, DiskTypes, Procs, RunSteps, SweepSteps
  <1>2. DiskTypes'
    BY DEF Base, TypeOK, DiskTypes
  <1>3. LocksAccounted'
    BY ProcsAssumption
    DEF Base, TypeOK, ProcTypes, LocksAccounted, HoldSteps, Procs, RunSteps, SweepSteps
  <1> QED BY <1>1, <1>2, <1>3 DEF Base, TypeOK

LEMMA LinkPrivatelyBase ==
    ASSUME Base, NEW r \in Runs, LinkPrivately(r)
    PROVE  Base'
  <1> USE DEF LinkPrivately, Goes, diskVars
  <1>1. ProcTypes'
    BY ProcsAssumption DEF Base, TypeOK, ProcTypes, DiskTypes, Procs, RunSteps, SweepSteps
  <1>2. DiskTypes'
    BY DEF Base, TypeOK, DiskTypes
  <1>3. LocksAccounted'
    BY ProcsAssumption
    DEF Base, TypeOK, ProcTypes, LocksAccounted, HoldSteps, Procs, RunSteps, SweepSteps
  <1> QED BY <1>1, <1>2, <1>3 DEF Base, TypeOK

LEMMA ScanKeyBase ==
    ASSUME Base, NEW s \in Sweepers, ScanKey(s)
    PROVE  Base'
  <1> USE DEF ScanKey, Goes, sweepKeeps
  <1>0. scan' \in [Sweepers -> Scan]
    <2>1. scan[s] \in Scan
      BY DEF Base, TypeOK, ProcTypes
    <2>2. scan'[s] \in Scan
      BY <2>1 DEF Base, TypeOK, ProcTypes, DiskTypes, Scan
    <2> QED BY <2>2 DEF Base, TypeOK, ProcTypes
  <1>1. ProcTypes'
    BY <1>0, ProcsAssumption DEF Base, TypeOK, ProcTypes, DiskTypes, Procs, RunSteps, SweepSteps
  <1>2. DiskTypes'
    BY DEF Base, TypeOK, DiskTypes
  <1>3. LocksAccounted'
    BY ProcsAssumption
    DEF Base, TypeOK, ProcTypes, LocksAccounted, HoldSteps, Procs, RunSteps, SweepSteps
  <1> QED BY <1>1, <1>2, <1>3 DEF Base, TypeOK

LEMMA ScanFilesBase ==
    ASSUME Base, NEW s \in Sweepers, ScanFiles(s)
    PROVE  Base'
  <1> USE DEF ScanFiles, Goes, sweepKeeps
  <1>0. scan' \in [Sweepers -> Scan]
    <2>1. scan[s] \in Scan
      BY DEF Base, TypeOK, ProcTypes
    <2>2. scan'[s] \in Scan
      BY <2>1 DEF Base, TypeOK, ProcTypes, DiskTypes, Scan
    <2> QED BY <2>2 DEF Base, TypeOK, ProcTypes
  <1>1. ProcTypes'
    BY <1>0, ProcsAssumption DEF Base, TypeOK, ProcTypes, DiskTypes, Procs, RunSteps, SweepSteps
  <1>2. DiskTypes'
    BY DEF Base, TypeOK, DiskTypes
  <1>3. LocksAccounted'
    BY ProcsAssumption
    DEF Base, TypeOK, ProcTypes, LocksAccounted, HoldSteps, Procs, RunSteps, SweepSteps
  <1> QED BY <1>1, <1>2, <1>3 DEF Base, TypeOK

LEMMA ChooseBase ==
    ASSUME Base, NEW s \in Sweepers, Choose(s)
    PROVE  Base'
  <1> USE DEF Choose, Goes, Open, diskVars
  <1>1. ProcTypes'
    BY ProcsAssumption DEF Base, TypeOK, ProcTypes, DiskTypes, Procs, RunSteps, SweepSteps
  <1>2. DiskTypes'
    <2>1. CASE Open(s)
      BY <2>1, OpenDisk DEF Base, TypeOK, Procs
    <2>2. CASE UNCHANGED diskVars
      BY <2>2 DEF Base, TypeOK, DiskTypes
    <2> QED BY <2>1, <2>2
  <1>3. LocksAccounted'
    BY ProcsAssumption
    DEF Base, TypeOK, ProcTypes, LocksAccounted, HoldSteps, Procs, RunSteps, SweepSteps
  <1> QED BY <1>1, <1>2, <1>3 DEF Base, TypeOK

LEMMA TryLockBase ==
    ASSUME Base, NEW s \in Sweepers, TryLock(s)
    PROVE  Base'
  <1> USE DEF TryLock, Goes, Lock, Free, sweepKeeps
  <1>1. ProcTypes'
    BY ProcsAssumption DEF Base, TypeOK, ProcTypes, DiskTypes, Procs, RunSteps, SweepSteps
  <1>2. DiskTypes'
    BY DEF Base, TypeOK, DiskTypes
  <1>3. LocksAccounted'
    BY ProcsAssumption
    DEF Base, TypeOK, ProcTypes, LocksAccounted, HoldSteps, Procs, RunSteps, SweepSteps
  <1> QED BY <1>1, <1>2, <1>3 DEF Base, TypeOK

LEMMA JudgeBase ==
    ASSUME Base, NEW s \in Sweepers, Judge(s)
    PROVE  Base'
  <1> USE DEF Judge, Goes, sweepKeeps
  <1>1. ProcTypes'
    BY ProcsAssumption DEF Base, TypeOK, ProcTypes, DiskTypes, Procs, RunSteps, SweepSteps
  <1>2. DiskTypes'
    BY DEF Base, TypeOK, DiskTypes
  <1>3. LocksAccounted'
    BY ProcsAssumption
    DEF Base, TypeOK, ProcTypes, LocksAccounted, HoldSteps, Procs, RunSteps, SweepSteps
  <1> QED BY <1>1, <1>2, <1>3 DEF Base, TypeOK

LEMMA RemoveBinaryBase ==
    ASSUME Base, NEW s \in Sweepers, RemoveBinary(s)
    PROVE  Base'
  <1> USE DEF RemoveBinary, Goes
  <1>0. scan' \in [Sweepers -> Scan]
    <2>1. scan[s] \in Scan
      BY DEF Base, TypeOK, ProcTypes
    <2>2. CASE bin # 0
      <3>1. scan' = [scan EXCEPT ![s].emptied = TRUE]
        BY <2>2
      <3>2. [scan[s] EXCEPT !.emptied = TRUE] \in Scan
        BY <2>1 DEF Scan
      <3> QED BY <3>1, <3>2 DEF Base, TypeOK, ProcTypes
    <2>3. CASE bin = 0
      BY <2>3 DEF Base, TypeOK, ProcTypes
    <2> QED BY <2>2, <2>3
  <1>1. ProcTypes'
    BY <1>0, ProcsAssumption DEF Base, TypeOK, ProcTypes, DiskTypes, Procs, RunSteps, SweepSteps
  <1>2. DiskTypes'
    BY DEF Base, TypeOK, DiskTypes
  <1>3. LocksAccounted'
    BY ProcsAssumption
    DEF Base, TypeOK, ProcTypes, LocksAccounted, HoldSteps, Procs, RunSteps, SweepSteps
  <1> QED BY <1>1, <1>2, <1>3 DEF Base, TypeOK

LEMMA RemoveLockBase ==
    ASSUME Base, NEW s \in Sweepers, RemoveLock(s)
    PROVE  Base'
  <1> USE DEF RemoveLock, Goes
  <1>1. ProcTypes'
    BY ProcsAssumption DEF Base, TypeOK, ProcTypes, DiskTypes, Procs, RunSteps, SweepSteps
  <1>2. DiskTypes'
    BY DEF Base, TypeOK, DiskTypes
  <1>3. LocksAccounted'
    BY ProcsAssumption
    DEF Base, TypeOK, ProcTypes, LocksAccounted, HoldSteps, Procs, RunSteps, SweepSteps
  <1> QED BY <1>1, <1>2, <1>3 DEF Base, TypeOK

LEMMA UnlockEvictedBase ==
    ASSUME Base, NEW s \in Sweepers, UnlockEvicted(s)
    PROVE  Base'
  <1> USE DEF UnlockEvicted, Goes, Unlock, sweepKeeps
  <1>1. ProcTypes'
    BY ProcsAssumption DEF Base, TypeOK, ProcTypes, DiskTypes, Procs, RunSteps, SweepSteps
  <1>2. DiskTypes'
    BY DEF Base, TypeOK, DiskTypes
  <1>3. LocksAccounted'
    BY ProcsAssumption
    DEF Base, TypeOK, ProcTypes, LocksAccounted, HoldSteps, Procs, RunSteps, SweepSteps
  <1> QED BY <1>1, <1>2, <1>3 DEF Base, TypeOK

LEMMA CheckEmptyBase ==
    ASSUME Base, NEW s \in Sweepers, CheckEmpty(s)
    PROVE  Base'
  <1> USE DEF CheckEmpty, Goes, sweepKeeps
  <1>1. ProcTypes'
    BY ProcsAssumption DEF Base, TypeOK, ProcTypes, DiskTypes, Procs, RunSteps, SweepSteps
  <1>2. DiskTypes'
    BY DEF Base, TypeOK, DiskTypes
  <1>3. LocksAccounted'
    BY ProcsAssumption
    DEF Base, TypeOK, ProcTypes, LocksAccounted, HoldSteps, Procs, RunSteps, SweepSteps
  <1> QED BY <1>1, <1>2, <1>3 DEF Base, TypeOK

LEMMA RemoveCwdBase ==
    ASSUME Base, NEW s \in Sweepers, RemoveCwd(s)
    PROVE  Base'
  <1> USE DEF RemoveCwd, Goes
  <1>1. ProcTypes'
    BY ProcsAssumption DEF Base, TypeOK, ProcTypes, DiskTypes, Procs, RunSteps, SweepSteps
  <1>2. DiskTypes'
    BY DEF Base, TypeOK, DiskTypes
  <1>3. LocksAccounted'
    BY ProcsAssumption
    DEF Base, TypeOK, ProcTypes, LocksAccounted, HoldSteps, Procs, RunSteps, SweepSteps
  <1> QED BY <1>1, <1>2, <1>3 DEF Base, TypeOK

LEMMA RemoveDirBase ==
    ASSUME Base, NEW s \in Sweepers, RemoveDir(s)
    PROVE  Base'
  <1> USE DEF RemoveDir, Goes
  <1>1. ProcTypes'
    BY ProcsAssumption DEF Base, TypeOK, ProcTypes, DiskTypes, Procs, RunSteps, SweepSteps
  <1>2. DiskTypes'
    BY DEF Base, TypeOK, DiskTypes
  <1>3. LocksAccounted'
    BY ProcsAssumption
    DEF Base, TypeOK, ProcTypes, LocksAccounted, HoldSteps, Procs, RunSteps, SweepSteps
  <1> QED BY <1>1, <1>2, <1>3 DEF Base, TypeOK

LEMMA CrashBase ==
    ASSUME Base, NEW p \in Procs, Crash(p)
    PROVE  Base'
  <1> USE DEF Crash, Goes, Unlock, WritesOutput
  <1>1. ProcTypes'
    BY ProcsAssumption DEF Base, TypeOK, ProcTypes, DiskTypes, Procs, RunSteps, SweepSteps
  <1>2. DiskTypes'
    <2>1. CASE WritesOutput
      BY <2>1, WritesOutputDisk DEF Base, TypeOK
    <2>2. CASE UNCHANGED <<dir, bin, stamps, fresh>>
      BY <2>2 DEF Base, TypeOK, DiskTypes
    <2> QED BY <2>1, <2>2
  <1>3. LocksAccounted'
    BY ProcsAssumption
    DEF Base, TypeOK, ProcTypes, LocksAccounted, HoldSteps, Procs, RunSteps, SweepSteps
  <1> QED BY <1>1, <1>2, <1>3 DEF Base, TypeOK

\* Time, the checkout and idle steps change no process and no file.
LEMMA QuietBase ==
    ASSUME Base, Ages \/ CheckoutMoves \/ UNCHANGED vars
    PROVE  Base'
  <1> USE DEF Ages, CheckoutMoves, vars, diskVars
  <1>1. ProcTypes' /\ LocksAccounted'
    BY DEF Base, TypeOK, ProcTypes, LocksAccounted
  <1>2. checkout' \in BOOLEAN
    BY DEF Base, TypeOK, DiskTypes
  <1>3. UNCHANGED <<dir, cwdFile, lockAt, made, bin, stamps>> /\ fresh' \subseteq fresh
    OBVIOUS
  <1>4. DiskTypes'
    BY <1>2, <1>3 DEF Base, TypeOK, DiskTypes
  <1> QED BY <1>1, <1>4 DEF Base, TypeOK

LEMMA BaseNext ==
    Base /\ [Next]_vars => Base'
  <1> SUFFICES ASSUME Base, [Next]_vars PROVE Base'
    OBVIOUS
  <1>1. ASSUME NEW r \in Runs, RunStep(r) PROVE Base'
    BY <1>1,
       MakeDirBase, RecordCheckoutBase, OpenLockBase, WaitLockBase,
       CheckLockBase, LinkBase, CopyBase, LinkPrivatelyBase
    DEF RunStep
  <1>2. ASSUME NEW s \in Sweepers, SweepStep(s) PROVE Base'
    BY <1>2,
       ScanKeyBase, ScanFilesBase, ChooseBase, TryLockBase, JudgeBase,
       RemoveBinaryBase, RemoveLockBase, UnlockEvictedBase, CheckEmptyBase,
       RemoveCwdBase, RemoveDirBase
    DEF SweepStep
  <1>3. ASSUME NEW p \in Procs, Crash(p) PROVE Base'
    BY <1>3, CrashBase
  <1> QED
    BY <1>1, <1>2, <1>3, QuietBase DEF Next, Works, Disturbs, Ended

\* However many runs and sweeps there are, and however they are interleaved or
\* killed, no lock is kept by an error path, none is worked under without being
\* held, and no two processes hold one file's.
THEOREM LocksAreAccounted == Spec => [](TypeOK /\ LocksAccounted)
  BY BaseInit, BaseNext, PTL DEF Spec, Base

-----------------------------------------------------------------------------
(* Until a sweep removes a lock file it had not locked.                    *)

\* No process is in the cache to begin with.
LEMMA AtPathInit == Init => AtPath /\ ~taken
  <1> SUFFICES ASSUME Init PROVE AtPath
    BY DEF Init, Found
  <1>1. /\ \A r \in Runs : pc[r] = "start"
        /\ \A s \in Sweepers : pc[s] = "key"
    BY ProcsAssumption DEF Init, Procs
  <1>2. FilesMade
    BY <1>1 DEF Init, Found, FilesMade, Procs
  <1>3. SweepsOwn
    <2>1. stamps = 1 /\ \A s \in Sweepers : scan[s].bin = 0
      BY DEF Init, Found, NoScan
    <2> QED BY <1>1, <2>1 DEF SweepsOwn, Evicts
  <1> QED BY <1>1, <1>2, <1>3 DEF AtPath, RunsAtPath, CopyHasBinary, CacheServes

\* That one was taken is never forgotten.
LEMMA TakenStays == taken /\ [Next]_vars => taken'
  <1> USE DEF vars, diskVars, sweepKeeps
  <1>1. ASSUME taken, NEW r \in Runs, RunStep(r) PROVE taken'
    BY <1>1 DEF RunStep, MakeDir, RecordCheckout, OpenLock, WaitLock, CheckLock, Link, Copy,
                LinkPrivately
  <1>2. ASSUME taken, NEW s \in Sweepers, SweepStep(s) PROVE taken'
    BY <1>2 DEF SweepStep, ScanKey, ScanFiles, Choose, TryLock, Judge, RemoveBinary, RemoveLock,
                UnlockEvicted, CheckEmpty, RemoveCwd, RemoveDir
  <1> QED BY <1>1, <1>2 DEF Next, Works, Disturbs, Crash, Ages, CheckoutMoves, Ended

(* One lemma per step that a process takes.                                *)

LEMMA MakeDirAtPath ==
    ASSUME Base, AtPath, NEW r \in Runs, MakeDir(r)
    PROVE  AtPath'
  <1> USE ProcsAssumption DEF MakeDir, Goes, Base, TypeOK, ProcTypes, Procs
  <1>1. FilesMade'
    BY DEF AtPath, FilesMade, DiskTypes, RunSteps, SweepSteps
  <1>2. RunsAtPath'
    BY DEF AtPath, FilesMade, RunsAtPath, LocksAccounted, HoldSteps, DiskTypes
  <1>3. SweepsOwn'
    BY DEF AtPath, FilesMade, RunsAtPath, SweepsOwn, Evicts, LocksAccounted, HoldSteps, Scan,
           DiskTypes
  <1>4. CopyHasBinary' /\ CacheServes'
    BY DEF AtPath, RunsAtPath, SweepsOwn, LocksAccounted, HoldSteps, CopyHasBinary, CacheServes,
           DiskTypes
  <1> QED BY <1>1, <1>2, <1>3, <1>4 DEF AtPath

LEMMA RecordCheckoutAtPath ==
    ASSUME Base, AtPath, NEW r \in Runs, RecordCheckout(r)
    PROVE  AtPath'
  <1> USE ProcsAssumption DEF RecordCheckout, Goes, Base, TypeOK, ProcTypes, Procs
  <1>1. FilesMade'
    BY DEF AtPath, FilesMade, DiskTypes, RunSteps, SweepSteps
  <1>2. RunsAtPath'
    BY DEF AtPath, FilesMade, RunsAtPath, LocksAccounted, HoldSteps, DiskTypes
  <1>3. SweepsOwn'
    BY DEF AtPath, FilesMade, RunsAtPath, SweepsOwn, Evicts, LocksAccounted, HoldSteps, Scan,
           DiskTypes
  <1>4. CopyHasBinary' /\ CacheServes'
    BY DEF AtPath, RunsAtPath, SweepsOwn, LocksAccounted, HoldSteps, CopyHasBinary, CacheServes,
           DiskTypes
  <1> QED BY <1>1, <1>2, <1>3, <1>4 DEF AtPath

LEMMA OpenLockAtPath ==
    ASSUME Base, AtPath, NEW r \in Runs, OpenLock(r)
    PROVE  AtPath'
  <1> USE ProcsAssumption DEF OpenLock, Goes, Open, diskVars, Base, TypeOK, ProcTypes, Procs
  <1>1. FilesMade'
    BY DEF AtPath, FilesMade, DiskTypes, RunSteps, SweepSteps
  <1>2. RunsAtPath'
    BY DEF AtPath, FilesMade, RunsAtPath, LocksAccounted, HoldSteps, DiskTypes
  <1>3. SweepsOwn'
    BY DEF AtPath, FilesMade, RunsAtPath, SweepsOwn, Evicts, LocksAccounted, HoldSteps, Scan,
           DiskTypes
  <1>4. CopyHasBinary' /\ CacheServes'
    BY DEF AtPath, RunsAtPath, SweepsOwn, LocksAccounted, HoldSteps, CopyHasBinary, CacheServes,
           DiskTypes
  <1> QED BY <1>1, <1>2, <1>3, <1>4 DEF AtPath

LEMMA WaitLockAtPath ==
    ASSUME Base, AtPath, NEW r \in Runs, WaitLock(r)
    PROVE  AtPath'
  <1> USE ProcsAssumption DEF WaitLock, Goes, Lock, Free, diskVars, Base, TypeOK, ProcTypes, Procs
  <1>1. FilesMade'
    BY DEF AtPath, FilesMade, DiskTypes, RunSteps, SweepSteps
  <1>2. RunsAtPath'
    BY DEF AtPath, FilesMade, RunsAtPath, LocksAccounted, HoldSteps, DiskTypes
  <1>3. SweepsOwn'
    BY DEF AtPath, FilesMade, RunsAtPath, SweepsOwn, Evicts, LocksAccounted, HoldSteps, Scan,
           DiskTypes
  <1>4. CopyHasBinary' /\ CacheServes'
    BY DEF AtPath, RunsAtPath, SweepsOwn, LocksAccounted, HoldSteps, CopyHasBinary, CacheServes,
           DiskTypes
  <1> QED BY <1>1, <1>2, <1>3, <1>4 DEF AtPath

LEMMA CheckLockAtPath ==
    ASSUME Base, AtPath, NEW r \in Runs, CheckLock(r)
    PROVE  AtPath'
  <1> USE ProcsAssumption DEF CheckLock, Goes, Unlock, diskVars, Base, TypeOK, ProcTypes, Procs
  <1>1. FilesMade'
    BY DEF AtPath, FilesMade, DiskTypes, RunSteps, SweepSteps
  <1>2. RunsAtPath'
    BY DEF AtPath, FilesMade, RunsAtPath, LocksAccounted, HoldSteps, DiskTypes
  <1>3. SweepsOwn'
    BY DEF AtPath, FilesMade, RunsAtPath, SweepsOwn, Evicts, LocksAccounted, HoldSteps, Scan,
           DiskTypes
  <1>4. CopyHasBinary' /\ CacheServes'
    BY DEF AtPath, RunsAtPath, SweepsOwn, LocksAccounted, HoldSteps, CopyHasBinary, CacheServes,
           DiskTypes
  <1> QED BY <1>1, <1>2, <1>3, <1>4 DEF AtPath

LEMMA LinkAtPath ==
    ASSUME Base, AtPath, NEW r \in Runs, Link(r)
    PROVE  AtPath'
  <1> USE ProcsAssumption DEF Link, Goes, Unlock, WritesOutput, Base, TypeOK, ProcTypes, Procs
  <1>1. FilesMade'
    BY DEF AtPath, FilesMade, DiskTypes, RunSteps, SweepSteps
  <1>2. RunsAtPath'
    BY DEF AtPath, FilesMade, RunsAtPath, LocksAccounted, HoldSteps, DiskTypes
  <1>3. SweepsOwn'
    BY DEF AtPath, FilesMade, RunsAtPath, SweepsOwn, Evicts, LocksAccounted, HoldSteps, Scan,
           DiskTypes
  <1>4. CopyHasBinary' /\ CacheServes'
    BY DEF AtPath, RunsAtPath, SweepsOwn, LocksAccounted, HoldSteps, CopyHasBinary, CacheServes,
           DiskTypes
  <1> QED BY <1>1, <1>2, <1>3, <1>4 DEF AtPath

LEMMA CopyAtPath ==
    ASSUME Base, AtPath, NEW r \in Runs, Copy(r)
    PROVE  AtPath'
  <1> USE ProcsAssumption DEF Copy, Goes, Unlock, diskVars, Base, TypeOK, ProcTypes, Procs
  <1>1. FilesMade'
    BY DEF AtPath, FilesMade, DiskTypes, RunSteps, SweepSteps
  <1>2. RunsAtPath'
    BY DEF AtPath, FilesMade, RunsAtPath, LocksAccounted, HoldSteps, DiskTypes
  <1>3. SweepsOwn'
    BY DEF AtPath, FilesMade, RunsAtPath, SweepsOwn, Evicts, LocksAccounted, HoldSteps, Scan,
           DiskTypes
  <1>4. CopyHasBinary' /\ CacheServes'
    BY DEF AtPath, RunsAtPath, SweepsOwn, LocksAccounted, HoldSteps, CopyHasBinary, CacheServes,
           DiskTypes
  <1> QED BY <1>1, <1>2, <1>3, <1>4 DEF AtPath

LEMMA LinkPrivatelyAtPath ==
    ASSUME Base, AtPath, NEW r \in Runs, LinkPrivately(r)
    PROVE  AtPath'
  <1> USE ProcsAssumption DEF LinkPrivately, Goes, diskVars, Base, TypeOK, ProcTypes, Procs
  <1>1. FilesMade'
    BY DEF AtPath, FilesMade, DiskTypes, RunSteps, SweepSteps
  <1>2. RunsAtPath'
    BY DEF AtPath, FilesMade, RunsAtPath, LocksAccounted, HoldSteps, DiskTypes
  <1>3. SweepsOwn'
    BY DEF AtPath, FilesMade, RunsAtPath, SweepsOwn, Evicts, LocksAccounted, HoldSteps, Scan,
           DiskTypes
  <1>4. CopyHasBinary' /\ CacheServes'
    BY DEF AtPath, RunsAtPath, SweepsOwn, LocksAccounted, HoldSteps, CopyHasBinary, CacheServes,
           DiskTypes
  <1> QED BY <1>1, <1>2, <1>3, <1>4 DEF AtPath

LEMMA ScanKeyAtPath ==
    ASSUME Base, AtPath, NEW s \in Sweepers, ScanKey(s)
    PROVE  AtPath'
  <1> USE ProcsAssumption DEF ScanKey, Goes, sweepKeeps, Base, TypeOK, ProcTypes, Procs
  <1>1. FilesMade'
    BY DEF AtPath, FilesMade, DiskTypes, RunSteps, SweepSteps
  <1>2. RunsAtPath'
    BY DEF AtPath, FilesMade, RunsAtPath, LocksAccounted, HoldSteps, DiskTypes
  <1>3. SweepsOwn'
    BY DEF AtPath, FilesMade, RunsAtPath, SweepsOwn, Evicts, LocksAccounted, HoldSteps, Scan,
           DiskTypes
  <1>4. CopyHasBinary' /\ CacheServes'
    BY DEF AtPath, RunsAtPath, SweepsOwn, LocksAccounted, HoldSteps, CopyHasBinary, CacheServes,
           DiskTypes
  <1> QED BY <1>1, <1>2, <1>3, <1>4 DEF AtPath

LEMMA ScanFilesAtPath ==
    ASSUME Base, AtPath, NEW s \in Sweepers, ScanFiles(s)
    PROVE  AtPath'
  <1> USE ProcsAssumption DEF ScanFiles, Goes, sweepKeeps, Base, TypeOK, ProcTypes, Procs
  <1>1. FilesMade'
    BY DEF AtPath, FilesMade, DiskTypes, RunSteps, SweepSteps
  <1>2. RunsAtPath'
    BY DEF AtPath, FilesMade, RunsAtPath, LocksAccounted, HoldSteps, DiskTypes
  <1>3. SweepsOwn'
    BY DEF AtPath, FilesMade, RunsAtPath, SweepsOwn, Evicts, LocksAccounted, HoldSteps, Scan,
           DiskTypes
  <1>4. CopyHasBinary' /\ CacheServes'
    BY DEF AtPath, RunsAtPath, SweepsOwn, LocksAccounted, HoldSteps, CopyHasBinary, CacheServes,
           DiskTypes
  <1> QED BY <1>1, <1>2, <1>3, <1>4 DEF AtPath

LEMMA ChooseAtPath ==
    ASSUME Base, AtPath, NEW s \in Sweepers, Choose(s)
    PROVE  AtPath'
  <1> USE ProcsAssumption DEF Choose, Goes, Open, diskVars, Base, TypeOK, ProcTypes, Procs
  <1>1. FilesMade'
    BY DEF AtPath, FilesMade, DiskTypes, RunSteps, SweepSteps
  <1>2. RunsAtPath'
    BY DEF AtPath, FilesMade, RunsAtPath, LocksAccounted, HoldSteps, DiskTypes
  <1>3. SweepsOwn'
    BY DEF AtPath, FilesMade, RunsAtPath, SweepsOwn, Evicts, LocksAccounted, HoldSteps, Scan,
           DiskTypes
  <1>4. CopyHasBinary' /\ CacheServes'
    BY DEF AtPath, RunsAtPath, SweepsOwn, LocksAccounted, HoldSteps, CopyHasBinary, CacheServes,
           DiskTypes
  <1> QED BY <1>1, <1>2, <1>3, <1>4 DEF AtPath

LEMMA TryLockAtPath ==
    ASSUME Base, AtPath, NEW s \in Sweepers, TryLock(s)
    PROVE  AtPath'
  <1> USE ProcsAssumption DEF TryLock, Goes, Lock, Free, sweepKeeps, Base, TypeOK, ProcTypes, Procs
  <1>1. FilesMade'
    BY DEF AtPath, FilesMade, DiskTypes, RunSteps, SweepSteps
  <1>2. RunsAtPath'
    BY DEF AtPath, FilesMade, RunsAtPath, LocksAccounted, HoldSteps, DiskTypes
  <1>3. SweepsOwn'
    BY DEF AtPath, FilesMade, RunsAtPath, SweepsOwn, Evicts, LocksAccounted, HoldSteps, Scan,
           DiskTypes
  <1>4. CopyHasBinary' /\ CacheServes'
    BY DEF AtPath, RunsAtPath, SweepsOwn, LocksAccounted, HoldSteps, CopyHasBinary, CacheServes,
           DiskTypes
  <1> QED BY <1>1, <1>2, <1>3, <1>4 DEF AtPath

LEMMA JudgeAtPath ==
    ASSUME Base, AtPath, NEW s \in Sweepers, Judge(s)
    PROVE  AtPath'
  <1> USE ProcsAssumption DEF Judge, Goes, sweepKeeps, Base, TypeOK, ProcTypes, Procs
  <1>1. FilesMade'
    BY DEF AtPath, FilesMade, DiskTypes, RunSteps, SweepSteps
  <1>2. RunsAtPath'
    BY DEF AtPath, FilesMade, RunsAtPath, LocksAccounted, HoldSteps, DiskTypes
  <1>3. SweepsOwn'
    BY DEF AtPath, FilesMade, RunsAtPath, SweepsOwn, Evicts, LocksAccounted, HoldSteps, Scan,
           DiskTypes
  <1>4. CopyHasBinary' /\ CacheServes'
    BY DEF AtPath, RunsAtPath, SweepsOwn, LocksAccounted, HoldSteps, CopyHasBinary, CacheServes,
           DiskTypes
  <1> QED BY <1>1, <1>2, <1>3, <1>4 DEF AtPath

LEMMA RemoveBinaryAtPath ==
    ASSUME Base, AtPath, NEW s \in Sweepers, RemoveBinary(s)
    PROVE  AtPath'
  <1> USE ProcsAssumption DEF RemoveBinary, Goes, Base, TypeOK, ProcTypes, Procs
  <1>1. FilesMade'
    BY DEF AtPath, FilesMade, DiskTypes, RunSteps, SweepSteps
  <1>2. RunsAtPath'
    BY DEF AtPath, FilesMade, RunsAtPath, LocksAccounted, HoldSteps, DiskTypes
  <1>3. SweepsOwn'
    BY DEF AtPath, FilesMade, RunsAtPath, SweepsOwn, Evicts, LocksAccounted, HoldSteps, Scan,
           DiskTypes
  <1>4. CopyHasBinary' /\ CacheServes'
    BY DEF AtPath, RunsAtPath, SweepsOwn, LocksAccounted, HoldSteps, CopyHasBinary, CacheServes,
           DiskTypes
  <1> QED BY <1>1, <1>2, <1>3, <1>4 DEF AtPath

LEMMA RemoveLockAtPath ==
    ASSUME Base, AtPath, NEW s \in Sweepers, RemoveLock(s),
           ~taken'
    PROVE  AtPath'
  <1> USE ProcsAssumption DEF RemoveLock, Goes, Base, TypeOK, ProcTypes, Procs
  <1>1. FilesMade'
    BY DEF AtPath, FilesMade, DiskTypes, RunSteps, SweepSteps
  <1>2. RunsAtPath'
    BY DEF AtPath, FilesMade, RunsAtPath, LocksAccounted, HoldSteps, DiskTypes
  <1>3. SweepsOwn'
    BY DEF AtPath, FilesMade, RunsAtPath, SweepsOwn, Evicts, LocksAccounted, HoldSteps, Scan,
           DiskTypes
  <1>4. CopyHasBinary' /\ CacheServes'
    BY DEF AtPath, RunsAtPath, SweepsOwn, LocksAccounted, HoldSteps, CopyHasBinary, CacheServes,
           DiskTypes
  <1> QED BY <1>1, <1>2, <1>3, <1>4 DEF AtPath

LEMMA UnlockEvictedAtPath ==
    ASSUME Base, AtPath, NEW s \in Sweepers, UnlockEvicted(s)
    PROVE  AtPath'
  <1> USE ProcsAssumption DEF UnlockEvicted, Goes, Unlock, sweepKeeps, Base, TypeOK, ProcTypes, Procs
  <1>1. FilesMade'
    BY DEF AtPath, FilesMade, DiskTypes, RunSteps, SweepSteps
  <1>2. RunsAtPath'
    BY DEF AtPath, FilesMade, RunsAtPath, LocksAccounted, HoldSteps, DiskTypes
  <1>3. SweepsOwn'
    BY DEF AtPath, FilesMade, RunsAtPath, SweepsOwn, Evicts, LocksAccounted, HoldSteps, Scan,
           DiskTypes
  <1>4. CopyHasBinary' /\ CacheServes'
    BY DEF AtPath, RunsAtPath, SweepsOwn, LocksAccounted, HoldSteps, CopyHasBinary, CacheServes,
           DiskTypes
  <1> QED BY <1>1, <1>2, <1>3, <1>4 DEF AtPath

LEMMA CheckEmptyAtPath ==
    ASSUME Base, AtPath, NEW s \in Sweepers, CheckEmpty(s)
    PROVE  AtPath'
  <1> USE ProcsAssumption DEF CheckEmpty, Goes, sweepKeeps, Base, TypeOK, ProcTypes, Procs
  <1>1. FilesMade'
    BY DEF AtPath, FilesMade, DiskTypes, RunSteps, SweepSteps
  <1>2. RunsAtPath'
    BY DEF AtPath, FilesMade, RunsAtPath, LocksAccounted, HoldSteps, DiskTypes
  <1>3. SweepsOwn'
    BY DEF AtPath, FilesMade, RunsAtPath, SweepsOwn, Evicts, LocksAccounted, HoldSteps, Scan,
           DiskTypes
  <1>4. CopyHasBinary' /\ CacheServes'
    BY DEF AtPath, RunsAtPath, SweepsOwn, LocksAccounted, HoldSteps, CopyHasBinary, CacheServes,
           DiskTypes
  <1> QED BY <1>1, <1>2, <1>3, <1>4 DEF AtPath

LEMMA RemoveCwdAtPath ==
    ASSUME Base, AtPath, NEW s \in Sweepers, RemoveCwd(s)
    PROVE  AtPath'
  <1> USE ProcsAssumption DEF RemoveCwd, Goes, Base, TypeOK, ProcTypes, Procs
  <1>1. FilesMade'
    BY DEF AtPath, FilesMade, DiskTypes, RunSteps, SweepSteps
  <1>2. RunsAtPath'
    BY DEF AtPath, FilesMade, RunsAtPath, LocksAccounted, HoldSteps, DiskTypes
  <1>3. SweepsOwn'
    BY DEF AtPath, FilesMade, RunsAtPath, SweepsOwn, Evicts, LocksAccounted, HoldSteps, Scan,
           DiskTypes
  <1>4. CopyHasBinary' /\ CacheServes'
    BY DEF AtPath, RunsAtPath, SweepsOwn, LocksAccounted, HoldSteps, CopyHasBinary, CacheServes,
           DiskTypes
  <1> QED BY <1>1, <1>2, <1>3, <1>4 DEF AtPath

LEMMA RemoveDirAtPath ==
    ASSUME Base, AtPath, NEW s \in Sweepers, RemoveDir(s)
    PROVE  AtPath'
  <1> USE ProcsAssumption DEF RemoveDir, Goes, Base, TypeOK, ProcTypes, Procs
  <1>1. FilesMade'
    BY DEF AtPath, FilesMade, DiskTypes, RunSteps, SweepSteps
  <1>2. RunsAtPath'
    BY DEF AtPath, FilesMade, RunsAtPath, LocksAccounted, HoldSteps, DiskTypes
  <1>3. SweepsOwn'
    BY DEF AtPath, FilesMade, RunsAtPath, SweepsOwn, Evicts, LocksAccounted, HoldSteps, Scan,
           DiskTypes
  <1>4. CopyHasBinary' /\ CacheServes'
    BY DEF AtPath, RunsAtPath, SweepsOwn, LocksAccounted, HoldSteps, CopyHasBinary, CacheServes,
           DiskTypes
  <1> QED BY <1>1, <1>2, <1>3, <1>4 DEF AtPath

LEMMA CrashAtPath ==
    ASSUME Base, AtPath, NEW p \in Procs, Crash(p)
    PROVE  AtPath'
  <1> USE ProcsAssumption DEF Crash, Goes, WritesOutput, Base, TypeOK, ProcTypes, DiskTypes, Procs
  <1>1. FilesMade' /\ RunsAtPath'
    BY DEF AtPath, FilesMade, RunsAtPath
  <1>2. SweepsOwn'
    BY DEF AtPath, RunsAtPath, SweepsOwn, Evicts, LocksAccounted, HoldSteps, Scan, RunSteps
  <1>3. CopyHasBinary' /\ CacheServes'
    BY DEF AtPath, CopyHasBinary, CacheServes
  <1> QED BY <1>1, <1>2, <1>3 DEF AtPath

LEMMA QuietAtPath ==
    ASSUME AtPath, Ages \/ CheckoutMoves \/ UNCHANGED vars
    PROVE  AtPath'
  BY DEF AtPath, FilesMade, RunsAtPath, SweepsOwn, Evicts, CopyHasBinary, CacheServes, Ages,
         CheckoutMoves, vars, diskVars

\* Runs in the cache and sweeps hold the lock of the file at the lock path as
\* long as no step removes another's.
LEMMA AtPathNext ==
    Base /\ AtPathUntilTaken /\ [Next]_vars => AtPathUntilTaken'
  <1> SUFFICES ASSUME Base, AtPathUntilTaken, [Next]_vars, ~taken' PROVE AtPath'
    BY DEF AtPathUntilTaken
  <1>0. AtPath
    BY TakenStays DEF AtPathUntilTaken
  <1>1. ASSUME NEW r \in Runs, RunStep(r) PROVE AtPath'
    BY <1>0, <1>1,
       MakeDirAtPath, RecordCheckoutAtPath, OpenLockAtPath, WaitLockAtPath,
       CheckLockAtPath, LinkAtPath, CopyAtPath, LinkPrivatelyAtPath
    DEF RunStep
  <1>2. ASSUME NEW s \in Sweepers, SweepStep(s) PROVE AtPath'
    BY <1>0, <1>2,
       ScanKeyAtPath, ScanFilesAtPath, ChooseAtPath, TryLockAtPath,
       JudgeAtPath, RemoveBinaryAtPath, RemoveLockAtPath,
       UnlockEvictedAtPath, CheckEmptyAtPath, RemoveCwdAtPath,
       RemoveDirAtPath
    DEF SweepStep
  <1>3. ASSUME NEW p \in Procs, Crash(p) PROVE AtPath'
    BY <1>0, <1>3, CrashAtPath
  <1> QED
    BY <1>0, <1>1, <1>2, <1>3, QuietAtPath DEF Next, Works, Disturbs, Ended

\* Any number of runs and sweeps link one cached binary one at a time, killed
\* processes and replaced lock files included, until a sweep removes a lock file
\* it had not locked (bincache_lock_unix.go:20, :35).
THEOREM LinksAreAlone == Spec => []LinksAloneUntilTaken
  <1>1. Base /\ AtPathUntilTaken => LinksAloneUntilTaken
    BY DEF Base, TypeOK, ProcTypes, LocksAccounted, HoldSteps, AtPathUntilTaken, AtPath,
           RunsAtPath, LinksAloneUntilTaken, LinksAlone, Procs
  <1>2. Init => AtPathUntilTaken
    BY AtPathInit DEF AtPathUntilTaken
  <1> QED
    BY <1>1, <1>2, BaseInit, BaseNext, AtPathNext, PTL DEF Spec

\* No compile fails for want of the cached binary it just linked, until a sweep
\* removes a lock file it had not locked (compile.go:55).
THEOREM CacheAlwaysServes == Spec => []ServesUntilTaken
  <1>1. AtPathUntilTaken => ServesUntilTaken
    BY DEF AtPathUntilTaken, AtPath, ServesUntilTaken
  <1>2. Init => AtPathUntilTaken
    BY AtPathInit DEF AtPathUntilTaken
  <1> QED
    BY <1>1, <1>2, BaseInit, BaseNext, AtPathNext, PTL DEF Spec

\* A binary is removed only by a sweep that found this very binary to be old,
\* and by none while a run links or copies it, until a sweep has removed a lock
\* file it had not locked (evictBinary, bincache_evict.go:153).
THEOREM EvictsUnusedOnly == Spec => EvictsOnlyUnused
  <1>1. ASSUME Base, AtPath, Next, bin # 0, bin' = 0
        PROVE  /\ \A r \in Runs : pc[r] \notin {"linking", "copying"}
               /\ \E s \in Sweepers : pc[s] = "remove" /\ bin = scan[s].bin
    <2>0. stamps \in Nat
      BY <1>1 DEF Base, TypeOK, DiskTypes
    <2>1. ASSUME NEW r \in Runs, RunStep(r) PROVE FALSE
      BY <1>1, <2>0, <2>1
      DEF RunStep, MakeDir, RecordCheckout, OpenLock, WaitLock, CheckLock, Link, Copy,
          LinkPrivately, Open, diskVars, WritesOutput
    <2>2. ASSUME NEW p \in Procs, Crash(p) PROVE FALSE
      BY <1>1, <2>0, <2>2 DEF Crash, WritesOutput
    <2>3. ~(Ages \/ CheckoutMoves \/ Ended)
      BY <1>1 DEF Ages, CheckoutMoves, Ended, vars, diskVars
    <2>4. PICK s \in Sweepers : SweepStep(s)
      BY <1>1, <2>1, <2>2, <2>3 DEF Next, Works, Disturbs
    <2>5. RemoveBinary(s)
      BY <1>1, <2>4
      DEF SweepStep, ScanKey, ScanFiles, Choose, TryLock, Judge, RemoveLock,
          UnlockEvicted, CheckEmpty, RemoveCwd, RemoveDir, sweepKeeps, Open, diskVars
    <2>6. pc[s] = "remove" /\ bin = scan[s].bin /\ file[s] = lockAt
      BY <1>1, <2>5 DEF RemoveBinary, AtPath, SweepsOwn
    <2>7. ASSUME NEW r \in Runs PROVE pc[r] \notin {"linking", "copying"}
      BY <1>1, <2>6, ProcsAssumption
      DEF Base, LocksAccounted, HoldSteps, AtPath, RunsAtPath, Procs
    <2> QED BY <2>6, <2>7
  <1>2. Base /\ AtPathUntilTaken /\ [Next]_vars =>
            [bin # 0 /\ bin' = 0 /\ ~taken =>
                /\ \A r \in Runs : pc[r] \notin {"linking", "copying"}
                /\ \E s \in Sweepers : pc[s] = "remove" /\ bin = scan[s].bin]_vars
    BY <1>1 DEF vars, AtPathUntilTaken
  <1>3. Init => AtPathUntilTaken
    BY AtPathInit DEF AtPathUntilTaken
  <1> QED
    BY <1>2, <1>3, BaseInit, BaseNext, AtPathNext, PTL DEF Spec, EvictsOnlyUnused

-----------------------------------------------------------------------------
(* What it takes to remove another's lock file.                            *)

\* A sweep is between opening a lock file and giving it up, or leaving it alone.
AtLock(s) == pc[s] \in {"try", "judge", "remove", "removeLock"}

\* Two sweeps are there at once.
SweepsMeet == \E s, t \in Sweepers : s # t /\ AtLock(s) /\ AtLock(t)

\* A sweep's lock file is the one at the path.
SweepsAtPath == \A s \in Sweepers : AtLock(s) => lockAt # 0 /\ file[s] = lockAt

\* Only a sweep moves the lock path away from a file, and it is alone at it.
LEMMA SweepsAtPathNext ==
    Base /\ ~SweepsMeet /\ ~taken /\ SweepsAtPath /\ [Next]_vars => ~taken' /\ SweepsAtPath'
  <1> SUFFICES ASSUME Base, ~SweepsMeet, ~taken, SweepsAtPath, [Next]_vars
               PROVE  ~taken' /\ SweepsAtPath'
    OBVIOUS
  <1> USE ProcsAssumption DEF Base, TypeOK, ProcTypes, DiskTypes, Procs, Goes, vars, diskVars,
                              sweepKeeps, Open, AtLock, SweepsAtPath, SweepsMeet
  <1>1. ASSUME NEW r \in Runs, RunStep(r) PROVE ~taken' /\ SweepsAtPath'
    <2>1. CASE OpenLock(r)
      BY <2>1 DEF OpenLock
    <2>2. CASE ~OpenLock(r)
      BY <1>1, <2>2 DEF RunStep, MakeDir, RecordCheckout, WaitLock, CheckLock, Link, Copy,
                        LinkPrivately
    <2> QED BY <2>1, <2>2
  <1>2. ASSUME NEW s \in Sweepers, SweepStep(s) PROVE ~taken' /\ SweepsAtPath'
    <2>1. CASE Choose(s)
      BY <2>1 DEF Choose
    <2>2. CASE RemoveLock(s)
      BY <2>2 DEF RemoveLock
    <2>3. CASE ~Choose(s) /\ ~RemoveLock(s)
      BY <1>2, <2>3 DEF SweepStep, ScanKey, ScanFiles, TryLock, Judge, RemoveBinary,
                        UnlockEvicted, CheckEmpty, RemoveCwd, RemoveDir
    <2> QED BY <2>1, <2>2, <2>3
  <1>3. ASSUME NEW p \in Procs, Crash(p) PROVE ~taken' /\ SweepsAtPath'
    BY <1>3 DEF Crash
  <1>4. CASE Ages \/ CheckoutMoves \/ UNCHANGED vars
    BY <1>4 DEF Ages, CheckoutMoves
  <1> QED BY <1>1, <1>2, <1>3, <1>4 DEF Next, Works, Disturbs, Ended

\* Nobody's lock file is removed but the sweep's own unless two sweeps are at
\* their lock files at once: with one sweeping process the cache keeps all it
\* promises.
THEOREM OnlyMeetingSweepsTake == Spec /\ []~SweepsMeet => []~taken
  <1>1. Init => SweepsAtPath /\ ~taken
    BY ProcsAssumption DEF Init, Found, SweepsAtPath, AtLock, Procs
  <1> QED
    BY <1>1, SweepsAtPathNext, BaseInit, BaseNext, PTL DEF Spec
=============================================================================
