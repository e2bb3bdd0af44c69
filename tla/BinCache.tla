------------------------------ MODULE BinCache ------------------------------
(***************************************************************************)
(* The test binary cache (internal/gotestrunner: bincache.go,              *)
(* bincache_evict.go, bincache_lock_unix.go) and compilePackage's use of   *)
(* it (compile.go), as concurrent gotest processes see one cached binary.  *)
(*                                                                         *)
(* A run makes the key directory, opens and locks the binary's lock file,  *)
(* links into the cache and copies the result into its own work directory. *)
(* A sweep scans the key and then evicts under the lock it takes without   *)
(* waiting.  Every gotest process sweeps once and then compiles; here each *)
(* half is a process of its own, so all interleavings of the two are seen, *)
(* and nothing keeps the sweeps of several processes apart.                *)
(*                                                                         *)
(* The lock file is its inode: a number made on creation, so a path that   *)
(* names another file, or none, is told apart from the file a process      *)
(* opened.  flock belongs to the open file and ends with its process.      *)
(* Times are abstracted to the binary's modification stamp and to what has *)
(* been touched within cacheMaxAge.                                        *)
(***************************************************************************)
EXTENDS Integers

CONSTANTS
    Runs,       \* the processes that compile the package
    Sweepers    \* the processes that sweep the cache

ASSUME ProcsAssumption == Runs \cap Sweepers = {}

Procs == Runs \cup Sweepers

VARIABLES
    pc,         \* pc[p]: where process p is
    file,       \* file[p]: the inode of the lock file p has open; 0 for none
    holds,      \* the processes that hold the flock of their open file
    dir,        \* the key directory exists
    cwdFile,    \* its .cwd exists
    checkout,   \* the checkout the key was made for exists
    lockAt,     \* the inode the lock path names; 0 for none
    made,       \* lock file inodes made so far
    bin,        \* the cached binary's modification stamp; 0 for none
    stamps,     \* modification stamps given so far
    fresh,      \* what was touched within cacheMaxAge: "bin", "dir"
    scan,       \* scan[s]: what sweep s has read of the key
    taken       \* history: a sweep removed a lock file it had not locked

diskVars == <<dir, cwdFile, lockAt, made, bin, stamps, fresh>>
vars     == <<pc, file, holds, diskVars, checkout, scan, taken>>

\* What scanKeys reads: the binary's stamp, an orphan lock file, the two ages,
\* and whether the recorded checkout is gone.
Scan == [bin : Nat, lock : BOOLEAN, binOld : BOOLEAN, dirOld : BOOLEAN,
         gone : BOOLEAN, emptied : BOOLEAN]
NoScan == [bin |-> 0, lock |-> FALSE, binOld |-> FALSE, dirOld |-> FALSE,
           gone |-> FALSE, emptied |-> FALSE]

RunSteps   == {"start", "record", "open", "wait", "check", "linking",
               "copying", "private", "done", "failed", "broken"}
SweepSteps == {"key", "files", "choose", "try", "judge", "remove", "removeLock",
               "unlock", "empty", "removeCwd", "removeDir", "swept"}

ProcTypes ==
    /\ pc \in [Procs -> RunSteps \cup SweepSteps \cup {"dead"}]
    /\ \A r \in Runs : pc[r] \notin SweepSteps
    /\ \A s \in Sweepers : pc[s] \notin RunSteps
    /\ file \in [Procs -> Nat] /\ holds \subseteq Procs
    /\ scan \in [Sweepers -> Scan] /\ taken \in BOOLEAN

\* What is on disk: files exist only in an existing directory.
DiskTypes ==
    /\ dir \in BOOLEAN /\ cwdFile \in BOOLEAN /\ checkout \in BOOLEAN
    /\ lockAt \in Nat /\ made \in Nat /\ bin \in Nat /\ stamps \in Nat
    /\ fresh \subseteq {"bin", "dir"}
    /\ lockAt <= made /\ bin <= stamps
    /\ ~dir => lockAt = 0 /\ bin = 0 /\ ~cwdFile

TypeOK == ProcTypes /\ DiskTypes

\* The cache is empty, holds the binary with its lock file, or a lock file a
\* failed compile left; nothing of it need be recent, nor record a checkout.
Found ==
    /\ file = [p \in Procs |-> 0] /\ holds = {}
    /\ checkout \in BOOLEAN /\ dir \in BOOLEAN
    /\ lockAt \in (IF dir THEN {0, 1} ELSE {0})
    /\ bin \in (IF lockAt = 1 THEN {0, 1} ELSE {0})
    /\ cwdFile \in (IF dir THEN BOOLEAN ELSE {FALSE})
    /\ made = 1 /\ stamps = 1
    /\ fresh \in SUBSET {"bin", "dir"}
    /\ scan = [s \in Sweepers |-> NoScan] /\ taken = FALSE

Init == Found /\ pc = [p \in Procs |-> IF p \in Runs THEN "start" ELSE "key"]

Goes(p, step) == pc' = [pc EXCEPT ![p] = step]

\* flock on the open file: nobody else holds that inode's.
Free(i) == ~ \E q \in holds : file[q] = i

Lock(p)   == Free(file[p]) /\ holds' = holds \cup {p}
Unlock(p) == holds' = holds \ {p}

\* open(path, O_CREATE|O_RDWR), in a directory that exists.
Open(p) ==
    /\ dir
    /\ IF lockAt # 0
         THEN UNCHANGED <<lockAt, made, fresh>> /\ file' = [file EXCEPT ![p] = lockAt]
         ELSE /\ made' = made + 1 /\ lockAt' = made'
              /\ file' = [file EXCEPT ![p] = made']
              /\ fresh' = fresh \cup {"dir"}
    /\ UNCHANGED <<dir, cwdFile, bin, stamps>>

-----------------------------------------------------------------------------
(* A run: binaryCacheDir, then compilePackage.                             *)

MakeDir(r) ==
    /\ pc[r] = "start"
    /\ dir' = TRUE /\ fresh' = fresh \cup {"dir"}
    /\ Goes(r, "record")
    /\ UNCHANGED <<file, holds, cwdFile, lockAt, made, bin, stamps, checkout, scan, taken>>

\* recordCheckout, through a renamed temp file; a directory removed meanwhile
\* takes none.
RecordCheckout(r) ==
    /\ pc[r] = "record"
    /\ cwdFile' = dir
    /\ fresh' = IF dir /\ ~cwdFile THEN fresh \cup {"dir"} ELSE fresh
    /\ Goes(r, "open")
    /\ UNCHANGED <<file, holds, dir, lockAt, made, bin, stamps, checkout, scan, taken>>

\* lockFile opens the lock file; one it cannot open leaves the cache out.
OpenLock(r) ==
    /\ pc[r] = "open"
    /\ \/ Open(r) /\ Goes(r, "wait")
       \/ ~dir /\ Goes(r, "private") /\ UNCHANGED <<file, diskVars>>
    /\ UNCHANGED <<holds, checkout, scan, taken>>

\* flock(LOCK_EX)
WaitLock(r) ==
    /\ pc[r] = "wait" /\ Lock(r)
    /\ Goes(r, "check")
    /\ UNCHANGED <<file, diskVars, checkout, scan, taken>>

\* Mutant: a replaced lock file is not noticed.
CheckLock_NoStillAt(r) ==
    /\ pc[r] = "check"
    /\ Goes(r, "linking")
    /\ UNCHANGED <<file, holds, diskVars, checkout, scan, taken>>

\* Mutant: a lock refused as replaced stays held.
CheckLock_KeepsLock(r) ==
    /\ pc[r] = "check"
    /\ Goes(r, IF file[r] = lockAt THEN "linking" ELSE "private")
    /\ UNCHANGED <<file, holds, diskVars, checkout, scan, taken>>

\* stillAt: a lock on a file no longer at its path is refused
\* (errLockReplaced), and the cache is left out.
CheckLock(r) ==
    /\ pc[r] = "check"
    /\ IF file[r] = lockAt
         THEN Goes(r, "linking") /\ UNCHANGED holds
         ELSE Goes(r, "private") /\ Unlock(r)
    /\ UNCHANGED <<file, diskVars, checkout, scan, taken>>

\* go writes its output: the binary is relinked, or touched when it is up to
\* date, and its directory made if need be.
WritesOutput ==
    /\ dir' = TRUE
    /\ stamps' = stamps + 1 /\ bin' = stamps'
    /\ fresh' = fresh \cup {"bin", "dir"}

\* go test -c -o the cached path; the compile may fail, or be cancelled.
Link(r) ==
    /\ pc[r] = "linking"
    /\ \/ WritesOutput /\ Goes(r, "copying") /\ UNCHANGED holds
       \/ Goes(r, "failed") /\ Unlock(r) /\ UNCHANGED <<dir, bin, stamps, fresh>>
    /\ UNCHANGED <<file, cwdFile, lockAt, made, checkout, scan, taken>>

\* copyFile into the run's own work directory, then the deferred unlock.
Copy(r) ==
    /\ pc[r] = "copying"
    /\ Goes(r, IF bin # 0 THEN "done" ELSE "broken")
    /\ Unlock(r)
    /\ UNCHANGED <<file, diskVars, checkout, scan, taken>>

\* Without the cache the link goes straight to the run's work directory.
LinkPrivately(r) ==
    /\ pc[r] = "private"
    /\ Goes(r, "done") \/ Goes(r, "failed")
    /\ UNCHANGED <<file, holds, diskVars, checkout, scan, taken>>

-----------------------------------------------------------------------------
(* A sweep: sweepBinaryCache on this key.                                  *)

sweepKeeps == <<dir, cwdFile, lockAt, made, bin, stamps, fresh, checkout, taken>>

\* scanKeys reads the directory's age and its .cwd first.
ScanKey(s) ==
    /\ pc[s] = "key"
    /\ Goes(s, IF dir THEN "files" ELSE "swept")
    /\ scan' = [scan EXCEPT ![s].gone = cwdFile /\ ~checkout,
                            ![s].dirOld = "dir" \notin fresh]
    /\ UNCHANGED <<file, holds, sweepKeeps>>

\* Then its files: the binary, or a lock file left without it.
ScanFiles(s) ==
    /\ pc[s] = "files"
    /\ Goes(s, IF dir THEN "choose" ELSE "swept")
    /\ scan' = [scan EXCEPT ![s].bin = bin,
                            ![s].binOld = "bin" \notin fresh,
                            ![s].lock = (lockAt # 0 /\ bin = 0)]
    /\ UNCHANGED <<file, holds, sweepKeeps>>

\* The binary goes when its checkout is gone or it is old, and may go to the
\* size cap; an orphan lock file when the key is gone or old.
Evicts(s) == scan[s].bin # 0
Must(s) ==
    \/ scan[s].bin # 0 /\ (scan[s].gone \/ scan[s].binOld)
    \/ scan[s].lock /\ (scan[s].gone \/ scan[s].dirOld)

\* tryLockFile opens the lock file, creating it.
Choose(s) ==
    /\ pc[s] = "choose"
    /\ \/ (Must(s) \/ Evicts(s)) /\ Open(s) /\ Goes(s, "try")
       \/ (~Must(s) \/ ~dir) /\ Goes(s, "empty") /\ UNCHANGED <<file, diskVars>>
    /\ UNCHANGED <<holds, checkout, scan, taken>>

\* flock(LOCK_EX|LOCK_NB): a lock someone holds is left alone.  Whether the path
\* still names the file is not looked at.
TryLock(s) ==
    /\ pc[s] = "try"
    /\ \/ Lock(s) /\ Goes(s, "judge")
       \/ ~Free(file[s]) /\ Goes(s, "empty") /\ UNCHANGED holds
    /\ UNCHANGED <<file, scan, sweepKeeps>>

\* Mutant: evictBinary does not compare the modification time again.
Judge_NoRecheck(s) ==
    /\ pc[s] = "judge"
    /\ Goes(s, IF Evicts(s) THEN (IF bin # 0 THEN "remove" ELSE "unlock")
                            ELSE (IF bin = 0 THEN "removeLock" ELSE "unlock"))
    /\ UNCHANGED <<file, holds, scan, sweepKeeps>>

\* evictBinary: a binary used since the scan stays.  evictLock: so does a lock
\* file whose binary is there by now.
Judge(s) ==
    /\ pc[s] = "judge"
    /\ Goes(s, IF Evicts(s) THEN (IF bin = scan[s].bin THEN "remove" ELSE "unlock")
                            ELSE (IF bin = 0 THEN "removeLock" ELSE "unlock"))
    /\ UNCHANGED <<file, holds, scan, sweepKeeps>>

RemoveBinary(s) ==
    /\ pc[s] = "remove"
    /\ IF bin # 0
         THEN /\ bin' = 0 /\ fresh' = fresh \cup {"dir"}
              /\ scan' = [scan EXCEPT ![s].emptied = TRUE]
              /\ Goes(s, "removeLock")
         ELSE Goes(s, "unlock") /\ UNCHANGED <<bin, fresh, scan>>
    /\ UNCHANGED <<file, holds, dir, cwdFile, lockAt, made, stamps, checkout, taken>>

\* releaseEvicted: whatever file the lock path names is removed while the sweep
\* holds the lock of the one it opened.
RemoveLock(s) ==
    /\ pc[s] = "removeLock"
    /\ lockAt' = 0
    /\ taken' = (taken \/ (lockAt # 0 /\ lockAt # file[s]))
    /\ fresh' = IF lockAt # 0 THEN fresh \cup {"dir"} ELSE fresh
    /\ Goes(s, "unlock")
    /\ UNCHANGED <<file, holds, dir, cwdFile, made, bin, stamps, checkout, scan>>

UnlockEvicted(s) ==
    /\ pc[s] = "unlock" /\ Unlock(s)
    /\ Goes(s, "empty")
    /\ UNCHANGED <<file, scan, sweepKeeps>>

\* removeEmptyKey, for a key gone, old or emptied: no binary and no lock file.
CheckEmpty(s) ==
    /\ pc[s] = "empty"
    /\ LET due == scan[s].gone \/ scan[s].dirOld \/ scan[s].emptied
       IN  Goes(s, IF due /\ dir /\ bin = 0 /\ lockAt = 0 THEN "removeCwd" ELSE "swept")
    /\ UNCHANGED <<file, holds, scan, sweepKeeps>>

RemoveCwd(s) ==
    /\ pc[s] = "removeCwd"
    /\ cwdFile' = FALSE
    /\ fresh' = IF cwdFile THEN fresh \cup {"dir"} ELSE fresh
    /\ Goes(s, "removeDir")
    /\ UNCHANGED <<file, holds, dir, lockAt, made, bin, stamps, checkout, scan, taken>>

\* Mutant: the directory is removed with what it holds.
RemoveDir_All(s) ==
    /\ pc[s] = "removeDir"
    /\ dir' = FALSE /\ cwdFile' = FALSE /\ lockAt' = 0 /\ bin' = 0
    /\ Goes(s, "swept")
    /\ UNCHANGED <<file, holds, made, stamps, fresh, checkout, scan, taken>>

\* os.Remove of a directory: refused unless it is empty.
RemoveDir(s) ==
    /\ pc[s] = "removeDir"
    /\ dir' = (dir /\ (cwdFile \/ lockAt # 0 \/ bin # 0))
    /\ Goes(s, "swept")
    /\ UNCHANGED <<file, holds, cwdFile, lockAt, made, bin, stamps, fresh, checkout, scan, taken>>

-----------------------------------------------------------------------------
(* What the system does around them.                                       *)

Over(p) == pc[p] \in {"done", "failed", "broken", "swept", "dead"}

\* A process is killed: the kernel drops its flock.  A link cut short may have
\* written the output or not.
Crash(p) ==
    /\ ~Over(p)
    /\ Goes(p, "dead") /\ Unlock(p)
    /\ UNCHANGED <<dir, bin, stamps, fresh>> \/ (pc[p] = "linking" /\ WritesOutput)
    /\ UNCHANGED <<file, cwdFile, lockAt, made, checkout, scan, taken>>

\* cacheMaxAge passes.
Ages ==
    /\ fresh # {} /\ fresh' = {}
    /\ UNCHANGED <<pc, file, holds, dir, cwdFile, lockAt, made, bin, stamps, checkout, scan, taken>>

\* The checkout is deleted, or made again.
CheckoutMoves ==
    /\ checkout' = ~checkout
    /\ UNCHANGED <<pc, file, holds, diskVars, scan, taken>>

RunStep(r) ==
    \/ MakeDir(r) \/ RecordCheckout(r) \/ OpenLock(r) \/ WaitLock(r)
    \/ CheckLock(r) \/ Link(r) \/ Copy(r) \/ LinkPrivately(r)

SweepStep(s) ==
    \/ ScanKey(s) \/ ScanFiles(s) \/ Choose(s) \/ TryLock(s) \/ Judge(s)
    \/ RemoveBinary(s) \/ RemoveLock(s) \/ UnlockEvicted(s)
    \/ CheckEmpty(s) \/ RemoveCwd(s) \/ RemoveDir(s)

Ended == (\A p \in Procs : Over(p)) /\ UNCHANGED vars

\* What the processes do by themselves, and what happens to them.
Works ==
    \/ \E r \in Runs : RunStep(r)
    \/ \E s \in Sweepers : SweepStep(s)
    \/ Ended

Disturbs == (\E p \in Procs : Crash(p)) \/ Ages \/ CheckoutMoves

Next == Works \/ Disturbs

Spec == Init /\ [][Next]_vars

\* Every process is scheduled, and a lock that stays free is taken.
CacheFairness ==
    /\ \A r \in Runs : WF_vars(RunStep(r))
    /\ \A s \in Sweepers : WF_vars(SweepStep(s))
FairSpec == Spec /\ CacheFairness

-----------------------------------------------------------------------------
(* Properties.                                                             *)

\* The comment over binaryCacheKey: "The link runs under a per-binary lock so
\* two runs cannot write one output at once."  Neither does one run copy what
\* another writes.
LinksAlone ==
    \A r, q \in Runs :
        r # q /\ pc[r] = "linking" => pc[q] \notin {"linking", "copying"}

\* Links are alone until a sweep removes a lock file it had not locked: one that
\* opened an orphan lock file, and locked it once another sweep had removed it,
\* removes the file a run has made and locked meanwhile (evictLock).
LinksAloneUntilTaken == taken \/ LinksAlone

\* The cache is only an optimization: no compile fails for it.  A run let into
\* the cache still finds the binary it linked when it copies it, until a lock
\* file was taken from another.
CacheServes == \A r \in Runs : pc[r] # "broken"
ServesUntilTaken == taken \/ CacheServes

\* A sweep evicts no binary a run links or copies, nor one used since the scan
\* that found it old, until a lock file was taken from another.
EvictsOnlyUnused ==
    [][bin # 0 /\ bin' = 0 /\ ~taken =>
          /\ \A r \in Runs : pc[r] \notin {"linking", "copying"}
          /\ \E s \in Sweepers : pc[s] = "remove" /\ bin = scan[s].bin]_vars

\* Every compile ends, whoever holds the lock, removes its file or is killed
\* holding it.
RunsEnd == <>(\A r \in Runs : Over(r))

\* The steps between taking a flock and giving it up.
HoldSteps == {"check", "linking", "copying", "judge", "remove", "removeLock", "unlock"}

\* No error path keeps a lock and none works without it: the flock is held in
\* exactly those steps, and one process at a time holds one file's.
LocksAccounted ==
    /\ \A p \in Procs : p \in holds <=> pc[p] \in HoldSteps
    /\ \A p, q \in holds : file[p] = file[q] => p = q

\* The strengthening under which the first two are inductive as long as no lock
\* file was taken.

\* A run let into the cache has the file the lock path names.
RunsAtPath ==
    \A r \in Runs : pc[r] \in {"linking", "copying"} => lockAt # 0 /\ file[r] = lockAt

\* The binary a run linked is there until the run has copied it.
CopyHasBinary == \A r \in Runs : pc[r] = "copying" => bin # 0

\* Between opening its lock file and giving it up a process has a file that was
\* made before.
FilesMade ==
    \A p \in Procs :
        /\ file[p] <= made
        /\ pc[p] \in {"wait", "check", "try", "judge", "remove", "removeLock"} => file[p] # 0

\* A sweep may hold the lock of a file that is gone.  As long as the binary is
\* the one it scanned it holds the one at the path: whoever removed that file
\* removed the binary first.
SweepsOwn ==
    \A s \in Sweepers :
        /\ scan[s].bin <= stamps
        /\ pc[s] \in {"try", "judge", "remove"} /\ Evicts(s) /\ bin = scan[s].bin => file[s] = lockAt
        /\ pc[s] = "remove" => Evicts(s) /\ bin = scan[s].bin
        /\ pc[s] = "removeLock" /\ file[s] = lockAt => bin = 0

AtPath == FilesMade /\ RunsAtPath /\ SweepsOwn /\ CopyHasBinary /\ CacheServes
AtPathUntilTaken == taken \/ AtPath
=============================================================================
