------------------------------- MODULE LintFix -------------------------------
(***************************************************************************)
(* gotest lint -fix (runLintInProcess, writeLintFixes): the passes run     *)
(* under the shutdown context, nothing is written before the last one, and *)
(* writing holds the second signal's exit off; and the passes themselves   *)
(* (lint.Fix, internal/lint/fix.go): the fixes the analysis suggests are   *)
(* applied in memory, pass after pass, and the packages a pass changed are *)
(* analysed again with those that import them.                             *)
(*                                                                         *)
(* A fix is numbered in the order the analysis lists it.  What edits do to *)
(* each other is the relation clash (mergeEdits finds a conflict); what    *)
(* does not compile is a set of fixes applied together (broken); a finding *)
(* may depend on a fix of its own package or of one it imports (after).    *)
(*                                                                         *)
(* What it writes is a set of files, all or none (internal/filewrite):     *)
(* every change is staged before the first is committed.  Changes are      *)
(* numbered in their order; a change reaches its file by a name of its own,*)
(* which may be a symbolic link, so target[n] is the file, named by the    *)
(* first change of it.                                                     *)
(***************************************************************************)
EXTENDS Naturals, Sequences, FiniteSets, Functions, Shutdown

CONSTANT NChanges   \* bound: how many changes a set has

ASSUME ChangesAssumption == NChanges \in Nat \ {0}

Changes == 1..NChanges

VARIABLES
    target,   \* target[n]: the file change n reaches
    agree,    \* changes of one file write the same contents
    disk,     \* disk[t]: "old", "new", or "torn" between the two
    temps,    \* the files with a replacement readied beside them
    staged,   \* the files staged and not written yet
    writer,   \* where Stage or Commit is
    stageAt,  \* the change Stage is at
    wrote,    \* the changes Commit returns
    failure   \* the error Stage or Commit returns

fileVars == <<target, agree, disk, temps, staged, writer, stageAt,
              wrote, failure>>

Targets == {t \in [Changes -> Changes] :
              \A n \in Changes : t[n] <= n /\ t[t[n]] = t[n]}

FileInit ==
    /\ target \in Targets /\ agree \in BOOLEAN
    /\ disk = [n \in Changes |-> "old"] /\ temps = {} /\ staged = <<>>
    /\ writer = "idle" /\ stageAt = 1 /\ wrote = {} /\ failure = "none"

NamesOf(t) == {n \in Changes : target[n] = t}

\* Every change is staged before the first file is written.
NextChange ==
    /\ writer' = IF stageAt = NChanges THEN "committing" ELSE "staging"
    /\ stageAt' = stageAt + 1

Staged(t) == \E i \in 1..Len(staged) : staged[i] = t

\* On an error what was readied is removed.
FailWith(err) ==
    /\ failure' = err /\ temps' = {} /\ staged' = <<>> /\ writer' = "done"
    /\ UNCHANGED stageAt

\* A change is refused (its file is gone, locked or changed since it was read,
\* its temporary file cannot be filled, another change of the file disagrees),
\* or its replacement is readied, or it will be written in place.
StageChange ==
    /\ writer = "staging"
    /\ LET t == target[stageAt] IN
         \/ FailWith("stage")
         \/ /\ ~Staged(t) /\ temps' \in {temps, temps \cup {t}}
            /\ staged' = Append(staged, t)
            /\ NextChange
            /\ UNCHANGED failure
         \/ /\ Staged(t) /\ agree
            /\ NextChange
            /\ UNCHANGED <<temps, staged, failure>>
    /\ UNCHANGED <<target, agree, disk, wrote>>

\* The file is written: the next one, or the end.
FileWritten(t) ==
    /\ disk' = [disk EXCEPT ![t] = "new"] /\ wrote' = wrote \cup NamesOf(t)
    /\ temps' = temps \ {t} /\ staged' = Tail(staged)
    /\ writer' = IF Len(staged) = 1 THEN "done" ELSE "committing"
    /\ UNCHANGED <<stageAt, failure>>

\* Renaming the replacement over the file works, fails, or is refused; then
\* the replacement is removed, and the file is written in place.
CommitRename ==
    /\ writer = "committing" /\ Head(staged) \in temps
    /\ LET t == Head(staged) IN
         \/ FileWritten(t)
         \/ FailWith("rename") /\ UNCHANGED <<disk, wrote>>
         \/ /\ failure' = "stuck" /\ temps' = {t} /\ staged' = <<>> /\ writer' = "done"
            /\ UNCHANGED <<disk, wrote, stageAt>>
         \/ temps' = temps \ {t} /\ UNCHANGED <<disk, wrote, staged, writer, stageAt, failure>>
    /\ UNCHANGED <<target, agree>>

\* The file does not open, or the write begins.
OpenInPlace ==
    /\ writer = "committing" /\ Head(staged) \notin temps
    /\ \/ FailWith("open") /\ UNCHANGED disk
       \/ /\ disk' = [disk EXCEPT ![Head(staged)] = "torn"] /\ writer' = "inplace"
          /\ UNCHANGED <<temps, staged, stageAt, failure>>
    /\ UNCHANGED <<target, agree, wrote>>

\* Mutant: a write that failed midway is not taken back.
WriteInPlace_NoRestore ==
    /\ writer = "inplace"
    /\ \/ FileWritten(Head(staged))
       \/ FailWith("write") /\ UNCHANGED <<disk, wrote>>
    /\ UNCHANGED <<target, agree>>

\* The write and the close work; the close fails; the write fails and the old
\* contents are put back, or that fails as well.
WriteInPlace ==
    /\ writer = "inplace"
    /\ LET t == Head(staged) IN
         \/ FileWritten(t)
         \/ FailWith("close") /\ disk' = [disk EXCEPT ![t] = "new"] /\ UNCHANGED wrote
         \/ FailWith("write") /\ disk' = [disk EXCEPT ![t] = "old"] /\ UNCHANGED wrote
         \/ FailWith("partly") /\ UNCHANGED <<disk, wrote>>
    /\ UNCHANGED <<target, agree>>

FileWrites == StageChange \/ CommitRename \/ OpenInPlace \/ WriteInPlace

------------------------------------------------------------------------------
(* The command *)

VARIABLES
    lint,      \* where runLintInProcess is
    lintTemp,  \* the directory of the load's temporary files: "none", "there",
               \* or "left" by a removal that gave up at its bound
    written,   \* the changes -fix wrote, for a second signal to name
    lastSaid,  \* what the second signal said was written, and where lint was
    lintCode   \* the exit code

lintVars == <<signalVars, fileVars, lint, lintTemp, written, lastSaid, lintCode>>

Silent == [of |-> {}, at |-> "none"]

LintIn(where) ==
    /\ FileInit
    /\ lint = where /\ lintTemp = "none" /\ written = {} /\ lastSaid = Silent /\ lintCode = 0

LintInit == ShutdownIn("no") /\ LintIn("make")

LintReturns(code) == lint' = "stop" /\ lintCode' = code

\* os.MkdirTemp fails, or the directory is there before a signal is caught.
LintMakes ==
    /\ Lives /\ lint = "make"
    /\ \/ lint' = "over" /\ lintCode' = 1 /\ exited' = "own" /\ UNCHANGED lintTemp
       \/ lint' = "catch" /\ lintTemp' = "there" /\ UNCHANGED <<exited, lintCode>>
    /\ UNCHANGED <<cancelled, again, stopper, further, hurry, runDone, forcedExit, late,
                   fileVars, written, lastSaid>>

LintCatches ==
    /\ Lives /\ lint = "catch" /\ lint' = "analyze"
    /\ UNCHANGED <<signalVars, fileVars, lintTemp, written, lastSaid, lintCode>>

\* No handler is there yet, or stop has let the first one go and the goroutine
\* has installed no other: the signal's default ends the process.
SignalUncaught ==
    /\ Lives
    /\ lint \in {"make", "catch"} \/ (runDone /\ stopper = "first")
    /\ exited' = "killed"
    /\ UNCHANGED <<cancelled, again, stopper, further, hurry, runDone, forcedExit, late,
                   fileVars, lint, lintTemp, written, lastSaid, lintCode>>

\* A pass: stopped, failed, or through.  With nothing to fix, and with -diff,
\* nothing is written.
LintPass ==
    /\ Lives /\ lint \in {"analyze", "fix"}
    /\ \/ cancelled /\ LintReturns(130)
       \/ ~cancelled /\ LintReturns(1)
       \/ /\ ~cancelled /\ UNCHANGED lintCode
          /\ \/ lint' = "report"
             \/ lint' = IF lint = "analyze" THEN "fix" ELSE "lock"
    /\ UNCHANGED <<signalVars, fileVars, lintTemp, written, lastSaid>>

\* writeLintFixes: no signal came before the lock, or nothing is written.
LintLocks ==
    /\ Lives /\ lint = "lock" /\ forcedExit = "free"
    /\ IF cancelled THEN /\ LintReturns(130)
                         /\ UNCHANGED <<forcedExit, writer>>
                    ELSE /\ lint' = "write" /\ forcedExit' = "run" /\ writer' = "staging"
                         /\ UNCHANGED lintCode
    /\ UNCHANGED <<cancelled, again, stopper, further, hurry,
                   runDone, exited, late, target, agree, disk, temps, staged,
                   stageAt, wrote, failure, lintTemp, written, lastSaid>>

LintWrites ==
    /\ Lives /\ lint = "write" /\ FileWrites
    /\ UNCHANGED <<signalVars, lint, lintTemp, written, lastSaid, lintCode>>

\* Everything is written, or stderr names what was and what was not.
LintWrote ==
    /\ Lives /\ lint = "write" /\ writer = "done"
    /\ written' = wrote
    /\ IF failure = "none" THEN lint' = "report" /\ UNCHANGED lintCode
                           ELSE LintReturns(1)
    /\ forcedExit' = "free"
    /\ UNCHANGED <<cancelled, again, stopper, further, hurry,
                   runDone, exited, late, fileVars, lintTemp, lastSaid>>

LintReports ==
    /\ Lives /\ lint = "report" /\ \E code \in {0, 1} : LintReturns(code)
    /\ UNCHANGED <<signalVars, fileVars, lintTemp, written, lastSaid>>

\* The deferred calls: stop, then removeLintTemp.
LintStops ==
    /\ lint = "stop" /\ lint' = "clean" /\ RunEnds
    /\ UNCHANGED <<fileVars, lintTemp, written, lastSaid, lintCode>>

\* removeLintTemp: compiles that go on may write into the directory until the
\* bound has passed.
RemoveTemp == lintTemp' \in {"none", IF lintTemp = "none" THEN "none" ELSE "left"}

LintCleans ==
    /\ Lives /\ lint = "clean" /\ lint' = "over" /\ RemoveTemp
    /\ UNCHANGED <<signalVars, fileVars, written, lastSaid, lintCode>>

LintExits ==
    /\ lint = "over" /\ OwnExit
    /\ UNCHANGED <<fileVars, lint, lintTemp, written, lastSaid, lintCode>>

\* The second signal's action: remove the directory, which may take a second,
\* and say what was written.
LastRemoves ==
    /\ StopperGoes("last", "asking") /\ RemoveTemp
    /\ UNCHANGED <<cancelled, again, further, hurry, runDone,
                   forcedExit, exited, late, fileVars, lint, written, lastSaid, lintCode>>

\* While the files are being written, written is still empty.
LastSays ==
    /\ StopperGoes("asking", "ending")
    /\ lastSaid' = [of |-> written, at |-> lint]
    /\ UNCHANGED <<cancelled, again, further, hurry, runDone,
                   forcedExit, exited, late, fileVars, lint, lintTemp, written,
                   lintCode>>

\* No stream is written here, so the exit's gate is free.
LintForcedExit ==
    /\ Lives /\ stopper = "gate" /\ ExitNow
    /\ UNCHANGED <<cancelled, again, stopper, further, hurry,
                   runDone, forcedExit, late, fileVars, lint, lintTemp, written,
                   lastSaid, lintCode>>

LintSignals ==
    /\ lint \notin {"make", "catch"}
    /\ Interrupted \/ StopperCode \/ FurtherSignal \/ WindowPasses \/ ForcedStop \/ LockExit
    /\ UNCHANGED <<fileVars, lint, lintTemp, written, lastSaid, lintCode>>

LintNext ==
    \/ LintMakes \/ LintCatches \/ SignalUncaught
    \/ LintPass \/ LintLocks \/ LintWrites \/ LintWrote \/ LintReports
    \/ LintStops \/ LintCleans \/ LintExits
    \/ LastRemoves \/ LastSays \/ LintForcedExit \/ LintSignals
    \/ ~Lives /\ UNCHANGED lintVars

LintSpec == LintInit /\ [][LintNext]_lintVars

-----------------------------------------------------------------------------
(* Properties *)

\* However lint -fix ends, by itself or by a second or third signal, the files
\* are as it says: a file is new exactly if it is named as written, all are if
\* nothing failed, none is torn unless it is named as partly written, and no
\* temporary file is left (Commit, filewrite.go:133; writeLintFixes,
\* lint.go:320).  A close that fails after the write, and a replacement that
\* can be neither renamed nor removed, are the exceptions.  What a second signal
\* says is what was written in the end, unless it speaks while the files are
\* written: then it says that nothing was (lint.go:246).  The load's directory
\* outlives neither an end nor a second signal, except a removal that gives up
\* and a signal that comes when nothing catches it (lint.go:235, :246, :562).
FixesAllOrNamed ==
    ~Lives =>
        /\ lintTemp = "there" => exited = "killed"
        /\ temps # {} => failure = "stuck"
        /\ \A n \in Changes :
              /\ disk[target[n]] = "torn" => failure = "partly"
              /\ n \in written => disk[target[n]] = "new"
              /\ disk[target[n]] = "new" => n \in written \/ failure = "close"
        /\ written # {} /\ failure = "none" => written = Changes
        /\ lastSaid.at = "write" => lastSaid.of = {}
        /\ lastSaid.at \notin {"none", "write"} => lastSaid.of = written

------------------------------------------------------------------------------
(* The passes *)

CONSTANTS
    NFixes,        \* bound: how many fixes there are
    FixPassBound,  \* fixPasses
    Packages,      \* the target packages
    Imports,       \* Imports[p]: the packages p imports
    Home           \* Home[f]: the package fix f edits

Fixes == 1..NFixes

ASSUME FixAssumption ==
    /\ NFixes \in Nat /\ FixPassBound \in Nat
    /\ Home \in [Fixes -> Packages] /\ Imports \in [Packages -> SUBSET Packages]

VARIABLES
    fixKey,     \* fixKey[f]: what names the fix across passes
    clash,      \* the pairs of fixes whose edits conflict
    broken,     \* the sets of fixes that do not compile together
    after,      \* after[f]: the fix that reveals f, 0 if f is there at once
    refusing,   \* the fixes that cannot rename every reference
    findings,      \* findings[p]: the findings of the last analysis of p
    applied,    \* the fixes in f.current
    dropped,    \* dropped[k]: fixes of key k that were not applied
    unapplied,  \* the fixes named as not applied
    fixPass,    \* passes made
    fixing      \* "pass", "done" or "failed"

fixVars == <<fixKey, clash, broken, after, refusing, findings, applied, dropped,
             unapplied, fixPass, fixing>>

\* The packages whose types p's findings rest on.
ImportsOf(ps) == ps \cup UNION {Imports[p] : p \in ps}
Reach(p) == ImportsOf(ImportsOf(ImportsOf({p})))

\* The analyzer, external: what it finds in p.
Analyse(p, done) ==
    {f \in Fixes : Home[f] = p /\ f \notin done /\ (after[f] = 0 \/ after[f] \in done)}

FixIn(where) ==
    /\ fixKey \in {[f \in Fixes |-> f], [f \in Fixes |-> f % 2]}
    /\ clash \in {{}} \cup {{{f, g}} : f, g \in Fixes}
    /\ broken \in {{}} \cup {{b} : b \in {{f, g} : f, g \in Fixes}}
    /\ \E f \in Fixes :
       \E g \in {0} \cup {h \in Fixes \ {f} : Home[h] \in Reach(Home[f])} :
          after = [x \in Fixes |-> IF x = f THEN g ELSE 0]
    /\ refusing \in {{}, {1}}
    /\ applied = {} /\ findings = [p \in Packages |-> Analyse(p, {})]
    /\ dropped = [k \in 0..NFixes |-> 0] /\ unapplied = {}
    /\ fixPass = 0 /\ fixing = where

FixInit == FixIn("pass")

\* load: the targets compile with these fixes.
Compile(fs) == \A b \in broken : ~(b \subseteq fs)

\* collect: each fix in order, unless as many of its key were dropped before,
\* in this pass too, it cannot rename every reference, or it conflicts with one
\* before it.
CollectOne(acc, f) ==
    LET k == fixKey[f] IN
    IF acc.skipped[k] < acc.dropped[k]
      THEN [acc EXCEPT !.skipped[k] = @ + 1]
    ELSE IF f \in refusing
      THEN [acc EXCEPT !.refused = @ \cup {f}, !.dropped[k] = @ + 1]
    ELSE IF \E i \in 1..Len(acc.fixes) : {f, acc.fixes[i]} \in clash /\ f # acc.fixes[i]
      THEN acc
    ELSE [acc EXCEPT !.fixes = Append(@, f)]

NoneCollected ==
    [fixes |-> <<>>, refused |-> {}, skipped |-> [k \in 0..NFixes |-> 0], dropped |-> dropped]

Collect ==
    LET found == UNION {findings[p] : p \in Packages}
        collected[f \in 0..NFixes] ==
            IF f = 0 THEN NoneCollected
            ELSE IF f \in found THEN CollectOne(collected[f - 1], f)
            ELSE collected[f - 1]
    IN collected[NFixes]

\* settle: the group with what is accepted; if that does not compile, its
\* halves, settled as halves says; a fix alone is dropped.
SettleWith(halves, accepted, group) ==
    IF Compile(applied \cup accepted \cup Range(group))
      THEN [kept |-> accepted \cup Range(group), dropped |-> {}]
    ELSE IF Len(group) = 1 THEN [kept |-> accepted, dropped |-> Range(group)]
    ELSE LET mid == Len(group) \div 2
             first == halves[<<accepted, SubSeq(group, 1, mid)>>]
             second == halves[<<first.kept, SubSeq(group, mid + 1, Len(group))>>]
         IN  [kept |-> second.kept, dropped |-> first.dropped \cup second.dropped]

\* settled[n] settles groups of up to n fixes.
Settle(accepted, group) ==
    LET settled[n \in 0..NFixes] ==
            [q \in (SUBSET Fixes) \X Seq(Fixes) |->
                IF n = 0 \/ q[2] = <<>> THEN [kept |-> q[1], dropped |-> {}]
                ELSE SettleWith(settled[n - 1], q[1], q[2])]
    IN settled[Len(group)][<<accepted, group>>]

\* Mutant: only the packages edited are analysed again.
Affected_Edited(ps) == ps

\* affectedPatterns: the packages edited and, as long as there are more, those
\* that import them.
Affected(ps) == {p \in Packages : Reach(p) \cap ps # {}}

\* One pass.  Targets that affectedPatterns cannot name are all analysed
\* again; a load that fails otherwise ends the fixing, with no changes.
FixOnePass ==
    /\ fixing = "pass"
    /\ LET p == Collect
           s == Settle({}, p.fixes)
           gone == p.refused \cup s.dropped
           over == \/ fixPass = FixPassBound
                   \/ \A q \in Packages : findings[q] = {}
       IN
         \/ ~over /\ fixing' = "failed" /\ applied' = {}
            /\ UNCHANGED <<findings, dropped, unapplied, fixPass>>
         \/ over /\ fixing' = "done" /\ UNCHANGED <<findings, applied, dropped, unapplied, fixPass>>
         \/ /\ ~over
            /\ unapplied' = unapplied \cup gone
            /\ dropped' = [k \in 0..NFixes |->
                             p.dropped[k] + Cardinality({f \in s.dropped : fixKey[f] = k})]
            /\ applied' = applied \cup s.kept
            /\ fixPass' = fixPass + 1
            /\ IF s.kept = {} THEN fixing' = "done" /\ UNCHANGED findings
               ELSE /\ UNCHANGED fixing
                    /\ \E ps \in {Packages, Affected({Home[f] : f \in s.kept})} :
                         findings' = [q \in Packages |->
                                     IF q \in ps THEN Analyse(q, applied') ELSE findings[q]]
    /\ UNCHANGED <<fixKey, clash, broken, after, refusing>>

FixNext == FixOnePass \/ (fixing # "pass" /\ UNCHANGED fixVars)

FixSpec == FixInit /\ [][FixNext]_fixVars

-----------------------------------------------------------------------------
(* Properties *)

\* The fixed sources compile, whichever fixes break each other; the findings
\* kept from earlier passes are those a full analysis would make; and once
\* fixing is over every finding left is one a person is told of: named as not
\* applied, or cut off by the bound, by a conflict or by a fix of its key that
\* was dropped before it (Fix, fix.go:65; settle, fix.go:105; reanalyze,
\* fix.go:264).
FixesSettle ==
    /\ Compile(applied)
    /\ fixing # "failed" => \A p \in Packages : findings[p] = Analyse(p, applied)
    /\ fixing = "done" =>
         \A p \in Packages : \A f \in findings[p] :
             \/ f \in unapplied \/ fixPass = FixPassBound
             \/ \E g \in Fixes : {f, g} \in clash
             \/ \E g \in unapplied : fixKey[g] = fixKey[f]

\* gotest lint -fix can be trusted with the files: the fixes settle on what a
\* fresh analysis finds, and what is written is all there or named
\* (fix.go:101, filewrite.go:133).
LintFixIsSafe == FixesSettle /\ FixesAllOrNamed
=============================================================================
