------------------------------ MODULE Verdicts ------------------------------
(***************************************************************************)
(* The verdict index the JSON stream is written through and what an        *)
(* expired deadline books from it (internal/gotestrunner/census.go).       *)
(*                                                                         *)
(* Suite processes write their events: a suite starts, its methods start,  *)
(* wait for a parallel slot, go on, print a result line and get a verdict. *)
(* A process may end under its units, by itself or by the run's context;   *)
(* the converter then fails what it knows to be open.  The collector hands *)
(* on one suite's output at a time and closes it with endSuite.  The       *)
(* packages' verdicts beside them in the stream are Pipeline's: the two    *)
(* models share no state, only what is said of the stream.                 *)
(***************************************************************************)
EXTENDS Pipeline

CONSTANTS SuiteCount, MethodCount

ASSUME VerdictsAssumption == SuiteCount \in Nat /\ MethodCount \in Nat

\* A unit is a suite, <<s, 0>>, or one of its methods.
Units == (1..SuiteCount) \X (0..MethodCount)
SuiteOf(u) == <<u[1], 0>>
Nested(u) == u[2] # 0
NotYet == {<<0, 0>>}

VARIABLES
    writing,   \* the suite whose output is indexed; SuiteCount + 1 after all
    actual,    \* actual[u]: what u really did when the output ends
    last,      \* last[u]: the last verdict of u, "none" before any
    running,   \* units that run, by the index
    started,   \* units that started
    resulted, cut, waiting, ranNow, cutNow,
    deadline,  \* the run's deadline cut a suite short
    named      \* bookDeadline's answer, once it is given

verdictVars == <<writing, actual, last, running, started, resulted, cut,
                 waiting, ranNow, cutNow, deadline, named>>

IndexIn(first) ==
    /\ writing = first /\ actual = [u \in Units |-> "no"]
    /\ last = [u \in Units |-> "none"]
    /\ running = {} /\ started = {} /\ resulted = {} /\ cut = {}
    /\ waiting = {} /\ ranNow = {} /\ cutNow = {}
    /\ deadline = FALSE /\ named = NotYet

VerdictsInit == IndexIn(1)

Own == {u \in Units : u[1] = writing}
OpenUnits == {u \in Own : actual[u] \in {"running", "paused"}}

-----------------------------------------------------------------------------
(* observe *)

ObserveRun(u) ==
    /\ running' = running \cup {u} /\ ranNow' = ranNow \cup {u}
    /\ started' = started \cup {u}
    /\ resulted' = resulted \ {u} /\ waiting' = waiting \ {u}
    /\ UNCHANGED <<last, cut, cutNow>>

ObservePause(u) ==
    /\ waiting' = waiting \cup {u}
    /\ UNCHANGED <<last, running, started, resulted, cut, ranNow, cutNow>>

ObserveCont(u) ==
    /\ waiting' = waiting \ {u}
    /\ UNCHANGED <<last, running, started, resulted, cut, ranNow, cutNow>>

ObserveResultLine(u) ==
    /\ resulted' = resulted \cup {u}
    /\ UNCHANGED <<last, running, started, cut, waiting, ranNow, cutNow>>

\* A fail without a result line, of a unit that ran, is the converter's.
ObserveVerdicts(us, v) ==
    LET severed == IF v # "fail" THEN {}
                   ELSE {u \in us : u \in running /\ u \notin waiting \cup resulted} IN
    /\ last' = [u \in Units |-> IF u \in us THEN v ELSE last[u]]
    /\ cut' = cut \cup severed /\ cutNow' = cutNow \cup severed
    /\ running' = running \ us
    /\ UNCHANGED <<started, resulted, waiting, ranNow>>

EndSuite(byDeadline) ==
    /\ IF byDeadline THEN UNCHANGED <<running, waiting, cut>>
                   ELSE /\ running' = running \ ranNow
                        /\ waiting' = waiting \ ranNow
                        /\ cut' = cut \ cutNow
    /\ resulted' = resulted \ ranNow
    /\ ranNow' = {} /\ cutNow' = {}
    /\ UNCHANGED <<last, started>>

-----------------------------------------------------------------------------
(* The output of a suite process *)

Becomes(u, from, to) ==
    /\ writing <= SuiteCount /\ u \in Own
    /\ actual[u] \in from /\ actual' = [actual EXCEPT ![u] = to]
    /\ UNCHANGED <<writing, deadline, named>>

\* -count runs a unit again.
Starts(u) ==
    /\ Becomes(u, {"no", "over"}, "running") /\ ObserveRun(u)
    /\ Nested(u) => actual[SuiteOf(u)] = "running"

Pauses(u) == Nested(u) /\ Becomes(u, {"running"}, "paused") /\ ObservePause(u)

Goes(u) == Becomes(u, {"paused"}, "running") /\ ObserveCont(u)

\* The result line first, then the verdict (a skip is a pass here); a suite ends after its methods.
PrintsResult(u) ==
    /\ Becomes(u, {"running"}, "printed") /\ ObserveResultLine(u)
    /\ ~Nested(u) => OpenUnits = {u} /\ \A m \in Own : actual[m] # "printed"

Settles(u) ==
    \E v \in {"pass", "fail"} :
        Becomes(u, {"printed"}, "over") /\ ObserveVerdicts({u}, v)

\* The process ends under its units: the converter fails some of them.
EndsUnder ==
    /\ writing <= SuiteCount /\ OpenUnits # {}
    /\ \A u \in Own : actual[u] # "printed"
    /\ \E some \in SUBSET OpenUnits : ObserveVerdicts(some, "fail")
    /\ actual' = [u \in Units |-> IF u \notin OpenUnits THEN actual[u]
                                  ELSE IF actual[u] = "paused" THEN "left" ELSE "severed"]
    /\ UNCHANGED <<writing, deadline, named>>

\* recordResultLocked, once the process is gone: cut short by the deadline, or
\* ended by itself, whatever it left open.
SuiteRecorded(byDeadline) ==
    /\ writing <= SuiteCount /\ OpenUnits = {} /\ \A u \in Own : actual[u] # "printed"
    /\ ~deadline \/ byDeadline
    /\ EndSuite(byDeadline)
    /\ actual' = [u \in Units |-> IF u \in Own /\ ~byDeadline THEN "over" ELSE actual[u]]
    /\ deadline' = (deadline \/ byDeadline) /\ writing' = writing + 1
    /\ UNCHANGED named

-----------------------------------------------------------------------------
(* bookDeadline *)

Active(u) == u \in (running \cup cut) \ waiting
Busy == {SuiteOf(u) : u \in {m \in Units : Nested(m) /\ Active(m)}}
RunningUnits == {u \in started : Active(u) /\ u \notin Busy}

\* Each unit cut short fails, and its suite, and its package, whatever the
\* stream said of them.
BookDeadline ==
    /\ writing > SuiteCount /\ deadline /\ named = NotYet
    /\ named' = RunningUnits
    /\ LET failing == (RunningUnits \cap running) \cup {SuiteOf(u) : u \in {m \in RunningUnits : Nested(m)}} IN
       last' = [u \in Units |-> IF u \in failing THEN "fail" ELSE last[u]]
    /\ UNCHANGED <<writing, actual, running, started, resulted, cut, waiting,
                   ranNow, cutNow, deadline>>

VerdictsNext ==
    \/ \E u \in Units : Starts(u) \/ Pauses(u) \/ Goes(u) \/ PrintsResult(u) \/ Settles(u)
    \/ EndsUnder \/ (\E c \in BOOLEAN : SuiteRecorded(c)) \/ BookDeadline
    \/ writing > SuiteCount /\ (deadline => named # NotYet) /\ UNCHANGED verdictVars

VerdictsSpec == VerdictsInit /\ [][VerdictsNext]_verdictVars

-----------------------------------------------------------------------------
(* Properties *)

\* What an expired deadline names is what it cut: every method that was running
\* when its process was stopped, and a suite only when none of its methods was;
\* nothing that had its result, waited for a slot, or ended with a process no
\* deadline stopped.  All of it is failed in the stream, with its suite
\* (runningUnits, census.go:289; endSuite, :236; bookDeadline, :475).
CutUnitsNamed ==
    named # NotYet =>
        /\ named = {u \in Units : actual[u] = "severed" /\
                      (Nested(u) \/ \A m \in Units :
                          Nested(m) /\ SuiteOf(m) = u => actual[m] # "severed")}
        /\ \A u \in named : last[u] = "fail" /\ last[SuiteOf(u)] = "fail"

\* What is told of a run is what happened: each package is reported once and in
\* order whatever order its suites end in (output_collector.go:454), and the
\* units a deadline cut are named, those and no others (census.go:463).
StreamIsTrue == ReportedOnceInOrder /\ CutUnitsNamed
=============================================================================
