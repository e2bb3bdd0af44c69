---------------------------- MODULE MCStopWatch ----------------------------
(* One suite binds a fixture and its dependency, another binds none.  The   *)
(* process runs under the runner, one method at a time, as the constants    *)
(* say; or under plain go test, with two methods at once and a signal more. *)
EXTENDS StopWatch, TLC

CONSTANTS db, api, m1, m2

MCOrder == <<db, api>>
MCDependsOn == (db :> <<>>) @@ (api :> <<db>>)

VARIABLE setting   \* as the constants say, or under plain go test

Plain == INSTANCE StopWatch
            WITH Binding <- {1}, Methods <- {m1, m2}, Parallel <- TRUE,
                 Runner <- FALSE, MaxSignals <- 3

mcVars == <<vars, setting>>

GivenInit == setting = "given" /\ Init
GivenNext == setting = "given" /\ Next /\ UNCHANGED setting
PlainInit  == setting = "go test" /\ Plain!Init
PlainNext  == setting = "go test" /\ Plain!Next /\ UNCHANGED setting

\* The fairness of StopWatch, in whichever of the two settings.
Either(given, plain) == (setting = "given" /\ given) \/ (setting = "go test" /\ plain)
MCFairness ==
    /\ WF_mcVars(Either(MainCode, Plain!MainCode) /\ UNCHANGED setting)
    /\ WF_mcVars(Either(GraphCode, Plain!GraphCode) /\ UNCHANGED setting)
    /\ WF_mcVars(Either(WatchCode, Plain!WatchCode) /\ UNCHANGED setting)
    /\ WF_mcVars(Either(Poll, Plain!Poll) /\ UNCHANGED setting)
    /\ SF_mcVars(Either(Clock, Plain!Clock) /\ UNCHANGED setting)

MCSpec == (GivenInit \/ PlainInit) /\ [][GivenNext \/ PlainNext]_mcVars /\ MCFairness

\* The process as the constants say, alone.
GivenSpec == GivenInit /\ [][GivenNext]_mcVars /\ Fairness
=============================================================================
