---------------------------- MODULE MCFixtureDAG ----------------------------
(* Model checking of what a test process sets up and of what its binary     *)
(* comes from, which share no state: each behaviour runs one of the two.    *)
(*                                                                          *)
(* The graph: a package fixture api on a package fixture db; an independent *)
(* fixture cache, a shared node bus the process hydrates, and a shared node *)
(* peer of a sibling suite that the state file does not name.               *)
(*                                                                          *)
(* The binary cache: two runs beside one sweep, of which all but r1 may be  *)
(* killed, with passing weeks and a checkout that is deleted; or beside two *)
(* sweeps that both found an orphan lock file, and left to themselves.      *)
EXTENDS FixtureDAG, BinCache, TLC

CONSTANTS db, api, cache, bus, peer, r1, s1

MCOrder == <<bus, peer, db, api, cache>>
MCDependsOn == (bus :> <<>>) @@ (peer :> <<>>) @@ (db :> <<>>)
               @@ (api :> <<db, bus>>) @@ (cache :> <<>>)
ThreeOrder == <<db, api, cache>>
ThreeDependsOn == (db :> <<>>) @@ (api :> <<db>>) @@ (cache :> <<>>)

VARIABLE part   \* what this behaviour runs: the graph, one sweep or two

\* No process uses the cache; only s1 sweeps, of the sweepers; or both do, and
\* have read of an old key a lock file that a failed compile left.
NoProcs ==
    /\ Found /\ pc = [p \in Procs |-> "dead"]
    /\ checkout /\ ~dir /\ fresh = {}
OneSweep ==
    Found /\ pc = [p \in Procs |-> IF p \in Runs THEN "start" ELSE IF p = s1 THEN "key" ELSE "swept"]
TwoSweeps ==
    /\ pc = [p \in Procs |-> IF p \in Runs THEN "start" ELSE "choose"]
    /\ file = [p \in Procs |-> 0] /\ holds = {}
    /\ dir = TRUE /\ cwdFile = TRUE /\ checkout = TRUE
    /\ lockAt = 1 /\ made = 1 /\ bin = 0 /\ stamps = 1
    /\ fresh = {} /\ taken = FALSE
    /\ scan = [s \in Sweepers |-> [NoScan EXCEPT !.lock = TRUE, !.binOld = TRUE, !.dirOld = TRUE]]

mcVars == <<dagVars, vars, part>>

GraphInit == part = "graph" /\ DagInit /\ NoProcs
GraphNext == part = "graph" /\ DagNext /\ UNCHANGED <<vars, part>>

SweepsInit == part = "sweeps" /\ DagInit /\ TwoSweeps
CacheInit  == (part = "sweep" /\ DagInit /\ OneSweep) \/ SweepsInit
CacheNext ==
    /\ part # "graph" /\ UNCHANGED <<dagVars, part>>
    /\ Works \/ (part = "sweep" /\ Disturbs /\ pc'[r1] # "dead" /\ (checkout' => checkout))

MCSpec ==
    /\ GraphInit \/ CacheInit
    /\ [][GraphNext \/ CacheNext]_mcVars
    /\ WF_dagVars(part = "graph" /\ DagCode) /\ WF_dagVars(part = "graph" /\ UserReturns)
    /\ \A r \in Runs : WF_vars(part # "graph" /\ RunStep(r))
    /\ \A s \in Sweepers : WF_vars(part # "graph" /\ SweepStep(s))

\* The graph alone, and the two sweeps alone.
GraphSpec  == GraphInit /\ [][GraphNext]_mcVars
SweepsSpec == SweepsInit /\ [][CacheNext]_mcVars
=============================================================================
