----------------------------- MODULE FixtureLife -----------------------------
(***************************************************************************)
(* What a graph of fixtures promises, whoever runs it: a fixture comes up  *)
(* on fixtures that serve, and none of these is released before it.        *)
(* FixtureDAG (the graph inside a test process) and SharedRun (the graph   *)
(* of the shared fixture process, driven by its runner) implement it.      *)
(***************************************************************************)
EXTENDS TLAPS

CONSTANTS
    Fixtures,
    Needs        \* Needs[f]: the fixtures f rests on

VARIABLE life

\* down     nothing of it exists
\* coming   its BeforeAll has been entered, and it serves nobody yet
\* serving  it is up
\* back     a failed attempt is being released, before another one
\* going    its AfterAll runs
\* over     it was released for good, or died with its process
Lives == {"down", "coming", "serving", "back", "going", "over"}

Holds(f) == life[f] \notin {"down", "over"}

LifeInit == life = [f \in Fixtures |-> "down"]

Becomes(f, from, to) ==
    life[f] \in from /\ life' = [life EXCEPT ![f] = to]

Come(f) ==
    /\ \A d \in Needs[f] : life[d] = "serving"
    /\ Becomes(f, {"down"}, "coming")

Serve(f)    == Becomes(f, {"coming"}, "serving")
GiveBack(f) == Becomes(f, {"coming"}, "back")
Retry(f)    == Becomes(f, {"back"}, "down")

Release(f) ==
    /\ \A g \in Fixtures : f \in Needs[g] => ~Holds(g)
    /\ Becomes(f, {"coming", "serving"}, "going")

Released(f) == Becomes(f, {"going"}, "over")

\* The process is gone, and its fixtures with it.
Die == life' = [f \in Fixtures |-> "over"]

\* One fixture's life goes on.
LifeNext ==
    \/ \E f \in Fixtures :
          /\ life'[f] # life[f]
          /\ Come(f) \/ Serve(f) \/ GiveBack(f) \/ Retry(f) \/ Release(f) \/ Released(f)
    \/ Die

LifeSpec == LifeInit /\ [][LifeNext]_life

\* Whatever a fixture rests on serves for as long as the fixture holds
\* anything, a release in progress included.
RestsOnServing ==
    \A f \in Fixtures : Holds(f) => \A d \in Needs[f] \cap Fixtures : life[d] = "serving"

-----------------------------------------------------------------------------
(* Proved for every set of fixtures and whatever they rest on.             *)

\* Each life has one of its six values, and what is held is held on top of
\* fixtures that serve.
LifeInv == life \in [Fixtures -> Lives] /\ RestsOnServing

\* A step keeps what rests on what: what comes up does so on what serves, what
\* serves is left by its own release alone, which waits for all on top of it.
LEMMA LifeStep == LifeInv /\ [LifeNext]_life => LifeInv'
  <1> SUFFICES ASSUME LifeInv, [LifeNext]_life PROVE LifeInv'
    OBVIOUS
  <1> USE DEF LifeInv, Lives, RestsOnServing, Holds, Becomes
  <1>1. ASSUME NEW f \in Fixtures, Come(f) PROVE LifeInv'
    BY <1>1 DEF Come
  <1>2. ASSUME NEW f \in Fixtures, Serve(f) \/ GiveBack(f) \/ Retry(f) \/ Released(f)
        PROVE  LifeInv'
    BY <1>2 DEF Serve, GiveBack, Retry, Released
  <1>3. ASSUME NEW f \in Fixtures, Release(f) PROVE LifeInv'
    BY <1>3 DEF Release
  <1>4. CASE Die
    BY <1>4 DEF Die
  <1>5. CASE UNCHANGED life
    BY <1>5
  <1> QED BY <1>1, <1>2, <1>3, <1>4, <1>5 DEF LifeNext

\* Of any graph that lives this way: whatever a fixture rests on serves for as
\* long as the fixture holds anything, its release included.
THEOREM AllRestOnServing == LifeSpec => []RestsOnServing
  <1>1. LifeInit => LifeInv
    BY DEF LifeInit, LifeInv, Lives, RestsOnServing, Holds
  <1>2. LifeInv => RestsOnServing
    BY DEF LifeInv
  <1> QED BY <1>1, <1>2, LifeStep, PTL DEF LifeSpec
=============================================================================
