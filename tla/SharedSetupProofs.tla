------------------------- MODULE SharedSetupProofs -------------------------
(***************************************************************************)
(* What holds of the shared fixture process for every set of fixtures,     *)
(* every dependency graph, every number of retries and of commands, under  *)
(* any client.                                                             *)
(***************************************************************************)
EXTENDS SharedSetup, TLAPS

LEMMA InitHolds ==
    Init => IInv
  <1> SUFFICES ASSUME Init PROVE IInv
    OBVIOUS
  <1> USE DEF Init
  <1>1. TypeOK
    <2>1. attempt \in [Fixtures -> 0..(Retries + 1)]
      BY BoundAssumption
    <2>2. /\ setup \in [Fixtures -> SetupSteps]
          /\ teardown \in [Fixtures -> TearSteps]
      BY DEF SetupSteps, TearSteps
    <2>3. /\ cstate \in [Commands -> CmdSteps]
          /\ verb \in [Commands -> Verbs]
          /\ ack \in [Commands -> Acks]
      BY DEF CmdSteps, Verbs, Acks
    <2>4. /\ unread \in [Fixtures -> SUBSET Fixtures]
          /\ awaits \in [Fixtures -> SUBSET Fixtures]
          /\ keys \in [Commands -> SUBSET Fixtures]
          /\ calls \in [Commands -> SUBSET Fixtures]
          /\ owns \in [Commands -> SUBSET Fixtures]
          /\ releases \in [Commands -> SUBSET Fixtures]
      OBVIOUS
    <2> QED BY <2>1, <2>2, <2>3, <2>4 
       DEF TypeOK, MainTypes, SetupTypes, TearTypes, CmdTypes, Phases, Exits
  <1>2. AttemptsBounded /\ StartedHasBegun /\ CallsAreStarts
    BY DEF AttemptsBounded, StartedHasBegun, CallsAreStarts
  <1>3. UpfrontAlone /\ SetupHasOwner /\ NoStartWhenReleasing
    BY DEF UpfrontAlone, SetupHasOwner, NoStartWhenReleasing
  <1> QED BY <1>1, <1>2, <1>3 DEF IInv

(* The setup goroutine of one fixture.                                     *)

LEMMA UpfrontCallHolds ==
    ASSUME IInv, NEW f \in Fixtures, UpfrontCall(f)
    PROVE  IInv'
  <1> USE DEF UpfrontCall, mainVars, tearVars, cmdVars
  <1>1. TypeOK'
    <2>1. MainTypes'
      BY DEF IInv, TypeOK, MainTypes, Phases, Exits
    <2>2. SetupTypes'
      BY BoundAssumption
      DEF IInv, TypeOK, SetupTypes, AttemptsBounded, SetupSteps
    <2>3. TearTypes'
      BY DEF IInv, TypeOK, TearTypes
    <2>4. CmdTypes'
      BY DEF IInv, TypeOK, CmdTypes, CmdSteps, Verbs, Acks
    <2> QED BY <2>1, <2>2, <2>3, <2>4 DEF TypeOK
  <1>2. AttemptsBounded' /\ StartedHasBegun'
    BY BoundAssumption DEF IInv, TypeOK, SetupTypes, AttemptsBounded, StartedHasBegun
  <1>3. CallsAreStarts' /\ UpfrontAlone' /\ NoStartWhenReleasing'
    BY DEF IInv, TypeOK, MainTypes, SetupTypes, CmdTypes, CallsAreStarts,
           UpfrontAlone, NoStartWhenReleasing, Exits, Verbs
  <1>4. SetupHasOwner'
    BY GraphAssumption
    DEF IInv, TypeOK, MainTypes, SetupTypes, CmdTypes, StartedHasBegun,
        UpfrontAlone, SetupHasOwner, Exits
  <1> QED BY <1>1, <1>2, <1>3, <1>4 DEF IInv

LEMMA DeriveConfigHolds ==
    ASSUME IInv, NEW f \in Fixtures, DeriveConfig(f)
    PROVE  IInv'
  <1> USE DEF DeriveConfig, SetupGoes, SetupFails, mainVars, tearVars, cmdVars
  <1>1. TypeOK'
    <2>1. MainTypes'
      BY DEF IInv, TypeOK, MainTypes, Phases, Exits
    <2>2. SetupTypes'
      BY BoundAssumption
      DEF IInv, TypeOK, SetupTypes, AttemptsBounded, SetupSteps
    <2>3. TearTypes'
      BY DEF IInv, TypeOK, TearTypes
    <2>4. CmdTypes'
      BY DEF IInv, TypeOK, CmdTypes, CmdSteps, Verbs, Acks
    <2> QED BY <2>1, <2>2, <2>3, <2>4 DEF TypeOK
  <1>2. AttemptsBounded' /\ StartedHasBegun'
    BY BoundAssumption DEF IInv, TypeOK, SetupTypes, AttemptsBounded, StartedHasBegun
  <1>3. CallsAreStarts' /\ UpfrontAlone' /\ NoStartWhenReleasing'
    BY DEF IInv, TypeOK, MainTypes, SetupTypes, CmdTypes, CallsAreStarts,
           UpfrontAlone, NoStartWhenReleasing, Exits, Verbs
  <1>4. SetupHasOwner'
    BY GraphAssumption
    DEF IInv, TypeOK, MainTypes, SetupTypes, CmdTypes, StartedHasBegun,
        UpfrontAlone, SetupHasOwner, Exits
  <1> QED BY <1>1, <1>2, <1>3, <1>4 DEF IInv

LEMMA AwaitDepsHolds ==
    ASSUME IInv, NEW f \in Fixtures, AwaitDeps(f)
    PROVE  IInv'
  <1> USE DEF AwaitDeps, SetupGoes, SetupFails, mainVars, tearVars, cmdVars
  <1>1. TypeOK'
    <2>1. MainTypes'
      BY DEF IInv, TypeOK, MainTypes, Phases, Exits
    <2>2. SetupTypes'
      BY BoundAssumption
      DEF IInv, TypeOK, SetupTypes, AttemptsBounded, SetupSteps
    <2>3. TearTypes'
      BY DEF IInv, TypeOK, TearTypes
    <2>4. CmdTypes'
      BY DEF IInv, TypeOK, CmdTypes, CmdSteps, Verbs, Acks
    <2> QED BY <2>1, <2>2, <2>3, <2>4 DEF TypeOK
  <1>2. AttemptsBounded' /\ StartedHasBegun'
    BY BoundAssumption DEF IInv, TypeOK, SetupTypes, AttemptsBounded, StartedHasBegun
  <1>3. CallsAreStarts' /\ UpfrontAlone' /\ NoStartWhenReleasing'
    BY DEF IInv, TypeOK, MainTypes, SetupTypes, CmdTypes, CallsAreStarts,
           UpfrontAlone, NoStartWhenReleasing, Exits, Verbs
  <1>4. SetupHasOwner'
    BY GraphAssumption
    DEF IInv, TypeOK, MainTypes, SetupTypes, CmdTypes, StartedHasBegun,
        UpfrontAlone, SetupHasOwner, Exits
  <1> QED BY <1>1, <1>2, <1>3, <1>4 DEF IInv

LEMMA FirstAttemptHolds ==
    ASSUME IInv, NEW f \in Fixtures, FirstAttempt(f)
    PROVE  IInv'
  <1> USE DEF FirstAttempt, EnterBeforeAll, SetupGoes, SetupFails, mainVars, tearVars, cmdVars
  <1>1. TypeOK'
    <2>1. MainTypes'
      BY DEF IInv, TypeOK, MainTypes, Phases, Exits
    <2>2. SetupTypes'
      BY BoundAssumption
      DEF IInv, TypeOK, SetupTypes, AttemptsBounded, SetupSteps
    <2>3. TearTypes'
      BY DEF IInv, TypeOK, TearTypes
    <2>4. CmdTypes'
      BY DEF IInv, TypeOK, CmdTypes, CmdSteps, Verbs, Acks
    <2> QED BY <2>1, <2>2, <2>3, <2>4 DEF TypeOK
  <1>2. AttemptsBounded' /\ StartedHasBegun'
    BY BoundAssumption DEF IInv, TypeOK, SetupTypes, AttemptsBounded, StartedHasBegun
  <1>3. CallsAreStarts' /\ UpfrontAlone' /\ NoStartWhenReleasing'
    BY DEF IInv, TypeOK, MainTypes, SetupTypes, CmdTypes, CallsAreStarts,
           UpfrontAlone, NoStartWhenReleasing, Exits, Verbs
  <1>4. SetupHasOwner'
    BY GraphAssumption
    DEF IInv, TypeOK, MainTypes, SetupTypes, CmdTypes, StartedHasBegun,
        UpfrontAlone, SetupHasOwner, Exits
  <1> QED BY <1>1, <1>2, <1>3, <1>4 DEF IInv

LEMMA AttemptSucceedsHolds ==
    ASSUME IInv, NEW f \in Fixtures, AttemptSucceeds(f)
    PROVE  IInv'
  <1> USE DEF AttemptSucceeds, SetupGoes, SetupFails, mainVars, tearVars, cmdVars
  <1>1. TypeOK'
    <2>1. MainTypes'
      BY DEF IInv, TypeOK, MainTypes, Phases, Exits
    <2>2. SetupTypes'
      BY BoundAssumption
      DEF IInv, TypeOK, SetupTypes, AttemptsBounded, SetupSteps
    <2>3. TearTypes'
      BY DEF IInv, TypeOK, TearTypes
    <2>4. CmdTypes'
      BY DEF IInv, TypeOK, CmdTypes, CmdSteps, Verbs, Acks
    <2> QED BY <2>1, <2>2, <2>3, <2>4 DEF TypeOK
  <1>2. AttemptsBounded' /\ StartedHasBegun'
    BY BoundAssumption DEF IInv, TypeOK, SetupTypes, AttemptsBounded, StartedHasBegun
  <1>3. CallsAreStarts' /\ UpfrontAlone' /\ NoStartWhenReleasing'
    BY DEF IInv, TypeOK, MainTypes, SetupTypes, CmdTypes, CallsAreStarts,
           UpfrontAlone, NoStartWhenReleasing, Exits, Verbs
  <1>4. SetupHasOwner'
    BY GraphAssumption
    DEF IInv, TypeOK, MainTypes, SetupTypes, CmdTypes, StartedHasBegun,
        UpfrontAlone, SetupHasOwner, Exits
  <1> QED BY <1>1, <1>2, <1>3, <1>4 DEF IInv

LEMMA AttemptOverrunsHolds ==
    ASSUME IInv, NEW f \in Fixtures, AttemptOverruns(f)
    PROVE  IInv'
  <1> USE DEF AttemptOverruns, SetupGoes, SetupFails, mainVars, tearVars, cmdVars
  <1>1. TypeOK'
    <2>1. MainTypes'
      BY DEF IInv, TypeOK, MainTypes, Phases, Exits
    <2>2. SetupTypes'
      BY BoundAssumption
      DEF IInv, TypeOK, SetupTypes, AttemptsBounded, SetupSteps
    <2>3. TearTypes'
      BY DEF IInv, TypeOK, TearTypes
    <2>4. CmdTypes'
      BY DEF IInv, TypeOK, CmdTypes, CmdSteps, Verbs, Acks
    <2> QED BY <2>1, <2>2, <2>3, <2>4 DEF TypeOK
  <1>2. AttemptsBounded' /\ StartedHasBegun'
    BY BoundAssumption DEF IInv, TypeOK, SetupTypes, AttemptsBounded, StartedHasBegun
  <1>3. CallsAreStarts' /\ UpfrontAlone' /\ NoStartWhenReleasing'
    BY DEF IInv, TypeOK, MainTypes, SetupTypes, CmdTypes, CallsAreStarts,
           UpfrontAlone, NoStartWhenReleasing, Exits, Verbs
  <1>4. SetupHasOwner'
    BY GraphAssumption
    DEF IInv, TypeOK, MainTypes, SetupTypes, CmdTypes, StartedHasBegun,
        UpfrontAlone, SetupHasOwner, Exits
  <1> QED BY <1>1, <1>2, <1>3, <1>4 DEF IInv

LEMMA AttemptFailsHolds ==
    ASSUME IInv, NEW f \in Fixtures, AttemptFails(f)
    PROVE  IInv'
  <1> USE DEF AttemptFails, SetupGoes, SetupFails, mainVars, tearVars, cmdVars
  <1>1. TypeOK'
    <2>1. MainTypes'
      BY DEF IInv, TypeOK, MainTypes, Phases, Exits
    <2>2. SetupTypes'
      BY BoundAssumption
      DEF IInv, TypeOK, SetupTypes, AttemptsBounded, SetupSteps
    <2>3. TearTypes'
      BY DEF IInv, TypeOK, TearTypes
    <2>4. CmdTypes'
      BY DEF IInv, TypeOK, CmdTypes, CmdSteps, Verbs, Acks
    <2> QED BY <2>1, <2>2, <2>3, <2>4 DEF TypeOK
  <1>2. AttemptsBounded' /\ StartedHasBegun'
    BY BoundAssumption DEF IInv, TypeOK, SetupTypes, AttemptsBounded, StartedHasBegun
  <1>3. CallsAreStarts' /\ UpfrontAlone' /\ NoStartWhenReleasing'
    BY DEF IInv, TypeOK, MainTypes, SetupTypes, CmdTypes, CallsAreStarts,
           UpfrontAlone, NoStartWhenReleasing, Exits, Verbs
  <1>4. SetupHasOwner'
    BY GraphAssumption
    DEF IInv, TypeOK, MainTypes, SetupTypes, CmdTypes, StartedHasBegun,
        UpfrontAlone, SetupHasOwner, Exits
  <1> QED BY <1>1, <1>2, <1>3, <1>4 DEF IInv

LEMMA RetryDelayHolds ==
    ASSUME IInv, NEW f \in Fixtures, RetryDelay(f)
    PROVE  IInv'
  <1> USE DEF RetryDelay, SetupGoes, SetupFails, mainVars, tearVars, cmdVars
  <1>1. TypeOK'
    <2>1. MainTypes'
      BY DEF IInv, TypeOK, MainTypes, Phases, Exits
    <2>2. SetupTypes'
      BY BoundAssumption
      DEF IInv, TypeOK, SetupTypes, AttemptsBounded, SetupSteps
    <2>3. TearTypes'
      BY DEF IInv, TypeOK, TearTypes
    <2>4. CmdTypes'
      BY DEF IInv, TypeOK, CmdTypes, CmdSteps, Verbs, Acks
    <2> QED BY <2>1, <2>2, <2>3, <2>4 DEF TypeOK
  <1>2. AttemptsBounded' /\ StartedHasBegun'
    BY BoundAssumption DEF IInv, TypeOK, SetupTypes, AttemptsBounded, StartedHasBegun
  <1>3. CallsAreStarts' /\ UpfrontAlone' /\ NoStartWhenReleasing'
    BY DEF IInv, TypeOK, MainTypes, SetupTypes, CmdTypes, CallsAreStarts,
           UpfrontAlone, NoStartWhenReleasing, Exits, Verbs
  <1>4. SetupHasOwner'
    BY GraphAssumption
    DEF IInv, TypeOK, MainTypes, SetupTypes, CmdTypes, StartedHasBegun,
        UpfrontAlone, SetupHasOwner, Exits
  <1> QED BY <1>1, <1>2, <1>3, <1>4 DEF IInv

LEMMA ReleaseBetweenHolds ==
    ASSUME IInv, NEW f \in Fixtures, ReleaseBetween(f)
    PROVE  IInv'
  <1> USE DEF ReleaseBetween, SetupGoes, mainVars, tearVars, cmdVars
  <1>1. TypeOK'
    <2>1. MainTypes'
      BY DEF IInv, TypeOK, MainTypes, Phases, Exits
    <2>2. SetupTypes'
      BY BoundAssumption
      DEF IInv, TypeOK, SetupTypes, AttemptsBounded, SetupSteps
    <2>3. TearTypes'
      BY DEF IInv, TypeOK, TearTypes
    <2>4. CmdTypes'
      BY DEF IInv, TypeOK, CmdTypes, CmdSteps, Verbs, Acks
    <2> QED BY <2>1, <2>2, <2>3, <2>4 DEF TypeOK
  <1>2. AttemptsBounded' /\ StartedHasBegun'
    BY BoundAssumption DEF IInv, TypeOK, SetupTypes, AttemptsBounded, StartedHasBegun
  <1>3. CallsAreStarts' /\ UpfrontAlone' /\ NoStartWhenReleasing'
    BY DEF IInv, TypeOK, MainTypes, SetupTypes, CmdTypes, CallsAreStarts,
           UpfrontAlone, NoStartWhenReleasing, Exits, Verbs
  <1>4. SetupHasOwner'
    BY GraphAssumption
    DEF IInv, TypeOK, MainTypes, SetupTypes, CmdTypes, StartedHasBegun,
        UpfrontAlone, SetupHasOwner, Exits
  <1> QED BY <1>1, <1>2, <1>3, <1>4 DEF IInv

LEMMA NextAttemptHolds ==
    ASSUME IInv, NEW f \in Fixtures, NextAttempt(f)
    PROVE  IInv'
  <1> USE DEF NextAttempt, EnterBeforeAll, SetupGoes, SetupFails, mainVars, tearVars, cmdVars
  <1>1. TypeOK'
    <2>1. MainTypes'
      BY DEF IInv, TypeOK, MainTypes, Phases, Exits
    <2>2. SetupTypes'
      BY BoundAssumption
      DEF IInv, TypeOK, SetupTypes, AttemptsBounded, SetupSteps
    <2>3. TearTypes'
      BY DEF IInv, TypeOK, TearTypes
    <2>4. CmdTypes'
      BY DEF IInv, TypeOK, CmdTypes, CmdSteps, Verbs, Acks
    <2> QED BY <2>1, <2>2, <2>3, <2>4 DEF TypeOK
  <1>2. AttemptsBounded' /\ StartedHasBegun'
    BY BoundAssumption DEF IInv, TypeOK, SetupTypes, AttemptsBounded, StartedHasBegun
  <1>3. CallsAreStarts' /\ UpfrontAlone' /\ NoStartWhenReleasing'
    BY DEF IInv, TypeOK, MainTypes, SetupTypes, CmdTypes, CallsAreStarts,
           UpfrontAlone, NoStartWhenReleasing, Exits, Verbs
  <1>4. SetupHasOwner'
    BY GraphAssumption
    DEF IInv, TypeOK, MainTypes, SetupTypes, CmdTypes, StartedHasBegun,
        UpfrontAlone, SetupHasOwner, Exits
  <1> QED BY <1>1, <1>2, <1>3, <1>4 DEF IInv

LEMMA PublishHolds ==
    ASSUME IInv, NEW f \in Fixtures, Publish(f)
    PROVE  IInv'
  <1> USE DEF Publish, SetupGoes, SetupFails, mainVars, tearVars, cmdVars
  <1>1. TypeOK'
    <2>1. MainTypes'
      BY DEF IInv, TypeOK, MainTypes, Phases, Exits
    <2>2. SetupTypes'
      BY BoundAssumption
      DEF IInv, TypeOK, SetupTypes, AttemptsBounded, SetupSteps
    <2>3. TearTypes'
      BY DEF IInv, TypeOK, TearTypes
    <2>4. CmdTypes'
      BY DEF IInv, TypeOK, CmdTypes, CmdSteps, Verbs, Acks
    <2> QED BY <2>1, <2>2, <2>3, <2>4 DEF TypeOK
  <1>2. AttemptsBounded' /\ StartedHasBegun'
    BY BoundAssumption DEF IInv, TypeOK, SetupTypes, AttemptsBounded, StartedHasBegun
  <1>3. CallsAreStarts' /\ UpfrontAlone' /\ NoStartWhenReleasing'
    BY DEF IInv, TypeOK, MainTypes, SetupTypes, CmdTypes, CallsAreStarts,
           UpfrontAlone, NoStartWhenReleasing, Exits, Verbs
  <1>4. SetupHasOwner'
    BY GraphAssumption
    DEF IInv, TypeOK, MainTypes, SetupTypes, CmdTypes, StartedHasBegun,
        UpfrontAlone, SetupHasOwner, Exits
  <1> QED BY <1>1, <1>2, <1>3, <1>4 DEF IInv

(* The teardown goroutine of one fixture touches only its own variables.   *)

LEMMA TeardownHolds ==
    ASSUME IInv, NEW f \in Fixtures,
           \/ TeardownEnter(f) \/ AwaitOwnSetup(f) \/ AwaitDependent(f)
           \/ (\E d \in Fixtures : ReadDependent(f, d))
           \/ ClaimTeardown(f) \/ AfterAllReturns(f)
    PROVE  IInv'
  <1>1. TypeOK'
    <2> USE DEF IInv, TypeOK, MainTypes, SetupTypes, TearTypes, CmdTypes, TearSteps,
                mainVars, setupVars, cmdVars
    <2>1. CASE TeardownEnter(f)
      BY <2>1 DEF TeardownEnter, TeardownGoes, Dependents
    <2>2. CASE AwaitOwnSetup(f)
      BY <2>2 DEF AwaitOwnSetup, TeardownGoes
    <2>3. CASE AwaitDependent(f)
      BY <2>3 DEF AwaitDependent, TeardownGoes, Dependents
    <2>4. CASE \E d \in Fixtures : ReadDependent(f, d)
      BY <2>4 DEF ReadDependent, TeardownGoes, Dependents
    <2>5. CASE ClaimTeardown(f)
      BY <2>5 DEF ClaimTeardown, TeardownGoes
    <2>6. CASE AfterAllReturns(f)
      BY <2>6 DEF AfterAllReturns, TeardownGoes
    <2> QED BY <2>1, <2>2, <2>3, <2>4, <2>5, <2>6
  <1>2. UNCHANGED <<mainVars, setupVars, cmdVars>>
    BY DEF TeardownEnter, AwaitOwnSetup, AwaitDependent, ReadDependent,
           ClaimTeardown, AfterAllReturns
  <1> QED
    BY <1>1, <1>2
    DEF mainVars, setupVars, cmdVars, IInv, AttemptsBounded, StartedHasBegun,
        CallsAreStarts, UpfrontAlone, SetupHasOwner, NoStartWhenReleasing

(* The goroutine of one command.                                           *)

LEMMA SendHolds ==
    ASSUME IInv, NEW c \in Commands, NEW v \in Verbs, NEW K \in SUBSET Fixtures,
           Send(c, v, K)
    PROVE  IInv'
  <1> USE DEF Send, mainVars, setupVars, tearVars, cmdVars
  <1>1. TypeOK'
    <2>1. MainTypes'
      BY DEF IInv, TypeOK, MainTypes, Phases, Exits
    <2>2. SetupTypes'
      BY BoundAssumption
      DEF IInv, TypeOK, SetupTypes, AttemptsBounded, SetupSteps
    <2>3. TearTypes'
      BY DEF IInv, TypeOK, TearTypes
    <2>4. CmdTypes'
      BY DEF IInv, TypeOK, CmdTypes, CmdSteps, Verbs, Acks
    <2> QED BY <2>1, <2>2, <2>3, <2>4 DEF TypeOK
  <1>2. AttemptsBounded' /\ StartedHasBegun'
    BY BoundAssumption DEF IInv, TypeOK, SetupTypes, AttemptsBounded, StartedHasBegun
  <1>3. CallsAreStarts' /\ UpfrontAlone' /\ NoStartWhenReleasing'
    BY DEF IInv, TypeOK, MainTypes, SetupTypes, CmdTypes, CallsAreStarts,
           UpfrontAlone, NoStartWhenReleasing, Exits, Verbs
  <1>4. SetupHasOwner'
    BY GraphAssumption
    DEF IInv, TypeOK, MainTypes, SetupTypes, CmdTypes, StartedHasBegun,
        UpfrontAlone, SetupHasOwner, Exits
  <1> QED BY <1>1, <1>2, <1>3, <1>4 DEF IInv

LEMMA AcceptHolds ==
    ASSUME IInv, NEW c \in Commands, Accept(c)
    PROVE  IInv'
  <1> USE DEF Accept, mainVars, setupVars, tearVars, cmdVars
  <1>1. TypeOK'
    <2>1. MainTypes'
      BY DEF IInv, TypeOK, MainTypes, Phases, Exits
    <2>2. SetupTypes'
      BY BoundAssumption
      DEF IInv, TypeOK, SetupTypes, AttemptsBounded, SetupSteps
    <2>3. TearTypes'
      BY DEF IInv, TypeOK, TearTypes
    <2>4. CmdTypes'
      BY DEF IInv, TypeOK, CmdTypes, CmdSteps, Verbs, Acks
    <2> QED BY <2>1, <2>2, <2>3, <2>4 DEF TypeOK
  <1>2. AttemptsBounded' /\ StartedHasBegun'
    BY BoundAssumption DEF IInv, TypeOK, SetupTypes, AttemptsBounded, StartedHasBegun
  <1>3. CallsAreStarts' /\ UpfrontAlone' /\ NoStartWhenReleasing'
    BY DEF IInv, TypeOK, MainTypes, SetupTypes, CmdTypes, CallsAreStarts,
           UpfrontAlone, NoStartWhenReleasing, Exits, Verbs
  <1>4. SetupHasOwner'
    BY GraphAssumption
    DEF IInv, TypeOK, MainTypes, SetupTypes, CmdTypes, StartedHasBegun,
        UpfrontAlone, SetupHasOwner, Exits
  <1> QED BY <1>1, <1>2, <1>3, <1>4 DEF IInv

LEMMA JudgeHolds ==
    ASSUME IInv, NEW c \in Commands, Judge(c)
    PROVE  IInv'
  <1> USE DEF Judge, mainVars, setupVars, tearVars, cmdVars
  <1>1. TypeOK'
    <2>1. MainTypes'
      BY DEF IInv, TypeOK, MainTypes, Phases, Exits
    <2>2. SetupTypes'
      BY BoundAssumption
      DEF IInv, TypeOK, SetupTypes, AttemptsBounded, SetupSteps
    <2>3. TearTypes'
      BY DEF IInv, TypeOK, TearTypes
    <2>4. CmdTypes'
      BY DEF IInv, TypeOK, CmdTypes, CmdSteps, Verbs, Acks
    <2> QED BY <2>1, <2>2, <2>3, <2>4 DEF TypeOK
  <1>2. AttemptsBounded' /\ StartedHasBegun'
    BY BoundAssumption DEF IInv, TypeOK, SetupTypes, AttemptsBounded, StartedHasBegun
  <1>3. CallsAreStarts' /\ UpfrontAlone' /\ NoStartWhenReleasing'
    BY DEF IInv, TypeOK, MainTypes, SetupTypes, CmdTypes, CallsAreStarts,
           UpfrontAlone, NoStartWhenReleasing, Exits, Verbs
  <1>4. SetupHasOwner'
    BY GraphAssumption
    DEF IInv, TypeOK, MainTypes, SetupTypes, CmdTypes, StartedHasBegun,
        UpfrontAlone, SetupHasOwner, Exits
  <1> QED BY <1>1, <1>2, <1>3, <1>4 DEF IInv

LEMMA StartAckHolds ==
    ASSUME IInv, NEW c \in Commands, StartAck(c)
    PROVE  IInv'
  <1> USE DEF StartAck, mainVars, setupVars, tearVars, cmdVars
  <1>1. TypeOK'
    <2>1. MainTypes'
      BY DEF IInv, TypeOK, MainTypes, Phases, Exits
    <2>2. SetupTypes'
      BY BoundAssumption
      DEF IInv, TypeOK, SetupTypes, AttemptsBounded, SetupSteps
    <2>3. TearTypes'
      BY DEF IInv, TypeOK, TearTypes
    <2>4. CmdTypes'
      BY DEF IInv, TypeOK, CmdTypes, CmdSteps, Verbs, Acks
    <2> QED BY <2>1, <2>2, <2>3, <2>4 DEF TypeOK
  <1>2. AttemptsBounded' /\ StartedHasBegun'
    BY BoundAssumption DEF IInv, TypeOK, SetupTypes, AttemptsBounded, StartedHasBegun
  <1>3. CallsAreStarts' /\ UpfrontAlone' /\ NoStartWhenReleasing'
    BY DEF IInv, TypeOK, MainTypes, SetupTypes, CmdTypes, CallsAreStarts,
           UpfrontAlone, NoStartWhenReleasing, Exits, Verbs
  <1>4. SetupHasOwner'
    BY GraphAssumption
    DEF IInv, TypeOK, MainTypes, SetupTypes, CmdTypes, StartedHasBegun,
        UpfrontAlone, SetupHasOwner, Exits
  <1> QED BY <1>1, <1>2, <1>3, <1>4 DEF IInv

LEMMA TeardownAckHolds ==
    ASSUME IInv, NEW c \in Commands, TeardownAck(c)
    PROVE  IInv'
  <1> USE DEF TeardownAck, mainVars, setupVars, tearVars, cmdVars
  <1>1. TypeOK'
    <2>1. MainTypes'
      BY DEF IInv, TypeOK, MainTypes, Phases, Exits
    <2>2. SetupTypes'
      BY BoundAssumption
      DEF IInv, TypeOK, SetupTypes, AttemptsBounded, SetupSteps
    <2>3. TearTypes'
      BY DEF IInv, TypeOK, TearTypes
    <2>4. CmdTypes'
      BY DEF IInv, TypeOK, CmdTypes, CmdSteps, Verbs, Acks
    <2> QED BY <2>1, <2>2, <2>3, <2>4 DEF TypeOK
  <1>2. AttemptsBounded' /\ StartedHasBegun'
    BY BoundAssumption DEF IInv, TypeOK, SetupTypes, AttemptsBounded, StartedHasBegun
  <1>3. CallsAreStarts' /\ UpfrontAlone' /\ NoStartWhenReleasing'
    BY DEF IInv, TypeOK, MainTypes, SetupTypes, CmdTypes, CallsAreStarts,
           UpfrontAlone, NoStartWhenReleasing, Exits, Verbs
  <1>4. SetupHasOwner'
    BY GraphAssumption
    DEF IInv, TypeOK, MainTypes, SetupTypes, CmdTypes, StartedHasBegun,
        UpfrontAlone, SetupHasOwner, Exits
  <1> QED BY <1>1, <1>2, <1>3, <1>4 DEF IInv

LEMMA StartCallHolds ==
    ASSUME IInv, NEW c \in Commands, NEW f \in Fixtures, StartCall(c, f)
    PROVE  IInv'
  <1> USE DEF mainVars, tearVars
  <1>1. verb[c] = "start" /\ cstate[c] = "running"
    BY DEF StartCall, IInv, CallsAreStarts
  <1>2. phase \notin {"upfront", "releasing", "exit0", "exit1"}
    BY <1>1 DEF IInv, UpfrontAlone, NoStartWhenReleasing
  <1>3. CASE f \in started
    <2>1. UNCHANGED <<mainVars, tearVars, setup, started, attempt, cstate, verb, owns>>
      BY <1>3 DEF StartCall
    <2>2. TypeOK'
      BY <2>1 DEF StartCall, IInv, TypeOK, MainTypes, SetupTypes, TearTypes, CmdTypes
    <2>3. CallsAreStarts'
      BY <2>1 DEF StartCall, IInv, TypeOK, MainTypes, SetupTypes, TearTypes, CmdTypes, CallsAreStarts
    <2> QED
      BY <2>1, <2>2, <2>3
      DEF IInv, AttemptsBounded, StartedHasBegun, UpfrontAlone, SetupHasOwner,
          NoStartWhenReleasing
  <1>4. CASE f \notin started
    <2>1. /\ setup' = [setup EXCEPT ![f] = "derive"]
          /\ started' = started \cup {f}
          /\ owns' = [owns EXCEPT ![c] = @ \cup {f}]
          /\ calls' = [calls EXCEPT ![c] = @ \ {f}]
          /\ UNCHANGED <<mainVars, attempt, relErr, attempted, errs, published,
                         entered, tearVars, cstate, verb, keys, releases, ack,
                         failed, released>>
      BY <1>4 DEF StartCall, SetupGoes
    <2>2. setup[f] = "idle" /\ attempt[f] = 0
      BY <1>4 DEF IInv, StartedHasBegun, AttemptsBounded
    <2>3. TypeOK'
      BY <2>1 DEF IInv, TypeOK, MainTypes, SetupTypes, TearTypes, CmdTypes, SetupSteps
    <2>4. AttemptsBounded' /\ StartedHasBegun'
      BY <2>1, <2>2 DEF IInv, TypeOK, SetupTypes, AttemptsBounded, StartedHasBegun
    <2>5. CallsAreStarts'
      BY <2>1 DEF IInv, TypeOK, MainTypes, SetupTypes, TearTypes, CmdTypes, CallsAreStarts
    <2>6. SetupHasOwner'
      <3> SUFFICES ASSUME NEW g \in started',
                          phase \in {"serving", "draining"}
                   PROVE  \/ setup'[g] = "ended"
                          \/ \E b \in Commands : /\ verb[b] = "start"
                                                 /\ cstate[b] = "running"
                                                 /\ g \in owns'[b]
        BY <1>2, <2>1 DEF SetupHasOwner
      <3>1. CASE g = f
        BY <1>1, <2>1, <3>1 DEF IInv, TypeOK, MainTypes, SetupTypes, TearTypes, CmdTypes
      <3>2. CASE g # f
        BY <2>1, <3>2 DEF IInv, TypeOK, MainTypes, SetupTypes, TearTypes, CmdTypes, SetupHasOwner
      <3> QED BY <3>1, <3>2
    <2>7. UpfrontAlone' /\ NoStartWhenReleasing'
      BY <1>2, <2>1 DEF UpfrontAlone, NoStartWhenReleasing
    <2> QED BY <2>3, <2>4, <2>5, <2>6, <2>7 DEF IInv
  <1> QED BY <1>3, <1>4

(* main, and what is done to the process.                                  *)

LEMMA UpfrontDoneHolds ==
    ASSUME IInv, UpfrontDone
    PROVE  IInv'
  <1> USE DEF UpfrontDone, mainVars, setupVars, tearVars, cmdVars
  <1>1. TypeOK'
    <2>1. MainTypes'
      BY DEF IInv, TypeOK, MainTypes, Phases, Exits
    <2>2. SetupTypes'
      BY BoundAssumption
      DEF IInv, TypeOK, SetupTypes, AttemptsBounded, SetupSteps
    <2>3. TearTypes'
      BY DEF IInv, TypeOK, TearTypes
    <2>4. CmdTypes'
      BY DEF IInv, TypeOK, CmdTypes, CmdSteps, Verbs, Acks
    <2> QED BY <2>1, <2>2, <2>3, <2>4 DEF TypeOK
  <1>2. AttemptsBounded' /\ StartedHasBegun'
    BY BoundAssumption DEF IInv, TypeOK, SetupTypes, AttemptsBounded, StartedHasBegun
  <1>3. CallsAreStarts' /\ UpfrontAlone' /\ NoStartWhenReleasing'
    BY DEF IInv, TypeOK, MainTypes, SetupTypes, CmdTypes, CallsAreStarts,
           UpfrontAlone, NoStartWhenReleasing, Exits, Verbs
  <1>4. SetupHasOwner'
    BY GraphAssumption
    DEF IInv, TypeOK, MainTypes, SetupTypes, CmdTypes, StartedHasBegun,
        UpfrontAlone, SetupHasOwner, Exits
  <1> QED BY <1>1, <1>2, <1>3, <1>4 DEF IInv

LEMMA LeaveLoopHolds ==
    ASSUME IInv, LeaveLoop
    PROVE  IInv'
  <1> USE DEF LeaveLoop, mainVars, setupVars, tearVars, cmdVars
  <1>1. TypeOK'
    <2>1. MainTypes'
      BY DEF IInv, TypeOK, MainTypes, Phases, Exits
    <2>2. SetupTypes'
      BY BoundAssumption
      DEF IInv, TypeOK, SetupTypes, AttemptsBounded, SetupSteps
    <2>3. TearTypes'
      BY DEF IInv, TypeOK, TearTypes
    <2>4. CmdTypes'
      BY DEF IInv, TypeOK, CmdTypes, CmdSteps, Verbs, Acks
    <2> QED BY <2>1, <2>2, <2>3, <2>4 DEF TypeOK
  <1>2. AttemptsBounded' /\ StartedHasBegun'
    BY BoundAssumption DEF IInv, TypeOK, SetupTypes, AttemptsBounded, StartedHasBegun
  <1>3. CallsAreStarts' /\ UpfrontAlone' /\ NoStartWhenReleasing'
    BY DEF IInv, TypeOK, MainTypes, SetupTypes, CmdTypes, CallsAreStarts,
           UpfrontAlone, NoStartWhenReleasing, Exits, Verbs
  <1>4. SetupHasOwner'
    BY GraphAssumption
    DEF IInv, TypeOK, MainTypes, SetupTypes, CmdTypes, StartedHasBegun,
        UpfrontAlone, SetupHasOwner, Exits
  <1> QED BY <1>1, <1>2, <1>3, <1>4 DEF IInv

LEMMA StartsDrainedHolds ==
    ASSUME IInv, StartsDrained
    PROVE  IInv'
  <1> USE DEF StartsDrained, StartsInFlight, mainVars, setupVars, tearVars, cmdVars
  <1>1. TypeOK'
    <2>1. MainTypes'
      BY DEF IInv, TypeOK, MainTypes, Phases, Exits
    <2>2. SetupTypes'
      BY BoundAssumption
      DEF IInv, TypeOK, SetupTypes, AttemptsBounded, SetupSteps
    <2>3. TearTypes'
      BY DEF IInv, TypeOK, TearTypes
    <2>4. CmdTypes'
      BY DEF IInv, TypeOK, CmdTypes, CmdSteps, Verbs, Acks
    <2> QED BY <2>1, <2>2, <2>3, <2>4 DEF TypeOK
  <1>2. AttemptsBounded' /\ StartedHasBegun'
    BY BoundAssumption DEF IInv, TypeOK, SetupTypes, AttemptsBounded, StartedHasBegun
  <1>3. CallsAreStarts' /\ UpfrontAlone' /\ NoStartWhenReleasing'
    BY DEF IInv, TypeOK, MainTypes, SetupTypes, CmdTypes, CallsAreStarts,
           UpfrontAlone, NoStartWhenReleasing, Exits, Verbs
  <1>4. SetupHasOwner'
    BY GraphAssumption
    DEF IInv, TypeOK, MainTypes, SetupTypes, CmdTypes, StartedHasBegun,
        UpfrontAlone, SetupHasOwner, Exits
  <1> QED BY <1>1, <1>2, <1>3, <1>4 DEF IInv

LEMMA ExitMainHolds ==
    ASSUME IInv, ExitMain
    PROVE  IInv'
  <1> USE DEF ExitMain, mainVars, setupVars, tearVars, cmdVars
  <1>1. TypeOK'
    <2>1. MainTypes'
      BY DEF IInv, TypeOK, MainTypes, Phases, Exits
    <2>2. SetupTypes'
      BY BoundAssumption
      DEF IInv, TypeOK, SetupTypes, AttemptsBounded, SetupSteps
    <2>3. TearTypes'
      BY DEF IInv, TypeOK, TearTypes
    <2>4. CmdTypes'
      BY DEF IInv, TypeOK, CmdTypes, CmdSteps, Verbs, Acks
    <2> QED BY <2>1, <2>2, <2>3, <2>4 DEF TypeOK
  <1>2. AttemptsBounded' /\ StartedHasBegun'
    BY BoundAssumption DEF IInv, TypeOK, SetupTypes, AttemptsBounded, StartedHasBegun
  <1>3. CallsAreStarts' /\ UpfrontAlone' /\ NoStartWhenReleasing'
    BY DEF IInv, TypeOK, MainTypes, SetupTypes, CmdTypes, CallsAreStarts,
           UpfrontAlone, NoStartWhenReleasing, Exits, Verbs
  <1>4. SetupHasOwner'
    BY GraphAssumption
    DEF IInv, TypeOK, MainTypes, SetupTypes, CmdTypes, StartedHasBegun,
        UpfrontAlone, SetupHasOwner, Exits
  <1> QED BY <1>1, <1>2, <1>3, <1>4 DEF IInv

LEMMA EnvironmentHolds ==
    ASSUME IInv, Cancel \/ StdinEnds \/ Die \/ OrphanExit
    PROVE  IInv'
  <1> USE DEF Cancel, StdinEnds, Die, OrphanExit, mainVars, setupVars, tearVars, cmdVars
  <1>1. TypeOK'
    <2>1. MainTypes'
      BY DEF IInv, TypeOK, MainTypes, Phases, Exits
    <2>2. SetupTypes'
      BY BoundAssumption
      DEF IInv, TypeOK, SetupTypes, AttemptsBounded, SetupSteps
    <2>3. TearTypes'
      BY DEF IInv, TypeOK, TearTypes
    <2>4. CmdTypes'
      BY DEF IInv, TypeOK, CmdTypes, CmdSteps, Verbs, Acks
    <2> QED BY <2>1, <2>2, <2>3, <2>4 DEF TypeOK
  <1>2. AttemptsBounded' /\ StartedHasBegun'
    BY BoundAssumption DEF IInv, TypeOK, SetupTypes, AttemptsBounded, StartedHasBegun
  <1>3. CallsAreStarts' /\ UpfrontAlone' /\ NoStartWhenReleasing'
    BY DEF IInv, TypeOK, MainTypes, SetupTypes, CmdTypes, CallsAreStarts,
           UpfrontAlone, NoStartWhenReleasing, Exits, Verbs
  <1>4. SetupHasOwner'
    BY GraphAssumption
    DEF IInv, TypeOK, MainTypes, SetupTypes, CmdTypes, StartedHasBegun,
        UpfrontAlone, SetupHasOwner, Exits
  <1> QED BY <1>1, <1>2, <1>3, <1>4 DEF IInv

LEMMA NextHolds ==
    IInv /\ [Next]_vars => IInv'
  <1> SUFFICES ASSUME IInv, [Next]_vars PROVE IInv'
    OBVIOUS
  <1>1. CASE MainStep
    BY <1>1, UpfrontDoneHolds, LeaveLoopHolds, StartsDrainedHolds, ExitMainHolds
    DEF MainStep
  <1>2. ASSUME NEW f \in Fixtures, FixtureStep(f) \/ UserReturns(f)
        PROVE  IInv'
    BY <1>2, UpfrontCallHolds, DeriveConfigHolds, AwaitDepsHolds,
       FirstAttemptHolds, AttemptSucceedsHolds, AttemptOverrunsHolds,
       AttemptFailsHolds, RetryDelayHolds, ReleaseBetweenHolds,
       NextAttemptHolds, PublishHolds, TeardownHolds
    DEF FixtureStep, UserReturns
  <1>3. ASSUME NEW c \in Commands, CommandStep(c)
        PROVE  IInv'
    BY <1>3, AcceptHolds, JudgeHolds, StartAckHolds, TeardownAckHolds,
       StartCallHolds
    DEF CommandStep
  <1>4. CASE Environment
    BY <1>4, SendHolds, EnvironmentHolds DEF Environment, Verbs
  <1>5. CASE UNCHANGED vars
    BY <1>5
    DEF vars, mainVars, setupVars, tearVars, cmdVars, IInv, TypeOK, MainTypes, SetupTypes, TearTypes, CmdTypes,
        AttemptsBounded, StartedHasBegun, CallsAreStarts, UpfrontAlone,
        SetupHasOwner, NoStartWhenReleasing
  <1> QED
    BY <1>1, <1>2, <1>3, <1>4, <1>5 DEF Next, Process, Ended

\* Type correctness of the process model: in particular, RunFixtureSetup never
\* makes more than Retries + 1 attempts.
THEOREM TypeCorrect == Spec => []TypeOK
  <1>1. IInv => TypeOK
    BY DEF IInv
  <1> QED
    BY InitHolds, NextHolds, <1>1, PTL DEF Spec

\* Whatever the client sends and whenever the process is told to stop, the
\* terminal teardown begins only once every setup that began has ended: the
\* wait on startsInFlight covers every start the command loop let through.
THEOREM TerminalTeardownIsAlone == Spec => []TerminalTeardownAlone
  <1>1. IInv => TerminalTeardownAlone
    BY DEF IInv, SetupHasOwner, NoStartWhenReleasing, TerminalTeardownAlone
  <1> QED
    BY InitHolds, NextHolds, <1>1, PTL DEF Spec

\* A setup that has begun is never begun again, and one that has ended stays
\* ended, however many start commands name the fixture.
THEOREM SetupsAreNeverRestarted == Spec => NeverRestarted
  <1>1. IInv /\ [Next]_vars =>
            [\A f \in Fixtures :
                /\ setup[f] = "ended" => setup'[f] = "ended"
                /\ setup[f] # "idle" => setup'[f] \notin {"idle", "derive"} \/ setup'[f] = setup[f]
            ]_vars
    <2> SUFFICES ASSUME IInv, [Next]_vars, NEW f \in Fixtures
                 PROVE  /\ setup[f] = "ended" => setup'[f] = "ended"
                        /\ setup[f] # "idle" => setup'[f] \notin {"idle", "derive"} \/ setup'[f] = setup[f]
      OBVIOUS
    <2>1. CASE UNCHANGED setup
      BY <2>1
    <2>2. ASSUME NEW g \in Fixtures, FixtureStep(g) \/ UserReturns(g), setup' # setup
          PROVE  \/ g \notin started /\ \E x : setup' = [setup EXCEPT ![g] = x]
                 \/ setup[g] # "ended" /\ \E x \in SetupSteps \ {"idle", "derive"} : setup' = [setup EXCEPT ![g] = x]
      BY <2>2
      DEF FixtureStep, UserReturns, UpfrontCall, DeriveConfig, AwaitDeps,
          FirstAttempt, AttemptSucceeds, AttemptOverruns, AttemptFails,
          RetryDelay, ReleaseBetween, NextAttempt, Publish, TeardownEnter,
          AwaitOwnSetup, AwaitDependent, ReadDependent, ClaimTeardown,
          AfterAllReturns, EnterBeforeAll, SetupGoes, SetupFails, setupVars,
          SetupSteps
    <2>3. ASSUME NEW c \in Commands, NEW g \in Fixtures, StartCall(c, g), setup' # setup
          PROVE  g \notin started /\ \E x : setup' = [setup EXCEPT ![g] = x]
      BY <2>3 DEF StartCall, SetupGoes
    <2>4. \/ UNCHANGED setup
          \/ \E g \in Fixtures : FixtureStep(g) \/ UserReturns(g)
          \/ \E c \in Commands, g \in Fixtures : StartCall(c, g)
      BY DEF Next, Process, Environment, Ended, MainStep, CommandStep, UpfrontDone,
             LeaveLoop, StartsDrained, ExitMain, Accept, Judge, StartAck,
             TeardownAck, Send, Cancel, StdinEnds, Die, OrphanExit, vars,
             setupVars
    <2> QED
      BY <2>1, <2>2, <2>3, <2>4 DEF IInv, TypeOK, MainTypes, SetupTypes, TearTypes, CmdTypes, StartedHasBegun
  <1> QED
    BY InitHolds, NextHolds, <1>1, PTL DEF Spec, NeverRestarted
=============================================================================
