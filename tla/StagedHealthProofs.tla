------------------------ MODULE StagedHealthProofs --------------------------
(***************************************************************************)
(* StagedHealth implements StagedBoot, for any number of items and stages. *)
(*                                                                         *)
(* What the agent acts upon is the tracker's word, and the tracker's word  *)
(* rests on reports that may be old.  The invariant says how far it can be *)
(* trusted: a ready report, a ready mark and a closed channel each mean    *)
(* that the item, or every item of the stage, was healthy at some time,    *)
(* and so do the requests and the tests that follow from them.             *)
(***************************************************************************)
EXTENDS StagedHealth, TLAPS

\* The items that have been healthy: a sidecar leaves "booting" only for
\* "healthy" and never returns to it.
WasHealthy == {i \in Items : state[i] # "booting"}

\* Only items with a container get healthy.
HealthyIsDeployed == WasHealthy \subseteq deployed

\* A ready report on its way is true of some time, and so is the mark the
\* tracker makes of it.
ReadyWasHealthy ==
    /\ \A r \in reports : r.ready => r.item \in WasHealthy
    /\ readyNow \subseteq WasHealthy

\* The stages below were healthy, and the current one if its channel is
\* closed.
StagesWereHealthy ==
    /\ \A i \in Items : StageOf[i] < stage => i \in WasHealthy
    /\ signalled => ItemsOf(stage) \subseteq WasHealthy

\* What the agent has asked for rests on a closed channel.
AskedIsSignalled ==
    /\ asked => signalled /\ stage < LastStage
    /\ pc = "deploying" => asked
    /\ pc = "testing" => signalled /\ stage = LastStage

IInv ==
    /\ TypeOK
    /\ HealthyIsDeployed
    /\ ReadyWasHealthy
    /\ StagesWereHealthy
    /\ AskedIsSignalled

-----------------------------------------------------------------------------
LEMMA InitIInv == Init => IInv
<1> USE StagedHealthAssumption
<1> SUFFICES ASSUME Init PROVE IInv
  OBVIOUS
<1>1. TypeOK
  <2>1. signalled \in BOOLEAN
    BY DEF Init
  <2>2. 0 \in 0..LastStage
    OBVIOUS
  <2>3. ItemsOf(0) \subseteq Items
    BY DEF ItemsOf
  <2>4. /\ pc = "waiting" /\ stage = 0 /\ readyNow = {} /\ asked = FALSE
        /\ deployed = ItemsOf(0) /\ up = {} /\ reports = {}
        /\ state = [i \in Items |-> "booting"] /\ good = [i \in Items |-> 0]
    BY DEF Init
  <2>5. stage \in 0..LastStage /\ readyNow \subseteq ItemsOf(stage)
    BY <2>2, <2>4
  <2>6. deployed \subseteq Items /\ up \subseteq deployed /\ reports \subseteq Report
    BY <2>3, <2>4
  <2>7. state \in [Items -> {"booting", "healthy", "unhealthy"}]
    BY <2>4
  <2>8. good \in [Items -> 0..2]
    BY <2>4
  <2> QED BY <2>1, <2>4, <2>5, <2>6, <2>7, <2>8 DEF TypeOK
<1>2. WasHealthy = {}
  BY DEF Init, WasHealthy
<1>3. HealthyIsDeployed /\ ReadyWasHealthy
  BY <1>2 DEF HealthyIsDeployed, ReadyWasHealthy, Init
<1>4. StagesWereHealthy
  <2>1. \A i \in Items : ~(StageOf[i] < 0)
    OBVIOUS
  <2>2. signalled => ItemsOf(0) = {}
    BY DEF Init
  <2> QED BY <2>1, <2>2 DEF StagesWereHealthy, Init
<1>5. AskedIsSignalled
  BY DEF AskedIsSignalled, Init
<1> QED BY <1>1, <1>3, <1>4, <1>5 DEF IInv

\* An item's sidecar moves only forward as far as "booting" is concerned, and
\* what it publishes is ready only if the item is healthy then.
LEMMA CheckFacts ==
    ASSUME NEW i \in Items, TypeOK, Check(i)
    PROVE  /\ state' \in [Items -> {"booting", "healthy", "unhealthy"}]
           /\ good' \in [Items -> 0..2]
           /\ \A j \in Items : j # i => state'[j] = state[j]
           /\ state[i] # "booting" => state'[i] # "booting"
           /\ reports' = reports \cup {[item |-> i, ready |-> state'[i] = "healthy"]}
<1> DEFINE new == StateAfter(i, i \in up)
           g == GoodAfter(i, i \in up)
<1>1. g \in 0..2
  BY DEF TypeOK, GoodAfter
<1>2. new \in {"booting", "healthy", "unhealthy"} /\ (state[i] # "booting" => new # "booting")
  BY DEF TypeOK, StateAfter
<1>3. /\ state' = [state EXCEPT ![i] = new]
      /\ good' = [good EXCEPT ![i] = g]
      /\ reports' = reports \cup {[item |-> i, ready |-> new = "healthy"]}
  BY DEF Check, Publish
<1> HIDE DEF new, g
<1>4. state'[i] = new
  BY <1>3 DEF TypeOK
<1> QED BY <1>1, <1>2, <1>3, <1>4 DEF TypeOK

LEMMA NextIInv == IInv /\ [Next]_vars => IInv'
<1> USE StagedHealthAssumption
<1> SUFFICES ASSUME IInv, [Next]_vars PROVE IInv'
  OBVIOUS
<1> USE DEF IInv
<1>1. ASSUME NEW i \in Items, ComeUp(i) PROVE IInv'
  BY <1>1 DEF ComeUp, TypeOK, trackerVars, sidecarVars, WasHealthy, HealthyIsDeployed,
     ReadyWasHealthy, StagesWereHealthy, AskedIsSignalled, ItemsOf
<1>2. ASSUME NEW i \in Items, GoDown(i) PROVE IInv'
  BY <1>2 DEF GoDown, TypeOK, trackerVars, sidecarVars, WasHealthy, HealthyIsDeployed,
     ReadyWasHealthy, StagesWereHealthy, AskedIsSignalled, ItemsOf
<1>3. ASSUME NEW i \in Items, Check(i) PROVE IInv'
  <2>1. /\ i \in deployed
        /\ UNCHANGED <<pc, stage, readyNow, signalled, asked, deployed, up>>
    BY <1>3 DEF Check, trackerVars
  <2> DEFINE r == [item |-> i, ready |-> state'[i] = "healthy"]
  <2>2. /\ state' \in [Items -> {"booting", "healthy", "unhealthy"}]
        /\ good' \in [Items -> 0..2]
        /\ \A j \in Items : j # i => state'[j] = state[j]
        /\ state[i] # "booting" => state'[i] # "booting"
        /\ reports' = reports \cup {r}
    BY <1>3, CheckFacts
  <2>3. r \in Report /\ r.item = i /\ (r.ready => state'[i] = "healthy")
    BY DEF Report
  <2> HIDE DEF r
  <2>4. WasHealthy \subseteq WasHealthy' /\ WasHealthy' \subseteq WasHealthy \cup {i}
    BY <2>2 DEF WasHealthy
  <2>5. TypeOK'
    BY <2>1, <2>2, <2>3 DEF TypeOK, ItemsOf
  <2>6. HealthyIsDeployed'
    BY <2>1, <2>4 DEF HealthyIsDeployed
  <2>7. r.ready => i \in WasHealthy'
    BY <2>3 DEF WasHealthy
  <2>8. ReadyWasHealthy'
    BY <2>1, <2>2, <2>3, <2>4, <2>7 DEF ReadyWasHealthy
  <2>9. StagesWereHealthy' /\ AskedIsSignalled'
    BY <2>1, <2>4 DEF StagesWereHealthy, AskedIsSignalled, ItemsOf
  <2> QED BY <2>5, <2>6, <2>8, <2>9
<1>4. ASSUME NEW i \in Items, DeployItem(i) PROVE IInv'
  BY <1>4 DEF DeployItem, TypeOK, trackerVars, sidecarVars, WasHealthy, HealthyIsDeployed,
     ReadyWasHealthy, StagesWereHealthy, AskedIsSignalled, ItemsOf
<1>5. ASSUME NEW r \in reports, Deliver(r) PROVE IInv'
  <2>1. /\ UNCHANGED <<pc, stage, asked, deployed, up, state, good>>
        /\ reports' \subseteq reports
    BY <1>5 DEF Deliver, sidecarVars
  <2>2. WasHealthy' = WasHealthy
    BY <2>1 DEF WasHealthy
  <2>3. /\ readyNow' \subseteq ItemsOf(stage) /\ readyNow' \subseteq WasHealthy
        /\ signalled' \in BOOLEAN
        /\ signalled' => signalled \/ ItemsOf(stage) \subseteq readyNow'
        /\ signalled => signalled'
    <3>1. r.item \in Items /\ (r.ready => r.item \in WasHealthy)
      BY DEF TypeOK, Report, ReadyWasHealthy
    <3>2. CASE ~Expected(r.item)
      BY <1>5, <3>2 DEF Deliver, Heed, TypeOK, ReadyWasHealthy
    <3>3. CASE Expected(r.item)
      <4>1. /\ readyNow' = IF r.ready THEN readyNow \cup {r.item} ELSE readyNow \ {r.item}
            /\ signalled' = (signalled \/ ItemsOf(stage) \subseteq readyNow')
        BY <1>5, <3>3 DEF Deliver, Heed, AllReady
      <4>2. r.item \in ItemsOf(stage)
        BY <3>1, <3>3 DEF Expected, ItemsOf
      <4> QED BY <3>1, <4>1, <4>2 DEF TypeOK, ReadyWasHealthy
    <3> QED BY <3>2, <3>3
  <2>4. TypeOK'
    BY <2>1, <2>3 DEF TypeOK, ItemsOf
  <2>5. HealthyIsDeployed' /\ ReadyWasHealthy'
    BY <2>1, <2>2, <2>3 DEF HealthyIsDeployed, ReadyWasHealthy
  <2>6. StagesWereHealthy'
    BY <2>1, <2>2, <2>3 DEF StagesWereHealthy, ItemsOf
  <2>7. AskedIsSignalled'
    BY <2>1, <2>3 DEF AskedIsSignalled
  <2> QED BY <2>4, <2>5, <2>6, <2>7
<1>6. ASSUME NEW r \in reports, Lose(r) PROVE IInv'
  BY <1>6 DEF Lose, TypeOK, trackerVars, sidecarVars, WasHealthy, HealthyIsDeployed,
     ReadyWasHealthy, StagesWereHealthy, AskedIsSignalled, ItemsOf
<1>7. CASE StageReady
  <2>1. /\ UNCHANGED <<stage, readyNow, signalled, deployed, up, state, good, reports>>
        /\ pc = "waiting" /\ signalled
        /\ \/ stage < LastStage /\ pc' = "deploying" /\ asked' = TRUE
           \/ ~(stage < LastStage) /\ pc' = "testing" /\ asked' = asked
    BY <1>7 DEF StageReady, trackerVars, sidecarVars
  <2>2. TypeOK'
    BY <2>1 DEF TypeOK, ItemsOf
  <2>3. HealthyIsDeployed' /\ ReadyWasHealthy' /\ StagesWereHealthy'
    BY <2>1 DEF HealthyIsDeployed, ReadyWasHealthy, StagesWereHealthy, ItemsOf, WasHealthy
  <2>4. AskedIsSignalled'
    BY <2>1 DEF AskedIsSignalled, TypeOK
  <2> QED BY <2>2, <2>3, <2>4
<1>8. CASE Timeout \/ DeployFails \/ ClientTimeout
  <2>1. /\ UNCHANGED <<stage, readyNow, signalled, deployed, up, state, good, reports>>
        /\ pc' = "failed"
        /\ asked' = asked \/ asked' = FALSE
    BY <1>8 DEF Timeout, DeployFails, ClientTimeout, trackerVars, sidecarVars
  <2>2. TypeOK'
    BY <2>1 DEF TypeOK, ItemsOf
  <2>3. HealthyIsDeployed' /\ ReadyWasHealthy' /\ StagesWereHealthy'
    BY <2>1 DEF HealthyIsDeployed, ReadyWasHealthy, StagesWereHealthy, ItemsOf, WasHealthy
  <2>4. AskedIsSignalled'
    BY <2>1 DEF AskedIsSignalled
  <2> QED BY <2>2, <2>3, <2>4
<1>9. CASE StageDeployed
  <2>1. /\ UNCHANGED <<deployed, up, state, good, reports>>
        /\ asked' = FALSE /\ pc' = "waiting" /\ stage' = stage + 1 /\ readyNow' = {}
        /\ signalled' = (ItemsOf(stage + 1) = {})
        /\ pc = "deploying"
    BY <1>9 DEF StageDeployed, sidecarVars, SignalAfterReset
  <2>2. stage + 1 \in 0..LastStage /\ signalled
    BY <2>1 DEF AskedIsSignalled, TypeOK
  <2>3. TypeOK'
    BY <2>1, <2>2 DEF TypeOK
  <2>4. HealthyIsDeployed' /\ ReadyWasHealthy'
    BY <2>1 DEF HealthyIsDeployed, ReadyWasHealthy, WasHealthy
  <2>5. \A i \in Items : StageOf[i] < stage + 1 => i \in WasHealthy
    BY <2>2 DEF StagesWereHealthy, ItemsOf, TypeOK
  <2>6. StagesWereHealthy'
    BY <2>1, <2>5 DEF StagesWereHealthy, WasHealthy, ItemsOf
  <2>7. AskedIsSignalled'
    BY <2>1 DEF AskedIsSignalled
  <2> QED BY <2>3, <2>4, <2>6, <2>7
<1>10. CASE UNCHANGED vars
  BY <1>10 DEF vars, TypeOK, trackerVars, sidecarVars, WasHealthy, HealthyIsDeployed,
     ReadyWasHealthy, StagesWereHealthy, AskedIsSignalled, ItemsOf
<1> QED BY <1>1, <1>2, <1>3, <1>4, <1>5, <1>6, <1>7, <1>8, <1>9, <1>10 DEF Next

\* Every state of the boot is of its type: in particular the tracker has marks
\* of the current stage's items only, whatever reports reach it.
THEOREM TypeCorrect == Spec => []TypeOK
<1>1. IInv => TypeOK
  BY DEF IInv
<1> QED BY InitIInv, NextIInv, <1>1, PTL DEF Spec

-----------------------------------------------------------------------------
LEMMA StepRefines == IInv /\ IInv' /\ [Next]_vars => [Boot!Next]_(Boot!vars)
<1> USE StagedHealthAssumption
<1> SUFFICES ASSUME IInv, IInv', [Next]_vars PROVE [Boot!Next]_(Boot!vars)
  OBVIOUS
<1> USE DEF IInv
<1>1. ASSUME UNCHANGED <<deployed, state>>, pc # "testing", pc' # "testing"
      PROVE  UNCHANGED Boot!vars
  BY <1>1 DEF Boot!vars
<1>2. ASSUME NEW i \in Items, ComeUp(i) PROVE UNCHANGED Boot!vars
  BY <1>2 DEF ComeUp, sidecarVars, Boot!vars
<1>3. ASSUME NEW i \in Items, GoDown(i) PROVE UNCHANGED Boot!vars
  BY <1>3 DEF GoDown, sidecarVars, Boot!vars
<1>4. ASSUME NEW i \in Items, Check(i) PROVE [Boot!Next]_(Boot!vars)
  <2>1. i \in deployed /\ UNCHANGED <<pc, deployed>>
    BY <1>4 DEF Check
  <2>2. /\ \A j \in Items : j # i => state'[j] = state[j]
        /\ state[i] # "booting" => state'[i] # "booting"
    BY <1>4, CheckFacts
  <2>3. CASE state'[i] = "booting"
    <3>1. WasHealthy' = WasHealthy
      BY <2>2, <2>3 DEF WasHealthy
    <3> QED BY <2>1, <3>1 DEF Boot!vars, WasHealthy
  <2>4. CASE state'[i] # "booting"
    <3>1. WasHealthy' = WasHealthy \cup {i}
      BY <2>2, <2>4 DEF WasHealthy
    <3>2. Boot!BecomeHealthy(i)
      BY <2>1, <3>1 DEF Boot!BecomeHealthy, WasHealthy
    <3> QED BY <3>2 DEF Boot!Next
  <2> QED BY <2>3, <2>4
<1>5. ASSUME NEW i \in Items, DeployItem(i) PROVE [Boot!Next]_(Boot!vars)
  <2>1. /\ asked /\ StageOf[i] = stage + 1
        /\ deployed' = deployed \cup {i} /\ UNCHANGED <<pc, state>>
    BY <1>5 DEF DeployItem, ItemsOf, sidecarVars
  <2>2. Boot!EarlierThan(StageOf[i]) \subseteq WasHealthy
    BY <2>1 DEF Boot!EarlierThan, StagesWereHealthy, AskedIsSignalled, ItemsOf, TypeOK
  <2>3. Boot!Deploy(i)
    BY <2>1, <2>2 DEF Boot!Deploy, WasHealthy
  <2> QED BY <2>3 DEF Boot!Next
<1>6. ASSUME NEW r \in reports, Deliver(r) \/ Lose(r) PROVE UNCHANGED Boot!vars
  BY <1>6 DEF Deliver, Lose, sidecarVars, Boot!vars
<1>7. CASE StageReady
  <2>1. CASE stage < LastStage
    BY <1>7, <2>1, <1>1 DEF StageReady, sidecarVars
  <2>2. CASE ~(stage < LastStage)
    <3>1. /\ pc' = "testing" /\ signalled /\ UNCHANGED <<deployed, state>>
      BY <1>7, <2>2 DEF StageReady, sidecarVars
    <3>2. \A i \in Items : i \in WasHealthy
      BY <2>2, <3>1 DEF StagesWereHealthy, ItemsOf, TypeOK
    <3>3. Boot!StartTests
      BY <3>1, <3>2 DEF Boot!StartTests, WasHealthy
    <3> QED BY <3>3 DEF Boot!Next
  <2> QED BY <2>1, <2>2
<1>8. CASE Timeout \/ DeployFails \/ ClientTimeout \/ StageDeployed
  BY <1>8, <1>1 DEF Timeout, DeployFails, ClientTimeout, StageDeployed, sidecarVars
<1>9. CASE UNCHANGED vars
  BY <1>9 DEF vars, sidecarVars, Boot!vars
<1> QED BY <1>2, <1>3, <1>4, <1>5, <1>6, <1>7, <1>8, <1>9 DEF Next

\* The boot implements StagedBoot, for every assignment of items to stages:
\* no container of a stage starts before every item of the stages below has
\* been healthy, and no test before all have.
THEOREM BootsInOrderCorrect == Spec => BootsInOrder
<1>1. Init => Boot!Init
  <2> SUFFICES ASSUME Init PROVE Boot!Init
    OBVIOUS
  <2>1. deployed \subseteq Boot!EarlierThan(1)
    BY StagedHealthAssumption DEF Init, ItemsOf, Boot!EarlierThan
  <2> QED BY <2>1 DEF Init, Boot!Init
<1> QED BY <1>1, InitIInv, NextIInv, StepRefines, PTL DEF Spec, BootsInOrder, Boot!Spec

=============================================================================
