---------------------------- MODULE StagedHealth ----------------------------
(***************************************************************************)
(* How an instance boots.  The Control Tower starts the items of stage 0   *)
(* and the test agent; beside each item a sidecar checks it, again and     *)
(* again, and sends each result to the test agent in a goroutine of its    *)
(* own, so that results may be lost, repeated or overtaken by later ones.  *)
(* The agent's tracker listens to the items of the current stage only.     *)
(* When all of them are ready the agent asks the Control Tower for the     *)
(* next stage and, when that is deployed, begins to listen to it; after    *)
(* the last stage it runs the tests.                                       *)
(*                                                                         *)
(* The instance has one execution, as in auto mode, the only one that the  *)
(* deployer configures.                                                    *)
(***************************************************************************)
EXTENDS Naturals, FiniteSets

CONSTANTS
    Items,
    StageOf,    \* the stage of each item
    LastStage,  \* number of stages - 1
    Eager       \* databases and brokers: one good check is enough, not two

ASSUME StagedHealthAssumption ==
    /\ LastStage \in Nat
    /\ StageOf \in [Items -> 0..LastStage]
    /\ Eager \subseteq Items

VARIABLES
    pc,         \* the agent: "waiting", "deploying", "testing" or "failed"
    stage,      \* stageIdx of runExecution
    readyNow,   \* items the tracker has as ready (healthStatus)
    signalled,  \* allReadyChan is closed
    asked,      \* the Control Tower is handling a run-stage request
    deployed,   \* items whose containers were started
    up,         \* items that would pass a check now
    state,      \* HealthState of each item's sidecar
    good,       \* consecutiveReady of each item's sidecar, up to 2
    reports     \* results on their way to the agent

trackerVars == <<stage, readyNow, signalled>>
sidecarVars == <<state, good>>
vars == <<pc, trackerVars, asked, deployed, up, sidecarVars, reports>>

ItemsOf(s) == {i \in Items : StageOf[i] = s}

Report == [item : Items, ready : BOOLEAN]

TypeOK ==
    /\ pc \in {"waiting", "deploying", "testing", "failed"}
    /\ stage \in 0..LastStage
    /\ readyNow \subseteq ItemsOf(stage)
    /\ signalled \in BOOLEAN
    /\ asked \in BOOLEAN
    /\ deployed \subseteq Items
    /\ up \subseteq deployed
    /\ state \in [Items -> {"booting", "healthy", "unhealthy"}]
    /\ good \in [Items -> 0..2]
    /\ reports \subseteq Report

Init ==
    /\ pc = "waiting"
    /\ stage = 0
    /\ readyNow = {}
    /\ signalled = (ItemsOf(0) = {})
    /\ asked = FALSE
    /\ deployed = ItemsOf(0)
    /\ up = {}
    /\ state = [i \in Items |-> "booting"]
    /\ good = [i \in Items |-> 0]
    /\ reports = {}

-----------------------------------------------------------------------------
(* Items and their sidecars.                                               *)

\* Once the boot is over, items and reports no longer matter to it.
Booting == pc \in {"waiting", "deploying"}

\* An item comes up, or goes down again, at any time.
ComeUp(i) ==
    /\ Booting
    /\ i \in deployed \ up
    /\ up' = up \cup {i}
    /\ UNCHANGED <<pc, trackerVars, asked, deployed, sidecarVars, reports>>

GoDown(i) ==
    /\ Booting
    /\ i \in up
    /\ up' = up \ {i}
    /\ UNCHANGED <<pc, trackerVars, asked, deployed, sidecarVars, reports>>

\* updateState: how many good checks in a row make an item healthy.
Needed(i) == IF i \in Eager THEN 1 ELSE 2

GoodAfter(i, ready) ==
    IF ~ready THEN 0 ELSE IF good[i] = 2 THEN 2 ELSE good[i] + 1

StateAfter(i, ready) ==
    CASE state[i] = "healthy" -> IF ready THEN "healthy" ELSE "unhealthy"
      [] state[i] # "healthy" ->
            IF GoodAfter(i, ready) >= Needed(i) THEN "healthy" ELSE state[i]

\* A mutant of Publish: only a change is reported.
PublishChange(i, old, new) ==
    IF (old = "healthy") # (new = "healthy")
    THEN {[item |-> i, ready |-> new = "healthy"]}
    ELSE {}

\* publishStatus: every check is reported, "healthy" as ready.
Publish(i, old, new) == {[item |-> i, ready |-> new = "healthy"]}

\* performCheck.
Check(i) ==
    /\ i \in deployed
    /\ Booting
    /\ LET new == StateAfter(i, i \in up) IN
       /\ state' = [state EXCEPT ![i] = new]
       /\ good' = [good EXCEPT ![i] = GoodAfter(i, i \in up)]
       /\ reports' = reports \cup Publish(i, state[i], new)
    /\ UNCHANGED <<pc, trackerVars, asked, deployed, up>>

\* The last attempt to send a report fails, or the sidecar gives it up.
Lose(r) ==
    /\ Booting
    /\ reports' = reports \ {r}
    /\ UNCHANGED <<pc, trackerVars, asked, deployed, up, sidecarVars>>

-----------------------------------------------------------------------------
(* The tracker.                                                            *)

\* UpdateHealth: whether the item is in the current stage.
Expected(i) == StageOf[i] = stage

AllReady(S) == ItemsOf(stage) \subseteq S

\* UpdateHealth and checkAndSignalAllReady.  The channel stays closed.
Heed(r) ==
    IF ~Expected(r.item)
    THEN UNCHANGED <<readyNow, signalled>>
    ELSE /\ readyNow' = IF r.ready THEN readyNow \cup {r.item} ELSE readyNow \ {r.item}
         /\ signalled' = (signalled \/ AllReady(readyNow'))

\* POST /health/status.  If the response is lost the sidecar sends the report
\* again.
Deliver(r) ==
    /\ Booting
    /\ Heed(r)
    /\ reports' \in {reports, reports \ {r}}
    /\ UNCHANGED <<pc, stage, asked, deployed, up, sidecarVars>>

-----------------------------------------------------------------------------
(* The agent's loop over the stages, and the Control Tower's part in it.   *)

\* The stage is ready: ask for the next one, or run the tests.
StageReady ==
    /\ pc = "waiting"
    /\ signalled
    /\ IF stage < LastStage
       THEN pc' = "deploying" /\ asked' = TRUE
       ELSE pc' = "testing" /\ UNCHANGED asked
    /\ UNCHANGED <<trackerVars, deployed, up, sidecarVars, reports>>

\* The timer of the stage runs out.
Timeout ==
    /\ pc = "waiting"
    /\ pc' = "failed"
    /\ UNCHANGED <<trackerVars, asked, deployed, up, sidecarVars, reports>>

\* deployStage starts the stage's containers, in any order.
DeployItem(i) ==
    /\ asked
    /\ i \in ItemsOf(stage + 1) \ deployed
    /\ deployed' = deployed \cup {i}
    /\ UNCHANGED <<pc, trackerVars, asked, up, sidecarVars, reports>>

\* A mutant of SignalAfterReset: Reset keeps the closed channel.
SignalKept(s) == signalled

\* Reset makes a new channel; checkAndSignalAllReady closes it for an empty
\* stage.
SignalAfterReset(s) == ItemsOf(s) = {}

\* deployStage is done and the agent still waits for the answer.  Only now
\* does it Reset the tracker: what the new items have reported so far was
\* dropped.
StageDeployed ==
    /\ pc = "deploying"
    /\ ItemsOf(stage + 1) \subseteq deployed
    /\ asked' = FALSE
    /\ pc' = "waiting"
    /\ stage' = stage + 1
    /\ readyNow' = {}
    /\ signalled' = SignalAfterReset(stage + 1)
    /\ UNCHANGED <<deployed, up, sidecarVars, reports>>

\* deployStage fails, whatever it has started until then.
DeployFails ==
    /\ pc = "deploying"
    /\ asked' = FALSE
    /\ pc' = "failed"
    /\ UNCHANGED <<trackerVars, deployed, up, sidecarVars, reports>>

\* callCTRunStage's client waits 30 s.  The Control Tower goes on.
ClientTimeout ==
    /\ pc = "deploying"
    /\ pc' = "failed"
    /\ UNCHANGED <<trackerVars, asked, deployed, up, sidecarVars, reports>>

-----------------------------------------------------------------------------
Next ==
    \/ \E i \in Items : ComeUp(i) \/ GoDown(i) \/ Check(i) \/ DeployItem(i)
    \/ \E r \in reports : Deliver(r) \/ Lose(r)
    \/ StageReady
    \/ Timeout
    \/ StageDeployed
    \/ DeployFails
    \/ ClientTimeout

Spec == Init /\ [][Next]_vars

\* The agent and the Control Tower go on, the sidecars' tickers tick, a report
\* is given up after three attempts, and of the ready reports that a sidecar
\* keeps sending some arrive.  Items need not come up, and the timers of the
\* agent need not run out first.
Fairness ==
    /\ WF_vars(StageReady)
    /\ WF_vars(StageDeployed)
    /\ \A i \in Items :
          /\ WF_vars(DeployItem(i))
          /\ WF_vars(Check(i))
          /\ WF_vars(LET r == [item |-> i, ready |-> FALSE] IN r \in reports /\ Lose(r))
          /\ SF_vars(LET r == [item |-> i, ready |-> TRUE] IN r \in reports /\ Deliver(r))

FairSpec == Spec /\ Fairness

-----------------------------------------------------------------------------
(* Properties.                                                             *)

\* The boot keeps the promise of StagedBoot: no container of a stage starts
\* before every item of the stages below has been healthy, and no test before
\* all have, although the tracker forgets each stage at the next, its channel
\* stays closed when items go down again, and reports of any item may arrive
\* at any time.  About Reset, UpdateHealth and the loop of runExecution.
Boot == INSTANCE StagedBoot WITH
    healthy <- {i \in Items : state[i] # "booting"},
    testing <- pc = "testing"

BootsInOrder == Boot!Spec

\* An instance whose items come up and stay up boots, unless a timer runs out
\* or a deployment fails: no report that is lost, late, or dropped because
\* the tracker did not listen to the stage yet is missed for good, since each
\* check is reported anew.
BootsIfUp ==
    []<>(~Booting \/ deployed \ up # {})

=============================================================================
