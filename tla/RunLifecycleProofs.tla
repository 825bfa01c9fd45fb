------------------------ MODULE RunLifecycleProofs ------------------------
(***************************************************************************)
(* Proofs about one run of the Control Tower, for any number of            *)
(* instances, scheduler chains, slots, stages and restarts.                *)
(***************************************************************************)
EXTENDS RunLifecycle, FiniteSetTheorems, TLAPS

\* The tuples that the frame condition of every action is written with.
USE DEF vars, dbVars, schedVars, deployVars, stopVars, memVars, dockerVars,
        procVars

\* A stage that is being deployed is one of the instance's stages.
StageInBounds ==
    \A i \in Instances : stagePc[i] = "items" => stage[i] < LastStage

-----------------------------------------------------------------------------
(* Type correctness                                                        *)

\* createRun leaves variables of the right type.
LEMMA TypeInit == Init => TypeOK
  BY ConstantsAssumption
  DEF Init, TypeOK, RunStatus, ActiveRun, InstanceStatus, TestStatus, SubmitPc,
      TaskPc, IdleTask, TaskAt, DeployPc, StagePc, StopPc, CrashPc

\* The submission of a definition preserves the type invariant.
LEMMA TypeSubmit ==
  ASSUME TypeOK, NEW i \in Instances, SubmitRead(i) \/ SubmitStep(i)
  PROVE  TypeOK'
  <1>1. submit[i] \in [pc : SubmitPc, run : RunStatus]
    BY DEF TypeOK
  <1>2. CASE SubmitRead(i)
    BY <1>2 DEF TypeOK, SubmitRead, SetSubmit, SubmitPc
  <1>3. CASE SubmitTx(i)
    BY <1>1, <1>3
    DEF TypeOK, SubmitTx, SetSubmit, SubmitPc, RunStatus, ActiveRun
  <1>4. CASE SubmitDefinition(i)
    <2>1. submit' \in [Instances -> [pc : SubmitPc, run : RunStatus]]
      BY <1>1, <1>4 DEF TypeOK, SubmitDefinition, SetSubmit, SubmitPc
    <2>2. definition' \in [Instances -> {"absent", "partial", "complete"}]
      BY <1>4 DEF TypeOK, SubmitDefinition
    <2> QED BY <1>4, <2>1, <2>2 DEF TypeOK, SubmitDefinition, SetSubmit
  <1>5. CASE SubmitFinish(i)
    BY <1>1, <1>5 DEF TypeOK, SubmitFinish, SetSubmit, SubmitPc
  <1> QED BY <1>2, <1>3, <1>4, <1>5 DEF SubmitStep

\* The scheduler's chains preserve the type invariant.
LEMMA TypeTask ==
  ASSUME TypeOK, NEW c \in Callers, Poll(c) \/ TaskStep(c)
  PROVE  TypeOK'
  <1> DEFINE Task == [pc : TaskPc, todo : SUBSET Instances, slots : Int,
                      failed : BOOLEAN]
  <1>1. task[c] \in Task
    BY DEF TypeOK
  <1>2. IdleTask \in Task
    BY DEF IdleTask, TaskAt, TaskPc
  <1>3. CASE Poll(c)
    <2>1. TaskAt("deploy") \in Task
      BY DEF IdleTask, TaskAt, TaskPc
    <2> QED BY <1>3, <2>1 DEF TypeOK, Poll, SetTask
  <1>4. CASE HandleInstancesStopped(c)
    <2>1. TaskAt("check") \in Task
      BY DEF IdleTask, TaskAt, TaskPc
    <2> QED BY <1>4, <2>1 DEF TypeOK, HandleInstancesStopped, SetTask
  <1>5. CASE CheckRead(c)
    <2>1. TaskAt("deploy") \in Task
      BY DEF TaskAt, TaskPc
    <2>2. \A todo \in SUBSET Instances, failed \in BOOLEAN :
             [pc |-> "defs", todo |-> todo, slots |-> 0, failed |-> failed] \in Task
      BY DEF TaskPc
    <2>3. \E t \in Task : task' = [task EXCEPT ![c] = t]
      BY <1>5, <2>1, <2>2 DEF CheckRead, SetTask
    <2> QED BY <1>5, <2>3 DEF TypeOK, CheckRead, SetTask
  <1>6. CASE CheckWrite(c)
    <2>1. TaskAt("deploy") \in Task
      BY DEF IdleTask, TaskAt, TaskPc
    <2> QED BY <1>6, <2>1 DEF TypeOK, CheckWrite, SetTask, RunStatus, TerminalRun
  <1>7. CASE DeployRead(c)
    <2>1. SlotsAvailable \in Int
      BY ConstantsAssumption, FS_Subset, FS_CardinalityType
      DEF SlotsAvailable, Active, Starting
    <2>2. task' \in [Callers -> Task]
      BY <1>2, <1>7, <2>1 DEF TypeOK, DeployRead, SetTask, IdleTask, TaskAt, TaskPc
    <2> QED BY <1>7, <2>2 DEF TypeOK, DeployRead, SetTask
  <1>8. CASE ClaimEnd(c)
    BY <1>2, <1>8 DEF TypeOK, ClaimEnd, SetTask
  <1>9. ASSUME NEW i \in Instances, CheckDefinition(c, i)
        PROVE  TypeOK'
    <2>1. task' \in [Callers -> Task]
      BY <1>1, <1>9 DEF TypeOK, CheckDefinition, SetTask, IdleTask, TaskAt, TaskPc
    <2> QED BY <1>9, <2>1 DEF TypeOK, CheckDefinition, SetTask
  <1>10. ASSUME NEW i \in Instances, Claim(c, i)
         PROVE  TypeOK'
    <2>1. \A n \in Int : [pc |-> "claim", todo |-> task[c].todo \ {i},
                          slots |-> n, failed |-> FALSE] \in Task
      BY <1>1 DEF TaskPc
    <2>2. task[c].slots \in Int /\ task[c].slots - 1 \in Int
      BY <1>1
    <2>3. \E t \in Task : task' = [task EXCEPT ![c] = t]
      BY <1>2, <1>10, <2>1, <2>2 DEF Claim, ClaimGoesOn, SetTask
    <2>4. task' \in [Callers -> Task]
      BY <2>3 DEF TypeOK
    <2>5. status' \in [Instances -> InstanceStatus]
      BY <1>10 DEF TypeOK, Claim, InstanceStatus
    <2>6. deploy' \in [Instances -> DeployPc] /\ deploys' \in [Instances -> Nat]
      BY <1>10 DEF TypeOK, Claim, DeployPc
    <2> QED BY <1>10, <2>4, <2>5, <2>6 DEF TypeOK, Claim, ClaimGoesOn, SetTask
  <1> QED BY <1>3, <1>4, <1>5, <1>6, <1>7, <1>8, <1>9, <1>10 DEF TaskStep

\* A teardown only takes elements out of the sets it changes.
LEMMA TypeTeardown ==
  ASSUME TypeOK, NEW i \in Instances, Teardown(i) \/ TeardownFails(i)
  PROVE  /\ sessions' \subseteq Instances /\ monitors' \subseteq Instances
         /\ networks' \subseteq Instances /\ containers' \subseteq Instances
         /\ crashed' \subseteq Instances
  <1>1. CASE Teardown(i)
    BY <1>1 DEF TypeOK, Teardown
  <1>2. CASE TeardownFails(i)
    BY <1>2 DEF TypeOK, TeardownFails
  <1> QED BY <1>1, <1>2

\* deploy preserves the type invariant.
LEMMA TypeDeploy ==
  ASSUME TypeOK, NEW i \in Instances, DeployStep(i)
  PROVE  TypeOK'
  <1>1. CASE DeployStart(i)
    BY <1>1 DEF TypeOK, DeployStart, DeployGoto, DeployPc, InstanceStatus
  <1>2. CASE DeployPull(i)
    BY <1>2 DEF TypeOK, DeployPull, DeployGoto, DeployPc
  <1>3. CASE DeployNetwork(i)
    BY <1>3 DEF TypeOK, DeployNetwork, DeployGoto, DeployPc
  <1>4. CASE DeployAgent(i)
    BY <1>4 DEF TypeOK, DeployAgent, DeployGoto, DeployPc
  <1>5. CASE DeployItems(i)
    BY <1>5 DEF TypeOK, DeployItems, DeployGoto, DeployPc
  <1>6. CASE DeployRunning(i)
    BY <1>6 DEF TypeOK, DeployRunning, DeployGoto, DeployPc, InstanceStatus
  <1>7. CASE DeployFail(i)
    BY <1>7 DEF TypeOK, DeployFail, DeployErrorPc, DeployGoto, DeployPc
  <1>8. CASE DeployFailTeardown(i)
    BY <1>8, TypeTeardown DEF TypeOK, DeployFailTeardown, DeployGoto, DeployPc
  <1>9. CASE DeployFailMark(i)
    BY <1>9 DEF TypeOK, DeployFailMark, DeployGoto, DeployPc, InstanceStatus,
                Terminal
  <1>10. CASE DeployFailReport(i)
    BY <1>10 DEF TypeOK, DeployFailReport, DeployGoto, DeployPc,
                 InstanceStatus, Terminal
  <1> QED BY <1>1, <1>2, <1>3, <1>4, <1>5, <1>6, <1>7, <1>8, <1>9, <1>10
          DEF DeployStep

\* deployStage preserves the type invariant: an agent asks for no stage
\* beyond the last one, and for one at a time.
LEMMA TypeStage ==
  ASSUME TypeOK, NEW i \in Instances, StageStep(i), StageInBounds
  PROVE  TypeOK'
  <1>1. CASE RunStage(i)
    BY <1>1 DEF TypeOK, RunStage, StageGoto, StagePc
  <1>2. CASE StageItems(i)
    <2>1. stage[i] + 1 \in 0 .. LastStage
      BY <1>2, ConstantsAssumption DEF TypeOK, StageInBounds, StageItems
    <2> QED BY <1>2, <2>1 DEF TypeOK, StageItems, StageGoto, StagePc
  <1>3. CASE StageRunning(i)
    BY <1>3 DEF TypeOK, StageRunning, StageGoto, StagePc, InstanceStatus
  <1>4. CASE StageFail(i)
    BY <1>4 DEF TypeOK, StageFail, StageGoto, StagePc
  <1>5. CASE StageFailTeardown(i)
    BY <1>5, TypeTeardown DEF TypeOK, StageFailTeardown, StageGoto, StagePc
  <1>6. CASE StageFailMark(i)
    BY <1>6 DEF TypeOK, StageFailMark, StageGoto, StagePc, InstanceStatus,
                Terminal
  <1> QED BY <1>1, <1>2, <1>3, <1>4, <1>5, <1>6 DEF StageStep

\* stopInstance and its callers preserve the type invariant.
LEMMA TypeStop ==
  ASSUME TypeOK, NEW i \in Instances,
         \/ \E w \in Stoppers : StopStep(w, i)
         \/ StopApi(i) \/ StopInstancesMark(i)
  PROVE  TypeOK'
  <1>0. \A w \in Stoppers, pc \in StopPc :
          StopGoto(w, i, pc) => stop' \in [Stoppers -> [Instances -> StopPc]]
    BY DEF TypeOK, StopGoto
  <1>1. ASSUME NEW w \in Stoppers, StopBegin(w, i)
        PROVE  TypeOK'
    <2>1. stop' \in [Stoppers -> [Instances -> StopPc]]
      BY <1>0, <1>1 DEF StopBegin, StopPc
    <2> QED BY <1>1, <2>1 DEF TypeOK, StopBegin, StopGoto, InstanceStatus
  <1>2. ASSUME NEW w \in Stoppers, StopTeardown(w, i)
        PROVE  TypeOK'
    <2>1. stop' \in [Stoppers -> [Instances -> StopPc]]
      BY <1>0, <1>2 DEF StopTeardown, StopPc
    <2> QED BY <1>2, <2>1, TypeTeardown DEF TypeOK, StopTeardown, StopGoto
  <1>3. ASSUME NEW w \in Stoppers, StopStopped(w, i)
        PROVE  TypeOK'
    <2>1. stop' \in [Stoppers -> [Instances -> StopPc]]
      BY <1>0, <1>3 DEF StopStopped, AfterStop, StopPc
    <2>2. checks' \in Nat
      BY <1>3 DEF TypeOK, StopStopped
    <2> QED BY <1>3, <2>1, <2>2
            DEF TypeOK, StopStopped, StopGoto, InstanceStatus, Terminal
  <1>4. ASSUME NEW w \in Stoppers, StopFailed(w, i)
        PROVE  TypeOK'
    <2>1. stop' \in [Stoppers -> [Instances -> StopPc]]
      BY <1>0, <1>4 DEF StopFailed, AfterStop, StopPc
    <2> QED BY <1>4, <2>1
            DEF TypeOK, StopFailed, StopGoto, InstanceStatus, Terminal
  <1>5. CASE StopApi(i)
    <2>1. stop' \in [Stoppers -> [Instances -> StopPc]]
      BY <1>0, <1>5 DEF StopApi, Stoppers, StopPc
    <2> QED BY <1>5, <2>1 DEF TypeOK, StopApi, StopGoto
  <1>6. CASE StopInstancesMark(i)
    <2>1. stop' \in [Stoppers -> [Instances -> StopPc]]
      BY <1>0, <1>6 DEF StopInstancesMark, Stoppers, StopPc
    <2> QED BY <1>6, <2>1
            DEF TypeOK, StopInstancesMark, StopGoto, InstanceStatus, Terminal
  <1> QED BY <1>1, <1>2, <1>3, <1>4, <1>5, <1>6 DEF StopStep

\* The test agent's report and the exit of a container preserve it.
LEMMA TypeAgent ==
  ASSUME TypeOK, NEW i \in Instances,
         AgentReport(i) \/ HandleTestCompletion(i) \/ ContainerExits(i)
  PROVE  TypeOK'
  <1>1. CASE AgentReport(i)
    <2>1. agent' \in [Instances -> {"off", "running", "passed", "failed", "done"}]
      BY <1>1 DEF TypeOK, AgentReport
    <2> QED BY <1>1, <2>1 DEF TypeOK, AgentReport
  <1>2. CASE HandleTestCompletion(i)
    <2>1. stop' \in [Stoppers -> [Instances -> StopPc]]
      BY <1>2 DEF TypeOK, HandleTestCompletion, StopGoto, Stoppers, StopPc
    <2>2. testStatus' \in [Instances -> TestStatus]
      BY <1>2 DEF TypeOK, HandleTestCompletion, TestStatus
    <2> QED BY <1>2, <2>1, <2>2 DEF TypeOK, HandleTestCompletion, StopGoto
  <1>3. CASE ContainerExits(i)
    BY <1>3 DEF TypeOK, ContainerExits
  <1> QED BY <1>1, <1>2, <1>3

\* The crash monitor preserves it.
LEMMA TypeMonitor ==
  ASSUME TypeOK, NEW i \in Instances, MonitorStep(i)
  PROVE  TypeOK'
  <1>1. CASE MonitorEnds(i)
    BY <1>1 DEF TypeOK, MonitorEnds, MonitorGoto
  <1>2. CASE MonitorSeesCrash(i)
    BY <1>2 DEF TypeOK, MonitorSeesCrash, MonitorGoto, CrashPc
  <1>3. CASE MonitorRechecks(i)
    BY <1>3 DEF TypeOK, MonitorRechecks, MonitorGoto, CrashPc
  <1>4. CASE MonitorMarks(i)
    BY <1>4 DEF TypeOK, MonitorMarks, MonitorGoto, CrashPc, InstanceStatus,
                Terminal
  <1>5. CASE MonitorTeardown(i)
    <2>1. checks' \in Nat
      BY <1>5 DEF TypeOK, MonitorTeardown
    <2> QED BY <1>5, <2>1, TypeTeardown
            DEF TypeOK, MonitorTeardown, MonitorGoto, CrashPc
  <1> QED BY <1>1, <1>2, <1>3, <1>4, <1>5 DEF MonitorStep

\* Cancelling the run, a restart and the recovery preserve it.
LEMMA TypeProcess ==
  ASSUME TypeOK, StopCurrentRun \/ StopFinish \/ Restart \/ BootStep
  PROVE  TypeOK'
  <1>1. ASSUME StopInstances
        PROVE  stop' \in [Stoppers -> [Instances -> StopPc]]
    <2>1. \A i \in Instances : StopInstancesPlan(i) \in StopPc
      BY DEF StopInstancesPlan, StopPc
    <2> QED BY <1>1, <2>1 DEF TypeOK, StopInstances
  <1>2. CASE StopCurrentRun
    BY <1>1, <1>2 DEF TypeOK, StopCurrentRun, StopInstances
  <1>3. CASE StopFinish
    BY <1>3 DEF TypeOK, StopFinish, RunStatus, TerminalRun
  <1>4. CASE Restart
    <2>1. submit' \in [Instances -> [pc : SubmitPc, run : RunStatus]]
      BY <1>4 DEF TypeOK, Restart, SubmitPc
    <2>2. IdleTask \in [pc : TaskPc, todo : SUBSET Instances, slots : Int,
                        failed : BOOLEAN]
      BY DEF IdleTask, TaskAt, TaskPc
    <2>3. stop' \in [Stoppers -> [Instances -> StopPc]]
      BY <1>4 DEF Restart, StopPc
    <2>4. agent' \in [Instances -> {"off", "running", "passed", "failed", "done"}]
      BY <1>4 DEF TypeOK, Restart
    <2>5. restarts' \in 0 .. MaxRestarts
      BY <1>4, ConstantsAssumption DEF TypeOK, Restart
    <2> QED BY <1>4, <2>1, <2>2, <2>3, <2>4, <2>5
            DEF TypeOK, Restart, DeployPc, StagePc, CrashPc
  <1>5. CASE CleanupOrphanedResources
    BY <1>5 DEF TypeOK, CleanupOrphanedResources
  <1>6. CASE RecoverOrphanedRuns
    BY <1>1, <1>6 DEF TypeOK, RecoverOrphanedRuns, StopInstances
  <1> QED BY <1>2, <1>3, <1>4, <1>5, <1>6 DEF BootStep

\* No step takes an instance past its last stage.
LEMMA StageInBoundsStep ==
  ASSUME TypeOK, StageInBounds, [Next]_vars
  PROVE  StageInBounds'
  <1>1. ASSUME NEW i \in Instances, StageStep(i)
        PROVE  StageInBounds'
    <2>1. CASE RunStage(i)
      BY <1>1, <2>1 DEF StageInBounds, TypeOK, RunStage, AwaitsStage, StageGoto
    <2>2. CASE StageItems(i)
      BY <1>1, <2>2 DEF StageInBounds, TypeOK, StageItems, StageGoto
    <2>3. CASE StageRunning(i) \/ StageFail(i) \/ StageFailTeardown(i)
               \/ StageFailMark(i)
      BY <1>1, <2>3 DEF StageInBounds, TypeOK, StageRunning, StageFail,
                        StageFailTeardown, StageFailMark, StageGoto
    <2> QED BY <1>1, <2>1, <2>2, <2>3 DEF StageStep
  <1>2. CASE Restart
    BY <1>2 DEF StageInBounds, Restart
  <1>3. CASE UNCHANGED <<stagePc, stage>>
    BY <1>3 DEF StageInBounds
  <1>4. ASSUME NEW i \in Instances,
               SubmitRead(i) \/ SubmitStep(i)
        PROVE  UNCHANGED <<stagePc, stage>>
    BY <1>4 DEF SubmitRead, SubmitStep, SubmitTx, SubmitDefinition,
                SubmitFinish, SetSubmit
  <1>5. ASSUME NEW i \in Instances, DeployStep(i)
        PROVE  UNCHANGED <<stagePc, stage>>
    BY <1>5 DEF DeployStep, DeployStart, DeployPull, DeployNetwork, DeployAgent,
                DeployItems, DeployRunning, DeployFail, DeployFailTeardown,
                DeployFailMark, DeployFailReport, DeployGoto
  <1>6. ASSUME NEW i \in Instances, MonitorStep(i)
        PROVE  UNCHANGED <<stagePc, stage>>
    BY <1>6 DEF MonitorStep, MonitorEnds, MonitorSeesCrash, MonitorRechecks,
                MonitorMarks, MonitorTeardown, MonitorGoto
  <1>7. ASSUME NEW i \in Instances,
               \/ \E w \in Stoppers : StopStep(w, i)
               \/ StopApi(i) \/ StopInstancesMark(i)
        PROVE  UNCHANGED <<stagePc, stage>>
    BY <1>7 DEF StopStep, StopBegin, StopTeardown, StopStopped, StopFailed,
                StopApi, StopInstancesMark, StopGoto
  <1>8. ASSUME NEW i \in Instances,
               AgentReport(i) \/ HandleTestCompletion(i) \/ ContainerExits(i)
        PROVE  UNCHANGED <<stagePc, stage>>
    BY <1>8 DEF AgentReport, HandleTestCompletion, ContainerExits, StopGoto
  <1>9. ASSUME NEW c \in Callers, Poll(c) \/ TaskStep(c)
        PROVE  UNCHANGED <<stagePc, stage>>
    BY <1>9 DEF Poll, TaskStep, HandleInstancesStopped, CheckRead, CheckWrite,
                DeployRead, ClaimEnd, CheckDefinition, Claim, ClaimGoesOn,
                SetTask
  <1>10. CASE StopCurrentRun \/ StopFinish \/ BootStep
    BY <1>3, <1>10 DEF StopCurrentRun, StopInstances, StopFinish, BootStep,
                       CleanupOrphanedResources, RecoverOrphanedRuns
  <1>11. CASE UNCHANGED vars
    BY <1>3, <1>11
  <1> QED BY <1>1, <1>2, <1>3, <1>4, <1>5, <1>6, <1>7, <1>8, <1>9, <1>10, <1>11
          DEF Next

\* A step of the run, or none, preserves the type invariant.
LEMMA TypeStep ==
  ASSUME TypeOK, StageInBounds, [Next]_vars
  PROVE  TypeOK'
  <1>1. CASE UNCHANGED vars
    BY <1>1 DEF TypeOK
  <1> QED BY <1>1, TypeSubmit, TypeTask, TypeDeploy, TypeStage, TypeStop,
             TypeAgent, TypeMonitor, TypeProcess DEF Next

\* The database rows, the Docker objects and the handlers' states of a run
\* always have the values the code can give them; in particular deployStage
\* never goes past the last stage of the definition.
THEOREM TypeCorrect == Spec => []TypeOK
  <1>1. Init => TypeOK /\ StageInBounds
    BY TypeInit DEF Init, StageInBounds
  <1>2. TypeOK /\ StageInBounds /\ [Next]_vars => (TypeOK /\ StageInBounds)'
    BY TypeStep, StageInBoundsStep
  <1> QED BY <1>1, <1>2, PTL DEF Spec

-----------------------------------------------------------------------------
(* The scheduler's promises.  SingleDeploy, CompletedMeansPassed and       *)
(* EndedLeavesNonePending are not inductive: they rest on what a claim, a  *)
(* report and a snapshot are based on.                                     *)

\* No one has touched an instance that is still PENDING.
PendingIsFresh ==
    \A i \in Instances :
        status[i] = "PENDING" =>
            deploys[i] = 0 /\ deploy[i] = "none" /\ agent[i] = "off"

\* A deploy starts the test agent once: it is off until then.
AgentStartsOnce ==
    \A i \in Instances :
        deploy[i] \in {"start", "pull", "network", "agent"} => agent[i] = "off"

\* A result in the database is that of an agent that will report no other.
ResultIsFinal ==
    \A i \in Instances : testStatus[i] # "NONE" => agent[i] = "done"

\* checkRunCompletion works on an old snapshot, but what made it believe in
\* success is still true of the instances it has dealt with.
SnapshotStillHolds ==
    \A c \in Callers :
        task[c].pc = "defs" /\ ~task[c].failed =>
            \A i \in Instances \ task[c].todo : testStatus[i] = "PASSED"

\* stopCurrentRun: an instance it has no row to write for is not PENDING.
CancelCoversPending ==
    cancelPc = "stopping" =>
        \A i \in Instances : stop["cancel"][i] # "mark" => status[i] # "PENDING"

ClaimInv == PendingIsFresh /\ AgentStartsOnce /\ ResultIsFinal /\ SingleDeploy

VerdictInv == /\ SnapshotStillHolds /\ CancelCoversPending
              /\ CompletedMeansPassed /\ EndedLeavesNonePending

\* Only a claim takes an instance out of PENDING and into a deploy; every
\* other step leaves fresh instances alone.
LEMMA ClaimStep ==
  ASSUME TypeOK, ClaimInv, [Next]_vars
  PROVE  ClaimInv'
  <1> USE DEF ClaimInv, PendingIsFresh, AgentStartsOnce, ResultIsFinal,
              SingleDeploy
  <1>1. CASE UNCHANGED <<status, testStatus, deploy, deploys, agent>>
    BY <1>1
  <1>2. ASSUME NEW i \in Instances, SubmitRead(i) \/ SubmitStep(i)
        PROVE  UNCHANGED <<status, testStatus, deploy, deploys, agent>>
    BY <1>2 DEF SubmitRead, SubmitStep, SubmitTx, SubmitDefinition,
                SubmitFinish, SetSubmit
  <1>3. ASSUME NEW i \in Instances, DeployStep(i)
        PROVE  ClaimInv'
    <2>1. CASE DeployStart(i)
      BY <2>1 DEF TypeOK, DeployStart, DeployGoto
    <2>2. CASE DeployPull(i) \/ DeployNetwork(i)
      BY <2>2 DEF TypeOK, DeployPull, DeployNetwork, DeployGoto
    <2>3. CASE DeployAgent(i)
      BY <2>3 DEF TypeOK, DeployAgent, DeployGoto
    <2>4. CASE DeployItems(i) \/ DeployRunning(i)
      BY <2>4 DEF TypeOK, DeployItems, DeployRunning, DeployGoto
    <2>5. CASE DeployFail(i) \/ DeployFailTeardown(i)
      BY <2>5 DEF TypeOK, DeployFail, DeployErrorPc, DeployFailTeardown,
                  DeployGoto
    <2>6. CASE DeployFailMark(i) \/ DeployFailReport(i)
      BY <2>6 DEF TypeOK, DeployFailMark, DeployFailReport, DeployGoto
    <2> QED BY <1>3, <2>1, <2>2, <2>3, <2>4, <2>5, <2>6 DEF DeployStep
  <1>4. ASSUME NEW i \in Instances, StageStep(i)
        PROVE  ClaimInv'
    <2>1. /\ UNCHANGED <<testStatus, deploy, deploys, agent>>
          /\ \A j \in Instances : status'[j] = "PENDING" => status[j] = "PENDING"
      <3>1. CASE StageRunning(i)
        BY <3>1 DEF TypeOK, StageRunning, StageGoto
      <3>2. CASE StageFailMark(i)
        BY <3>2 DEF TypeOK, StageFailMark, StageGoto
      <3>3. CASE RunStage(i) \/ StageItems(i) \/ StageFail(i)
                 \/ StageFailTeardown(i)
        BY <3>3 DEF RunStage, StageItems, StageFail, StageFailTeardown,
                    StageGoto
      <3> QED BY <1>4, <3>1, <3>2, <3>3 DEF StageStep
    <2> QED BY <2>1
  <1>5. ASSUME NEW i \in Instances, MonitorStep(i)
        PROVE  ClaimInv'
    <2>1. /\ UNCHANGED <<testStatus, deploy, deploys, agent>>
          /\ \A j \in Instances : status'[j] = "PENDING" => status[j] = "PENDING"
      BY <1>5 DEF TypeOK, MonitorStep, MonitorEnds, MonitorSeesCrash,
                  MonitorRechecks, MonitorMarks, MonitorTeardown, MonitorGoto
    <2> QED BY <2>1
  <1>6. ASSUME NEW i \in Instances,
               \/ \E w \in Stoppers : StopStep(w, i)
               \/ StopApi(i) \/ StopInstancesMark(i)
        PROVE  ClaimInv'
    <2>1. /\ UNCHANGED <<testStatus, deploy, deploys, agent>>
          /\ \A j \in Instances : status'[j] = "PENDING" => status[j] = "PENDING"
      BY <1>6 DEF TypeOK, StopStep, StopBegin, StopTeardown, StopStopped,
                  StopFailed, StopApi, StopInstancesMark, StopGoto
    <2> QED BY <2>1
  <1>7. ASSUME NEW i \in Instances, AgentReport(i)
        PROVE  ClaimInv'
    <2>1. /\ agent[i] = "running"
          /\ \E r \in {"passed", "failed"} : agent' = [agent EXCEPT ![i] = r]
          /\ UNCHANGED <<status, testStatus, deploy, deploys>>
      BY <1>7 DEF AgentReport
    <2> QED BY <2>1 DEF TypeOK
  <1>8. ASSUME NEW i \in Instances, HandleTestCompletion(i)
        PROVE  ClaimInv'
    BY <1>8 DEF TypeOK, HandleTestCompletion, StopGoto
  <1>9. ASSUME NEW i \in Instances, ContainerExits(i)
        PROVE  ClaimInv'
    BY <1>1, <1>9 DEF ContainerExits
  <1>10. ASSUME NEW c \in Callers, NEW i \in Instances, Claim(c, i)
         PROVE  ClaimInv'
    <2>1. /\ UNCHANGED <<testStatus, agent>>
          /\ \/ UNCHANGED <<status, deploy, deploys>>
             \/ /\ status[i] = "PENDING"
                /\ status' = [status EXCEPT ![i] = "STARTING"]
                /\ \/ /\ deploy' = [deploy EXCEPT ![i] = "start"]
                      /\ deploys' = [deploys EXCEPT ![i] = @ + 1]
                   \/ UNCHANGED <<deploy, deploys>>
      BY <1>10 DEF Claim, Claimable, ClaimGoesOn, SetTask
    <2>2. CASE UNCHANGED <<status, deploy, deploys>>
      BY <2>1, <2>2
    <2>3. CASE status[i] = "PENDING" /\ status' = [status EXCEPT ![i] = "STARTING"]
      <3>1. agent[i] = "off" /\ deploys[i] = 0
        BY <2>3
      <3>2. \A j \in Instances : deploys'[j] # deploys[j] => j = i /\ deploys'[j] = 1
        BY <2>1, <3>1 DEF TypeOK
      <3>3. \A j \in Instances : deploy'[j] # deploy[j] => j = i
        BY <2>1 DEF TypeOK
      <3>4. \A j \in Instances : status'[j] = "PENDING" => j # i /\ status[j] = "PENDING"
        BY <2>3 DEF TypeOK
      <3> QED BY <2>1, <3>1, <3>2, <3>3, <3>4
    <2> QED BY <2>1, <2>2, <2>3
  <1>11. ASSUME NEW c \in Callers,
                \/ Poll(c) \/ HandleInstancesStopped(c) \/ CheckRead(c)
                \/ CheckWrite(c) \/ DeployRead(c) \/ ClaimEnd(c)
                \/ \E i \in Instances : CheckDefinition(c, i)
         PROVE  UNCHANGED <<status, testStatus, deploy, deploys, agent>>
    BY <1>11 DEF Poll, HandleInstancesStopped, CheckRead, CheckWrite,
                 DeployRead, ClaimEnd, CheckDefinition, SetTask
  <1>12. CASE StopCurrentRun \/ StopFinish \/ BootStep
    BY <1>1, <1>12 DEF StopCurrentRun, StopInstances, StopFinish, BootStep,
                       CleanupOrphanedResources, RecoverOrphanedRuns
  <1>13. CASE Restart
    BY <1>13 DEF TypeOK, Restart
  <1>14. CASE UNCHANGED vars
    BY <1>1, <1>14
  <1>15. ASSUME NEW c \in Callers, Poll(c) \/ TaskStep(c)
         PROVE  ClaimInv'
    BY <1>1, <1>10, <1>11, <1>15 DEF TaskStep
  <1> QED BY <1>1, <1>2, <1>3, <1>4, <1>5, <1>6, <1>7, <1>8, <1>9, <1>12,
             <1>13, <1>14, <1>15 DEF Next

\* createRun leaves instances that are fresh and unclaimed.
LEMMA ClaimInit == Init => ClaimInv
  BY DEF Init, ClaimInv, PendingIsFresh, AgentStartsOnce, ResultIsFinal,
         SingleDeploy

\* A result that is stored stays, and PENDING is never entered again.
LEMMA ResultsStay ==
  ASSUME TypeOK, ClaimInv, [Next]_vars, NEW i \in Instances
  PROVE  /\ testStatus[i] = "PASSED" => testStatus'[i] = "PASSED"
         /\ status'[i] = "PENDING" => status[i] = "PENDING"
  <1> DEFINE Stays == /\ testStatus[i] = "PASSED" => testStatus'[i] = "PASSED"
                      /\ status'[i] = "PENDING" => status[i] = "PENDING"
  <1>1. ASSUME NEW j \in Instances, HandleTestCompletion(j)
        PROVE  Stays
    BY <1>1 DEF TypeOK, ClaimInv, ResultIsFinal, HandleTestCompletion, StopGoto
  <1>2. ASSUME NEW j \in Instances, SubmitRead(j) \/ SubmitStep(j)
        PROVE  Stays
    BY <1>2 DEF SubmitRead, SubmitStep, SubmitTx, SubmitDefinition,
                SubmitFinish, SetSubmit
  <1>3. ASSUME NEW j \in Instances, DeployStep(j)
        PROVE  Stays
    <2>1. /\ UNCHANGED testStatus
          /\ \/ UNCHANGED status
             \/ \E s \in {"STARTING", "RUNNING", "FAILED"} :
                    status' = [status EXCEPT ![j] = s]
      BY <1>3 DEF DeployStep, DeployStart, DeployPull, DeployNetwork, DeployAgent,
                  DeployItems, DeployRunning, DeployFail, DeployFailTeardown,
                  DeployFailMark, DeployFailReport, DeployGoto
    <2> QED BY <2>1 DEF TypeOK
  <1>4. ASSUME NEW j \in Instances, StageStep(j)
        PROVE  Stays
    <2>1. /\ UNCHANGED testStatus
          /\ \/ UNCHANGED status
             \/ \E s \in {"RUNNING", "FAILED"} :
                    status' = [status EXCEPT ![j] = s]
      BY <1>4 DEF StageStep, RunStage, StageItems, StageRunning, StageFail,
                  StageFailTeardown, StageFailMark, StageGoto
    <2> QED BY <2>1 DEF TypeOK
  <1>5. ASSUME NEW j \in Instances, MonitorStep(j)
        PROVE  Stays
    <2>1. /\ UNCHANGED testStatus
          /\ UNCHANGED status \/ status' = [status EXCEPT ![j] = "FAILED"]
      BY <1>5 DEF MonitorStep, MonitorEnds, MonitorSeesCrash, MonitorRechecks,
                  MonitorMarks, MonitorTeardown, MonitorGoto
    <2> QED BY <2>1 DEF TypeOK
  <1>6. ASSUME NEW j \in Instances,
               \/ \E w \in Stoppers : StopStep(w, j)
               \/ StopApi(j) \/ StopInstancesMark(j)
        PROVE  Stays
    <2>1. /\ UNCHANGED testStatus
          /\ \/ UNCHANGED status
             \/ \E s \in {"STOPPING", "STOPPED", "FAILED"} :
                    status' = [status EXCEPT ![j] = s]
      BY <1>6 DEF StopStep, StopBegin, StopTeardown, StopStopped, StopFailed,
                  StopApi, StopInstancesMark, StopGoto
    <2> QED BY <2>1 DEF TypeOK
  <1>7. ASSUME NEW j \in Instances, AgentReport(j) \/ ContainerExits(j)
        PROVE  Stays
    BY <1>7 DEF AgentReport, ContainerExits
  <1>8. ASSUME NEW c \in Callers, Poll(c) \/ TaskStep(c)
        PROVE  Stays
    <2>1. /\ UNCHANGED testStatus
          /\ \/ UNCHANGED status
             \/ \E j \in Instances : status' = [status EXCEPT ![j] = "STARTING"]
      BY <1>8 DEF Poll, TaskStep, HandleInstancesStopped, CheckRead, CheckWrite,
                  DeployRead, ClaimEnd, CheckDefinition, Claim, ClaimGoesOn,
                  SetTask
    <2> QED BY <2>1 DEF TypeOK
  <1>9. CASE StopCurrentRun \/ StopFinish \/ Restart \/ BootStep
    BY <1>9 DEF StopCurrentRun, StopInstances, StopFinish, Restart, BootStep,
                CleanupOrphanedResources, RecoverOrphanedRuns
  <1>10. CASE UNCHANGED vars
    BY <1>10
  <1> QED BY <1>1, <1>2, <1>3, <1>4, <1>5, <1>6, <1>7, <1>8, <1>9, <1>10
          DEF Next

\* The verdict of checkRunCompletion and of stopCurrentRun is right when it
\* is written, although the snapshot it rests on was taken before.
LEMMA VerdictStep ==
  ASSUME TypeOK, ClaimInv, ClaimInv', VerdictInv, [Next]_vars
  PROVE  VerdictInv'
  <1>1. \A i \in Instances :
          /\ testStatus[i] = "PASSED" => testStatus'[i] = "PASSED"
          /\ status'[i] = "PENDING" => status[i] = "PENDING"
    BY ResultsStay
  <1>2. \A i \in Instances : testStatus'[i] = "PASSED" => status'[i] # "PENDING"
    BY DEF ClaimInv, PendingIsFresh, ResultIsFinal
  \* Steps of everyone but the scheduler, the cancellation and the process.
  <1>3. CASE /\ UNCHANGED <<task, cancelPc>>
             /\ runStatus' \in {runStatus, "RUNNING"}
             /\ \A i \in Instances : stop["cancel"][i] = "mark" =>
                  stop'["cancel"][i] = "mark" \/ status'[i] # "PENDING"
    <2>1. SnapshotStillHolds'
      BY <1>1, <1>3 DEF VerdictInv, SnapshotStillHolds
    <2>2. CancelCoversPending'
      BY <1>1, <1>3 DEF VerdictInv, CancelCoversPending
    <2>3. CompletedMeansPassed' /\ EndedLeavesNonePending'
      BY <1>1, <1>3 DEF VerdictInv, CompletedMeansPassed, EndedLeavesNonePending
    <2> QED BY <2>1, <2>2, <2>3 DEF VerdictInv
  <1>4. ASSUME NEW i \in Instances, SubmitRead(i) \/ SubmitStep(i)
        PROVE  VerdictInv'
    BY <1>3, <1>4 DEF SubmitRead, SubmitStep, SubmitTx, SubmitDefinition,
                      SubmitFinish, SetSubmit
  <1>5. ASSUME NEW i \in Instances, DeployStep(i)
        PROVE  VerdictInv'
    <2>1. UNCHANGED <<task, cancelPc, stop, runStatus>>
      BY <1>5 DEF DeployStep, DeployStart, DeployPull, DeployNetwork, DeployAgent,
                  DeployItems, DeployRunning, DeployFail, DeployFailTeardown,
                  DeployFailMark, DeployFailReport, DeployGoto
    <2> QED BY <1>3, <2>1
  <1>6. ASSUME NEW i \in Instances, StageStep(i)
        PROVE  VerdictInv'
    <2>1. UNCHANGED <<task, cancelPc, stop, runStatus>>
      BY <1>6 DEF StageStep, RunStage, StageItems, StageRunning, StageFail,
                  StageFailTeardown, StageFailMark, StageGoto
    <2> QED BY <1>3, <2>1
  <1>7. ASSUME NEW i \in Instances, MonitorStep(i)
        PROVE  VerdictInv'
    <2>1. UNCHANGED <<task, cancelPc, stop, runStatus>>
      BY <1>7 DEF MonitorStep, MonitorEnds, MonitorSeesCrash, MonitorRechecks,
                  MonitorMarks, MonitorTeardown, MonitorGoto
    <2> QED BY <1>3, <2>1
  <1>8. ASSUME NEW i \in Instances,
               \/ \E w \in Stoppers : StopStep(w, i)
               \/ StopApi(i) \/ HandleTestCompletion(i)
        PROVE  VerdictInv'
    <2>1. UNCHANGED <<task, cancelPc, runStatus>>
      BY <1>8 DEF StopStep, StopBegin, StopTeardown, StopStopped, StopFailed,
                  StopApi, HandleTestCompletion, StopGoto
    <2>2. \E w \in Stoppers, pc \in StopPc :
             /\ stop' = [stop EXCEPT ![w][i] = pc]
             /\ stop[w][i] # "mark" \/ w # "cancel"
      <3>1. CASE StopApi(i) \/ HandleTestCompletion(i)
        BY <3>1 DEF StopApi, HandleTestCompletion, StopGoto, Stoppers, StopPc
      <3>2. ASSUME NEW w \in Stoppers, StopStep(w, i)
            PROVE  \E pc \in StopPc : /\ stop' = [stop EXCEPT ![w][i] = pc]
                                      /\ stop[w][i] # "mark"
        BY <3>2 DEF StopStep, StopBegin, StopTeardown, StopStopped, StopFailed,
                    AfterStop, StopGoto, StopPc
      <3> QED BY <1>8, <3>1, <3>2
    <2>3. \A j \in Instances : stop["cancel"][j] = "mark" =>
                                   stop'["cancel"][j] = "mark"
      BY <2>2 DEF TypeOK, Stoppers
    <2> QED BY <1>3, <2>1, <2>3
  <1>9. ASSUME NEW i \in Instances, StopInstancesMark(i)
        PROVE  VerdictInv'
    <2>1. \A j \in Instances : stop["cancel"][j] = "mark" =>
             stop'["cancel"][j] = "mark" \/ status'[j] # "PENDING"
      BY <1>9 DEF TypeOK, StopInstancesMark, StopGoto, Stoppers
    <2> QED BY <1>3, <1>9, <2>1 DEF StopInstancesMark, StopGoto
  <1>10. ASSUME NEW i \in Instances, AgentReport(i) \/ ContainerExits(i)
         PROVE  VerdictInv'
    BY <1>3, <1>10 DEF AgentReport, ContainerExits
  <1>11. CASE UNCHANGED vars
    BY <1>3, <1>11
  <1>12. ASSUME NEW c \in Callers, Poll(c) \/ TaskStep(c)
         PROVE  VerdictInv'
    <2>1. UNCHANGED <<stop, cancelPc>>
      BY <1>12 DEF Poll, TaskStep, HandleInstancesStopped, CheckRead, CheckWrite,
                   DeployRead, ClaimEnd, CheckDefinition, Claim, ClaimGoesOn,
                   SetTask
    <2>2. CancelCoversPending'
      BY <1>1, <2>1 DEF VerdictInv, CancelCoversPending
    <2>3. ASSUME NEW t, task' = [task EXCEPT ![c] = t],
                 t.pc = "defs" /\ ~t.failed =>
                    \A i \in Instances \ t.todo : testStatus'[i] = "PASSED"
          PROVE  SnapshotStillHolds'
      BY <1>1, <2>3 DEF TypeOK, VerdictInv, SnapshotStillHolds
    <2>4. CASE UNCHANGED runStatus
      <3>1. CompletedMeansPassed' /\ EndedLeavesNonePending'
        BY <1>1, <2>4
        DEF VerdictInv, CompletedMeansPassed, EndedLeavesNonePending
      <3>2. CASE Poll(c) \/ HandleInstancesStopped(c) \/ ClaimEnd(c)
        <4>1. SnapshotStillHolds'
          BY <2>3, <3>2 DEF Poll, HandleInstancesStopped, ClaimEnd, SetTask,
                            IdleTask, TaskAt
        <4> QED BY <2>2, <3>1, <4>1 DEF VerdictInv
      <3>3. CASE CheckRead(c)
        <4>1. ASSUME NEW i \in Instances, IsTerminal(i), ~CountsAsFailed(i)
              PROVE  testStatus[i] = "PASSED"
          BY <4>1 DEF TypeOK, TestStatus, IsTerminal, CountsAsFailed, Terminal
        <4>2. CASE task' = [task EXCEPT ![c] = TaskAt("deploy")]
          BY <2>2, <2>3, <3>1, <4>2 DEF VerdictInv, TaskAt
        <4>3. CASE task' = [task EXCEPT ![c] =
                     [pc     |-> "defs",
                      todo   |-> {i \in Instances : ~IsTerminal(i)},
                      slots  |-> 0,
                      failed |-> \E i \in Instances :
                                     IsTerminal(i) /\ CountsAsFailed(i)]]
          <5>1. (~\E i \in Instances : IsTerminal(i) /\ CountsAsFailed(i)) =>
                   \A i \in Instances \ {j \in Instances : ~IsTerminal(j)} :
                      testStatus'[i] = "PASSED"
            BY <1>1, <4>1
          <5>2. ASSUME NEW s, NEW f \in BOOLEAN,
                       task' = [task EXCEPT ![c] = [pc |-> "defs", todo |-> s,
                                                    slots |-> 0, failed |-> f]],
                       ~f => \A i \in Instances \ s : testStatus'[i] = "PASSED"
                PROVE  SnapshotStillHolds'
            BY <2>3, <5>2
          <5> DEFINE todo   == {i \in Instances : ~IsTerminal(i)}
                     failed == \E i \in Instances :
                                  IsTerminal(i) /\ CountsAsFailed(i)
          <5>3. /\ failed \in BOOLEAN
                /\ task' = [task EXCEPT ![c] = [pc |-> "defs", todo |-> todo,
                                                slots |-> 0, failed |-> failed]]
                /\ ~failed => \A i \in Instances \ todo : testStatus'[i] = "PASSED"
            BY <4>3, <5>1
          <5> HIDE DEF todo, failed
          <5>4. SnapshotStillHolds'
            BY <5>2, <5>3
          <5> QED BY <2>2, <3>1, <5>4 DEF VerdictInv
        <4> QED BY <3>3, <4>2, <4>3 DEF CheckRead, SetTask
      <3>4. CASE CheckWrite(c)
        <4>1. SnapshotStillHolds'
          BY <2>3, <3>4 DEF CheckWrite, SetTask, TaskAt
        <4> QED BY <2>2, <3>1, <4>1 DEF VerdictInv
      <3>5. CASE DeployRead(c)
        <4>1. SnapshotStillHolds'
          BY <2>3, <3>5 DEF DeployRead, SetTask, IdleTask, TaskAt
        <4> QED BY <2>2, <3>1, <4>1 DEF VerdictInv
      <3>6. ASSUME NEW i \in Instances, CheckDefinition(c, i)
            PROVE  VerdictInv'
        <4>1. SnapshotStillHolds'
          <5>1. CASE definition[i] # "absent"
            BY <2>3, <3>6, <5>1 DEF CheckDefinition, SetTask, TaskAt
          <5>2. CASE definition[i] = "absent"
            BY <2>3, <3>6, <5>2 DEF CheckDefinition, SetTask
          <5> QED BY <5>1, <5>2
        <4> QED BY <2>2, <3>1, <4>1 DEF VerdictInv
      <3>7. ASSUME NEW i \in Instances, Claim(c, i)
            PROVE  VerdictInv'
        <4>1. SnapshotStillHolds'
          BY <2>3, <3>7 DEF Claim, ClaimGoesOn, SetTask, IdleTask, TaskAt
        <4> QED BY <2>2, <3>1, <4>1 DEF VerdictInv
      <3> QED BY <1>12, <3>2, <3>3, <3>4, <3>5, <3>6, <3>7 DEF TaskStep
    <2>5. CASE CheckWrite(c)
      <3>1. SnapshotStillHolds'
        BY <2>3, <2>5 DEF CheckWrite, SetTask, TaskAt
      <3>2. runStatus' = "COMPLETED" => \A i \in Instances : testStatus[i] = "PASSED"
        BY <2>5 DEF CheckWrite, VerdictInv, SnapshotStillHolds
      <3>3. runStatus' # "CANCELLED"
        BY <2>5 DEF CheckWrite
      <3>4. CompletedMeansPassed' /\ EndedLeavesNonePending'
        BY <1>1, <1>2, <3>2, <3>3 DEF CompletedMeansPassed, EndedLeavesNonePending
      <3> QED BY <2>2, <3>1, <3>4 DEF VerdictInv
    <2>6. CheckWrite(c) \/ UNCHANGED runStatus
      BY <1>12 DEF Poll, TaskStep, HandleInstancesStopped, CheckRead, DeployRead,
                   ClaimEnd, CheckDefinition, Claim, ClaimGoesOn
    <2> QED BY <2>4, <2>5, <2>6
  <1>13. ASSUME StopInstances
         PROVE  VerdictInv'
    <2>1. CancelCoversPending'
      BY <1>1, <1>13 DEF TypeOK, StopInstances, StopInstancesPlan, Stoppers,
                         CancelCoversPending
    <2>2. SnapshotStillHolds' /\ CompletedMeansPassed' /\ EndedLeavesNonePending'
      BY <1>13 DEF StopInstances, VerdictInv, SnapshotStillHolds,
                   CompletedMeansPassed, EndedLeavesNonePending
    <2> QED BY <2>1, <2>2 DEF VerdictInv
  <1>14. CASE StopCurrentRun
    BY <1>13, <1>14 DEF StopCurrentRun
  <1>15. CASE StopFinish
    <2>1. \A i \in Instances : status[i] # "PENDING"
      BY <1>15 DEF StopFinish, AllStopped, VerdictInv, CancelCoversPending
    <2> QED BY <1>15, <2>1
            DEF StopFinish, VerdictInv, SnapshotStillHolds, CancelCoversPending,
                CompletedMeansPassed, EndedLeavesNonePending
  <1>16. CASE Restart
    <2>1. SnapshotStillHolds' /\ CancelCoversPending'
      BY <1>16 DEF Restart, SnapshotStillHolds, CancelCoversPending, IdleTask,
                   TaskAt
    <2>2. CompletedMeansPassed' /\ EndedLeavesNonePending'
      BY <1>16 DEF Restart, VerdictInv, CompletedMeansPassed,
                   EndedLeavesNonePending
    <2> QED BY <2>1, <2>2 DEF VerdictInv
  <1>17. CASE BootStep
    <2>1. CASE CleanupOrphanedResources
      BY <1>3, <2>1 DEF CleanupOrphanedResources
    <2>2. CASE RecoverOrphanedRuns
      BY <1>3, <1>13, <2>2 DEF RecoverOrphanedRuns
    <2> QED BY <1>17, <2>1, <2>2 DEF BootStep
  <1> QED BY <1>4, <1>5, <1>6, <1>7, <1>8, <1>9, <1>10, <1>11, <1>12, <1>14,
             <1>15, <1>16, <1>17 DEF Next

\* The invariant that carries the proofs holds throughout.
LEMMA InvariantHolds ==
  Spec => [](TypeOK /\ StageInBounds /\ ClaimInv /\ VerdictInv)
  <1> DEFINE IInv == TypeOK /\ StageInBounds /\ ClaimInv /\ VerdictInv
  <1>1. Init => IInv
    <2>1. Init => VerdictInv
      BY DEF Init, VerdictInv, SnapshotStillHolds, CancelCoversPending,
             CompletedMeansPassed, EndedLeavesNonePending, IdleTask, TaskAt
    <2> QED BY <2>1, TypeInit, ClaimInit DEF Init, StageInBounds
  <1>2. IInv /\ [Next]_vars => IInv'
    BY TypeStep, StageInBoundsStep, ClaimStep, VerdictStep
  <1> QED BY <1>1, <1>2, PTL DEF Spec

\* deployPendingInstances calls deploy at most once for an instance, however
\* many chains race for it and whatever fails or restarts in between.
THEOREM SingleDeployCorrect == Spec => []SingleDeploy
  BY InvariantHolds, PTL DEF ClaimInv

\* checkRunCompletion writes COMPLETED only when every test has passed.
THEOREM CompletedMeansPassedCorrect == Spec => []CompletedMeansPassed
  BY InvariantHolds, PTL DEF VerdictInv

\* A run that is COMPLETED or CANCELLED has no instance left to claim.
THEOREM EndedLeavesNonePendingCorrect == Spec => []EndedLeavesNonePending
  BY InvariantHolds, PTL DEF VerdictInv

-----------------------------------------------------------------------------
(* Recovery at start-up.  What makes a recovered run stay over is that the *)
(* restart left no handler that could deploy, claim or decide for it.      *)

\* No handler of the process before the restart is left, and none is
\* started again that could deploy or stop one of the run's instances.
NothingDeploys ==
    restarts > 0 =>
        /\ monitors = {}
        /\ \A i \in Instances : /\ deploy[i] = "none" /\ stagePc[i] = "idle"
                                /\ crashPc[i] = "idle"
        /\ \A c \in Callers : task[c].pc \in {"idle", "check", "deploy"}

\* A submission that goes on after the restart has read a run that is over.
SubmitSeesEnd ==
    restarts > 0 =>
        \A i \in Instances : submit[i].pc = "tx" => submit[i].run \in TerminalRun

\* Until the recovery is through, nothing but the recovery is in progress.
BootIsQuiet ==
    ct # "up" =>
        /\ restarts > 0 /\ checks = 0
        /\ \A c \in Callers : task[c].pc = "idle"
        /\ \A i \in Instances : /\ submit[i].pc \in {"idle", "done"}
                                /\ stop["completion"][i] = "done"
                                /\ stop["api"][i] = "done"
        /\ ct = "cleanup" => cancelPc = "idle"

\* The recovery ends the run, and nothing starts it again.
RecoveredRunEnded ==
    restarts > 0 /\ ct = "up" => runStatus \in TerminalRun /\ cancelPc = "idle"

\* The networks go with the clean-up that precedes the recovery.
NetworksGone ==
    restarts > 0 /\ ct # "cleanup" /\ "teardown" \notin Events => networks = {}

RecoveryInv == /\ NothingDeploys /\ SubmitSeesEnd /\ BootIsQuiet
               /\ RecoveredRunEnded /\ NetworksGone

\* A restart leaves nothing in progress, and what starts afterwards finds a
\* run that is over.
LEMMA RecoveryStep ==
  ASSUME TypeOK, RecoveryInv, [Next]_vars
  PROVE  RecoveryInv'
  <1> USE DEF RecoveryInv, NothingDeploys, SubmitSeesEnd, BootIsQuiet,
              RecoveredRunEnded, NetworksGone
  <1>0. restarts \in Nat /\ MaxRestarts \in Nat /\ runStatus \in RunStatus
    BY ConstantsAssumption DEF TypeOK
  <1>1. CASE Restart
    <2>1. restarts' > 0 /\ ct' = "cleanup"
      BY <1>0, <1>1 DEF Restart
    <2>2. NothingDeploys' /\ SubmitSeesEnd'
      BY <1>1 DEF Restart, IdleTask, TaskAt
    <2>3. BootIsQuiet'
      BY <1>1, <2>1 DEF Restart, IdleTask, TaskAt, Stoppers
    <2> QED BY <2>1, <2>2, <2>3
  <1>2. CASE ~Restart /\ restarts = 0
    <2>1. ct = "up"
      BY <1>2
    <2>2. restarts' = restarts /\ ct' = "up"
      <3>1. ASSUME NEW i \in Instances, SubmitRead(i) \/ SubmitStep(i)
            PROVE  UNCHANGED procVars
        BY <3>1 DEF SubmitRead, SubmitStep, SubmitTx, SubmitDefinition,
                    SubmitFinish, SetSubmit
      <3>2. ASSUME NEW i \in Instances, DeployStep(i)
            PROVE  UNCHANGED procVars
        BY <3>2 DEF DeployStep, DeployStart, DeployPull, DeployNetwork,
                    DeployAgent, DeployItems, DeployRunning, DeployFail,
                    DeployFailTeardown, DeployFailMark, DeployFailReport,
                    DeployGoto
      <3>3. ASSUME NEW i \in Instances, StageStep(i)
            PROVE  UNCHANGED procVars
        BY <3>3 DEF StageStep, RunStage, StageItems, StageRunning, StageFail,
                    StageFailTeardown, StageFailMark, StageGoto
      <3>4. ASSUME NEW i \in Instances, MonitorStep(i)
            PROVE  UNCHANGED procVars
        BY <3>4 DEF MonitorStep, MonitorEnds, MonitorSeesCrash,
                    MonitorRechecks, MonitorMarks, MonitorTeardown, MonitorGoto
      <3>5. ASSUME NEW i \in Instances,
                   \/ \E w \in Stoppers : StopStep(w, i)
                   \/ StopApi(i) \/ StopInstancesMark(i)
            PROVE  UNCHANGED procVars
        BY <3>5 DEF StopStep, StopBegin, StopTeardown, StopStopped, StopFailed,
                    StopApi, StopInstancesMark, StopGoto
      <3>6. ASSUME NEW i \in Instances,
                   AgentReport(i) \/ HandleTestCompletion(i) \/ ContainerExits(i)
            PROVE  UNCHANGED procVars
        BY <3>6 DEF AgentReport, HandleTestCompletion, ContainerExits, StopGoto
      <3>7. ASSUME NEW c \in Callers, Poll(c) \/ TaskStep(c)
            PROVE  UNCHANGED procVars
        BY <3>7 DEF Poll, TaskStep, HandleInstancesStopped, CheckRead,
                    CheckWrite, DeployRead, ClaimEnd, CheckDefinition, Claim,
                    ClaimGoesOn, SetTask
      <3>8. CASE StopCurrentRun \/ StopFinish
        BY <2>1, <3>8 DEF StopCurrentRun, StopFinish
      <3>9. ~BootStep
        BY <2>1 DEF BootStep, CleanupOrphanedResources, RecoverOrphanedRuns
      <3>10. CASE UNCHANGED vars
        BY <2>1, <3>10
      <3> QED BY <1>2, <2>1, <3>1, <3>2, <3>3, <3>4, <3>5, <3>6, <3>7, <3>8,
                 <3>9, <3>10 DEF Next
    <2> QED BY <1>0, <1>2, <2>2
  <1>3. CASE ~Restart /\ restarts > 0
    <2>1. ASSUME NEW i \in Instances, SubmitRead(i) \/ SubmitStep(i)
          PROVE  RecoveryInv'
      <3>1. \E pc \in SubmitPc, run \in RunStatus :
               /\ SetSubmit(i, pc, run)
               /\ pc = "tx" => run \in TerminalRun
               /\ ct # "up" => pc \in {"idle", "done"}
        <4>1. CASE SubmitRead(i)
          BY <1>0, <1>3, <4>1 DEF SubmitRead, SubmitPc
        <4>2. CASE SubmitTx(i) \/ SubmitDefinition(i) \/ SubmitFinish(i)
          <5>1. submit[i].run \in RunStatus
            BY DEF TypeOK
          <5>2. ct = "up"
            BY <4>2 DEF SubmitTx, SubmitDefinition, SubmitFinish
          <5> QED BY <4>2, <5>1, <5>2
                  DEF SubmitTx, SubmitDefinition, SubmitFinish, SubmitPc
        <4> QED BY <2>1, <4>1, <4>2 DEF SubmitStep
      <3>2. UNCHANGED runStatus
        BY <1>3, <2>1 DEF SubmitRead, SubmitStep, SubmitTx, SubmitDefinition,
                          SubmitFinish, TerminalRun
      <3> QED BY <3>1, <3>2 DEF SetSubmit, TypeOK
    <2>2. ASSUME NEW i \in Instances,
                 DeployStep(i) \/ StageStep(i) \/ MonitorStep(i)
          PROVE  FALSE
      BY <1>3, <2>2
      DEF DeployStep, DeployStart, DeployPull, DeployNetwork, DeployAgent,
          DeployItems, DeployRunning, DeployFail, DeployFailTeardown,
          DeployFailMark, DeployFailReport, StageStep, RunStage, AwaitsStage,
          StageItems, StageRunning, StageFail, StageFailTeardown, StageFailMark,
          MonitorStep, MonitorEnds, MonitorSeesCrash, MonitorRechecks,
          MonitorMarks, MonitorTeardown
    <2>3. ASSUME NEW i \in Instances, NEW w \in Stoppers, StopStep(w, i)
          PROVE  RecoveryInv'
      <3>1. /\ \E pc \in StopPc : StopGoto(w, i, pc)
            /\ UNCHANGED monitors \/ monitors' = monitors \ {i}
            /\ UNCHANGED networks \/ networks' = networks \ {i}
            /\ w # "completion" => UNCHANGED checks
        BY <2>3 DEF StopStep, StopBegin, StopTeardown, StopStopped, StopFailed,
                    Teardown, TeardownFails, AfterStop, ChecksRun, StopPc
      <3>2. ct # "up" => w = "cancel"
        BY <2>3 DEF StopStep, StopBegin, StopTeardown, StopStopped, StopFailed,
                    Stoppers
      <3>3. \A j \in Instances, v \in Stoppers \ {w} : stop'[v][j] = stop[v][j]
        BY <3>1 DEF TypeOK, StopGoto
      <3> QED BY <1>3, <3>1, <3>2, <3>3 DEF StopGoto, Stoppers
    <2>4. ASSUME NEW i \in Instances, StopApi(i) \/ StopInstancesMark(i)
          PROVE  RecoveryInv'
      BY <1>3, <2>4 DEF TypeOK, StopApi, StopInstancesMark, StopGoto, Stoppers
    <2>5. ASSUME NEW i \in Instances,
                 AgentReport(i) \/ HandleTestCompletion(i) \/ ContainerExits(i)
          PROVE  RecoveryInv'
      BY <1>3, <2>5 DEF AgentReport, HandleTestCompletion, ContainerExits,
                        StopGoto
    <2>6. ASSUME NEW c \in Callers, Poll(c) \/ TaskStep(c)
          PROVE  RecoveryInv'
      <3>0. /\ task[c].pc \in {"idle", "check", "deploy"}
            /\ ct # "up" => task[c].pc = "idle" /\ checks = 0
            /\ ct = "up" => runStatus \in TerminalRun /\ runStatus \notin ActiveRun
        BY <1>3 DEF ActiveRun, TerminalRun
      <3>1. /\ ct = "up"
            /\ \E t \in {TaskAt("check"), TaskAt("deploy"), IdleTask} : SetTask(c, t)
            /\ UNCHANGED <<runStatus, deploy>>
        <4>1. CASE Poll(c) \/ HandleInstancesStopped(c)
          BY <3>0, <4>1 DEF Poll, HandleInstancesStopped
        <4>2. CASE CheckRead(c)
          BY <3>0, <4>2 DEF CheckRead
        <4>3. CASE DeployRead(c)
          BY <3>0, <4>3 DEF DeployRead
        <4>4. ~CheckWrite(c) /\ ~ClaimEnd(c)
          BY <3>0 DEF CheckWrite, ClaimEnd
        <4>5. ASSUME NEW i \in Instances
              PROVE  ~CheckDefinition(c, i) /\ ~Claim(c, i)
          BY <3>0 DEF CheckDefinition, Claim
        <4> QED BY <2>6, <4>1, <4>2, <4>3, <4>4, <4>5 DEF TaskStep
      <3>2. \A d \in Callers : task'[d].pc \in {"idle", "check", "deploy"}
        BY <1>3, <3>1 DEF TypeOK, SetTask, IdleTask, TaskAt
      <3> QED BY <1>3, <3>1, <3>2 DEF SetTask
    <2>7. CASE StopCurrentRun
      BY <1>3, <2>7 DEF StopCurrentRun, ActiveRun, TerminalRun
    <2>8. CASE StopFinish
      BY <1>3, <2>8 DEF StopFinish, TerminalRun
    <2>9. CASE CleanupOrphanedResources
      BY <1>3, <2>9 DEF CleanupOrphanedResources
    <2>10. CASE RecoverOrphanedRuns
      BY <1>0, <1>3, <2>10 DEF TypeOK, RecoverOrphanedRuns, Orphaned,
                               StopInstances, RunStatus, Stoppers
    <2>11. CASE UNCHANGED vars
      BY <2>11
    <2> QED BY <1>3, <2>1, <2>2, <2>3, <2>4, <2>5, <2>6, <2>7, <2>8, <2>9,
               <2>10, <2>11 DEF Next, BootStep
  <1> QED BY <1>0, <1>1, <1>2, <1>3

\* The recovery's invariant holds throughout.
LEMMA RecoveryHolds == Spec => []RecoveryInv
  <1>1. Init => RecoveryInv
    BY DEF Init, RecoveryInv, NothingDeploys, SubmitSeesEnd, BootIsQuiet,
           RecoveredRunEnded, NetworksGone
  <1>2. TypeOK /\ RecoveryInv /\ [Next]_vars => RecoveryInv'
    BY RecoveryStep
  <1> QED BY <1>1, <1>2, InvariantHolds, PTL DEF Spec

\* When the Control Tower is up again after any number of restarts, at any
\* points of the run, the run has its verdict for good; and unless Docker
\* refused to remove one, none of its networks is left.
THEOREM RecoveredRunIsOverCorrect ==
  ASSUME "teardown" \notin Events
  PROVE  Spec => []RecoveredRunIsOver
  <1>1. RecoveryInv => RecoveredRunIsOver
    BY DEF RecoveryInv, RecoveredRunEnded, NetworksGone, RecoveredRunIsOver
  <1> QED BY <1>1, RecoveryHolds, PTL

-----------------------------------------------------------------------------
(* The limits on parallel and on booting environments, for one chain at a  *)
(* time and a run that nothing outside the scheduler disturbs.             *)

\* Neither the user, Docker's clean-up, a container nor a hasty agent gets
\* in between, and the chains of the scheduler do not overlap.  None of this
\* can be spared: each of the events, and a second chain, breaks a limit.
Undisturbed ==
    /\ Events \cap {"cancel", "api", "teardown", "container", "early"} = {}
    /\ \A c, d \in Callers : c = d

\* The instance holds a slot and is not being stopped.
Live(i) == status[i] \in {"STARTING", "RUNNING"}

\* No container exits by itself, so the crash monitor has nothing to do.
NoCrashes == crashed = {} /\ \A i \in Instances : crashPc[i] = "idle"

\* A deploy in progress has its slot: no one else gives it back.
DeployIsLive ==
    \A i \in Instances :
        /\ deploy[i] = "start" => status[i] = "STARTING"
        /\ deploy[i] \in {"pull", "network", "agent", "items"} => Live(i)
        /\ deploy[i] = "running" /\ LastStage = 0 => Live(i)
        /\ deploy[i] \in {"failMark", "failReport"} => i \notin containers

\* The same for a further stage.
StageIsLive ==
    \A i \in Instances :
        /\ stagePc[i] \in {"items", "running"} => Live(i)
        /\ stagePc[i] = "failMark" => i \notin containers
        /\ stagePc[i] # "idle" => /\ deploy[i] \in {"running", "done"}
                                  /\ LastStage > 0

\* An agent that is up, or has reported and was not stopped yet, is that of
\* an instance that has its slot; it reports when the deploys are through.
AgentIsLive ==
    \A i \in Instances :
        /\ /\ agent[i] = "running" /\ i \in containers
           /\ deploy[i] \in {"running", "done"}
           => Live(i)
        /\ agent[i] \in {"passed", "failed"} => Live(i) /\ deploy[i] = "done"
        /\ agent[i] \in {"passed", "failed", "done"} => stagePc[i] = "idle"
        /\ agent[i] = "done" => deploy[i] \in {"none", "done"}

\* An instance is stopped once, by the completion of its test or by the
\* recovery after a restart, and has its slot until then.
StopIsLive ==
    \A i \in Instances :
        /\ stop["api"][i] \in {"none", "done"}
        /\ stop["completion"][i] \notin {"none", "done"} =>
               agent[i] = "done" /\ restarts = 0
        /\ stop["cancel"][i] \notin {"none", "done"} =>
               restarts > 0 /\ cancelPc = "stopping"
        /\ \A w \in Stoppers : stop[w][i] = "begin" => Live(i)

LiveInv == NoCrashes /\ DeployIsLive /\ StageIsLive /\ AgentIsLive /\ StopIsLive

\* The slots a chain counts on are free.
SlotsAreFree ==
    \A c \in Callers :
        task[c].pc = "claim" =>
            /\ task[c].slots + Cardinality(Active) <= MaxConcurrent
            /\ task[c].slots + Cardinality(Starting) <= MaxBooting

SlotInv == SlotsAreFree /\ ConcurrencyLimit /\ BootingLimit

\* Every handler that is about to give an instance a state that counts finds
\* it in one: stops, deploys and stages do not cross.
LEMMA LiveStep ==
  ASSUME TypeOK, ClaimInv, RecoveryInv, Undisturbed, LiveInv, [Next]_vars
  PROVE  LiveInv'
  <1> USE DEF LiveInv, NoCrashes, DeployIsLive, StageIsLive, AgentIsLive,
              StopIsLive, Live
  <1>0. /\ "cancel" \notin Events /\ "api" \notin Events
        /\ "teardown" \notin Events /\ "container" \notin Events
        /\ "early" \notin Events
    BY DEF Undisturbed
  <1>a. restarts \in Nat /\ LastStage \in Nat /\ stage \in [Instances -> Nat]
    BY ConstantsAssumption DEF TypeOK
  <1>b. restarts > 0 => \A i \in Instances : deploy[i] = "none" /\ stagePc[i] = "idle"
    BY DEF RecoveryInv, NothingDeploys
  <1>1. CASE UNCHANGED <<status, deploy, stagePc, stop, restarts, cancelPc, agent,
                         containers, crashed, crashPc>>
    BY <1>1
  <1>2. ASSUME NEW i \in Instances, SubmitRead(i) \/ SubmitStep(i)
        PROVE  LiveInv'
    BY <1>1, <1>2 DEF SubmitRead, SubmitStep, SubmitTx, SubmitDefinition,
                      SubmitFinish, SetSubmit
  <1>3. ASSUME NEW i \in Instances, DeployStep(i)
        PROVE  LiveInv'
    <2>0. /\ deploy[i] \notin {"none", "done"} /\ restarts = 0
          /\ agent[i] \notin {"passed", "failed", "done"}
          /\ \A w \in Stoppers : stop[w][i] \in {"none", "done"}
      <3>1. deploy[i] \notin {"none", "done"}
        BY <1>3 DEF DeployStep, DeployStart, DeployPull, DeployNetwork,
                    DeployAgent, DeployItems, DeployRunning, DeployFail,
                    DeployFailTeardown, DeployFailMark, DeployFailReport
      <3> QED BY <1>a, <1>b, <3>1 DEF Stoppers
    <2>1. CASE DeployStart(i)
      BY <2>0, <2>1 DEF TypeOK, DeployStart, DeployGoto
    <2>2. CASE DeployPull(i) \/ DeployNetwork(i)
      <3>1. /\ deploy[i] \in {"pull", "network"}
            /\ \E pc \in {"network", "agent"} : deploy' = [deploy EXCEPT ![i] = pc]
            /\ UNCHANGED <<status, stagePc, stop, restarts, cancelPc, agent,
                           containers, crashed, crashPc>>
        BY <2>2 DEF DeployPull, DeployNetwork, DeployGoto
      <3> QED BY <2>0, <3>1 DEF TypeOK
    <2>3. CASE DeployAgent(i)
      BY <2>0, <2>3 DEF TypeOK, DeployAgent, DeployGoto
    <2>4. CASE DeployItems(i)
      BY <2>0, <2>4 DEF TypeOK, DeployItems, DeployGoto
    <2>5. CASE DeployRunning(i)
      BY <1>a, <2>0, <2>5 DEF TypeOK, DeployRunning, DeployGoto
    <2>6. CASE DeployFail(i)
      BY <2>0, <2>6 DEF TypeOK, DeployFail, DeployErrorPc, DeployGoto
    <2>7. CASE DeployFailTeardown(i)
      BY <1>0, <2>0, <2>7 DEF TypeOK, DeployFailTeardown, Teardown,
                              TeardownFails, DeployGoto
    <2>8. CASE DeployFailMark(i) \/ DeployFailReport(i)
      <3>1. /\ deploy[i] \in {"failMark", "failReport"}
            /\ status' = [status EXCEPT ![i] = "FAILED"]
            /\ \E pc \in {"failReport", "done"} : deploy' = [deploy EXCEPT ![i] = pc]
            /\ UNCHANGED <<stagePc, stop, restarts, cancelPc, agent, containers,
                           crashed, crashPc>>
        BY <2>8 DEF DeployFailMark, DeployFailReport, DeployGoto
      <3>2. stagePc[i] = "idle" /\ i \notin containers
        BY <3>1
      <3>3. \A j \in Instances \ {i} : status'[j] = status[j] /\ deploy'[j] = deploy[j]
        BY <3>1 DEF TypeOK
      <3>4. deploy'[i] \in {"failReport", "done"}
        BY <3>1 DEF TypeOK
      <3>5. DeployIsLive' /\ StageIsLive' /\ NoCrashes'
        BY <3>1, <3>2, <3>3, <3>4
      <3>6. AgentIsLive'
        BY <2>0, <3>1, <3>2, <3>3, <3>4
      <3>7. StopIsLive'
        BY <2>0, <3>1, <3>3
      <3> QED BY <3>5, <3>6, <3>7
    <2> QED BY <1>3, <2>1, <2>2, <2>3, <2>4, <2>5, <2>6, <2>7, <2>8
            DEF DeployStep
  <1>4. ASSUME NEW i \in Instances, StageStep(i)
        PROVE  LiveInv'
    <2>0. /\ deploy[i] \in {"running", "done"} /\ LastStage > 0 /\ restarts = 0
          /\ agent[i] \notin {"passed", "failed", "done"}
          /\ \A w \in Stoppers : stop[w][i] \in {"none", "done"}
      <3>1. CASE RunStage(i)
        <4>1. agent[i] = "running" /\ deploy[i] \in {"running", "done"}
              /\ stage[i] < LastStage
          BY <3>1 DEF RunStage, AwaitsStage
        <4> QED BY <1>a, <1>b, <4>1 DEF Stoppers
      <3>2. CASE ~RunStage(i)
        <4>1. stagePc[i] # "idle"
          BY <1>4, <3>2 DEF StageStep, StageItems, StageRunning, StageFail,
                            StageFailTeardown, StageFailMark
        <4> QED BY <1>a, <1>b, <4>1 DEF Stoppers
      <3> QED BY <3>1, <3>2
    <2>1. CASE RunStage(i)
      BY <2>0, <2>1 DEF TypeOK, RunStage, AwaitsStage, StageGoto
    <2>2. CASE StageItems(i)
      BY <2>0, <2>2 DEF TypeOK, StageItems, StageGoto
    <2>3. CASE StageRunning(i)
      BY <2>0, <2>3 DEF TypeOK, StageRunning, StageGoto
    <2>4. CASE StageFail(i)
      BY <2>0, <2>4 DEF TypeOK, StageFail, StageGoto
    <2>5. CASE StageFailTeardown(i)
      BY <1>0, <2>0, <2>5 DEF TypeOK, StageFailTeardown, Teardown,
                              TeardownFails, StageGoto
    <2>6. CASE StageFailMark(i)
      BY <2>0, <2>6 DEF TypeOK, StageFailMark, StageGoto
    <2> QED BY <1>4, <2>1, <2>2, <2>3, <2>4, <2>5, <2>6 DEF StageStep
  <1>5. ASSUME NEW i \in Instances, MonitorStep(i)
        PROVE  LiveInv'
    BY <1>1, <1>5 DEF TypeOK, MonitorStep, MonitorEnds, MonitorSeesCrash,
                      MonitorRechecks, MonitorMarks, MonitorTeardown, MonitorGoto
  <1>6. ASSUME NEW w \in Stoppers, NEW i \in Instances, StopStep(w, i)
        PROVE  LiveInv'
    <2>1. stop[w][i] \notin {"none", "done"}
      BY <1>6 DEF StopStep, StopBegin, StopTeardown, StopStopped, StopFailed
    \* No one else has anything to do with the instance.
    <2>2. /\ deploy[i] \in {"none", "done"} /\ stagePc[i] = "idle"
          /\ agent[i] = "done" \/ deploy[i] = "none"
          /\ agent[i] \notin {"passed", "failed"}
          /\ \A v \in Stoppers \ {w} : stop[v][i] \in {"none", "done"}
          /\ w # "api"
      BY <1>a, <1>b, <2>1 DEF Stoppers
    <2>3. \E pc \in StopPc : /\ StopGoto(w, i, pc)
                             /\ pc # "begin"
                             /\ pc # "done" => stop[w][i] # "done"
      BY <1>6 DEF StopStep, StopBegin, StopTeardown, StopStopped, StopFailed,
                  AfterStop, StopPc
    <2>4. /\ UNCHANGED <<deploy, stagePc, restarts, cancelPc, agent, crashPc>>
          /\ containers' \subseteq containers /\ crashed' = {}
          /\ \A j \in Instances : status'[j] # status[j] => j = i
      BY <1>0, <1>6
      DEF TypeOK, StopStep, StopBegin, StopTeardown, StopStopped, StopFailed,
          StopGoto, Teardown, TeardownFails
    <2>5. \A v \in Stoppers, j \in Instances :
             /\ stop'[v][j] = stop[v][j] \/ (v = w /\ j = i)
             /\ stop'[v][j] = "begin" => stop[v][j] = "begin" /\ j # i
      BY <2>2, <2>3 DEF TypeOK, StopGoto
    <2>6. DeployIsLive' /\ StageIsLive' /\ NoCrashes'
      BY <2>2, <2>4
    <2>7. AgentIsLive'
      BY <2>2, <2>4
    <2>8. StopIsLive'
      BY <2>1, <2>2, <2>4, <2>5 DEF Stoppers
    <2> QED BY <2>6, <2>7, <2>8
  <1>7. ASSUME NEW i \in Instances, StopInstancesMark(i)
        PROVE  LiveInv'
    <2>1. restarts > 0 /\ agent[i] \notin {"passed", "failed"}
          /\ \A w \in Stoppers : stop[w][i] # "begin"
      BY <1>a, <1>b, <1>7 DEF StopInstancesMark, Stoppers
    <2> QED BY <1>b, <1>7, <2>1 DEF TypeOK, StopInstancesMark, StopGoto, Stoppers
  <1>8. ASSUME NEW i \in Instances, StopApi(i)
        PROVE  FALSE
    BY <1>0, <1>8 DEF StopApi
  <1>9. ASSUME NEW i \in Instances, AgentReport(i)
        PROVE  LiveInv'
    <2>1. /\ agent[i] = "running" /\ i \in containers
          /\ deploy[i] = "done" /\ stagePc[i] = "idle"
          /\ \E r \in {"passed", "failed"} : agent' = [agent EXCEPT ![i] = r]
          /\ UNCHANGED <<status, deploy, stagePc, stop, restarts, cancelPc,
                         containers, crashed, crashPc>>
      BY <1>0, <1>9 DEF AgentReport
    <2> QED BY <2>1 DEF TypeOK
  <1>10. ASSUME NEW i \in Instances, HandleTestCompletion(i)
         PROVE  LiveInv'
    <2>1. restarts = 0 /\ Live(i) /\ deploy[i] = "done"
      BY <1>a, <1>b, <1>10 DEF HandleTestCompletion
    <2> QED BY <1>10, <2>1 DEF TypeOK, HandleTestCompletion, StopGoto, Stoppers
  <1>11. ASSUME NEW i \in Instances, ContainerExits(i)
         PROVE  FALSE
    BY <1>0, <1>11 DEF ContainerExits
  <1>12. ASSUME NEW c \in Callers, NEW i \in Instances, Claim(c, i)
         PROVE  LiveInv'
    <2>1. /\ UNCHANGED <<stagePc, stop, restarts, cancelPc, agent, containers,
                         crashed, crashPc>>
          /\ \/ UNCHANGED <<status, deploy>>
             \/ /\ status[i] = "PENDING"
                /\ status' = [status EXCEPT ![i] = "STARTING"]
                /\ deploy' \in {deploy, [deploy EXCEPT ![i] = "start"]}
      BY <1>12 DEF Claim, Claimable, ClaimGoesOn, SetTask
    <2>2. CASE UNCHANGED <<status, deploy>>
      BY <2>1, <2>2
    <2>3. CASE ~UNCHANGED <<status, deploy>>
      <3>1. /\ status[i] = "PENDING" /\ deploy[i] = "none" /\ agent[i] = "off"
            /\ stagePc[i] = "idle"
        BY <2>1, <2>3 DEF ClaimInv, PendingIsFresh
      <3>2. \A w \in Stoppers : stop[w][i] # "begin"
        BY <3>1
      <3>3. \A j \in Instances \ {i} : status'[j] = status[j] /\ deploy'[j] = deploy[j]
        BY <2>1 DEF TypeOK
      <3>4. status'[i] = "STARTING" /\ deploy'[i] \in {"none", "start"}
        BY <2>1, <2>3, <3>1 DEF TypeOK
      <3>5. DeployIsLive' /\ StageIsLive' /\ AgentIsLive' /\ NoCrashes'
        BY <2>1, <3>1, <3>3, <3>4
      <3>6. StopIsLive'
        BY <2>1, <3>2, <3>3
      <3> QED BY <3>5, <3>6
    <2> QED BY <2>2, <2>3
  <1>13. ASSUME NEW c \in Callers, Poll(c) \/ TaskStep(c)
         PROVE  LiveInv'
    BY <1>1, <1>12, <1>13
    DEF Poll, TaskStep, HandleInstancesStopped, CheckRead, CheckWrite,
        DeployRead, ClaimEnd, CheckDefinition, SetTask
  <1>14. CASE StopCurrentRun
    BY <1>0, <1>14 DEF StopCurrentRun
  <1>15. CASE StopFinish
    BY <1>15 DEF StopFinish, AllStopped, Stoppers
  <1>16. CASE Restart
    <2>1. restarts' > 0 /\ ct' # "up"
      BY <1>a, <1>16 DEF Restart
    <2> QED BY <1>16, <2>1 DEF TypeOK, Restart, Stoppers
  <1>17. CASE CleanupOrphanedResources
    BY <1>17 DEF CleanupOrphanedResources
  <1>18. CASE RecoverOrphanedRuns
    <2>1. restarts > 0 /\ ct = "recover"
      BY <1>18 DEF RecoverOrphanedRuns, RecoveryInv, BootIsQuiet
    <2>2. CASE StopInstances /\ UNCHANGED procVars
      BY <2>1, <2>2 DEF TypeOK, StopInstances, StopInstancesPlan, Stoppers
    <2>3. CASE UNCHANGED <<status, deploy, stagePc, stop, restarts, cancelPc,
                           agent, containers, crashed, crashPc>>
      BY <1>1, <2>3
    <2> QED BY <1>18, <2>2, <2>3 DEF RecoverOrphanedRuns
  <1>19. CASE UNCHANGED vars
    BY <1>1, <1>19
  <1> QED BY <1>2, <1>3, <1>4, <1>5, <1>6, <1>7, <1>8, <1>9, <1>10, <1>11,
             <1>13, <1>14, <1>15, <1>16, <1>17, <1>18, <1>19 DEF Next, BootStep

\* Only a claim takes a slot; everyone else leaves the instances that hold
\* one, and those that boot, as they are or fewer.
LEMMA SlotsOnlyFreed ==
  ASSUME TypeOK, RecoveryInv, Undisturbed, LiveInv, [Next]_vars,
         \A c \in Callers, i \in Instances : ~Claim(c, i)
  PROVE  Active' \subseteq Active /\ Starting' \subseteq Starting
  <1> DEFINE Frees(i) ==
               \/ UNCHANGED status
               \/ \E s \in InstanceStatus :
                     /\ status' = [status EXCEPT ![i] = s]
                     /\ s = "STARTING" => status[i] = "STARTING"
                     /\ s \in {"RUNNING", "STOPPING"} => Live(i)
  <1>1. ASSUME NEW i \in Instances, Frees(i)
        PROVE  Active' \subseteq Active /\ Starting' \subseteq Starting
    BY <1>1 DEF TypeOK, Active, Starting, Live, InstanceStatus, Terminal
  <1>2. ASSUME UNCHANGED status
        PROVE  Active' \subseteq Active /\ Starting' \subseteq Starting
    BY <1>2 DEF Active, Starting
  <1>3. ASSUME NEW i \in Instances, DeployStep(i)
        PROVE  Frees(i)
    BY <1>3, ConstantsAssumption
    DEF LiveInv, DeployIsLive, Live, InstanceStatus, Terminal, DeployStep,
        DeployStart, DeployPull, DeployNetwork, DeployAgent, DeployItems,
        DeployRunning, DeployFail, DeployFailTeardown, DeployFailMark,
        DeployFailReport
  <1>4. ASSUME NEW i \in Instances, StageStep(i)
        PROVE  Frees(i)
    BY <1>4
    DEF LiveInv, StageIsLive, Live, InstanceStatus, Terminal, StageStep,
        RunStage, StageItems, StageRunning, StageFail, StageFailTeardown,
        StageFailMark
  <1>5. ASSUME NEW i \in Instances, MonitorStep(i)
        PROVE  UNCHANGED status
    BY <1>5 DEF LiveInv, NoCrashes, MonitorStep, MonitorEnds, MonitorSeesCrash,
                MonitorRechecks, MonitorMarks, MonitorTeardown
  <1>6. ASSUME NEW w \in Stoppers, NEW i \in Instances, StopStep(w, i)
        PROVE  Frees(i)
    BY <1>6
    DEF LiveInv, StopIsLive, Live, InstanceStatus, Terminal, StopStep, StopBegin,
        StopTeardown, StopStopped, StopFailed
  <1>7. ASSUME NEW i \in Instances, StopApi(i) \/ StopInstancesMark(i)
        PROVE  Frees(i)
    BY <1>7 DEF StopApi, StopInstancesMark, InstanceStatus, Terminal
  <1>8. ASSUME NEW i \in Instances,
               \/ SubmitRead(i) \/ SubmitStep(i)
               \/ AgentReport(i) \/ HandleTestCompletion(i) \/ ContainerExits(i)
        PROVE  UNCHANGED status
    BY <1>8 DEF SubmitRead, SubmitStep, SubmitTx, SubmitDefinition, SubmitFinish,
                SetSubmit, AgentReport, HandleTestCompletion, ContainerExits
  <1>9. ASSUME NEW c \in Callers, Poll(c) \/ TaskStep(c)
        PROVE  UNCHANGED status
    BY <1>9 DEF Poll, TaskStep, HandleInstancesStopped, CheckRead, CheckWrite,
                DeployRead, ClaimEnd, CheckDefinition, SetTask
  <1>10. CASE StopCurrentRun \/ StopFinish \/ Restart \/ BootStep
    BY <1>2, <1>10 DEF StopCurrentRun, StopInstances, StopFinish, Restart,
                       BootStep, CleanupOrphanedResources, RecoverOrphanedRuns
  <1>11. CASE UNCHANGED vars
    BY <1>2, <1>11
  <1> HIDE DEF Frees
  <1> QED BY <1>1, <1>2, <1>3, <1>4, <1>5, <1>6, <1>7, <1>8, <1>9, <1>10, <1>11
          DEF Next

\* The instances a limit counts are finitely many.
LEMMA SlotsAreCounted ==
  ASSUME TypeOK
  PROVE  /\ IsFiniteSet(Active) /\ IsFiniteSet(Starting)
         /\ Cardinality(Active) \in Nat /\ Cardinality(Starting) \in Nat
         /\ ConcurrencyLimit <=> Cardinality(Active) <= MaxConcurrent
         /\ BootingLimit <=> Cardinality(Starting) <= MaxBooting
  <1>1. Active \subseteq Instances /\ Starting \subseteq Instances
    BY DEF Active, Starting
  <1>2. /\ IsFiniteSet(Active) /\ IsFiniteSet(Starting)
        /\ Cardinality(Active) \in Nat /\ Cardinality(Starting) \in Nat
    BY <1>1, ConstantsAssumption, FS_Subset, FS_CardinalityType
  <1>3. Active = {i \in Instances : status[i] \notin {"PENDING"} \cup Terminal}
    BY DEF TypeOK, Active, InstanceStatus, Terminal
  <1>4. Starting = {i \in Instances : status[i] = "STARTING"}
    BY DEF Starting
  <1> QED BY <1>2, <1>3, <1>4 DEF ConcurrencyLimit, BootingLimit

\* A chain that claims has counted the slots itself, and nobody else claims.
LEMMA SlotStep ==
  ASSUME TypeOK, TypeOK', RecoveryInv, Undisturbed, LiveInv, SlotInv, [Next]_vars
  PROVE  SlotInv'
  <1> DEFINE act   == Cardinality(Active)
             start == Cardinality(Starting)
  <1>0. /\ MaxConcurrent \in Nat /\ MaxBooting \in Nat
        /\ act \in Nat /\ start \in Nat /\ act' \in Nat /\ start' \in Nat
        /\ act <= MaxConcurrent /\ start <= MaxBooting
        /\ IsFiniteSet(Active) /\ IsFiniteSet(Starting)
    <2>2. act \in Nat /\ start \in Nat /\ IsFiniteSet(Active) /\ IsFiniteSet(Starting)
          /\ act <= MaxConcurrent /\ start <= MaxBooting
      BY SlotsAreCounted DEF SlotInv
    <2>3. act' \in Nat /\ start' \in Nat
      <3>1. Active' \subseteq Instances /\ Starting' \subseteq Instances
        BY DEF Active, Starting
      <3> QED BY <3>1, ConstantsAssumption, FS_Subset, FS_CardinalityType
    <2> QED BY <2>2, <2>3, ConstantsAssumption
  <1>1. \A c \in Callers : task[c].slots \in Int /\ task'[c].slots \in Int
    BY DEF TypeOK
  <1>2. ASSUME act' <= MaxConcurrent, start' <= MaxBooting
        PROVE  ConcurrencyLimit' /\ BootingLimit'
    <2>1. /\ Active' = {i \in Instances : status'[i] \notin {"PENDING"} \cup Terminal}
          /\ Starting' = {i \in Instances : status'[i] = "STARTING"}
      BY DEF TypeOK, Active, Starting, InstanceStatus, Terminal
    <2> QED BY <1>2, <2>1 DEF ConcurrencyLimit, BootingLimit
  <1>3. CASE \A c \in Callers, i \in Instances : ~Claim(c, i)
    <2>1. act' <= act /\ start' <= start
      BY <1>0, <1>3, SlotsOnlyFreed, FS_Subset
    <2>2. ASSUME NEW c \in Callers, task'[c].pc = "claim"
          PROVE  \/ task'[c] = task[c]
                 \/ /\ UNCHANGED status
                    /\ task'[c].slots = SlotsAvailable
      <3>1. ASSUME NEW d \in Callers, DeployRead(d)
            PROVE  \/ task'[c] = task[c]
                   \/ /\ UNCHANGED status
                      /\ task'[c].slots = SlotsAvailable
        BY <2>2, <3>1 DEF TypeOK, DeployRead, SetTask, IdleTask, TaskAt
      <3>2. ASSUME NEW d \in Callers,
                   \/ Poll(d) \/ HandleInstancesStopped(d) \/ CheckRead(d)
                   \/ CheckWrite(d) \/ ClaimEnd(d)
                   \/ \E i \in Instances : CheckDefinition(d, i)
            PROVE  task'[c] = task[c]
        BY <2>2, <3>2 DEF TypeOK, Poll, HandleInstancesStopped, CheckRead,
                          CheckWrite, ClaimEnd, CheckDefinition, SetTask,
                          IdleTask, TaskAt
      <3>3. ASSUME NEW d \in Callers, Poll(d) \/ TaskStep(d)
            PROVE  \/ task'[c] = task[c]
                   \/ /\ UNCHANGED status
                      /\ task'[c].slots = SlotsAvailable
        BY <1>3, <3>1, <3>2, <3>3 DEF TaskStep
      <3>4. CASE Restart
        BY <2>2, <3>4 DEF Restart, IdleTask, TaskAt
      <3>5. ASSUME NEW i \in Instances,
                   \/ SubmitRead(i) \/ SubmitStep(i)
                   \/ StopApi(i) \/ StopInstancesMark(i)
                   \/ AgentReport(i) \/ HandleTestCompletion(i) \/ ContainerExits(i)
                   \/ \E w \in Stoppers : StopStep(w, i)
            PROVE  UNCHANGED task
        BY <3>5 DEF SubmitRead, SubmitStep, SubmitTx, SubmitDefinition,
                    SubmitFinish, SetSubmit, StopApi, StopInstancesMark,
                    AgentReport, HandleTestCompletion, ContainerExits, StopStep,
                    StopBegin, StopTeardown, StopStopped, StopFailed, StopGoto
      <3>6. ASSUME NEW i \in Instances, DeployStep(i) \/ StageStep(i) \/ MonitorStep(i)
            PROVE  UNCHANGED task
        BY <3>6 DEF DeployStep, DeployStart, DeployPull, DeployNetwork,
                    DeployAgent, DeployItems, DeployRunning, DeployFail,
                    DeployFailTeardown, DeployFailMark, DeployFailReport,
                    DeployGoto, StageStep, RunStage, StageItems, StageRunning,
                    StageFail, StageFailTeardown, StageFailMark, StageGoto,
                    MonitorStep, MonitorEnds, MonitorSeesCrash,
                    MonitorRechecks, MonitorMarks, MonitorTeardown, MonitorGoto
      <3>7. CASE StopCurrentRun \/ StopFinish \/ BootStep \/ UNCHANGED vars
        BY <3>7 DEF StopCurrentRun, StopInstances, StopFinish, BootStep,
                    CleanupOrphanedResources, RecoverOrphanedRuns
      <3> QED BY <3>3, <3>4, <3>5, <3>6, <3>7 DEF Next
    <2>3. SlotsAreFree'
      <3>1. SUFFICES ASSUME NEW c \in Callers, task'[c].pc = "claim"
                     PROVE  /\ task'[c].slots + act' <= MaxConcurrent
                            /\ task'[c].slots + start' <= MaxBooting
        BY DEF SlotsAreFree
      <3>2. CASE task'[c] = task[c]
        <4>1. task[c].slots + act <= MaxConcurrent /\ task[c].slots + start <= MaxBooting
          BY <3>1, <3>2 DEF SlotInv, SlotsAreFree
        <4> HIDE DEF act, start
        <4> QED BY <1>0, <1>1, <2>1, <3>2, <4>1
      <3>3. CASE UNCHANGED status /\ task'[c].slots = SlotsAvailable
        <4>1. SlotsAvailable <= MaxConcurrent - act /\ SlotsAvailable <= MaxBooting - start
          BY <1>0 DEF SlotsAvailable
        <4> HIDE DEF act, start
        <4> QED BY <1>0, <1>1, <2>1, <3>3, <4>1
      <3> QED BY <2>2, <3>1, <3>2, <3>3
    <2>4. act' <= MaxConcurrent /\ start' <= MaxBooting
      <3> HIDE DEF act, start
      <3> QED BY <1>0, <2>1
    <2> QED BY <1>2, <2>3, <2>4 DEF SlotInv
  <1>4. ASSUME NEW c \in Callers, NEW i \in Instances, Claim(c, i)
        PROVE  SlotInv'
    <2>1. /\ task[c].pc = "claim" /\ task[c].slots > 0
          /\ task[c].slots + act <= MaxConcurrent /\ task[c].slots + start <= MaxBooting
      BY <1>4 DEF Claim, SlotInv, SlotsAreFree
    <2>2. \A d \in Callers : d = c
      BY DEF Undisturbed
    <2>3. CASE UNCHANGED status
      <3>1. act' = act /\ start' = start
        BY <2>3 DEF Active, Starting
      <3>2. task'[c].pc = "claim" => task'[c].slots <= task[c].slots
        BY <1>1, <1>4, <2>3 DEF TypeOK, Claim, ClaimGoesOn, SetTask, IdleTask, TaskAt
      <3>3. /\ act' <= MaxConcurrent /\ start' <= MaxBooting
            /\ task'[c].pc = "claim" => /\ task'[c].slots + act' <= MaxConcurrent
                                        /\ task'[c].slots + start' <= MaxBooting
        <4> HIDE DEF act, start
        <4> QED BY <1>0, <1>1, <2>1, <3>1, <3>2
      <3> QED BY <1>2, <2>2, <3>3 DEF SlotInv, SlotsAreFree
    <2>4. CASE status' = [status EXCEPT ![i] = "STARTING"]
      <3>1. Active' \subseteq Active \cup {i} /\ Starting' \subseteq Starting \cup {i}
        BY <2>4 DEF TypeOK, Active, Starting
      <3>2. act' <= act + 1 /\ start' <= start + 1
        <4>1. /\ IsFiniteSet(Active \cup {i}) /\ Cardinality(Active \cup {i}) <= act + 1
              /\ IsFiniteSet(Starting \cup {i}) /\ Cardinality(Starting \cup {i}) <= start + 1
          <5>1. /\ IsFiniteSet(Active \cup {i})
                /\ Cardinality(Active \cup {i}) = act \/ Cardinality(Active \cup {i}) = act + 1
            BY <1>0, FS_AddElement
          <5>2. /\ IsFiniteSet(Starting \cup {i})
                /\ \/ Cardinality(Starting \cup {i}) = start
                   \/ Cardinality(Starting \cup {i}) = start + 1
            BY <1>0, FS_AddElement
          <5> HIDE DEF act, start
          <5> QED BY <1>0, <5>1, <5>2
        <4>2. /\ act' <= Cardinality(Active \cup {i})
              /\ start' <= Cardinality(Starting \cup {i})
          BY <3>1, <4>1, FS_Subset
        <4>3. Cardinality(Active \cup {i}) \in Nat /\ Cardinality(Starting \cup {i}) \in Nat
          BY <4>1, FS_CardinalityType
        <4> HIDE DEF act, start
        <4> QED BY <1>0, <4>1, <4>2, <4>3
      <3>3. task'[c].pc = "claim" =>
              task'[c].slots = task[c].slots - 1 \/ UNCHANGED status
        BY <1>1, <1>4 DEF TypeOK, Claim, ClaimGoesOn, SetTask, IdleTask, TaskAt
      <3>4. CASE ~UNCHANGED status
        <4>1. /\ act' <= MaxConcurrent /\ start' <= MaxBooting
              /\ task'[c].pc = "claim" => /\ task'[c].slots + act' <= MaxConcurrent
                                          /\ task'[c].slots + start' <= MaxBooting
          <5> HIDE DEF act, start
          <5> QED BY <1>0, <1>1, <2>1, <3>2, <3>3, <3>4
        <4> QED BY <1>2, <2>2, <4>1 DEF SlotInv, SlotsAreFree
      <3> QED BY <2>3, <3>4
    <2> QED BY <1>4, <2>3, <2>4 DEF Claim
  <1> QED BY <1>3, <1>4

\* The invariant of an undisturbed run holds throughout.
LEMMA LimitsHold ==
  ASSUME Undisturbed
  PROVE  Spec => [](LiveInv /\ SlotInv)
  <1>1. Init => LiveInv /\ SlotInv
    <2>1. ASSUME Init
          PROVE  LiveInv /\ SlotsAreFree
      BY <2>1 DEF Init, LiveInv, NoCrashes, DeployIsLive, StageIsLive,
                  AgentIsLive, StopIsLive, SlotsAreFree, IdleTask, TaskAt, Stoppers
    <2>2. ASSUME Init
          PROVE  Active = {} /\ Starting = {}
      BY <2>2 DEF Init, Active, Starting
    <2>3. Cardinality({}) = 0
      BY FS_EmptySet
    <2> QED BY <2>1, <2>2, <2>3, TypeInit, SlotsAreCounted, ConstantsAssumption
            DEF SlotInv
  <1>2. TypeOK /\ TypeOK' /\ ClaimInv /\ RecoveryInv /\ LiveInv /\ SlotInv /\ [Next]_vars
        => (LiveInv /\ SlotInv)'
    BY LiveStep, SlotStep
  <1> QED BY <1>1, <1>2, InvariantHolds, RecoveryHolds, PTL DEF Spec

\* With one chain of the scheduler at a time, no more environments exist at
\* once than max-parallel allows, whatever Docker refuses to deploy, however
\* many stages there are and whenever the Control Tower is started again.
THEOREM ConcurrencyLimitCorrect ==
  ASSUME Undisturbed
  PROVE  Spec => []ConcurrencyLimit
  BY LimitsHold, PTL DEF SlotInv

\* Nor do more of them boot at once than max-booting allows.
THEOREM BootingLimitCorrect ==
  ASSUME Undisturbed
  PROVE  Spec => []BootingLimit
  BY LimitsHold, PTL DEF SlotInv

=============================================================================
