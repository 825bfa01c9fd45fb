--------------------------- MODULE RunLifecycle ---------------------------
(***************************************************************************)
(* One run of the Control Tower, from the submission of its definitions    *)
(* to its verdict.  The Control Tower is one JavaScript thread: its        *)
(* handlers interleave at every await, so an action below is what happens  *)
(* between two awaits that other handlers can tell apart.                  *)
(*                                                                         *)
(* Rows of the database are runStatus, status and testStatus; definition   *)
(* is the file on disk; networks, containers and crashed are what Docker   *)
(* and the containers do (external); everything else is the state of the   *)
(* handlers that are in progress, which a restart of the process loses.    *)
(***************************************************************************)
EXTENDS Integers, FiniteSets

CONSTANTS
    Instances,      \* the instances (one per definition) of the run
    Callers,        \* scheduler chains that may be in progress at one time
    MaxConcurrent,  \* MAX_CONCURRENT_NAMESPACES
    MaxBooting,     \* MAX_BOOTING_NAMESPACES
    LastStage,      \* index of the last deployment stage of every definition
    Events,         \* what may happen to the run, besides its own steps
    MaxRestarts     \* bound on restarts of the Control Tower

\* poll       a client asks for the run's status
\* partial    definition.json is seen while it is being written
\* cancel     POST /runs/stop
\* api        POST /namespaces/instances/:id/stop
\* deploy     Docker refuses an image, a network or a container
\* teardown   removing the network fails
\* container  a service, worker or database container exits
\* early      the test agent reports before the deploy call has returned
\* restart    the Control Tower process dies and is started again
AllEvents == {"poll", "partial", "cancel", "api", "deploy", "teardown",
              "container", "early", "restart"}

ASSUME ConstantsAssumption ==
    /\ IsFiniteSet(Instances)
    /\ MaxConcurrent \in Nat \ {0}
    /\ MaxBooting \in Nat \ {0}
    /\ LastStage \in Nat
    /\ Events \subseteq AllEvents
    /\ MaxRestarts \in Nat

VARIABLES
    runStatus,   \* Run.status
    status,      \* NamespaceInstance.status
    testStatus,  \* NamespaceInstance.testStatus, NONE for null
    definition,  \* definition.json of the instance on disk
    submit,      \* submitInstance: where it is, and the run status it read
    task,        \* scheduler chains: checkRunCompletion, deployPendingInstances
    checks,      \* chains that are due and have not done their first read
    deploy,      \* DockerDeployerService.deploy and its caller's catch
    stagePc,     \* DockerDeployerService.deployStage
    stage,       \* stages of the instance deployed so far
    stop,        \* NamespaceLifecycleService.stopInstance, per caller
    cancelPc,    \* stopCurrentRun, or recoverOrphanedRuns at start-up
    crashPc,     \* the crash monitor's handler
    sessions,    \* deploymentSessions
    monitors,    \* crashMonitors
    networks,    \* Docker networks that exist
    containers,  \* instances whose test agent container is up
    crashed,     \* instances with an exited item container
    agent,       \* the test agent and the completion it has sent
    ct,          \* the Control Tower process: up, or on its way up
    restarts,
    deploys      \* history: times deploy was called for the instance

dbVars     == <<runStatus, status, testStatus, definition>>
schedVars  == <<task, checks>>
deployVars == <<deploy, stagePc, stage, deploys>>
stopVars   == <<stop, cancelPc>>
memVars    == <<sessions, monitors, crashPc>>
dockerVars == <<networks, containers, crashed, agent>>
procVars   == <<ct, restarts>>
vars == <<dbVars, submit, schedVars, deployVars, stopVars, memVars,
          dockerVars, procVars>>

ActiveRun    == {"PENDING", "RUNNING"}
TerminalRun  == {"COMPLETED", "FAILED", "CANCELLED"}
RunStatus    == ActiveRun \cup TerminalRun
Terminal     == {"STOPPED", "FAILED"}
InstanceStatus == {"PENDING", "STARTING", "RUNNING", "STOPPING"} \cup Terminal
TestStatus   == {"NONE", "PASSED", "FAILED"}

SubmitPc == {"idle", "tx", "definition", "finish", "done"}
TaskPc   == {"idle", "check", "defs", "deploy", "claim"}
DeployPc == {"none", "start", "pull", "network", "agent", "items", "running",
             "failTeardown", "failMark", "failReport", "done"}
StagePc  == {"idle", "items", "running", "failTeardown", "failMark"}
StopPc   == {"none", "begin", "teardown", "stopped", "failed", "mark", "done"}
CrashPc  == {"idle", "recheck", "mark", "teardown"}
Stoppers == {"completion", "cancel", "api"}

\* A chain that is about to take the step pc and holds no snapshot.
TaskAt(pc) == [pc |-> pc, todo |-> {}, slots |-> 0, failed |-> FALSE]
IdleTask   == TaskAt("idle")

TypeOK ==
    /\ runStatus \in RunStatus
    /\ status \in [Instances -> InstanceStatus]
    /\ testStatus \in [Instances -> TestStatus]
    /\ definition \in [Instances -> {"absent", "partial", "complete"}]
    /\ submit \in [Instances -> [pc : SubmitPc, run : RunStatus]]
    /\ task \in [Callers -> [pc : TaskPc, todo : SUBSET Instances,
                             slots : Int, failed : BOOLEAN]]
    /\ checks \in Nat
    /\ deploy \in [Instances -> DeployPc]
    /\ stagePc \in [Instances -> StagePc]
    /\ stage \in [Instances -> 0 .. LastStage]
    /\ stop \in [Stoppers -> [Instances -> StopPc]]
    /\ cancelPc \in {"idle", "stopping"}
    /\ crashPc \in [Instances -> CrashPc]
    /\ sessions \subseteq Instances
    /\ monitors \subseteq Instances
    /\ networks \subseteq Instances
    /\ containers \subseteq Instances
    /\ crashed \subseteq Instances
    /\ agent \in [Instances -> {"off", "running", "passed", "failed", "done"}]
    /\ ct \in {"up", "cleanup", "recover"}
    /\ restarts \in 0 .. MaxRestarts
    /\ deploys \in [Instances -> Nat]

\* createRun has just returned: the run and its stubs are PENDING.
Init ==
    /\ runStatus = "PENDING"
    /\ status = [i \in Instances |-> "PENDING"]
    /\ testStatus = [i \in Instances |-> "NONE"]
    /\ definition = [i \in Instances |-> "absent"]
    /\ submit = [i \in Instances |-> [pc |-> "idle", run |-> "PENDING"]]
    /\ task = [c \in Callers |-> IdleTask]
    /\ checks = 0
    /\ deploy = [i \in Instances |-> "none"]
    /\ stagePc = [i \in Instances |-> "idle"]
    /\ stage = [i \in Instances |-> 0]
    /\ stop = [w \in Stoppers |-> [i \in Instances |-> "none"]]
    /\ cancelPc = "idle"
    /\ crashPc = [i \in Instances |-> "idle"]
    /\ sessions = {} /\ monitors = {}
    /\ networks = {} /\ containers = {} /\ crashed = {}
    /\ agent = [i \in Instances |-> "off"]
    /\ ct = "up" /\ restarts = 0
    /\ deploys = [i \in Instances |-> 0]

-----------------------------------------------------------------------------
(* RunsService.submitInstance.  The CLI submits one definition at a time,  *)
(* and goes on to the next one when a submission fails.                    *)

SetSubmit(i, pc, run) ==
    /\ submit' = [submit EXCEPT ![i] = [pc |-> pc, run |-> run]]
    /\ UNCHANGED <<status, testStatus, schedVars, deployVars, stopVars,
                   memVars, dockerVars, procVars>>

\* Both rows are read; an instance that has left PENDING is skipped.
SubmitRead(i) ==
    /\ ct = "up"
    /\ submit[i].pc = "idle"
    /\ \A j \in Instances : submit[j].pc \in {"idle", "done"}
    /\ SetSubmit(i, IF status[i] = "PENDING" THEN "tx" ELSE "done", runStatus)
    /\ UNCHANGED <<runStatus, definition>>

\* The transaction creates the items and moves the run on, by the run
\* status that was read before it.
SubmitTx(i) ==
    /\ submit[i].pc = "tx"
    /\ runStatus' = IF submit[i].run = "PENDING" THEN "RUNNING" ELSE runStatus
    /\ SetSubmit(i, "definition", submit[i].run)
    /\ UNCHANGED definition

\* writeDefinition, then the init and mount files.  fs.writeFile creates
\* the file before it has written it.
SubmitDefinition(i) ==
    /\ submit[i].pc = "definition"
    /\ \/ /\ "partial" \in Events
          /\ definition' = [definition EXCEPT ![i] = "partial"]
          /\ SetSubmit(i, "finish", submit[i].run)
       \/ /\ definition' = [definition EXCEPT ![i] = "complete"]
          /\ SetSubmit(i, "done", submit[i].run)
    /\ UNCHANGED runStatus

SubmitFinish(i) ==
    /\ submit[i].pc = "finish"
    /\ definition' = [definition EXCEPT ![i] = "complete"]
    /\ SetSubmit(i, "done", submit[i].run)
    /\ UNCHANGED runStatus

-----------------------------------------------------------------------------
(* DeploymentSchedulerService                                              *)

SetTask(c, t) ==
    /\ task' = [task EXCEPT ![c] = t]
    /\ UNCHANGED <<testStatus, definition, submit, stagePc, stage, stopVars,
                   memVars, dockerVars, procVars>>

\* getRunStatus of an active run starts deployPendingInstances.
Poll(c) ==
    /\ "poll" \in Events
    /\ ct = "up"
    /\ task[c].pc = "idle"
    /\ runStatus \in ActiveRun
    /\ SetTask(c, TaskAt("deploy"))
    /\ UNCHANGED <<runStatus, status, checks, deploy, deploys>>

\* handleInstancesStopped, or the same chain after a crash or a failed
\* deploy: checkRunCompletion, then deployPendingInstances.
HandleInstancesStopped(c) ==
    /\ task[c].pc = "idle"
    /\ checks > 0
    /\ checks' = checks - 1
    /\ SetTask(c, TaskAt("check"))
    /\ UNCHANGED <<runStatus, status, deploy, deploys>>

\* An instance that checkRunCompletion takes as finished, and as failed.
IsTerminal(i) == status[i] \in Terminal \/ testStatus[i] # "NONE"

\* A mutant of CountsAsFailed: only the instance's status counts.
CountsAsFailedStatusOnly(i) == status[i] = "FAILED"

CountsAsFailed(i) ==
    \/ status[i] = "FAILED"
    \/ testStatus[i] = "FAILED"
    \/ status[i] = "STOPPED" /\ testStatus[i] = "NONE"

\* The snapshot of run and instances.  Any instance that is neither
\* finished nor PENDING ends the check without a verdict.
CheckRead(c) ==
    /\ task[c].pc = "check"
    /\ \/ /\ \/ runStatus \in TerminalRun
             \/ \E i \in Instances : ~IsTerminal(i) /\ status[i] # "PENDING"
          /\ SetTask(c, TaskAt("deploy"))
       \/ /\ runStatus \notin TerminalRun
          /\ \A i \in Instances : IsTerminal(i) \/ status[i] = "PENDING"
          /\ SetTask(c, [pc     |-> "defs",
                         todo   |-> {i \in Instances : ~IsTerminal(i)},
                         slots  |-> 0,
                         failed |-> \E i \in Instances :
                                        IsTerminal(i) /\ CountsAsFailed(i)])
    /\ UNCHANGED <<runStatus, status, checks, deploy, deploys>>

\* hasDefinition: a PENDING instance with a definition is still to be run,
\* one without counts as failed.
CheckDefinition(c, i) ==
    /\ task[c].pc = "defs"
    /\ i \in task[c].todo
    /\ SetTask(c, IF definition[i] # "absent"
                  THEN TaskAt("deploy")
                  ELSE [pc |-> "defs", todo |-> task[c].todo \ {i},
                        slots |-> 0, failed |-> TRUE])
    /\ UNCHANGED <<runStatus, status, checks, deploy, deploys>>

\* The verdict is written whatever the row holds by now.
CheckWrite(c) ==
    /\ task[c].pc = "defs"
    /\ task[c].todo = {}
    /\ runStatus' = IF task[c].failed THEN "FAILED" ELSE "COMPLETED"
    /\ SetTask(c, TaskAt("deploy"))
    /\ UNCHANGED <<status, checks, deploy, deploys>>

\* Mutant of Active: an instance being stopped frees its slot.
ActiveMutant == {i \in Instances : status[i] \in {"STARTING", "RUNNING"}}

Active   == {i \in Instances : status[i] \in {"STARTING", "RUNNING", "STOPPING"}}
Starting == {i \in Instances : status[i] = "STARTING"}

\* Mutant of SlotsAvailable: the limit on booting instances is forgotten.
SlotsAvailableMutant == MaxConcurrent - Cardinality(Active)

SlotsAvailable ==
    LET concurrent == MaxConcurrent - Cardinality(Active)
        booting    == MaxBooting - Cardinality(Starting)
    IN  IF concurrent < booting THEN concurrent ELSE booting

\* The snapshot deployPendingInstances works from.
DeployRead(c) ==
    /\ task[c].pc = "deploy"
    /\ SetTask(c, IF runStatus \in ActiveRun /\ SlotsAvailable > 0
                  THEN [pc     |-> "claim",
                        todo   |-> {i \in Instances : status[i] = "PENDING"},
                        slots  |-> SlotsAvailable,
                        failed |-> FALSE]
                  ELSE IdleTask)
    /\ UNCHANGED <<runStatus, status, checks, deploy, deploys>>

\* Mutant of Claimable: the UPDATE is not conditional on the status.
ClaimableMutant(i) == TRUE

\* The condition of the claim's UPDATE: the row is still PENDING.
Claimable(i) == status[i] = "PENDING"

ClaimGoesOn(c, i, slots) ==
    SetTask(c, [pc |-> "claim", todo |-> task[c].todo \ {i}, slots |-> slots,
                failed |-> FALSE])

\* One turn of the loop: no definition, claim lost, claim won.  A claim
\* that is won is followed by rebuildDeploymentContext, which throws out of
\* the loop when it reads half a definition.
Claim(c, i) ==
    /\ task[c].pc = "claim"
    /\ task[c].slots > 0
    /\ i \in task[c].todo
    /\ \/ /\ definition[i] = "absent" \/ ~Claimable(i)
          /\ ClaimGoesOn(c, i, task[c].slots)
          /\ UNCHANGED <<status, deploy, deploys>>
       \/ /\ definition[i] = "complete" /\ Claimable(i)
          /\ status' = [status EXCEPT ![i] = "STARTING"]
          /\ deploy' = [deploy EXCEPT ![i] = "start"]
          /\ deploys' = [deploys EXCEPT ![i] = @ + 1]
          /\ ClaimGoesOn(c, i, task[c].slots - 1)
       \/ /\ definition[i] = "partial" /\ Claimable(i)
          /\ status' = [status EXCEPT ![i] = "STARTING"]
          /\ SetTask(c, IdleTask)
          /\ UNCHANGED <<deploy, deploys>>
    /\ UNCHANGED <<runStatus, checks>>

ClaimEnd(c) ==
    /\ task[c].pc = "claim"
    /\ task[c].slots <= 0 \/ task[c].todo = {}
    /\ SetTask(c, IdleTask)
    /\ UNCHANGED <<runStatus, status, checks, deploy, deploys>>

-----------------------------------------------------------------------------
(* DockerDeployerService.teardown: the monitor and the session go at once, *)
(* the containers and the network when Docker has removed them.            *)

\* Mutant of Teardown: the network is left behind.
TeardownMutant(i) ==
    /\ monitors' = monitors \ {i}
    /\ sessions' = sessions \ {i}
    /\ containers' = containers \ {i}
    /\ crashed' = crashed \ {i}
    /\ UNCHANGED networks

Teardown(i) ==
    /\ monitors' = monitors \ {i}
    /\ sessions' = sessions \ {i}
    /\ networks' = networks \ {i}
    /\ containers' = containers \ {i}
    /\ crashed' = crashed \ {i}

\* removeNetwork throws and the network stays: Docker failed, or a deploy
\* that is still going on put a container on it after the others were gone.
TeardownFails(i) ==
    /\ "teardown" \in Events
    /\ i \in networks
    /\ monitors' = monitors \ {i}
    /\ sessions' = sessions \ {i}
    /\ containers' \in {containers, containers \ {i}}
    /\ crashed' = crashed \cap containers'
    /\ UNCHANGED networks

-----------------------------------------------------------------------------
(* DockerDeployerService.deploy, called by deployInBackground              *)

DeployGoto(i, pc) ==
    /\ deploy' = [deploy EXCEPT ![i] = pc]
    /\ UNCHANGED <<runStatus, testStatus, definition, submit, task, stagePc,
                   stage, deploys, stopVars, crashPc, procVars>>

\* The status is set to STARTING again, whatever it is by now.
DeployStart(i) ==
    /\ deploy[i] = "start"
    /\ status' = [status EXCEPT ![i] = "STARTING"]
    /\ DeployGoto(i, "pull")
    /\ UNCHANGED <<checks, sessions, monitors, dockerVars>>

DeployPull(i) ==
    /\ deploy[i] = "pull"
    /\ DeployGoto(i, "network")
    /\ UNCHANGED <<status, checks, sessions, monitors, dockerVars>>

DeployNetwork(i) ==
    /\ deploy[i] = "network"
    /\ networks' = networks \cup {i}
    /\ DeployGoto(i, "agent")
    /\ UNCHANGED <<status, checks, sessions, monitors, containers, crashed,
                   agent>>

\* Phase 1: interceptor and test agent; then the deployment session.
\* Docker starts no container on a network that is gone.
DeployAgent(i) ==
    /\ deploy[i] = "agent"
    /\ i \in networks
    /\ containers' = containers \cup {i}
    /\ agent' = [agent EXCEPT ![i] = "running"]
    /\ sessions' = sessions \cup {i}
    /\ DeployGoto(i, "items")
    /\ UNCHANGED <<status, checks, monitors, networks, crashed>>

\* deployStageItems for stage 0.
DeployItems(i) ==
    /\ deploy[i] = "items"
    /\ i \in networks
    /\ DeployGoto(i, "running")
    /\ UNCHANGED <<status, checks, sessions, monitors, dockerVars>>

\* RUNNING when there is no further stage, and the crash monitor.
DeployRunning(i) ==
    /\ deploy[i] = "running"
    /\ status' = IF LastStage = 0 THEN [status EXCEPT ![i] = "RUNNING"]
                                  ELSE status
    /\ monitors' = monitors \cup {i}
    /\ DeployGoto(i, "done")
    /\ UNCHANGED <<checks, sessions, dockerVars>>

\* Mutant of DeployErrorPc: the error path of deploy does not tear down.
DeployErrorPcMutant == "failMark"

\* Where deploy goes when one of its calls throws.
DeployErrorPc == "failTeardown"

DeployFail(i) ==
    /\ \/ /\ "deploy" \in Events
          /\ deploy[i] \in {"pull", "network", "agent", "items"}
       \/ deploy[i] \in {"agent", "items"} /\ i \notin networks
    /\ DeployGoto(i, DeployErrorPc)
    /\ UNCHANGED <<status, checks, sessions, monitors, dockerVars>>

\* catch: teardown (its own failure is only logged), FAILED, rethrow; the
\* caller writes FAILED again and then checks the run.
DeployFailTeardown(i) ==
    /\ deploy[i] = "failTeardown"
    /\ Teardown(i) \/ TeardownFails(i)
    /\ DeployGoto(i, "failMark")
    /\ UNCHANGED <<status, checks, agent>>

DeployFailMark(i) ==
    /\ deploy[i] = "failMark"
    /\ status' = [status EXCEPT ![i] = "FAILED"]
    /\ DeployGoto(i, "failReport")
    /\ UNCHANGED <<checks, sessions, monitors, dockerVars>>

DeployFailReport(i) ==
    /\ deploy[i] = "failReport"
    /\ status' = [status EXCEPT ![i] = "FAILED"]
    /\ checks' = checks + 1
    /\ DeployGoto(i, "done")
    /\ UNCHANGED <<sessions, monitors, dockerVars>>

-----------------------------------------------------------------------------
(* DockerDeployerService.deployStage, requested by the test agent          *)

StageGoto(i, pc) ==
    /\ stagePc' = [stagePc EXCEPT ![i] = pc]
    /\ UNCHANGED <<runStatus, testStatus, definition, submit, schedVars,
                   deploy, deploys, stopVars, crashPc, procVars>>

\* Mutant of AwaitsStage: the last stage is not the end.
AwaitsStageMutant(i) ==
    /\ agent[i] = "running" /\ i \in containers
    /\ deploy[i] \in {"running", "done"}
    /\ stagePc[i] = "idle"

\* The agent asks for the next stage once, when the one before is healthy.
AwaitsStage(i) ==
    /\ agent[i] = "running" /\ i \in containers
    /\ deploy[i] \in {"running", "done"}
    /\ stage[i] < LastStage
    /\ stagePc[i] = "idle"

RunStage(i) ==
    /\ ct = "up"
    /\ AwaitsStage(i)
    /\ i \in sessions
    /\ StageGoto(i, "items")
    /\ UNCHANGED <<status, stage, sessions, monitors, dockerVars>>

StageItems(i) ==
    /\ stagePc[i] = "items"
    /\ i \in networks
    /\ stage' = [stage EXCEPT ![i] = @ + 1]
    /\ StageGoto(i, "running")
    /\ UNCHANGED <<status, sessions, monitors, dockerVars>>

StageRunning(i) ==
    /\ stagePc[i] = "running"
    /\ status' = IF stage[i] = LastStage THEN [status EXCEPT ![i] = "RUNNING"]
                                         ELSE status
    /\ StageGoto(i, "idle")
    /\ UNCHANGED <<stage, sessions, monitors, dockerVars>>

StageFail(i) ==
    /\ stagePc[i] = "items"
    /\ "deploy" \in Events \/ i \notin networks
    /\ StageGoto(i, "failTeardown")
    /\ UNCHANGED <<status, stage, sessions, monitors, dockerVars>>

StageFailTeardown(i) ==
    /\ stagePc[i] = "failTeardown"
    /\ Teardown(i) \/ TeardownFails(i)
    /\ StageGoto(i, "failMark")
    /\ UNCHANGED <<status, stage, agent>>

\* The error goes back to the agent, whose container is gone; nothing
\* checks the run.
StageFailMark(i) ==
    /\ stagePc[i] = "failMark"
    /\ status' = [status EXCEPT ![i] = "FAILED"]
    /\ StageGoto(i, "idle")
    /\ UNCHANGED <<stage, sessions, monitors, dockerVars>>

-----------------------------------------------------------------------------
(* NamespaceLifecycleService.stopInstance, on behalf of the completion of  *)
(* a test, of stopInstances in RunCleanupService, or of the API.           *)

StopGoto(w, i, pc) ==
    /\ stop' = [stop EXCEPT ![w][i] = pc]
    /\ UNCHANGED <<runStatus, definition, submit, task, deployVars, cancelPc,
                   crashPc, procVars>>

\* What the caller does next: stopInstances goes on to its own update.
AfterStop(w) == IF w = "cancel" THEN "mark" ELSE "done"

\* Mutant of ChecksRun: nobody looks at the run after a stop.
ChecksRunMutant(w) == FALSE

\* Only the completion handler then has the scheduler look at the run.
ChecksRun(w) == w = "completion"

StopBegin(w, i) ==
    /\ stop[w][i] = "begin"
    /\ status' = [status EXCEPT ![i] = "STOPPING"]
    /\ StopGoto(w, i, "teardown")
    /\ UNCHANGED <<testStatus, checks, sessions, monitors, dockerVars>>

StopTeardown(w, i) ==
    /\ stop[w][i] = "teardown"
    /\ \/ Teardown(i) /\ StopGoto(w, i, "stopped")
       \/ TeardownFails(i) /\ StopGoto(w, i, "failed")
    /\ UNCHANGED <<status, testStatus, checks, agent>>

StopStopped(w, i) ==
    /\ stop[w][i] = "stopped"
    /\ status' = [status EXCEPT ![i] = "STOPPED"]
    /\ checks' = IF ChecksRun(w) THEN checks + 1 ELSE checks
    /\ StopGoto(w, i, AfterStop(w))
    /\ UNCHANGED <<testStatus, sessions, monitors, dockerVars>>

\* catch: FAILED and rethrow.  The completion handler only logs the error.
StopFailed(w, i) ==
    /\ stop[w][i] = "failed"
    /\ status' = [status EXCEPT ![i] = "FAILED"]
    /\ StopGoto(w, i, AfterStop(w))
    /\ UNCHANGED <<testStatus, checks, sessions, monitors, dockerVars>>

\* POST /namespaces/instances/:id/stop; used at most once per instance.
StopApi(i) ==
    /\ "api" \in Events
    /\ ct = "up"
    /\ stop["api"][i] = "none"
    /\ StopGoto("api", i, "begin")
    /\ UNCHANGED <<status, testStatus, checks, sessions, monitors, dockerVars>>

-----------------------------------------------------------------------------
(* RunsService.stopCurrentRun; recoverOrphanedRuns does the same.          *)

\* Mutant of StopInstancesPlan: instances that were not started are skipped.
StopInstancesPlanMutant(i) ==
    IF status[i] \in {"STARTING", "RUNNING"} THEN "begin" ELSE "done"

\* What stopInstances does for an instance, by the status in its snapshot.
StopInstancesPlan(i) ==
    CASE status[i] \in {"STARTING", "RUNNING"} -> "begin"
      [] status[i] = "PENDING"                 -> "mark"
      [] OTHER                                 -> "done"

StopInstances ==
    /\ cancelPc' = "stopping"
    /\ stop' = [stop EXCEPT !["cancel"] =
                    [i \in Instances |-> StopInstancesPlan(i)]]
    /\ UNCHANGED <<dbVars, submit, schedVars, deployVars, memVars, dockerVars>>

StopCurrentRun ==
    /\ "cancel" \in Events
    /\ ct = "up"
    /\ cancelPc = "idle"
    /\ runStatus \in ActiveRun
    /\ StopInstances
    /\ UNCHANGED procVars

StopInstancesMark(i) ==
    /\ stop["cancel"][i] = "mark"
    /\ status' = [status EXCEPT ![i] = "FAILED"]
    /\ StopGoto("cancel", i, "done")
    /\ UNCHANGED <<testStatus, checks, sessions, monitors, dockerVars>>

AllStopped == \A i \in Instances : stop["cancel"][i] = "done"

\* All instances have been dealt with: CANCELLED, whatever the row holds.
StopFinish ==
    /\ cancelPc = "stopping"
    /\ AllStopped
    /\ runStatus' = "CANCELLED"
    /\ cancelPc' = "idle"
    /\ ct' = "up"
    /\ UNCHANGED <<status, testStatus, definition, submit, schedVars,
                   deployVars, stop, memVars, dockerVars, restarts>>

-----------------------------------------------------------------------------
(* The test agent (its own component) and the completion of a test         *)

\* It reports once.  It passes only when every stage is up.
AgentReport(i) ==
    /\ agent[i] = "running" /\ i \in containers
    /\ "early" \in Events \/ (deploy[i] = "done" /\ stagePc[i] = "idle")
    /\ \/ agent' = [agent EXCEPT ![i] = "failed"]
       \/ /\ deploy[i] \in {"running", "done"} /\ stage[i] = LastStage
          /\ agent' = [agent EXCEPT ![i] = "passed"]
    /\ UNCHANGED <<dbVars, submit, schedVars, deployVars, stopVars, memVars,
                   networks, containers, crashed, procVars>>

\* handleTestCompletion and handleValidationComplete: the result is stored
\* and the instance is stopped in the background.
HandleTestCompletion(i) ==
    /\ ct = "up"
    /\ agent[i] \in {"passed", "failed"}
    /\ testStatus' = [testStatus EXCEPT ![i] =
                        IF agent[i] = "passed" THEN "PASSED" ELSE "FAILED"]
    /\ agent' = [agent EXCEPT ![i] = "done"]
    /\ StopGoto("completion", i, "begin")
    /\ UNCHANGED <<status, checks, sessions, monitors, networks, containers,
                   crashed>>

-----------------------------------------------------------------------------
(* monitorForCrashedContainers                                             *)

ContainerExits(i) ==
    /\ "container" \in Events
    /\ i \in containers
    /\ crashed' = crashed \cup {i}
    /\ UNCHANGED <<dbVars, submit, schedVars, deployVars, stopVars, memVars,
                   networks, containers, agent, procVars>>

MonitorGoto(i, pc) ==
    /\ crashPc' = [crashPc EXCEPT ![i] = pc]
    /\ UNCHANGED <<runStatus, testStatus, definition, submit, task,
                   deployVars, stopVars, agent, procVars>>

MonitorEnds(i) ==
    /\ i \in monitors
    /\ status[i] \in Terminal
    /\ monitors' = monitors \ {i}
    /\ MonitorGoto(i, crashPc[i])
    /\ UNCHANGED <<status, checks, sessions, networks, containers, crashed>>

MonitorSeesCrash(i) ==
    /\ i \in monitors /\ crashPc[i] = "idle"
    /\ status[i] \notin Terminal
    /\ i \in crashed
    /\ monitors' = monitors \ {i}
    /\ MonitorGoto(i, "recheck")
    /\ UNCHANGED <<status, checks, sessions, networks, containers, crashed>>

MonitorRechecks(i) ==
    /\ crashPc[i] = "recheck"
    /\ MonitorGoto(i, IF status[i] \in Terminal THEN "idle" ELSE "mark")
    /\ UNCHANGED <<status, checks, sessions, monitors, networks, containers,
                   crashed>>

MonitorMarks(i) ==
    /\ crashPc[i] = "mark"
    /\ status' = [status EXCEPT ![i] = "FAILED"]
    /\ MonitorGoto(i, "teardown")
    /\ UNCHANGED <<checks, sessions, monitors, networks, containers, crashed>>

\* onCrash has the scheduler look at the run, unless the teardown threw.
MonitorTeardown(i) ==
    /\ crashPc[i] = "teardown"
    /\ \/ Teardown(i) /\ checks' = checks + 1
       \/ TeardownFails(i) /\ UNCHANGED checks
    /\ MonitorGoto(i, "idle")
    /\ UNCHANGED status

-----------------------------------------------------------------------------
(* The process dies: every handler in progress is gone, rows, files and    *)
(* containers are not.  A completion on its way is lost.                   *)

Restart ==
    /\ "restart" \in Events
    /\ restarts < MaxRestarts
    /\ restarts' = restarts + 1
    /\ ct' = "cleanup"
    /\ submit' = [i \in Instances |->
                    [pc  |-> IF submit[i].pc = "idle" THEN "idle" ELSE "done",
                     run |-> submit[i].run]]
    /\ task' = [c \in Callers |-> IdleTask]
    /\ checks' = 0
    /\ deploy' = [i \in Instances |-> "none"]
    /\ stagePc' = [i \in Instances |-> "idle"]
    /\ stop' = [w \in Stoppers |-> [i \in Instances |-> "done"]]
    /\ cancelPc' = "idle"
    /\ crashPc' = [i \in Instances |-> "idle"]
    /\ sessions' = {} /\ monitors' = {}
    /\ agent' = [i \in Instances |-> IF agent[i] \in {"passed", "failed"}
                                     THEN "done" ELSE agent[i]]
    /\ UNCHANGED <<dbVars, stage, deploys, networks, containers, crashed>>

\* DockerClientService.cleanupOrphanedResources: a network that cannot be
\* removed is left behind.
CleanupOrphanedResources ==
    /\ ct = "cleanup"
    /\ ct' = "recover"
    /\ containers' = {} /\ crashed' = {}
    /\ networks' \in IF "teardown" \in Events THEN SUBSET networks ELSE {{}}
    /\ UNCHANGED <<dbVars, submit, schedVars, deployVars, stopVars, memVars,
                   agent, restarts>>

\* Mutant of Orphaned: a run that has not left PENDING is not recovered.
OrphanedMutant == runStatus = "RUNNING"

\* The runs recoverOrphanedRuns looks for.
Orphaned == runStatus \in ActiveRun

RecoverOrphanedRuns ==
    /\ ct = "recover"
    /\ cancelPc = "idle"
    /\ \/ Orphaned /\ StopInstances /\ UNCHANGED procVars
       \/ /\ ~Orphaned
          /\ ct' = "up"
          /\ UNCHANGED <<dbVars, submit, schedVars, deployVars, stopVars,
                         memVars, dockerVars, restarts>>

-----------------------------------------------------------------------------
SubmitStep(i) == SubmitTx(i) \/ SubmitDefinition(i) \/ SubmitFinish(i)

TaskStep(c) ==
    \/ HandleInstancesStopped(c)
    \/ CheckRead(c) \/ CheckWrite(c) \/ DeployRead(c) \/ ClaimEnd(c)
    \/ \E i \in Instances : CheckDefinition(c, i) \/ Claim(c, i)

DeployStep(i) ==
    \/ DeployStart(i) \/ DeployPull(i) \/ DeployNetwork(i) \/ DeployAgent(i)
    \/ DeployItems(i) \/ DeployRunning(i) \/ DeployFail(i)
    \/ DeployFailTeardown(i) \/ DeployFailMark(i) \/ DeployFailReport(i)

StageStep(i) ==
    \/ RunStage(i) \/ StageItems(i) \/ StageRunning(i) \/ StageFail(i)
    \/ StageFailTeardown(i) \/ StageFailMark(i)

StopStep(w, i) ==
    StopBegin(w, i) \/ StopTeardown(w, i) \/ StopStopped(w, i) \/ StopFailed(w, i)

MonitorStep(i) ==
    \/ MonitorEnds(i) \/ MonitorSeesCrash(i) \/ MonitorRechecks(i)
    \/ MonitorMarks(i) \/ MonitorTeardown(i)

BootStep == CleanupOrphanedResources \/ RecoverOrphanedRuns

Next ==
    \/ \E i \in Instances :
        \/ SubmitRead(i) \/ SubmitStep(i)
        \/ DeployStep(i) \/ StageStep(i) \/ MonitorStep(i)
        \/ \E w \in Stoppers : StopStep(w, i)
        \/ StopApi(i) \/ StopInstancesMark(i)
        \/ AgentReport(i) \/ HandleTestCompletion(i) \/ ContainerExits(i)
    \/ \E c \in Callers : Poll(c) \/ TaskStep(c)
    \/ StopCurrentRun \/ StopFinish
    \/ Restart \/ BootStep

Spec == Init /\ [][Next]_vars

\* Promises that were started are settled, timers fire, the CLI submits
\* what it announced and polls, the agent reports within its deadline.  A
\* chain that is due is not held up by polls: it has its own promise, and
\* takes its turn whenever a caller slot of the model is free.
\* Nothing obliges the environment to fail, cancel or restart.
Fairness ==
    /\ \A i \in Instances :
        /\ WF_vars(SubmitRead(i)) /\ WF_vars(SubmitStep(i))
        /\ WF_vars(DeployStep(i)) /\ WF_vars(StageStep(i))
        /\ WF_vars(MonitorStep(i))
        /\ \A w \in Stoppers : WF_vars(StopStep(w, i))
        /\ WF_vars(StopInstancesMark(i))
        /\ WF_vars(AgentReport(i)) /\ WF_vars(HandleTestCompletion(i))
    /\ \A c \in Callers :
        /\ WF_vars(Poll(c)) /\ WF_vars(TaskStep(c))
        /\ SF_vars(HandleInstancesStopped(c))
    /\ WF_vars(StopFinish) /\ WF_vars(BootStep)

FairSpec == Spec /\ Fairness

-----------------------------------------------------------------------------
(* Properties                                                              *)

\* The claim in deployPendingInstances "prevents duplicate deploys when
\* concurrent callers race": however polls, completions, crashes, stops and
\* restarts interleave, deploy is called at most once for an instance.
SingleDeploy == \A i \in Instances : deploys[i] <= 1

\* checkRunCompletion never reports success for a run in which some test
\* did not pass, although it decides on a snapshot and writes it later.
CompletedMeansPassed ==
    runStatus = "COMPLETED" => \A i \in Instances : testStatus[i] = "PASSED"

\* A run that is COMPLETED or CANCELLED holds no instance that a scheduler
\* working from an old snapshot could still claim.
EndedLeavesNonePending ==
    runStatus \in {"COMPLETED", "CANCELLED"} =>
        \A i \in Instances : status[i] # "PENDING"

\* After a restart and the recovery at start-up, the run is over and stays
\* over, and none of its networks exists any more.
RecoveredRunIsOver ==
    restarts > 0 /\ ct = "up" => runStatus \in TerminalRun /\ networks = {}

\* max-parallel, "Maximum concurrent test environments".  The scheduler keeps
\* to it as long as its chains do not overlap and no container crashes while
\* its instance is being deployed.
ConcurrencyLimit ==
    Cardinality({i \in Instances : status[i] \notin {"PENDING"} \cup Terminal})
        <= MaxConcurrent

\* max-booting, "Maximum environments booting simultaneously": see above.
BootingLimit ==
    Cardinality({i \in Instances : status[i] = "STARTING"}) <= MaxBooting

\* POST /runs/stop: "Namespaces are torn down".
StoppedIsTornDown == runStatus = "CANCELLED" => networks = {}

\* Every run gets its verdict, however its deploys fail and share the slots.
RunEnds == <>[](runStatus \in TerminalRun)

\* "When a run finishes, the entire namespace is destroyed."
NamespacesDestroyed == runStatus \in TerminalRun ~> networks = {}

\* A run whose instances are all over, one of them FAILED, is marked FAILED.
FailedInstanceEndsRun ==
    (\A i \in Instances : status[i] \in Terminal) ~> runStatus \in TerminalRun
=============================================================================
