# Dokkimi: a verification project in TLA+

Dokkimi runs integration tests of multi-container systems. The CLI resolves
definitions; a local server, the Control Tower, deploys each definition as an
isolated Docker network with the services, databases, brokers and mocks it
names; a test agent in that network drives the steps; sidecar proxies around
the containers record the traffic that the assertions are about.

The modules here model the parts of that program in which several actors work
on shared state: scheduling and recovery of runs, admission and history, the
delivery of captured logs, the judgement of steps, the staged boot, the proxies,
the loops and reports of the test agent, the `run` command, the daemon, visual
baselines; and, as functions, what is decided without state: mocks, references,
loops, assertions, UI actions, items and what is made of them, settings and
reports. TLC checks them on small instances; TLAPS proves for instances of any
size what the parts with several actors promise about safety.

    tlc -workers 2 -config RunSchedule.cfg MCRunLifecycle   # any .cfg with its module
    tlapm RunLifecycleProofs.tla                            # and every other *Proofs.tla

`PROJECT.json` lists components, runs, mutants, the source lines of each
definition, the hazards of the code and the theorems.

## 1. Inventory

Paths are under `src/`. CT is `services/control-tower/src`, TA is
`services/test-agent`.

| component | state | operations | what is hard | what makes it correct |
|---|---|---|---|---|
| Run scheduling (CT `runs/runs.service.ts`, `deployment-scheduler.service.ts`) | rows `Run`, `NamespaceInstance`; `definition.json`; promises nobody awaits | submit, poll, claim, background deploy, completion, verdict | every handler decides on a snapshot and writes after awaits; polls, reports, crashes, stops interleave | an instance is deployed once; a verdict is true; limits hold; a run ends |
| Deployment (CT `namespace-lifecycle/`) | networks, containers, `deploymentSessions`, crash monitors | deploy, deployStage, teardown, monitor | every Docker call may fail; stops and teardowns during a deploy; stages asked for later | failures tear down; a stopped run keeps nothing; a failed instance ends its run |
| Admission, history, recovery (CT `runs/run-cleanup.service.ts`, `storage/run-storage.service.ts`) | run rows, run directories, registry credentials | create, stop, delete, prune, recover at start-up | requests interleave; row and directory are written separately; restart in between | one active run; the limit on kept runs; a kept run keeps its files |
| Log capture (`services/interceptor`, `db-proxy`, `broker-proxy`: `logger.go`) | bounded channel, worker, a goroutine per copy | capture, copy to the agent, upload with retries, Stop | lost answers, time-outs, full channel, SIGTERM, SIGKILL | each log at most once at each end; a loss is accounted for; a dead peer blocks nothing for ever |
| Log storage (CT `log-processing/`) | log rows | validate instance, upsert | repeated and late uploads | a log is one row |
| Step validation (TA `step_*.go`, `test_*.go`) | log buffer with ids, windows, watermark | run action, poll, decide, flush | logs arrive late, or while another step is judged; a wait sees its predecessor's logs | no foreign logs; counted once; early failure only if hopeless; tests end |
| Staged boot (TA `health_tracker.go`, `main.go`; `health.go` of the proxies) | expected items, ready set, channel; state of each health client | check, report, Reset, time-out, next stage | lost, repeated and late reports across Reset | a stage starts only after its predecessors were healthy; healthy items do boot |
| Assertions and transforms (TA `assertion_*.go`, `block_validators.go`, `doc_path.go`, `document_assembler*.go`) | none | evaluate | coercions, missing values | agree with the documented operators |
| Loops, variables (TA `loop_executor.go`, `variable_context.go`) | variables | for, forEach, repeat, extract | caps, completion of until loops, stale values | each iteration sees its own variables |
| Executors of steps (TA `http_`, `*_executor.go`, `ui_*.go`, `visual_matcher.go`) | driver connections, browser | one action | time-outs | an answer or an error |
| Reports and console logs (TA `completion_notifier.go`, `validation_reporter.go`, `gelf_receiver.go`) | queues | post | single attempts, full queues | the run learns the outcome |
| Interceptor (`proxy.go`, `mock.go`, `cache.go`, `tls.go`) | mocks, URL map | proxy, mock | tie-breaks; cache parts set apart | the most specific mock answers |
| Database and broker proxies (`*/connection.go`) | pending requests, cursors, assembly per channel | relay, pair answers with requests | pipelining, several answers to one request, two goroutines per connection | a log carries the request of its answer |
| Item status, readiness (CT `health/`, `namespace/`) | status rows | update | reports out of order | display only |
| Configuration for Docker (CT `namespace-lifecycle/builders`, `docker/*-group`) | none | build options | - | - |
| Queries, UI timeline, artifacts, baselines (CT `log-query`, `log-processing/ui-timeline.service.ts`, `artifacts`, `baselines`) | files | read, write | pairing of events | a step is shown with its own events |
| CLI (`apps/cli`) | none on disk but preferences | run, stop, inspect, clean | aborts between submissions; polling | exit code is the verdict |
| Daemon management (`shared/service-manager`) | pid and lock files | start, stop | takeover of a lock; crash while holding it | one daemon |
| Resolver, validator (`shared/definition-*`) | none | parse, resolve, validate | references, cycles, stages | an accepted definition deploys |
| Configuration, preferences (`shared/config`, `dokkimi config`, MCP `set_config`) | one file with a part per project | load, validate, override, set, unset | two ways to change one file; a project and what it inherits; overrides after the validation | a change changes what it says and nothing else |
| Registry credentials (`registry-credentials.ts`, CT `docker-registry.service.ts`) | memory | resolve, choose | five sources, several ways to write a registry | an image is pulled with what docker would use |
| Telemetry (`shared/telemetry`) | a file, waiting events | start, track, opt in and out, flush | one process has what another changes | no event after opting out |
| Reports of the CLI (`junit.ts`, `ci-display.ts`, `run-display.ts`) | what was printed | print, write, read again | repeated polls; a terminal that is too small; escapes | each instance is told once, and as it ended |
| MCP, VS Code, studio, platform, scripts | none | clients, wrappers | - | - |

**How they interact.** CLI → CT over HTTP (`POST /runs`, submissions, polls,
stop). CT → Docker API. CT → agent: nothing; the agent is given its
configuration when it is created. Sidecars → agent: readiness, copies of logs.
Agent → CT: next stage, validation results, completion. Sidecars → CT: logs,
readiness. CT components share rows of one SQLite database and run in one
JavaScript thread, so they interleave at awaits only; the Go services run a
goroutine per request and share state under mutexes.

## 2. Modules

| module | models | composed of |
|---|---|---|
| `RunLifecycle` | one run, from submission to verdict: scheduler, deployer, stages, stops, crash monitor, recovery | - |
| `RunAdmission` | runs as a whole: create, stop, delete, prune, restart, files | abstracts a run to pending, booting, up, over |
| `LogChannel` | what a log channel promises: each log taken at most once | - |
| `LogDelivery` | both ways out of a sidecar, the wire, both receivers | INSTANCEs `LogChannel` twice, once per receiver |
| `StepValidation` | buffer, windows, polling, flushes, order of steps | takes from `LogDelivery` that a copy arrives at most once or never |
| `StagedBoot` | what the boot promises: stages in order, each after the one before was healthy | - |
| `StagedHealth` | health clients, reports, tracker, agent, stage requests | INSTANCEs `StagedBoot` |
| `TrafficCapture` | one connection through a proxy, after its handshake | EXTENDS `ProxyProtocols`: what each protocol's handler remembers |
| `SessionSetup` | the handshake of PostgreSQL and MySQL before it | - |
| `Interceptor` | the choice of a mock, the way of a call | functions |
| `TestRunner` | loops around tests, steps and actions; variables; what stops a test | - |
| `Definitions`, `References` | loops and references as the validator sees them and as the agent does | functions |
| `Assertions` | paths, transforms, operators, where, blocks | functions |
| `UiDefinitions` | UI sub-steps: validator, decoder, executor | functions |
| `Values` | the values of YAML and JSON, as TypeScript checks and as Go decodes them | - |
| `TestDefinitions` | a test of a definition: validator, decoder and what fails in the agent by the test's own fault | functions; INSTANCEs `Definitions` |
| `Resolver` | from the files of a project to the definitions that run | functions; takes validity from the modules above |
| `Items` | an item of a definition: validator, CLI, what the Control Tower lets in | functions |
| `Containers` | stages, containers, names, ports, credentials and files made of the items | functions |
| `Preferences`, `Telemetry`, `Configuration` | the file of preferences with all who change it; the life of a process that tracks; the configuration of the services | functions |
| `Registries` | where credentials come from and which one an image is pulled with | functions |
| `Reports` | the lines of CI mode, the frame on a terminal, the JUnit report and its summary | functions |
| `AgentReports` | executions of the agent, its events and reports, its end | - |
| `RunCommand` | `dokkimi run`: triggers, timer, abort, exit | abstracts a run to its status |
| `Baselines` | visual baselines over several runs, with the artifacts and the review | abstracts a run to its captures |
| `UiTimeline` | the timeline made of events and logs, by time | - |
| `Daemon` | lock, state file and process of the Control Tower | - |
| `ConsoleLogs` | what a container prints, from the chunks of its stream to rows | functions |
| `Parts` | one specification of all from `TrafficCapture` on, with what is promised of them | INSTANCEs each |
| `MCInputs`, `MCParts` | the inputs of `Parts`, and the properties of the functions | EXTENDS `Parts` |
| `RunLifecycleProofs`, `RunAdmissionProofs`, `LogDeliveryProofs`, `StepValidationProofs`, `StagedHealthProofs` | inductive invariants and theorems (section 5) | each EXTENDS the module it is about |
| `CommandProofs` | what runs on the user's machine: `RunCommand`, `Daemon`, `Baselines` | EXTENDS the first, INSTANCEs the others |
| `InstanceProofs` | what runs with the items of a definition: `TestRunner`, `AgentReports`, `TrafficCapture`, `SessionSetup` | EXTENDS the first, INSTANCEs the others |
| `PartsProofs` | the same stated of `Parts`, and of `Interceptor` | INSTANCEs the last two |
| other `MC*` | TLC instances: model values, symmetry, test programs | |

### RunLifecycle
`runStatus`, `status`, `testStatus` are columns of the rows, `definition` is
the file on disk (`partial` while it is being written), `networks`,
`containers`, `crashed` are Docker's. The rest is the state of handlers in
progress, and lost at `Restart`. An action is what a handler does between two
awaits that another handler could tell apart; awaits whose results nobody else
writes are joined. A scheduler chain (`Callers`) is `Poll` or
`HandleInstancesStopped`, then `CheckRead`, one `CheckDefinition` per pending
instance, `CheckWrite` (checkRunCompletion), then `DeployRead`, `Claim`,
`ClaimEnd` (deployPendingInstances). `Deploy*` are deploy and its error path,
`Stage*` deployStage, `Stop*` stopInstance, `Monitor*` the crash monitor,
`HandleTestCompletion` the agent's report, `Restart`,
`CleanupOrphanedResources` and `RecoverOrphanedRuns` the start-up. The constant
`Events` names what the environment may do; each run allows what its question
needs.

### RunAdmission
A request is a client that loops over a snapshot of runs: `phase` says in which
loop of which handler it is, `pc` where in the turn, `todo` what is left of the
snapshot. Rows and directories are separate, so that every order of their
deletion is a behaviour. A directory is named for the second of creation: the
event `sameSecond` lets two runs share one. No passing run has it, since pruning
the older run then removes the files of the newer one. A submission reads in
`SubmitInstance` and writes in `SubmitTx`; when a stop comes between, the
cancelled run is RUNNING again, and prepareForNewRun may miss it in both of its
queries. `revived` remembers such runs, and `OneActiveRun` and `HistoryLimit`
are stated about the others. FINISHED stands for the three terminal statuses,
which no query of this part tells apart.

### LogDelivery
A sender is the goroutine of a copy or the worker; a request on the wire is a
record with the attempt it belongs to, and may be handled after its sender has
timed out or gone. `Finish`, `Retry`, `Settle` are the retry loop of `sendLog`;
`Exit`, `PlainStopReturns`, `MessageStopReturns` the three loggers' Stop.
`HandleByCT` is storage.service and the processors, `HandleByAgent` the buffer
with its seen-set. `fate` records where a log got lost, and `LossAccounted`
says that nothing is lost without one of the causes the code knows.

### StepValidation
Time is a clock of ticks, because windows are comparisons of capture times with
the times of steps. `buffer`, `begun` and `prevStart` are the agent's;
`Decide` is one round of ValidateStepWithRetry (validate, stop if passed or not
retryable or late), `Conclude` and `Finish` what follows, the flush unless a
wait comes next (test_runner.go:99) included.

### StagedHealth
Each item has a sidecar with a HealthState and a count of good checks; each
check publishes to the agent, again and again, in a goroutine of its own, so
`reports` is a set from which `Deliver` need not take the report away
(repeats), and `Lose` may. `Needed` says that databases and brokers need one
good check, others two. The tracker heeds only reports of the stage it expects.

### TrafficCapture, ProxyProtocols, SessionSetup
`sent`, `fwd`, `seen` are how far a script of requests has got on its way to the
server, `answers`, `relayed`, `read` on its way back. A database proxy reads a
message before it forwards it, a broker proxy after; the two goroutines share
`px`, whose shape depends on the protocol: a FIFO (PostgreSQL, Redis, with
placeholders for what is not to be logged), the last command with a count of
packets to come (MySQL), ids and cursors (MongoDB), correlation ids (Kafka), an
assembly per channel (AMQP). What the server may answer is `Answers`, external.
A Redis client goroutine that finds the queue full is `blocked` in its send
(`ReadAndBlock`) until the other takes a command: to close its client ends a read
and not that send (`UpEnds`), and commands in its buffered reader are still read
then (`RequestReadable`). Only what somebody could see is a step: what the client
has sent and the proxy has not read does not show.
`odd` remembers that the server, or the order of things, has been one that no
proxy of this kind can pair: the text of several statements, an Execute that ends
with PortalSuspended or EmptyQueryResponse or is discarded, a push of Redis in
RESP2, a Kafka answer that overtakes the registration of its request. The
properties leave a connection out from there on. The PostgreSQL proxy keeps one
statement and one list of columns per connection. Which text an Execute has
depends on its own portal (`BindOf`, `TextOf`), what the proxy takes for it on the
last Bind. `Paired` leaves open the text of an Execute whose portal is
not the one bound last, or whose statement was parsed anew since
(`StatementIsLast`), and the columns of one whose statement is not the one described
last (`ColumnsAreLast`), but not which query the answer and the rows belong to. `Ended` leaves out
`Stuck`, a Redis goroutine that is blocked on a full queue when the other is gone. `SessionSetup` is the one
goroutine of a handshake: which messages the client answers, and who reads next.

### TestRunner and AgentReports
A place (`at`) of TestRunner is the beginning of a test, a pass, a step, a round
of its loop, a turn of its action's loop, the judgement, or the next. `env`
remembers of each variable the test and the pass that set it. An action fails
or not, assertions hold or not, an until is met or not, as they will.
AgentReports is the same agent from outside: executions begin by auto mode and
by `POST /execute`, queue events and start a goroutine per result; `main` is
where the end of the process stands, and each of its waits has a deadline.

### RunCommand, Daemon
RunCommand has one thread; a step runs from one await to the next. `trigger[t]`
is where the invocation t of triggerRun stands, `waits` whose promise it awaits.
`missed` are runs of whose creation or stop the command got no answer. In Daemon
every look at a file and every write is a step, and a process may die at any;
`accident` names what then excuses a promise that is broken.

### Baselines, UiTimeline
In Baselines, `look` is what a shot would capture now (it may change between
runs), `dir` the approved images of the project, `staged` and `mounted` their
copies in the run directory and in the agent. `pos` is the shot that is next,
`rows` and `files` the artifacts, `review` the approval command with what it has
loaded. A definition is a list of shots, some of them in loops (`Hidden` from
the collection of names) and some of the same name (`Shared`). UiTimeline has a
clock of milliseconds: sub-steps start and end, calls begin and are logged when
they end, and the rest of the module is the timeline as a function of both.

### The functions
Validator and agent are in different languages and read the same definition.
`Definitions`, `References`, `Assertions` and `UiDefinitions` translate both
sides, and their properties are that what one accepts the other performs. The
values that YAML may hold are records `[is, has]` or `[kind, ...]`, so that a
wrong type is an input as well. `Resolver` takes files as they lie
and says which become definitions; that a run which watches its files misses none
that matters is stated by changing each file it does not watch. `Items` follows an item from the validator through
`buildSubmitBody` into the DTO of the Control Tower, and `Containers` what the
builders there make of it: the two sides of each of its properties (the server
and its proxy, the deployed containers and the list that the agent waits for, the
written init files and the order a server runs them in) are kept in step by
comments in the code. `Interceptor` is FindMatch with its scores,
and the way of a call from its URL through aliases and URL maps: the host, its
first label (`FirstLabel`, for names like `api.x.svc.cluster.local`) and the first
segment of the path are tried in this order.

`Preferences` takes the file as a function with the keys it has, so that what is
not set is not there; the menu and the tool are two translations of one
intention, and their property is that each change is in force afterwards and that
nothing else has changed anywhere. `Telemetry` folds the acts of a process over what
it read when it started. `Configuration` and `Registries` take what lies in files and in
the environment; `Reports` takes the answers of the Control Tower as they come.

## 3. Runs

| run | instance | shows | states, time |
|---|---|---|---|
| `run_schedule` | 2 instances, 2 chains, 1 stage; polls, half-written definitions, early reports, failing teardowns | `SingleDeploy`, `CompletedMeansPassed` | 539 k, 1 min |
| `run_limits` | 3 instances, 1 chain, 2 slots, 1 booting; failing deploys | `ConcurrencyLimit`, `BootingLimit`, `RunEnds` | 297 k, 2 min |
| `run_recovery` | 1 instance, 2 stages; both stops, failures, crashes, early reports, 1 restart | `TypeOK`, `EndedLeavesNonePending`, `RecoveredRunIsOver`, `NamespacesDestroyed` | 193 k, 2 min |
| `run_stop` | 1 instance; stop during a deploy | refutes `StoppedIsTornDown` | |
| `run_stage_failure` | 1 instance, 2 stages; failing stage | refutes `FailedInstanceEndsRun` | |
| `admission` | 1 creator and 1 that stops and deletes, 3 runs, history of 2; restarts, failing deletions | `OneActiveRun`, `HistoryLimit`, `KeptRunHasFiles` | 2.4 M, 100 s |
| `admit_race` | 2 creators, nothing else | refutes `OneActiveRun` | |
| `log_delivery` | 2 logs (one with an id and perhaps an orphan, one without, late and refused), channel of 1, 2 attempts; stop, kill, 5xx | `LossAccounted`, `StoredOnce`, `CountedOnce`, `LogsSettle` | 352 k, 90 s |
| `step_validation` | four lists of three steps, 2 logs of services and one per request | `NoForeignLogs`, `CountedByOneStep`, `WaitInheritsLogs`, `OwnLogFirst`, `EarlyFailIsFinal`, `TestsEnd` | 611 k |
| `step_retry` | one step with an assertion on `$.match` | refutes `EarlyFailIsFinal` | |
| `staged_health` | 2 items in stage 0, 1 in stage 1 | `BootsInOrder`, `BootsIfUp` | 355 k, 2 min |
| `parts` | a behaviour is that of one part; see below | the 16 properties of `MCParts` | 0.7 M, 2 min |

The parts of `parts` share no state, so their behaviours are those of a sum, not
of a product:

| part | instance | shows |
|---|---|---|
| traffic | 17 scripts of requests or frames over the six protocols, among them two portals, two described statements, a statement parsed anew, four pipelined commands; either side may leave at any time; a queue of 2 | `TrafficTold`, `TrafficArrives`, `PartsSettle` |
| setup | 13 dialogues: each kind of authentication, refused and granted, TLS denied, a cancel request | `TrafficArrives`, `PartsSettle` |
| mocks, calls | all pairs and some triples of mocks against requests; all calls, with paths of up to two segments, in a network with each kind of item | `TrafficArrives` |
| daemon | two starts and a reboot at the same time; one accident at any step | `OneDaemon` |
| tests | six programs with loops of every kind around tests, steps and actions, nested and failing; ranges of steps | `StepsInOrder`, `PassedMeansJudged` |
| definitions, ranges | a step or block with up to two loops and what stands beside them; ranges around the cap | `DefinitionsAgree` |
| references | four files that refer to each other, to themselves and to a missing one, in lists of up to two | `DefinitionsAgree` |
| sources, wheres, blocks | one document with a value of each kind against every source, operator and form of where; blocks in blocks | `AssertionsAgree` |
| substeps | each kind with right, missing and wrong fields; groups in groups | `DefinitionsAgree` |
| written, looped | a test of each kind with one value of each of thirty shapes; rules of extraction; captures of one name; actions in parallel; each loop at each level | `DefinitionsAgree` |
| scopes, projects | eleven files in and out of `.dokkimi`, every directory and file as target, with each `.dokignore`; one or two definitions with every form of reference, configuration and drawn file | `ResolutionHolds` |
| items | an item of each type with one value of each of forty shapes, or two that depend on each other | `ItemsServe` |
| groups | databases with every choice of credentials and up to 101 init files; brokers with ports; services with up to two mount files | `ItemsServe` |
| instances | up to two items of every type with names that other containers have, with and without a browser | `ItemsServe` |
| timeline | four tests of two or three sub-steps, 2 calls, 3 ms | `ReportsTell` |
| settings | 193 files with a global part and two projects, each with every setting or without; a torn file; every entry of the menu and call of the tool, with values in, at and out of range | `SettingsKept` |
| starts | each state and set of options of a process; up to four acts of it or of another | `SettingsKept` |
| configs, sections | a valid configuration in which one field is missing or has one of ten values, or one section is missing, and one variable of the environment | `SettingsKept` |
| dockers, lists | entries in the store, inline and with helpers, each registry written in five ways; registries.yaml here, above or nowhere | `SettingsKept` |
| strings, reports | all texts of up to four letters and escapes; runs of up to two instances, each ended in every way, asked for in vain or not | `ReportsTell` |
| polls, frames | up to three polls, unanswered ones among them, in CI; up to four instances on terminals of 0 to 9 lines | `ReportsTell` |
| visual | two runs and the review between them; images that change; one failing write or call | `BaselinesHold` |
| agent | auto mode and `POST /execute`, three steps, queue of 2 | `AgentEndsWell`, `PartsSettle` |
| command | two triggers in CI, in a terminal, watching | `CommandEndsWell`, `PartsSettle` |

`PartsTypeOK` joins the types of those with state.

**Why the bounds are enough.** Two chains are what a claim race needs: the
conditional update takes two contenders, and a third adds no new order of
reads and writes on one row. Two instances let a verdict be computed on a
snapshot in which one is done and the other not. Three instances through two
slots, one of them for booting, reach every combination of waiting, booting and
running that `SlotsAvailable` distinguishes. Two stages give both a first and a
later one, which are handled by different code. One restart can fall between
any two steps, and the second start-up starts from the same kind of state.
Three runs with a history of two is the smallest history that is pruned; a
second project multiplies the states and only adds runs the queries skip. A
channel of one can be full and empty; two attempts give a first, a retry and a
last; two logs can overtake each other. Lists of three steps have a step
between two others, a wait after a step and a wait after a wait. Two stages
with two items in the first give a Reset while reports of both are on their way.

In `parts`, a script is the shortest in which a request depends on an earlier
one or overtakes it: a third request is there to show that the pairing has
shifted. A queue of 2 (1024 in the code) is full and empty, and four
commands are one more than it and the goroutine that takes from it hold, so that
the send blocks. Ranges go up to 8
(`MaxIterations`, 10000) and references 2 deep (`MaxRefDepth`, 10), one below,
at and above the limit. Two triggers are one that
runs and one that waits for it, stops its run and is itself aborted when the
command ends. Two runs suffice for a baseline: the one that
fails, and the one after the review. Two calls and three milliseconds let a call
begin before, with or after a sub-step, and inside, beside or at the same time as
another.

**Deadlock** is not checked: a run that has its verdict, a request that is
answered, an agent that is done and a function that is applied stop. That they
get there is stated as liveness instead (`RunEnds`, `NamespacesDestroyed`,
`LogsSettle`, `TestsEnd`, `BootsIfUp`, `PartsSettle`).

**Fairness.** RunLifecycle: weak fairness of every step of a started promise or
timer (the event loop runs what is ready), of the CLI's submissions and polls
(it polls until the run is over) and of the agent's report (its deadlines are
finite); strong fairness of `HandleInstancesStopped`, which competes for a chain
with polls but is in the code a call of its own. None for failures, stops,
crashes, restarts. LogDelivery: weak fairness of the worker's take, of Stop's
end and of a request's time-out (the HTTP clients have one); none for answers,
so that the peers may be dead. StepValidation: weak fairness of the executor
and of the clock; none for the arrival of logs. StagedHealth: weak fairness of
checks (a ticker), stage requests, deployments and the loss of outdated not-ready
reports; strong fairness of the delivery of ready reports, because a sidecar
repeats its report as long as the item is ready and each can be lost but not
all; none for items coming up or for the time-out. `parts`: weak fairness of one
action per part, `Fair`: the goroutines of a proxy, the deadline after a client has
gone, the kernel that delivers what was written, and the server's answers (a
client that waits for a server that never answers waits rightly); the awaits of
the command and the end of its runs once they are told to stop; the steps of the
agent, whose calls have deadlines. None for clients, keys, signals, failures.

## 4. What the checks found

Four places where the code does not do what the repository says of it, each
with a run that exhibits it:

1. `run_stop`. `stopInstance` does not stop a deploy in progress: the deploy
   goes on to create network and containers after the teardown, and the run is
   already CANCELLED. `runs.controller.ts:84` says the namespaces are torn down.
2. `run_stage_failure`. When a later stage fails, `deployStage` removes the
   instance with its agent and marks it FAILED, but nothing calls
   `checkRunCompletion`: the run stays RUNNING. The scheduler's spec (line 342)
   expects FAILED.
3. `admit_race`. Two `POST /runs` both pass the check for an active run.
   `docs/implemented/run-history-limit.md:46` says there is one per project.
4. `step_retry`. An assertion on `$.match` in a block that has matched nothing
   is not retryable, so the step fails at once though the log may be on its
   way. `docs/ARCHITECTURE.md:382` says a step polls while it looks as if logs
   had not arrived.

Further disagreements met while reading, which no run states, are hazards of
`PROJECT.json` with a note: `POST /runs` refuses while a run is active whereas
its comment says it tears the run down (`runs.controller.ts:25`,
`runs.service.ts:59`); a submission triggers no deployment (`:39`); with
`maxRunHistory` 1 two runs are kept; uploads are retried on 429 though
ARCHITECTURE names 5xx only; queued logs are lost when teardown kills a proxy,
despite "captured means observable" (`ARCHITECTURE.md:254`).

Three more came up in `parts`, whose properties name the case and leave it out:

- The PostgreSQL proxy knows one statement per connection, that of the last Bind
  (`postgres/connection.go:97`), and the columns described last (`:138`). Bind two
  portals and execute the first: it is logged with the text of the second. Describe
  two statements and execute the first: its rows are read with the columns of the
  second. `docs/ARCHITECTURE.md:353` says that text and results are extracted. TLC
  finds both within a script of six requests when `StatementIsLast` or
  `ColumnsAreLast` is dropped from `Paired`.
- If the server of Redis dies while the queue of pending commands is full, `relay`
  closes the client to "unblock" the goroutine that reads from it
  (`redis/connection.go:65`), but that waits in a send (`:97`), which does not end:
  both sockets and the goroutine stay. TLC finds it with four commands and a queue
  of two when `Stuck` is dropped from `Ended`.
- A call of a service to a host outside that no mock answers does not get out: its
  interceptor takes what names no service for a call to its own service
  (`proxy.go:217`) and sends it back, or to a service that has the first label of the
  host as its name. `docs/implemented/migrate-off-kubernetes.md:352` says that it is
  forwarded to the real host. `CallArrives` speaks of the calls to services, and of
  the agent's to hosts outside, which do get out.

`config/README.md:56` lists a variable `CONTROL_TOWER_PORT`, and line 60 a CI mode, that the
loader does not have.

## 5. Proofs

Each proof has the same course: an invariant `IInv`, which TLC has checked on
small instances before it was proved; that it holds initially; that every action
preserves it, with one lemma for each part of the invariant and in it one step for
each action that can disturb the part; and that it implies the property. The
refinements add that each step is one of the abstract specification or a stutter.

The invariants of the passing runs but `parts` are all theorems; so are seven of the
15 of `parts`, and of an eighth, `TrafficTold`, what it says of three of the six
protocols. Of the parts with a state only the assembly of the logs in the other
three, the timeline and the types are left. A hypothesis of a theorem that is
not about types is needed: TLC finds the property violated without it.

**`RunLifecycleProofs`**, for any finite set of instances, any set of chains, any
limits, stages, events and restarts (`ConstantsAssumption`):

- `TypeCorrect`. `TypeOK` alone is not inductive: stages are in bounds only
  because a stage request is accepted only below `LastStage`; `StageInBounds` is
  the strengthening.
- `SingleDeployCorrect`. `ClaimInv` adds to `SingleDeploy` that a PENDING
  instance has never been claimed or deployed (`PendingIsFresh`), that an agent
  belongs to the single deploy that started it (`AgentStartsOnce`) and that a
  test result, once written, stays (`ResultIsFinal`). A claim's guard then
  excludes a second deploy, whatever snapshot it was planned on.
- `CompletedMeansPassedCorrect` and `EndedLeavesNonePendingCorrect`. The verdict
  is written on an old snapshot. `VerdictInv` says what of a snapshot cannot have
  changed (`SnapshotStillHolds`: an instance seen terminal is terminal, a passed
  test stays passed) and that a stop in progress has in its plan every instance
  that is still PENDING (`CancelCoversPending`); from these follow both.
- `RecoveredRunIsOverCorrect`, if the removal of a network does not fail
  (`"teardown" \notin Events`: a network whose removal fails is left, and stays).
  A restart leaves no handler that could deploy or start a monitor
  (`NothingDeploys`), a submission that comes later reads a run that is over
  (`SubmitSeesEnd`), and until the start-up is through nothing else is in progress
  (`BootIsQuiet`).
- `ConcurrencyLimitCorrect` and `BootingLimitCorrect`, with one scheduler chain at
  a time and no stops, failing teardowns, crashes of containers or results
  that overtake the deployment (`Undisturbed`); with any limits, stages, failing
  deploys, half-written definitions and restarts. The slots that a
  chain has counted are still free when it claims (`SlotsAreFree`), because between
  its reading and its claims nobody but itself makes an instance active. For that
  an instance must not come back once it is terminal: whoever is about to write
  STARTING or RUNNING does so for an instance that is live (`LiveInv`). Each of the
  excluded events, and a second chain, lets one of the limits be exceeded: an
  instance is written RUNNING after it was stopped, or two chains count the same
  free slots. So the limits are promises of the undisturbed schedule only.

**`RunAdmissionProofs`**, for any clients, runs, projects and restarts:

- `TypeCorrect`, and `KeptFiles`, for any number of creators, if no two runs are
  created within a second (`"sameSecond" \notin Events`), which is how long a
  directory's name tells them apart. `IInv`: a directory is deleted after its row, for a
  run that was created (`RowGoesFirst`), and later runs have later seconds
  (`SecondsDiffer`).
- `OneActive` with one client that creates (`OneCreator`; `admit_race` refutes it
  for two). `CreatorInv`: from the check to the creation no run is active that
  was not revived (`NoneWhilePreparing`).
- `HistoryBounded`, at most `KeepCount + 1` runs of a project, and from it
  `HistoryLimited`, if `MaxRunHistory > 1`. In between, pruning leaves room:
  what is not on its list is few enough (`PruneLeavesRoom`), which rests on
  lemmas about the newest of a finite set of runs (`FewAreNewest`).

**`LogDeliveryProofs`**, for any logs, attempts and capacity of the channel:

- `TypeCorrect`, and `LossIsAccounted`. `IInv`: a goroutine holds one log exactly
  while it waits (`SendersHold`), nobody takes from the channel behind a
  worker that drains it (`WorkerDrains`), and of the logs without a recorded fate
  none is anywhere else but in the one worker that a plain logger does not wait
  for (`LossKnown`).
- `StoredAtMostOnce` and `CountedAtMostOnce`: `LogDelivery` implements
  `LogChannel` in two ways, at the Control Tower's table and at the agent's
  buffer, whatever is repeated, reordered or answered too late.

**`StepValidationProofs`**, for any programs, servers and delays of logs:

- `TypeCorrect`, `NoForeign`, `CountedOnce`, `WaitInherits`, `OwnLog`. What joins
  them: the window of the step is the beginning of it or, for a wait, of the last
  step of its own test that was no wait (`InheritsOwnTest`); what a verdict has
  counted was captured before the next step began (`CountedInTime`); and what was flushed is
  older than the window of any step to come (`FlushedBefore`).
- `EarlyFailure`: a failure before the deadline is final, in programs without
  assertions on a field of a match. `step_retry` refutes it with one.

**`StagedHealthProofs`**, for any items, stages and `Eager`
(`StagedHealthAssumption`):

- `TypeCorrect`, and `BootsInOrderCorrect`: `Spec => Boot!Spec`, the refinement
  of `StagedBoot`. `IInv` adds to the types: a healthy or reporting item is
  deployed (`HealthyIsDeployed`), an item the tracker has as ready was healthy
  once (`ReadyWasHealthy`), so were all items of earlier stages
  (`StagesWereHealthy`), and a stage is asked for only after the signal
  (`AskedIsSignalled`). `StepRefines` maps each action to a step of `StagedBoot`
  or a stutter.

**`InstanceProofs`**, for the test agent and the proxies beside it:

- `StepsInOrderCorrect`, `OwnVariablesCorrect`, `PassedMeansJudgedCorrect` of
  `TestRunner`, for any programs of any shape (`ProgramsTyped`) whose nested loops have
  names of their own (`NamesNested`; the validator does not ask for it, and without it
  a result is overwritten inside the loop it belongs to). `RunnerInv`: what was
  performed is in order and before the place at hand (`Ordered`, with `Here`); every
  step that precedes what was performed has been performed in that pass (`Covered`), and so
  has every step of the range that precedes the place at hand (`CoveredBefore`); each
  variable is of this pass or of the definition (`OwnEnv`); an iteration that went on
  was judged or put up with (`Judged`). The range of steps is a count over all tests, and
  what makes it agree with the order are lemmas about cardinalities (`IndexCounts`,
  `IndexGrows`).
- `OneExecutionCorrect`, for any executions, steps and room in the queue, with
  `FlagTells`: the flag is up while an execution runs, and there is one, until one
  overtakes that of auto mode.
- `EndsWellCorrect`, with `WaitedFor` (once main has waited for executions, only those
  run that came too late) and `EventsAccounted` (every event is sent, lost,
  queued or in the hands of the worker or of main).
- `EventsInOrderCorrect`, with `InOrder`: what was sent, what the worker holds and
  what is queued are increasing, one behind the other, until main sends as well.
- `RelayInv`: a broker proxy has inspected what it has forwarded whenever it is about to
  read, so that nothing is left out when both sockets are closed; for any scripts of
  frames. `SetupInv`: the proxy has relayed as many answers as the messages it
  relayed have asked for, but for the one it is reading; for any dialogues.
- What `Wanted` sums over the messages of a dialogue it sums for dialogues of any
  length. The theorems of the library for induction take the statement as a parameter,
  which the provers cannot instantiate; that a set of numbers has a least element
  (`Least`, from `WFMin`) needs none, and gives induction for sets (`UpTo`) and
  that a function defined from each value to the next exists (`Iteration`).

**`CommandProofs`**, for the command line:

- `ExitTellsCorrect` and `ExitStopsRunCorrect`, for any number of triggers.
  `CommandInv`: triggers are done in the order in which they fired, one at a time
  (`OneAtATime`); a run is followed by its trigger, or the last result is its or a later
  one (`RunsKnown`); a run that goes on is followed, or is the one a later trigger is
  about to stop, or the command never had an answer about it (`ActiveKnown`).
- `LockExcludesCorrect`, for any commands that do anything and may die at any step,
  with `LockIsOwn`: whoever is inside has the lock in its name, until a lock has been
  taken over wrongly.
- `RunningIsRecordedCorrect`, with `TowerIsKnown`: a tower that is up is recorded
  but for the time between a change of the tower and that of the file, and what
  the owner of the lock has read of the file is still there.
- `BaselinesInv`, for any definitions, images, runs and accidents: the baseline of a name
  is what was last approved for it (`LastIsBaseline`), the file of a capture is that
  capture unless the name is shared (`FilesAreTheirs`), what a run is judged by is
  what the CLI saw when it collected (`SeenIsStaged`), and each shot that was taken
  has its row with a verdict that can be reviewed if it failed (`RowsTell`).

**`PartsProofs`** states these of `AllSpec`, the specification that the run `parts`
checks, and so of the properties that run names: `OneDaemonCorrect`,
`CommandEndsWellCorrect`, `StepsInOrderHolds`, `PassedMeansJudgedHolds`,
`AgentEndsWellCorrect`, `BaselinesHoldCorrect`, `TrafficArrivesCorrect`, and in part
`TrafficToldByOrderOrId`. The lemmas
`Same*` say that the two instances of a module are one; `PartsInv` is the invariant
of whichever part it is. To `TrafficArrives` belong two statements about functions,
for inputs of any size: `ChoiceIsBestHolds` (FindMatch remembers the best of the
mocks before it, by `Iteration`; what beats another has a higher rank, and what is more
specific has one) and `CallArrivesHolds`.
`TrafficToldByOrderOrId` is `TrafficTold` for any connections of three of the protocols: a
log has the text of the query whose answer completed it and rows of that query only, and
what was answered or relayed is logged once.

- Redis answers in order and the proxy keeps a queue (`RedisInv`): what waits are the
  commands read last, so that the oldest of them is the one that is answered next, and
  the answers read are those of the commands before it (`RepliesInOrder`).
- Kafka answers by id (`KafkaInv`): what is pending are the requests seen and not
  answered (`KafkaWaits`). Both need `~odd`: a subscription confirmed by a push takes the
  place of a reply, and an answer that overtakes the inspection of its request is lost.
- A find of MongoDB ends with its last batch (`MongoInv`): which cursors the server has
  open follows from its answers so far (`AnswersTell`), and what the proxy keeps of a
  cursor from those it has read (`CursorsKnown`), so that it takes the answer to a
  `getMore` for the next batch of the find just when it is.

`ScriptsTyped` says what is assumed of the scripts: both sides send lists; a Redis server
sends of its own only pushes, those of MongoDB and Kafka nothing; and a client of MongoDB
sends the five kinds of requests that the proxy tells apart and asks for more only of what
it has asked for.

`PartsAssumption` is evaluated by TLC for the inputs of the run. It says that inputs have
their types, that triggers come in order, that nested loops have names of their own, and of
a network (`ItemsNamed`) that its items have distinct names of the kind Docker takes, of
which none is the interceptor's alias: the validator refuses two items of one name, but
not this one.

**Only model-checked**: all liveness and whatever rests on ENABLED (`RunEnds`,
`NamespacesDestroyed`, `LogsSettle`, `TestsEnd`, `BootsIfUp`, `PartsSettle`). Of `parts`:
`DefinitionsAgree`, `AssertionsAgree`, `ItemsServe`, `ResolutionHolds`, `SettingsKept` and
`ReportsTell`, which are about functions over data of any depth, several of them
recursive operators, that no module with a theorem can use; `TrafficTold` for
PostgreSQL, MySQL and AMQP, of which each needs an invariant of its own about what its
server may answer and how the proxy cuts it up; the timeline, in `ReportsTell`; and the types of the parts (`PartsTypeOK`), which the
invariants above contain for the parts they are about.

## 6. Not modelled

- Payloads: contents, masking and truncation of logs, columns of the assembled
  documents, regular expressions, interpolation of text, the cache of lower-cased
  keys by address of a map (`doc_path.go:11`; `Child` folds them at each look).
- How bytes are cut into messages (`protocol.go` of the proxies), TLS, the
  refresh of the interceptor's cache, drivers, the browser, Docker's options.
  Docker is modelled from how the code uses it: a call succeeds, throws, or
  leaves the object behind; containers exit when they like.
- That the Control Tower forgets registry credentials when a run is stopped, deleted
  or pruned.
- Two programs that change the preferences at the same moment: the file is read and
  written without a lock (`user-prefs.ts:62`), and a change of one is lost.
- Queries, menus, `clean`, `doctor`, `inspect`, the rest of MCP, VS Code, studio: they
  read what is finished, or print.
- Several runs inside `RunLifecycle`, and the inside of a run in `RunAdmission`,
  `RunCommand` and `Baselines`. A stage request that times out at the agent while
  the Control Tower still deploys.

What the properties leave out, and the code does all the same, is named where
they are stated. The larger ones: a baseline whose name is in a loop beside a
name outside is never uploaded and fails for ever after its approval
(`baseline-upload.ts:124`); a same-named shot of another definition shares its
baseline; approval marks an image approved even if the copy failed
(`baselines-ops.ts:43`); turns of a loop share their timeline indexes, and a group
that is the first entry shares those of the entries after it
(`ui_executor.go:505`); the steps of a looped test are wanted inside its loop by
the validator and performed beside it by the agent (`validate-loops.ts:189`,
`test_executor.go:134`); an execution that is accepted while the agent ends is
never reported (`main.go:463`); an item called `chromium` shares its name with the
browser's container (`docker-service-group.service.ts:286`); init files are numbered
with two digits, so that the hundred and first runs too early
(`run-storage.service.ts:129`); mount files of one base name overwrite each other
(`run-storage.service.ts:165`); fields the validator does not look at (`headers`,
`timeout`, names, `stopOnFailure`) make the agent refuse its whole configuration
when they have another type (`types.go:44`); a text for `items` or `from` that is no
reference, a pattern without its group, a wait or a loop inside `parallel` are
accepted and then fail or are ignored (`step_runner.go:295`), and captures in loops
or groups may share a name; `POST /runs/stop` stops whichever run is active.

Of settings and reports: to set a limit to its default through MCP stores nothing,
so that a global value stays in force (`tools/config.ts:176`), and in a project the tool
copies the other limit from the global part; a limit of a project is shown
but the Control Tower asks for none (`app.module.ts:29`); telemetry that is first turned
on through MCP has no id and sends nothing (`tools/config.ts:248`), and a process keeps
what it read when it started; the environment overrides the configuration after its
validation (`config.loader.ts:141`), so that a limit may become 0 or no number, and
`DATABASE_URL` without a `database` section throws; `registries.yaml` is compared as it is
written, an image of `docker.io/` finds nothing that is kept for the Hub, and one of
`localhost/` is looked up there (`docker-registry.service.ts:46`); the head of a JUnit report counts
failures by status and its test cases by assertions, and an instance that was
stopped or still runs counts as passed there (`junit.ts:67`).

## 7. Plan

Written in the order of section 2: the run first, because every other part
serves it; then admission, logs, steps and boot; then the parts. Still to do:

1. Proofs: the pairing of answers with queries for PostgreSQL, MySQL and AMQP, along
   the course of those for Redis, Kafka and MongoDB.
2. A composition of the agent with the Control Tower's stages: time-out of the
   stage request against a slow deploy.
