----------------------------- MODULE PartsProofs -----------------------------
(***************************************************************************)
(* What is proved of the parts, stated of the specification of all of      *)
(* them.  Each keeps the invariant of its own proofs, in whose modules the *)
(* definitions go by another name; and what is proved of the interceptor,  *)
(* which is a function, is proved here.                                    *)
(***************************************************************************)
EXTENDS Parts, Sequences, TLAPS

Cmd == INSTANCE CommandProofs WITH
    mode <- v1, trigger <- v2, waits <- v3, inFlight <- v4, abort <- v5,
    aborted <- v6, timer <- v7, inspecting <- v8, pendingTrigger <- v9,
    lastResult <- v10, exit <- v11, last <- v12, code <- v13, run <- v14,
    missed <- v15,
    at <- v1, calls <- v2, mem <- v3, lock <- v4, daemon <- v5, process <- v6,
    accident <- v7,
    project <- v1, dir <- v2, look <- v3, runNumber <- v4, cmd <- v5, staged <- v6,
    mounted <- v7, pos <- v8, failures <- v9, result <- v10, rows <- v11,
    files <- v12, review <- v13, known <- v14, lastTaken <- v15, seen <- v16,
    accidents <- v17

Test == INSTANCE InstanceProofs WITH
    prog <- v1, at <- v2, test <- v3, pass <- v4, step <- v5, round <- v6,
    turn <- v7, env <- v8, told <- v9, swallowed <- v10, ran <- v11,
    judged <- v12, verdict <- v13,
    runs <- v1, executing <- v2, steps <- v3, late <- v4, overtook <- v5,
    queue <- v6, worker <- v7, drain <- v8, events <- v9, lost <- v10,
    sent <- v11, reports <- v12, reported <- v13, notified <- v14, main <- v15,
    timedOut <- v16,
    conn <- v1, offered <- v2, fwd <- v3, seen <- v4, served <- v5, pushed <- v6,
    srv <- v7, answers <- v8, relayed <- v9, read <- v10, px <- v11, odd <- v12,
    client <- v13, server <- v14, up <- v15, down <- v16, closed <- v17,
    talk <- v1, hello <- v2, said <- v3, carried <- v4, answered <- v5,
    returned <- v6, peers <- v7, proxy <- v8

PartsInv ==
    /\ part = "daemon" => Cmd!DaemonInv
    /\ part = "command" => Cmd!CommandInv
    /\ part = "tests" => Test!RunnerInv
    /\ part = "agent" => Test!AgentInv
    /\ part = "visual" => Cmd!BaselinesInv
    /\ part = "traffic" => Test!RelayInv /\ Test!RedisInv /\ Test!KafkaInv /\ Test!MongoInv
    /\ part = "setup" => Test!SetupInv
    /\ part \in DOMAIN Inputs => input \in Inputs[part]

-----------------------------------------------------------------------------
(* The two names of a definition mean the same.                            *)

\* Of the commands that start and stop the Control Tower: what is assumed, the
\* initial states and the steps,
LEMMA SameDaemon ==
  /\ Towers!CallsAreLists <=> Cmd!Towers!CallsAreLists
  /\ Towers!Init <=> Cmd!Towers!Init
  /\ Towers!Next <=> Cmd!Towers!Next
<1>1. Towers!CallsAreLists <=> Cmd!Towers!CallsAreLists
    BY DEF Towers!CallsAreLists, Towers!None, Cmd!Towers!CallsAreLists, Cmd!Towers!None
<1>2. Towers!Init <=> Cmd!Towers!Init
    BY DEF Towers!Init, Towers!None, Towers!NoLock, Towers!NoState, Cmd!Towers!Init,
       Cmd!Towers!None, Cmd!Towers!NoLock, Cmd!Towers!NoState
<1>3. Towers!Next <=> Cmd!Towers!Next
    BY DEF Towers!Next, Towers!Acquire, Towers!Ensure, Towers!Shutdown, Towers!Leave,
       Towers!Listen,
       Towers!Die, Towers!OpenLock, Towers!WriteLock, Towers!ReadLock, Towers!Judge,
       Towers!TakeLock, Towers!GiveUp, Towers!Release, Towers!ReadState, Towers!Health,
       Towers!KillStale, Towers!Spawn, Towers!Record, Towers!Poll, Towers!Look, Towers!Mark,
       Towers!Kill, Towers!Erase, Towers!Alive, Towers!Remember, Towers!None, Towers!Serving,
       Towers!Up, Towers!NoLock, Towers!Go, Towers!Recorded, Towers!NoState, Cmd!Towers!Next,
       Cmd!Towers!Acquire, Cmd!Towers!Ensure, Cmd!Towers!Shutdown, Cmd!Towers!Leave,
       Cmd!Towers!Listen, Cmd!Towers!Die, Cmd!Towers!OpenLock, Cmd!Towers!WriteLock,
       Cmd!Towers!ReadLock, Cmd!Towers!Judge, Cmd!Towers!TakeLock, Cmd!Towers!GiveUp,
       Cmd!Towers!Release, Cmd!Towers!ReadState, Cmd!Towers!Health, Cmd!Towers!KillStale,
       Cmd!Towers!Spawn, Cmd!Towers!Record, Cmd!Towers!Poll, Cmd!Towers!Look, Cmd!Towers!Mark,
       Cmd!Towers!Kill, Cmd!Towers!Erase, Cmd!Towers!Alive, Cmd!Towers!Remember,
       Cmd!Towers!None, Cmd!Towers!Serving, Cmd!Towers!Up, Cmd!Towers!NoLock, Cmd!Towers!Go,
       Cmd!Towers!Recorded, Cmd!Towers!NoState
<1> QED BY <1>1, <1>2, <1>3

\* and what is to be shown.
LEMMA SameDaemonProperties ==
  /\ Towers!LockExcludes <=> Cmd!Towers!LockExcludes
  /\ Towers!RunningIsRecorded <=> Cmd!Towers!RunningIsRecorded
<1>1. Towers!LockExcludes <=> Cmd!Towers!LockExcludes
    BY DEF Towers!LockExcludes, Towers!Inside, Towers!Ensuring, Towers!Stopping,
       Cmd!Towers!LockExcludes, Cmd!Towers!Inside, Cmd!Towers!Ensuring, Cmd!Towers!Stopping
<1>2. Towers!RunningIsRecorded <=> Cmd!Towers!RunningIsRecorded
    BY DEF Towers!RunningIsRecorded, Towers!None, Towers!Inside, Towers!Up, Towers!Recorded,
       Towers!Ensuring, Towers!Stopping, Cmd!Towers!RunningIsRecorded, Cmd!Towers!None,
       Cmd!Towers!Inside, Cmd!Towers!Up, Cmd!Towers!Recorded, Cmd!Towers!Ensuring,
       Cmd!Towers!Stopping
<1> QED BY <1>1, <1>2

\* Of dokkimi run: what is assumed, the initial states and the steps,
LEMMA SameCommand ==
  /\ Cli!TriggersInOrder <=> Cmd!TriggersInOrder
  /\ Cli!Init <=> Cmd!Init
  /\ Cli!Next <=> Cmd!Next
<1>1. Cli!TriggersInOrder <=> Cmd!TriggersInOrder
    BY DEF Cli!TriggersInOrder, Cmd!TriggersInOrder
<1>2. Cli!Init <=> Cmd!Init
    BY DEF Cli!Init, Cli!NoResult, Cmd!Init, Cmd!NoResult
<1>3. Cli!Next <=> Cmd!Next
    BY DEF Cli!Next, Cli!RunEnds, Cli!TriggerStep, Cli!Rerun, Cli!FileChanges, Cli!Inspect,
       Cli!EndInspect, Cli!Cleanup, Cli!Ending, Cli!promises, Cli!controllers, Cli!loop,
       Cli!ending, Cli!Fire, Cli!Begin, Cli!StopPrevious, Cli!WaitForPrevious, Cli!NoRun,
       Cli!CreateRun, Cli!Finish, Cli!Keys, Cli!Schedule, Cli!tower, Cli!Running, Cli!Abort,
       Cli!AwaitLast, Cli!StopLast, Cli!Exit, Cli!Before, Cli!Step, Cli!PostStop, Cli!Done,
       Cli!Result, Cli!Active, Cli!Ended, Cli!Verdict, Cli!LeaveAfter, Cmd!Next, Cmd!RunEnds,
       Cmd!TriggerStep, Cmd!Rerun, Cmd!FileChanges, Cmd!Inspect, Cmd!EndInspect, Cmd!Cleanup,
       Cmd!Ending, Cmd!promises, Cmd!controllers, Cmd!loop, Cmd!ending, Cmd!Fire, Cmd!Begin,
       Cmd!StopPrevious, Cmd!WaitForPrevious, Cmd!NoRun, Cmd!CreateRun, Cmd!Finish, Cmd!Keys,
       Cmd!Schedule, Cmd!tower, Cmd!Running, Cmd!Abort, Cmd!AwaitLast, Cmd!StopLast, Cmd!Exit,
       Cmd!Before, Cmd!Step, Cmd!PostStop, Cmd!Done, Cmd!Result, Cmd!Active, Cmd!Ended,
       Cmd!Verdict, Cmd!LeaveAfter
<1> QED BY <1>1, <1>2, <1>3

\* and what is to be shown.
LEMMA SameCommandProperties ==
  /\ Cli!ExitTells <=> Cmd!ExitTells
  /\ Cli!ExitStopsRun <=> Cmd!ExitStopsRun
<1>1. Cli!ExitTells <=> Cmd!ExitTells
    BY DEF Cli!ExitTells, Cmd!ExitTells
<1>2. Cli!ExitStopsRun <=> Cmd!ExitStopsRun
    BY DEF Cli!ExitStopsRun, Cli!Active, Cmd!ExitStopsRun, Cmd!Active
<1> QED BY <1>1, <1>2

\* Of the test runner: what is assumed, the initial states and the steps,
LEMMA SameTests ==
  /\ Runner!ProgramsTyped <=> Test!ProgramsTyped
  /\ Runner!NamesNested <=> Test!NamesNested
  /\ Runner!Init <=> Test!Init
  /\ Runner!Next <=> Test!Next
<1>1. Runner!ProgramsTyped <=> Test!ProgramsTyped
    BY DEF Runner!ProgramsTyped, Runner!TestType, Runner!LoopType, Runner!StepType,
       Test!ProgramsTyped, Test!TestType, Test!LoopType, Test!StepType
<1>2. Runner!NamesNested <=> Test!NamesNested
    BY DEF Runner!NamesNested, Test!NamesNested
<1>3. Runner!Init <=> Test!Init
    BY DEF Runner!Init, Runner!Empty, Test!Init, Test!Empty
<1>4. Runner!Next <=> Test!Next
    BY DEF Runner!Next, Runner!StartTest, Runner!StartPass, Runner!EndPass, Runner!SkipStep,
       Runner!StartStep, Runner!StartRound, Runner!FailRound, Runner!NoTurn, Runner!Perform,
       Runner!Validate, Runner!NextRound, Runner!Tests, Runner!End, Runner!T, Runner!Planned,
       Runner!Count, Runner!SetLoopResult, Runner!Seeded, Runner!Empty, Runner!Index,
       Runner!Met, Runner!Ends, Runner!InRange, Runner!S, Runner!Setup, Runner!Fail,
       Runner!counters, Runner!Put, Runner!Sets, Runner!Restrict, Runner!Cardinality,
       Runner!StepsOf, Runner!IsFiniteSet, Test!Next, Test!StartTest, Test!StartPass,
       Test!EndPass, Test!SkipStep, Test!StartStep, Test!StartRound, Test!FailRound,
       Test!NoTurn, Test!Perform, Test!Validate, Test!NextRound, Test!Tests, Test!End, Test!T,
       Test!Planned, Test!Count, Test!SetLoopResult, Test!Seeded, Test!Empty, Test!Index,
       Test!Met, Test!Ends, Test!InRange, Test!S, Test!Setup, Test!Fail, Test!counters,
       Test!Put, Test!Sets, Test!Restrict, Test!Cardinality, Test!StepsOf, Test!IsFiniteSet
<1> QED BY <1>1, <1>2, <1>3, <1>4

\* and what is to be shown.
LEMMA SameTestsProperties ==
  /\ Runner!StepsInOrder <=> Test!StepsInOrder
  /\ Runner!OwnVariables <=> Test!OwnVariables
  /\ Runner!ResultAfterLoop <=> Test!ResultAfterLoop
  /\ Runner!PassedMeansJudged <=> Test!PassedMeansJudged
<1>1. Runner!StepsInOrder <=> Test!StepsInOrder
    BY DEF Runner!StepsInOrder, Runner!Before, Runner!Tests, Runner!Asked, Runner!Count,
       Runner!Cardinality, Runner!StepsOf, Runner!Performs, Runner!IsFiniteSet,
       Test!StepsInOrder, Test!Before, Test!Tests, Test!Asked, Test!Count, Test!Cardinality,
       Test!StepsOf, Test!Performs, Test!IsFiniteSet
<1>2. Runner!OwnVariables <=> Test!OwnVariables
    BY DEF Runner!OwnVariables, Runner!T, Runner!Tests, Test!OwnVariables, Test!T, Test!Tests
<1>3. Runner!ResultAfterLoop <=> Test!ResultAfterLoop
    BY DEF Runner!ResultAfterLoop, Runner!S, Runner!T, Runner!Tests, Test!ResultAfterLoop,
       Test!S,
       Test!T, Test!Tests
<1>4. Runner!PassedMeansJudged <=> Test!PassedMeansJudged
    BY DEF Runner!PassedMeansJudged, Runner!Tests, Test!PassedMeansJudged, Test!Tests
<1> QED BY <1>1, <1>2, <1>3, <1>4

\* Of the reports of the test agent: what is assumed, the initial states and the steps,
LEMMA SameAgent ==
  /\ Agent!Bounds <=> Test!Reports!Bounds
  /\ Agent!Init <=> Test!Reports!Init
  /\ Agent!Next <=> Test!Reports!Next
<1>1. Agent!Bounds <=> Test!Reports!Bounds
    BY DEF Agent!Bounds, Agent!AutoMode, Test!Reports!Bounds, Test!Reports!AutoMode
<1>2. Agent!Init <=> Test!Reports!Init
    BY DEF Agent!Init, Agent!Everyone, Agent!AutoMode, Test!Reports!Init, Test!Reports!Everyone,
       Test!Reports!AutoMode
<1>3. Agent!Next <=> Test!Reports!Next
    BY DEF Agent!Next, Agent!Execute, Agent!BeginAuto, Agent!Everyone, Agent!PerformStep,
       Agent!EndExecution, Agent!Report, Agent!WorkerTakes, Agent!WorkerSends,
       Agent!WorkerStops, Agent!Signal, Agent!WaitExecutions, Agent!WaitReports,
       Agent!StopServer, Agent!DrainTakes, Agent!DrainSends, Agent!Exit, Agent!AutoMode,
       Agent!Free, Agent!eventVars, Agent!reportVars, Agent!Alive, Agent!LogEvent,
       Agent!NotifyCompletion, Agent!runVars, Agent!Went, Test!Reports!Next,
       Test!Reports!Execute, Test!Reports!BeginAuto, Test!Reports!Everyone,
       Test!Reports!PerformStep, Test!Reports!EndExecution, Test!Reports!Report,
       Test!Reports!WorkerTakes, Test!Reports!WorkerSends, Test!Reports!WorkerStops,
       Test!Reports!Signal, Test!Reports!WaitExecutions, Test!Reports!WaitReports,
       Test!Reports!StopServer, Test!Reports!DrainTakes, Test!Reports!DrainSends,
       Test!Reports!Exit, Test!Reports!AutoMode, Test!Reports!Free, Test!Reports!eventVars,
       Test!Reports!reportVars, Test!Reports!Alive, Test!Reports!LogEvent,
       Test!Reports!NotifyCompletion, Test!Reports!runVars, Test!Reports!Went
<1> QED BY <1>1, <1>2, <1>3

\* and what is to be shown.
LEMMA SameAgentProperties ==
  /\ Agent!OneExecution <=> Test!Reports!OneExecution
  /\ Agent!EndsWell <=> Test!Reports!EndsWell
  /\ Agent!EventsInOrder <=> Test!Reports!EventsInOrder
<1>1. Agent!OneExecution <=> Test!Reports!OneExecution
    BY DEF Agent!OneExecution, Agent!Running, Agent!Everyone, Agent!AutoMode,
       Test!Reports!OneExecution, Test!Reports!Running, Test!Reports!Everyone,
       Test!Reports!AutoMode
<1>2. Agent!EndsWell <=> Test!Reports!EndsWell
  <2>1. Agent!Everyone = Test!Reports!Everyone
    BY DEF Agent!Everyone, Agent!AutoMode, Test!Reports!Everyone, Test!Reports!AutoMode
  <2> QED BY <2>1 DEF Agent!EndsWell, Test!Reports!EndsWell
<1>3. Agent!EventsInOrder <=> Test!Reports!EventsInOrder
    BY DEF Agent!EventsInOrder, Test!Reports!EventsInOrder
<1> QED BY <1>1, <1>2, <1>3

\* Of the baselines: what is assumed, the initial states and the steps,
LEMMA SameVisual ==
  /\ Visual!ProjectsTyped <=> Cmd!Visual!ProjectsTyped
  /\ Visual!Init <=> Cmd!Visual!Init
  /\ Visual!Next <=> Cmd!Visual!Next
<1>1. Visual!ProjectsTyped <=> Cmd!Visual!ProjectsTyped
    BY DEF Visual!ProjectsTyped, Visual!ShotType, Visual!ShotNames, Cmd!Visual!ProjectsTyped,
       Cmd!Visual!ShotType, Cmd!Visual!ShotNames
<1>2. Visual!Init <=> Cmd!Visual!Init
    BY DEF Visual!Init, Visual!Defs, Visual!Idle, Visual!NoReview, Cmd!Visual!Init,
       Cmd!Visual!Defs, Cmd!Visual!Idle, Cmd!Visual!NoReview
<1>3. Visual!Next <=> Cmd!Visual!Next
    BY DEF Visual!Next, Visual!CreateRun, Visual!NextDefinition, Visual!submitDefinition,
       Visual!EndRun, Visual!UploadBaseline, Visual!Defs, Visual!Deploy, Visual!Complete,
       Visual!Screenshot, Visual!loadPendingFromLatestRun, Visual!approveAll, Visual!Quit,
       Visual!Approve, Visual!Skip, Visual!ChangeLook, Visual!Purge, Visual!Rename, Visual!Idle,
       Visual!FilesOf, Visual!world, Visual!captures, Visual!reviewing, Visual!List,
       Visual!instance, Visual!Accident, Visual!persistBaseline, Visual!Put, Visual!NoCapture,
       Visual!Match, Visual!Artifact, Visual!persist, Visual!Fails, Visual!NoReview,
       Visual!listPendingBaselines, Visual!InOrder, Visual!writeBaseline, Visual!updateVerdict,
       Visual!Reviewed, Visual!extractVisualMatchNames, Visual!listBaselineFiles, Visual!Key,
       Cmd!Visual!Next, Cmd!Visual!CreateRun, Cmd!Visual!NextDefinition,
       Cmd!Visual!submitDefinition, Cmd!Visual!EndRun, Cmd!Visual!UploadBaseline,
       Cmd!Visual!Defs, Cmd!Visual!Deploy, Cmd!Visual!Complete, Cmd!Visual!Screenshot,
       Cmd!Visual!loadPendingFromLatestRun, Cmd!Visual!approveAll, Cmd!Visual!Quit,
       Cmd!Visual!Approve, Cmd!Visual!Skip, Cmd!Visual!ChangeLook, Cmd!Visual!Purge,
       Cmd!Visual!Rename, Cmd!Visual!Idle, Cmd!Visual!FilesOf, Cmd!Visual!world,
       Cmd!Visual!captures, Cmd!Visual!reviewing, Cmd!Visual!List, Cmd!Visual!instance,
       Cmd!Visual!Accident, Cmd!Visual!persistBaseline, Cmd!Visual!Put, Cmd!Visual!NoCapture,
       Cmd!Visual!Match, Cmd!Visual!Artifact, Cmd!Visual!persist, Cmd!Visual!Fails,
       Cmd!Visual!NoReview, Cmd!Visual!listPendingBaselines, Cmd!Visual!InOrder,
       Cmd!Visual!writeBaseline, Cmd!Visual!updateVerdict, Cmd!Visual!Reviewed,
       Cmd!Visual!extractVisualMatchNames, Cmd!Visual!listBaselineFiles, Cmd!Visual!Key
<1> QED BY <1>1, <1>2, <1>3

\* and what is to be shown.
LEMMA SameVisualProperties ==
  /\ Visual!ApprovedPasses <=> Cmd!Visual!ApprovedPasses
  /\ Visual!FailuresCanBeReviewed <=> Cmd!Visual!FailuresCanBeReviewed
  /\ Visual!BaselineWasTaken <=> Cmd!Visual!BaselineWasTaken
<1>1. Visual!ApprovedPasses <=> Cmd!Visual!ApprovedPasses
    BY DEF Visual!ApprovedPasses, Visual!NoCapture, Visual!Shared, Visual!Hidden, Visual!Defs,
       Visual!extractVisualMatchNames, Cmd!Visual!ApprovedPasses, Cmd!Visual!NoCapture,
       Cmd!Visual!Shared, Cmd!Visual!Hidden, Cmd!Visual!Defs, Cmd!Visual!extractVisualMatchNames
<1>2. Visual!FailuresCanBeReviewed <=> Cmd!Visual!FailuresCanBeReviewed
    BY DEF Visual!FailuresCanBeReviewed, Visual!Defs, Cmd!Visual!FailuresCanBeReviewed,
       Cmd!Visual!Defs
<1>3. Visual!BaselineWasTaken <=> Cmd!Visual!BaselineWasTaken
    BY DEF Visual!BaselineWasTaken, Visual!Shared, Visual!Defs, Cmd!Visual!BaselineWasTaken,
       Cmd!Visual!Shared, Cmd!Visual!Defs
<1> QED BY <1>1, <1>2, <1>3

\* Of a connection: what is assumed, the initial states, the steps, and what is to be shown.
LEMMA SameTraffic ==
  /\ Traffic!ScriptsTyped <=> Test!Wire!ScriptsTyped
  /\ Traffic!Init <=> Test!Wire!Init
  /\ Traffic!Next <=> Test!Wire!Next
  /\ Traffic!PublishesSurvive <=> Test!Wire!PublishesSurvive
  /\ Traffic!Paired <=> Test!Wire!Paired
  /\ Traffic!Captured <=> Test!Wire!Captured
<1>1. Traffic!ScriptsTyped <=> Test!Wire!ScriptsTyped
    BY DEF Traffic!ScriptsTyped, Test!Wire!ScriptsTyped
<1>2. Traffic!Init <=> Test!Wire!Init
    BY DEF Traffic!Init, Traffic!Fresh, Traffic!PostgresFresh, Traffic!MySQLFresh,
       Traffic!RedisFresh, Traffic!MongoFresh, Traffic!KafkaFresh, Traffic!AmqpFresh,
       Traffic!NoCursor, Traffic!NoMessage, Test!Wire!Init, Test!Wire!Fresh,
       Test!Wire!PostgresFresh, Test!Wire!MySQLFresh, Test!Wire!RedisFresh,
       Test!Wire!MongoFresh, Test!Wire!KafkaFresh, Test!Wire!AmqpFresh, Test!Wire!NoCursor,
       Test!Wire!NoMessage
<1>3. Traffic!Next <=> Test!Wire!Next
  <2>1. Traffic!Serve <=> Test!Wire!Serve
      BY ZenonT(60) DEF Traffic!Serve, Traffic!Answers, Traffic!PostgresAnswers,
         Traffic!MySQLAnswers, Traffic!RedisAnswers, Traffic!MongoAnswers,
         Traffic!KafkaAnswers, Traffic!Answer, Traffic!TextOf, Traffic!BindOf, Traffic!LastBefore,
         Traffic!Reqs, Traffic!Is, Traffic!reqVars, Traffic!srvVars, Traffic!backVars,
         Traffic!peerVars, Traffic!endVars, Test!Wire!Serve, Test!Wire!Answers,
         Test!Wire!PostgresAnswers, Test!Wire!MySQLAnswers, Test!Wire!RedisAnswers,
         Test!Wire!MongoAnswers, Test!Wire!KafkaAnswers, Test!Wire!Answer, Test!Wire!TextOf,
         Test!Wire!BindOf, Test!Wire!LastBefore, Test!Wire!Reqs, Test!Wire!Is, Test!Wire!reqVars,
         Test!Wire!srvVars, Test!Wire!backVars, Test!Wire!peerVars, Test!Wire!endVars
  <2>2. \A m, f, dir : Traffic!AmqpFrame(m, f, dir) = Test!Wire!AmqpFrame(m, f, dir)
      BY DEF Traffic!AmqpFrame, Traffic!NoMessage, Traffic!Starts, Traffic!HasWholeBody,
         Test!Wire!AmqpFrame, Test!Wire!NoMessage, Test!Wire!Starts, Test!Wire!HasWholeBody
  <2>3. \A i : Traffic!OnRequest(i) = Test!Wire!OnRequest(i)
      BY <2>2 DEF Traffic!OnRequest, Traffic!PostgresRequest, Traffic!MySQLRequest,
         Traffic!RedisRequest, Traffic!MongoRequest, Traffic!KafkaRequest, Traffic!Reqs,
         Traffic!Is, Traffic!Flag, Traffic!PrepareSkip, Traffic!Cleared, Traffic!NoCursor,
         Test!Wire!OnRequest, Test!Wire!PostgresRequest, Test!Wire!MySQLRequest,
         Test!Wire!RedisRequest, Test!Wire!MongoRequest, Test!Wire!KafkaRequest,
         Test!Wire!Reqs, Test!Wire!Is, Test!Wire!Flag, Test!Wire!PrepareSkip,
         Test!Wire!Cleared, Test!Wire!NoCursor
  <2>4. \A p : Traffic!OnPacket(p) = Test!Wire!OnPacket(p)
      BY <2>2 DEF Traffic!OnPacket, Traffic!PostgresPacket, Traffic!MySQLPacket,
         Traffic!RedisPacket, Traffic!MongoPacket, Traffic!KafkaPacket, Traffic!Row,
         Traffic!PopAndLog, Traffic!Cleared, Traffic!MySQLResultSetPacket, Traffic!PrepareSkip,
         Traffic!RedisLogged, Traffic!Entry, Traffic!MongoLogQuery, Traffic!Flag,
         Traffic!NoCursor, Traffic!Reqs, Traffic!Is, Test!Wire!OnPacket,
         Test!Wire!PostgresPacket, Test!Wire!MySQLPacket, Test!Wire!RedisPacket,
         Test!Wire!MongoPacket, Test!Wire!KafkaPacket, Test!Wire!Row, Test!Wire!PopAndLog,
         Test!Wire!Cleared, Test!Wire!MySQLResultSetPacket, Test!Wire!PrepareSkip,
         Test!Wire!RedisLogged, Test!Wire!Entry, Test!Wire!MongoLogQuery, Test!Wire!Flag,
         Test!Wire!NoCursor, Test!Wire!Reqs, Test!Wire!Is
  <2>5. Traffic!Push <=> Test!Wire!Push
      BY DEF Traffic!Push, Traffic!reqVars, Traffic!srvVars, Traffic!backVars,
         Traffic!peerVars, Traffic!endVars, Test!Wire!Push, Test!Wire!reqVars,
         Test!Wire!srvVars, Test!Wire!backVars, Test!Wire!peerVars, Test!Wire!endVars
  <2>6. /\ Traffic!Leave <=> Test!Wire!Leave
        /\ (Traffic!Crash \/ Traffic!ServerLeaves) <=> (Test!Wire!Crash \/ Test!Wire!ServerLeaves)
      BY DEF Traffic!Leave, Traffic!Crash, Traffic!ServerLeaves, Traffic!Taken, Traffic!Reqs,
         Traffic!IsBroker, Traffic!Brokers, Traffic!reqVars, Traffic!srvVars, Traffic!backVars,
         Traffic!peerVars, Traffic!endVars, Test!Wire!Leave, Test!Wire!Crash,
         Test!Wire!ServerLeaves, Test!Wire!Taken, Test!Wire!Reqs, Test!Wire!IsBroker,
         Test!Wire!Brokers, Test!Wire!reqVars, Test!Wire!srvVars, Test!Wire!backVars,
         Test!Wire!peerVars, Test!Wire!endVars
  <2>7. Traffic!ClientToUpstream <=> Test!Wire!ClientToUpstream
      BY <2>3 DEF Traffic!ClientToUpstream, Traffic!ReadAndBlock, Traffic!ReadAndForward,
         Traffic!RequestReadable, Test!Wire!ReadAndBlock, Test!Wire!RequestReadable, Traffic!ForwardRequest,
         Traffic!InspectRequest, Traffic!CompleteMessage, Traffic!UpEnds, Traffic!HasSentNext,
         Traffic!QueueHasRoom, Traffic!Taken, Traffic!Due, Traffic!AmqpComplete,
         Traffic!NoMessage, Traffic!IsBroker, Traffic!Brokers, Traffic!Is, Traffic!reqVars,
         Traffic!srvVars, Traffic!backVars, Traffic!peerVars, Traffic!endVars,
         Test!Wire!ClientToUpstream, Test!Wire!ReadAndForward, Test!Wire!ForwardRequest,
         Test!Wire!InspectRequest, Test!Wire!CompleteMessage, Test!Wire!UpEnds,
         Test!Wire!HasSentNext, Test!Wire!QueueHasRoom, Test!Wire!Taken, Test!Wire!Due,
         Test!Wire!AmqpComplete, Test!Wire!NoMessage, Test!Wire!IsBroker, Test!Wire!Brokers,
         Test!Wire!Is, Test!Wire!reqVars, Test!Wire!srvVars, Test!Wire!backVars,
         Test!Wire!peerVars, Test!Wire!endVars
  <2>8. Traffic!UpstreamToClient <=> Test!Wire!UpstreamToClient
      BY <2>4 DEF Traffic!UpstreamToClient, Traffic!TakePending, Traffic!RelayBack,
         Traffic!RelayFails, Traffic!InspectResponse, Traffic!CompleteMessage,
         Traffic!DownEnds, Traffic!AnswerReadable, Traffic!RedisTake, Traffic!Due,
         Traffic!AmqpComplete, Traffic!NoMessage, Traffic!IsBroker, Traffic!Brokers,
         Traffic!Is, Traffic!reqVars, Traffic!srvVars, Traffic!backVars, Traffic!peerVars,
         Traffic!endVars, Test!Wire!UpstreamToClient, Test!Wire!TakePending,
         Test!Wire!RelayBack, Test!Wire!RelayFails, Test!Wire!InspectResponse,
         Test!Wire!CompleteMessage, Test!Wire!DownEnds, Test!Wire!AnswerReadable,
         Test!Wire!RedisTake, Test!Wire!Due, Test!Wire!AmqpComplete, Test!Wire!NoMessage,
         Test!Wire!IsBroker, Test!Wire!Brokers, Test!Wire!Is, Test!Wire!reqVars,
         Test!Wire!srvVars, Test!Wire!backVars, Test!Wire!peerVars, Test!Wire!endVars
  <2>9. Traffic!Relay <=> Test!Wire!Relay
      BY DEF Traffic!Relay, Traffic!CloseBoth, Traffic!CloseClient, Traffic!DeadlinePasses,
         Traffic!MayCloseBoth, Traffic!ReadDeadline, Traffic!Due, Traffic!IsBroker,
         Traffic!Brokers, Traffic!Is, Traffic!reqVars, Traffic!srvVars, Traffic!backVars,
         Traffic!peerVars, Traffic!endVars, Test!Wire!Relay, Test!Wire!CloseBoth,
         Test!Wire!CloseClient, Test!Wire!DeadlinePasses, Test!Wire!MayCloseBoth,
         Test!Wire!ReadDeadline, Test!Wire!Due, Test!Wire!IsBroker, Test!Wire!Brokers,
         Test!Wire!Is, Test!Wire!reqVars, Test!Wire!srvVars, Test!Wire!backVars,
         Test!Wire!peerVars, Test!Wire!endVars
  <2> QED BY <2>1, <2>5, <2>6, <2>7, <2>8, <2>9 DEF Traffic!Next, Test!Wire!Next
<1>4. Traffic!PublishesSurvive <=> Test!Wire!PublishesSurvive
    BY DEF Traffic!PublishesSurvive, Traffic!IsBroker, Traffic!Brokers,
       Test!Wire!PublishesSurvive, Test!Wire!IsBroker, Test!Wire!Brokers
<1>5. Traffic!Paired <=> Test!Wire!Paired
    BY DEF Traffic!Paired, Traffic!SharedChannel, Traffic!StatementIsLast, Traffic!ColumnsAreLast,
       Traffic!TextOf, Traffic!BindOf, Traffic!LastBefore, Traffic!Is, Traffic!Reqs,
       Test!Wire!Paired, Test!Wire!SharedChannel, Test!Wire!StatementIsLast,
       Test!Wire!ColumnsAreLast, Test!Wire!TextOf, Test!Wire!BindOf, Test!Wire!LastBefore,
       Test!Wire!Is, Test!Wire!Reqs
<1>6. Traffic!Captured <=> Test!Wire!Captured
    BY DEF Traffic!Captured, Traffic!SharedChannel, Traffic!Completed, Traffic!Logs,
       Traffic!FramesOf, Traffic!Due, Traffic!Is, Traffic!Reqs, Traffic!Cardinality,
       Traffic!IsFiniteSet, Test!Wire!Captured, Test!Wire!SharedChannel,
       Test!Wire!Completed, Test!Wire!Logs, Test!Wire!FramesOf, Test!Wire!Due, Test!Wire!Is,
       Test!Wire!Reqs, Test!Wire!Cardinality, Test!Wire!IsFiniteSet
<1> QED BY <1>1, <1>2, <1>3, <1>4, <1>5, <1>6

\* Of a session: what is assumed, the initial states, the steps, and what is to be shown.
LEMMA SameSetup ==
  /\ Setup!DialoguesTyped <=> Test!Session!DialoguesTyped
  /\ Setup!Init <=> Test!Session!Init
  /\ Setup!Next <=> Test!Session!Next
  /\ Setup!RelayInStep <=> Test!Session!RelayInStep
<1>1. Setup!DialoguesTyped <=> Test!Session!DialoguesTyped
    BY DEF Setup!DialoguesTyped, Setup!Messages, Test!Session!DialoguesTyped,
       Test!Session!Messages
<1>2. Setup!Init <=> Test!Session!Init
    BY DEF Setup!Init, Test!Session!Init
<1>3. Setup!Next <=> Test!Session!Next
    BY DEF Setup!Next, Setup!Tell, Setup!Reply, Setup!Go, Setup!Proxy, Setup!Msgs, Setup!Wanted,
       Setup!ReadFirst, Setup!ReadServer, Setup!ReadClient, Setup!ReadError, Setup!Answerable,
       Setup!After, Setup!ExpectsAnswer, Test!Session!Next, Test!Session!Tell,
       Test!Session!Reply, Test!Session!Go, Test!Session!Proxy, Test!Session!Msgs,
       Test!Session!Wanted, Test!Session!ReadFirst, Test!Session!ReadServer,
       Test!Session!ReadClient, Test!Session!ReadError, Test!Session!Answerable,
       Test!Session!After, Test!Session!ExpectsAnswer
<1>4. Setup!RelayInStep <=> Test!Session!RelayInStep
    BY DEF Setup!RelayInStep, Setup!Msgs, Setup!Wanted, Setup!Answerable,
       Test!Session!RelayInStep, Test!Session!Msgs, Test!Session!Wanted, Test!Session!Answerable
<1> QED BY <1>1, <1>2, <1>3, <1>4

-----------------------------------------------------------------------------
(* The interceptor.                                                        *)

\* FindMatch goes through the mocks and remembers the best.
Goes(best, mocks, r, origin) ==
    /\ best \in [0..Len(mocks) -> 0..Len(mocks)] /\ best[0] = 0
    /\ \A k \in 1..Len(mocks) : best[k] =
          IF Proxy!Matches(mocks[k], r, origin) /\
            (best[k - 1] = 0 \/ Proxy!Beats(k, best[k - 1], mocks, r))
          THEN k ELSE best[k - 1]
    /\ Proxy!FindMatch(mocks, r, origin) = best[Len(mocks)]

\* FindMatch is what such a pass ends with: the list is finite.
LEMMA FindMatchGoes ==
  ASSUME NEW mocks, Proxy!MocksTyped(mocks), NEW r, NEW origin
  PROVE  \E best : Goes(best, mocks, r, origin)
<1>0. PICK n : n = Len(mocks)
  OBVIOUS
<1> DEFINE Is(f) == f = [i \in 0..n |->
                IF i = 0 THEN 0
                ELSE LET best == f[i - 1] IN
                     IF Proxy!Matches(mocks[i], r, origin) /\
                       (best = 0 \/ Proxy!Beats(i, best, mocks, r))
                     THEN i ELSE best]
           Best == CHOOSE f : Is(f)
<1>1. n \in Nat
  BY <1>0 DEF Proxy!MocksTyped
<1>2. Proxy!FindMatch(mocks, r, origin) = Best[n]
  BY <1>0 DEF Proxy!FindMatch
<1>3. \E f : Is(f) /\ f \in [0..n -> 0..n]
  <2>0. PICK D : D = [k \in 1..n |-> [s \in 0..n |->
                    IF Proxy!Matches(mocks[k], r, origin) /\ (s = 0 \/ Proxy!Beats(k, s, mocks, r))
                      THEN k ELSE s]]
    OBVIOUS
  <2>1. D \in [1..n -> [0..n -> 0..n]] /\ 0 \in 0..n
    BY <1>1, <2>0
  <2>2. PICK f \in [0..n -> 0..n] : f[0] = 0 /\ \A k \in 1..n : f[k] = D[k][f[k - 1]]
    <3>1. PICK S : S = 0..n
      OBVIOUS
    <3>2. 0 \in S /\ D \in [1..n -> [S -> S]]
      BY <2>1, <3>1
    <3>3. \E f : Test!Iterates(f, n, S, 0, D)
      BY <1>1, <3>2, Test!Iteration
    <3> QED BY <3>1, <3>3 DEF Test!Iterates
  <2>3. ASSUME NEW i \in 0..n
        PROVE  f[i] = IF i = 0 THEN 0
                      ELSE LET best == f[i - 1] IN
                         IF Proxy!Matches(mocks[i], r, origin) /\
                           (best = 0 \/ Proxy!Beats(i, best, mocks, r))
                         THEN i ELSE best
    <3>1. CASE i = 0
      BY <2>2, <3>1
    <3>2. CASE i # 0
      <4>1. i \in 1..n /\ i - 1 \in 0..n
        BY <1>1, <3>2
      <4>2. f[i - 1] \in 0..n
        BY <2>2, <4>1
      <4>3. D[i][f[i - 1]] = IF Proxy!Matches(mocks[i], r, origin) /\
              (f[i - 1] = 0 \/ Proxy!Beats(i, f[i - 1], mocks, r)) THEN i ELSE f[i - 1]
        BY SMTT(30), <2>0, <4>1, <4>2
      <4> QED BY <2>2, <3>2, <4>1, <4>3
    <3> QED BY <3>1, <3>2
  <2> QED BY <2>2, <2>3
<1>4. Is(Best)
  BY <1>3
<1> HIDE DEF Best
<1>5. /\ Best[0] = 0
      /\ \A k \in 1..n : Best[k] =
                  IF Proxy!Matches(mocks[k], r, origin) /\
                    (Best[k - 1] = 0 \/ Proxy!Beats(k, Best[k - 1], mocks, r))
                  THEN k ELSE Best[k - 1]
  BY <1>1, <1>4
<1>6. Best \in [0..n -> 0..n]
  <2> DEFINE G == {k \in 0..n : Best[k] \in 0..n}
  <2>1. 0 \in G
    BY <1>1, <1>5
  <2>2. \A k \in 1..n : k - 1 \in G => k \in G
    BY <1>1, <1>5
  <2> HIDE DEF G
  <2>3. 0..n \subseteq G
    BY <1>1, <2>1, <2>2, Test!UpTo
  <2> QED BY <1>4, <2>3 DEF G
<1> QED BY <1>0, <1>2, <1>5, <1>6 DEF Goes

\* How a mock compares: by its score, then by whether it has the whole path.
Rank(m, r) == 2 * Proxy!Specificity(m, r) + Proxy!Point(Proxy!IsExact(m.path, r.path))

\* The parts of a rank are numbers,
LEMMA RankIsNat ==
  ASSUME NEW m, NEW r, m.path.kind \in {"all", "prefix", "plain"}
  PROVE  Proxy!Specificity(m, r) \in Nat /\ Proxy!Point(Proxy!IsExact(m.path, r.path)) \in 0..1
<1>1. Proxy!PathScore(m.path, r.path) \in 0..2
  BY DEF Proxy!PathScore
<1> QED BY <1>1 DEF Proxy!Specificity, Proxy!Point

\* and of two mocks the one of the higher rank beats the other.
LEMMA BeatsByRank ==
  ASSUME NEW mocks, NEW r, NEW i, NEW j,
         mocks[i].path.kind \in {"all", "prefix", "plain"},
           mocks[j].path.kind \in {"all", "prefix", "plain"}
  PROVE  /\ Rank(mocks[i], r) \in Nat /\ Rank(mocks[j], r) \in Nat
         /\ Proxy!Beats(i, j, mocks, r) <=> Rank(mocks[i], r) > Rank(mocks[j], r)
<1>1. /\ Proxy!Specificity(mocks[i], r) \in Nat /\
         Proxy!Point(Proxy!IsExact(mocks[i].path, r.path)) \in 0..1
      /\ Proxy!Specificity(mocks[j], r) \in Nat /\
         Proxy!Point(Proxy!IsExact(mocks[j].path, r.path)) \in 0..1
  BY RankIsNat
<1>2. /\ Proxy!Point(Proxy!IsExact(mocks[i].path, r.path)) = 1 <=> Proxy!IsExact(mocks[i].path, r.path)
      /\ Proxy!Point(Proxy!IsExact(mocks[j].path, r.path)) = 1 <=> Proxy!IsExact(mocks[j].path, r.path)
  BY DEF Proxy!Point
<1> QED BY <1>1, <1>2 DEF Proxy!Beats, Rank

\* A mock that is more specific than another of its origin ranks higher.
LEMMA SpecificRanks ==
  ASSUME NEW a, NEW b, NEW r, a.origin = b.origin, Proxy!MoreSpecific(a, b, r),
         a.path.kind \in {"all", "prefix", "plain"}, b.path.kind \in {"all", "prefix", "plain"}
  PROVE  Rank(a, r) > Rank(b, r)
<1>1. /\ Proxy!Point(a.target # Proxy!Any) >= Proxy!Point(b.target # Proxy!Any) /\
         Proxy!Point(a.method # Proxy!Any) >= Proxy!Point(b.method # Proxy!Any)
      /\ Proxy!PathOrder(a.path, r.path) >= Proxy!PathOrder(b.path, r.path) /\
         Proxy!Point(a.body # Proxy!Any) >= Proxy!Point(b.body # Proxy!Any)
      /\ \/ Proxy!Point(a.target # Proxy!Any) # Proxy!Point(b.target # Proxy!Any) \/
            Proxy!Point(a.method # Proxy!Any) # Proxy!Point(b.method # Proxy!Any)
         \/ Proxy!PathOrder(a.path, r.path) # Proxy!PathOrder(b.path, r.path) \/
            Proxy!Point(a.body # Proxy!Any) # Proxy!Point(b.body # Proxy!Any)
  BY DEF Proxy!MoreSpecific
<1>2. \A m \in {a, b} :
        \/ Proxy!PathOrder(m.path, r.path) = 0 /\ Proxy!PathScore(m.path, r.path) = 0 /\
           ~Proxy!IsExact(m.path, r.path)
        \/ Proxy!PathOrder(m.path, r.path) = 1 /\ Proxy!PathScore(m.path, r.path) = 1 /\
           ~Proxy!IsExact(m.path, r.path)
        \/ Proxy!PathOrder(m.path, r.path) = 2 /\ Proxy!PathScore(m.path, r.path) = 2 /\
           ~Proxy!IsExact(m.path, r.path)
        \/ Proxy!PathOrder(m.path, r.path) = 3 /\ Proxy!PathScore(m.path, r.path) = 2 /\
           Proxy!IsExact(m.path, r.path)
  BY DEF Proxy!PathScore, Proxy!PathOrder, Proxy!IsExact
<1>3. \A x : Proxy!Point(x) \in 0..1
  BY DEF Proxy!Point
<1>4. Proxy!Point(TRUE) = 1 /\ Proxy!Point(FALSE) = 0
  BY DEF Proxy!Point
<1>5. \A m \in {a, b} : Proxy!Point(Proxy!IsExact(m.path, r.path)) =
        IF Proxy!IsExact(m.path, r.path) THEN 1 ELSE 0
  BY DEF Proxy!Point
<1>6. Proxy!Point(a.origin # Proxy!Any) = Proxy!Point(b.origin # Proxy!Any)
  OBVIOUS
<1> QED BY <1>1, <1>2, <1>3, <1>5, <1>6 DEF Rank, Proxy!Specificity

\* FindMatch of mock.go, for any list of mocks: what it returns matches, and no
\* other that matches is more specific in every part for the same origin.
THEOREM ChoiceIsBestHolds ==
  ASSUME NEW mocks, Proxy!MocksTyped(mocks), NEW r, NEW origin
  PROVE  Proxy!ChoiceIsBest(mocks, r, origin)
<1> DEFINE n == Len(mocks)
           Fit == {i \in DOMAIN mocks : Proxy!Matches(mocks[i], r, origin)}
<1>1. n \in Nat /\ DOMAIN mocks = 1..n
  BY DEF Proxy!MocksTyped
<1>a. PICK best : Goes(best, mocks, r, origin)
  BY FindMatchGoes
<1>2. /\ best \in [0..n -> 0..n] /\ best[0] = 0
      /\ \A k \in 1..n : best[k] =
            IF Proxy!Matches(mocks[k], r, origin) /\
              (best[k - 1] = 0 \/ Proxy!Beats(k, best[k - 1], mocks, r))
            THEN k ELSE best[k - 1]
      /\ Proxy!FindMatch(mocks, r, origin) = best[n]
  BY <1>a DEF Goes
<1> DEFINE Best(k) ==
              /\ best[k] = 0 => \A i \in Fit : ~(i <= k)
              /\ best[k] # 0 => best[k] \in Fit /\
                    \A i \in Fit : i <= k => ~(Rank(mocks[i], r) > Rank(mocks[best[k]], r))
           G == {k \in 0..n : Best(k)}
<1>3. 0 \in G
  BY <1>1, <1>2
<1>4. ASSUME NEW k \in 1..n, k - 1 \in G
      PROVE  k \in G
  <2>1. Best(k - 1) /\ k \in DOMAIN mocks
    BY <1>1, <1>4
  <2>2. \A i \in Fit : i <= k => i = k \/ i <= k - 1
    BY <1>1
  <2>3. \A i, j \in Fit : /\ Rank(mocks[i], r) \in Nat
                          /\ Proxy!Beats(i, j, mocks, r) <=> Rank(mocks[i], r) > Rank(mocks[j], r)
    <3>1. \A i \in Fit : mocks[i].path.kind \in {"all", "prefix", "plain"}
      BY DEF Proxy!MocksTyped
    <3> HIDE DEF Fit
    <3> QED BY <3>1, BeatsByRank
  <2> HIDE DEF Fit
  <2>4. CASE k \notin Fit
    <3>1. best[k] = best[k - 1]
      BY <1>2, <2>1, <2>4 DEF Fit
    <3> QED BY <2>1, <2>2, <2>4, <3>1
  <2>5. CASE k \in Fit /\ best[k - 1] = 0
    <3>1. best[k] = k
      BY <1>2, <2>5 DEF Fit
    <3>2. \A i \in Fit : i <= k => i = k
      BY <2>1, <2>2, <2>5
    <3> QED BY <2>3, <2>5, <3>1, <3>2
  <2>6. CASE k \in Fit /\ best[k - 1] # 0
    <3>1. CASE Proxy!Beats(k, best[k - 1], mocks, r)
      <4>1. best[k] = k
        BY <1>2, <2>6, <3>1 DEF Fit
      <4>2. Rank(mocks[k], r) > Rank(mocks[best[k - 1]], r)
        BY <2>1, <2>3, <2>6, <3>1
      <4> QED BY <2>1, <2>2, <2>3, <2>6, <4>1, <4>2
    <3>2. CASE ~Proxy!Beats(k, best[k - 1], mocks, r)
      <4>1. best[k] = best[k - 1]
        BY <1>2, <2>6, <3>2 DEF Fit
      <4> QED BY <2>1, <2>2, <2>3, <2>6, <3>2, <4>1
    <3> QED BY <3>1, <3>2
  <2> QED BY <2>4, <2>5, <2>6
<1>5. n \in G
  <2> HIDE DEF G
  <2>1. \A k \in 1..n : k - 1 \in G => k \in G
    BY <1>4
  <2>2. 0..n \subseteq G
    BY <1>1, <1>3, <2>1, Test!UpTo
  <2> QED BY <1>1, <2>2
<1>6. Best(n) /\ \A i \in Fit : i <= n
  BY <1>1, <1>5
<1>7. \A i, j \in Fit : mocks[i].origin = mocks[j].origin /\
        Proxy!MoreSpecific(mocks[i], mocks[j], r) =>
                          Rank(mocks[i], r) > Rank(mocks[j], r)
  BY SpecificRanks DEF Proxy!MocksTyped
<1> QED BY <1>2, <1>6, <1>7 DEF Proxy!ChoiceIsBest

\* getTargetURL and the aliases, for any network in which names are unique: an
\* interceptor sends a call to the item it is meant for, and logs it once.
LEMMA CallArrivesHolds ==
  ASSUME NEW items, Proxy!ItemsNamed(items), NEW call, Proxy!CallTyped(call)
  PROVE  Proxy!CallArrives(call, items)
<1>1. /\ \A h \in Proxy!UrlMap(items) : h \notin Proxy!Direct(items) /\ h \in Proxy!Aliases(items) /\
         h # Proxy!Shared /\ h # Proxy!Nobody /\ Proxy!Normal(h) = h
      /\ Proxy!Shared \notin Proxy!UrlMap(items) /\ Proxy!Nobody \notin Proxy!UrlMap(items)
      /\ \A h \in Proxy!Direct(items) : h # Proxy!Shared
    BY DEF Proxy!UrlMap, Proxy!Direct, Proxy!Aliases, Proxy!ItemsNamed
<1>2. ASSUME Proxy!Normal(call.host) \in Proxy!UrlMap(items), call.from = Proxy!Agent
      PROVE  Proxy!Journey(call, items) =
               [at |-> Proxy!Normal(call.host), path |-> call.path, logs |-> 1]
  <2>1. PICK r : r = [host |-> Proxy!Shared, path |-> <<call.host>> \o call.path]
      OBVIOUS
  <2>2. Len(r.path) > 0 /\ r.path # <<>> /\ Head(r.path) = call.host /\ Tail(r.path) = call.path /\
          r.host = Proxy!Shared
      BY SMTT(30), <2>1 DEF Proxy!CallTyped
  <2>3. Proxy!ServiceOf(r, Proxy!UrlMap(items)) = Proxy!Normal(call.host)
    <3>1. Proxy!FirstLabel(r.host) = Proxy!Shared
        BY <2>2 DEF Proxy!FirstLabel, Proxy!Shared
    <3> QED BY <1>1, <1>2, <2>2, <3>1 DEF Proxy!ServiceOf
  <2>4. Proxy!TargetOf(r, Proxy!UrlMap(items), Proxy!Nobody) =
          [host |-> Proxy!Normal(call.host), path |-> call.path]
      BY <1>1, <1>2, <2>2, <2>3 DEF Proxy!TargetOf
  <2>5. Proxy!Through(Proxy!Nobody, r, items, 0) =
          [at |-> Proxy!Normal(call.host), path |-> call.path, logs |-> 1]
    <3>1. PICK t : t = Proxy!TargetOf(r, Proxy!UrlMap(items), Proxy!Nobody)
        OBVIOUS
    <3>2. t.host = Proxy!Normal(call.host) /\ t.path = call.path /\ t.host \in Proxy!Aliases(items)
        BY <1>1, <1>2, <2>4, <3>1
    <3> QED BY <3>1, <3>2 DEF Proxy!Through
  <2>6. Proxy!FirstHop(call, items) = [at |-> Proxy!Normal(call.host), path |-> call.path, logs |-> 1]
      BY <1>2, <2>1, <2>5 DEF Proxy!FirstHop
  <2>7. PICK first : first = Proxy!FirstHop(call, items)
      OBVIOUS
  <2>8. first.at = Proxy!Normal(call.host) /\ Proxy!Normal(call.host) # Proxy!Shared
      BY <1>1, <1>2, <2>6, <2>7
  <2>9. Proxy!Journey(call, items) = first
      BY <2>7, <2>8 DEF Proxy!Journey
  <2> QED BY <2>2, <2>6, <2>7, <2>8, <2>9
<1>3. ASSUME call.host \in Proxy!UrlMap(items), call.from # Proxy!Agent,
             ~(call.path # <<>> /\ Proxy!Normal(Head(call.path)) = call.host)
      PROVE  Proxy!Journey(call, items) =
               [at |-> Proxy!Normal(call.host), path |-> call.path, logs |-> 1]
  <2>1. PICK r : r = [host |-> call.host, path |-> call.path]
      OBVIOUS
  <2>2. r.host = call.host /\ r.path = call.path
      BY <2>1
  <2>3. Proxy!ServiceOf(r, Proxy!UrlMap(items)) = call.host
      BY <1>3, <2>2 DEF Proxy!ServiceOf
  <2>4. Proxy!TargetOf(r, Proxy!UrlMap(items), call.from) = [host |-> call.host, path |-> call.path]
      BY <1>1, <1>3, <2>2, <2>3 DEF Proxy!TargetOf
  <2>5. Proxy!Through(call.from, r, items, 0) = [at |-> call.host, path |-> call.path, logs |-> 1]
    <3>1. PICK t : t = Proxy!TargetOf(r, Proxy!UrlMap(items), call.from)
        OBVIOUS
    <3>2. t.host = call.host /\ t.path = call.path /\ t.host \in Proxy!Aliases(items)
        BY <1>1, <1>3, <2>4, <3>1
    <3> QED BY <3>1, <3>2 DEF Proxy!Through
  <2>6. Proxy!FirstHop(call, items) = [at |-> call.host, path |-> call.path, logs |-> 1]
      BY <1>1, <1>3, <2>1, <2>5 DEF Proxy!FirstHop
  <2>7. PICK first : first = Proxy!FirstHop(call, items)
      OBVIOUS
  <2>8. first.at = call.host /\ call.host # Proxy!Shared /\ Proxy!Normal(call.host) = call.host
      BY <1>1, <1>3, <2>6, <2>7
  <2>9. Proxy!Journey(call, items) = first
      BY <2>7, <2>8 DEF Proxy!Journey
  <2> QED BY <2>2, <2>6, <2>7, <2>8, <2>9
<1>4. ASSUME call.from # Proxy!Agent, call.host \in Proxy!Direct(items)
      PROVE  Proxy!Journey(call, items) = [at |-> call.host, path |-> call.path, logs |-> 0]
  <2>1. Proxy!FirstHop(call, items) = [at |-> call.host, path |-> call.path, logs |-> 0]
      BY <1>4 DEF Proxy!FirstHop
  <2>2. PICK first : first = Proxy!FirstHop(call, items)
      OBVIOUS
  <2>3. first.at = call.host /\ call.host # Proxy!Shared
      BY <1>1, <1>4, <2>1, <2>2
  <2>4. Proxy!Journey(call, items) = first
      BY <2>2, <2>3 DEF Proxy!Journey
  <2> QED BY <2>1, <2>2, <2>4
<1>5. ASSUME call.from = Proxy!Agent, Proxy!LooksExternal(call.host),
             call.host \notin Proxy!Aliases(items), Proxy!Normal(call.host) \notin Proxy!UrlMap(items)
      PROVE  Proxy!Journey(call, items) = [at |-> "outside", path |-> call.path, logs |-> 1]
  <2>1. PICK r : r = [host |-> Proxy!Shared, path |-> <<call.host>> \o call.path]
      OBVIOUS
  <2>2. r.path # <<>> /\ Head(r.path) = call.host /\ Tail(r.path) = call.path /\ r.host = Proxy!Shared
      BY SMTT(30), <2>1 DEF Proxy!CallTyped
  <2>3. Proxy!ServiceOf(r, Proxy!UrlMap(items)) = Proxy!Nobody
    <3>1. Proxy!FirstLabel(r.host) = Proxy!Shared
        BY <2>2 DEF Proxy!FirstLabel, Proxy!Shared
    <3> QED BY <1>1, <1>5, <2>2, <3>1 DEF Proxy!ServiceOf
  <2>4. Proxy!TargetOf(r, Proxy!UrlMap(items), Proxy!Nobody) = [host |-> call.host, path |-> call.path]
      BY <1>1, <1>5, <2>2, <2>3 DEF Proxy!TargetOf
  <2>5. Proxy!Through(Proxy!Nobody, r, items, 0) = [at |-> "outside", path |-> call.path, logs |-> 1]
    <3>1. PICK t : t = Proxy!TargetOf(r, Proxy!UrlMap(items), Proxy!Nobody)
        OBVIOUS
    <3>2. t.path = call.path /\ t.host \notin Proxy!Aliases(items)
        BY <1>5, <2>4, <3>1
    <3> QED BY <3>1, <3>2 DEF Proxy!Through
  <2>6. Proxy!FirstHop(call, items) = [at |-> "outside", path |-> call.path, logs |-> 1]
      BY <1>5, <2>1, <2>5 DEF Proxy!FirstHop
  <2>7. PICK first : first = Proxy!FirstHop(call, items)
      OBVIOUS
  <2>8. first.at # Proxy!Shared
      BY <2>6, <2>7 DEF Proxy!Shared
  <2>9. Proxy!Journey(call, items) = first
      BY <2>7, <2>8 DEF Proxy!Journey
  <2> QED BY <2>6, <2>7, <2>9
<1> QED BY <1>2, <1>3, <1>4, <1>5 DEF Proxy!CallArrives

-----------------------------------------------------------------------------
(* The parts keep apart.                                                   *)

\* A part that begins is in its own initial state: the functions have other names.
LEMMA Begins ==
  ASSUME AllInit
  PROVE  /\ part = "daemon" => Towers!Init
         /\ part = "command" => Cli!Init
         /\ part = "tests" => Runner!Init
         /\ part = "agent" => Agent!Init
         /\ part = "visual" => Visual!Init
         /\ part = "traffic" => Traffic!Init
         /\ part = "setup" => Setup!Init
         /\ part \in DOMAIN Inputs => input \in Inputs[part]
<1>1. \A p \in DOMAIN Inputs : p \notin Machines
    BY PartsAssumption
<1> QED BY <1>1 DEF AllInit, Machines

\* It takes its own steps, or none.
LEMMA Steps ==
  ASSUME [AllNext]_partVars
  PROVE  /\ part' = part /\ input' = input
         /\ part = "daemon" => Towers!Next \/ UNCHANGED <<v1, v2, v3, v4, v5, v6, v7>>
         /\ part = "command" => Cli!Next \/ UNCHANGED partVars
         /\ part = "tests" => Runner!Next \/ UNCHANGED partVars
         /\ part = "agent" => Agent!Next \/ UNCHANGED partVars
         /\ part = "visual" => Visual!Next \/ UNCHANGED partVars
         /\ part = "traffic" => Traffic!Next \/ UNCHANGED partVars
         /\ part = "setup" => Setup!Next \/ UNCHANGED <<v1, v2, v3, v4, v5, v6, v7, v8>>
BY DEF AllNext, Of, partVars, above7

-----------------------------------------------------------------------------
(* The invariant.                                                          *)

\* It holds as a part begins,
LEMMA PartsBegin ==
  ASSUME AllInit
  PROVE  PartsInv
<1>1. part = "daemon" => Cmd!DaemonInv
    BY Begins, PartsAssumption, SameDaemon, Cmd!DaemonInit
<1>2. part = "command" => Cmd!CommandInv
    BY Begins, PartsAssumption, SameCommand, Cmd!CommandInit
<1>3. part = "tests" => Test!RunnerInv
    BY Begins, PartsAssumption, SameTests, Test!RunnerInit
<1>4. part = "agent" => Test!AgentInv
    BY Begins, PartsAssumption, SameAgent, Test!AgentInit
<1>5. part = "visual" => Cmd!BaselinesInv
    BY Begins, PartsAssumption, SameVisual, Cmd!BaselinesInit
<1>6. part = "traffic" => Test!RelayInv /\ Test!RedisInv /\ Test!KafkaInv /\ Test!MongoInv
    BY Begins, PartsAssumption, SameTraffic, Test!RelayInit, Test!RedisInit, Test!KafkaInit, Test!MongoInit
<1>7. part = "setup" => Test!SetupInv
    BY Begins, PartsAssumption, SameSetup, Test!SetupInit
<1> QED BY <1>1, <1>2, <1>3, <1>4, <1>5, <1>6, <1>7, Begins DEF PartsInv

\* and whatever step the part takes.
LEMMA PartsStep ==
  ASSUME PartsInv, [AllNext]_partVars
  PROVE  PartsInv'
<1>0. part' = part /\ (part \in DOMAIN Inputs => input' \in Inputs[part])
    BY Steps DEF PartsInv
<1>1. CASE part = "daemon"
  <2>1. [Cmd!Towers!Next]_Cmd!Towers!daemonVars
      BY <1>1, Steps, SameDaemon DEF Cmd!Towers!daemonVars
  <2>2. Cmd!DaemonInv'
      BY <1>1, <2>1, PartsAssumption, SameDaemon, Cmd!DaemonStep DEF PartsInv
  <2> QED BY <1>0, <1>1, <2>2 DEF PartsInv
<1>2. CASE part = "command"
  <2>1. [Cmd!Next]_Cmd!commandVars
      BY <1>2, Steps, SameCommand DEF Cmd!commandVars, Cmd!loop, Cmd!promises, Cmd!controllers,
         Cmd!ending, Cmd!tower, partVars, above7, above8, above13, above15
  <2>2. Cmd!CommandInv'
      BY <1>2, <2>1, PartsAssumption, SameCommand, Cmd!CommandStep DEF PartsInv
  <2> QED BY <1>0, <1>2, <2>2 DEF PartsInv
<1>3. CASE part = "tests"
  <2>1. [Test!Next]_Test!runnerVars
      BY <1>3, Steps, SameTests DEF Test!runnerVars, Test!counters, partVars, above7, above8,
         above13,
         above15
  <2>2. Test!RunnerInv'
      BY <1>3, <2>1, PartsAssumption, SameTests, Test!RunnerStep DEF PartsInv
  <2> QED BY <1>0, <1>3, <2>2 DEF PartsInv
<1>4. CASE part = "agent"
  <2>1. [Test!Reports!Next]_Test!Reports!vars
      BY <1>4, Steps, SameAgent DEF Test!Reports!vars, Test!Reports!runVars,
         Test!Reports!eventVars,
         Test!Reports!reportVars, partVars, above7, above8, above13, above15
  <2>2. Test!AgentInv'
      BY <1>4, <2>1, PartsAssumption, SameAgent, Test!AgentStep DEF PartsInv
  <2> QED BY <1>0, <1>4, <2>2 DEF PartsInv
<1>5. CASE part = "visual"
  <2>1. [Cmd!Visual!Next]_Cmd!Visual!vars
      BY <1>5, Steps, SameVisual DEF Cmd!Visual!vars, Cmd!Visual!instance, Cmd!Visual!world,
         Cmd!Visual!captures, Cmd!Visual!reviewing, partVars, above7, above8, above13, above15, above16
  <2>2. Cmd!BaselinesInv'
      BY <1>5, <2>1, PartsAssumption, SameVisual, Cmd!BaselinesStep DEF PartsInv
  <2> QED BY <1>0, <1>5, <2>2 DEF PartsInv
<1>6. CASE part = "traffic"
  <2>1. [Test!Wire!Next]_Test!Wire!vars
      BY <1>6, Steps, SameTraffic DEF Test!Wire!vars, Test!Wire!reqVars, Test!Wire!srvVars,
         Test!Wire!backVars, Test!Wire!peerVars, Test!Wire!endVars, partVars, above7, above8,
         above13, above15, above16
  <2>2. (Test!RelayInv /\ Test!RedisInv /\ Test!KafkaInv /\ Test!MongoInv)'
      BY <1>6, <2>1, PartsAssumption, SameTraffic, Test!RelayStep, Test!RedisStep, Test!KafkaStep, Test!MongoStep
      DEF PartsInv
  <2> QED BY <1>0, <1>6, <2>2 DEF PartsInv
<1>7. CASE part = "setup"
  <2>1. [Test!Session!Next]_Test!Session!vars
      BY <1>7, Steps, SameSetup DEF Test!Session!vars
  <2>2. Test!SetupInv'
      BY <1>7, <2>1, PartsAssumption, SameSetup, Test!SetupStep DEF PartsInv
  <2> QED BY <1>0, <1>7, <2>2 DEF PartsInv
<1>8. CASE part \notin {"daemon", "command", "tests", "agent", "visual", "traffic", "setup"}
    BY <1>0, <1>8 DEF PartsInv
<1> QED BY <1>1, <1>2, <1>3, <1>4, <1>5, <1>6, <1>7, <1>8

\* Whichever part it is, it keeps its invariant.
LEMMA PartsInvariant == AllSpec => []PartsInv
<1>1. AllInit => PartsInv
    BY PartsBegin
<1>2. PartsInv /\ [AllNext]_partVars => PartsInv'
    BY PartsStep
<1> QED BY <1>1, <1>2, PTL DEF AllSpec

-----------------------------------------------------------------------------
(* The theorems.                                                           *)

\* acquireLock and daemon.json, for any commands: one at a time works on the
\* Control Tower, and a tower that is left running is the one on record.
THEOREM OneDaemonCorrect == AllSpec => []OneDaemon
<1>1. PartsInv => OneDaemon
    BY SameDaemonProperties, Cmd!DaemonInvImplies DEF PartsInv, OneDaemon
<1> QED BY <1>1, PartsInvariant, PTL

\* triggerRun and cleanup, for any number of triggers: the exit code speaks of
\* the last run, and the command leaves none behind that it knows of.
THEOREM CommandEndsWellCorrect == AllSpec => []CommandEndsWell
<1>1. PartsInv => CommandEndsWell
    BY PartsAssumption, SameCommand, SameCommandProperties, Cmd!CommandInvImplies
    DEF PartsInv, CommandEndsWell
<1> QED BY <1>1, PartsInvariant, PTL

\* ExecuteTests, for any tests with any loops: the order of what is performed,
\* and the variables that it is performed with.
THEOREM StepsInOrderHolds == AllSpec => []StepsInOrder
<1>1. PartsInv => StepsInOrder
    BY SameTestsProperties, Test!RunnerInvImplies DEF PartsInv, StepsInOrder
<1> QED BY <1>1, PartsInvariant, PTL

\* For any tests: they pass only when what they performed was validated.
THEOREM PassedMeansJudgedHolds == AllSpec => []PassedMeansJudged
<1>1. PartsInv => PassedMeansJudged
    BY SameTestsProperties, Test!RunnerInvImplies DEF PartsInv, PassedMeansJudged
<1> QED BY <1>1, PartsInvariant, PTL

\* POST /execute, the queue of events and the end of the agent, for any number
\* of executions and steps and any room in the queue.
THEOREM AgentEndsWellCorrect == AllSpec => []AgentEndsWell
<1>1. PartsInv => AgentEndsWell
    BY SameAgentProperties, Test!InvariantExcludes, Test!InvariantEndsWell, Test!InvariantOrders
    DEF PartsInv, AgentEndsWell
<1> QED BY <1>1, PartsInvariant, PTL

\* The baselines of any project: what was approved is what the next run is judged
\* by, no run passes that was not judged, and what failed can be reviewed.
THEOREM BaselinesHoldCorrect == AllSpec => []BaselinesHold
<1>1. PartsInv => BaselinesHold
    BY SameVisualProperties, Cmd!BaselinesInvImplies DEF PartsInv, BaselinesHold
<1> QED BY <1>1, PartsInvariant, PTL

\* Broker connections with any frames, sessions with any dialogues, any mocks and
\* any network whose items have names of their own: what is sent arrives.
THEOREM TrafficArrivesCorrect == AllSpec => []TrafficArrives
<1>1. ASSUME PartsInv
      PROVE  TrafficArrives
  <2>1. part = "traffic" => Traffic!PublishesSurvive
      BY <1>1, SameTraffic, Test!RelayInvImplies DEF PartsInv
  <2>2. part = "setup" => Setup!RelayInStep
      BY <1>1, SameSetup, Test!SetupInvImplies DEF PartsInv
  <2>3. part = "mocks" => Proxy!ChoiceIsBest(input.mocks, input.request, input.origin)
      BY <1>1, PartsAssumption, ChoiceIsBestHolds DEF PartsInv
  <2>4. part = "calls" => Proxy!CallArrives(input, Network)
      BY <1>1, PartsAssumption, CallArrivesHolds DEF PartsInv
  <2> QED BY <2>1, <2>2, <2>3, <2>4 DEF TrafficArrives
<1>2. PartsInv => TrafficArrives
    BY <1>1
<1> QED BY <1>2, PartsInvariant, PTL

\* Redis, whose answers come in the order of the commands, and Kafka and
\* MongoDB, whose answers name their request, with any requests: a log pairs a query
\* with its own answer, and what was answered or relayed is logged once.
THEOREM TrafficToldByOrderOrId ==
  AllSpec => [](part = "traffic" /\ v1.proto \in {"redis", "kafka", "mongo"} => TrafficTold)
<1>1. ASSUME PartsInv, part = "traffic", v1.proto \in {"redis", "kafka", "mongo"}
      PROVE  TrafficTold
    BY <1>1, SameTraffic, Test!RedisInvImplies, Test!KafkaInvImplies, Test!MongoInvImplies
    DEF PartsInv, TrafficTold, Test!Wire!Is
<1>2. PartsInv => (part = "traffic" /\ v1.proto \in {"redis", "kafka", "mongo"} => TrafficTold)
    BY <1>1
<1> QED BY <1>2, PartsInvariant, PTL

=============================================================================
