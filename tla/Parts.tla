-------------------------------- MODULE Parts --------------------------------
(***************************************************************************)
(* One specification for the parts of the program that share no state with *)
(* each other.  A behaviour is that of one part.  Since only one is at     *)
(* work, the parts have their variables in the same places, v1..v17, and   *)
(* leave those they do not need at 0.  A part that is a function takes no  *)
(* steps; input is what it is applied to.                                  *)
(***************************************************************************)
EXTENDS Naturals

CONSTANTS
    Scripts, Names, QueueCap,            \* TrafficCapture and AgentReports
    Dialogues,                           \* SessionSetup
    Commands, Calls,                     \* Daemon
    Programs,                            \* TestRunner
    Triggers, Modes,                     \* RunCommand
    Executions, MaxSteps,                \* AgentReports
    Projects, Images, MaxRuns, MaxAccidents,  \* Baselines
    Actions, CallKinds, MaxTime, MaxCalls,    \* UiTimeline
    Network,                             \* Interceptor: the items between which calls are made
    Inputs                               \* the inputs of each part that is a function

VARIABLES part, input,
    v1, v2, v3, v4, v5, v6, v7, v8, v9, v10, v11, v12, v13, v14, v15, v16, v17

Traffic == INSTANCE TrafficCapture WITH
    conn <- v1, sent <- v2, fwd <- v3, seen <- v4, served <- v5, pushed <- v6,
    srv <- v7, answers <- v8, relayed <- v9, read <- v10, px <- v11, odd <- v12,
    client <- v13, server <- v14, up <- v15, down <- v16, closed <- v17

Setup == INSTANCE SessionSetup WITH
    talk <- v1, hello <- v2, told <- v3, passed <- v4, answered <- v5,
    returned <- v6, peers <- v7, proxy <- v8

Towers == INSTANCE Daemon WITH
    at <- v1, calls <- v2, mem <- v3, lock <- v4, daemon <- v5, tower <- v6,
    accident <- v7

Runner == INSTANCE TestRunner WITH
    prog <- v1, at <- v2, test <- v3, pass <- v4, step <- v5, round <- v6,
    turn <- v7, env <- v8, told <- v9, swallowed <- v10, ran <- v11,
    judged <- v12, verdict <- v13

Cli == INSTANCE RunCommand WITH
    mode <- v1, trigger <- v2, waits <- v3, inFlight <- v4, abort <- v5,
    aborted <- v6, timer <- v7, inspecting <- v8, pendingTrigger <- v9,
    lastResult <- v10, exit <- v11, last <- v12, code <- v13, run <- v14,
    missed <- v15

Agent == INSTANCE AgentReports WITH
    runs <- v1, executing <- v2, steps <- v3, late <- v4, overtook <- v5,
    queue <- v6, worker <- v7, drain <- v8, events <- v9, lost <- v10,
    sent <- v11, reports <- v12, reported <- v13, notified <- v14, main <- v15,
    timedOut <- v16

Visual == INSTANCE Baselines WITH
    project <- v1, dir <- v2, look <- v3, run <- v4, cmd <- v5, staged <- v6,
    mounted <- v7, pos <- v8, failures <- v9, result <- v10, rows <- v11,
    files <- v12, review <- v13, known <- v14, last <- v15, seen <- v16,
    accidents <- v17

Timeline == INSTANCE UiTimeline WITH
    program <- v1, order <- v2, next <- v3, doing <- v4, ended <- v5, now <- v6,
    events <- v7, calls <- v8

Proxy == INSTANCE Interceptor

Machines ==
    {"traffic", "setup", "daemon", "tests", "command", "agent", "visual", "timeline"}

\* What the theorems assume of the constants; and the functions have names of
\* their own.
ASSUME PartsAssumption ==
    /\ Traffic!ScriptsTyped /\ Setup!DialoguesTyped
    /\ Towers!CallsAreLists
    /\ Runner!ProgramsTyped /\ Runner!NamesNested
    /\ Cli!TriggersInOrder
    /\ Agent!Bounds
    /\ Visual!ProjectsTyped
    /\ DOMAIN Inputs \cap Machines = {} /\ {"mocks", "calls"} \subseteq DOMAIN Inputs
    /\ \A x \in Inputs["mocks"] : Proxy!MocksTyped(x.mocks)
    /\ \A call \in Inputs["calls"] : Proxy!CallTyped(call)
    /\ Proxy!ItemsNamed(Network)

above16 == <<v17>>
above15 == <<v16, v17>>
above13 == <<v14, v15, above15>>
above8 == <<v9, v10, v11, v12, v13, above13>>
above7 == <<v8, above8>>
partVars == <<part, input, v1, v2, v3, v4, v5, v6, v7, above7>>

No15 == v16 = 0 /\ v17 = 0
No13 == v14 = 0 /\ v15 = 0 /\ No15
No8 == v9 = 0 /\ v10 = 0 /\ v11 = 0 /\ v12 = 0 /\ v13 = 0 /\ No13
No7 == v8 = 0 /\ No8
No0 == v1 = 0 /\ v2 = 0 /\ v3 = 0 /\ v4 = 0 /\ v5 = 0 /\ v6 = 0 /\ v7 = 0 /\ No7

AllInit ==
    \/ part = "traffic" /\ input = 0 /\ Traffic!Init
    \/ part = "setup" /\ input = 0 /\ Setup!Init /\ No8
    \/ part = "daemon" /\ input = 0 /\ Towers!Init /\ No7
    \/ part = "tests" /\ input = 0 /\ Runner!Init /\ No13
    \/ part = "command" /\ input = 0 /\ Cli!Init /\ No15
    \/ part = "agent" /\ input = 0 /\ Agent!Init /\ v17 = 0
    \/ part = "visual" /\ input = 0 /\ Visual!Init
    \/ part = "timeline" /\ input = 0 /\ Timeline!Init /\ No8
    \/ \E p \in DOMAIN Inputs : part = p /\ input \in Inputs[p] /\ No0

\* A step of part p that leaves the variables in rest alone.
Of(p, A, rest) == part = p /\ A /\ UNCHANGED <<part, input, rest>>

AllNext ==
    \/ Of("traffic", Traffic!Next, <<>>)
    \/ Of("setup", Setup!Next, above8)
    \/ Of("daemon", Towers!Next, above7)
    \/ Of("tests", Runner!Next, above13)
    \/ Of("command", Cli!Next, above15)
    \/ Of("agent", Agent!Next, above16)
    \/ Of("visual", Visual!Next, <<>>)
    \/ Of("timeline", Timeline!Next, above8)

\* The steps to which some part is bound to come: those of the proxies and of
\* the servers behind them, and those of the command and of its runs.
Fair ==
    \/ Of("traffic", Traffic!Fair, <<>>)
    \/ Of("setup", Setup!Fair, above8)
    \/ Of("command", Cli!Fair, above15)
    \/ Of("agent", Agent!Fair, above16)

AllSpec == AllInit /\ [][AllNext]_partVars /\ WF_partVars(Fair)

-----------------------------------------------------------------------------
(* Properties of the parts.                                                *)

\* The types of the parts: whatever they do, the queues and counters they keep
\* stay in their bounds, and none gets to a place its code does not have.
PartsTypeOK ==
    /\ part = "traffic" => Traffic!TypeOK
    /\ part = "setup" => Setup!TypeOK
    /\ part = "daemon" => Towers!TypeOK
    /\ part = "tests" => Runner!TypeOK
    /\ part = "command" => Cli!TypeOK
    /\ part = "agent" => Agent!TypeOK
    /\ part = "visual" => Visual!TypeOK
    /\ part = "timeline" => Timeline!TypeOK

\* Paired and Captured of TrafficCapture: a log pairs a query with its own answer,
\* and every query that was answered and every message is logged once.  Left out
\* are connections whose server has answered in a way that the proxy does not pair
\* (odd), and with PostgreSQL what an Execute shares with the portal bound, or the
\* statement described, after its own.
TrafficTold == part = "traffic" => Traffic!Paired /\ Traffic!Captured

\* PublishesSurvive of TrafficCapture and RelayInStep of SessionSetup: nothing that
\* was published before the client left is lost, and what is relayed as traffic
\* begins where the handshake ends.  ChoiceIsBest and CallArrives of Interceptor:
\* the most specific mock answers, and a call that none answers gets to the service
\* it names, or if it is the test agent's to the host outside.
TrafficArrives ==
    /\ part = "traffic" => Traffic!PublishesSurvive
    /\ part = "setup" => Setup!RelayInStep
    /\ part = "mocks" => Proxy!ChoiceIsBest(input.mocks, input.request, input.origin)
    /\ part = "calls" => Proxy!CallArrives(input, Network)

\* TrafficSettles of TrafficCapture, SetupEnds of SessionSetup, QuitEnds of
\* RunCommand, Over of AgentReports, as one formula: what a server answers gets
\* to the client, a connection that one side leaves is closed, a handshake comes
\* to an end, and so do a command and a test agent that are told to.  Ended names
\* the connections that are not closed: that of Redis with a full queue among them.
PartsSettle ==
    []<>(/\ part = "traffic" => Traffic!Replied /\ Traffic!Ended
         /\ part = "setup" => Setup!Over
         /\ part = "command" => Cli!Over
         /\ part = "agent" => Agent!Over)

\* LockExcludes, RunningIsRecorded of Daemon: one command at a time works on the
\* Control Tower, and one that is left running can be found and stopped.
OneDaemon == part = "daemon" => Towers!LockExcludes /\ Towers!RunningIsRecorded

\* StepsInOrder, OwnVariables and ResultAfterLoop of TestRunner: no action twice
\* for one turn of its loops, none out of order, and none before a step that
\* precedes it was performed; a step sees no variable of another test or pass,
\* and no result of a loop that is still running.
StepsInOrder ==
    part = "tests" =>
        Runner!StepsInOrder /\ Runner!OwnVariables /\ Runner!ResultAfterLoop

\* PassedMeansJudged of TestRunner: tests pass only when what they performed
\* was validated.
PassedMeansJudged == part = "tests" => Runner!PassedMeansJudged

\* ApprovedPasses, FailuresCanBeReviewed and BaselineWasTaken of Baselines: what
\* was approved is what the next run is judged by, no run passes that was not
\* judged, and what makes one fail can be reviewed.
BaselinesHold ==
    part = "visual" =>
        Visual!ApprovedPasses /\ Visual!FailuresCanBeReviewed /\ Visual!BaselineWasTaken

\* OneExecution, EndsWell and EventsInOrder of AgentReports: one execution at a
\* time, and an agent that is told to end has reported what it performed.
AgentEndsWell ==
    part = "agent" => Agent!OneExecution /\ Agent!EndsWell /\ Agent!EventsInOrder

\* ExitTells and ExitStopsRun of RunCommand: the exit code is that of the last
\* run, and no run is left behind that the command knows of.
CommandEndsWell == part = "command" => Cli!ExitTells /\ Cli!ExitStopsRun

=============================================================================
