---------------------------- MODULE AgentReports ----------------------------
(***************************************************************************)
(* How the test agent tells the Control Tower what happens: events through *)
(* one queue and one worker, results of validations each by a goroutine of *)
(* its own, and one notification when an execution ends; how it takes up   *)
(* executions, its own in auto mode and those asked for with POST /execute;*)
(* and how it comes to an end when it is told to.                          *)
(***************************************************************************)
EXTENDS Integers, Sequences

CONSTANTS QueueCap,    \* room for events: 1000 in the code
          Executions,  \* those asked for with POST /execute
          MaxSteps     \* bound: steps of all executions together

AutoMode == "auto"
Everyone == Executions \cup {AutoMode}

\* What the proofs assume of them.
Bounds == QueueCap \in Nat /\ MaxSteps \in Nat /\ AutoMode \notin Executions

VARIABLES
    runs,      \* where each execution is: off, accepted, running, ended
    executing, \* the flag that POST /execute looks at
    steps,     \* steps performed, by all executions
    late,      \* executions accepted when the agent waited for them no more
    overtook,  \* an execution began while the one in auto mode had yet to
    queue,     \* events not sent
    worker,    \* the event the worker is sending, 0 for none, -1 once it stopped
    drain,     \* the event that Stop is sending, 0 for none
    events,    \* events so far, which number them
    lost,      \* events dropped because the queue was full
    sent,      \* events as they arrived, or failed to
    reports,   \* results on their way
    reported,  \* results that arrived or failed
    notified,  \* executions whose end was reported, or failed to be
    main,      \* where main is: up, executions, reports, server, stop, exited
    timedOut   \* the time for draining ran out

runVars == <<runs, executing, steps, late, overtook>>
eventVars == <<queue, worker, drain, events, lost, sent>>
reportVars == <<reports, reported, notified>>
vars == <<runVars, eventVars, reportVars, main, timedOut>>

TypeOK ==
    /\ runs \in [Everyone -> {"off", "accepted", "running", "ended"}]
    /\ executing \in BOOLEAN /\ timedOut \in BOOLEAN /\ overtook \in BOOLEAN
    /\ steps \in 0..MaxSteps
    /\ late \subseteq Executions /\ notified \subseteq Everyone
    /\ events \in Nat /\ Len(queue) =< QueueCap
    /\ \A n \in {drain} \cup {queue[i] : i \in DOMAIN queue} \cup lost : n \in 0..events
    /\ worker \in -1..events
    /\ reports \cup reported \subseteq 1..steps
    /\ main \in {"up", "executions", "reports", "server", "stop", "exited"}

\* In auto mode the goroutine of the first execution is there from the start.
Init ==
    /\ runs \in {[e \in Everyone |-> IF e = AutoMode THEN first ELSE "off"] : first \in {"off", "accepted"}}
    /\ executing = FALSE /\ steps = 0 /\ late = {} /\ overtook = FALSE
    /\ queue = <<>> /\ worker = 0 /\ drain = 0 /\ events = 0 /\ lost = {} /\ sent = <<>>
    /\ reports = {} /\ reported = {} /\ notified = {}
    /\ main = "up" /\ timedOut = FALSE

Alive == main # "exited"

\* logEvent: the event is queued if there is room, and lost otherwise.
LogEvent ==
    /\ events' = events + 1
    /\ IF Len(queue) < QueueCap
       THEN queue' = Append(queue, events + 1) /\ UNCHANGED lost
       ELSE lost' = lost \cup {events + 1} /\ UNCHANGED queue
    /\ UNCHANGED <<worker, drain, sent>>

-----------------------------------------------------------------------------
(* Executions.                                                             *)

\* A mutant of Free: POST /execute is accepted at any time.
FreeAlways == TRUE

Free == ~executing

\* POST /execute, until the server is shut down.
Execute(e) ==
    /\ main \in {"up", "executions", "reports"}
    /\ runs[e] = "off" /\ e # AutoMode /\ Free
    /\ executing' = TRUE
    /\ runs' = [runs EXCEPT ![e] = "running"]
    /\ late' = IF main = "reports" THEN late \cup {e} ELSE late
    /\ overtook' = (overtook \/ runs[AutoMode] = "accepted")
    /\ UNCHANGED <<steps, eventVars, reportVars, main, timedOut>>

\* The goroutine of auto mode sets the flag whatever it was.
BeginAuto ==
    /\ Alive
    /\ runs[AutoMode] = "accepted"
    /\ executing' = TRUE
    /\ runs' = [runs EXCEPT ![AutoMode] = "running"]
    /\ UNCHANGED <<steps, late, overtook, eventVars, reportVars, main, timedOut>>

\* A step is performed and validated: an event, and its results on their way.
\* One that goes on when the signal comes ends later; none begins after it.
PerformStep(e) ==
    /\ Alive
    /\ runs[e] = "running" /\ e \notin late
    /\ steps < MaxSteps
    /\ steps' = steps + 1
    /\ reports' = reports \cup {steps + 1}
    /\ LogEvent
    /\ UNCHANGED <<runs, executing, late, overtook, reported, notified, main, timedOut>>

\* NotifyCompletion, whose answer is only logged.
NotifyCompletion(e) == notified' = notified \cup {e}

\* The last step, or the one that the end of the context or an error cuts off;
\* and the goroutine ends.
EndExecution(e) ==
    /\ Alive
    /\ runs[e] = "running"
    /\ NotifyCompletion(e)
    /\ runs' = [runs EXCEPT ![e] = "ended"]
    /\ executing' = FALSE
    /\ UNCHANGED <<steps, late, overtook, eventVars, reports, reported, main, timedOut>>

\* ReportStepResultsAsync: the answer, or the failure, of one request.
Report(n) ==
    /\ Alive
    /\ n \in reports
    /\ reports' = reports \ {n}
    /\ reported' = reported \cup {n}
    /\ UNCHANGED <<runVars, eventVars, notified, main, timedOut>>

-----------------------------------------------------------------------------
(* Events.                                                                 *)

\* Once stopChan is closed, select may still take a message.
WorkerTakes ==
    /\ Alive
    /\ worker = 0 /\ queue # <<>>
    /\ worker' = Head(queue) /\ queue' = Tail(queue)
    /\ UNCHANGED <<runVars, drain, events, lost, sent, reportVars, main, timedOut>>

WorkerSends ==
    /\ Alive
    /\ worker > 0
    /\ sent' = Append(sent, worker) /\ worker' = 0
    /\ UNCHANGED <<runVars, queue, drain, events, lost, reportVars, main, timedOut>>

WorkerStops ==
    /\ main = "stop" /\ worker = 0
    /\ worker' = -1
    /\ UNCHANGED <<runVars, queue, drain, events, lost, sent, reportVars, main, timedOut>>

-----------------------------------------------------------------------------
(* The end.                                                                *)

Went(to) == main' = to /\ UNCHANGED <<runVars, eventVars, reportVars>>

\* SIGTERM or SIGINT; the contexts of the executions end.
Signal == main = "up" /\ Went("executions") /\ UNCHANGED timedOut

\* A mutant of WaitExecutions: what is on its way is awaited first.
WaitExecutionsNot == main = "executions" /\ Went("reports") /\ UNCHANGED timedOut

\* executionWg.Wait, in which the execution of auto mode counts from the start.
WaitExecutions ==
    /\ main = "executions"
    /\ \A e \in Everyone : runs[e] \in {"off", "ended"}
    /\ Went("reports") /\ UNCHANGED timedOut

WaitReports ==
    /\ main = "reports" /\ reports = {}
    /\ Went("server") /\ UNCHANGED timedOut

\* Shutdown waits for requests, not for the goroutines they started.
StopServer == main = "server" /\ Went("stop") /\ UNCHANGED timedOut

\* Stop: what is queued is sent by main, beside the worker.
DrainTakes ==
    /\ main = "stop" /\ drain = 0 /\ queue # <<>>
    /\ drain' = Head(queue) /\ queue' = Tail(queue)
    /\ UNCHANGED <<runVars, worker, events, lost, sent, reportVars, main, timedOut>>

DrainSends ==
    /\ main = "stop" /\ drain > 0
    /\ sent' = Append(sent, drain) /\ drain' = 0
    /\ UNCHANGED <<runVars, queue, worker, events, lost, reportVars, main, timedOut>>

\* The queue is empty, or five seconds are over; the worker is not waited for.
Exit ==
    /\ main = "stop" /\ drain = 0
    /\ \/ queue = <<>> /\ UNCHANGED timedOut
       \/ queue # <<>> /\ timedOut' = TRUE
    /\ Went("exited")

Next ==
    \/ \E e \in Executions : Execute(e)
    \/ BeginAuto
    \/ \E e \in Everyone : PerformStep(e) \/ EndExecution(e)
    \/ \E n \in reports : Report(n)
    \/ WorkerTakes \/ WorkerSends \/ WorkerStops
    \/ Signal \/ WaitExecutions \/ WaitReports \/ StopServer
    \/ DrainTakes \/ DrainSends \/ Exit

Spec == Init /\ [][Next]_vars

\* What the agent does once it is told to end, and its requests, which all have
\* a time limit.
Fair ==
    \/ BeginAuto
    \/ \E e \in Everyone : EndExecution(e)
    \/ \E n \in reports : Report(n)
    \/ WorkerTakes \/ WorkerSends \/ WorkerStops
    \/ WaitExecutions \/ WaitReports \/ StopServer
    \/ DrainTakes \/ DrainSends \/ Exit

-----------------------------------------------------------------------------
(* Properties.                                                             *)

Running == {e \in Everyone : runs[e] = "running"}

\* One execution at a time, but for one that began before that of auto mode.
OneExecution == (\E e, f \in Running : e # f) => overtook

\* When the agent has come to its end, every result was sent, the end of every
\* execution was reported but of those it accepted when it waited for them no
\* more, and no event is missing but those the queue had no room for, those
\* left when the time ran out, and the one the worker held.
EndsWell ==
    main = "exited" =>
        /\ reports = {}
        /\ \A e \in Everyone : runs[e] # "off" => e \in notified \cup late
        /\ \A n \in 1..events : n \in {sent[i] : i \in DOMAIN sent} \cup lost \cup {worker}
                                    \/ timedOut

\* Told to end, it comes to its end.
Over == main \in {"up", "exited"}

\* Events arrive in their order, but for one that the worker still sends while
\* the queue is drained.
EventsInOrder ==
    \A i, j \in DOMAIN sent :
        (i < j /\ sent[i] > sent[j]) => main \in {"stop", "exited"}

=============================================================================
