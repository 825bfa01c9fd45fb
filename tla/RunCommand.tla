----------------------------- MODULE RunCommand -----------------------------
(***************************************************************************)
(* dokkimi run: the triggers of a run (the first, a key, a changed file),  *)
(* the debounce timer, the abort controller and the promise in flight they *)
(* share, and the end of the command, by a key, a signal or on its own.    *)
(* One process with one thread: a step runs from one await to the next.    *)
(* The runs that the triggers create live in the Control Tower.            *)
(***************************************************************************)
EXTENDS Naturals, FiniteSets

CONSTANTS
    Triggers,       \* 1..n, in the order in which they fire
    Modes           \* "ci", "plain" (no terminal), "tty", "watch"

VARIABLES
    mode,
    trigger,        \* triggerRun: where each invocation is
    waits,          \* the invocation whose promise it awaits, 0 = none
    inFlight,       \* the invocation whose promise inFlight is
    abort,          \* whose controller abort is, 0 = null
    aborted,        \* the controllers that have been aborted
    timer, inspecting, pendingTrigger,
    lastResult,     \* [run, passed, by]: 0 = no runId
    exit,           \* where cleanup, or the end of run(), is
    last,           \* the invocation that cleanup awaits, 0 = none yet
    code,           \* the exit code, 2 = still running
    run,            \* Control Tower: the status of the run of each trigger
    missed          \* runs whose creation or stop the command has no answer to

\* What the proofs assume: Triggers is 1..n, or all numbers from 1.
TriggersInOrder ==
    /\ 1 \in Triggers /\ Triggers \subseteq Nat \ {0}
    /\ \A t \in Triggers : 1..t \subseteq Triggers

loop == <<timer, inspecting, pendingTrigger>>
promises == <<waits, inFlight>>
controllers == <<abort, aborted>>
ending == <<exit, last, code>>
tower == <<run, missed>>
commandVars == <<mode, trigger, promises, controllers, loop, lastResult, ending, tower>>

NoResult == [run |-> 0, passed |-> TRUE, by |-> 0]
Running == code = 2
Ended == {"completed", "failed", "cancelled"}
Active == {t \in Triggers : run[t] = "active"}
Keys == mode \in {"tty", "watch"} /\ ~inspecting /\ Running

TypeOK ==
    /\ trigger \in [Triggers -> {"none", "await", "stop", "stopWait", "create", "poll", "done"}]
    /\ waits \in [Triggers -> Triggers \cup {0}]
    /\ inFlight \in Triggers /\ abort \in Triggers \cup {0} /\ aborted \subseteq Triggers
    /\ timer \in BOOLEAN /\ inspecting \in BOOLEAN /\ pendingTrigger \in BOOLEAN
    /\ lastResult.run \in Triggers \cup {0} /\ lastResult.passed \in BOOLEAN
    /\ exit \in {"no", "await", "stop", "exit"} /\ last \in Triggers \cup {0} /\ code \in 0..2
    /\ run \in [Triggers -> {"none", "active"} \cup Ended] /\ missed \subseteq Triggers

Init ==
    /\ mode \in Modes
    /\ trigger = [t \in Triggers |-> IF t = 1 THEN "await" ELSE "none"]
    /\ waits = [t \in Triggers |-> 0] /\ inFlight = 1
    /\ abort = 0 /\ aborted = {}
    /\ timer = FALSE /\ inspecting = FALSE /\ pendingTrigger = FALSE
    /\ lastResult = NoResult /\ exit = "no" /\ last = 0 /\ code = 2
    /\ run = [t \in Triggers |-> "none"] /\ missed = {}

-----------------------------------------------------------------------------
(* The Control Tower.                                                      *)

RunEnds(t) ==
    /\ run[t] = "active"
    /\ \E status \in {"completed", "failed"} : run' = [run EXCEPT ![t] = status]
    /\ UNCHANGED <<mode, trigger, promises, controllers, loop, lastResult, ending, missed>>

\* POST /runs/stop cancels whatever run is active; its failure is ignored.
PostStop ==
    \/ /\ run' = [t \in Triggers |-> IF t \in Active THEN "cancelled" ELSE run[t]]
       /\ UNCHANGED missed
    \/ missed' = missed \cup Active /\ UNCHANGED run

-----------------------------------------------------------------------------
(* triggerRun and scheduleTrigger.                                         *)

\* A mutant of Before: inFlight is assigned before the trigger reads it.
BeforeSelf(t) == t

\* The promise that a trigger awaits, read before inFlight becomes its own.
Before(t) == inFlight

Abort == abort' = 0 /\ aborted' = aborted \cup ({abort} \ {0})

\* The debounce timer calls triggerRun; cleanup does not clear it.
Fire(t) ==
    /\ Running /\ timer /\ trigger[t] = "none" /\ \A u \in 1..(t - 1) : trigger[u] # "none"
    /\ timer' = FALSE
    /\ Abort
    /\ waits' = [waits EXCEPT ![t] = Before(t)] /\ inFlight' = t
    /\ trigger' = [trigger EXCEPT ![t] = "await"]
    /\ UNCHANGED <<mode, inspecting, pendingTrigger, lastResult, ending, tower>>

Step(t, from, to) == Running /\ trigger[t] = from /\ trigger' = [trigger EXCEPT ![t] = to]

Result(t, r, passed) == lastResult' = [run |-> r, passed |-> passed, by |-> t]

\* After the first run, run() goes on in the same turn: without a terminal it
\* stops the run and exits, and with one it leaves if nothing was run.
LeaveAfter(t) ==
    IF t = 1 /\ exit = "no"
       /\ (mode \in {"ci", "plain"} \/ (mode = "tty" /\ lastResult'.run = 0))
    THEN exit' = "await" /\ last' = inFlight /\ UNCHANGED code
    ELSE UNCHANGED ending

Done(t, from) == Step(t, from, "done") /\ LeaveAfter(t)

Begin(t) ==
    /\ waits[t] # 0 => trigger[waits[t]] = "done"
    /\ Step(t, "await", IF lastResult.run = 0 THEN "create" ELSE "stop")
    /\ abort' = t
    /\ UNCHANGED <<mode, promises, aborted, loop, lastResult, ending, tower>>

\* stopAndWaitForPreviousRun: it goes on when the run has ended, when its status
\* cannot be had, or after 30 s; it throws if aborted before it asks.  Aborted
\* while it asks, it finds no controller to hand to executeRun.
StopPrevious(t) ==
    /\ Step(t, "stop", "stopWait") /\ PostStop
    /\ UNCHANGED <<mode, promises, controllers, loop, lastResult, ending>>

WaitForPrevious(t) ==
    /\ \/ t \notin aborted /\ Step(t, "stopWait", "create") /\ UNCHANGED <<lastResult, ending>>
       \/ /\ t \in aborted /\ Done(t, "stopWait")
          /\ UNCHANGED lastResult \/ Result(t, 0, FALSE)
    /\ UNCHANGED <<mode, promises, controllers, loop, tower>>

\* executeRun up to the answer of POST /runs.  Nothing is valid, the services do
\* not start or the run is refused; or there is nothing to run.
NoRun(t) ==
    /\ \E passed \in BOOLEAN : Result(t, 0, passed)
    /\ Done(t, "create")
    /\ UNCHANGED <<mode, promises, controllers, loop, tower>>

\* createRun refuses a second active run.  Without an answer in time, the command
\* goes on as if there were no run.
CreateRun(t) ==
    /\ Active = {} /\ run' = [run EXCEPT ![t] = "active"]
    /\ \/ Step(t, "create", "poll") /\ UNCHANGED <<lastResult, ending, missed>>
       \/ Result(t, 0, FALSE) /\ Done(t, "create") /\ missed' = missed \cup {t}
    /\ UNCHANGED <<mode, promises, controllers, loop>>

\* A mutant of Verdict: whatever has ended has passed, unless it failed.
VerdictNotFailed(t) == run[t] # "failed"

Verdict(t) == run[t] = "completed"

\* The definitions are submitted and the status polled, unless and until the run
\* is aborted: pollForCompletion and pollForCompletionCI, which also times out.
Finish(t) ==
    /\ \/ (t \in aborted \/ mode = "ci") /\ Result(t, t, FALSE)
       \/ t \notin aborted /\ run[t] \in Ended /\ Result(t, t, Verdict(t))
    /\ Done(t, "poll")
    /\ UNCHANGED <<mode, promises, controllers, loop, tower>>

TriggerStep(t) ==
    \/ Fire(t) \/ Begin(t) \/ StopPrevious(t) \/ WaitForPrevious(t)
    \/ NoRun(t) \/ CreateRun(t) \/ Finish(t)

-----------------------------------------------------------------------------
(* Keys, the watcher and the inspector.                                    *)

Schedule ==
    IF inspecting THEN pendingTrigger' = TRUE /\ UNCHANGED timer
    ELSE timer' = TRUE /\ UNCHANGED pendingTrigger

Rerun ==
    /\ Keys /\ Schedule
    /\ UNCHANGED <<mode, trigger, promises, controllers, inspecting, lastResult, ending, tower>>

\* cleanup closes the watcher.
FileChanges ==
    /\ Running /\ mode = "watch" /\ exit = "no" /\ Schedule
    /\ UNCHANGED <<mode, trigger, promises, controllers, inspecting, lastResult, ending, tower>>

Inspect ==
    /\ Keys /\ lastResult.run # 0 /\ inspecting' = TRUE
    /\ UNCHANGED <<mode, trigger, promises, controllers, timer, pendingTrigger, lastResult, ending, tower>>

EndInspect ==
    /\ Running /\ inspecting /\ inspecting' = FALSE
    /\ timer' = (timer \/ pendingTrigger) /\ pendingTrigger' = FALSE
    /\ UNCHANGED <<mode, trigger, promises, controllers, lastResult, ending, tower>>

-----------------------------------------------------------------------------
(* The end.                                                                *)

\* cleanup, by a key or a signal.
Cleanup ==
    /\ Running /\ exit = "no" /\ exit' = "await" /\ last' = inFlight
    /\ Abort
    /\ UNCHANGED <<mode, trigger, promises, loop, lastResult, code, tower>>

AwaitLast ==
    /\ Running /\ exit = "await" /\ trigger[last] = "done"
    /\ exit' = IF lastResult.run = 0 THEN "exit" ELSE "stop"
    /\ UNCHANGED <<mode, trigger, promises, controllers, loop, lastResult, last, code, tower>>

\* A mutant of StopLast: the run is left to the Control Tower.
StopLastNot ==
    /\ Running /\ exit = "stop" /\ exit' = "exit"
    /\ UNCHANGED <<mode, trigger, promises, controllers, loop, lastResult, last, code, tower>>

StopLast ==
    /\ Running /\ exit = "stop" /\ exit' = "exit" /\ PostStop
    /\ UNCHANGED <<mode, trigger, promises, controllers, loop, lastResult, last, code>>

Exit ==
    /\ Running /\ exit = "exit"
    /\ code' = IF lastResult.passed THEN 0 ELSE 1
    /\ UNCHANGED <<mode, trigger, promises, controllers, loop, lastResult, exit, last, tower>>

Ending == AwaitLast \/ StopLast \/ Exit

Next ==
    \/ \E t \in Triggers : RunEnds(t) \/ TriggerStep(t)
    \/ Rerun \/ FileChanges \/ Inspect \/ EndInspect \/ Cleanup \/ Ending

\* The event loop serves what is ready, and a run of the Control Tower ends; all
\* of these steps together are finitely many.
Fair == (\E t \in Triggers : TriggerStep(t) \/ RunEnds(t)) \/ Ending

Spec == Init /\ [][Next]_commandVars /\ WF_commandVars(Fair)

-----------------------------------------------------------------------------
(* Properties.                                                             *)

\* The exit code is 0 only if the last run that the command created was
\* COMPLETED, or the last trigger found nothing to run; and no trigger that came
\* before the end created a run of which the code does not speak.
ExitTells ==
    code = 0 =>
        /\ lastResult.run # 0 => run[lastResult.run] = "completed"
        /\ \A t \in Triggers : lastResult.by < t /\ t <= last => run[t] = "none"

\* When the command has ended (run.ts:79, "Stop and exit"), a run goes on only if
\* the Control Tower did not answer to its creation or its stop, or if the timer
\* fired after the command was told to end.
ExitStopsRun == code # 2 => \A t \in Active : t \in missed \/ t > last

\* Once it has been told to, the command ends.
Over == exit = "no" \/ code # 2
QuitEnds == []<>Over

=============================================================================
