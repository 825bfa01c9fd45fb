--------------------------- MODULE CommandProofs ---------------------------
(***************************************************************************)
(* Proofs about what the CLI does on the user's machine: dokkimi run, for  *)
(* any number of triggers (RunCommand); the commands that start and stop   *)
(* the Control Tower, for any number of them (Daemon); and the baselines   *)
(* of visual matching, for any definitions (Baselines).                    *)
(***************************************************************************)
EXTENDS RunCommand, Sequences, TLAPS

CONSTANTS Commands, Calls, Projects, Images, MaxRuns, MaxAccidents

VARIABLES at, calls, mem, lock, daemon, process, accident,
    project, dir, look, runNumber, cmd, staged, mounted, pos, failures, result, rows, files,
    review, known, lastTaken, seen, accidents

Towers == INSTANCE Daemon WITH tower <- process
Visual == INSTANCE Baselines WITH run <- runNumber, last <- lastTaken

Places == {"none", "await", "stop", "stopWait", "create", "poll", "done"}

USE DEF loop, promises, controllers, ending, tower

-----------------------------------------------------------------------------
(* The inductive invariant.                                                *)

ResultType ==
    lastResult \in [run : Triggers \cup {0}, passed : BOOLEAN, by : Triggers \cup {0}]

\* inFlight is the last trigger that fired, and each awaits the one before it.
FiredInOrder ==
    \A t \in Triggers :
        /\ trigger[t] # "none" <=> t <= inFlight
        /\ t <= inFlight => waits[t] = t - 1

\* So no trigger begins before all that fired before it are done.
OneAtATime ==
    \A t \in Triggers : trigger[t] \notin {"none", "await"} =>
        \A u \in Triggers : u < t => trigger[u] = "done"

EndKnown ==
    /\ exit = "no" <=> last = 0
    /\ last <= inFlight
    /\ exit \in {"stop", "exit"} => trigger[last] = "done"
    /\ code # 2 => exit = "exit"

\* The result is that of a trigger that is done; a run that passed was COMPLETED,
\* and the exit code says what the result says.
ResultKnown ==
    /\ lastResult.by # 0 => trigger[lastResult.by] = "done"
    /\ lastResult.run # 0 =>
        /\ lastResult.run = lastResult.by
        /\ lastResult.passed => run[lastResult.run] = "completed"
    /\ code = 0 => lastResult.passed

\* A run that exists is followed by its trigger, or the result is its or a later one.
RunsKnown ==
    \A t \in Triggers : run[t] # "none" =>
        trigger[t] = "poll" \/ (trigger[t] = "done" /\ t <= lastResult.by)

\* A run that goes on is followed, or it is the last result and no later trigger
\* has got further than to stop it; or the command has no answer about it.
ActiveKnown ==
    \A t \in Triggers : run[t] = "active" /\ t \notin missed =>
        \/ trigger[t] = "poll"
        \/ /\ trigger[t] = "done" /\ lastResult.run = t
           /\ \A u \in Triggers : u > t => trigger[u] \in {"none", "await", "stop"}

StoppedAtExit ==
    exit = "exit" => \A t \in Triggers : run[t] = "active" => t \in missed \/ t > last

CommandInv ==
    /\ TypeOK /\ ResultType /\ FiredInOrder /\ OneAtATime /\ EndKnown /\ ResultKnown
    /\ RunsKnown /\ ActiveKnown /\ StoppedAtExit

-----------------------------------------------------------------------------
(* What stopping the runs does: no run goes on but those whose stop is      *)
(* without an answer.                                                      *)

\* What a stop leaves of a run has its type.
LEMMA StopType ==
    ASSUME TypeOK, PostStop
    PROVE  /\ run' \in [Triggers -> {"none", "active"} \cup Ended] /\ missed' \subseteq Triggers
           /\ \A t \in Triggers : run'[t] # run[t] => run[t] = "active" /\ run'[t] = "cancelled"
           /\ \A t \in Triggers : run'[t] = "active" => run[t] = "active" /\ t \in missed'
           /\ missed \subseteq missed'
BY DEF TypeOK, PostStop, Active, Ended

-----------------------------------------------------------------------------
(* Each action keeps the invariant.                                        *)

\* scheduleTrigger: a trigger fires behind those before it,
LEMMA FireLemma ==
    ASSUME CommandInv, TriggersInOrder, NEW t \in Triggers, Fire(t)
    PROVE  CommandInv'
<1>1. TypeOK'
    BY DEF CommandInv, TypeOK, Fire, Before, Abort
<1>2. ResultType'
    BY DEF CommandInv, ResultType, Fire
<1>3. FiredInOrder'
    BY DEF CommandInv, TypeOK, TriggersInOrder, FiredInOrder, Fire, Before
<1>4. OneAtATime'
    BY DEF CommandInv, OneAtATime, Fire
<1>5. EndKnown'
    BY DEF CommandInv, TypeOK, TriggersInOrder, FiredInOrder, EndKnown, Fire
<1>6. ResultKnown'
    BY DEF CommandInv, ResultKnown, Fire
<1>7. RunsKnown'
    BY DEF CommandInv, RunsKnown, Fire
<1>8. ActiveKnown'
    BY DEF CommandInv, ActiveKnown, Fire
<1>9. StoppedAtExit'
    BY DEF CommandInv, StoppedAtExit, Fire
<1> QED BY <1>1, <1>2, <1>3, <1>4, <1>5, <1>6, <1>7, <1>8, <1>9 DEF CommandInv

\* and begins when the one before it is done.
LEMMA BeginLemma ==
    ASSUME CommandInv, TriggersInOrder, NEW t \in Triggers, Begin(t)
    PROVE  CommandInv'
<1>1. TypeOK'
    BY DEF CommandInv, TypeOK, Begin, Step
<1>2. ResultType'
    BY DEF CommandInv, ResultType, Begin
<1>3. FiredInOrder'
    BY DEF CommandInv, FiredInOrder, Begin, Step
<1>4. OneAtATime'
    BY DEF CommandInv, TriggersInOrder, FiredInOrder, OneAtATime, Begin, Step
<1>5. EndKnown'
    BY DEF CommandInv, EndKnown, Begin, Step
<1>6. ResultKnown'
    BY DEF CommandInv, ResultKnown, Begin, Step
<1>7. RunsKnown'
    BY DEF CommandInv, RunsKnown, Begin, Step
<1>8. ActiveKnown'
    BY DEF CommandInv, TriggersInOrder, ActiveKnown, Begin, Step
<1>9. StoppedAtExit'
    BY DEF CommandInv, StoppedAtExit, Begin
<1> QED BY <1>1, <1>2, <1>3, <1>4, <1>5, <1>6, <1>7, <1>8, <1>9 DEF CommandInv

\* stopAndWaitForPreviousRun stops the run of the last result,
LEMMA StopPreviousLemma ==
    ASSUME CommandInv, TriggersInOrder, NEW t \in Triggers, StopPrevious(t)
    PROVE  CommandInv'
<1>1. TypeOK'
    BY StopType DEF CommandInv, TypeOK, StopPrevious, Step
<1>2. ResultType'
    BY DEF CommandInv, ResultType, StopPrevious
<1>3. FiredInOrder'
    BY DEF CommandInv, FiredInOrder, StopPrevious, Step
<1>4. OneAtATime'
    BY DEF CommandInv, OneAtATime, StopPrevious, Step
<1>5. EndKnown'
    BY DEF CommandInv, EndKnown, StopPrevious, Step
<1>6. ResultKnown'
  <2>1. lastResult.by # 0 => lastResult.by # t
      BY DEF CommandInv, ResultKnown, StopPrevious, Step
  <2>2. lastResult.by # 0 => trigger'[lastResult.by] = "done"
      BY <2>1 DEF CommandInv, ResultKnown, StopPrevious, Step
  <2>3. lastResult.run # 0 /\ lastResult.passed => run'[lastResult.run] = "completed"
      BY StopType DEF CommandInv, ResultKnown, StopPrevious, ResultType
  <2> QED BY <2>2, <2>3 DEF CommandInv, ResultKnown, StopPrevious
<1>7. RunsKnown'
    BY StopType DEF CommandInv, RunsKnown, StopPrevious, Step
<1>8. ActiveKnown'
    BY StopType DEF CommandInv, ActiveKnown, StopPrevious
<1>9. StoppedAtExit'
    BY StopType DEF CommandInv, StoppedAtExit, StopPrevious
<1> QED BY <1>1, <1>2, <1>3, <1>4, <1>5, <1>6, <1>7, <1>8, <1>9 DEF CommandInv

\* and follows it until it is over.
LEMMA WaitLemma ==
    ASSUME CommandInv, TriggersInOrder, NEW t \in Triggers, WaitForPrevious(t)
    PROVE  CommandInv'
<1>1. CASE Step(t, "stopWait", "create") /\ UNCHANGED <<lastResult, ending>>
  <2>1. TypeOK'
      BY <1>1 DEF CommandInv, TypeOK, WaitForPrevious, Step
  <2>2. ResultType'
      BY <1>1 DEF CommandInv, ResultType
  <2>3. FiredInOrder'
      BY <1>1 DEF CommandInv, FiredInOrder, WaitForPrevious, Step
  <2>4. OneAtATime'
      BY <1>1 DEF CommandInv, OneAtATime, Step
  <2>5. EndKnown'
      BY <1>1 DEF CommandInv, EndKnown, WaitForPrevious, Step
  <2>6. ResultKnown'
      BY <1>1 DEF CommandInv, ResultKnown, WaitForPrevious, Step
  <2>7. RunsKnown'
      BY <1>1 DEF CommandInv, RunsKnown, WaitForPrevious, Step
  <2>8. ActiveKnown'
      BY <1>1 DEF CommandInv, ActiveKnown, WaitForPrevious, Step
  <2>9. StoppedAtExit'
      BY <1>1 DEF CommandInv, StoppedAtExit, WaitForPrevious
  <2> QED BY <2>1, <2>2, <2>3, <2>4, <2>5, <2>6, <2>7, <2>8, <2>9 DEF CommandInv
<1>2. CASE t \in aborted /\ Done(t, "stopWait") /\ UNCHANGED lastResult
  <2>1. TypeOK'
      BY <1>2 DEF CommandInv, TypeOK, WaitForPrevious, Step, Done, LeaveAfter
  <2>2. ResultType'
      BY <1>2 DEF CommandInv, ResultType
  <2>3. FiredInOrder'
      BY <1>2 DEF CommandInv, FiredInOrder, WaitForPrevious, Step, Done
  <2>4. OneAtATime'
      BY <1>2 DEF CommandInv, OneAtATime, Step, Done
  <2>5. EndKnown'
      BY <1>2 DEF CommandInv, TypeOK, TriggersInOrder, EndKnown, WaitForPrevious, Step, Done,
         LeaveAfter
  <2>6. ResultKnown'
      BY <1>2 DEF CommandInv, ResultKnown, WaitForPrevious, Step, Done, LeaveAfter
  <2>7. RunsKnown'
      BY <1>2 DEF CommandInv, RunsKnown, WaitForPrevious, Step, Done
  <2>8. ActiveKnown'
      BY <1>2 DEF CommandInv, ActiveKnown, WaitForPrevious, Step, Done
  <2>9. StoppedAtExit'
      BY <1>2 DEF CommandInv, StoppedAtExit, WaitForPrevious, Done, LeaveAfter
  <2> QED BY <2>1, <2>2, <2>3, <2>4, <2>5, <2>6, <2>7, <2>8, <2>9 DEF CommandInv
<1>3. CASE t \in aborted /\ Done(t, "stopWait") /\ Result(t, 0, FALSE)
  <2>1. TypeOK'
      BY <1>3 DEF CommandInv, TypeOK, WaitForPrevious, Step, Done, Result, LeaveAfter
  <2>2. ResultType'
      BY <1>3 DEF ResultType, Result
  <2>3. FiredInOrder'
      BY <1>3 DEF CommandInv, FiredInOrder, WaitForPrevious, Step, Done
  <2>4. OneAtATime'
      BY <1>3 DEF CommandInv, OneAtATime, Step, Done
  <2>5. EndKnown'
      BY <1>3 DEF CommandInv, TypeOK, TriggersInOrder, EndKnown, WaitForPrevious, Step, Done,
         LeaveAfter
  <2>6. ResultKnown'
      BY <1>3 DEF CommandInv, TypeOK, ResultKnown, Step, Done, Result, LeaveAfter, Running
  <2>7. RunsKnown'
      BY <1>3 DEF CommandInv, TriggersInOrder, OneAtATime, RunsKnown, WaitForPrevious, Step,
         Done, Result
  <2>8. ActiveKnown'
      BY <1>3 DEF CommandInv, TriggersInOrder, OneAtATime, ActiveKnown, WaitForPrevious, Step,
         Done
  <2>9. StoppedAtExit'
      BY <1>3 DEF CommandInv, StoppedAtExit, WaitForPrevious, Done, LeaveAfter
  <2> QED BY <2>1, <2>2, <2>3, <2>4, <2>5, <2>6, <2>7, <2>8, <2>9 DEF CommandInv
<1> QED BY <1>1, <1>2, <1>3 DEF WaitForPrevious

\* executeRun finds nothing to run,
LEMMA NoRunLemma ==
    ASSUME CommandInv, TriggersInOrder, NEW t \in Triggers, NoRun(t)
    PROVE  CommandInv'
<1>1. TypeOK'
    BY DEF CommandInv, TypeOK, NoRun, Step, Done, Result, LeaveAfter
<1>2. ResultType'
    BY DEF ResultType, NoRun, Result
<1>3. FiredInOrder'
    BY DEF CommandInv, FiredInOrder, NoRun, Step, Done
<1>4. OneAtATime'
    BY DEF CommandInv, OneAtATime, NoRun, Step, Done
<1>5. EndKnown'
    BY DEF CommandInv, TypeOK, TriggersInOrder, EndKnown, NoRun, Step, Done, LeaveAfter
<1>6. ResultKnown'
    BY DEF CommandInv, TypeOK, ResultKnown, NoRun, Step, Done, Result, LeaveAfter, Running
<1>7. RunsKnown'
    BY DEF CommandInv, TriggersInOrder, OneAtATime, RunsKnown, NoRun, Step, Done, Result
<1>8. ActiveKnown'
    BY DEF CommandInv, TriggersInOrder, OneAtATime, ActiveKnown, NoRun, Step, Done
<1>9. StoppedAtExit'
    BY DEF CommandInv, StoppedAtExit, NoRun, Done, LeaveAfter
<1> QED BY <1>1, <1>2, <1>3, <1>4, <1>5, <1>6, <1>7, <1>8, <1>9 DEF CommandInv

\* or creates a run,
LEMMA CreateLemma ==
    ASSUME CommandInv, TriggersInOrder, NEW t \in Triggers, CreateRun(t)
    PROVE  CommandInv'
<1>1. CASE Step(t, "create", "poll") /\ UNCHANGED <<lastResult, ending, missed>>
  <2>1. TypeOK'
      BY <1>1 DEF CommandInv, TypeOK, CreateRun, Step
  <2>2. ResultType'
      BY <1>1 DEF CommandInv, ResultType
  <2>3. FiredInOrder'
      BY <1>1 DEF CommandInv, FiredInOrder, CreateRun, Step
  <2>4. OneAtATime'
      BY <1>1 DEF CommandInv, OneAtATime, Step
  <2>5. EndKnown'
      BY <1>1 DEF CommandInv, EndKnown, CreateRun, Step
  <2>6. ResultKnown'
      BY <1>1 DEF CommandInv, ResultKnown, CreateRun, Step
  <2>7. RunsKnown'
      BY <1>1 DEF CommandInv, TypeOK, RunsKnown, CreateRun, Step
  <2>8. ActiveKnown'
      BY <1>1 DEF CommandInv, TypeOK, ActiveKnown, CreateRun, Step
  <2>9. StoppedAtExit'
      BY <1>1 DEF CommandInv, TypeOK, TriggersInOrder, OneAtATime, EndKnown, StoppedAtExit,
         CreateRun, Step
  <2> QED BY <2>1, <2>2, <2>3, <2>4, <2>5, <2>6, <2>7, <2>8, <2>9 DEF CommandInv
<1>2. CASE Result(t, 0, FALSE) /\ Done(t, "create") /\ missed' = missed \cup {t}
  <2>1. TypeOK'
      BY <1>2 DEF CommandInv, TypeOK, CreateRun, Step, Done, Result, LeaveAfter
  <2>2. ResultType'
      BY <1>2 DEF ResultType, Result
  <2>3. FiredInOrder'
      BY <1>2 DEF CommandInv, FiredInOrder, CreateRun, Step, Done
  <2>4. OneAtATime'
      BY <1>2 DEF CommandInv, OneAtATime, Step, Done
  <2>5. EndKnown'
      BY <1>2 DEF CommandInv, TypeOK, TriggersInOrder, EndKnown, CreateRun, Step, Done,
         LeaveAfter
  <2>6. ResultKnown'
      BY <1>2 DEF CommandInv, TypeOK, ResultKnown, Step, Done, Result, LeaveAfter, Running
  <2>7. RunsKnown'
      BY <1>2 DEF CommandInv, TypeOK, TriggersInOrder, OneAtATime, RunsKnown, CreateRun, Step,
         Done, Result
  <2>8. ActiveKnown'
      BY <1>2 DEF ActiveKnown, CreateRun, Active
  <2>9. StoppedAtExit'
      BY <1>2 DEF StoppedAtExit, CreateRun, Active
  <2> QED BY <2>1, <2>2, <2>3, <2>4, <2>5, <2>6, <2>7, <2>8, <2>9 DEF CommandInv
<1> QED BY <1>1, <1>2 DEF CreateRun

\* which pollForCompletion follows to its end.
LEMMA FinishLemma ==
    ASSUME CommandInv, TriggersInOrder, NEW t \in Triggers, Finish(t)
    PROVE  CommandInv'
<1>1. CASE Result(t, t, FALSE)
  <2>1. TypeOK'
      BY <1>1 DEF CommandInv, TypeOK, Finish, Step, Done, Result, LeaveAfter
  <2>2. ResultType'
      BY <1>1 DEF ResultType, Result
  <2>3. FiredInOrder'
      BY <1>1 DEF CommandInv, ResultType, FiredInOrder, Finish, Step, Done
  <2>4. OneAtATime'
      BY <1>1 DEF CommandInv, OneAtATime, Finish, Step, Done
  <2>5. EndKnown'
      BY <1>1 DEF CommandInv, TypeOK, TriggersInOrder, EndKnown, Finish, Step, Done, LeaveAfter
  <2>6. ResultKnown'
      BY <1>1 DEF CommandInv, TypeOK, ResultKnown, Finish, Step, Done, Result, LeaveAfter,
         Running
  <2>7. RunsKnown'
      BY <1>1 DEF CommandInv, ResultType, TriggersInOrder, OneAtATime, ResultKnown, RunsKnown,
         Finish, Step, Done, Result, LeaveAfter
  <2>8. ActiveKnown'
      BY <1>1, SMTT(60) DEF CommandInv, TypeOK, ResultType, TriggersInOrder, FiredInOrder,
         OneAtATime, ActiveKnown, Finish, Step, Done, Result, Running
  <2>9. StoppedAtExit'
      BY <1>1 DEF CommandInv, StoppedAtExit, Finish, Done, LeaveAfter
  <2> QED BY <2>1, <2>2, <2>3, <2>4, <2>5, <2>6, <2>7, <2>8, <2>9 DEF CommandInv
<1>2. CASE run[t] = "completed" /\ Result(t, t, TRUE)
  <2>1. TypeOK'
      BY <1>2 DEF CommandInv, TypeOK, Finish, Step, Done, Result, LeaveAfter
  <2>2. ResultType'
      BY <1>2 DEF ResultType, Result
  <2>3. FiredInOrder'
      BY <1>2 DEF CommandInv, ResultType, FiredInOrder, Finish, Step, Done
  <2>4. OneAtATime'
      BY <1>2 DEF CommandInv, OneAtATime, Finish, Step, Done
  <2>5. EndKnown'
      BY <1>2 DEF CommandInv, TypeOK, TriggersInOrder, EndKnown, Finish, Step, Done, LeaveAfter
  <2>6. ResultKnown'
      BY <1>2 DEF CommandInv, TypeOK, ResultKnown, Finish, Step, Done, Result
  <2>7. RunsKnown'
      BY <1>2 DEF CommandInv, ResultType, TriggersInOrder, OneAtATime, ResultKnown, RunsKnown,
         Finish, Step, Done, Result
  <2>8. ActiveKnown'
      BY <1>2 DEF CommandInv, TriggersInOrder, FiredInOrder, OneAtATime, ActiveKnown, Finish,
         Step, Done
  <2>9. StoppedAtExit'
      BY <1>2 DEF CommandInv, StoppedAtExit, Finish, Done, LeaveAfter
  <2> QED BY <2>1, <2>2, <2>3, <2>4, <2>5, <2>6, <2>7, <2>8, <2>9 DEF CommandInv
<1> QED BY <1>1, <1>2 DEF Finish, Verdict

\* The Control Tower ends a run.
LEMMA RunEndsLemma ==
    ASSUME CommandInv, TriggersInOrder, NEW t \in Triggers, RunEnds(t)
    PROVE  CommandInv'
<1>1. TypeOK'
    BY DEF CommandInv, TypeOK, RunEnds, Ended
<1>2. ResultType'
    BY DEF CommandInv, ResultType, RunEnds
<1>3. FiredInOrder'
    BY DEF CommandInv, FiredInOrder, RunEnds
<1>4. OneAtATime'
    BY DEF CommandInv, OneAtATime, RunEnds
<1>5. EndKnown'
    BY DEF CommandInv, EndKnown, RunEnds
<1>6. ResultKnown'
    BY DEF CommandInv, ResultKnown, RunEnds
<1>7. RunsKnown'
    BY DEF CommandInv, RunsKnown, RunEnds
<1>8. ActiveKnown'
    BY DEF CommandInv, ActiveKnown, RunEnds
<1>9. StoppedAtExit'
    BY DEF CommandInv, StoppedAtExit, RunEnds
<1> QED BY <1>1, <1>2, <1>3, <1>4, <1>5, <1>6, <1>7, <1>8, <1>9 DEF CommandInv

\* A key or a file that changes.
LEMMA InputLemma ==
    ASSUME CommandInv, TriggersInOrder, 
           timer' \in BOOLEAN, inspecting' \in BOOLEAN, pendingTrigger' \in BOOLEAN,
           UNCHANGED <<mode, trigger, promises, controllers, lastResult, ending, tower>>
    PROVE  CommandInv'
<1>1. TypeOK'
    BY DEF CommandInv, TypeOK
<1>2. ResultType'
    BY DEF CommandInv, ResultType
<1>3. FiredInOrder'
    BY DEF CommandInv, FiredInOrder
<1>4. OneAtATime'
    BY DEF CommandInv, OneAtATime
<1>5. EndKnown'
    BY DEF CommandInv, EndKnown
<1>6. ResultKnown'
    BY DEF CommandInv, ResultKnown
<1>7. RunsKnown'
    BY DEF CommandInv, RunsKnown
<1>8. ActiveKnown'
    BY DEF CommandInv, ActiveKnown
<1>9. StoppedAtExit'
    BY DEF CommandInv, StoppedAtExit
<1> QED BY <1>1, <1>2, <1>3, <1>4, <1>5, <1>6, <1>7, <1>8, <1>9 DEF CommandInv

\* cleanup aborts what is under way,
LEMMA CleanupLemma ==
    ASSUME CommandInv, TriggersInOrder, Cleanup
    PROVE  CommandInv'
<1>1. TypeOK'
    BY DEF CommandInv, TypeOK, Cleanup, Abort
<1>2. ResultType'
    BY DEF CommandInv, ResultType, Cleanup
<1>3. FiredInOrder'
    BY DEF CommandInv, FiredInOrder, Cleanup
<1>4. OneAtATime'
    BY DEF CommandInv, OneAtATime, Cleanup
<1>5. EndKnown'
    BY DEF CommandInv, TypeOK, TriggersInOrder, EndKnown, Cleanup
<1>6. ResultKnown'
    BY DEF CommandInv, ResultKnown, Cleanup
<1>7. RunsKnown'
    BY DEF CommandInv, RunsKnown, Cleanup
<1>8. ActiveKnown'
    BY DEF CommandInv, ActiveKnown, Cleanup
<1>9. StoppedAtExit'
    BY DEF StoppedAtExit, Cleanup
<1> QED BY <1>1, <1>2, <1>3, <1>4, <1>5, <1>6, <1>7, <1>8, <1>9 DEF CommandInv

\* awaits the last trigger,
LEMMA AwaitLastLemma ==
    ASSUME CommandInv, TriggersInOrder, AwaitLast
    PROVE  CommandInv'
<1>1. TypeOK'
    BY DEF CommandInv, TypeOK, AwaitLast
<1>2. ResultType'
    BY DEF CommandInv, ResultType, AwaitLast
<1>3. FiredInOrder'
    BY DEF CommandInv, FiredInOrder, AwaitLast
<1>4. OneAtATime'
    BY DEF CommandInv, OneAtATime, AwaitLast
<1>5. EndKnown'
    BY DEF CommandInv, EndKnown, AwaitLast
<1>6. ResultKnown'
    BY DEF CommandInv, ResultKnown, AwaitLast
<1>7. RunsKnown'
    BY DEF CommandInv, RunsKnown, AwaitLast
<1>8. ActiveKnown'
    BY DEF CommandInv, ActiveKnown, AwaitLast
<1>9. StoppedAtExit'
    BY DEF CommandInv, TypeOK, TriggersInOrder, OneAtATime, ActiveKnown, StoppedAtExit,
       AwaitLast
<1> QED BY <1>1, <1>2, <1>3, <1>4, <1>5, <1>6, <1>7, <1>8, <1>9 DEF CommandInv

\* stops its run,
LEMMA StopLastLemma ==
    ASSUME CommandInv, TriggersInOrder, StopLast
    PROVE  CommandInv'
<1>1. TypeOK'
    BY StopType DEF CommandInv, TypeOK, StopLast
<1>2. ResultType'
    BY DEF CommandInv, ResultType, StopLast
<1>3. FiredInOrder'
    BY DEF CommandInv, FiredInOrder, StopLast
<1>4. OneAtATime'
    BY DEF CommandInv, OneAtATime, StopLast
<1>5. EndKnown'
    BY DEF CommandInv, EndKnown, StopLast
<1>6. ResultKnown'
    BY StopType DEF CommandInv, ResultType, ResultKnown, StopLast
<1>7. RunsKnown'
    BY StopType DEF CommandInv, RunsKnown, StopLast
<1>8. ActiveKnown'
    BY StopType DEF CommandInv, ActiveKnown, StopLast
<1>9. StoppedAtExit'
    BY StopType DEF CommandInv, StoppedAtExit, StopLast
<1> QED BY <1>1, <1>2, <1>3, <1>4, <1>5, <1>6, <1>7, <1>8, <1>9 DEF CommandInv

\* and the command exits.
LEMMA ExitLemma ==
    ASSUME CommandInv, TriggersInOrder, Exit
    PROVE  CommandInv'
<1>1. TypeOK'
    BY DEF CommandInv, TypeOK, Exit
<1>2. ResultType'
    BY DEF CommandInv, ResultType, Exit
<1>3. FiredInOrder'
    BY DEF CommandInv, FiredInOrder, Exit
<1>4. OneAtATime'
    BY DEF CommandInv, OneAtATime, Exit
<1>5. EndKnown'
    BY DEF CommandInv, EndKnown, Exit
<1>6. ResultKnown'
    BY DEF CommandInv, ResultKnown, Exit
<1>7. RunsKnown'
    BY DEF CommandInv, RunsKnown, Exit
<1>8. ActiveKnown'
    BY DEF CommandInv, ActiveKnown, Exit
<1>9. StoppedAtExit'
    BY DEF CommandInv, StoppedAtExit, Exit
<1> QED BY <1>1, <1>2, <1>3, <1>4, <1>5, <1>6, <1>7, <1>8, <1>9 DEF CommandInv

\* The command begins in its invariant,
LEMMA CommandInit ==
    ASSUME Init, TriggersInOrder
    PROVE  CommandInv
<1>0. lastResult \in [run : Triggers \cup {0}, passed : BOOLEAN, by : Triggers \cup {0}]
    BY DEF Init, NoResult
<1>1. TypeOK /\ ResultType
  <2>1. timer \in BOOLEAN /\ inspecting \in BOOLEAN /\ pendingTrigger \in BOOLEAN
      BY DEF Init
  <2>2. /\ trigger \in [Triggers -> {"none", "await", "stop", "stopWait", "create", "poll", "done"}]
        /\ run \in [Triggers -> {"none", "active"} \cup Ended]
        /\ waits \in [Triggers -> Triggers \cup {0}]
      BY DEF Init
  <2>3. inFlight \in Triggers /\ abort \in Triggers \cup {0} /\ aborted \subseteq Triggers /\
          missed \subseteq Triggers
      BY DEF Init, TriggersInOrder
  <2>4. exit \in {"no", "await", "stop", "exit"} /\ last \in Triggers \cup {0} /\ code \in 0..2
      BY DEF Init
  <2> QED BY <1>0, <2>1, <2>2, <2>3, <2>4 DEF TypeOK, ResultType
<1>2. FiredInOrder
    BY DEF Init, TriggersInOrder, FiredInOrder
<1>3. OneAtATime
    BY DEF Init, OneAtATime
<1>4. EndKnown /\ ResultKnown /\ RunsKnown /\ ActiveKnown /\ StoppedAtExit
    BY DEF Init, EndKnown, ResultKnown, RunsKnown, ActiveKnown, StoppedAtExit, NoResult
<1> QED BY <1>1, <1>2, <1>3, <1>4 DEF CommandInv

\* keeps it in each of its steps,
LEMMA CommandStep ==
    ASSUME CommandInv, TriggersInOrder, [Next]_commandVars
    PROVE  CommandInv'
<1>1. ASSUME NEW t \in Triggers, RunEnds(t) \/ TriggerStep(t)
      PROVE  CommandInv'
    BY <1>1, RunEndsLemma, FireLemma, BeginLemma, StopPreviousLemma, WaitLemma, NoRunLemma,
       CreateLemma, FinishLemma DEF TriggerStep
<1>2. CASE Rerun \/ FileChanges \/ Inspect \/ EndInspect
  <2>1. timer' \in BOOLEAN /\ inspecting' \in BOOLEAN /\ pendingTrigger' \in BOOLEAN
      BY <1>2 DEF Rerun, FileChanges, Inspect, EndInspect, Schedule, CommandInv, TypeOK
  <2>2. UNCHANGED <<mode, trigger, promises, controllers, lastResult, ending, tower>>
      BY <1>2 DEF Rerun, FileChanges, Inspect, EndInspect
  <2> QED BY <2>1, <2>2, InputLemma
<1>3. CASE Cleanup \/ Ending
    BY <1>3, CleanupLemma, AwaitLastLemma, StopLastLemma, ExitLemma DEF Ending
<1>4. CASE UNCHANGED commandVars
  <2>1. timer' \in BOOLEAN /\ inspecting' \in BOOLEAN /\ pendingTrigger' \in BOOLEAN
      BY <1>4 DEF commandVars, CommandInv, TypeOK
  <2> QED BY <1>4, <2>1, InputLemma DEF commandVars
<1> QED BY <1>1, <1>2, <1>3, <1>4 DEF Next

\* and it implies what is to be shown.
LEMMA CommandInvImplies ==
    ASSUME CommandInv, TriggersInOrder
    PROVE  ExitTells /\ ExitStopsRun
<1>1. ASSUME code = 0, NEW t \in Triggers, lastResult.by < t, t <= last
      PROVE  run[t] = "none"
  <2>1. trigger[last] = "done" /\ last \in Triggers
      BY <1>1 DEF CommandInv, EndKnown, TypeOK
  <2>2. trigger[t] = "done"
    <3>1. CASE t = last
        BY <2>1, <3>1
    <3>2. CASE t # last
      <4>1. t < last
          BY <1>1, <2>1, <3>2 DEF TriggersInOrder
      <4> QED BY <2>1, <4>1 DEF CommandInv, OneAtATime
    <3> QED BY <3>1, <3>2
  <2>3. lastResult.by \in Triggers \cup {0}
      BY DEF CommandInv, ResultType
  <2>4. \A x \in Triggers : x \in Nat
      BY DEF TriggersInOrder
  <2>5. lastResult.by \in Nat /\ t \in Nat
      BY <2>3, <2>4
  <2> QED BY <1>1, <2>2, <2>5 DEF CommandInv, RunsKnown
<1>2. ExitTells
    BY <1>1 DEF CommandInv, ResultKnown, ExitTells
<1>3. ExitStopsRun
    BY DEF CommandInv, EndKnown, StoppedAtExit, ExitStopsRun, Active
<1> QED BY <1>2, <1>3

-----------------------------------------------------------------------------
(* The theorems.                                                           *)

\* triggerRun awaits the promise of the trigger before it, so that the triggers
\* of a command work one after the other, in the order in which they fired.
THEOREM CommandInvCorrect ==
    ASSUME TriggersInOrder
    PROVE  Spec => []CommandInv
<1>1. Init => CommandInv
    BY CommandInit
<1>2. CommandInv /\ [Next]_commandVars => CommandInv'
    BY CommandStep
<1> QED BY <1>1, <1>2, PTL DEF Spec

\* ExitTells of RunCommand, for any number of triggers.
THEOREM ExitTellsCorrect ==
    ASSUME TriggersInOrder
    PROVE  Spec => []ExitTells
<1>1. CommandInv => ExitTells
    BY CommandInvImplies
<1> QED BY <1>1, CommandInvCorrect, PTL

\* ExitStopsRun of RunCommand, for any number of triggers.
THEOREM ExitStopsRunCorrect ==
    ASSUME TriggersInOrder
    PROVE  Spec => []ExitStopsRun
<1>1. CommandInv => ExitStopsRun
    BY CommandInvImplies
<1> QED BY <1>1, CommandInvCorrect, PTL

-----------------------------------------------------------------------------
(* The commands that start and stop the Control Tower: the invariant.     *)

USE DEF Towers!daemonVars

\* What a process has read is a pid where it goes on to use it as one; and a
\* process that is about to remove a lock has found its owner gone.
MemIsPid ==
    \A p \in Commands :
        /\ at[p] \in {"judge", "take", "stale", "mark", "kill"} => mem[p] \in Commands
        /\ at[p] = "take" => at[mem[p]] = "gone"

\* Whoever believes that the lock is its own is right.
LockIsOwn ==
    accident # "takeover" =>
        \A p \in Commands : at[p] \in Towers!Inside => lock # Towers!NoLock /\ lock.owner = p

\* A tower that is up is recorded, but for the time between a change of the
\* tower and that of the file; and what the owner of the lock believes of the
\* file and of the towers is still so.
TowerIsKnown ==
    accident = Towers!None =>
        /\ \A t \in Commands : Towers!Up(t) =>
              \/ Towers!Recorded = t
              \/ at[t] = "record"
              \/ \E p \in Commands : at[p] = "kill" /\ mem[p] = t
        /\ \A p \in Commands :
              /\ at[p] \in {"health", "stale", "mark"} => mem[p] = Towers!Recorded
              /\ at[p] \in {"spawn", "erase"} => \A t \in Commands : ~Towers!Up(t)
              /\ at[p] = "record" => \A t \in Commands : Towers!Up(t) => t = p
              /\ at[p] = "kill" => \A t \in Commands : Towers!Up(t) => t = mem[p]

DaemonInv == Towers!TypeOK /\ MemIsPid /\ LockIsOwn /\ TowerIsKnown

-----------------------------------------------------------------------------
(* Every step preserves each part of it.                                   *)

\* readDaemonState returns a pid or nothing.
LEMMA RecordedType == ASSUME Towers!TypeOK PROVE Towers!Recorded \in Commands \cup {Towers!None}
  BY DEF Towers!TypeOK, Towers!Recorded, Towers!NoState

\* The files, the memories and the places of the processes keep their types.
LEMMA DaemonTypeStep ==
  ASSUME Towers!CallsAreLists, Towers!TypeOK, MemIsPid, [Towers!Next]_Towers!daemonVars
  PROVE  Towers!TypeOK'
  <1> USE DEF Towers!TypeOK, Towers!Go, Towers!Remember, Towers!Places, Towers!Inside,
                Towers!Ensuring, Towers!Stopping
  <1>1. ASSUME NEW p \in Commands, Towers!Acquire(p)
        PROVE  Towers!TypeOK'
    <2>1. CASE Towers!OpenLock(p)
      BY <2>1 DEF Towers!OpenLock
    <2>2. CASE Towers!WriteLock(p)
      BY <2>2 DEF Towers!WriteLock, Towers!NoLock
    <2>3. CASE Towers!ReadLock(p)
      BY <2>3 DEF Towers!ReadLock, Towers!NoLock
    <2>4. CASE Towers!Judge(p) \/ Towers!TakeLock(p)
      BY <2>4 DEF Towers!Judge, Towers!TakeLock
    <2>5. CASE Towers!GiveUp(p)
      BY <2>5 DEF Towers!GiveUp
    <2>6. CASE Towers!Release(p)
      <3>1. calls[p] # <<>> => Tail(calls[p]) \in Seq({"ensure", "shutdown"})
        OBVIOUS
      <3>2. \A q \in Commands : calls'[q] \in Seq({"ensure", "shutdown"})
        BY <2>6, <3>1 DEF Towers!Release
      <3> QED BY <2>6, <3>2 DEF Towers!Release
    <2> QED BY <1>1, <2>1, <2>2, <2>3, <2>4, <2>5, <2>6 DEF Towers!Acquire
  <1>2. ASSUME NEW p \in Commands, Towers!Ensure(p)
        PROVE  Towers!TypeOK'
    <2>1. CASE Towers!ReadState(p) \/ Towers!Health(p) \/ Towers!Poll(p)
      BY <2>1, RecordedType DEF Towers!ReadState, Towers!Health, Towers!Poll
    <2>2. CASE Towers!KillStale(p)
      BY <2>2 DEF Towers!KillStale, MemIsPid
    <2>3. CASE Towers!Spawn(p)
      BY <2>3 DEF Towers!Spawn
    <2>4. CASE Towers!Record(p)
      BY <2>4 DEF Towers!Record
    <2> QED BY <1>2, <2>1, <2>2, <2>3, <2>4 DEF Towers!Ensure
  <1>3. ASSUME NEW p \in Commands, Towers!Shutdown(p)
        PROVE  Towers!TypeOK'
    <2>1. CASE Towers!Look(p)
      BY <2>1, RecordedType DEF Towers!Look
    <2>2. CASE Towers!Mark(p)
      BY <2>2 DEF Towers!Mark, MemIsPid
    <2>3. CASE Towers!Kill(p)
      BY <2>3 DEF Towers!Kill, MemIsPid
    <2>4. CASE Towers!Erase(p)
      BY <2>4 DEF Towers!Erase
    <2> QED BY <1>3, <2>1, <2>2, <2>3, <2>4 DEF Towers!Shutdown
  <1>4. ASSUME NEW p \in Commands, Towers!Leave(p) \/ Towers!Listen(p) \/ Towers!Die(p)
        PROVE  Towers!TypeOK'
    BY <1>4 DEF Towers!Leave, Towers!Listen, Towers!Die
  <1>5. CASE UNCHANGED Towers!daemonVars
    BY <1>5
  <1> QED BY <1>1, <1>2, <1>3, <1>4, <1>5 DEF Towers!Next

\* A pid that was read stays one, and who is gone stays gone.
LEMMA MemStep ==
  ASSUME Towers!CallsAreLists, Towers!TypeOK, MemIsPid, [Towers!Next]_Towers!daemonVars
  PROVE  MemIsPid'
  <1> USE DEF MemIsPid, Towers!TypeOK, Towers!Go, Towers!Remember
  <1>1. ASSUME NEW p \in Commands, Towers!Acquire(p)
        PROVE  MemIsPid'
    <2>1. CASE Towers!OpenLock(p) \/ Towers!WriteLock(p) \/ Towers!GiveUp(p)
      BY <2>1 DEF Towers!OpenLock, Towers!WriteLock, Towers!GiveUp
    <2>2. CASE Towers!ReadLock(p)
      BY <2>2 DEF Towers!ReadLock, Towers!NoLock
    <2>3. CASE Towers!Judge(p)
      BY <2>3 DEF Towers!Judge, Towers!Alive
    <2>4. CASE Towers!TakeLock(p) \/ Towers!Release(p)
      BY <2>4 DEF Towers!TakeLock, Towers!Release
    <2> QED BY <1>1, <2>1, <2>2, <2>3, <2>4 DEF Towers!Acquire
  <1>2. ASSUME NEW p \in Commands, Towers!Ensure(p)
        PROVE  MemIsPid'
    BY <1>2, RecordedType
    DEF Towers!Ensure, Towers!ReadState, Towers!Health, Towers!KillStale, Towers!Spawn,
        Towers!Record, Towers!Poll, Towers!CallsAreLists
  <1>3. ASSUME NEW p \in Commands, Towers!Shutdown(p)
        PROVE  MemIsPid'
    BY <1>3, RecordedType DEF Towers!Shutdown, Towers!Look, Towers!Mark, Towers!Kill,
       Towers!Erase
  <1>4. ASSUME NEW p \in Commands, Towers!Leave(p) \/ Towers!Listen(p) \/ Towers!Die(p)
        PROVE  MemIsPid'
    BY <1>4 DEF Towers!Leave, Towers!Listen, Towers!Die
  <1>5. CASE UNCHANGED Towers!daemonVars
    BY <1>5
  <1> QED BY <1>1, <1>2, <1>3, <1>4, <1>5 DEF Towers!Next

\* A lock is removed by its owner, or for one that is gone; and opened when
\* there is none, so that no one believes to have it.
LEMMA LockStep ==
  ASSUME Towers!CallsAreLists, Towers!TypeOK, MemIsPid, LockIsOwn, [Towers!Next]_Towers!daemonVars
  PROVE  LockIsOwn'
  <1> USE DEF LockIsOwn, Towers!TypeOK, Towers!Go, Towers!Remember, Towers!Inside, Towers!Ensuring,
                Towers!Stopping
  <1>1. ASSUME NEW p \in Commands, Towers!Acquire(p)
        PROVE  LockIsOwn'
    <2>1. CASE Towers!OpenLock(p)
      BY <2>1 DEF Towers!OpenLock, Towers!NoLock, Towers!CallsAreLists
    <2>2. CASE Towers!WriteLock(p)
      BY <2>2 DEF Towers!WriteLock, Towers!NoLock
    <2>3. CASE Towers!ReadLock(p) \/ Towers!Judge(p) \/ Towers!GiveUp(p)
      BY <2>3 DEF Towers!ReadLock, Towers!Judge, Towers!GiveUp
    <2>4. CASE Towers!TakeLock(p)
      BY <2>4 DEF Towers!TakeLock, MemIsPid
    <2>5. CASE Towers!Release(p)
      BY <2>5 DEF Towers!Release
    <2> QED BY <1>1, <2>1, <2>2, <2>3, <2>4, <2>5 DEF Towers!Acquire
  <1>2. ASSUME NEW p \in Commands, Towers!Ensure(p)
        PROVE  LockIsOwn'
    BY <1>2 DEF Towers!Ensure, Towers!ReadState, Towers!Health, Towers!KillStale, Towers!Spawn,
       Towers!Record, Towers!Poll
  <1>3. ASSUME NEW p \in Commands, Towers!Shutdown(p)
        PROVE  LockIsOwn'
    BY <1>3 DEF Towers!Shutdown, Towers!Look, Towers!Mark, Towers!Kill, Towers!Erase
  <1>4. ASSUME NEW p \in Commands, Towers!Leave(p) \/ Towers!Listen(p) \/ Towers!Die(p)
        PROVE  LockIsOwn'
    BY <1>4 DEF Towers!Leave, Towers!Listen, Towers!Die
  <1>5. CASE UNCHANGED Towers!daemonVars
    BY <1>5
  <1> QED BY <1>1, <1>2, <1>3, <1>4, <1>5 DEF Towers!Next

\* While the lock is right, only one process has it.
LEMMA OneInside ==
  ASSUME Towers!TypeOK, LockIsOwn, accident # "takeover",
         NEW p \in Commands, at[p] \in Towers!Inside, NEW q \in Commands, at[q] \in Towers!Inside
  PROVE  p = q
  BY DEF LockIsOwn

\* Only the owner of the lock changes the file, or starts or stops a tower,
\* and it changes the two in an order that leaves no tower unknown.
LEMMA TowerStep ==
  ASSUME Towers!CallsAreLists, Towers!TypeOK, MemIsPid, LockIsOwn, TowerIsKnown,
         [Towers!Next]_Towers!daemonVars
  PROVE  TowerIsKnown'
  <1> USE DEF Towers!TypeOK, Towers!Go, Towers!Remember
  <1>0. accident' = Towers!None => accident = Towers!None
    BY DEF Towers!Next, Towers!Acquire, Towers!OpenLock, Towers!WriteLock, Towers!ReadLock,
       Towers!Judge, Towers!TakeLock, Towers!GiveUp,
           Towers!Release, Towers!Ensure, Towers!ReadState, Towers!Health, Towers!KillStale,
           Towers!Spawn, Towers!Record, Towers!Poll,
           Towers!Shutdown, Towers!Look, Towers!Mark, Towers!Kill, Towers!Erase, Towers!Leave,
           Towers!Listen, Towers!Die, Towers!None
  <1>1. CASE accident' # Towers!None
    BY <1>1 DEF TowerIsKnown
  <1>2. CASE accident' = Towers!None
    <2>0. /\ accident = Towers!None /\ accident # "takeover"
          /\ \A p, q \in Commands : at[p] \in Towers!Inside /\ at[q] \in Towers!Inside => p = q
      BY <1>0, <1>2, OneInside DEF Towers!None
    <2> USE DEF TowerIsKnown, Towers!Up, Towers!Recorded
    <2>1. ASSUME NEW p \in Commands, Towers!Acquire(p)
          PROVE  TowerIsKnown'
      BY <1>2, <2>0, <2>1
      DEF Towers!Acquire, Towers!OpenLock, Towers!WriteLock, Towers!ReadLock, Towers!Judge,
          Towers!TakeLock, Towers!GiveUp, Towers!Release
    <2>2. ASSUME NEW p \in Commands, Towers!Ensure(p)
          PROVE  TowerIsKnown'
      <3>0. \A q \in Commands \ {p} : at[q] \notin Towers!Inside
        BY <2>0, <2>2 DEF Towers!Ensure, Towers!ReadState, Towers!Health, Towers!KillStale,
           Towers!Spawn, Towers!Record,
                          Towers!Poll, Towers!Inside, Towers!Ensuring
      <3> USE DEF Towers!Inside, Towers!Ensuring, Towers!Stopping
      <3>1. CASE Towers!ReadState(p)
        BY <1>2, <2>0, <3>0, <3>1 DEF Towers!ReadState
      <3>2. CASE Towers!Health(p)
        <4>1. \A t \in Commands : Towers!Up(t) => t = mem[p] /\ mem[p] # Towers!None
          BY <2>0, <3>0, <3>2 DEF Towers!Health, Towers!CallsAreLists
        <4>2. UNCHANGED <<mem, daemon, process>>
          BY <3>2 DEF Towers!Health
        <4>3. /\ at[p] = "health"
              /\ at' = [at EXCEPT ![p] = "release"] \/ at' = [at EXCEPT ![p] = "stale"]
                 \/ (at' = [at EXCEPT ![p] = "spawn"] /\ \A t \in Commands : ~Towers!Up(t))
          BY <3>2, <4>1 DEF Towers!Health
        <4> QED BY <1>2, <2>0, <3>0, <4>1, <4>2, <4>3
      <3>3. CASE Towers!KillStale(p)
        BY <1>2, <2>0, <3>0, <3>3 DEF Towers!KillStale, MemIsPid
      <3>4. CASE Towers!Spawn(p)
        BY <1>2, <2>0, <3>0, <3>4 DEF Towers!Spawn
      <3>5. CASE Towers!Record(p)
        BY <1>2, <2>0, <3>0, <3>5 DEF Towers!Record
      <3>6. CASE Towers!Poll(p)
        BY <1>2, <2>0, <3>0, <3>6 DEF Towers!Poll
      <3> QED BY <2>2, <3>1, <3>2, <3>3, <3>4, <3>5, <3>6 DEF Towers!Ensure
    <2>3. ASSUME NEW p \in Commands, Towers!Shutdown(p)
          PROVE  TowerIsKnown'
      <3>0. \A q \in Commands \ {p} : at[q] \notin Towers!Inside
        BY <2>0, <2>3 DEF Towers!Shutdown, Towers!Look, Towers!Mark, Towers!Kill, Towers!Erase,
           Towers!Inside, Towers!Stopping
      <3> USE DEF Towers!Inside, Towers!Ensuring, Towers!Stopping
      <3>1. CASE Towers!Look(p)
        BY <1>2, <2>0, <3>0, <3>1 DEF Towers!Look
      <3>2. CASE Towers!Mark(p)
        <4>1. at[p] = "mark" /\ at' = [at EXCEPT ![p] = "kill"] /\ UNCHANGED <<mem, process>>
          BY <3>2 DEF Towers!Mark
        <4>2. \A t \in Commands : Towers!Up(t) => t = mem[p]
          BY <2>0, <3>0, <4>1
        <4> QED BY <2>0, <3>0, <4>1, <4>2
      <3>3. CASE Towers!Kill(p)
        BY <1>2, <2>0, <3>0, <3>3 DEF Towers!Kill, MemIsPid
      <3>4. CASE Towers!Erase(p)
        BY <1>2, <2>0, <3>0, <3>4 DEF Towers!Erase
      <3> QED BY <2>3, <3>1, <3>2, <3>3, <3>4 DEF Towers!Shutdown
    <2>4. ASSUME NEW p \in Commands, Towers!Leave(p)
          PROVE  TowerIsKnown'
      BY <1>2, <2>0, <2>4 DEF Towers!Leave, Towers!None
    <2>5. ASSUME NEW t \in Commands, Towers!Listen(t) \/ Towers!Die(t)
          PROVE  TowerIsKnown'
      <3>1. \A u \in Commands : Towers!Up(u)' => Towers!Up(u)
        BY <2>5 DEF Towers!Listen, Towers!Die
      <3>2. UNCHANGED <<at, mem, daemon>>
        BY <2>5 DEF Towers!Listen, Towers!Die
      <3> QED BY <2>0, <3>1, <3>2
    <2>6. CASE UNCHANGED Towers!daemonVars
      BY <2>0, <2>6
    <2> QED BY <2>1, <2>2, <2>3, <2>4, <2>5, <2>6 DEF Towers!Next
  <1> QED BY <1>1, <1>2

\* The invariant holds at the start,
LEMMA DaemonInit ==
  ASSUME Towers!CallsAreLists, Towers!Init
  PROVE  DaemonInv
  BY DEF Towers!CallsAreLists, Towers!Init, DaemonInv, Towers!TypeOK, MemIsPid, LockIsOwn,
     TowerIsKnown,
     Towers!Places, Towers!Inside, Towers!Ensuring, Towers!Stopping, Towers!Up, Towers!NoLock,
     Towers!NoState, Towers!None

\* every step preserves it,
LEMMA DaemonStep ==
  ASSUME Towers!CallsAreLists, DaemonInv, [Towers!Next]_Towers!daemonVars
  PROVE  DaemonInv'
  BY DaemonTypeStep, MemStep, LockStep, TowerStep DEF DaemonInv

\* and what the runs check of the Control Tower follows from it.
LEMMA DaemonInvImplies ==
  ASSUME DaemonInv
  PROVE  Towers!LockExcludes /\ Towers!RunningIsRecorded
  <1>1. Towers!LockExcludes
    BY OneInside DEF DaemonInv, Towers!LockExcludes
  <1>2. Towers!RunningIsRecorded
    BY DEF DaemonInv, TowerIsKnown, Towers!RunningIsRecorded, Towers!Inside, Towers!Ensuring,
       Towers!Stopping
  <1> QED BY <1>1, <1>2

\* The invariant holds throughout.
LEMMA DaemonInvariant ==
  ASSUME Towers!CallsAreLists
  PROVE  Towers!Spec => []DaemonInv
  <1>1. Towers!Init => DaemonInv
    BY DaemonInit
  <1>2. DaemonInv /\ [Towers!Next]_Towers!daemonVars => DaemonInv'
    BY DaemonStep
  <1> QED BY <1>1, <1>2, PTL DEF Towers!Spec

-----------------------------------------------------------------------------
(* The theorems about the Control Tower.                                   *)

\* The files and the processes always have values that the code can give them.
THEOREM DaemonTypeCorrect ==
  ASSUME Towers!CallsAreLists
  PROVE  Towers!Spec => []Towers!TypeOK
  BY DaemonInvariant, PTL DEF DaemonInv

\* acquireLock excludes, for any number of commands, which may be killed at
\* any point: only a lock that was unlinked in place of the one of a process
\* that is gone lets two of them work on the Control Tower at a time.
THEOREM LockExcludesCorrect ==
  ASSUME Towers!CallsAreLists
  PROVE  Towers!Spec => []Towers!LockExcludes
  <1>1. DaemonInv => Towers!LockExcludes
    BY DaemonInvImplies
  <1> QED BY <1>1, DaemonInvariant, PTL

\* When no command is at work, shutdownServices can find the tower that is
\* up: there is one at most, and it is the one that daemon.json records.
THEOREM RunningIsRecordedCorrect ==
  ASSUME Towers!CallsAreLists
  PROVE  Towers!Spec => []Towers!RunningIsRecorded
  <1>1. DaemonInv => Towers!RunningIsRecorded
    BY DaemonInvImplies
  <1> QED BY <1>1, DaemonInvariant, PTL

-----------------------------------------------------------------------------
(* The baselines of visual matching: the inductive invariant.              *)

Verdicts == {"none", "pass", "fail", "no-baseline", "approved", "skipped"}
Row ==
    [run : Nat, def : Nat, shot : Nat, name : Visual!ShotNames, type : {"screenshot", "diff"},
     image : Images, verdict : Verdicts]
KeyType == [run : Nat, def : Nat, folder : {"screenshot", "diff"}, name : Visual!ShotNames]

\* A capture of a shot of the project, of a run there has been; of this run,
\* of a shot that was taken.
Taken(a) ==
    /\ a.def \in Visual!Defs /\ a.shot \in DOMAIN project[a.def]
    /\ a.name = project[a.def][a.shot].name
    /\ a.run <= runNumber /\ (a.run = runNumber => a.shot <= pos[a.def])

WorldTyped ==
    /\ project \in Seq(Seq(Visual!ShotType)) /\ project # <<>>
    /\ DOMAIN look = Visual!Defs /\ \A d \in Visual!Defs : look[d] \in [DOMAIN project[d] -> Images]
    /\ runNumber \in Nat /\ accidents \in Nat

CommandTyped ==
    /\ cmd \in [at : {"idle", "upload", "submit", "poll"}, def : Visual!Defs \cup {0},
       todo : SUBSET Visual!ShotNames]
    /\ cmd.at \in {"upload", "submit"} => cmd.def # 0
    /\ cmd.at = "upload" => cmd.todo \subseteq DOMAIN dir
    /\ DOMAIN dir \subseteq Visual!ShotNames /\ \A n \in DOMAIN dir : dir[n] \in Images

InstancesTyped ==
    /\ DOMAIN staged = Visual!Defs /\ DOMAIN seen = Visual!Defs
    /\ pos \in [Visual!Defs -> Nat] /\ \A d \in Visual!Defs : pos[d] <= Len(project[d])
    /\ DOMAIN failures = Visual!Defs /\ \A d \in Visual!Defs : failures[d] \subseteq 1..pos[d]
    /\ result \in [Visual!Defs -> {"none", "submitted", "running", "PASSED", "FAILED"}]

CapturesTyped ==
    /\ rows \subseteq Row /\ \A a \in rows : Taken(a)
    /\ DOMAIN files \subseteq KeyType /\ \A k \in DOMAIN files : files[k] \in Images /\
       k.run <= runNumber
    /\ \A n \in DOMAIN lastTaken : lastTaken[n] \in Row /\ lastTaken[n].name = n

\* A review shows captures, and approves none but what it shows.
Pending ==
    /\ review \in [items : SUBSET Row, all : SUBSET Row]
    /\ review.all \subseteq review.items
    /\ \A a \in review.items :
        Taken(a) /\ a.type = "screenshot" /\ a.verdict \in {"no-baseline", "fail"}

\* The command uploads before any instance of its run is submitted.
Staging ==
    /\ cmd.at = "upload" => \A d \in Visual!Defs : result[d] = "none"
    /\ cmd.at = "submit" => \A d \in Visual!Defs : d >= cmd.def => result[d] = "none"
    /\ runNumber = 0 => cmd.at = "idle" /\ \A d \in Visual!Defs : result[d] = "none"
    /\ \A a \in rows : a.run = runNumber => result[a.def] \in {"running", "PASSED", "FAILED"}
    /\ \A d \in Visual!Defs :
        /\ result[d] \in {"none", "submitted"} => pos[d] = 0
        /\ result[d] = "running" /\ staged[d] # <<>> => d \in mounted

\* The file of a capture is that capture, if no other has its name.
FilesAreTheirs ==
    \A a \in rows \cup review.items :
        Visual!Key(a) \in DOMAIN files /\ a.type = "screenshot" /\ ~Visual!Shared(a.name) =>
            files[Visual!Key(a)] = a.image

\* What was last approved is the baseline.
LastIsBaseline ==
    \A n \in DOMAIN lastTaken : n \in DOMAIN dir /\ (~Visual!Shared(n) => dir[n] = lastTaken[n].image)

\* The baselines of d have been read, but for those still to be uploaded.
Read(d, n) ==
    /\ runNumber > 0
    /\ cmd.at = "upload" => d < cmd.def \/ (d = cmd.def /\ n \notin cmd.todo)

\* What the command knows of baselines is what the Control Tower has.
SeenIsStaged ==
    \A d \in Visual!Defs : \A n \in DOMAIN seen[d] :
        /\ Read(d, n) /\ seen[d][n] # Visual!NoCapture /\ ~Visual!Shared(n) /\ ~Visual!Hidden(d, n) =>
            n \in DOMAIN staged[d] /\ staged[d][n] = seen[d][n].image
        /\ cmd.at = "upload" /\ d = cmd.def /\ n \in cmd.todo => n \in DOMAIN lastTaken

\* Every shot that was taken has its row, and one that failed a verdict to review.
RowsTell ==
    \A d \in Visual!Defs :
        /\ result[d] = "PASSED" => pos[d] = Len(project[d]) /\ failures[d] = {}
        /\ \A s \in 1..pos[d] : \E a \in rows :
            /\ a.run = runNumber /\ a.def = d /\ a.shot = s /\ a.type = "screenshot"
            /\ project[d][s].match /\ s \notin failures[d] => a.verdict = "pass"
            /\ s \in failures[d] => a.verdict \in {"fail", "no-baseline", "approved", "skipped"}

BaselinesInv ==
    /\ WorldTyped /\ CommandTyped /\ InstancesTyped /\ CapturesTyped
    /\ Pending /\ Staging /\ FilesAreTheirs /\ LastIsBaseline /\ SeenIsStaged /\ RowsTell /\
       Visual!ApprovedPasses

USE DEF Visual!Defs, Visual!world, Visual!captures, Visual!reviewing, Visual!instance

\* Which names are shared or hidden is a matter of the project.
LEMMA SameProject ==
  ASSUME project' = project
  PROVE  /\ \A n : Visual!Shared(n)' <=> Visual!Shared(n)
         /\ \A d, n : Visual!Hidden(d, n)' <=> Visual!Hidden(d, n)
BY DEF Visual!Shared, Visual!Hidden, Visual!extractVisualMatchNames

\* A project is a list of lists of shots.
LEMMA ProjectFacts ==
  ASSUME WorldTyped
  PROVE  /\ Visual!Defs = 1..Len(project) /\ Len(project) \in Nat /\ 1 \in Visual!Defs
         /\ \A d \in Visual!Defs : /\ project[d] \in Seq(Visual!ShotType) /\ Len(project[d]) \in Nat
                            /\ DOMAIN project[d] = 1..Len(project[d])
BY DEF WorldTyped

\* A baseline that the CLI is to find is listed, once it was approved.
LEMMA Listed ==
  ASSUME LastIsBaseline, NEW d, NEW n \in DOMAIN lastTaken, ~Visual!Hidden(d, n)
  PROVE  n \in Visual!FilesOf(d)
BY DEF LastIsBaseline, Visual!Hidden, Visual!FilesOf, Visual!listBaselineFiles

\* Two rows of one capture, of which one may have been reviewed.
Alike(a, b) ==
    /\ b.run = a.run /\ b.def = a.def /\ b.shot = a.shot /\ b.name = a.name
    /\ b.type = a.type /\ b.image = a.image
    /\ \/ b.verdict = a.verdict
       \/ a.verdict \in {"no-baseline", "fail"} /\ b.verdict \in {"approved", "skipped"}

\* updateVerdict leaves the rows as they are but for the verdict of one.
LEMMA RowsAlike ==
  ASSUME Pending, CapturesTyped, NEW item \in review.items, NEW verdict \in {"approved", "skipped"},
         NEW fails, Visual!updateVerdict(item, verdict, fails)
  PROVE  /\ rows' \subseteq Row
         /\ \A b \in rows' : \E a \in rows : Alike(a, b)
         /\ \A a \in rows : \E b \in rows' : Alike(a, b)
<1>1. CASE rows' = rows
    BY <1>1 DEF Alike, CapturesTyped
<1>2. CASE item \in rows /\ rows' = (rows \ {item}) \cup {[item EXCEPT !.verdict = verdict]}
  <2>1. item \in Row /\ item.verdict \in {"no-baseline", "fail"}
      BY DEF Pending
  <2>2. [item EXCEPT !.verdict = verdict] \in Row
      BY <2>1 DEF Row, Verdicts
  <2>3. Alike(item, [item EXCEPT !.verdict = verdict])
      BY <2>1 DEF Alike
  <2>4. \A a : Alike(a, a)
      BY DEF Alike
  <2> QED BY <1>2, <2>2, <2>3, <2>4 DEF CapturesTyped
<1> QED BY <1>1, <1>2 DEF Visual!updateVerdict

\* persist writes the files of what it records over those that are there.
LEMMA Persisted ==
  ASSUME NEW capture, NEW diff, NEW new, new = {capture} \/ new = {capture, diff},
         capture.type = "screenshot", diff.type = "diff", capture.image = diff.image,
           Visual!persist(new)
  PROVE  /\ rows' = rows \cup new
         /\ DOMAIN files' = DOMAIN files \cup {Visual!Key(r) : r \in new}
         /\ \A k \in DOMAIN files' : \/ files'[k] = capture.image
                                     \/ k \in DOMAIN files /\ files'[k] = files[k]
         /\ files'[Visual!Key(capture)] = capture.image
         /\ \A k \in DOMAIN files' : k # Visual!Key(capture) /\ k.folder = "screenshot" =>
                k \in DOMAIN files /\ files'[k] = files[k]
<1>1. rows' = rows \cup new /\ DOMAIN files' = DOMAIN files \cup {Visual!Key(r) : r \in new}
    BY DEF Visual!persist
<1>2. \A r \in new : r.image = capture.image
    OBVIOUS
<1>3. \A k \in DOMAIN files' : IF \E r \in new : Visual!Key(r) = k THEN files'[k] = capture.image
                               ELSE k \in DOMAIN files /\ files'[k] = files[k]
    BY <1>2 DEF Visual!persist
<1>4. capture \in new /\ Visual!Key(capture) \in DOMAIN files'
    BY <1>1
<1>5. \A k : k.folder = "screenshot" /\ (\E r \in new : Visual!Key(r) = k) => k = Visual!Key(capture)
  <2>1. Visual!Key(diff).folder = "diff"
      BY DEF Visual!Key
  <2> QED BY <2>1
<1> QED BY <1>1, <1>3, <1>4, <1>5

\* FilesOf lists files of the directory.
LEMMA FilesThere ==
  ASSUME NEW d
  PROVE  Visual!FilesOf(d) \subseteq DOMAIN dir
BY DEF Visual!FilesOf, Visual!listBaselineFiles

\* executeRun creates a run: nothing is staged or taken of it yet.
LEMMA CreateRunLemma ==
  ASSUME BaselinesInv, Visual!ProjectsTyped, Visual!CreateRun
  PROVE  BaselinesInv'
<1>0. project' = project
    BY DEF Visual!CreateRun
<1> USE <1>0, SameProject DEF BaselinesInv
<1>a. /\ cmd.at = "idle" /\ runNumber \in Nat /\ runNumber' = runNumber + 1 /\ runNumber' # runNumber
      /\ cmd' = [at |-> "upload", def |-> 1, todo |-> Visual!FilesOf(1)]
      /\ staged' = [d \in Visual!Defs |-> <<>>] /\ pos' = [d \in Visual!Defs |-> 0]
      /\ failures' = [d \in Visual!Defs |-> {}] /\ result' = [d \in Visual!Defs |-> "none"]
      /\ mounted' = {} /\ seen' = [d \in Visual!Defs |-> lastTaken]
      /\ UNCHANGED <<project, look, known, rows, files, review, dir, lastTaken, accidents>>
    BY DEF Visual!CreateRun, Visual!Idle, WorldTyped
<1>b. Visual!Defs' = Visual!Defs
    BY <1>0
<1>c. \A a \in rows \cup review.items : a.run \in Nat /\ a.run # runNumber'
    BY <1>a DEF CapturesTyped, Pending, Taken, Row
<1>1. WorldTyped'
    BY <1>a, <1>b DEF WorldTyped
<1>2. CommandTyped'
    BY <1>a, <1>b, ProjectFacts, FilesThere DEF CommandTyped
<1>3. InstancesTyped'
    BY <1>a, <1>b DEF InstancesTyped
<1>4. CapturesTyped'
    BY <1>a, <1>b, <1>c DEF CapturesTyped, Taken, KeyType
<1>5. Pending'
    BY <1>a, <1>b, <1>c DEF Pending, Taken
<1>6. Staging'
    BY <1>a, <1>b, <1>c DEF Staging
<1>7. FilesAreTheirs'
    BY DEF FilesAreTheirs, Visual!CreateRun
<1>8. LastIsBaseline'
    BY DEF LastIsBaseline, Visual!CreateRun
<1>9. SeenIsStaged'
  <2>1. SUFFICES ASSUME NEW d \in Visual!Defs, NEW n \in DOMAIN lastTaken
                 PROVE  /\ ~(Read(d, n)' /\ ~Visual!Hidden(d, n))
                        /\ cmd'.at = "upload" /\ d = cmd'.def /\ n \in cmd'.todo =>
                           n \in DOMAIN lastTaken
      BY <1>a, <1>b DEF SeenIsStaged
  <2>2. ~Visual!Hidden(d, n) => n \in Visual!FilesOf(d)
      BY Listed
  <2>3. ~(d < 1)
      BY ProjectFacts
  <2> QED BY <1>a, <2>2, <2>3 DEF Read
<1>10. RowsTell'
    BY DEF RowsTell, Visual!CreateRun
<1>11. Visual!ApprovedPasses'
    BY <1>a, <1>c DEF Visual!ApprovedPasses
<1> QED BY <1>1, <1>2, <1>3, <1>4, <1>5, <1>6, <1>7, <1>8, <1>9, <1>10, <1>11

\* uploadBaselinesForDefinition goes to the next definition, or the submissions begin.
LEMMA NextDefinitionLemma ==
  ASSUME BaselinesInv, Visual!ProjectsTyped, Visual!NextDefinition
  PROVE  BaselinesInv'
<1>0. project' = project
    BY DEF Visual!NextDefinition
<1> USE <1>0, SameProject DEF BaselinesInv
<1>a. /\ cmd.at = "upload" /\ cmd.todo = {} /\ cmd.def \in Visual!Defs
      /\ UNCHANGED <<project, look, known, rows, files, review, dir, lastTaken, runNumber, accidents>>
      /\ UNCHANGED <<staged, mounted, pos, failures, result>>
    BY DEF Visual!NextDefinition, CommandTyped
<1>b. \/ /\ cmd' = [at |-> "submit", def |-> 1, todo |-> {}] /\ seen' = seen /\
            cmd.def + 1 \notin Visual!Defs
      \/ /\ cmd' = [at |-> "upload", def |-> cmd.def + 1, todo |-> Visual!FilesOf(cmd.def + 1)]
         /\ seen' = [seen EXCEPT ![cmd.def + 1] = lastTaken] /\ cmd.def + 1 \in Visual!Defs
    BY DEF Visual!NextDefinition, Visual!List
<1>c. \A a \in rows : a.run = runNumber => FALSE
    BY <1>a DEF Staging, CapturesTyped, Taken
<1>1. WorldTyped'
    BY DEF WorldTyped, Visual!NextDefinition
<1>2. CommandTyped'
    BY DEF WorldTyped, CommandTyped, Visual!NextDefinition, Visual!List, Visual!FilesOf,
       Visual!listBaselineFiles
<1>3. InstancesTyped'
    BY DEF InstancesTyped, Visual!NextDefinition, Visual!List
<1>4. CapturesTyped'
    BY DEF CapturesTyped, Taken, Visual!NextDefinition
<1>5. Pending'
    BY DEF Pending, Taken, Visual!NextDefinition
<1>6. Staging'
    BY DEF Staging, Visual!NextDefinition
<1>7. FilesAreTheirs'
    BY DEF FilesAreTheirs, Visual!NextDefinition
<1>8. LastIsBaseline'
    BY DEF LastIsBaseline, Visual!NextDefinition
<1>9. SeenIsStaged'
  <2>1. CASE cmd' = [at |-> "submit", def |-> 1, todo |-> {}] /\ seen' = seen /\
               cmd.def + 1 \notin Visual!Defs
    <3>1. \A d \in Visual!Defs : d < cmd.def \/ d = cmd.def
        BY <1>a, <2>1, ProjectFacts
    <3> QED BY <1>a, <2>1, <3>1 DEF SeenIsStaged, Read
  <2>2. CASE /\ cmd' = [at |-> "upload", def |-> cmd.def + 1, todo |-> Visual!FilesOf(cmd.def + 1)]
             /\ seen' = [seen EXCEPT ![cmd.def + 1] = lastTaken] /\ cmd.def + 1 \in Visual!Defs
    <3>1. SUFFICES ASSUME NEW d \in Visual!Defs, NEW n \in DOMAIN seen'[d]
                   PROVE  /\ Read(d, n)' /\ seen'[d][n] # Visual!NoCapture /\ ~Visual!Shared(n) /\
                             ~Visual!Hidden(d, n) =>
                                 n \in DOMAIN staged[d] /\ staged[d][n] = seen'[d][n].image
                          /\ d = cmd.def + 1 => n \in DOMAIN lastTaken
        BY <1>a, <2>2 DEF SeenIsStaged
    <3>2. CASE d = cmd.def + 1
      <4>1. seen'[d] = lastTaken
          BY <2>2, <3>2 DEF InstancesTyped
      <4>2. ~Visual!Hidden(d, n) => n \in Visual!FilesOf(d)
          BY <4>1, Listed
      <4>3. ~(d < d)
          BY ProjectFacts
      <4> QED BY <2>2, <3>2, <4>1, <4>2, <4>3 DEF Read
    <3>3. CASE d # cmd.def + 1
      <4>1. seen'[d] = seen[d]
          BY <2>2, <3>3
      <4>2. d < cmd.def + 1 => d < cmd.def \/ d = cmd.def
          BY <1>a, ProjectFacts
      <4>3. Read(d, n)' => Read(d, n)
          BY <1>a, <2>2, <3>3, <4>2 DEF Read
      <4> QED BY <1>a, <3>3, <4>1, <4>3 DEF SeenIsStaged
    <3> QED BY <3>2, <3>3
  <2> QED BY <1>b, <2>1, <2>2
<1>10. RowsTell'
    BY <1>a DEF RowsTell
<1>11. Visual!ApprovedPasses'
    BY <1>a, <1>c DEF Visual!ApprovedPasses
<1> QED BY <1>1, <1>2, <1>3, <1>4, <1>5, <1>6, <1>7, <1>8, <1>9, <1>10, <1>11

\* uploadBaseline stages one file, or fails to.
LEMMA UploadBaselineLemma ==
  ASSUME BaselinesInv, Visual!ProjectsTyped, NEW n \in cmd.todo, NEW fails \in BOOLEAN,
         Visual!UploadBaseline(n, fails)
  PROVE  BaselinesInv'
<1>0. project' = project
    BY DEF Visual!UploadBaseline
<1> USE <1>0, SameProject DEF BaselinesInv
<1>a. /\ cmd.at = "upload" /\ cmd' = [cmd EXCEPT !.todo = @ \ {n}] /\ cmd.def \in Visual!Defs
      /\ UNCHANGED <<project, look, known, rows, files, review, dir, lastTaken, runNumber>>
      /\ UNCHANGED <<mounted, pos, failures, result>>
    BY DEF Visual!UploadBaseline, CommandTyped
<1>b. \A a \in rows : a.run = runNumber => FALSE
    BY <1>a DEF Staging, CapturesTyped, Taken
<1>1. WorldTyped'
    BY DEF WorldTyped, Visual!UploadBaseline, Visual!Accident
<1>2. CommandTyped'
    BY DEF CommandTyped, Visual!UploadBaseline
<1>3. InstancesTyped'
    BY DEF InstancesTyped, Visual!UploadBaseline, Visual!persistBaseline
<1>4. CapturesTyped'
    BY DEF CapturesTyped, Taken, Visual!UploadBaseline
<1>5. Pending'
    BY DEF Pending, Taken, Visual!UploadBaseline
<1>6. Staging'
    BY DEF Staging, Visual!UploadBaseline
<1>7. FilesAreTheirs'
    BY DEF FilesAreTheirs, Visual!UploadBaseline
<1>8. LastIsBaseline'
    BY DEF LastIsBaseline, Visual!UploadBaseline
<1>9. SeenIsStaged'
  <2>a. /\ cmd'.at = "upload" /\ cmd'.def = cmd.def /\ cmd'.todo = cmd.todo \ {n}
      BY <1>a
  <2>b. n \in DOMAIN dir
      BY <1>a DEF CommandTyped
  <2>1. SUFFICES ASSUME NEW d \in Visual!Defs, NEW m \in DOMAIN seen'[d]
                 PROVE  /\ Read(d, m)' /\ seen'[d][m] # Visual!NoCapture /\ ~Visual!Shared(m) /\
                           ~Visual!Hidden(d, m) =>
                               m \in DOMAIN staged'[d] /\ staged'[d][m] = seen'[d][m].image
                        /\ d = cmd.def /\ m \in cmd.todo \ {n} => m \in DOMAIN lastTaken
      BY <1>a, <2>a DEF SeenIsStaged
  <2>2. CASE d = cmd.def /\ m = n
    <3>1. CASE fails
      <4>1. seen'[d][m] = Visual!NoCapture
          BY <1>a, <2>2, <3>1 DEF Visual!UploadBaseline, Visual!Put, InstancesTyped
      <4> QED BY <2>2, <4>1
    <3>2. CASE ~fails
      <4>1. staged'[d] = Visual!Put(staged[d], n, dir[n])
          BY <1>a, <2>2, <3>2 DEF Visual!UploadBaseline, Visual!persistBaseline, InstancesTyped
      <4>2. seen'[d] = IF n \in DOMAIN lastTaken THEN Visual!Put(seen[d], n, lastTaken[n]) ELSE seen[d]
          BY <1>a, <2>2, <3>2 DEF Visual!UploadBaseline, InstancesTyped
      <4>3. n \in DOMAIN lastTaken
          BY <1>a, <2>1, <2>2, <4>2 DEF SeenIsStaged
      <4>4. seen'[d][n] = lastTaken[n]
          BY <4>2, <4>3 DEF Visual!Put
      <4> QED BY <2>2, <4>1, <4>3, <4>4 DEF LastIsBaseline, Visual!Put
    <3> QED BY <3>1, <3>2
  <2>3. CASE ~(d = cmd.def /\ m = n)
    <3>1. m \in DOMAIN seen[d] /\ seen'[d][m] = seen[d][m]
        BY <1>a, <2>1, <2>3 DEF Visual!UploadBaseline, Visual!Put
    <3>2. m \in DOMAIN staged[d] => m \in DOMAIN staged'[d] /\ staged'[d][m] = staged[d][m]
        BY <1>a, <2>3 DEF Visual!UploadBaseline, Visual!persistBaseline, Visual!Put,
           InstancesTyped
    <3>3. Read(d, m)' => Read(d, m)
        BY <1>a, <2>a, <2>3 DEF Read
    <3> QED BY <1>a, <3>1, <3>2, <3>3 DEF SeenIsStaged
  <2> QED BY <2>2, <2>3
<1>10. RowsTell'
    BY DEF RowsTell, Visual!UploadBaseline
<1>11. Visual!ApprovedPasses'
    BY <1>a, <1>b DEF Visual!ApprovedPasses
<1> QED BY <1>1, <1>2, <1>3, <1>4, <1>5, <1>6, <1>7, <1>8, <1>9, <1>10, <1>11

\* A definition is submitted.
LEMMA submitDefinitionLemma ==
  ASSUME BaselinesInv, Visual!ProjectsTyped, Visual!submitDefinition
  PROVE  BaselinesInv'
<1>0. project' = project
    BY DEF Visual!submitDefinition
<1> USE <1>0, SameProject DEF BaselinesInv
<1>a. /\ cmd.at = "submit" /\ cmd.def \in Visual!Defs /\
         result' = [result EXCEPT ![cmd.def] = "submitted"]
      /\ UNCHANGED <<project, look, known, rows, files, review, dir, lastTaken, runNumber, accidents>>
      /\ UNCHANGED <<staged, mounted, pos, failures, seen>>
    BY DEF Visual!submitDefinition, CommandTyped
<1>b. /\ cmd' \in [at : {"submit", "poll"}, def : Visual!Defs \cup {0}, todo : SUBSET Visual!ShotNames]
      /\ cmd'.at = "submit" => cmd'.def = cmd.def + 1 /\ cmd'.def \in Visual!Defs
  <2>1. CASE cmd.def + 1 \in Visual!Defs
    <3>1. cmd' = [cmd EXCEPT !.def = @ + 1]
        BY <2>1 DEF Visual!submitDefinition
    <3> QED BY <1>a, <2>1, <3>1 DEF CommandTyped
  <2>2. CASE cmd.def + 1 \notin Visual!Defs
    <3>1. cmd' = [at |-> "poll", def |-> 0, todo |-> {}]
        BY <2>2 DEF Visual!submitDefinition, Visual!Idle
    <3> QED BY <3>1
  <2> QED BY <2>1, <2>2
<1>c. \A d \in Visual!Defs : d \in Nat /\ d # 0
    BY ProjectFacts
<1>1. WorldTyped'
    BY DEF WorldTyped, Visual!submitDefinition
<1>2. CommandTyped'
    BY <1>a, <1>b, <1>c DEF CommandTyped
<1>3. InstancesTyped'
    BY DEF InstancesTyped, Visual!submitDefinition
<1>4. CapturesTyped'
    BY DEF CapturesTyped, Taken, Visual!submitDefinition
<1>5. Pending'
    BY DEF Pending, Taken, Visual!submitDefinition
<1>6. Staging'
  <2>1. cmd'.at = "submit" => \A d \in Visual!Defs : d >= cmd'.def => result'[d] = "none"
      BY <1>a, <1>b, <1>c DEF Staging
  <2>2. \A a \in rows : a.run = runNumber => result'[a.def] \in {"running", "PASSED", "FAILED"}
      BY <1>a, <1>c DEF Staging
  <2> QED BY <1>a, <1>b, <1>c, <2>1, <2>2 DEF Staging
<1>7. FilesAreTheirs'
    BY DEF FilesAreTheirs, Visual!submitDefinition
<1>8. LastIsBaseline'
    BY DEF LastIsBaseline, Visual!submitDefinition
<1>9. SeenIsStaged'
    BY DEF SeenIsStaged, Read, Visual!submitDefinition
<1>10. RowsTell'
    BY DEF RowsTell, Visual!submitDefinition
<1>11. Visual!ApprovedPasses'
    BY DEF Visual!ApprovedPasses, Visual!submitDefinition
<1> QED BY <1>1, <1>2, <1>3, <1>4, <1>5, <1>6, <1>7, <1>8, <1>9, <1>10, <1>11

\* The run is over, and a review may begin.
LEMMA EndRunLemma ==
  ASSUME BaselinesInv, Visual!ProjectsTyped, Visual!EndRun
  PROVE  BaselinesInv'
<1>0. project' = project
    BY DEF Visual!EndRun
<1> USE <1>0, SameProject DEF BaselinesInv
<1>1. WorldTyped'
    BY DEF WorldTyped, Visual!EndRun
<1>2. CommandTyped'
    BY DEF CommandTyped, Visual!EndRun, Visual!Idle
<1>3. InstancesTyped'
    BY DEF InstancesTyped, Visual!EndRun
<1>4. CapturesTyped'
    BY DEF CapturesTyped, Taken, Visual!EndRun
<1>5. Pending'
    BY DEF Pending, Taken, Visual!EndRun
<1>6. Staging'
    BY DEF Staging, Visual!EndRun, Visual!Idle
<1>7. FilesAreTheirs'
    BY DEF FilesAreTheirs, Visual!EndRun
<1>8. LastIsBaseline'
    BY DEF LastIsBaseline, Visual!EndRun
<1>9. SeenIsStaged'
    BY DEF SeenIsStaged, Read, Visual!EndRun, Visual!Idle
<1>10. RowsTell'
    BY DEF RowsTell, Visual!EndRun
<1>11. Visual!ApprovedPasses'
    BY DEF Visual!ApprovedPasses, Visual!EndRun
<1> QED BY <1>1, <1>2, <1>3, <1>4, <1>5, <1>6, <1>7, <1>8, <1>9, <1>10, <1>11

\* Its agent is created with what is staged.
LEMMA DeployLemma ==
  ASSUME BaselinesInv, Visual!ProjectsTyped, NEW d \in Visual!Defs, Visual!Deploy(d)
  PROVE  BaselinesInv'
<1>0. project' = project
    BY DEF Visual!Deploy
<1> USE <1>0, SameProject DEF BaselinesInv
<1>1. WorldTyped'
    BY DEF WorldTyped, Visual!Deploy
<1>2. CommandTyped'
    BY DEF CommandTyped, Visual!Deploy
<1>3. InstancesTyped'
    BY DEF InstancesTyped, Visual!Deploy
<1>4. CapturesTyped'
    BY DEF CapturesTyped, Taken, Visual!Deploy
<1>5. Pending'
    BY DEF Pending, Taken, Visual!Deploy
<1>6. Staging'
    BY DEF Staging, Visual!Deploy
<1>7. FilesAreTheirs'
    BY DEF FilesAreTheirs, Visual!Deploy
<1>8. LastIsBaseline'
    BY DEF LastIsBaseline, Visual!Deploy
<1>9. SeenIsStaged'
    BY DEF SeenIsStaged, Read, Visual!Deploy
<1>10. RowsTell'
    BY DEF RowsTell, Visual!Deploy
<1>11. Visual!ApprovedPasses'
    BY DEF Visual!ApprovedPasses, Visual!Deploy
<1> QED BY <1>1, <1>2, <1>3, <1>4, <1>5, <1>6, <1>7, <1>8, <1>9, <1>10, <1>11

\* executeTests reports what became of the shots.
LEMMA CompleteLemma ==
  ASSUME BaselinesInv, Visual!ProjectsTyped, NEW d \in Visual!Defs, Visual!Complete(d)
  PROVE  BaselinesInv'
<1>0. project' = project
    BY DEF Visual!Complete
<1> USE <1>0, SameProject DEF BaselinesInv
<1>1. WorldTyped'
    BY DEF WorldTyped, Visual!Complete
<1>2. CommandTyped'
    BY DEF CommandTyped, Visual!Complete
<1>3. InstancesTyped'
    BY DEF InstancesTyped, Visual!Complete
<1>4. CapturesTyped'
    BY DEF CapturesTyped, Taken, Visual!Complete
<1>5. Pending'
    BY DEF Pending, Taken, Visual!Complete
<1>6. Staging'
    BY DEF Staging, Visual!Complete
<1>7. FilesAreTheirs'
    BY DEF FilesAreTheirs, Visual!Complete
<1>8. LastIsBaseline'
    BY DEF LastIsBaseline, Visual!Complete
<1>9. SeenIsStaged'
    BY DEF SeenIsStaged, Read, Visual!Complete
<1>10. RowsTell'
    BY DEF RowsTell, Visual!Complete
<1>11. Visual!ApprovedPasses'
    BY DEF Visual!ApprovedPasses, Visual!Complete
<1> QED BY <1>1, <1>2, <1>3, <1>4, <1>5, <1>6, <1>7, <1>8, <1>9, <1>10, <1>11

\* A shot is taken, judged by its baseline, and uploaded with its verdict.
LEMMA ScreenshotLemma ==
  ASSUME BaselinesInv, Visual!ProjectsTyped, NEW d \in Visual!Defs,
         NEW lost \in {"none", "screenshot", "diff"}, Visual!Screenshot(d, lost)
  PROVE  BaselinesInv'
<1>0. project' = project
    BY DEF Visual!Screenshot
<1> USE <1>0, SameProject DEF BaselinesInv
<1>s. PICK s : s = pos[d] + 1
    OBVIOUS
<1>i. PICK image : image = look[d][s]
    OBVIOUS
<1>v. PICK verdict : verdict = Visual!Match(d, project[d][s], image)
    OBVIOUS
<1>k. PICK capture : capture = Visual!Artifact(d, s, "screenshot", image, verdict)
    OBVIOUS
<1>t. PICK diff : diff = Visual!Artifact(d, s, "diff", image, "none")
    OBVIOUS
<1>p. /\ result[d] = "running" /\ s \in DOMAIN project[d] /\ Visual!Accident(lost # "none")
      /\ UNCHANGED <<project, look, known, review, dir, lastTaken, runNumber, cmd, staged, mounted,
         seen>>
    BY <1>s DEF Visual!Screenshot
<1>a. /\ result[d] = "running" /\ s \in DOMAIN project[d] /\ accidents' \in Nat
      /\ UNCHANGED <<project, look, known, review, dir, lastTaken, runNumber, cmd, staged, mounted,
         seen>>
    BY <1>p DEF Visual!Accident, WorldTyped
<1>b. \/ result' = [result EXCEPT ![d] = "FAILED"] /\ UNCHANGED <<rows, files, pos, failures>>
      \/ /\ Visual!persist({capture}) \/ Visual!persist({capture, diff})
         /\ pos' = [pos EXCEPT ![d] = s]
         /\ failures' = [failures EXCEPT ![d] = IF Visual!Fails(verdict) THEN @ \cup {s} ELSE @]
         /\ UNCHANGED result
    <2>1. CASE lost = "screenshot"
        BY <2>1 DEF Visual!Screenshot
    <2>2. CASE lost # "screenshot" /\ verdict = "fail" /\ lost # "diff"
      <3>1. {capture} \cup {diff} = {capture, diff}
          OBVIOUS
      <3> QED BY <1>s, <1>i, <1>v, <1>k, <1>t, <2>2, <3>1 DEF Visual!Screenshot
    <2>3. CASE lost # "screenshot" /\ ~(verdict = "fail" /\ lost # "diff")
      <3>1. {capture} \cup {} = {capture}
          OBVIOUS
      <3> QED BY <1>s, <1>i, <1>v, <1>k, <1>t, <2>3, <3>1 DEF Visual!Screenshot
    <2> QED BY <2>1, <2>2, <2>3
<1>g. pos[d] \in Nat /\ s \in Nat /\ s = pos[d] + 1 /\ s <= Len(project[d]) /\ d \in Nat /\
        runNumber \in Nat
    BY <1>s, <1>a DEF WorldTyped, InstancesTyped
<1>c. /\ pos[d] \in Nat /\ s \in Nat /\ s = pos[d] + 1 /\ s <= Len(project[d]) /\ d \in Nat /\
         runNumber \in Nat
      /\ image \in Images /\ verdict \in {"none", "pass", "fail", "no-baseline"}
      /\ project[d][s] \in Visual!ShotType
    BY <1>i, <1>v, <1>g, <1>a DEF Visual!Match, WorldTyped
<1>d. /\ capture.run = runNumber /\ capture.def = d /\ capture.shot = s /\
         capture.name = project[d][s].name
      /\ capture.type = "screenshot" /\ capture.image = image /\ capture.verdict = verdict
      /\ diff.run = runNumber /\ diff.def = d /\ diff.shot = s /\ diff.name = project[d][s].name
      /\ diff.type = "diff" /\ diff.image = image
      /\ capture \in Row /\ diff \in Row
    BY <1>k, <1>t, <1>c DEF Visual!Artifact, Row, Verdicts, Visual!ShotType
<1>e. /\ cmd.at # "upload" /\ runNumber # 0
    BY <1>a DEF Staging
<1>f. ASSUME Visual!persist({capture}) \/ Visual!persist({capture, diff})
      PROVE  /\ rows' = rows \cup {capture} \/ rows' = rows \cup {capture, diff}
             /\ DOMAIN files' \subseteq DOMAIN files \cup {Visual!Key(capture), Visual!Key(diff)}
             /\ \A k \in DOMAIN files' : \/ files'[k] = image
                                         \/ k \in DOMAIN files /\ files'[k] = files[k]
             /\ files'[Visual!Key(capture)] = image
             /\ \A k \in DOMAIN files' : k # Visual!Key(capture) /\ k.folder = "screenshot" =>
                    k \in DOMAIN files /\ files'[k] = files[k]
  <2>1. PICK new : (new = {capture} \/ new = {capture, diff}) /\ Visual!persist(new)
      BY <1>f
  <2>2. capture.image = image /\ diff.image = image /\ capture.type = "screenshot" /\ diff.type = "diff"
      BY <1>d
  <2>3. /\ rows' = rows \cup new
        /\ DOMAIN files' = DOMAIN files \cup {Visual!Key(r) : r \in new}
        /\ \A k \in DOMAIN files' : \/ files'[k] = capture.image
                                    \/ k \in DOMAIN files /\ files'[k] = files[k]
        /\ files'[Visual!Key(capture)] = capture.image
        /\ \A k \in DOMAIN files' : k # Visual!Key(capture) /\ k.folder = "screenshot" =>
               k \in DOMAIN files /\ files'[k] = files[k]
      BY <2>1, <2>2, Persisted
  <2>4. {Visual!Key(r) : r \in new} \subseteq {Visual!Key(capture), Visual!Key(diff)}
      BY <2>1
  <2> QED BY <2>1, <2>2, <2>3, <2>4
<1>1. WorldTyped'
    BY <1>a DEF WorldTyped
<1>2. CommandTyped'
    BY <1>a DEF CommandTyped
<1>3. InstancesTyped'
  <2>1. \A e \in Visual!Defs : pos'[e] = pos[e] \/ (e = d /\ pos'[e] = s)
      BY <1>b DEF InstancesTyped
  <2>2. pos' \in [Visual!Defs -> Nat] /\ \A e \in Visual!Defs : pos'[e] <= Len(project[e]) /\
          pos[e] <= pos'[e]
    <3>1. pos' \in [Visual!Defs -> Nat]
        BY <1>b, <1>c DEF InstancesTyped
    <3>2. ASSUME NEW e \in Visual!Defs
          PROVE  pos'[e] <= Len(project[e]) /\ pos[e] <= pos'[e]
      <4>1. pos[e] \in Nat /\ pos[e] <= Len(project[e])
          BY DEF InstancesTyped
      <4> QED BY <1>c, <2>1, <4>1
    <3> QED BY <3>1, <3>2
  <2>3. DOMAIN failures' = Visual!Defs /\ \A e \in Visual!Defs : failures'[e] \subseteq 1..pos'[e]
    <3>1. DOMAIN failures' = Visual!Defs
        BY <1>b DEF InstancesTyped
    <3>2. ASSUME NEW e \in Visual!Defs
          PROVE  failures'[e] \subseteq 1..pos'[e]
      <4>1. failures[e] \subseteq 1..pos[e] /\ pos[e] \in Nat /\ pos'[e] \in Nat /\ pos[e] <= pos'[e]
          BY <2>2 DEF InstancesTyped
      <4>2. failures'[e] = failures[e] \/ (failures'[e] = failures[e] \cup {s} /\ pos'[e] = s)
          BY <1>b DEF InstancesTyped
      <4> QED BY <1>c, <4>1, <4>2
    <3> QED BY <3>1, <3>2
  <2>4. result' \in [Visual!Defs -> {"none", "submitted", "running", "PASSED", "FAILED"}]
      BY <1>b DEF InstancesTyped
  <2> QED BY <1>a, <2>2, <2>3, <2>4 DEF InstancesTyped
<1>4. CapturesTyped'
  <2>0. ASSUME NEW e \in Visual!Defs
        PROVE  pos[e] \in Nat /\ pos'[e] \in Nat /\ pos[e] <= pos'[e]
    <3>1. pos[e] \in Nat /\ (pos'[e] = pos[e] \/ (e = d /\ pos'[e] = s))
        BY <1>b DEF InstancesTyped
    <3> QED BY <1>c, <3>1
  <2>1. \A a : Taken(a) => Taken(a)'
      BY <1>a, <2>0, ProjectFacts DEF Taken
  <2>2. CASE UNCHANGED <<rows, files>>
      BY <1>a, <2>1, <2>2 DEF CapturesTyped
  <2>3. CASE (Visual!persist({capture}) \/ Visual!persist({capture, diff})) /\
               pos' = [pos EXCEPT ![d] = s]
    <3>1. Taken(capture)' /\ Taken(diff)'
        BY <1>a, <1>c, <1>d, <2>3 DEF Taken, InstancesTyped
    <3>2. rows' \subseteq Row /\ \A a \in rows' : Taken(a)'
        BY <1>d, <1>f, <2>1, <2>3, <3>1 DEF CapturesTyped
    <3>3. Visual!Key(capture) \in KeyType /\ Visual!Key(diff) \in KeyType /\
            Visual!Key(capture).run = runNumber /\ Visual!Key(diff).run = runNumber
        BY <1>d DEF Visual!Key, KeyType, Row
    <3>4. DOMAIN files' \subseteq KeyType /\ \A k \in DOMAIN files' : files'[k] \in Images /\
            k.run <= runNumber
        BY <1>c, <1>f, <2>3, <3>3 DEF CapturesTyped
    <3> QED BY <1>a, <3>2, <3>4 DEF CapturesTyped
  <2> QED BY <1>b, <2>2, <2>3
<1>5. Pending'
  <2>0. ASSUME NEW e \in Visual!Defs
        PROVE  pos[e] \in Nat /\ pos'[e] \in Nat /\ pos[e] <= pos'[e]
    <3>1. pos[e] \in Nat /\ (pos'[e] = pos[e] \/ (e = d /\ pos'[e] = s))
        BY <1>b DEF InstancesTyped
    <3> QED BY <1>c, <3>1
  <2>1. \A a : Taken(a) => Taken(a)'
      BY <1>a, <2>0, ProjectFacts DEF Taken
  <2> QED BY <1>a, <2>1 DEF Pending
<1>6. Staging'
  <2>1. \A e \in Visual!Defs : result'[e] = result[e] \/ (e = d /\ result'[e] = "FAILED")
      BY <1>b DEF InstancesTyped
  <2>2. \A e \in Visual!Defs : e # d => pos'[e] = pos[e]
      BY <1>b DEF InstancesTyped
  <2>3. \A a \in rows' : a \in rows \/ a.def = d
      BY <1>b, <1>d, <1>f
  <2>4. \A a \in rows : a.def \in Visual!Defs
      BY DEF CapturesTyped, Taken
  <2>5. cmd.at = "submit" => ~(d >= cmd.def)
      BY <1>a DEF Staging
  <2> QED BY <1>a, <1>e, <2>1, <2>2, <2>3, <2>4, <2>5 DEF Staging
<1>7. FilesAreTheirs'
  <2>1. CASE UNCHANGED <<rows, files>>
      BY <1>a, <2>1 DEF FilesAreTheirs
  <2>2. CASE Visual!persist({capture}) \/ Visual!persist({capture, diff})
    <3>1. SUFFICES ASSUME NEW a \in rows' \cup review.items,
                          Visual!Key(a) \in DOMAIN files', a.type = "screenshot", ~Visual!Shared(a.name)
                   PROVE  files'[Visual!Key(a)] = a.image
        BY <1>a DEF FilesAreTheirs
    <3>2. CASE a = capture
        BY <1>d, <1>f, <2>2, <3>2
    <3>3. CASE a \in rows \cup review.items
      <4>1. Visual!Key(a).folder = "screenshot" /\ Taken(a)
          BY <3>1, <3>3 DEF Visual!Key, CapturesTyped, Pending
      <4>2. Visual!Key(a) # Visual!Key(capture)
        <5>1. SUFFICES ASSUME a.run = runNumber, a.def = d, a.name = project[d][s].name
                       PROVE  FALSE
            BY <1>d DEF Visual!Key
        <5>2. a.shot <= pos[d] /\ a.shot \in DOMAIN project[d] /\ project[d][a.shot].name = a.name
            BY <4>1, <5>1 DEF Taken
        <5>3. a.shot # s
            BY <1>a, <1>c, <5>2, ProjectFacts
        <5>4. Visual!Shared(a.name)
            BY <1>a, <5>1, <5>2, <5>3 DEF Visual!Shared
        <5> QED BY <3>1, <5>4
      <4> QED BY <1>f, <2>2, <3>1, <3>3, <4>1, <4>2 DEF FilesAreTheirs
    <3> QED BY <1>d, <1>f, <2>2, <3>1, <3>2, <3>3
  <2> QED BY <1>b, <2>1, <2>2
<1>8. LastIsBaseline'
    BY <1>a DEF LastIsBaseline
<1>9. SeenIsStaged'
    BY <1>a DEF SeenIsStaged, Read
<1>10. RowsTell'
  <2>1. CASE result' = [result EXCEPT ![d] = "FAILED"] /\ UNCHANGED <<rows, files, pos, failures>>
    <3>1. \A e \in Visual!Defs : result'[e] = "PASSED" => result[e] = "PASSED"
        BY <2>1
    <3> QED BY <1>a, <2>1, <3>1 DEF RowsTell
  <2>2. CASE /\ Visual!persist({capture}) \/ Visual!persist({capture, diff})
             /\ pos' = [pos EXCEPT ![d] = s]
             /\ failures' = [failures EXCEPT ![d] = IF Visual!Fails(verdict) THEN @ \cup {s} ELSE @]
             /\ UNCHANGED result
    <3>1. rows \subseteq rows' /\ capture \in rows'
        BY <1>f, <2>2
    <3>2. ASSUME NEW e \in Visual!Defs
          PROVE  /\ result'[e] = "PASSED" => pos'[e] = Len(project[e]) /\ failures'[e] = {}
                 /\ \A t \in 1..pos'[e] : \E a \in rows' :
                      /\ a.run = runNumber /\ a.def = e /\ a.shot = t /\ a.type = "screenshot"
                      /\ project[e][t].match /\ t \notin failures'[e] => a.verdict = "pass"
                      /\ t \in failures'[e] => a.verdict \in {"fail", "no-baseline", "approved",
                         "skipped"}
      <4>1. CASE e # d
        <5>1. pos'[e] = pos[e] /\ failures'[e] = failures[e]
            BY <2>2, <4>1
        <5> QED BY <2>2, <3>1, <5>1 DEF RowsTell
      <4>2. CASE e = d
        <5>1. pos'[d] = s /\ failures'[d] = IF Visual!Fails(verdict) THEN failures[d] \cup {s}
                ELSE failures[d]
            BY <2>2 DEF InstancesTyped
        <5>2. s \notin failures[d] /\ result'[d] # "PASSED"
            BY <1>a, <1>c, <2>2 DEF InstancesTyped
        <5>3. ASSUME NEW t \in 1..s, t # s
              PROVE  t \in 1..pos[d] /\ (t \in failures'[d] <=> t \in failures[d])
            BY <1>c, <5>1, <5>3
        <5>4. /\ project[d][s].match /\ s \notin failures'[d] => verdict = "pass"
              /\ s \in failures'[d] => verdict \in {"fail", "no-baseline"}
          <6>1. project[d][s].match => verdict \in {"pass", "fail", "no-baseline"}
              BY <1>v DEF Visual!Match
          <6> QED BY <5>1, <5>2, <6>1 DEF Visual!Fails
        <5>5. ASSUME NEW t \in 1..s
              PROVE  \E a \in rows' :
                      /\ a.run = runNumber /\ a.def = d /\ a.shot = t /\ a.type = "screenshot"
                      /\ project[d][t].match /\ t \notin failures'[d] => a.verdict = "pass"
                      /\ t \in failures'[d] => a.verdict \in {"fail", "no-baseline", "approved",
                         "skipped"}
          <6>1. CASE t = s
              BY <1>d, <3>1, <5>4, <6>1
          <6>2. CASE t # s
              BY <3>1, <5>3, <6>2 DEF RowsTell
          <6> QED BY <6>1, <6>2
        <5> QED BY <4>2, <5>1, <5>2, <5>5
      <4> QED BY <4>1, <4>2
    <3> QED BY <1>a, <3>2 DEF RowsTell
  <2> QED BY <1>b, <2>1, <2>2
<1>11. Visual!ApprovedPasses'
  <2>1. SUFFICES ASSUME NEW a \in rows', a.run = runNumber, a.type = "screenshot",
                        project[a.def][a.shot].match, a.name \in DOMAIN seen[a.def],
                        seen[a.def][a.name] # Visual!NoCapture, seen[a.def][a.name].image = a.image,
                        seen[a.def][a.name].def = a.def, seen[a.def][a.name].shot = a.shot,
                        ~Visual!Shared(a.name), ~Visual!Hidden(a.def, a.name)
                 PROVE  a.verdict = "pass"
      BY <1>a DEF Visual!ApprovedPasses
  <2>2. CASE a \in rows
      BY <2>1, <2>2 DEF Visual!ApprovedPasses
  <2>3. CASE a = capture
    <3>1. Read(d, a.name)
        BY <1>c, <1>e DEF Read
    <3>2. a.name \in DOMAIN staged[d] /\ staged[d][a.name] = image
        BY <1>d, <2>1, <2>3, <3>1 DEF SeenIsStaged
    <3>3. staged[d] # <<>>
        BY <3>2
    <3>4. d \in mounted
        BY <1>a, <3>3 DEF Staging
    <3> QED BY <1>v, <1>d, <2>1, <2>3, <3>2, <3>4 DEF Visual!Match
  <2> QED BY <1>b, <1>d, <1>f, <2>1, <2>2, <2>3
<1> QED BY <1>1, <1>2, <1>3, <1>4, <1>5, <1>6, <1>7, <1>8, <1>9, <1>10, <1>11

\* A review loads what failed in the latest run,
LEMMA loadPendingLemma ==
  ASSUME BaselinesInv, Visual!ProjectsTyped, Visual!loadPendingFromLatestRun
  PROVE  BaselinesInv'
<1>0. project' = project
    BY DEF Visual!loadPendingFromLatestRun
<1> USE <1>0, SameProject DEF BaselinesInv
<1>1. WorldTyped'
    BY DEF WorldTyped, Visual!loadPendingFromLatestRun
<1>2. CommandTyped'
    BY DEF CommandTyped, Visual!loadPendingFromLatestRun
<1>3. InstancesTyped'
    BY DEF InstancesTyped, Visual!loadPendingFromLatestRun
<1>4. CapturesTyped'
    BY DEF CapturesTyped, Taken, Visual!loadPendingFromLatestRun
<1>5. Pending'
    BY DEF CapturesTyped, Pending, Taken, Visual!loadPendingFromLatestRun,
       Visual!listPendingBaselines
<1>6. Staging'
    BY DEF Staging, Visual!loadPendingFromLatestRun
<1>7. FilesAreTheirs'
    BY DEF FilesAreTheirs, Visual!loadPendingFromLatestRun, Visual!listPendingBaselines
<1>8. LastIsBaseline'
    BY DEF LastIsBaseline, Visual!loadPendingFromLatestRun
<1>9. SeenIsStaged'
    BY DEF SeenIsStaged, Read, Visual!loadPendingFromLatestRun
<1>10. RowsTell'
    BY DEF RowsTell, Visual!loadPendingFromLatestRun
<1>11. Visual!ApprovedPasses'
    BY DEF Visual!ApprovedPasses, Visual!loadPendingFromLatestRun
<1> QED BY <1>1, <1>2, <1>3, <1>4, <1>5, <1>6, <1>7, <1>8, <1>9, <1>10, <1>11

\* approves all of it,
LEMMA approveAllLemma ==
  ASSUME BaselinesInv, Visual!ProjectsTyped, Visual!approveAll
  PROVE  BaselinesInv'
<1>0. project' = project
    BY DEF Visual!approveAll
<1> USE <1>0, SameProject DEF BaselinesInv
<1>1. WorldTyped'
    BY DEF WorldTyped, Visual!approveAll
<1>2. CommandTyped'
    BY DEF CommandTyped, Visual!approveAll
<1>3. InstancesTyped'
    BY DEF InstancesTyped, Visual!approveAll
<1>4. CapturesTyped'
    BY DEF CapturesTyped, Taken, Visual!approveAll
<1>5. Pending'
  <2>1. UNCHANGED <<project, runNumber, pos>>
      BY DEF Visual!approveAll
  <2>2. PICK those \in SUBSET review.items : review' = [review EXCEPT !.all = those]
      BY DEF Visual!approveAll
  <2>3. review'.items = review.items /\ review'.all \subseteq review.items /\
          review' \in [items : SUBSET Row, all : SUBSET Row]
      BY <2>2 DEF Pending
  <2> QED BY <2>1, <2>3 DEF Pending, Taken
<1>6. Staging'
    BY DEF Staging, Visual!approveAll
<1>7. FilesAreTheirs'
    BY DEF FilesAreTheirs, Visual!approveAll
<1>8. LastIsBaseline'
    BY DEF LastIsBaseline, Visual!approveAll
<1>9. SeenIsStaged'
    BY DEF SeenIsStaged, Read, Visual!approveAll
<1>10. RowsTell'
    BY DEF RowsTell, Visual!approveAll
<1>11. Visual!ApprovedPasses'
    BY DEF Visual!ApprovedPasses, Visual!approveAll
<1> QED BY <1>1, <1>2, <1>3, <1>4, <1>5, <1>6, <1>7, <1>8, <1>9, <1>10, <1>11

\* or ends;
LEMMA QuitLemma ==
  ASSUME BaselinesInv, Visual!ProjectsTyped, Visual!Quit
  PROVE  BaselinesInv'
<1>0. project' = project
    BY DEF Visual!Quit
<1> USE <1>0, SameProject DEF BaselinesInv
<1>1. WorldTyped'
    BY DEF WorldTyped, Visual!Quit
<1>2. CommandTyped'
    BY DEF CommandTyped, Visual!Quit
<1>3. InstancesTyped'
    BY DEF InstancesTyped, Visual!Quit
<1>4. CapturesTyped'
    BY DEF CapturesTyped, Taken, Visual!Quit
<1>5. Pending'
    BY DEF Pending, Visual!Quit, Visual!NoReview
<1>6. Staging'
    BY DEF Staging, Visual!Quit
<1>7. FilesAreTheirs'
    BY DEF FilesAreTheirs, Visual!Quit, Visual!NoReview
<1>8. LastIsBaseline'
    BY DEF LastIsBaseline, Visual!Quit
<1>9. SeenIsStaged'
    BY DEF SeenIsStaged, Read, Visual!Quit
<1>10. RowsTell'
    BY DEF RowsTell, Visual!Quit
<1>11. Visual!ApprovedPasses'
    BY DEF Visual!ApprovedPasses, Visual!Quit
<1> QED BY <1>1, <1>2, <1>3, <1>4, <1>5, <1>6, <1>7, <1>8, <1>9, <1>10, <1>11

\* it approves one: the file, the verdict, the list;
LEMMA ApproveLemma ==
  ASSUME BaselinesInv, Visual!ProjectsTyped, NEW item \in review.items, NEW fails \in BOOLEAN,
         Visual!Approve(item, fails)
  PROVE  BaselinesInv'
<1>0. project' = project
    BY DEF Visual!Approve
<1> USE <1>0, SameProject DEF BaselinesInv
<1>a. /\ UNCHANGED <<project, look, known, files, runNumber, cmd, staged, mounted, pos, failures,
         result, seen>>
      /\ accidents' \in Nat
    BY DEF Visual!Approve, Visual!updateVerdict, Visual!Accident, WorldTyped
<1>b. /\ rows' \subseteq Row
      /\ \A b \in rows' : \E a \in rows : Alike(a, b)
      /\ \A a \in rows : \E b \in rows' : Alike(a, b)
    BY RowsAlike DEF Visual!Approve
<1>c. /\ review'.items = review.items \ {item} /\ review'.all = review.all \ {item}
      /\ review' = [items |-> review.items \ {item}, all |-> review.all \ {item}]
    BY DEF Visual!Approve, Visual!Reviewed
<1>d. item \in Row /\ item.type = "screenshot" /\ Taken(item)
    BY DEF Pending
<1>e. \/ UNCHANGED <<dir, lastTaken>>
      \/ /\ Visual!Key(item) \in DOMAIN files
         /\ dir' = Visual!Put(dir, item.name, files[Visual!Key(item)]) /\
            lastTaken' = Visual!Put(lastTaken, item.name, item)
    BY DEF Visual!Approve, Visual!writeBaseline
<1>f. DOMAIN dir \subseteq DOMAIN dir' /\ DOMAIN lastTaken \subseteq DOMAIN lastTaken'
    BY <1>e DEF Visual!Put
<1>1. WorldTyped'
    BY <1>a DEF WorldTyped
<1>2. CommandTyped'
    BY <1>a, <1>d, <1>e, <1>f DEF CommandTyped, CapturesTyped, Visual!Put, Row
<1>3. InstancesTyped'
    BY <1>a DEF InstancesTyped
<1>4. CapturesTyped'
  <2>1. \A n \in DOMAIN lastTaken' : lastTaken'[n] \in Row /\ lastTaken'[n].name = n
      BY <1>d, <1>e DEF CapturesTyped, Visual!Put
  <2> QED BY <1>a, <1>b, <2>1 DEF CapturesTyped, Taken, Alike
<1>5. Pending'
    BY <1>a, <1>c DEF Pending, Taken
<1>6. Staging'
    BY <1>a, <1>b DEF Staging, Alike
<1>7. FilesAreTheirs'
  <2>1. ASSUME NEW b \in rows'
        PROVE  Visual!Key(b) \in DOMAIN files /\ b.type = "screenshot" /\ ~Visual!Shared(b.name) =>
                 files[Visual!Key(b)] = b.image
    <3>1. PICK a \in rows : Alike(a, b)
        BY <1>b
    <3>2. Visual!Key(b) = Visual!Key(a)
        BY <3>1 DEF Alike, Visual!Key
    <3> QED BY <3>1, <3>2 DEF FilesAreTheirs, Alike
  <2>2. ASSUME NEW b \in review'.items
        PROVE  Visual!Key(b) \in DOMAIN files /\ b.type = "screenshot" /\ ~Visual!Shared(b.name) =>
                 files[Visual!Key(b)] = b.image
      BY <1>c DEF FilesAreTheirs
  <2> QED BY <1>a, <2>1, <2>2 DEF FilesAreTheirs
<1>8. LastIsBaseline'
  <2>1. Visual!Key(item) \in DOMAIN files /\ ~Visual!Shared(item.name) =>
          files[Visual!Key(item)] = item.image
      BY <1>d DEF FilesAreTheirs
  <2> QED BY <1>e, <2>1 DEF LastIsBaseline, Visual!Put
<1>9. SeenIsStaged'
    BY <1>a, <1>f DEF SeenIsStaged, Read
<1>10. RowsTell'
  <2>1. SUFFICES ASSUME NEW d \in Visual!Defs, NEW s \in 1..pos[d]
                 PROVE  \E b \in rows' :
                            /\ b.run = runNumber /\ b.def = d /\ b.shot = s /\ b.type = "screenshot"
                            /\ project[d][s].match /\ s \notin failures[d] => b.verdict = "pass"
                            /\ s \in failures[d] => b.verdict \in {"fail", "no-baseline", "approved",
                               "skipped"}
      BY <1>a DEF RowsTell
  <2>2. PICK a \in rows :
            /\ a.run = runNumber /\ a.def = d /\ a.shot = s /\ a.type = "screenshot"
            /\ project[d][s].match /\ s \notin failures[d] => a.verdict = "pass"
            /\ s \in failures[d] => a.verdict \in {"fail", "no-baseline", "approved", "skipped"}
      BY DEF RowsTell
  <2>3. PICK b \in rows' : Alike(a, b)
      BY <1>b
  <2> QED BY <2>2, <2>3 DEF Alike
<1>11. Visual!ApprovedPasses'
  <2>1. SUFFICES ASSUME NEW b \in rows', b.run = runNumber, b.type = "screenshot",
                        project[b.def][b.shot].match, b.name \in DOMAIN seen[b.def],
                        seen[b.def][b.name] # Visual!NoCapture, seen[b.def][b.name].def = b.def,
                        seen[b.def][b.name].shot = b.shot, seen[b.def][b.name].image = b.image,
                        ~Visual!Shared(b.name), ~Visual!Hidden(b.def, b.name)
                 PROVE  b.verdict = "pass"
      BY <1>a DEF Visual!ApprovedPasses
  <2>2. PICK a \in rows : Alike(a, b)
      BY <1>b
  <2>3. a.verdict = "pass"
      BY <2>1, <2>2 DEF Visual!ApprovedPasses, Alike
  <2> QED BY <2>2, <2>3 DEF Alike
<1> QED BY <1>1, <1>2, <1>3, <1>4, <1>5, <1>6, <1>7, <1>8, <1>9, <1>10, <1>11

\* or skips it.
LEMMA SkipLemma ==
  ASSUME BaselinesInv, Visual!ProjectsTyped, NEW item \in review.items, NEW fails \in BOOLEAN,
         Visual!Skip(item, fails)
  PROVE  BaselinesInv'
<1>0. project' = project
    BY DEF Visual!Skip
<1> USE <1>0, SameProject DEF BaselinesInv
<1>a. /\ UNCHANGED <<project, look, known, files, runNumber, cmd, staged, mounted, pos, failures,
         result, seen>>
      /\ accidents' \in Nat
    BY DEF Visual!Skip, Visual!updateVerdict, Visual!Accident, WorldTyped
<1>b. /\ rows' \subseteq Row
      /\ \A b \in rows' : \E a \in rows : Alike(a, b)
      /\ \A a \in rows : \E b \in rows' : Alike(a, b)
    BY RowsAlike DEF Visual!Skip
<1>c. /\ review'.items = review.items \ {item} /\ review'.all = review.all \ {item}
      /\ review' = [items |-> review.items \ {item}, all |-> review.all \ {item}]
    BY DEF Visual!Skip, Visual!Reviewed
<1>1. WorldTyped'
    BY <1>a DEF WorldTyped
<1>2. CommandTyped'
    BY DEF CommandTyped, Visual!Skip
<1>3. InstancesTyped'
    BY <1>a DEF InstancesTyped
<1>4. CapturesTyped'
  <2>1. UNCHANGED lastTaken
      BY DEF Visual!Skip
  <2> QED BY <1>a, <1>b, <2>1 DEF CapturesTyped, Taken, Alike
<1>5. Pending'
    BY <1>a, <1>c DEF Pending, Taken
<1>6. Staging'
    BY <1>a, <1>b DEF Staging, Alike
<1>7. FilesAreTheirs'
  <2>1. ASSUME NEW b \in rows'
        PROVE  Visual!Key(b) \in DOMAIN files /\ b.type = "screenshot" /\ ~Visual!Shared(b.name) =>
                 files[Visual!Key(b)] = b.image
    <3>1. PICK a \in rows : Alike(a, b)
        BY <1>b
    <3>2. Visual!Key(b) = Visual!Key(a)
        BY <3>1 DEF Alike, Visual!Key
    <3> QED BY <3>1, <3>2 DEF FilesAreTheirs, Alike
  <2>2. ASSUME NEW b \in review'.items
        PROVE  Visual!Key(b) \in DOMAIN files /\ b.type = "screenshot" /\ ~Visual!Shared(b.name) =>
                 files[Visual!Key(b)] = b.image
      BY <1>c DEF FilesAreTheirs
  <2> QED BY <1>a, <2>1, <2>2 DEF FilesAreTheirs
<1>8. LastIsBaseline'
    BY DEF LastIsBaseline, Visual!Skip
<1>9. SeenIsStaged'
    BY <1>a DEF SeenIsStaged, Read, Visual!Skip
<1>10. RowsTell'
  <2>1. SUFFICES ASSUME NEW d \in Visual!Defs, NEW s \in 1..pos[d]
                 PROVE  \E b \in rows' :
                            /\ b.run = runNumber /\ b.def = d /\ b.shot = s /\ b.type = "screenshot"
                            /\ project[d][s].match /\ s \notin failures[d] => b.verdict = "pass"
                            /\ s \in failures[d] => b.verdict \in {"fail", "no-baseline", "approved",
                               "skipped"}
      BY <1>a DEF RowsTell
  <2>2. PICK a \in rows :
            /\ a.run = runNumber /\ a.def = d /\ a.shot = s /\ a.type = "screenshot"
            /\ project[d][s].match /\ s \notin failures[d] => a.verdict = "pass"
            /\ s \in failures[d] => a.verdict \in {"fail", "no-baseline", "approved", "skipped"}
      BY DEF RowsTell
  <2>3. PICK b \in rows' : Alike(a, b)
      BY <1>b
  <2> QED BY <2>2, <2>3 DEF Alike
<1>11. Visual!ApprovedPasses'
  <2>1. SUFFICES ASSUME NEW b \in rows', b.run = runNumber, b.type = "screenshot",
                        project[b.def][b.shot].match, b.name \in DOMAIN seen[b.def],
                        seen[b.def][b.name] # Visual!NoCapture, seen[b.def][b.name].def = b.def,
                        seen[b.def][b.name].shot = b.shot, seen[b.def][b.name].image = b.image,
                        ~Visual!Shared(b.name), ~Visual!Hidden(b.def, b.name)
                 PROVE  b.verdict = "pass"
      BY <1>a DEF Visual!ApprovedPasses
  <2>2. PICK a \in rows : Alike(a, b)
      BY <1>b
  <2>3. a.verdict = "pass"
      BY <2>1, <2>2 DEF Visual!ApprovedPasses, Alike
  <2> QED BY <2>2, <2>3 DEF Alike
<1> QED BY <1>1, <1>2, <1>3, <1>4, <1>5, <1>6, <1>7, <1>8, <1>9, <1>10, <1>11

\* The application looks different from now on.
LEMMA ChangeLookLemma ==
  ASSUME BaselinesInv, Visual!ProjectsTyped, Visual!ChangeLook
  PROVE  BaselinesInv'
<1>0. project' = project
    BY DEF Visual!ChangeLook
<1> USE <1>0, SameProject DEF BaselinesInv
<1>1. WorldTyped'
    BY DEF WorldTyped, Visual!ChangeLook, Visual!Accident
<1>2. CommandTyped'
    BY DEF CommandTyped, Visual!ChangeLook
<1>3. InstancesTyped'
    BY DEF InstancesTyped, Visual!ChangeLook
<1>4. CapturesTyped'
    BY DEF CapturesTyped, Taken, Visual!ChangeLook
<1>5. Pending'
    BY DEF Pending, Taken, Visual!ChangeLook
<1>6. Staging'
    BY DEF Staging, Visual!ChangeLook
<1>7. FilesAreTheirs'
    BY DEF FilesAreTheirs, Visual!ChangeLook
<1>8. LastIsBaseline'
    BY DEF LastIsBaseline, Visual!ChangeLook
<1>9. SeenIsStaged'
    BY DEF SeenIsStaged, Read, Visual!ChangeLook
<1>10. RowsTell'
    BY DEF RowsTell, Visual!ChangeLook
<1>11. Visual!ApprovedPasses'
    BY DEF Visual!ApprovedPasses, Visual!ChangeLook
<1> QED BY <1>1, <1>2, <1>3, <1>4, <1>5, <1>6, <1>7, <1>8, <1>9, <1>10, <1>11

\* An old run is purged from the history.
LEMMA PurgeLemma ==
  ASSUME BaselinesInv, Visual!ProjectsTyped, Visual!Purge
  PROVE  BaselinesInv'
<1>0. project' = project
    BY DEF Visual!Purge
<1> USE <1>0, SameProject DEF BaselinesInv
<1>1. WorldTyped'
    BY DEF WorldTyped, Visual!Purge, Visual!Accident
<1>2. CommandTyped'
    BY DEF CommandTyped, Visual!Purge
<1>3. InstancesTyped'
    BY DEF InstancesTyped, Visual!Purge
<1>4. CapturesTyped'
  <2>1. /\ rows' \subseteq rows /\ UNCHANGED <<project, runNumber, pos, lastTaken>>
        /\ files' = [k \in {l \in DOMAIN files : l.run = runNumber} |-> files[k]]
      BY DEF Visual!Purge
  <2>2. \A k \in DOMAIN files' : k \in DOMAIN files /\ files'[k] = files[k]
      BY <2>1
  <2> QED BY <2>1, <2>2 DEF CapturesTyped, Taken
<1>5. Pending'
    BY DEF Pending, Taken, Visual!Purge
<1>6. Staging'
    BY DEF Staging, Visual!Purge
<1>7. FilesAreTheirs'
    BY DEF FilesAreTheirs, Visual!Purge
<1>8. LastIsBaseline'
    BY DEF LastIsBaseline, Visual!Purge
<1>9. SeenIsStaged'
    BY DEF SeenIsStaged, Read, Visual!Purge
<1>10. RowsTell'
    BY DEF RowsTell, Visual!Purge
<1>11. Visual!ApprovedPasses'
    BY DEF Visual!ApprovedPasses, Visual!Purge
<1> QED BY <1>1, <1>2, <1>3, <1>4, <1>5, <1>6, <1>7, <1>8, <1>9, <1>10, <1>11

\* A definition gets another name.
LEMMA RenameLemma ==
  ASSUME BaselinesInv, Visual!ProjectsTyped, Visual!Rename
  PROVE  BaselinesInv'
<1>0. project' = project
    BY DEF Visual!Rename
<1> USE <1>0, SameProject DEF BaselinesInv
<1>1. WorldTyped'
    BY DEF WorldTyped, Visual!Rename, Visual!Accident
<1>2. CommandTyped'
    BY DEF CommandTyped, Visual!Rename
<1>3. InstancesTyped'
    BY DEF InstancesTyped, Visual!Rename
<1>4. CapturesTyped'
    BY DEF CapturesTyped, Taken, Visual!Rename
<1>5. Pending'
    BY DEF Pending, Taken, Visual!Rename
<1>6. Staging'
    BY DEF Staging, Visual!Rename
<1>7. FilesAreTheirs'
    BY DEF FilesAreTheirs, Visual!Rename
<1>8. LastIsBaseline'
    BY DEF LastIsBaseline, Visual!Rename
<1>9. SeenIsStaged'
    BY DEF SeenIsStaged, Read, Visual!Rename
<1>10. RowsTell'
    BY DEF RowsTell, Visual!Rename
<1>11. Visual!ApprovedPasses'
    BY DEF Visual!ApprovedPasses, Visual!Rename
<1> QED BY <1>1, <1>2, <1>3, <1>4, <1>5, <1>6, <1>7, <1>8, <1>9, <1>10, <1>11

-----------------------------------------------------------------------------
\* A project begins in the invariant,
LEMMA BaselinesInit ==
  ASSUME Visual!Init, Visual!ProjectsTyped
  PROVE  BaselinesInv
<1>1. /\ project \in Seq(Seq(Visual!ShotType)) /\ project # <<>>
      /\ DOMAIN look = Visual!Defs /\ \A d \in Visual!Defs : look[d] \in [DOMAIN project[d] -> Images]
      /\ runNumber = 0 /\ cmd = Visual!Idle /\ review = Visual!NoReview /\ accidents = 0
      /\ staged = [d \in Visual!Defs |-> <<>>] /\ pos = [d \in Visual!Defs |-> 0]
      /\ failures = [d \in Visual!Defs |-> {}] /\ result = [d \in Visual!Defs |-> "none"]
      /\ mounted = {} /\ rows = {} /\ files = <<>> /\ known = Visual!Defs
      /\ lastTaken = <<>> /\ seen = [d \in Visual!Defs |-> <<>>]
    BY DEF Visual!Init, Visual!ProjectsTyped
<1>2. DOMAIN dir \subseteq Visual!ShotNames /\ \A n \in DOMAIN dir : dir[n] \in Images
  <2>1. PICK names \in SUBSET {"one"} : dir = [n \in names |-> 1]
      BY DEF Visual!Init
  <2>2. names \subseteq Visual!ShotNames
    <3>1. "one" \in Visual!ShotNames
        BY DEF Visual!ShotNames
    <3>2. \A n \in names : n = "one"
        OBVIOUS
    <3> QED BY <3>1, <3>2
  <2>3. 1 \in Images
      BY DEF Visual!ProjectsTyped
  <2> QED BY <2>1, <2>2, <2>3
<1>3. \A f : f = <<>> => DOMAIN f = {}
    OBVIOUS
<1>4. \A d \in Visual!Defs : Len(project[d]) \in Nat /\ DOMAIN project[d] = 1..Len(project[d])
    BY <1>1
<1>a. WorldTyped
    BY <1>1 DEF WorldTyped
<1>b. CommandTyped
    BY <1>1, <1>2 DEF CommandTyped, Visual!Idle
<1>c. InstancesTyped
    BY <1>1, <1>4 DEF InstancesTyped
<1>d. CapturesTyped
    BY <1>1, <1>3 DEF CapturesTyped
<1>e. Pending
    BY <1>1 DEF Pending, Visual!NoReview
<1>f. Staging
    BY <1>1 DEF Staging, Visual!Idle
<1>g. FilesAreTheirs
    BY <1>1 DEF FilesAreTheirs
<1>h. LastIsBaseline
    BY <1>1, <1>3 DEF LastIsBaseline
<1>i. SeenIsStaged
  <2>1. \A d \in Visual!Defs : DOMAIN seen[d] = {}
      BY <1>1, <1>3
  <2> QED BY <2>1 DEF SeenIsStaged
<1>j. RowsTell
  <2>1. \A d \in Visual!Defs : result[d] # "PASSED" /\ 1..pos[d] = {}
      BY <1>1
  <2> QED BY <2>1 DEF RowsTell
<1>k. Visual!ApprovedPasses
    BY <1>1 DEF Visual!ApprovedPasses
<1> QED BY <1>a, <1>b, <1>c, <1>d, <1>e, <1>f, <1>g, <1>h, <1>i, <1>j, <1>k DEF BaselinesInv

\* keeps it in each step,
LEMMA BaselinesStep ==
  ASSUME BaselinesInv, Visual!ProjectsTyped, [Visual!Next]_Visual!vars
  PROVE  BaselinesInv'
<1>1. CASE UNCHANGED Visual!vars
  <2> USE <1>1 DEF Visual!vars, BaselinesInv
  <2>1. WorldTyped' /\ CommandTyped' /\ InstancesTyped'
      BY DEF WorldTyped, CommandTyped, InstancesTyped
  <2>2. CapturesTyped' /\ Pending' /\ Staging'
      BY DEF CapturesTyped, Pending, Staging, Taken
  <2>3. FilesAreTheirs' /\ LastIsBaseline' /\ SeenIsStaged'
      BY SameProject DEF FilesAreTheirs, LastIsBaseline, SeenIsStaged, Read
  <2>4. RowsTell' /\ Visual!ApprovedPasses'
      BY SameProject DEF RowsTell, Visual!ApprovedPasses
  <2> QED BY <2>1, <2>2, <2>3, <2>4
<1>2. ASSUME Visual!CreateRun \/ Visual!NextDefinition \/ Visual!submitDefinition \/ Visual!EndRun
      PROVE  BaselinesInv'
    BY <1>2, CreateRunLemma, NextDefinitionLemma, submitDefinitionLemma, EndRunLemma
<1>3. ASSUME NEW n \in cmd.todo, NEW fails \in BOOLEAN, Visual!UploadBaseline(n, fails)
      PROVE  BaselinesInv'
    BY <1>3, UploadBaselineLemma
<1>4. ASSUME NEW d \in Visual!Defs, Visual!Deploy(d) \/ Visual!Complete(d)
      PROVE  BaselinesInv'
    BY <1>4, DeployLemma, CompleteLemma
<1>5. ASSUME NEW d \in Visual!Defs, NEW lost \in {"none", "screenshot", "diff"},
               Visual!Screenshot(d, lost)
      PROVE  BaselinesInv'
    BY <1>5, ScreenshotLemma
<1>6. ASSUME Visual!loadPendingFromLatestRun \/ Visual!approveAll \/ Visual!Quit
      PROVE  BaselinesInv'
    BY <1>6, loadPendingLemma, approveAllLemma, QuitLemma
<1>7. ASSUME NEW item \in review.items, NEW fails \in BOOLEAN, Visual!Approve(item, fails) \/
               Visual!Skip(item, fails)
      PROVE  BaselinesInv'
    BY <1>7, ApproveLemma, SkipLemma
<1>8. ASSUME Visual!ChangeLook \/ Visual!Purge \/ Visual!Rename
      PROVE  BaselinesInv'
    BY <1>8, ChangeLookLemma, PurgeLemma, RenameLemma
<1> QED BY <1>1, <1>2, <1>3, <1>4, <1>5, <1>6, <1>7, <1>8 DEF Visual!Next

\* and it implies what is to be shown.
LEMMA BaselinesInvImplies ==
  ASSUME BaselinesInv
  PROVE  Visual!ApprovedPasses /\ Visual!FailuresCanBeReviewed /\ Visual!BaselineWasTaken
<1> USE DEF BaselinesInv
<1>1. Visual!FailuresCanBeReviewed
  <2>1. SUFFICES ASSUME NEW d \in Visual!Defs
                 PROVE  /\ result[d] = "PASSED" =>
                            \A s \in DOMAIN project[d] : \E a \in rows :
                                /\ a.run = runNumber /\ a.def = d /\ a.shot = s /\ a.type = "screenshot"
                                /\ project[d][s].match => a.verdict = "pass"
                        /\ \A s \in failures[d] : \E a \in rows :
                                /\ a.run = runNumber /\ a.def = d /\ a.shot = s
                                /\ a.verdict \in {"fail", "no-baseline", "approved", "skipped"}
      BY DEF Visual!FailuresCanBeReviewed
  <2>2. failures[d] \subseteq 1..pos[d]
      BY DEF InstancesTyped
  <2>3. result[d] = "PASSED" => DOMAIN project[d] = 1..pos[d] /\ failures[d] = {}
      BY DEF RowsTell
  <2> QED BY <2>2, <2>3 DEF RowsTell
<1>2. Visual!BaselineWasTaken
    BY DEF Visual!BaselineWasTaken, LastIsBaseline, CapturesTyped
<1> QED BY <1>1, <1>2

=============================================================================
