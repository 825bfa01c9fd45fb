------------------------ MODULE StepValidationProofs ------------------------
(***************************************************************************)
(* Proofs about the steps of the test agent and the logs they are judged   *)
(* by, for any programs, any amount of traffic and any timing.             *)
(***************************************************************************)
EXTENDS StepValidation, FiniteSetTheorems, TLAPS

USE DEF vars, clockVars, logVars, verdictVars

-----------------------------------------------------------------------------
(* The inductive invariant.                                                *)

Busy == pc \in {"acting", "polling", "decided"}

\* The steps up to cur, and no others, have begun, one after the other.
BegunInOrder ==
    /\ Busy => cur > 0
    /\ \A i \in Steps : i > cur => begun[i] = 0
    /\ \A i \in Steps : i =< cur => begun[i] > 0
    /\ \A i, j \in Steps : i < j /\ j =< cur => begun[i] < begun[j]

\* Nothing of test prog[cur].test between j and cur has been done but waiting.
LastAction(j) ==
    /\ prog[j].test = prog[cur].test /\ prog[j].kind # "wait"
    /\ \A k \in (j + 1)..cur : prog[k].test = prog[cur].test => prog[k].kind = "wait"

\* prevStart is the beginning of the last step of the test that is no wait; it
\* is out of date only while such a step acts.
InheritsOwnTest ==
    \/ prevStart = 0
    \/ pc = "done"
    \/ pc = "acting" /\ prog[cur].kind # "wait"
    \/ \E j \in 1..cur : LastAction(j) /\ prevStart = begun[j]

\* A request is logged during its step.
RequestsInTime ==
    \A k \in Steps : at[<<k, 0>>] > 0 =>
        /\ k =< cur /\ begun[k] =< at[<<k, 0>>]
        /\ \A j \in Steps : k < j /\ j =< cur => at[<<k, 0>>] < begun[j]

\* A verdict rests on logs that were captured before the next step began.
CountedInTime ==
    \A i \in Steps : \A l \in counted[i] :
        /\ i =< cur
        /\ prog[i].kind # "wait" => begun[i] =< at[l]
        /\ \A j \in Steps : i < j /\ j =< cur => at[l] < begun[j]

\* What was flushed is older than the window of the current step, and than that
\* of the wait that may come next.
FlushedBefore ==
    /\ Busy => \A l \in flushed : at[l] < WindowStart
    /\ pc = "between" /\ 0 < cur /\ cur < Len(prog) /\ prevStart # 0 /\ SkipFlush =>
        \A l \in flushed : at[l] < prevStart

\* A step has no verdict before it is decided.
NotDecidedYet ==
    \A i \in Steps :
        i > cur \/ (i = cur /\ pc \in {"acting", "polling"}) => verdict[i] = "none"

IInv ==
    /\ TypeOK
    /\ BegunInOrder
    /\ NotDecidedYet
    /\ InheritsOwnTest
    /\ RequestsInTime
    /\ CountedInTime
    /\ NoForeignLogs
    /\ FlushedBefore
    /\ OwnLogFirst

-----------------------------------------------------------------------------
(* What the state is made of.                                              *)

\* The steps of a program are numbered, and stay what they are.
LEMMA StepsAre ==
  ASSUME TypeOK
  PROVE  /\ prog \in Seq(Step) /\ Len(prog) \in Nat
         /\ Steps = 1..Len(prog)
         /\ \A i \in Steps : prog[i] \in Step
  BY StepValidationAssumption DEF TypeOK, Steps

\* No step changes the program, so none changes its steps and their logs.
LEMMA ProgramStays ==
  ASSUME [Next]_vars
  PROVE  prog' = prog /\ Steps' = Steps /\ Logs' = Logs
  <1>1. prog' = prog
    BY DEF Next, Capture, Arrive, Executor, BeginStep, EndAction, FailAction,
           Decide, Conclude, Finish, Tick
  <1> QED BY <1>1 DEF Steps, Logs

\* There are finitely many logs.
LEMMA LogsAreFinite ==
  ASSUME TypeOK
  PROVE  IsFiniteSet(Logs)
  <1>1. Logs \subseteq (0..Len(prog)) \X (0..Traffic)
    BY StepsAre, StepValidationAssumption DEF Logs
  <1>2. IsFiniteSet((0..Len(prog)) \X (0..Traffic))
    <2>1. IsFiniteSet(0..Len(prog)) /\ IsFiniteSet(0..Traffic)
      BY FS_Interval, StepsAre, StepValidationAssumption
    <2> QED BY <2>1, FS_Product
  <1> QED BY <1>1, <1>2, FS_Subset

\* A log of a request is that of a step.
LEMMA RequestLogs ==
  /\ \A l \in Logs : IsRequestLog(l) => \E k \in Steps : l = <<k, 0>>
  /\ \A k \in Steps : <<k, 0>> \in Logs
  BY DEF Logs, IsRequestLog

\* The beginning of a window is an instant that has been.
LEMMA WindowIsPast ==
  ASSUME TypeOK, cur \in Steps
  PROVE  WindowStart \in 0..now
  BY DEF TypeOK, WindowStart

-----------------------------------------------------------------------------
(* The invariant holds when the tests begin.                               *)

\* No step has begun and no log is there.
LEMMA InvInit == Init => IInv
  <1> SUFFICES ASSUME Init PROVE IInv
    OBVIOUS
  <1>1. prog \in Seq(Step) /\ Len(prog) \in Nat /\ Steps = 1..Len(prog)
    BY StepValidationAssumption DEF Init, Steps
  <1>2. TypeOK
    BY <1>1 DEF Init, TypeOK
  <1>3. BegunInOrder /\ InheritsOwnTest /\ FlushedBefore
    BY <1>1 DEF Init, BegunInOrder, Busy, InheritsOwnTest, FlushedBefore
  <1>4. RequestsInTime
    BY RequestLogs DEF Init, RequestsInTime
  <1>5. CountedInTime /\ NoForeignLogs /\ OwnLogFirst /\ NotDecidedYet
    BY DEF Init, CountedInTime, NoForeignLogs, OwnLogFirst, NotDecidedYet
  <1> QED BY <1>2, <1>3, <1>4, <1>5 DEF IInv

-----------------------------------------------------------------------------
(* Every step preserves the invariant: one lemma for each of its parts.    *)

\* Variables keep their types; prevStart remains the beginning of a step, since
\* the step that begins is one that had not begun.
LEMMA TypeStep ==
  ASSUME IInv, [Next]_vars
  PROVE  TypeOK'
  <1> USE ProgramStays, StepsAre DEF IInv
  <1>1. ASSUME NEW l \in Logs, Capture(l)
        PROVE  TypeOK'
    BY <1>1 DEF Capture, TypeOK
  <1>2. ASSUME NEW l \in Logs, Arrive(l)
        PROVE  TypeOK'
    BY <1>2 DEF Arrive, OnItsWay, TypeOK
  <1>3. CASE BeginStep
    <2>1. cur + 1 \in Steps
      BY <1>3 DEF BeginStep, TypeOK
    <2>2. begun[cur + 1] = 0
      BY <2>1, <1>3 DEF BeginStep, BegunInOrder, TypeOK
    <2>3. begun' \in [Steps -> 0..now'] /\ now' \in Nat
      BY <1>3 DEF BeginStep, TypeOK
    <2>4. prevStart' = 0 \/ \E i \in Steps : prevStart' = begun'[i]
      BY <1>3, <2>1, <2>2 DEF BeginStep, TypeOK, TestStartTime
    <2>5. at' \in [Logs -> 0..now'] /\ ended' \in 0..now'
      BY <1>3 DEF BeginStep, TypeOK
    <2> QED BY <1>3, <2>1, <2>3, <2>4, <2>5 DEF BeginStep, TypeOK
  <1>4. CASE EndAction
    BY <1>4 DEF EndAction, TypeOK, BegunInOrder, Busy
  <1>5. CASE FailAction
    BY <1>5 DEF FailAction, TypeOK
  <1>6. CASE Decide
    <2>1. Visible \in SUBSET Logs
      BY DEF Visible, TypeOK
    <2> QED BY <1>6, <2>1 DEF Decide, TypeOK
  <1>7. CASE Conclude
    <2>1. /\ buffer' \subseteq {l \in Logs : at[l] > 0}
          /\ flushed' \subseteq {l \in Logs : at[l] > 0}
          /\ buffer' \cap flushed' = {}
      BY <1>7 DEF Conclude, TypeOK
    <2> QED BY <1>7, <2>1 DEF Conclude, TypeOK
  <1>8. CASE Finish
    BY <1>8 DEF Finish, TypeOK
  <1>9. CASE Tick
    <2>1. now' = now + 1 /\ now' \in Nat
      BY <1>9 DEF Tick, TypeOK
    <2>2. begun' \in [Steps -> 0..now'] /\ at' \in [Logs -> 0..now'] /\ ended' \in 0..now'
      BY <1>9, <2>1 DEF Tick, TypeOK
    <2> QED BY <1>9, <2>1, <2>2 DEF Tick, TypeOK
  <1>10. CASE UNCHANGED vars
    BY <1>10 DEF TypeOK
  <1> QED
    BY <1>1, <1>2, <1>3, <1>4, <1>5, <1>6, <1>7, <1>8, <1>9, <1>10 DEF Next, Executor

\* A step begins at an instant when none has begun, and the clock only goes on.
LEMMA BegunStep ==
  ASSUME IInv, [Next]_vars
  PROVE  BegunInOrder'
  <1> USE ProgramStays, StepsAre DEF IInv, BegunInOrder
  <1>1. CASE BeginStep
    <2>1. \A i \in Steps : begun[i] \in 0..now
      BY DEF TypeOK
    <2>2. \A i \in Steps : begun'[i] = IF i = cur + 1 THEN now + 1 ELSE begun[i]
      BY <1>1 DEF BeginStep, TypeOK
    <2> QED BY <1>1, <2>1, <2>2 DEF BeginStep, TypeOK, Busy
  <1>2. CASE ~BeginStep
    <2>1. begun' = begun /\ cur' = cur
      BY <1>2 DEF Next, Executor, Capture, Arrive, EndAction, FailAction, Decide,
                  Conclude, Finish, Tick
    <2>2. Busy' => Busy
      BY <1>2 DEF Busy, Next, Executor, Capture, Arrive, EndAction, FailAction,
                  Decide, Conclude, Finish, Tick
    <2> QED BY <2>1, <2>2
  <1> QED BY <1>1, <1>2

\* The executor decides the step it is at, once.
LEMMA UndecidedStep ==
  ASSUME IInv, [Next]_vars
  PROVE  NotDecidedYet'
  <1> USE ProgramStays, StepsAre DEF IInv, NotDecidedYet
  <1>1. CASE Decide
    <2>1. pc' = "decided" /\ cur' = cur /\ \A i \in Steps : i # cur => verdict'[i] = verdict[i]
      BY <1>1 DEF Decide, TypeOK
    <2> QED BY <2>1 DEF TypeOK
  <1>2. CASE BeginStep
    <2>1. cur' = cur + 1 /\ verdict' = verdict /\ cur \in Nat
      BY <1>2 DEF BeginStep, TypeOK
    <2>2. ASSUME NEW i \in Steps, i >= cur + 1
          PROVE  verdict[i] = "none"
      <3>1. i \in Nat /\ i > cur
        BY <2>1, <2>2
      <3> QED BY <3>1
    <2> QED BY <2>1, <2>2
  <1>3. CASE ~Decide /\ ~BeginStep
    <2>1. verdict' = verdict /\ cur' = cur
      BY <1>3 DEF Next, Executor, Capture, Arrive, EndAction, FailAction, Conclude,
                  Finish, Tick
    <2>2. pc' \in {"acting", "polling"} => pc \in {"acting", "polling"}
      BY <1>3 DEF Next, Executor, Capture, Arrive, EndAction, FailAction, Conclude,
                  Finish, Tick
    <2> QED BY <2>1, <2>2
  <1> QED BY <1>1, <1>2, <1>3

\* ResetStepTime and RecordStepTime: a wait goes back to a step of its own test.
LEMMA InheritStep ==
  ASSUME IInv, [Next]_vars
  PROVE  InheritsOwnTest'
  <1> USE ProgramStays, StepsAre DEF IInv, InheritsOwnTest, LastAction
  <1>1. CASE BeginStep
    <2>1. cur \in Nat /\ cur' = cur + 1 /\ pc' = "acting" /\ cur + 1 \in Steps
      BY <1>1 DEF BeginStep, TypeOK
    <2>2. \A i \in Steps : i =< cur => begun'[i] = begun[i]
      BY <1>1 DEF BeginStep, TypeOK
    <2>3. CASE prevStart' = 0
      BY <2>3
    <2>4. CASE prevStart' # 0 /\ prog[cur + 1].kind = "wait"
      <3>1. /\ cur # 0 /\ prog[cur].test = prog[cur + 1].test
            /\ prevStart' = prevStart /\ prevStart # 0
        BY <1>1, <2>1, <2>4 DEF BeginStep, TestStartTime
      <3>2. PICK j \in 1..cur : LastAction(j) /\ prevStart = begun[j]
        BY <1>1, <3>1 DEF BeginStep
      <3>3. j \in 1..cur' /\ prevStart' = begun'[j]
        BY <2>1, <2>2, <3>1, <3>2
      <3>4. \A k \in (j + 1)..cur' : prog[k].test = prog[cur'].test => prog[k].kind = "wait"
        BY <2>1, <2>4, <3>1, <3>2
      <3> QED BY <2>1, <3>1, <3>2, <3>3, <3>4
    <2> QED BY <2>1, <2>3, <2>4
  <1>2. CASE EndAction
    <2>1. cur \in Steps /\ begun' = begun /\ cur' = cur
      BY <1>2 DEF EndAction, TypeOK, BegunInOrder, Busy
    <2>2. CASE prog[cur].kind = "wait"
      BY <1>2, <2>1, <2>2 DEF EndAction
    <2>3. CASE prog[cur].kind # "wait"
      <3>1. LastAction(cur) /\ prevStart' = begun[cur]
        BY <1>2, <2>1, <2>3 DEF EndAction
      <3> QED BY <2>1, <3>1
    <2> QED BY <2>2, <2>3
  <1>3. CASE ~BeginStep /\ ~EndAction
    <2>1. begun' = begun /\ cur' = cur /\ prevStart' = prevStart
      BY <1>3 DEF Next, Executor, Capture, Arrive, FailAction, Decide, Conclude,
                  Finish, Tick
    <2>2. pc' = pc \/ pc' = "done" \/ pc \in {"polling", "decided"}
      BY <1>3 DEF Next, Executor, Capture, Arrive, FailAction, Decide, Conclude,
                  Finish, Tick
    <2> QED BY <2>1, <2>2
  <1> QED BY <1>1, <1>2, <1>3

\* The request of a step passes its sidecar between the step's beginning and the
\* next one's.
LEMMA RequestsStep ==
  ASSUME IInv, [Next]_vars
  PROVE  RequestsInTime'
  <1> USE ProgramStays, StepsAre, RequestLogs DEF IInv, RequestsInTime
  <1>1. ASSUME NEW l \in Logs, Capture(l)
        PROVE  RequestsInTime'
    <2>1. begun' = begun /\ cur' = cur /\ at' = [at EXCEPT ![l] = now]
      BY <1>1 DEF Capture
    <2>2. SUFFICES ASSUME NEW k \in Steps, at'[<<k, 0>>] > 0, l = <<k, 0>>
                   PROVE  /\ k =< cur /\ begun[k] =< at'[<<k, 0>>]
                          /\ \A j \in Steps : k < j /\ j =< cur => at'[<<k, 0>>] < begun[j]
      BY <2>1 DEF TypeOK
    <2>3. IsRequestLog(l)
      BY <2>2 DEF IsRequestLog
    <2>4. k = cur
      BY <1>1, <2>2, <2>3 DEF Capture, CaptureTraffic, CaptureRequest
    <2> QED BY <2>1, <2>2, <2>4 DEF TypeOK
  <1>2. CASE BeginStep
    <2>1. cur + 1 \in Steps /\ cur' = cur + 1 /\ at' = at
      BY <1>2 DEF BeginStep, TypeOK
    <2>2. \A i \in Steps : begun'[i] = IF i = cur + 1 THEN now + 1 ELSE begun[i]
      BY <1>2 DEF BeginStep, TypeOK
    <2>3. SUFFICES ASSUME NEW k \in Steps, at[<<k, 0>>] > 0
                   PROVE  /\ k =< cur + 1 /\ begun'[k] =< at[<<k, 0>>]
                          /\ \A j \in Steps : k < j /\ j =< cur + 1 => at[<<k, 0>>] < begun'[j]
      BY <2>1
    <2>4. at[<<k, 0>>] \in 0..now /\ k =< cur /\ k \in Nat /\ cur \in Nat /\ now \in Nat
      BY <2>3 DEF TypeOK
    <2>5. begun'[k] =< at[<<k, 0>>]
      BY <2>2, <2>3, <2>4
    <2>6. ASSUME NEW j \in Steps, k < j, j =< cur + 1
          PROVE  at[<<k, 0>>] < begun'[j]
      BY <2>2, <2>3, <2>4, <2>6
    <2> QED BY <2>4, <2>5, <2>6
  <1>3. CASE UNCHANGED <<begun, cur, at>>
    BY <1>3
  <1>4. (\E l \in Logs : Capture(l)) \/ BeginStep \/ UNCHANGED <<begun, cur, at>>
    BY DEF Next, Executor, Arrive, EndAction, FailAction, Decide, Conclude, Finish, Tick
  <1> QED BY <1>1, <1>2, <1>3, <1>4

\* The logs a verdict rests on are those in the buffer when it is made: they are
\* older than any step that begins later, and within the window of the step.
LEMMA CountedStep ==
  ASSUME IInv, [Next]_vars
  PROVE  CountedInTime' /\ NoForeignLogs'
  <1> USE ProgramStays, StepsAre DEF IInv, CountedInTime, NoForeignLogs, WaitsFor
  <1>0. \A i \in Steps : counted[i] \subseteq Logs /\ \A l \in Logs : at[l] \in 0..now
    BY DEF TypeOK
  <1>1. ASSUME NEW l \in Logs, Capture(l)
        PROVE  CountedInTime' /\ NoForeignLogs'
    <2>1. \A m \in Logs : at'[m] >= at[m] /\ (m # l => at'[m] = at[m])
      BY <1>0, <1>1 DEF Capture, TypeOK
    <2>2. ASSUME NEW i \in Steps, l \in counted[i]
          PROVE  FALSE
      <3>1. at[l] = 0
        BY <1>1 DEF Capture
      <3>2. begun[i] > 0 /\ \A j \in 1..(i - 1) : begun[j] > 0
        BY <2>2 DEF BegunInOrder, TypeOK
      <3> QED BY <1>0, <2>2, <3>1, <3>2 DEF TypeOK
    <2>3. UNCHANGED <<begun, cur, counted>>
      BY <1>1 DEF Capture
    <2> QED BY <1>0, <2>1, <2>2, <2>3
  <1>2. CASE BeginStep
    <2>1. cur + 1 \in Steps /\ cur' = cur + 1 /\ UNCHANGED <<at, counted>>
      BY <1>2 DEF BeginStep, TypeOK
    <2>2. \A i \in Steps : begun'[i] = IF i = cur + 1 THEN now + 1 ELSE begun[i]
      BY <1>2 DEF BeginStep, TypeOK
    <2>3. ASSUME NEW i \in Steps, NEW l \in counted[i]
          PROVE  /\ i =< cur + 1
                 /\ prog[i].kind # "wait" => begun'[i] =< at[l]
                 /\ \A j \in Steps : i < j /\ j =< cur + 1 => at[l] < begun'[j]
                 /\ \/ at[l] >= begun'[i]
                    \/ /\ prog[i].kind = "wait"
                       /\ \E j \in 1..(i - 1) : WaitsFor(i, j) /\ at[l] >= begun'[j]
      <3>1. i =< cur /\ i \in Nat /\ cur \in Nat /\ at[l] \in 0..now /\ now \in Nat
        BY <1>0 DEF TypeOK
      <3>2. begun'[i] = begun[i] /\ \A j \in 1..(i - 1) : begun'[j] = begun[j]
        BY <2>2, <3>1
      <3>3. ASSUME NEW j \in Steps, i < j, j =< cur + 1
            PROVE  at[l] < begun'[j]
        BY <2>2, <3>1, <3>3
      <3>4. \/ at[l] >= begun[i]
            \/ prog[i].kind = "wait" /\ \E j \in 1..(i - 1) : WaitsFor(i, j) /\ at[l] >= begun[j]
        OBVIOUS
      <3> QED BY <3>1, <3>2, <3>3, <3>4
    <2> QED BY <2>1, <2>3
  <1>3. CASE Decide
    <2>1. cur \in Steps /\ UNCHANGED <<begun, cur, at>>
      BY <1>3 DEF Decide, TypeOK, BegunInOrder, Busy
    <2>2. counted' = [counted EXCEPT ![cur] = Visible]
      BY <1>3 DEF Decide
    <2>3. SUFFICES ASSUME NEW l \in Visible
                   PROVE  /\ prog[cur].kind # "wait" => begun[cur] =< at[l]
                          /\ \/ at[l] >= begun[cur]
                             \/ /\ prog[cur].kind = "wait"
                                /\ \E j \in 1..(cur - 1) : WaitsFor(cur, j) /\ at[l] >= begun[j]
      <3>1. \A i \in Steps : counted'[i] = IF i = cur THEN Visible ELSE counted[i]
        BY <2>1, <2>2 DEF TypeOK
      <3>2. cur \in Nat
        BY DEF TypeOK
      <3> QED BY <2>1, <3>1, <3>2
    <2>4. WindowStart =< at[l]
      BY DEF Visible, InWindow
    <2>5. CASE prog[cur].kind # "wait" \/ prevStart = 0
      BY <1>0, <2>1, <2>4, <2>5 DEF WindowStart, TypeOK, Visible
    <2>6. CASE prog[cur].kind = "wait" /\ prevStart # 0
      <3>1. PICK j \in 1..cur : LastAction(j) /\ prevStart = begun[j]
        BY <1>3, <2>6 DEF InheritsOwnTest, Decide
      <3>2. j \in 1..(cur - 1)
        BY <2>1, <2>6, <3>1 DEF LastAction
      <3>3. WaitsFor(cur, j)
        BY <2>1, <3>1, <3>2 DEF LastAction
      <3> QED BY <1>0, <2>4, <2>6, <3>1, <3>2, <3>3 DEF WindowStart, TypeOK, Visible
    <2> QED BY <2>5, <2>6
  <1>4. CASE UNCHANGED <<begun, cur, at, counted>>
    BY <1>4
  <1>5. \/ \E l \in Logs : Capture(l)
        \/ BeginStep \/ Decide
        \/ UNCHANGED <<begun, cur, at, counted>>
    BY DEF Next, Executor, Arrive, EndAction, FailAction, Conclude, Finish, Tick
  <1> QED BY <1>1, <1>2, <1>3, <1>4, <1>5

\* A flush throws away what was captured before the next step begins; if a wait
\* comes next, there was no flush since the step it waits for began.
LEMMA FlushedStep ==
  ASSUME IInv, [Next]_vars
  PROVE  FlushedBefore'
  <1> USE ProgramStays, StepsAre DEF IInv, FlushedBefore, Busy
  <1>0. /\ \A l \in flushed : l \in Logs /\ at[l] \in 0..now
        /\ \A l \in Logs : at[l] \in 0..now
        /\ cur \in Nat /\ now \in Nat
    BY DEF TypeOK
  <1>1. ASSUME NEW l \in Logs, Capture(l)
        PROVE  FlushedBefore'
    <2>1. l \notin flushed
      BY <1>1 DEF Capture, TypeOK
    <2>2. \A m \in Logs : m # l => at'[m] = at[m]
      BY <1>1 DEF Capture, TypeOK
    <2>3. UNCHANGED <<prog, pc, cur, clockVars, flushed>>
      BY <1>1 DEF Capture
    <2> QED BY <1>0, <2>1, <2>2, <2>3 DEF WindowStart, SkipFlush
  <1>2. CASE BeginStep
    <2>1. cur + 1 \in Steps /\ cur' = cur + 1 /\ pc' = "acting" /\ UNCHANGED <<at, flushed>>
      BY <1>2 DEF BeginStep, TypeOK
    <2>2. begun'[cur + 1] = now + 1
      BY <1>2, <2>1 DEF BeginStep, TypeOK
    <2>3. CASE prog[cur + 1].kind # "wait" \/ prevStart' = 0
      BY <1>0, <2>1, <2>2, <2>3 DEF WindowStart
    <2>4. CASE prog[cur + 1].kind = "wait" /\ prevStart' # 0
      <3>1. /\ 0 < cur /\ cur < Len(prog) /\ SkipFlush
            /\ prevStart' = prevStart
        BY <1>0, <1>2, <2>1, <2>4 DEF BeginStep, TestStartTime, SkipFlush
      <3>2. \A l \in flushed : at[l] < prevStart
        BY <1>2, <2>4, <3>1 DEF BeginStep
      <3> QED BY <2>1, <2>4, <3>1, <3>2 DEF WindowStart
    <2> QED BY <2>3, <2>4
  <1>3. CASE EndAction
    <2>1. cur \in Steps /\ UNCHANGED <<prog, cur, begun, at, flushed>> /\ pc' \in {"between", "polling"}
      BY <1>3 DEF EndAction, TypeOK, BegunInOrder
    <2>2. \A l \in flushed : at[l] < WindowStart
      BY <1>3 DEF EndAction
    <2>3. CASE prog[cur].kind = "wait"
      BY <1>3, <2>1, <2>2, <2>3 DEF EndAction, WindowStart
    <2>4. CASE prog[cur].kind # "wait"
      BY <1>3, <2>1, <2>2, <2>4 DEF EndAction, WindowStart
    <2> QED BY <2>3, <2>4
  <1>4. CASE Conclude
    <2>1. UNCHANGED <<prog, cur, clockVars, at>> /\ pc' \in {"between", "done"} /\ pc = "decided"
      BY <1>4 DEF Conclude
    <2>2. CASE SkipFlush
      <3>1. flushed' = flushed /\ \A l \in flushed : at[l] < WindowStart
        BY <1>4, <2>1, <2>2 DEF Conclude
      <3>2. ASSUME prevStart # 0
            PROVE  WindowStart = prevStart
        <4>1. PICK j \in 1..cur : LastAction(j) /\ prevStart = begun[j]
          BY <2>1, <3>2 DEF InheritsOwnTest
        <4>2. prog[cur].kind # "wait" => j = cur
          BY <1>0, <4>1 DEF LastAction
        <4> QED BY <3>2, <4>1, <4>2 DEF WindowStart
      <3> QED BY <2>1, <3>1, <3>2
    <2>3. CASE ~SkipFlush
      BY <2>1, <2>3 DEF SkipFlush
    <2> QED BY <2>2, <2>3
  <1>5. CASE UNCHANGED <<prog, pc, cur, prevStart, begun, at, flushed>>
    BY <1>5 DEF WindowStart, SkipFlush
  <1>6. CASE pc' = "done"
    BY <1>6
  <1>7. CASE Decide
    BY <1>7 DEF Decide, WindowStart
  <1>8. \/ \E l \in Logs : Capture(l)
        \/ BeginStep \/ EndAction \/ Conclude \/ Decide
        \/ pc' = "done"
        \/ UNCHANGED <<prog, pc, cur, prevStart, begun, at, flushed>>
    BY DEF Next, Executor, Arrive, FailAction, Finish, Tick
  <1> QED BY <1>1, <1>2, <1>3, <1>4, <1>5, <1>6, <1>7, <1>8

\* Of the requests' logs only that of the current step lies in its window.
LEMMA OwnStep ==
  ASSUME IInv, [Next]_vars
  PROVE  OwnLogFirst'
  <1> USE ProgramStays, StepsAre, RequestLogs DEF IInv, OwnLogFirst
  <1>1. CASE Decide
    <2>1. cur \in Steps
      BY <1>1 DEF Decide, TypeOK, BegunInOrder, Busy
    <2>2. \A i \in Steps : i # cur => verdict'[i] = verdict[i] /\ counted'[i] = counted[i]
      BY <1>1 DEF Decide, TypeOK
    <2>3. ASSUME verdict'[cur] = "passed", prog[cur].kind = "request"
          PROVE  <<cur, 0>> \in counted'[cur]
      <3>1. Passes(Visible) /\ counted'[cur] = Visible
        BY <1>1, <2>1, <2>3 DEF Decide, TypeOK
      <3>2. PICK l \in Visible : IsRequestLog(l)
        BY <2>3, <3>1 DEF Passes, Pending
      <3>3. l \in Logs /\ at[l] > 0
        BY DEF Visible, TypeOK
      <3>4. PICK k \in Steps : l = <<k, 0>>
        BY <3>2, <3>3
      <3>5. begun[cur] =< at[<<k, 0>>]
        BY <2>3, <3>4 DEF Visible, InWindow, WindowStart
      <3>6. k =< cur /\ (k < cur => at[<<k, 0>>] < begun[cur])
        BY <2>1, <3>3, <3>4 DEF RequestsInTime
      <3>7. begun[cur] \in Nat /\ at[<<k, 0>>] \in Nat /\ k \in Nat /\ cur \in Nat
        BY <2>1, <3>3, <3>4 DEF TypeOK
      <3>8. k = cur
        BY <3>5, <3>6, <3>7
      <3> QED BY <3>1, <3>4, <3>8
    <2> QED BY <2>1, <2>2, <2>3
  <1>2. CASE UNCHANGED <<verdict, counted>>
    BY <1>2
  <1> QED
    BY <1>1, <1>2 DEF Next, Executor, Capture, Arrive, BeginStep, EndAction,
       FailAction, Conclude, Finish, Tick

\* The invariant is inductive.
LEMMA Invariance == Spec => []IInv
  <1>1. IInv /\ [Next]_vars => IInv'
    <2> SUFFICES ASSUME IInv, [Next]_vars PROVE IInv'
      OBVIOUS
    <2> QED BY TypeStep, BegunStep, UndecidedStep, InheritStep, RequestsStep, CountedStep,
               FlushedStep, OwnStep DEF IInv
  <1> QED BY InvInit, <1>1, PTL DEF Spec

-----------------------------------------------------------------------------
(* The theorems.                                                           *)

\* The variables of the executor and of the log buffer keep their types; a log
\* is in the buffer or flushed, and not both.
THEOREM TypeCorrect == Spec => []TypeOK
  BY Invariance, PTL DEF IInv

\* No verdict rests on the logs of another test or of a step before the one it is
\* about, for any programs and any delays of the logs.
THEOREM NoForeign == Spec => []NoForeignLogs
  BY Invariance, PTL DEF IInv

\* No log is counted by two steps that do something: the second begins after every
\* log that the first has seen, though their windows may overlap.
THEOREM CountedOnce == Spec => []CountedByOneStep
  <1>1. IInv => CountedByOneStep
    <2> SUFFICES ASSUME IInv, NEW i \in Steps, NEW j \in Steps, i # j,
                        prog[i].kind # "wait", prog[j].kind # "wait",
                        NEW l \in counted[i], l \in counted[j]
                 PROVE  FALSE
      BY DEF CountedByOneStep
    <2>1. i \in Nat /\ j \in Nat /\ i =< cur /\ j =< cur
      BY StepsAre DEF IInv, CountedInTime
    <2>2. begun[i] =< at[l] /\ begun[j] =< at[l]
      BY DEF IInv, CountedInTime
    <2>3. (i < j => at[l] < begun[j]) /\ (j < i => at[l] < begun[i])
      BY <2>1 DEF IInv, CountedInTime
    <2>4. begun[i] \in Nat /\ begun[j] \in Nat /\ at[l] \in Nat
      BY DEF IInv, TypeOK
    <2> QED BY <2>1, <2>2, <2>3, <2>4
  <1> QED BY <1>1, Invariance, PTL

\* A wait finds what the step it waits for has left: no flush took a log that its
\* window covers.
THEOREM WaitInherits == Spec => []WaitInheritsLogs
  <1>1. IInv => WaitInheritsLogs
    <2> SUFFICES ASSUME IInv, pc = "polling", NEW l \in flushed, InWindow(l)
                 PROVE  FALSE
      BY DEF WaitInheritsLogs
    <2>1. at[l] < WindowStart /\ WindowStart =< at[l]
      BY DEF IInv, FlushedBefore, Busy, InWindow
    <2>2. cur \in Steps /\ at[l] \in Nat
      BY StepsAre DEF IInv, TypeOK, BegunInOrder, Busy
    <2>3. WindowStart \in Nat
      BY <2>2, WindowIsPast DEF IInv, TypeOK
    <2> QED BY <2>1, <2>2, <2>3
  <1> QED BY <1>1, Invariance, PTL

\* A request passes only on the evidence of its own log.
THEOREM OwnLog == Spec => []OwnLogFirst
  BY Invariance, PTL DEF IInv

\* More logs do not make an assertion hold that fails and is not repairable, unless
\* it is one on a field of a match.
LEMMA FailsForGood ==
  ASSUME NEW a \in Assertion, a.op # "field", NEW k \in Nat, NEW more \in Nat,
         ~Holds(a, k), ~Repairable(a, k)
  PROVE  ~Holds(a, k + more)
  <1>1. a.n \in Nat /\ a.op \in Ops
    BY DEF Assertion
  <1>2. CASE a.op = "eq"
    BY <1>1, <1>2 DEF Holds, Repairable
  <1>3. CASE a.op = "gte"
    BY <1>1, <1>3 DEF Holds, Repairable
  <1>4. CASE a.op = "gt"
    BY <1>1, <1>4 DEF Holds, Repairable
  <1>5. CASE a.op = "lt"
    BY <1>1, <1>5 DEF Holds
  <1>6. CASE a.op = "lte"
    BY <1>1, <1>6 DEF Holds
  <1>7. CASE a.op = "extract"
    BY <1>7 DEF Repairable
  <1> QED BY <1>1, <1>2, <1>3, <1>4, <1>5, <1>6, <1>7 DEF Ops

\* A step that fails before its deadline fails for a reason that no further log
\* could remove, in programs without assertions on a field of a match (for which
\* isRetryable gives up too early, as the run step_retry shows).
THEOREM EarlyFailure ==
  ASSUME \A p \in Programs : \A i \in DOMAIN p : \A a \in p[i].asserts : a.op # "field"
  PROVE  Spec => EarlyFailIsFinal
  <1>1. IInv /\ [Next]_vars => [FailsFinally]_vars
    <2> SUFFICES ASSUME IInv, Next, pc = "polling", verdict'[cur] = "failed",
                        now < Deadline, NEW more \in 0..Enough
                 PROVE  \E a \in prog[cur].asserts :
                            ~Holds(a, Cardinality(counted'[cur]) + more)
      BY DEF FailsFinally
    <2>1. cur \in Steps /\ prog \in Programs /\ verdict[cur] = "none"
      BY StepsAre DEF IInv, TypeOK, BegunInOrder, Busy, NotDecidedYet
    <2>2. Decide
      BY <2>1 DEF Next, Executor, Capture, Arrive, BeginStep, EndAction, FailAction,
                  Conclude, Finish, Tick
    <2>3. counted'[cur] = Visible /\ ~Passes(Visible)
      BY <2>1, <2>2 DEF Decide, IInv, TypeOK
    <2>4. ~Retryable(Visible)
      BY <2>2, <2>3, StepValidationAssumption DEF Decide, Expired, Deadline, IInv, TypeOK
    <2>5. PICK a \in prog[cur].asserts :
            ~Holds(a, Cardinality(Visible)) /\ ~Repairable(a, Cardinality(Visible))
      BY <2>3, <2>4 DEF Passes, Retryable
    <2>6. a \in Assertion /\ a.op # "field"
      BY <2>1, <2>5, StepsAre DEF IInv, Step, Steps
    <2>7. IsFiniteSet(Visible) /\ IsFiniteSet(Logs)
      <3>1. Visible \in SUBSET Logs
        BY DEF Visible, IInv, TypeOK
      <3> QED BY <3>1, LogsAreFinite, FS_Subset DEF IInv
    <2>8. Cardinality(Visible) \in Nat /\ more \in Nat
      BY <2>7, FS_CardinalityType DEF Enough
    <2> QED BY <2>3, <2>5, <2>6, <2>8, FailsForGood
  <1> QED BY <1>1, Invariance, PTL DEF Spec, EarlyFailIsFinal

=============================================================================
