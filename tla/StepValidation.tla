--------------------------- MODULE StepValidation ---------------------------
(***************************************************************************)
(* How the test agent runs the steps of its tests and judges each one from *)
(* the logs that have reached it.  The sidecars' copies arrive at any time *)
(* after their capture, at most once (LogDelivery), or never.  A step sees *)
(* those in the buffer whose time of capture lies in its window; it polls  *)
(* until its assertions hold, or can hold no more, or its deadline passes, *)
(* and then empties the buffer, unless a wait step follows that is to see  *)
(* the same logs.                                                          *)
(*                                                                         *)
(* Time is counted in ticks of the clock all containers of the host share. *)
(* Steps with a loop of their own, debug ranges of steps and the values    *)
(* inside a log are left out; every log matches every assertion.           *)
(***************************************************************************)
EXTENDS Naturals, Sequences, FiniteSets

CONSTANTS
    Programs,   \* the lists of steps that flattenSteps may return
    Traffic,    \* how many logs the services under test make of themselves
    MaxAction,  \* ticks an action may take
    Buffer,     \* timestampBufferMs: how long after its end a step still looks
    MaxWait     \* validationMaxWait

\* A step: what it does, the test it belongs to, the assertions and extracts
\* it makes about the number of logs, and stopOnFailure.  A "request" is an
\* httpRequest or a dbQuery, "free" a ui or parallel action, which has no log
\* of its own to wait for.
Kinds == {"request", "free", "wait"}
Ops == {"eq", "gte", "gt", "lt", "lte", "extract", "field"}
Assertion == [op : Ops, n : Nat]
Step == [kind : Kinds, test : Nat, asserts : SUBSET Assertion, stop : BOOLEAN]

ASSUME StepValidationAssumption ==
    /\ \A p \in Programs : p \in Seq(Step) /\ p # <<>>
    /\ Traffic \in Nat
    /\ MaxAction \in Nat
    /\ Buffer \in Nat
    /\ MaxWait \in Nat \ {0}

VARIABLES
    prog,       \* the steps
    pc,         \* "between" steps, "acting", "polling", "decided" or "done"
    cur,        \* the current step
    now,        \* the clock
    prevStart,  \* prevStepStartTime; 0 is the empty string
    begun,      \* StartTime of each step, 0 for those not begun
    ended,      \* EndTime of the current step's action
    at,         \* when each log was captured, 0 for those that were not
    buffer,     \* the logs in the StepLogBuffer
    flushed,    \* the logs that a flush has thrown away
    verdict,    \* of each step: "none", "passed" or "failed"
    counted     \* the logs each verdict rests on

clockVars == <<now, prevStart, begun, ended>>
logVars == <<at, buffer, flushed>>
verdictVars == <<verdict, counted>>
vars == <<prog, pc, cur, clockVars, logVars, verdictVars>>

\* Log <<0, k>> is the k-th that the services make of themselves, <<i, 0>> is
\* that of step i's own request.
Steps == DOMAIN prog
Logs == {<<0, k>> : k \in 1..Traffic} \cup {<<i, 0>> : i \in Steps}
IsRequestLog(l) == l[1] # 0

TypeOK ==
    /\ prog \in Programs
    /\ pc \in {"between", "acting", "polling", "decided", "done"}
    /\ cur \in 0..Len(prog)
    /\ now \in Nat
    /\ prevStart \in {0} \cup {begun[i] : i \in Steps}
    /\ begun \in [Steps -> 0..now]
    /\ ended \in 0..now
    /\ at \in [Logs -> 0..now]
    /\ buffer \subseteq {l \in Logs : at[l] > 0}
    /\ flushed \subseteq {l \in Logs : at[l] > 0}
    /\ buffer \cap flushed = {}
    /\ verdict \in [Steps -> {"none", "passed", "failed"}]
    /\ counted \in [Steps -> SUBSET Logs]

Init ==
    /\ prog \in Programs
    /\ pc = "between"
    /\ cur = 0
    /\ now = 0
    /\ prevStart = 0
    /\ begun = [i \in Steps |-> 0]
    /\ ended = 0
    /\ at = [l \in Logs |-> 0]
    /\ buffer = {}
    /\ flushed = {}
    /\ verdict = [i \in Steps |-> "none"]
    /\ counted = [i \in Steps |-> {}]

-----------------------------------------------------------------------------
(* The services under test and their sidecars.                             *)

\* The services work at any time, in the middle of a step or between two.
\* Their logs are numbered in the order of their capture.
CaptureTraffic(l) ==
    /\ ~IsRequestLog(l)
    /\ l[2] > 1 => at[<<0, l[2] - 1>>] > 0
    /\ pc # "done"

\* The current step's request passes its sidecar before its response is back.
CaptureRequest(l) ==
    /\ pc = "acting"
    /\ l = <<cur, 0>>
    /\ prog[cur].kind = "request"

Capture(l) ==
    /\ now > 0
    /\ at[l] = 0
    /\ CaptureTraffic(l) \/ CaptureRequest(l)
    /\ at' = [at EXCEPT ![l] = now]
    /\ UNCHANGED <<prog, pc, cur, clockVars, buffer, flushed, verdictVars>>

\* seenLogIds lets a log into the buffer once.
OnItsWay(l) == at[l] > 0 /\ l \notin buffer \cup flushed

Arrive(l) ==
    /\ pc # "done"
    /\ OnItsWay(l)
    /\ buffer' = buffer \cup {l}
    /\ UNCHANGED <<prog, pc, cur, clockVars, at, flushed, verdictVars>>

-----------------------------------------------------------------------------
(* The current step.                                                       *)

\* A mutant of TestStartTime: no ResetStepTime at a new test.
KeptStartTime(i) == prevStart

\* prevStepStartTime when step i begins: ResetStepTime at a new test.
TestStartTime(i) ==
    IF i = 1 \/ prog[i - 1].test # prog[i].test THEN 0 ELSE prevStart

\* The next step of ExecuteTests.  The agent sleeps 100 ms before a step that
\* is no wait, and some time passes before any.
BeginStep ==
    /\ pc = "between"
    /\ cur < Len(prog)
    /\ pc' = "acting"
    /\ cur' = cur + 1
    /\ now' = now + 1
    /\ begun' = [begun EXCEPT ![cur + 1] = now + 1]
    /\ prevStart' = TestStartTime(cur + 1)
    /\ UNCHANGED <<prog, ended, logVars, verdictVars>>

\* The action has returned.  A step that asserts and extracts nothing is over:
\* it validates nothing and flushes nothing.
EndAction ==
    /\ pc = "acting"
    /\ ended' = now
    /\ prevStart' = IF prog[cur].kind = "wait" THEN prevStart ELSE begun[cur]
    /\ pc' = IF prog[cur].asserts = {} THEN "between" ELSE "polling"
    /\ UNCHANGED <<prog, cur, now, begun, logVars, verdictVars>>

\* The action itself failed: ExecuteTests returns, whatever stopOnFailure says.
FailAction ==
    /\ pc = "acting"
    /\ prog[cur].kind # "wait"
    /\ pc' = "done"
    /\ UNCHANGED <<prog, cur, clockVars, logVars, verdictVars>>

\* A mutant of WindowStart: no step looks at the beginning of its window.
NoWindowStart == 0

\* A wait step's window begins with the last step before it that was no wait.
WindowStart ==
    IF prog[cur].kind = "wait" /\ prevStart # 0 THEN prevStart ELSE begun[cur]

InWindow(l) == WindowStart =< at[l] /\ at[l] =< ended + Buffer

Visible == {l \in buffer : InWindow(l)}

\* A mutant of Pending: the step does not wait for its own log.
NeverPending(seen) == FALSE

\* The step's own log is not there.  All requests are taken to look alike, so
\* it is the window alone that tells the logs of two of them apart.
Pending(seen) ==
    /\ prog[cur].kind = "request"
    /\ \A l \in seen : ~IsRequestLog(l)

\* Whether an assertion holds of k logs.
Holds(a, k) ==
    CASE a.op = "eq"  -> k = a.n
      [] a.op = "gte" -> k >= a.n
      [] a.op = "gt"  -> k > a.n
      [] a.op = "lt"  -> k < a.n
      [] a.op = "lte" -> k =< a.n
      [] a.op \in {"extract", "field"} -> k > 0  \* a path into $.match

\* A mutant of Repairable: gt is taken for gte.
RepairableStrictly(a, k) ==
    \/ a.op \in {"eq", "gte", "gt"} /\ k < a.n
    \/ a.op = "extract"

\* isRetryable for one failed assertion; isCountRetryable.
Repairable(a, k) ==
    \/ a.op \in {"eq", "gte"} /\ k < a.n
    \/ a.op = "gt" /\ k =< a.n
    \/ a.op = "extract"

Passes(seen) ==
    /\ ~Pending(seen)
    /\ \A a \in prog[cur].asserts : Holds(a, Cardinality(seen))

Retryable(seen) ==
    LET k == Cardinality(seen) IN
    \/ Pending(seen)
    \/ \E a \in prog[cur].asserts : ~Holds(a, k) /\ Repairable(a, k)

\* When the current step stops polling.
Deadline == ended + MaxWait

\* A mutant of Expired: the deadline is not looked at.
NeverExpired == FALSE

Expired == now >= Deadline

\* The round of ValidateStepWithRetry that decides: the logs are read once and
\* judged.  A round that decides nothing changes nothing.
Decide ==
    /\ pc = "polling"
    /\ Passes(Visible) \/ ~Retryable(Visible) \/ Expired
    /\ verdict' = [verdict EXCEPT ![cur] = IF Passes(Visible) THEN "passed" ELSE "failed"]
    /\ counted' = [counted EXCEPT ![cur] = Visible]
    /\ pc' = "decided"
    /\ UNCHANGED <<prog, cur, clockVars, logVars>>

\* A mutant of SkipFlush: every verdict flushes.
NeverSkip == FALSE

\* nextIsWait: a wait of the same test comes next.
SkipFlush ==
    /\ cur < Len(prog)
    /\ prog[cur + 1].test = prog[cur].test
    /\ prog[cur + 1].kind = "wait"

\* The end of the step.  What arrived since the logs were read is flushed too.
Conclude ==
    /\ pc = "decided"
    /\ IF SkipFlush
       THEN UNCHANGED <<buffer, flushed>>
       ELSE buffer' = {} /\ flushed' = flushed \cup buffer
    /\ pc' = IF verdict[cur] = "failed" /\ prog[cur].stop THEN "done" ELSE "between"
    /\ UNCHANGED <<prog, cur, clockVars, at, verdictVars>>

Finish ==
    /\ pc = "between"
    /\ cur = Len(prog)
    /\ pc' = "done"
    /\ UNCHANGED <<prog, cur, clockVars, logVars, verdictVars>>

\* Time passes during an action and between two rounds of polling, of which
\* the last comes at the deadline.
Tick ==
    /\ \/ pc = "acting" /\ now < begun[cur] + MaxAction
       \/ pc = "polling" /\ now < Deadline
    /\ now' = now + 1
    /\ UNCHANGED <<prog, pc, cur, prevStart, begun, ended, logVars, verdictVars>>

-----------------------------------------------------------------------------
Executor == BeginStep \/ EndAction \/ FailAction \/ Decide \/ Conclude \/ Finish

Next ==
    \/ \E l \in Logs : Capture(l) \/ Arrive(l)
    \/ Executor
    \/ Tick

Spec == Init /\ [][Next]_vars

\* The one goroutine that runs the tests goes on, actions have timeouts and
\* time passes.  No log need ever arrive.
FairSpec == Spec /\ WF_vars(Executor) /\ WF_vars(Tick)

-----------------------------------------------------------------------------
(* Properties.                                                             *)

\* The step that wait i waits for: the last one of its test that is no wait.
WaitsFor(i, j) ==
    /\ prog[j].test = prog[i].test /\ prog[j].kind # "wait"
    /\ \A k \in (j + 1)..(i - 1) : prog[k].test = prog[i].test => prog[k].kind = "wait"

\* No verdict rests on the logs of another test, or on what was captured
\* before the step (for a wait: the step it waits for) began, however late
\* those logs arrive and whatever was left in the buffer.  About ResetStepTime
\* and RecordStepTime.
NoForeignLogs ==
    \A i \in Steps : \A l \in counted[i] :
        \/ at[l] >= begun[i]
        \/ prog[i].kind = "wait" /\ \E j \in 1..(i - 1) : WaitsFor(i, j) /\ at[l] >= begun[j]

\* A log is evidence for one action: of the steps that do something, at most
\* one counts it.  Nothing marks a log as used; it is the flush, the sleep
\* before a step and the start of its window that keep two windows, which
\* overlap by timestampBufferMs, from sharing a log.
CountedByOneStep ==
    \A i, j \in Steps :
        i # j /\ prog[i].kind # "wait" /\ prog[j].kind # "wait" =>
            counted[i] \cap counted[j] = {}

\* "skip flush so the wait inherits this step's logs"
\* (services/test-agent/test_executor.go:119): no flush has thrown away a log
\* that the window of the step now polling covers.
WaitInheritsLogs ==
    pc = "polling" => \A l \in flushed : ~InWindow(l)

\* A request that is judged to have succeeded was seen by its own sidecar: the
\* verdict rests on that request's log and not on that of an earlier one that
\* looks the same.
OwnLogFirst ==
    \A i \in Steps :
        verdict[i] = "passed" /\ prog[i].kind = "request" => <<i, 0>> \in counted[i]

\* The number of logs beyond which no assertion changes its mind.
Enough == Cardinality(Logs) + 1

\* "If the result looks like logs haven't arrived yet ... it polls every 100ms
\* up to a 5-second deadline" (docs/ARCHITECTURE.md:382): a step that fails
\* before its deadline fails for a reason that no further log could remove.
\* About isRetryable and isCountRetryable.
FailsFinally ==
    pc = "polling" /\ verdict'[cur] = "failed" /\ now < Deadline =>
        \A more \in 0..Enough :
            \E a \in prog[cur].asserts : ~Holds(a, Cardinality(counted'[cur]) + more)

EarlyFailIsFinal == [][FailsFinally]_vars

\* The tests end, even if no log ever arrives: every step is decided at its
\* deadline.
TestsEnd == <>(pc = "done")

=============================================================================
