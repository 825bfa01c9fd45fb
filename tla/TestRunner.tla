----------------------------- MODULE TestRunner -----------------------------
(***************************************************************************)
(* How the test agent carries out tests: the loops around a test, a step   *)
(* and an action, the variables they and the steps set, and what stops the *)
(* run.  An action succeeds or fails, the assertions of a step hold or do  *)
(* not, and an until condition is met or not, as they will.                *)
(***************************************************************************)
EXTENDS Naturals, Sequences, FiniteSets, Functions

\* tests, each [loop, vars, steps], each step [loop, act, stop, uses, extract];
\* config, the variables of the definition; and the range from..before - 1 of
\* steps to run, before = 0 for all.
CONSTANT Programs

\* A loop runs n times, over the items of a variable if over is one; name, the
\* variable it sets, is "" for none.
LoopType == [kind : STRING, n : Nat, over : STRING, name : STRING, until : BOOLEAN]
StepType ==
    [loop : LoopType, act : LoopType, stop : BOOLEAN, uses : SUBSET STRING, extract : SUBSET STRING]
TestType == [loop : LoopType, vars : SUBSET STRING, steps : Seq(StepType)]

\* What the proofs assume: the tests are what the validator accepts,
ProgramsTyped ==
    Programs \subseteq [tests : Seq(TestType), config : SUBSET STRING, from : Nat, before : Nat]

\* in which loops in each other have different names, or none.
NamesNested ==
    \A p \in Programs : \A t \in DOMAIN p.tests : \A s \in DOMAIN p.tests[t].steps :
        LET here == p.tests[t].steps[s]
            outer == p.tests[t].loop.name
        IN /\ outer # "" => outer # here.loop.name /\ outer # here.act.name
           /\ here.loop.name # "" => here.loop.name # here.act.name

VARIABLES
    prog,      \* the test config and the range of steps to run
    at,        \* what comes next
    test, pass, step, round, turn,   \* counters: of the tests, the iterations
               \* of the test, its steps, the iterations of the step and those
               \* of its action
    env,       \* the variables: the test and the pass that have set each
    told,      \* the loops whose completed is set
    swallowed, \* this iteration of the step has failed and the loop goes on
    ran,       \* the actions performed, as the values of the five counters
    judged,    \* the iterations of steps that were validated
    verdict    \* "running", "passed" or "failed"

counters == <<test, pass, step, round, turn>>
runnerVars == <<prog, at, counters, env, told, swallowed, ran, judged, verdict>>

Empty == [x \in {} |-> {}]

Tests == prog.tests
T == Tests[test]
S == T.steps[step]

\* A mutant of Index: the steps are counted test by test.
IndexInTest(t, s) == s - 1

\* The steps of these tests, each with its test.
StepsOf(tests) == UNION {{<<i, j>> : j \in DOMAIN Tests[i].steps} : i \in tests}

\* globalIndex, counted over all tests, from 0.
Index(t, s) == s - 1 + Cardinality(StepsOf(1..(t - 1)))
InRange(t, s) == Index(t, s) >= prog.from /\ (prog.before # 0 => Index(t, s) < prog.before)

\* The plan of a loop; no loop is one iteration.  The items of a forEach over
\* a variable are looked up when the plan is made.
Count(loop) == IF loop.kind = "none" THEN 1 ELSE loop.n
Planned(loop) == loop.over # "" => loop.over \in DOMAIN env
\* These names set to v, in a map of variables or of results.
Put(names, v, f) == [x \in names \cup DOMAIN f |-> IF x \in names THEN v ELSE f[x]]
\* The variables of a loop, as and name, are one here.
Sets(loop) == IF loop.name = "" THEN {} ELSE {loop.name}

\* The counter's value tells whether the loop ends here; met, whether its until
\* condition holds.
Met(loop) == IF loop.until THEN BOOLEAN ELSE {FALSE}
Ends(loop, k, met) == met \/ k >= Count(loop)

\* The variables a test and each pass of it start with.
Seeded(loop) ==
    [x \in prog.config \cup T.vars \cup Sets(loop) |->
        IF x \in T.vars \cup Sets(loop) THEN <<test, pass>> ELSE <<0, 0>>]

\* A mutant of Setup: what the last loop of this name left is still there.
SetupKeepsResult(loop) ==
    /\ env' = Put(Sets(loop), <<test, pass>>, env)
    /\ UNCHANGED told

\* set*Vars: the new map for the name of the loop holds no result.
Setup(loop) ==
    /\ env' = Put(Sets(loop), <<test, pass>>, env)
    /\ told' = Restrict(told, DOMAIN told \ Sets(loop))

SetLoopResult(loop, met) ==
    /\ told' = Put(Sets(loop), loop.until => met, told)
    /\ env' = Put(Sets(loop), <<test, pass>>, env)

TypeOK ==
    /\ at \in {"test", "pass", "step", "round", "turn", "judge", "next", "over"}
    /\ \A i \in 1..5 : counters[i] \in Nat
    /\ \A x \in DOMAIN told : told[x] \in BOOLEAN
    /\ swallowed \in BOOLEAN
    /\ verdict \in {"running", "passed", "failed"}

\* flattenSteps resets the variables and sets those of the definition.
Init ==
    /\ prog \in Programs
    /\ at = "test" /\ test = 1 /\ pass = 1 /\ step = 1 /\ round = 1 /\ turn = 1
    /\ env = [x \in prog.config |-> <<0, 0>>]
    /\ told = Empty /\ swallowed = FALSE /\ ran = <<>> /\ judged = {}
    /\ verdict = "running"

End(v) ==
    /\ at' = "over" /\ verdict' = v
    /\ UNCHANGED <<prog, counters, env, told, swallowed, ran, judged>>

-----------------------------------------------------------------------------
(* ExecuteTests.                                                           *)

\* The steps are grouped by test, a test without steps is in no group.
StartTest ==
    /\ at = "test"
    /\ IF test > Len(Tests) THEN End("passed")
       ELSE IF T.steps # <<>> /\ ~Planned(T.loop) THEN End("failed")
       ELSE /\ IF T.steps = <<>> THEN test' = test + 1 /\ UNCHANGED <<at, told, env>>
               ELSE IF Count(T.loop) = 0
               THEN test' = test + 1 /\ SetLoopResult(T.loop, FALSE) /\ UNCHANGED at
               ELSE at' = "pass" /\ UNCHANGED <<test, told, env>>
            /\ pass' = 1
            /\ UNCHANGED <<prog, step, round, turn, swallowed, ran, judged, verdict>>

\* A mutant of StartPass: the passes of a test share their variables.
StartPassOnce ==
    /\ at = "pass" /\ at' = "step" /\ step' = 1
    /\ IF pass = 1 THEN env' = Seeded(T.loop) /\ told' = Empty ELSE Setup(T.loop)
    /\ UNCHANGED <<prog, test, pass, round, turn, swallowed, ran, judged, verdict>>

StartPass ==
    /\ at = "pass" /\ at' = "step" /\ step' = 1
    /\ env' = Seeded(T.loop) /\ told' = Empty
    /\ UNCHANGED <<prog, test, pass, round, turn, swallowed, ran, judged, verdict>>

\* The steps before the range are passed over, at its end the pass breaks off.
EndPass ==
    /\ at = "step" /\ (step > Len(T.steps) \/ (prog.before # 0 /\ Index(test, step) >= prog.before))
    /\ \E met \in Met(T.loop) :
        IF Ends(T.loop, pass, met)
        THEN /\ at' = "test" /\ test' = test + 1 /\ UNCHANGED pass
             /\ SetLoopResult(T.loop, met)
        ELSE at' = "pass" /\ pass' = pass + 1 /\ UNCHANGED <<test, told, env>>
    /\ UNCHANGED <<prog, step, round, turn, swallowed, ran, judged, verdict>>

SkipStep ==
    /\ at = "step" /\ step =< Len(T.steps) /\ Index(test, step) < prog.from
    /\ step' = step + 1
    /\ UNCHANGED <<prog, at, test, pass, round, turn, env, told, swallowed, ran, judged, verdict>>

-----------------------------------------------------------------------------
(* executeStepAt and executeStepOnce, executeStep and executeActionLoop.   *)

StartStep ==
    /\ at = "step" /\ step =< Len(T.steps) /\ InRange(test, step)
    /\ IF ~Planned(S.loop) THEN End("failed")
       ELSE /\ IF Count(S.loop) = 0
               THEN step' = step + 1 /\ SetLoopResult(S.loop, FALSE) /\ UNCHANGED at
               ELSE at' = "round" /\ UNCHANGED <<step, told, env>>
            /\ round' = 1
            /\ UNCHANGED <<prog, test, pass, turn, swallowed, ran, judged, verdict>>

\* A mutant of Fail: every loop goes on after an error.
FailInLoopGoesOn ==
    IF S.loop.kind # "none"
    THEN at' = "next" /\ swallowed' = TRUE /\ UNCHANGED verdict
    ELSE at' = "over" /\ verdict' = "failed" /\ UNCHANGED swallowed

\* An error of the action or of its variables.  A loop with until, or a step
\* without stopOnFailure, takes it for an iteration without a response.
Fail ==
    IF S.loop.kind # "none" /\ (S.loop.until \/ ~S.stop)
    THEN at' = "next" /\ swallowed' = TRUE /\ UNCHANGED verdict
    ELSE at' = "over" /\ verdict' = "failed" /\ UNCHANGED swallowed

\* SetupFn of the step's loop, when it has one.
StartRound ==
    /\ at = "round" /\ at' = "turn" /\ turn' = 1
    /\ Setup(S.loop)
    /\ UNCHANGED <<prog, test, pass, step, round, swallowed, ran, judged, verdict>>

\* The loop of the action cannot be planned.
FailRound ==
    /\ at = "turn" /\ turn = 1 /\ ~Planned(S.act) /\ Fail
    /\ UNCHANGED <<prog, counters, env, told, ran, judged>>

NoTurn ==
    /\ at = "turn" /\ Planned(S.act) /\ Count(S.act) = 0 /\ at' = "judge"
    /\ SetLoopResult(S.act, FALSE)
    /\ UNCHANGED <<prog, counters, swallowed, ran, judged, verdict>>

\* One action, with the variables it uses: SetupFn of the action's loop first.
Perform ==
    /\ at = "turn" /\ Planned(S.act) /\ turn =< Count(S.act)
    /\ ran' = Append(ran, counters)
    /\ env' = Put(Sets(S.act), <<test, pass>>, env)
    /\ \/ /\ S.uses \subseteq DOMAIN env'
          /\ UNCHANGED <<swallowed, verdict>>
          /\ \E met \in Met(S.act) :
                IF Ends(S.act, turn, met)
                THEN at' = "judge" /\ SetLoopResult(S.act, met) /\ UNCHANGED turn
                ELSE /\ turn' = turn + 1 /\ UNCHANGED at
                     /\ told' = Restrict(told, DOMAIN told \ Sets(S.act))
       \/ /\ Fail
          /\ told' = Restrict(told, DOMAIN told \ Sets(S.act))
          /\ UNCHANGED turn
    /\ UNCHANGED <<prog, test, pass, step, round, judged>>

\* ValidateStepWithRetry: the extraction and the assertions of the step.
Validate ==
    /\ at = "judge"
    /\ judged' = judged \cup {<<test, pass, step, round>>}
    /\ \E extracted, held \in BOOLEAN :
        /\ env' = IF extracted THEN Put(S.extract, <<test, pass>>, env) ELSE env
        /\ IF (extracted /\ held) \/ ~S.stop
           THEN at' = "next" /\ UNCHANGED verdict
           ELSE at' = "over" /\ verdict' = "failed"
    /\ UNCHANGED <<prog, counters, told, swallowed, ran>>

\* The until of a step's loop, and the next iteration or step.
NextRound ==
    /\ at = "next"
    /\ \E met \in Met(S.loop) :
        IF Ends(S.loop, round, met)
        THEN at' = "step" /\ step' = step + 1 /\ UNCHANGED round /\ SetLoopResult(S.loop, met)
        ELSE at' = "round" /\ round' = round + 1 /\ UNCHANGED <<step, told, env>>
    /\ swallowed' = FALSE
    /\ UNCHANGED <<prog, test, pass, turn, ran, judged, verdict>>

Next ==
    \/ StartTest \/ StartPass \/ EndPass \/ SkipStep
    \/ StartStep \/ StartRound \/ FailRound \/ NoTurn \/ Perform
    \/ Validate \/ NextRound

Spec == Init /\ [][Next]_runnerVars

-----------------------------------------------------------------------------
(* Properties.                                                             *)

Before(p, q) == \E k \in DOMAIN p : p[k] < q[k] /\ \A j \in 1..(k - 1) : p[j] = q[j]

Performs(s) == Count(s.loop) > 0 /\ Count(s.act) > 0 /\ s.act.over = ""

Asked(t, s) ==
    LET n == Cardinality({x \in StepsOf(DOMAIN Tests) : Before(x, <<t, s>>)})
    IN Performs(Tests[t].steps[s]) /\ n >= prog.from /\ (prog.before # 0 => n < prog.before)

\* Whatever loops are nested, and whatever fails and is passed over: no action
\* is performed twice for one turn of its loops, or out of their order; and
\* none is performed before every step of the range that precedes it, in this
\* pass, in every earlier pass of its test and in the earlier tests.
StepsInOrder ==
    /\ \A i \in 1..(Len(ran) - 1) : Before(ran[i], ran[i + 1])
    /\ \A i \in DOMAIN ran : \A t \in 1..ran[i][1] :
        \A s \in DOMAIN Tests[t].steps, p \in 1..(IF t = ran[i][1] THEN ran[i][2] ELSE 1) :
            (Asked(t, s) /\ Count(Tests[t].loop) > 0 /\ Before(<<t, p, s>>, ran[i])) =>
                \E j \in 1..i : SubSeq(ran[j], 1, 3) = <<t, p, s>>

\* A step sees the variables of the definition, and those that its own pass of
\* its own test has set: none is left over from another test or another pass,
\* and a variable of the test hides that of the definition.
OwnVariables ==
    at \in {"round", "turn", "judge", "next"} =>
        /\ \A x \in DOMAIN env : env[x] \in {<<0, 0>>, <<test, pass>>}
        /\ \A x \in T.vars : env[x] = <<test, pass>>

\* completed is set when a loop is over, not inside it, even when the same loop
\* has run before in the same test (dokkimi-instructions.md:1437).
ResultAfterLoop ==
    at \in {"turn", "judge"} => S.loop.name \notin DOMAIN told /\ T.loop.name \notin DOMAIN told

\* When the tests pass, every action performed has had its step's assertions
\* evaluated after it, but for the steps that were told to put up with errors:
\* those of a loop with until, or in a loop and without stopOnFailure.
PassedMeansJudged ==
    verdict = "passed" =>
        \A i \in DOMAIN ran :
            LET s == Tests[ran[i][1]].steps[ran[i][3]] IN
            \/ SubSeq(ran[i], 1, 4) \in judged
            \/ s.loop.kind # "none" /\ (s.loop.until \/ ~s.stop)

=============================================================================
