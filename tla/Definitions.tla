---------------------------- MODULE Definitions ----------------------------
(***************************************************************************)
(* Loops of a definition: what the validator of the CLI accepts, in        *)
(* TypeScript, and what the test agent makes of it, in Go.  An object with *)
(* loops is                                                                *)
(*   level    "test", "step" or "block" (an assertion block)               *)
(*   beside   the keys next to the loop, or those of an object without one *)
(*   bodies   the loop and the loops nested in it: the keys of each body,  *)
(*            where "blocks" are assertions written as blocks              *)
(* and a range is [from, to, step], step = 0 for a range without one.      *)
(***************************************************************************)
EXTENDS Integers, Sequences, FiniteSets

CONSTANT MaxIterations

Chain ==
    [test |-> <<"test", "step", "block">>, step |-> <<"step", "block">>, block |-> <<"block">>]

Keys(body) == {IF k = "blocks" THEN "assertions" ELSE k : k \in body}

BodyKeys ==
    [test |-> {"steps"}, step |-> {"action", "match", "assertions", "extract"},
     block |-> {"match", "assertions", "extract"}]

KeysOf ==
    [test |-> {"steps"}, step |-> {"action", "assertions", "extract"},
     block |-> {"match", "assertions", "extract"}]

\* A mutant of BodyOnly: extract is not looked for beside the loop of a step.
BodyOnlyAssertions ==
    [test |-> {"steps"}, step |-> {"assertions"}, block |-> {"assertions"}]

\* The keys that must be in the body, never beside the loop.
BodyOnly ==
    [test |-> {"steps"}, step |-> {"assertions", "extract"}, block |-> {"assertions"}]

Accepts(d) ==
    /\ Keys(d.beside) \subseteq KeysOf[d.level]
    /\ d.bodies = <<>> => (d.level = "step" => "action" \in d.beside)
    /\ d.bodies # <<>> => Keys(d.beside) \cap BodyOnly[d.level] = {}
    /\ Len(d.bodies) =< Len(Chain[d.level])
    /\ \A i \in DOMAIN d.bodies : Keys(d.bodies[i]) \subseteq BodyKeys[Chain[d.level][i]]

-----------------------------------------------------------------------------
(* What the agent does, as pairs of a depth, 0 beside the loop, and a key. *)

At(i, keys) == {<<i, k>> : k \in keys}
Asked(d) == At(0, d.beside) \cup UNION {At(i, d.bodies[i]) : i \in DOMAIN d.bodies}

\* A body as one assertion block with the loop nested in it; a body with
\* blocks is these blocks.
InBlock(d, i) ==
    LET Reached == \A j \in 1..(i - 1) : "blocks" \notin d.bodies[j]
        body == d.bodies[i]
    IN IF ~Reached THEN {}
       ELSE IF "blocks" \in body THEN At(i, {"blocks"}) ELSE At(i, body \ {"action", "steps"})

\* flattenSteps takes the steps of the test; executeStepAt the body's action
\* before that of the step, and beside blocks their extract; validateBlock what
\* is beside the loop of a block, and the loop.
Performed(d) ==
    LET bodies == UNION {InBlock(d, i) : i \in DOMAIN d.bodies} IN
    CASE d.level = "test" -> At(0, d.beside \cap {"steps"})
      [] d.level = "block" -> At(0, d.beside) \cup bodies
      [] d.level = "step" /\ d.bodies = <<>> -> At(0, d.beside)
      [] OTHER ->
            (IF "action" \in d.bodies[1] THEN At(1, {"action"}) ELSE At(0, d.beside \cap {"action"}))
            \cup At(1, IF "blocks" \in d.bodies[1] THEN d.bodies[1] \cap {"extract"} ELSE {})
            \cup bodies

-----------------------------------------------------------------------------
(* for: validateForLoop and forRangeValues, which count on their own.      *)

\* Quotients are not negative where they are taken, so that Go and Math.floor
\* agree.
AcceptsRange(r) ==
    LET by == IF r.step = 0 THEN 1 ELSE r.step IN
    /\ by > 0 => r.from =< r.to
    /\ by < 0 => r.from >= r.to
    /\ (IF by > 0 THEN (r.to - r.from) \div by ELSE (r.from - r.to) \div (-by)) + 1 =< MaxIterations

\* A mutant of RangeValues: the end is left out.
RangeValuesOpen(r) ==
    LET by == IF r.step = 0 THEN 1 ELSE r.step
        In(v) == IF by > 0 THEN v < r.to ELSE v > r.to
    IN [i \in 1..Cardinality({k \in 1..MaxIterations : In(r.from + (k - 1) * by)}) |->
            r.from + (i - 1) * by]

\* Go: the values up to to, and no more than the limit.
RangeValues(r) ==
    LET by == IF r.step = 0 THEN 1 ELSE r.step
        In(v) == IF by > 0 THEN v =< r.to ELSE v >= r.to
    IN [i \in 1..Cardinality({k \in 1..MaxIterations : In(r.from + (k - 1) * by)}) |->
            r.from + (i - 1) * by]

-----------------------------------------------------------------------------
(* Properties, of an object and of a range.                                *)

\* What a step or a block with loops says in its bodies is done at every depth,
\* or the validator has refused it: but for what stands beside assertions in
\* the form of blocks, and an action that the body replaces.  (For a test it
\* does not hold: the steps of a loop of a test are in its body, or the
\* validator refuses them, and the agent runs those beside it.)
LoopBodyIsDone(d) ==
    LET lost == Asked(d) \ Performed(d)
        Blocks(j) == "blocks" \in d.bodies[j]
    IN (Accepts(d) /\ d.level # "test") =>
        \A x \in lost :
            \/ \E j \in DOMAIN d.bodies : j =< x[1] /\ Blocks(j) /\ x # <<j, "blocks">>
            \/ x = <<0, "action">> /\ "action" \in d.bodies[1]

\* An accepted range runs over exactly its numbers, in order, at least one, and
\* none is cut off by the limit of the agent.
RangeIsExact(r) ==
    LET by == IF r.step = 0 THEN 1 ELSE r.step
        numbers == {v \in (IF by > 0 THEN r.from..r.to ELSE r.to..r.from) : \E k \in 0..MaxIterations : v = r.from + k * by}
        values == RangeValues(r)
    IN AcceptsRange(r) =>
        /\ values # <<>> /\ values[1] = r.from
        /\ {values[i] : i \in DOMAIN values} = numbers
        /\ \A i \in 1..(Len(values) - 1) : values[i + 1] - values[i] = by

=============================================================================
