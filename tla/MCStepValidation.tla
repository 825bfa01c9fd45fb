-------------------------- MODULE MCStepValidation --------------------------
(* Instances of StepValidation for TLC: short lists of steps, chosen so that *)
(* requests, waits and tests follow each other in every way that makes a     *)
(* difference to the windows and to the flush.                               *)
EXTENDS StepValidation, TLC

S(kind, test, asserts, stop) ==
    [kind |-> kind, test |-> test, asserts |-> asserts, stop |-> stop]

Is(op, n) == [op |-> op, n |-> n]

\* A request and a wait that looks for its consequences, then a ui action.
Consequences ==
    <<S("request", 1, {Is("gte", 1)}, FALSE),
      S("wait", 1, {Is("eq", 2)}, TRUE),
      S("free", 1, {Is("gt", 1)}, TRUE)>>

\* A step without assertions leaves its logs behind, in one test and into the
\* next, which begins with a wait.
LeftOvers ==
    <<S("free", 1, {}, TRUE),
      S("wait", 2, {Is("gte", 1)}, FALSE),
      S("free", 2, {Is("lt", 2)}, TRUE)>>

\* A wait without assertions between two requests: nothing is flushed.
Unflushed ==
    <<S("request", 1, {Is("lte", 2), Is("extract", 1)}, TRUE),
      S("wait", 1, {}, TRUE),
      S("request", 1, {Is("eq", 1)}, TRUE)>>

\* Two waits in a row inherit from the same step.
TwoWaits ==
    <<S("free", 1, {Is("extract", 1)}, FALSE),
      S("wait", 1, {Is("gte", 1)}, FALSE),
      S("wait", 1, {Is("gt", 1)}, TRUE)>>

MCPrograms == {Consequences, LeftOvers, Unflushed, TwoWaits}

\* An assertion on $.match, in a block without a count.
FieldProgram == {<<S("free", 1, {Is("field", 1)}, TRUE)>>}

=============================================================================
