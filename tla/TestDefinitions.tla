-------------------------- MODULE TestDefinitions --------------------------
(***************************************************************************)
(* The tests of a definition: what the validator of the CLI accepts, what  *)
(* of it the test agent can decode, and what in it makes the agent fail    *)
(* whatever the services do.  Sub-steps of the browser, single assertions, *)
(* and which keys may stand beside a loop, are those of UiDefinitions,     *)
(* Assertions and Definitions.                                             *)
(***************************************************************************)
EXTENDS Values, FiniteSets, SequencesExt

CONSTANT MaxIterations

Loops == INSTANCE Definitions

MAX_DELAY_MS == 60000
LoopKeys == {"forEach", "for", "repeat"}
ActionTypes == {"httpRequest", "dbQuery", "wait", "ui", "parallel"}
ExtractTransforms == {"keys", "values", "entries"}
CountOperators == {"eq", "ne", "gt", "gte", "lt", "lte"}

\* The texts that are told apart: names, paths into the document, references to
\* a variable and what only begins like one, and regular expressions.
NotNames == {"bad-name", "$.ok", "$.body.old", "$$.here", "{{v}}", "{{v}}/x", "[", "(x)", "(?=x)", ""}
DocPaths == {"$.ok", "$.body.old"}
Deprecated == {"$.body.old"}
References == {"{{v}}"}
BeginAsReference == {"{{v}}", "{{v}}/x"}
BadRegexes == {"["}
BadGoRegexes == {"[", "(?=x)"}
Groups(pattern) == IF pattern = "(x)" THEN 1 ELSE 0

\* The keys each kind of object may have.
TestKeys == {"name", "description", "timeoutSeconds", "stopOnFailure", "variables", "steps"} \cup LoopKeys
StepKeys == {"name", "description", "stopOnFailure", "action", "extract", "assertions"} \cup LoopKeys
BlockKeys == {"assertions", "match", "extract"} \cup LoopKeys
ActionKeys ==
    [httpRequest |-> {"type", "method", "url", "path", "headers", "body", "formData", "queryParams", "timeout"}
         \cup LoopKeys,
     dbQuery |-> {"type", "database", "query", "params", "timeout"} \cup LoopKeys,
     wait |-> {"type", "durationMs"} \cup LoopKeys,
     ui |-> {"type", "target", "steps"},
     parallel |-> {"type", "actions"}]

-----------------------------------------------------------------------------
(* The validator: loops.                                                   *)

LoopsOf(v) == {k \in LoopKeys : Given(v, k)}
IsName(v) == IsText(v) /\ v[2] \notin NotNames
IsPositive(v) == IsNatural(v) /\ v[2] > 0
IsStep(v) == IsWhole(v) /\ v[2] # 0

\* A path into the document is known only to the blocks of assertions.
AcceptsItems(v, level) ==
    v[1] = "list" \/ (IsText(v) /\ (v[2] \in DocPaths => level = "block"))

AcceptsRange(v) ==
    /\ IsWhole(Field(v, "from")) /\ IsWhole(Field(v, "to")) /\ MayBe(Field(v, "step"), IsStep)
    /\ Loops!AcceptsRange(
           [from |-> Field(v, "from")[2] \div 2, to |-> Field(v, "to")[2] \div 2,
            step |-> IF Given(v, "step") THEN Field(v, "step")[2] \div 2 ELSE 0])

\* An assertion of until is any object here.
AcceptsRepeat(v) ==
    IsPositive(Field(v, "count")) /\ MayBe(Field(v, "until"), LAMBDA u : IsListOf(u, IsObject))

BodyContent == UNION {Loops!BodyKeys[l] : l \in DOMAIN Loops!BodyKeys}

\* What a body holds is looked at by its keys alone; so is a loop inside it.
RECURSIVE AcceptsBody(_, _)
AcceptsBody(v, levels) ==
    /\ DOMAIN v[2] \cap BodyContent \subseteq Loops!BodyKeys[Head(levels)]
    /\ \A k \in LoopsOf(v) :
        /\ Len(levels) > 1
        /\ IsObject(Field(v, k)) => AcceptsBody(Field(v, k), Tail(levels))

AcceptsLoop(kind, v, level) ==
    /\ IsObject(v)
    /\ IsName(Field(v, "as")) /\ MayBe(Field(v, "name"), IsName)
    /\ MayBe(Field(v, "delayMs"), LAMBDA d : IsInteger(d, 0, MAX_DELAY_MS))
    /\ CASE kind = "forEach" -> AcceptsItems(Field(v, "items"), level)
         [] kind = "for"     -> AcceptsRange(v)
         [] kind = "repeat"  -> AcceptsRepeat(v)
    /\ AcceptsBody(v, Loops!Chain[level])

AcceptsLoops(v, level) ==
    /\ Cardinality(LoopsOf(v)) =< 1
    /\ \A k \in LoopsOf(v) : AcceptsLoop(k, Field(v, k), level)

Beside(v, level) == LoopsOf(v) # {} => DOMAIN v[2] \cap Loops!BodyOnly[level] = {}

-----------------------------------------------------------------------------
(* The validator: blocks of assertions and what is extracted.              *)

\* validatePathFormat
IsPath(v) == IsOneOf(v, (DocPaths \ Deprecated) \cup BeginAsReference)

AcceptsCount(v) ==
    IsNatural(v) \/ (IsOneOf(Field(v, "operator"), CountOperators) /\ IsWhole(Field(v, "value")))

\* What an entry of where may be is said in Assertions.
AcceptsMatch(v) ==
    /\ IsOneOf(Field(v, "path"), DocPaths)
    /\ MayBe(Field(v, "where"), LAMBDA w : IsListOf(w, IsObject) /\ w[2] # <<>>)
    /\ MayBe(Field(v, "count"), AcceptsCount)
    /\ MayBe(Field(v, "as"), IsName)

\* A mutant of AcceptsTransform: any transform will do.
AcceptsAnyTransform(v) ==
    /\ ~Given(v, "pattern")
    /\ IF Given(v, "from") THEN ~Given(v, "path") /\ IsFullText(Field(v, "from")) ELSE IsPath(Field(v, "path"))

AcceptsTransform(v) == AcceptsAnyTransform(v) /\ IsOneOf(Field(v, "transform"), ExtractTransforms)

AcceptsPattern(v) ==
    /\ IsPath(Field(v, "path")) /\ MayBe(Field(v, "group"), IsNatural)
    /\ IsFullText(Field(v, "pattern")) /\ ~IsOneOf(Field(v, "pattern"), BadRegexes)

AcceptsRule(v) ==
    IF IsObject(v) THEN IF Given(v, "transform") THEN AcceptsTransform(v) ELSE AcceptsPattern(v) ELSE IsPath(v)

AcceptsExtract(v) == IsObject(v) /\ \A x \in DOMAIN v[2] : AcceptsRule(v[2][x])

AcceptsBlock(v) ==
    /\ IsObject(v)
    /\ MayBe(Field(v, "match"), AcceptsMatch) /\ MayBe(Field(v, "extract"), AcceptsExtract)
    /\ MayBe(Field(v, "assertions"), LAMBDA as : IsListOf(as, IsObject))
    /\ AcceptsLoops(v, "block") /\ Beside(v, "block")

-----------------------------------------------------------------------------
(* The validator: actions, steps, tests.                                   *)

AcceptsHttpRequest(a) ==
    /\ IsOneOf(Field(a, "method"), Methods) /\ IsText(Field(a, "url"))
    /\ MayBe(Field(a, "formData"), IsObject) /\ MayBe(Field(a, "queryParams"), IsObject)
    /\ ~(Given(a, "body") /\ Given(a, "formData"))

AcceptsUi(a) == IsFullText(Field(a, "target")) /\ IsListOf(Field(a, "steps"), IsObject)

\* In parallel anything may be done that may be done alone, but only one of
\* it in the browser.
RECURSIVE AcceptsAction(_)
AcceptsAction(a) ==
    LET type == Field(a, "type")
        subs == Field(a, "actions")
    IN /\ IsFullText(type)
       /\ type = Text("httpRequest") => AcceptsHttpRequest(a)
       /\ type = Text("dbQuery") => IsText(Field(a, "database")) /\ IsText(Field(a, "query"))
       /\ type = Text("wait") => IsPositive(Field(a, "durationMs"))
       /\ type = Text("ui") => AcceptsUi(a)
       /\ type = Text("parallel") =>
            /\ IsListOf(subs, LAMBDA x : IsObject(x) /\ AcceptsAction(x))
            /\ Cardinality({i \in DOMAIN subs[2] : Field(subs[2][i], "type") = Text("ui")}) =< 1
       /\ ~IsOneOf(type, {"ui", "parallel"}) => AcceptsLoops(a, "step")

\* Without an action of its own a step needs a loop, and no more is looked at.
AcceptsStep(s) ==
    /\ IsObject(s) /\ AcceptsLoops(s, "step") /\ Beside(s, "step")
    /\ IF IsObject(Field(s, "action"))
       THEN /\ AcceptsAction(Field(s, "action"))
            /\ MayBe(Field(s, "extract"), AcceptsExtract)
            /\ MayBe(Field(s, "assertions"), LAMBDA as : IsListOf(as, AcceptsBlock))
       ELSE Field(s, "action")[1] # "list" /\ LoopsOf(s) # {}

\* The name a capture is stored by, in either form.
NameOf(sub) ==
    LET shot == Field(sub, "screenshot")
        name == IF IsObject(shot) THEN Field(shot, "name") ELSE shot
    IN IF IsFullText(name) THEN {name[2]} ELSE {}

\* The places of the captures the validator compares by name, in a list of steps.
ComparedShots(steps) ==
    UNION { LET subs == Field(Field(steps[i], "action"), "steps") IN
            { <<i, j>> : j \in IF Field(Field(steps[i], "action"), "type") = Text("ui") /\ subs[1] = "list"
                               THEN {j \in DOMAIN subs[2] : NameOf(subs[2][j]) # {}} ELSE {} }
            : i \in DOMAIN steps }

ShotAt(steps, place) == NameOf(Field(Field(steps[place[1]], "action"), "steps")[2][place[2]])

\* A mutant of NamesUnique: compared within each step.
NamesUniqueInStep(steps) ==
    \A p, q \in ComparedShots(steps) : p[1] = q[1] /\ ShotAt(steps, p) = ShotAt(steps, q) => p = q

NamesUnique(steps) ==
    \A p, q \in ComparedShots(steps) : ShotAt(steps, p) = ShotAt(steps, q) => p = q

AcceptsVariables(v) == IsObject(v) /\ \A k \in DOMAIN v[2] : k \notin NotNames

AcceptsTest(t) ==
    /\ IsObject(t) /\ IsFullText(Field(t, "name"))
    /\ MayBe(Field(t, "variables"), AcceptsVariables)
    /\ AcceptsLoops(t, "test") /\ Beside(t, "test")
    /\ MayBe(Field(t, "steps"), LAMBDA s : IsListOf(s, AcceptsStep) /\ NamesUnique(s[2]))

-----------------------------------------------------------------------------
(* The agent decodes all tests at once, or none: what it cannot decode of   *)
(* one, as pairs of a place and a key.  Bodies of loops are decoded, too.   *)

WrongIn(place, v, keys, Takes(_)) == {<<place, k>> : k \in {x \in keys : ~Takes(Field(v, x))}}

\* A rule is a text, or a structure of them.
TakesRule(v) ==
    \/ GoText(v)
    \/ /\ IsObject(v) /\ GoInt(Field(v, "group"))
       /\ \A k \in {"path", "pattern", "transform", "from"} : GoText(Field(v, k))

TakesMaps(v) == GoListOf(v, GoMap)
TakesRules(v) == GoMapOf(v, TakesRule)

LoopInts == [forEach |-> {"delayMs"}, for |-> {"delayMs", "from", "to", "step"}, repeat |-> {"delayMs", "count"}]

LoopUndecodable(kind, v) ==
    WrongIn("loop", v, {"as", "name"}, GoText) \cup WrongIn("loop", v, LoopInts[kind], GoInt)
    \cup WrongIn("loop", v, {u \in {"until"} : kind = "repeat"}, TakesMaps)
    \cup WrongIn("body", v, {"match", "action"} \cup LoopKeys, GoMap)
    \cup WrongIn("body", v, {"extract"}, TakesRules)
    \cup WrongIn("body", v, {"assertions", "steps"}, TakesMaps)

LoopsUndecodable(place, v) ==
    WrongIn(place, v, LoopKeys, GoMap)
    \cup UNION {LoopUndecodable(k, Field(v, k)) : k \in {x \in LoopKeys : IsObject(Field(v, x))}}

BlockUndecodable(b) ==
    WrongIn("block", b, {"match"}, GoMap)
    \cup WrongIn("block", b, {"extract"}, TakesRules) \cup WrongIn("block", b, {"assertions"}, TakesMaps)
    \cup WrongIn("match", Field(b, "match"), {"path", "as"}, GoText)
    \cup WrongIn("match", Field(b, "match"), {"where"}, TakesMaps)
    \cup LoopsUndecodable("block", b)

RECURSIVE ActionUndecodable(_)
ActionUndecodable(a) ==
    LET place == IF IsText(Field(a, "type")) THEN Field(a, "type")[2] ELSE "action"
        subs == Field(a, "actions")
    IN WrongIn(place, a, {"type", "method", "url", "database", "query", "target"}, GoText)
       \cup WrongIn(place, a, {"headers"}, LAMBDA v : GoMapOf(v, GoText))
       \cup WrongIn(place, a, {"formData", "queryParams", "params"}, GoMap)
       \cup WrongIn(place, a, {"timeout", "durationMs"}, GoInt)
       \cup WrongIn(place, a, {"steps", "actions"}, TakesMaps)
       \cup LoopsUndecodable(place, a)
       \cup IF subs[1] = "list" THEN UNION {ActionUndecodable(x) : x \in ToSet(subs[2])} ELSE {}

StepUndecodable(s) ==
    WrongIn("step", s, {"name", "description"}, GoText) \cup WrongIn("step", s, {"stopOnFailure"}, GoBool)
    \cup WrongIn("step", s, {"action"}, GoMap) \cup WrongIn("step", s, {"extract"}, TakesRules)
    \cup WrongIn("step", s, {"assertions"}, TakesMaps) \cup LoopsUndecodable("step", s)
    \cup ActionUndecodable(Field(s, "action"))
    \cup IF Field(s, "assertions")[1] = "list"
         THEN UNION {BlockUndecodable(b) : b \in ToSet(Field(s, "assertions")[2])} ELSE {}

StepsOf(t) == IF Field(t, "steps")[1] = "list" THEN Field(t, "steps")[2] ELSE <<>>

Undecodable(t) ==
    WrongIn("test", t, {"name", "description"}, GoText) \cup WrongIn("test", t, {"timeoutSeconds"}, GoInt)
    \cup WrongIn("test", t, {"stopOnFailure"}, GoBool) \cup WrongIn("test", t, {"variables"}, GoMap)
    \cup WrongIn("test", t, {"steps"}, TakesMaps) \cup LoopsUndecodable("test", t)
    \cup UNION {StepUndecodable(s) : s \in ToSet(StepsOf(t))}

-----------------------------------------------------------------------------
(* The agent at work: what of a test fails, or is passed over in silence,   *)
(* whatever the services answer.                                           *)

\* ResolveExtractRule; without a group the first one is meant.
RuleDefects(v) ==
    LET Has(k) == IsFullText(Field(v, k))
        pattern == Field(v, "pattern")[2]
        group == IF IsWhole(Field(v, "group")) THEN Field(v, "group")[2] \div 2 ELSE 1
    IN {d \in {"transform", "from", "path", "regex", "group"} :
           CASE d = "transform" -> Has(d) /\ ~IsOneOf(Field(v, d), ExtractTransforms)
             [] d = "from"      -> Has("transform") /\ Has(d) /\ ~IsOneOf(Field(v, d), References)
             [] d = "path"      -> Has("transform") /\ ~Has("from") /\ ~Has(d)
             [] d = "regex"     -> ~Has("transform") /\ Has("pattern") /\ pattern \in BadGoRegexes
             [] d = "group"     -> /\ ~Has("transform") /\ Has("pattern") /\ pattern \notin BadGoRegexes
                                   /\ group \notin 0..Groups(pattern)}

ExtractDefects(v) == IF IsObject(v) THEN UNION {RuleDefects(v[2][x]) : x \in DOMAIN v[2]} ELSE {}

\* resolveForEachItems and the counts of for and repeat.
LoopDefects(kind, v, level) ==
    LET items == Field(v, "items")
        Times(k) == Field(v, k)[2] \div 2
        Has(k) == IsWhole(Field(v, k))
        step == IF Has("step") /\ Times("step") # 0 THEN Times("step") ELSE 1
    IN {d \in {"path", "text", "items", "never"} :
           CASE d = "path"  -> kind = "forEach" /\ IsOneOf(items, DocPaths) /\ level # "block"
             [] d = "text"  -> kind = "forEach" /\ IsText(items) /\ items[2] \notin References \cup DocPaths
             [] d = "items" -> kind = "forEach" /\ items[1] \notin {"text", "list"}
             [] d = "never" ->
                    \/ kind = "repeat" /\ Has("count") /\ Times("count") =< 0
                    \/ /\ kind = "for" /\ Has("from") /\ Has("to")
                       /\ IF step > 0 THEN Times("from") > Times("to") ELSE Times("from") < Times("to")}

LoopsDefects(v, level) == UNION {LoopDefects(k, Field(v, k), level) : k \in LoopsOf(v)}

\* desugarMatchCount drops what is neither a number nor an object.
CountDefects(v) ==
    IF \/ GoNone(v) \/ IsWhole(v)
       \/ (IsOneOf(Field(v, "operator"), CountOperators) /\ IsWhole(Field(v, "value"))) THEN {} ELSE {"count"}

BlockDefects(b) ==
    ExtractDefects(Field(b, "extract")) \cup CountDefects(Field(Field(b, "match"), "count"))
    \cup LoopsDefects(b, "block")

\* executeParallelAction knows requests and queries, and no loops around them.
ActionDefects(a) ==
    LET type == Field(a, "type")
        subs == Field(a, "actions")
        NotDone(x) == ~IsOneOf(Field(x, "type"), {"httpRequest", "dbQuery"}) \/ LoopsOf(x) # {}
    IN {d \in {"type", "body", "instant", "parallel"} :
           CASE d = "type"     -> ~IsOneOf(type, ActionTypes)
             [] d = "body"     -> {"body", "formData"} \subseteq DOMAIN a[2] /\ IsObject(Field(a, "formData"))
             [] d = "instant"  -> type = Text("wait") /\ ~IsPositive(Field(a, "durationMs"))
             [] d = "parallel" -> type = Text(d) /\ subs[1] = "list" /\ \E x \in ToSet(subs[2]) : NotDone(x)}
       \cup LoopsDefects(a, "step")

\* The action of a step: that of the body of its loop, or its own.
InBody(s) == \E k \in LoopsOf(s) : IsObject(Field(Field(s, k), "action"))
OwnAction(s) == IF ~InBody(s) /\ IsObject(Field(s, "action")) THEN {Field(s, "action")} ELSE {}

StepDefects(s) ==
    UNION {ActionDefects(a) : a \in OwnAction(s)}
    \cup ExtractDefects(Field(s, "extract")) \cup LoopsDefects(s, "step")
    \cup IF Field(s, "assertions")[1] = "list"
         THEN UNION {BlockDefects(b) : b \in ToSet(Field(s, "assertions")[2])} ELSE {}

Defects(t) == LoopsDefects(t, "test") \cup UNION {StepDefects(s) : s \in ToSet(StepsOf(t))}

\* hasUiSteps, by which the Control Tower starts a browser.
hasUiSteps(t) == \E s \in ToSet(StepsOf(t)) : Field(Field(s, "action"), "type") = Text("ui")

\* The captures a step makes, those in a group of its sub-steps included.
ShotsOf(a) ==
    IF Field(a, "type") # Text("ui") \/ Field(a, "steps")[1] # "list" THEN {}
    ELSE LET subs == Field(a, "steps")[2] IN
         {[at |-> <<j>>, name |-> NameOf(subs[j])] : j \in DOMAIN subs}
         \cup UNION { LET inner == Field(subs[j], "steps") IN
                      IF inner[1] # "list" THEN {}
                      ELSE {[at |-> <<j, k>>, name |-> NameOf(inner[2][k])] : k \in DOMAIN inner[2]}
                      : j \in DOMAIN subs }

-----------------------------------------------------------------------------
(* Properties.                                                             *)

\* What the validator does not look into, or only for its kind.
Unchecked ==
    {"httpRequest", "dbQuery"} \X {"headers", "timeout", "params"}
    \cup {"step"} \X {"name", "description", "stopOnFailure"}
    \cup {"test"} \X {"description", "timeoutSeconds", "stopOnFailure"}
    \cup {"body"} \X ({"match", "action", "extract", "assertions", "steps"} \cup LoopKeys)

\* What it passes over: a text for the items of a loop, or for the source of a
\* transform, that is no reference; a pattern without the group, or one only
\* JavaScript knows; types it warns of, or an action that is nowhere; and in
\* parallel what cannot be done in parallel.
PassedOver == {"text", "from", "regex", "group", "type", "parallel"}

\* A test the validator accepts can be decoded by the agent, but for values the
\* validator does not look at, and but for an action that is none beside a loop;
\* nothing in it fails or is ignored for a reason that lies in the test, but for
\* those named; and two captures that are neither in a body nor in a group of
\* sub-steps have names of their own, and a browser to be taken in.
AcceptedTestRuns(t) ==
    AcceptsTest(t) =>
        /\ \A w \in Undecodable(t) :
            \/ w \in Unchecked
            \/ /\ w = <<"step", "action">>
               /\ \A s \in ToSet(StepsOf(t)) : ~IsObject(Field(s, "action")) => LoopsOf(s) # {}
        /\ Defects(t) \subseteq PassedOver
        /\ \A i \in DOMAIN StepsOf(t) : \A a \in OwnAction(StepsOf(t)[i]) :
            /\ Field(a, "type") = Text("ui") => hasUiSteps(t)
            /\ \A j \in DOMAIN StepsOf(t) : \A b \in OwnAction(StepsOf(t)[j]) :
                \A p \in ShotsOf(a), q \in ShotsOf(b) :
                    /\ Len(p.at) = 1 /\ Len(q.at) = 1 /\ p.name # {}
                    /\ i # j \/ p.at # q.at
                    => p.name # q.name

=============================================================================
