----------------------------- MODULE Assertions -----------------------------
(***************************************************************************)
(* What the validator accepts as assertions, matches and extract rules, in *)
(* TypeScript, and how the test agent judges them, in Go.  A JSON value is *)
(* a record [kind, text, items, fields], with text what %v prints of it; a *)
(* path has a root, "$" for the document and "$$" for the element a where  *)
(* is asked about, and segments.  Of the texts, the tables say how Go      *)
(* reads those that occur.                                                 *)
(***************************************************************************)
EXTENDS Integers, Sequences, FiniteSets, Functions, SequencesExt, TLC

Value(kind, text) == [kind |-> kind, text |-> text, items |-> <<>>, fields |-> <<>>]
Null == Value("null", "<nil>")
Missing == Value("missing", "")
List(s) == [Value("array", "[..]") EXCEPT !.items = s]
Object(f) == [Value("object", "map[..]") EXCEPT !.fields = f]
NumberValue(n) == Value("number", ToString(n))
Text(t) == Value("string", t)

Numerals == "0" :> 0 @@ "1" :> 1 @@ "01" :> 1 @@ "2" :> 2
Indexes == "[0]" :> 0 @@ "[-1]" :> -1 @@ "[2]" :> 2
KeyOrder == <<"Id", "a", "b", "items", "key", "lastMatch", "match", "matches", "value">>
Patterns == "^a" :> {"a", "ab"} @@ "1" :> {"1", "01"}

Fold(t) == CASE t = "TRUE" -> "true" [] t = "AB" -> "ab" [] t = "Id" -> "id" [] OTHER -> t
Within(part, t) == part \in {"", t} \/ <<part, t>> \in {<<"a", "ab">>, <<"1", "01">>}

IsNumber(v) == v.kind \in {"number", "string"} /\ v.text \in DOMAIN Numerals
Number(v) == Numerals[v.text]
IsBool(v) == v.kind \in {"bool", "string"} /\ Fold(v.text) \in {"true", "false"}

LooseEqual(a, b) ==
    \/ a = b
    \/ IsBool(a) /\ IsBool(b) /\ Fold(a.text) = Fold(b.text)
    \/ IsNumber(a) /\ IsNumber(b) /\ Number(a) = Number(b)

IsEmptyValue(v) ==
    \/ v.kind = "null"
    \/ v.kind = "string" /\ v.text = ""
    \/ v.kind \in {"array", "object"} /\ v.items = <<>> /\ v.fields = <<>>

ContainsDispatch(v, e) ==
    CASE v.kind = "string" -> Within(e.text, v.text)
      [] v.kind = "array"  -> e \in Range(v.items)
      [] v.kind = "object" -> e.text \in DOMAIN v.fields
      [] OTHER -> FALSE

\* The items of a list are compared as they print, not by their types.
ContainsIgnoreCaseDispatch(v, e) ==
    CASE v.kind = "string" -> Within(Fold(e.text), Fold(v.text))
      [] v.kind = "array"  -> \E x \in Range(v.items) : Fold(x.text) = Fold(e.text)
      [] v.kind = "object" -> \E k \in DOMAIN v.fields : Fold(k) = Fold(e.text)
      [] OTHER -> FALSE

\* A mutant of Container: nothing is left out.
AnyContainer(v) == TRUE

Container(v) == v.kind \in {"string", "array", "object"}

Compare(op, a, b) ==
    \/ op = "eq" /\ a = b
    \/ op = "gt" /\ a > b
    \/ op = "gte" /\ a >= b
    \/ op = "lt" /\ a < b
    \/ op = "lte" /\ a =< b

CompareValues(op, v, e) ==
    CASE op = "eq" -> LooseEqual(v, e)
      [] op = "ne" -> ~LooseEqual(v, e)
      [] op = "eqIgnoreCase" ->
            IF v.kind = "string" /\ e.kind = "string" THEN Fold(v.text) = Fold(e.text) ELSE v = e
      [] op \in {"gt", "gte", "lt", "lte"} ->
            IsNumber(v) /\ IsNumber(e) /\ Compare(op, Number(v), Number(e))
      [] op = "contains" -> Container(v) /\ ContainsDispatch(v, e)
      [] op = "notContains" -> Container(v) /\ ~ContainsDispatch(v, e)
      [] op = "containsIgnoreCase" -> Container(v) /\ ContainsIgnoreCaseDispatch(v, e)
      [] op = "notContainsIgnoreCase" -> Container(v) /\ ~ContainsIgnoreCaseDispatch(v, e)
      [] op = "matches" -> e.text \in DOMAIN Patterns /\ v.text \in Patterns[e.text]
      [] op = "in" -> e.kind = "array" /\ \E x \in Range(e.items) : LooseEqual(x, v)
      [] op = "notIn" -> e.kind = "array" /\ \A x \in Range(e.items) : ~LooseEqual(x, v)
      [] op = "isEmpty" -> IsEmptyValue(v)
      [] op = "notEmpty" -> ~IsEmptyValue(v)
      [] OTHER -> FALSE

-----------------------------------------------------------------------------
(* Paths and transforms.                                                   *)

SortedKeys(fields) == SelectSeq(KeyOrder, LAMBDA k : k \in DOMAIN fields)

\* A key that is not there in these letters is looked for in any.  Of two that
\* differ in that alone the code takes either; the documents have no such two.
\* The code looks in a list of the keys that it made of the object when it was
\* first asked for one so, and keeps until the next step is judged; here the
\* list is always that of the object as it is.
Child(v, seg) ==
    LET at == IF Indexes[seg] < 0 THEN Len(v.items) + Indexes[seg] ELSE Indexes[seg]
        alike == {k \in DOMAIN v.fields : Fold(k) = Fold(seg)}
    IN CASE seg \in DOMAIN Indexes /\ v.kind = "array" /\ at \in 0..(Len(v.items) - 1) -> v.items[at + 1]
         [] seg \notin DOMAIN Indexes /\ v.kind = "object" /\ seg \in DOMAIN v.fields -> v.fields[seg]
         [] seg \notin DOMAIN Indexes /\ v.kind = "object" /\ seg \notin DOMAIN v.fields /\ alike # {} ->
                v.fields[CHOOSE k \in alike : TRUE]
         [] OTHER -> Missing

EvaluateDocPath(doc, path, element) ==
    IF path.segs = <<>> THEN Missing
    ELSE FoldLeft(Child, IF path.root = "$$" THEN element ELSE doc, path.segs)

Failure == [ok |-> FALSE, value |-> Missing]
Result(v) == [ok |-> TRUE, value |-> v]

TypeLabel(v) == Text(IF v.kind = "bool" THEN "boolean" ELSE v.kind)

ApplyTransform(v, transform) ==
    LET keys == SortedKeys(v.fields)
        Listed(Item(_)) == IF v.kind = "object" THEN Result(List([i \in DOMAIN keys |-> Item(keys[i])]))
                           ELSE Failure
        entry(k) == Object("key" :> Text(k) @@ "value" :> v.fields[k])
    IN CASE transform = "" -> Result(v)
         [] transform = "length" /\ v.kind = "array" -> Result(NumberValue(Len(v.items)))
         [] transform = "length" /\ v.kind = "string" -> Result(NumberValue(Len(v.text)))
         [] transform = "type" -> Result(TypeLabel(v))
         [] transform = "keys" -> Listed(LAMBDA k : Text(k))
         [] transform = "values" -> Listed(LAMBDA k : v.fields[k])
         [] transform = "entries" -> Listed(entry)
         [] OTHER -> Failure

\* An expected value is itself or a reference, with ref # <<>>, to the document.
ResolveValue(e, doc, element) ==
    IF e.ref = <<>> \/ e.ref[1].root # "$" THEN Result(e.value)
    ELSE LET v == EvaluateDocPath(doc, e.ref[1], element)
         IN IF v = Missing THEN Failure ELSE ApplyTransform(v, e.transform)

-----------------------------------------------------------------------------
(* Assertions: [sources, op, expected, disabled].  sources gives the source *)
(* fields that are set [object, root, segs, transform]; a root is "empty"   *)
(* for an empty text and "other" for a path that starts with no root.       *)

Fields == <<"path", "count", "type", "keys", "values", "entries">>

Shorthand ==
    [path |-> "", count |-> "length", type |-> "type", keys |-> "keys", values |-> "values",
     entries |-> "entries"]

\* The first field that is set; an empty text is as one that is not.
ResolveSource(a) ==
    LET set == SelectSeq(Fields, LAMBDA f : f \in DOMAIN a.sources /\
                                    (a.sources[f].object \/ a.sources[f].root # "empty"))
        s == a.sources[Head(set)]
    IN  [ok |-> set # <<>> /\ s.root \in (IF s.object THEN {"$"} ELSE {"$", "$$"}),
         path |-> IF set = <<>> THEN <<>> ELSE [root |-> s.root, segs |-> s.segs],
         transform |-> IF set = <<>> THEN "" ELSE IF s.object THEN s.transform ELSE Shorthand[Head(set)]]

\* ValidateAssertion: whether a holds of doc.
Holds(a, doc, element) ==
    LET source == ResolveSource(a)
        v == EvaluateDocPath(doc, source.path, element)
        actual == ApplyTransform(v, source.transform)
        expected == ResolveValue(a.expected, doc, element)
    IN /\ source.ok
       /\ CASE a.op = "exists" -> v \notin {Missing, Null}
            [] a.op = "notExists" -> v \in {Missing, Null}
            [] OTHER -> /\ v # Missing
                        /\ actual.ok /\ expected.ok
                        /\ CompareValues(a.op, actual.value, expected.value)

Transforms == {"length", "type", "keys", "values", "entries"}
Ordered == {"gt", "gte", "lt", "lte"}
Operators ==
    Ordered \cup
    {"eq", "ne", "eqIgnoreCase", "contains", "notContains", "containsIgnoreCase",
     "notContainsIgnoreCase", "matches", "exists", "notExists", "in", "notIn", "isEmpty", "notEmpty"}

\* A mutant of AcceptsAssertion: any number of source fields.
AcceptsAnyFields(a) ==
    /\ \A f \in DOMAIN a.sources : a.sources[f].root = "$"
    /\ a.op \in Operators \/ (a.op = "none" /\ a.disabled)

AcceptsAssertion(a) ==
    /\ Cardinality(DOMAIN a.sources) = 1
    /\ \A f \in DOMAIN a.sources :
        /\ a.sources[f].root = "$"
        /\ a.sources[f].object => f = "path" /\ a.sources[f].transform \in Transforms
    /\ a.op \in Operators \/ (a.op = "none" /\ a.disabled)

-----------------------------------------------------------------------------
(* Matches.  A where entry is [form, op, path, expected, of], form "is" for *)
(* an assertion, else "not", "or" or "and" of the entries of.               *)

RECURSIVE Satisfies(_, _, _)
Satisfies(w, doc, element) ==
    LET expected == ResolveValue(w.expected, doc, Missing)
        source == [object |-> FALSE, root |-> w.path.root, segs |-> w.path.segs, transform |-> ""]
        plain == [sources |-> "path" :> source, op |-> w.op, disabled |-> FALSE,
                  expected |-> [w.expected EXCEPT !.ref = <<>>, !.value = expected.value]]
    IN CASE w.form = "not" -> ~Satisfies(w.of[1], doc, element)
         [] w.form = "or" /\ w.of # <<>> -> \E i \in DOMAIN w.of : Satisfies(w.of[i], doc, element)
         [] w.form = "and" /\ w.of # <<>> -> \A i \in DOMAIN w.of : Satisfies(w.of[i], doc, element)
         [] OTHER -> expected.ok /\ Holds(plain, doc, element)

RECURSIVE AcceptsWhere(_)
AcceptsWhere(w) ==
    CASE w.form = "is" -> w.path.root = "$$" /\ w.op \in Operators
      [] w.form = "not" -> AcceptsWhere(w.of[1])
      [] OTHER -> w.of # <<>> /\ \A i \in DOMAIN w.of : AcceptsWhere(w.of[i])

\* A mutant of Selected: what is not an object is selected too.
SelectedAny(where, doc, list) ==
    SelectSeq(list, LAMBDA x : \A i \in DOMAIN where : x.kind = "object" => Satisfies(where[i], doc, x))

\* The elements of a list that a where selects; without one, all.
Selected(where, doc, list) ==
    IF where = <<>> THEN list
    ELSE SelectSeq(list, LAMBDA x : x.kind = "object" /\ \A i \in DOMAIN where : Satisfies(where[i], doc, x))

MatchKeys == {"matches", "match", "lastMatch"}

Push(doc, found) ==
    Object("matches" :> List(found)
           @@ "match" :> (IF found = <<>> THEN Null ELSE Head(found))
           @@ "lastMatch" :> (IF found = <<>> THEN Null ELSE Last(found))
           @@ doc.fields)

\* A mutant of Pop: what was not there before is left there.
PopKeeps(doc, saved) == Object(saved @@ doc.fields)

\* saved are the fields of MatchKeys before Push.
Pop(doc, saved) == Object(saved @@ Restrict(doc.fields, DOMAIN doc.fields \ MatchKeys))

AsCount(count) == IF count.op = "" THEN [op |-> "eq", n |-> count.n] ELSE count
CountHolds(count, n) == Compare(AsCount(count).op, n, AsCount(count).n)

\* Paths that begin with match or lastMatch, and go on.
IntoMatch(a) ==
    /\ "path" \in DOMAIN a.sources
    /\ LET s == a.sources["path"] IN
       ~s.object /\ s.root = "$" /\ Len(s.segs) > 1 /\ s.segs[1] \in {"match", "lastMatch"}

\* A block is [match, assertions, loop], match and loop <<>> when there is none;
\* a loop is [times, body], the body a block.  Variables are left out.  What it
\* does, in order: its match, the turns of its loop, its assertions, its end.
RECURSIVE Steps(_, _)
Steps(block, depth) ==
    LET Step(what) == [what |-> what, block |-> block, depth |-> depth]
        turns == IF block.loop = <<>> THEN <<>>
                 ELSE [n \in 1..block.loop[1].times |-> Steps(block.loop[1].body, depth + 1)]
    IN <<Step("match")>> \o FlattenSeq(turns) \o <<Step("assertions"), Step("end")>>

\* done: the document, the stack of what the matches pushed covered, the depth
\* of the block that failed (or 0) and the results: for each assertion judged,
\* the document it was judged on and whether it held; of a match that fails, one
\* that is of no assertion.
Begun(doc) == [doc |-> doc, stack |-> <<>>, failed |-> 0, results |-> <<>>]

Fail(done, depth, on) ==
    [done EXCEPT !.failed = depth, !.results = Append(@, [of |-> <<>>, on |-> on, ok |-> FALSE])]

DoMatch(done, step) ==
    LET m == step.block.match[1]
        source == EvaluateDocPath(done.doc, m.path, Missing)
        saved == Restrict(done.doc.fields, DOMAIN done.doc.fields \cap MatchKeys)
        With(found) ==
            [done EXCEPT !.doc = Push(@, found),
                         !.stack = Append(@, [depth |-> step.depth, saved |-> saved])]
        Go(found) ==
            IF m.count = <<>> \/ CountHolds(m.count[1], Len(found)) THEN With(found)
            ELSE Fail(With(found), step.depth, done.doc)
    IN CASE step.block.match = <<>> -> done
         [] step.block.match # <<>> /\ source.kind # "array" -> Fail(done, step.depth, done.doc)
         [] OTHER -> Go(Selected(m.where, done.doc, source.items))

\* What is said of the matched entry when nothing matched fails unjudged, and
\* is reported first.
DoAssertions(done, step) ==
    LET noMatch == /\ step.block.match # <<>>
                   /\ "matches" \in DOMAIN done.doc.fields
                   /\ done.doc.fields["matches"].items = <<>>
        Fails(a) == noMatch /\ IntoMatch(a)
        active == SelectSeq(step.block.assertions, LAMBDA a : ~a.disabled)
        inOrder == SelectSeq(active, Fails) \o SelectSeq(active, LAMBDA a : ~Fails(a))
        Judged(a) == [of |-> <<a>>, on |-> done.doc, ok |-> ~Fails(a) /\ Holds(a, done.doc, Missing)]
    IN [done EXCEPT !.results = @ \o [i \in DOMAIN inOrder |-> Judged(inOrder[i])]]

\* The match is popped wherever the block ended, if it was pushed.
DoEnd(done, depth) ==
    LET goesOn == [done EXCEPT !.failed = 0] IN
    IF done.stack # <<>> /\ Last(done.stack).depth = depth
    THEN [goesOn EXCEPT !.doc = Pop(@, Last(done.stack).saved), !.stack = Front(@)]
    ELSE goesOn

Do(done, step) ==
    CASE done.failed = 0 /\ step.what = "match" -> DoMatch(done, step)
      [] done.failed = 0 /\ step.what = "assertions" -> DoAssertions(done, step)
      [] step.what = "end" /\ done.failed \in {0, step.depth} -> DoEnd(done, step.depth)
      [] OTHER -> done

\* The document as the block leaves it, and its results.
ValidateBlock(block, doc) == FoldLeft(Do, Begun(doc), Steps(block, 1))

-----------------------------------------------------------------------------
(* Properties.                                                             *)

Negation ==
    "eq" :> "ne" @@ "contains" :> "notContains" @@ "in" :> "notIn" @@ "isEmpty" :> "notEmpty"
    @@ "containsIgnoreCase" :> "notContainsIgnoreCase" @@ "exists" :> "notExists"

\* Whether there is something for op to judge, and of the kind it takes.
Judgeable(a, doc) ==
    LET source == ResolveSource(a)
        v == EvaluateDocPath(doc, source.path, Missing)
        actual == ApplyTransform(v, source.transform)
        expected == ResolveValue(a.expected, doc, Missing)
    IN source.ok /\ (a.op # "exists" =>
        /\ v # Missing /\ actual.ok /\ expected.ok
        /\ a.op \in {"contains", "containsIgnoreCase"} =>
                actual.value.kind \in {"string", "array", "object"}
        /\ a.op = "in" => expected.value.kind = "array")

\* An operator and its negation never both hold; just one does of what can be
\* judged and none of what cannot; and the operators agree with each other.
OperatorsAgree(a, doc) ==
    LET In(e) == [a EXCEPT !.op = "in", !.expected.value = List(<<e>>)]
        agree(is) ==
            /\ a.op \in DOMAIN Negation =>
                IF Judgeable(a, doc) THEN is[a.op] # is[Negation[a.op]]
                ELSE ~is[a.op] /\ ~is[Negation[a.op]]
            /\ is["gte"] /\ is["lte"] => is["eq"]
            /\ is["gte"] <=> is["gt"] \/ (is["gte"] /\ is["lte"])
            /\ is["contains"] => is["containsIgnoreCase"]
            /\ a.expected.ref = <<>> => (is["eq"] <=> Holds(In(a.expected.value), doc, Missing))
    IN agree([op \in Operators |-> Holds([a EXCEPT !.op = op], doc, Missing)])

\* What the validator accepts the agent understands: one source, a path it can
\* evaluate, a transform and an operator it knows.
AcceptedIsUnderstood(a) ==
    LET source == ResolveSource(a) IN
    AcceptsAssertion(a) =>
        /\ source.ok /\ source.transform \in Transforms \cup {""}
        /\ \A f \in DOMAIN a.sources : source.path.segs = a.sources[f].segs
        /\ a.disabled \/ a.op \in Operators

\* The keys, the values and the entries of an object are in one order.
TransformsAlign(v) ==
    LET Of(t) == ApplyTransform(v, t).value.items IN
    v.kind = "object" =>
        /\ Len(Of("keys")) = Cardinality(DOMAIN v.fields)
        /\ Len(Of("keys")) = Len(Of("values")) /\ Len(Of("keys")) = Len(Of("entries"))
        /\ \A i \in DOMAIN Of("keys") :
            /\ Of("entries")[i].fields["key"] = Of("keys")[i]
            /\ Of("entries")[i].fields["value"] = Of("values")[i]
            /\ v.fields[Of("keys")[i].text] = Of("values")[i]

\* A where and its negation part the objects of a list between them, and keep
\* their order; two of a list are as their conjunction, and "or" is as De
\* Morgan has it.
WhereParts(w, u, doc, list) ==
    LET Join(form, s) == [w EXCEPT !.form = form, !.of = s]
        Not(x) == Join("not", <<x>>)
        objects == SelectSeq(list, LAMBDA x : x.kind = "object")
        both == <<Join("and", <<w, u>>)>>
        neither == {<<Not(Join("or", <<w, u>>))>>, <<Join("and", <<Not(w), Not(u)>>)>>}
        part(by) ==
            /\ Len(by[<<w>>]) + Len(by[<<Not(w)>>]) = Len(objects)
            /\ by[<<w>>] = SelectSeq(objects, LAMBDA x : x \in Range(by[<<w>>]))
            /\ Range(by[<<w>>]) \cap Range(by[<<Not(w)>>]) = {}
            /\ by[<<w, u>>] = by[both]
            /\ \A x, y \in neither : by[x] = by[y]
    IN AcceptsWhere(w) /\ AcceptsWhere(u) =>
        part([where \in {<<w>>, <<Not(w)>>, <<w, u>>, both} \cup neither |-> Selected(where, doc, list)])

\* The exception: a "notExists" in a block without a match of its own.
AsksForNothing(a, block) ==
    /\ a.op = "notExists"
    /\ \E step \in Range(Steps(block, 1)) :
          step.what = "assertions" /\ step.block.match = <<>> /\ a \in Range(step.block.assertions)

\* A block leaves the match that was there as it found it, wherever it ends;
\* and what is said of the matched entry holds only when one matched, but for
\* "notExists" in a block without a match of its own.
BlockRestores(block, doc) ==
    \A end \in {ValidateBlock(block, doc)} :
        /\ end.doc = doc
        /\ \A r \in Range(end.results) :
            (r.ok /\ r.of # <<>> /\ IntoMatch(r.of[1]) /\ ~AsksForNothing(r.of[1], block)) =>
                "matches" \in DOMAIN r.on.fields /\ r.on.fields["matches"].items # <<>>

=============================================================================
