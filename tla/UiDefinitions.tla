--------------------------- MODULE UiDefinitions ---------------------------
(***************************************************************************)
(* The sub-steps of a UI action: what the validator accepts (TypeScript),  *)
(* what the test agent can decode and what its executor can then perform   *)
(* (Go).  A JSON value is [is, has]: is says what it is, and has holds the *)
(* fields of an object or the elements of a list.  Of a string, only what  *)
(* the two sides tell apart is kept.                                       *)
(***************************************************************************)
EXTENDS Integers, Sequences, Functions

Leaf(is) == [is |-> is, has |-> <<>>]
Fields(f) == [is |-> "object", has |-> f]
Elements(s) == [is |-> "list", has |-> s]
Absent == Leaf("absent")
At(v, key) == IF v.is = "object" /\ key \in DOMAIN v.has THEN v.has[key] ELSE Absent
Holds(v, key) == At(v, key) # Absent

Kinds == {"visit", "click", "type", "waitFor", "extract", "screenshot", "scroll",
          "select", "hover", "key", "upload", "drag", "viewport"}
LoopKeys == {"forEach", "for", "repeat"}

ExtractFrom == {"text", "attribute", "value", "url", "cookie", "localStorage",
                "sessionStorage", "count", "exists"}
UrlParts == {"full", "pathname", "search", "hash", "host"}

\* Regular expressions, by what JavaScript and Go make of them: without a group,
\* with one, with a lookahead (JavaScript only), and with none of the two.
Regexes == {"flat", "grouped", "lookahead", "unclosed"}

Words == {"empty", "word", "braces"} \cup ExtractFrom \cup UrlParts \cup Regexes
Integral == {"whole", "zero", "minus"}

-----------------------------------------------------------------------------
(* validate-ui-action.ts, validate-ui-substeps.ts.                         *)

IsString(v) == v.is \in Words
IsText(v) == IsString(v) /\ v.is # "empty"
MayBe(Is(_), v) == v = Absent \/ Is(v)
IsInteger(v) == v.is \in Integral
IsPositive(v) == v.is = "whole"
IsListOf(Is(_), v) == v.is = "list" /\ \A i \in DOMAIN v.has : Is(v.has[i])

\* A name goes into the file of the capture: no {{variables}} in it.
IsArtifactName(v) == IsText(v) /\ v.is # "braces"

IsMatch(v) ==
    \/ v.is \in {"true", "false"}
    \/ /\ v.is = "object"
       /\ At(v, "threshold").is \in {"absent", "whole", "zero", "half"}
       /\ MayBe(LAMBDA x : IsListOf(IsText, x), At(v, "ignoreRegions"))

\* The fields a source needs, by where it reads its value from.
AttributeOfAny(from) ==
    CASE from \in {"text", "attribute", "value", "count", "exists"} -> {"selector"}
      [] from = "cookie" -> {"name"}
      [] from \in {"localStorage", "sessionStorage"} -> {"key"}
      [] OTHER -> {}

Needs(from) ==
    CASE from \in {"text", "value", "count", "exists"} -> {"selector"}
      [] from = "attribute" -> {"selector", "name"}
      [] from = "cookie" -> {"name"}
      [] from \in {"localStorage", "sessionStorage"} -> {"key"}
      [] OTHER -> {}

IsSource(v) ==
    /\ v.is = "object"
    /\ At(v, "from").is \in ExtractFrom
    /\ \A f \in Needs(At(v, "from").is) : IsText(At(v, f))
    /\ At(v, "from").is = "url" => At(v, "part").is \in UrlParts \cup {"absent"}
    /\ MayBe(IsString, At(v, "pattern")) /\ At(v, "pattern").is # "unclosed"
    /\ At(v, "group").is \in {"absent", "whole", "zero"}

AcceptsType(v) == IsText(At(v, "selector")) /\ IsString(At(v, "text"))

AcceptsWaitFor(v) ==
    IsText(v) \/ (IsText(At(v, "selector")) /\ MayBe(IsString, At(v, "text")))

AcceptsScreenshot(v) ==
    \/ IsArtifactName(v)
    \/ /\ IsArtifactName(At(v, "name")) /\ MayBe(IsText, At(v, "selector"))
       /\ MayBe(IsMatch, At(v, "match"))

AcceptsScroll(v) ==
    \/ IsText(v)
    \/ /\ v.is = "object"
       /\ IsText(At(v, "selector")) \/ Holds(v, "x") \/ Holds(v, "y")
       /\ MayBe(IsInteger, At(v, "x")) /\ MayBe(IsInteger, At(v, "y"))

AcceptsSelect(v) == IsText(At(v, "selector")) /\ IsString(At(v, "value"))

AcceptsKey(v) ==
    IsText(v) \/ (IsText(At(v, "key")) /\ MayBe(IsText, At(v, "selector")))

AcceptsUpload(v) ==
    LET files == At(v, "files")
    IN IsText(At(v, "selector")) /\ IsListOf(IsText, files) /\ files.has # <<>>

AcceptsDrag(v) == IsText(At(v, "from")) /\ IsText(At(v, "to"))

AcceptsViewport(v) == IsPositive(At(v, "width")) /\ IsPositive(At(v, "height"))

AcceptsExtract(v) == v.is = "object" /\ \A x \in DOMAIN v.has : IsSource(v.has[x])

AcceptsValue(kind, v) ==
    CASE kind \in {"visit", "click", "hover"} -> IsText(v)
      [] kind = "type"       -> AcceptsType(v)
      [] kind = "waitFor"    -> AcceptsWaitFor(v)
      [] kind = "extract"    -> AcceptsExtract(v)
      [] kind = "screenshot" -> AcceptsScreenshot(v)
      [] kind = "scroll"     -> AcceptsScroll(v)
      [] kind = "select"     -> AcceptsSelect(v)
      [] kind = "key"        -> AcceptsKey(v)
      [] kind = "upload"     -> AcceptsUpload(v)
      [] kind = "drag"       -> AcceptsDrag(v)
      [] kind = "viewport"   -> AcceptsViewport(v)

\* A loop key without steps makes no group: it is an unknown key, which is
\* warned of but accepted.
IsGroup(sub) == (\E k \in LoopKeys : Holds(sub, k)) /\ Holds(sub, "steps")
KindsOf(sub) == {k \in Kinds : Holds(sub, k)}

\* The loop itself is validated as those of Definitions.
RECURSIVE Accepts(_)
Accepts(sub) ==
    /\ sub.is = "object"
    /\ IF IsGroup(sub)
       THEN /\ KindsOf(sub) = {}
            /\ \E k \in LoopKeys : {l \in LoopKeys : Holds(sub, l)} = {k} /\ At(sub, k).is = "object"
            /\ IsListOf(Accepts, At(sub, "steps"))
       ELSE /\ MayBe(IsPositive, At(sub, "timeoutMs"))
            /\ \E k \in Kinds : KindsOf(sub) = {k} /\ AcceptsValue(k, At(sub, k))

-----------------------------------------------------------------------------
(* ui_types.go: what json.Unmarshal can put where.  A null is put anywhere *)
(* and changes nothing, and so does a field that is not there.             *)

Nothing == {"absent", "null"}
GoString(v) == v.is \in Words \cup Nothing
GoInt(v) == v.is \in Integral \cup Nothing
GoFloat(v) == v.is \in Integral \cup {"half"} \cup Nothing
GoSlice(Is(_), v) == v.is \in Nothing \/ IsListOf(Is, v)
GoStruct(v, strings, ints) ==
    \/ v.is \in Nothing
    \/ v.is = "object" /\ (\A f \in strings : GoString(At(v, f))) /\ \A f \in ints : GoInt(At(v, f))

unmarshalScreenshotMatch(v) ==
    \/ v.is \in {"true", "false"} \cup Nothing
    \/ v.is = "object" /\ GoFloat(At(v, "threshold")) /\ GoSlice(GoString, At(v, "ignoreRegions"))

Decodes(kind, v) ==
    CASE kind \in {"visit", "click", "hover"} -> GoString(v)
      [] kind = "type"     -> GoStruct(v, {"selector", "text"}, {})
      [] kind = "waitFor"  -> GoString(v) \/ GoStruct(v, {"selector", "text"}, {})
      [] kind = "screenshot" ->
            \/ GoString(v)
            \/ GoStruct(v, {"name", "selector"}, {}) /\ unmarshalScreenshotMatch(At(v, "match"))
      [] kind = "scroll"   -> GoString(v) \/ GoStruct(v, {"selector"}, {"x", "y"})
      [] kind = "select"   -> GoStruct(v, {"selector", "value"}, {})
      [] kind = "key"      -> GoString(v) \/ GoStruct(v, {"selector", "key"}, {})
      [] kind = "upload"   -> GoStruct(v, {"selector"}, {}) /\ GoSlice(GoString, At(v, "files"))
      [] kind = "drag"     -> GoStruct(v, {"from", "to"}, {})
      [] kind = "viewport" -> GoStruct(v, {}, {"width", "height"})
      [] kind = "extract"  ->
            \/ v.is \in Nothing
            \/ v.is = "object" /\ \A x \in DOMAIN v.has :
                    GoStruct(v.has[x], {"from", "selector", "name", "key", "part", "pattern"}, {"group"})

RECURSIVE UnmarshalJSON(_)
UnmarshalJSON(sub) ==
    /\ sub.is = "object"
    /\ IF IsGroup(sub)
       THEN /\ \A k \in LoopKeys : At(sub, k).is \in Nothing \cup {"object"}
            /\ GoSlice(UnmarshalJSON, At(sub, "steps"))
       ELSE /\ GoInt(At(sub, "timeoutMs"))
            /\ \E k \in Kinds : KindsOf(sub) = {k} /\ Decodes(k, At(sub, k))

-----------------------------------------------------------------------------
(* ui_executor.go, ui_extract.go: what a decoded sub-step fails at         *)
(* whatever the page looks like.                                           *)

\* The group of the pattern that is asked for; without one it is the first.
resolveExtractGroup(group) == IF group.is \in Nothing THEN "whole" ELSE group.is

\* What Extract refuses to read without: the readers of the DOM are given a
\* selector, the others a name or a key.
Reads(from) ==
    (IF from \in {"text", "attribute", "value", "count", "exists"} THEN {"selector"} ELSE {})
    \cup (IF from \in {"attribute", "cookie"} THEN {"name"} ELSE {})
    \cup (IF from \in {"localStorage", "sessionStorage"} THEN {"key"} ELSE {})

\* A pattern has as many groups as its parentheses, and group 0.
PatternFits(v) ==
    LET p == At(v, "pattern").is IN
    \/ p \in Nothing \cup {"empty"}
    \/ p \notin {"lookahead", "unclosed"}
       /\ resolveExtractGroup(At(v, "group")) \in {"zero"} \cup (IF p = "grouped" THEN {"whole"} ELSE {})

Extracts(v) ==
    /\ At(v, "from").is \in ExtractFrom
    /\ \A f \in Reads(At(v, "from").is) : IsText(At(v, f))
    /\ At(v, "from").is = "url" => At(v, "part").is \in UrlParts \cup Nothing \cup {"empty"}
    /\ PatternFits(v)

\* A group is performed by runSubStep like any other once it is in a group,
\* and to that it is a sub-step without a kind.
Performs(sub) ==
    LET each == IF IsGroup(sub) THEN Range(At(sub, "steps").has) ELSE {sub}
    IN \A s \in each :
        /\ ~IsGroup(s)
        /\ Holds(s, "extract") => \A x \in DOMAIN At(s, "extract").has : Extracts(At(s, "extract").has[x])

-----------------------------------------------------------------------------
(* What the validator does not look at although the agent does.            *)

\* A field that the validator has no need of, and that is no string.
Loose(v, fields) == \E f \in fields : ~GoString(At(v, f))

LooseSource(v) ==
    \/ Loose(v, {"selector", "name", "key"} \ Needs(At(v, "from").is))
    \/ At(v, "from").is # "url" /\ Loose(v, {"part"})
    \/ ~PatternFits(v)

RECURSIVE Unchecked(_)
Unchecked(sub) ==
    IF IsGroup(sub) THEN \E s \in Range(At(sub, "steps").has) : IsGroup(s) \/ Unchecked(s)
    ELSE \/ At(sub, "scroll").is = "object" /\ Loose(At(sub, "scroll"), {"selector"})
         \/ \E x \in DOMAIN At(sub, "extract").has : LooseSource(At(sub, "extract").has[x])

\* A definition that the validator accepts is one the test agent decodes and can
\* perform: of those it accepts, the agent fails, and at every run, exactly those
\* with a group in a group, with a field of the wrong type where the validator
\* does not look, or with a pattern that Go does not compile or that has not the
\* group that is asked for.
UiAgrees(sub) ==
    Accepts(sub) => ((UnmarshalJSON(sub) /\ Performs(sub)) <=> ~Unchecked(sub))
=============================================================================
