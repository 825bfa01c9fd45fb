------------------------------ MODULE MCInputs ------------------------------
(* The inputs on which MCParts checks the parts that are functions, and the  *)
(* scripts and dialogues of those with behaviours: first those of the agents *)
(* and proxies, then what is done with a definition before and after it      *)
(* reaches the Control Tower, the files of preferences and settings, and the *)
(* runs of which the reports tell.                                           *)
EXTENDS Integers, Sequences, FiniteSets, TLC

CONSTANT MaxIterations

-----------------------------------------------------------------------------
(* TrafficCapture: for each protocol the shortest scripts in which a request *)
(* depends on an earlier one or overtakes it.                                *)

R(kind) == [kind |-> kind, name |-> 1, portal |-> 0, msg |-> 0, n |-> 0]
On(kind, name) == [R(kind) EXCEPT !.name = name]
AtPortal(kind, name, portal) == [On(kind, name) EXCEPT !.portal = portal]
Frame(kind, channel, m, n) ==
    [kind |-> kind, name |-> channel, portal |-> 0, msg |-> m, n |-> n]

Script(proto, reqs) == [proto |-> proto, reqs |-> reqs, pushes |-> <<>>]

Message(kind, channel, m) ==
    <<Frame(kind, channel, m, 0), Frame("header", channel, m, 2),
      Frame("body", channel, m, 0), Frame("body", channel, m, 0)>>

Empty(kind, channel, m) ==
    <<Frame(kind, channel, m, 0), Frame("header", channel, m, 0)>>

\* A push of Redis belongs to no request; the first stands for it.
RedisPush == [kind |-> "push", req |-> 1, text |-> 1, final |-> FALSE, n |-> <<0, 0>>]

\* Two statements are described before the first is executed; and two portals
\* are bound, of which the first is executed first.
MCTwoDescribed ==
    Script("postgres", <<On("parse", 1), On("describe", 1), On("parse", 2), On("describe", 2),
                         On("bind", 1), R("execute")>>)
MCTwoPortals ==
    Script("postgres", <<On("parse", 1), On("parse", 2), AtPortal("bind", 1, 1), AtPortal("bind", 2, 2),
                         AtPortal("execute", 1, 1), AtPortal("execute", 2, 2)>>)

\* As many commands as the proxy holds with a queue of two, and one more: one
\* that waits for its reply, two in the queue, and the next.
MCPipelined == Script("redis", <<R("command"), R("command"), R("command"), R("command")>>)

MCScripts ==
    { Script("postgres", <<R("query"), R("query"), R("query")>>),
      Script("postgres", <<R("multi"), R("query"), R("comment")>>),
      Script("postgres", <<On("parse", 1), On("bind", 1), On("describe", 1),
                           R("execute"), R("sync"), R("query")>>),
      Script("postgres", <<R("query"), On("parse", 1), On("parse", 2), On("bind", 2),
                           R("execute")>>),
      MCTwoDescribed,
      MCTwoPortals,
      Script("postgres", <<On("parse", 1), On("bind", 1), On("parse", 1), R("execute"), R("execute")>>),
      Script("mysql", <<R("query"), On("prepare", 1), On("execute", 1)>>),
      Script("mysql", <<On("prepare", 1), On("prepare", 2), On("execute", 1), R("ping")>>),
      Script("redis", <<R("internal"), R("command"), R("command")>>),
      MCPipelined,
      [Script("redis", <<R("command"), R("command")>>)
          EXCEPT !.pushes = <<RedisPush, RedisPush>>],
      Script("redis", <<R("command"), R("subscribe"), R("command")>>),
      Script("mongo", <<R("internal"), R("find"), On("getMore", 2), R("command")>>),
      Script("mongo", <<R("find"), R("aggregate"), On("getMore", 2), On("getMore", 1)>>),
      Script("kafka", <<R("produce"), R("fetch"), R("fetch"), R("produce")>>),
      [Script("amqp", Empty("publish", 1, 1) \o Message("publish", 1, 2))
          EXCEPT !.pushes = Message("deliver", 2, 3)] }

MCNames == 1..4

-----------------------------------------------------------------------------
(* SessionSetup: each way a server authenticates, and its failure.         *)

Postgres(first, msgs) == [proto |-> "postgres", first |-> first, msgs |-> msgs]
MySQL(msgs) == [proto |-> "mysql", first |-> <<>>, msgs |-> msgs]

MCDialogues ==
    { Postgres(<<"startup">>, <<"authOk", "parameter", "ready">>),
      Postgres(<<"ssl", "startup">>, <<"md5", "authOk", "parameter", "ready">>),
      Postgres(<<"startup">>, <<"password", "error">>),
      Postgres(<<"startup">>, <<"gss", "gss", "authOk", "ready">>),
      Postgres(<<"ssl", "startup">>,
               <<"sasl", "saslContinue", "saslFinal", "authOk", "parameter", "ready">>),
      Postgres(<<"startup">>, <<"error">>),
      Postgres(<<"ssl", "cancel">>, <<>>),
      MySQL(<<"greeting", "ok">>),
      MySQL(<<"greeting", "fastAuth", "ok">>),
      MySQL(<<"greeting", "fullAuth", "publicKey", "ok">>),
      MySQL(<<"greeting", "switch", "switch", "ok">>),
      MySQL(<<"greeting", "switch", "error">>),
      MySQL(<<"error">>) }

-----------------------------------------------------------------------------
(* Interceptor: lists of two and three mocks, and calls in a network.      *)

Path(kind, segs) == [kind |-> kind, segs |-> segs]

MCMocks ==
    [origin : {"nobody", "*", "web"}, target : {"*"}, method : {"*"},
     path : {Path("all", <<>>), Path("plain", <<"users", "1">>)}, body : {"*"}]
    \cup
    [origin : {"nobody"}, target : {"*", "api"}, method : {"*", "GET"},
     path : {Path("prefix", <<"users">>), Path("plain", <<"users", ":id">>),
             Path("plain", <<"users", "1">>)},
     body : {"*", "new"}]

MCRequests ==
    [host : {"api"}, method : {"GET"}, path : {<<"users", "1">>, <<"users", "2">>},
     body : {"old", "new"}]

MCMockInputs ==
    [mocks : UNION {[1..n -> MCMocks] : n \in 1..2}, request : MCRequests,
     origin : {"nobody", "web"}]
    \cup
    [mocks : [1..3 -> {m \in MCMocks : m.origin = "nobody" /\ m.target = "api"}],
     request : {r \in MCRequests : r.body = "new" /\ r.path = <<"users", "1">>},
     origin : {"web"}]

Item(name, type, port) == [name |-> name, type |-> type, port |-> port]

MCItems ==
    { Item("api", "SERVICE", TRUE), Item("web", "SERVICE", TRUE),
      Item("jobs", "WORKER", FALSE), Item("db", "DATABASE", FALSE),
      Item("bus", "BROKER", FALSE) }

\* Both hosts outside, with and without two dots.
MCHosts == {i.name : i \in MCItems} \cup {"API", "api.stripe.com", "example.com"}

MCCalls ==
    [from : {"test-agent", "api", "web", "jobs"}, host : MCHosts,
     path : UNION {[1..n -> {"api", "web", "v1"}] : n \in 0..2}]

-----------------------------------------------------------------------------
(* Daemon: two that start and one that restarts.                           *)

MCCommands ==
    "run" :> <<"ensure">> @@ "again" :> <<"ensure">> @@ "reboot" :> <<"shutdown", "ensure">>

-----------------------------------------------------------------------------
(* TestRunner: loops of every kind around tests, steps and actions, with    *)
(* and without until; and ranges of steps that begin or end inside a test.  *)

No == [kind |-> "none", n |-> 1, over |-> "", name |-> "", until |-> FALSE]
Loop(kind, n, name, until) ==
    [kind |-> kind, n |-> n, over |-> "", name |-> name, until |-> until]
ForEach(over, n, name) ==
    [kind |-> "forEach", n |-> n, over |-> over, name |-> name, until |-> FALSE]
StepOf(loop, act, stop, uses, extract) ==
    [loop |-> loop, act |-> act, stop |-> stop, uses |-> uses, extract |-> extract]
TestOf(loop, set, steps) == [loop |-> loop, vars |-> set, steps |-> steps]
Program(tests, config, from, before) ==
    [tests |-> tests, config |-> config, from |-> from, before |-> before]

PlainStep == StepOf(No, No, TRUE, {}, {})
OneStep(loop) == TestOf(loop, {}, <<PlainStep>>)

TwoTests ==
    << TestOf(Loop("for", 2, "i", FALSE), {"v"},
              << StepOf(No, No, TRUE, {"v", "i"}, {"x"}),
                 StepOf(Loop("repeat", 2, "j", TRUE), No, TRUE, {"x", "c"}, {}) >>),
       TestOf(No, {},
              << StepOf(Loop("forEach", 2, "j", FALSE), Loop("repeat", 2, "k", TRUE),
                        FALSE, {"c", "j"}, {"x"}),
                 PlainStep >>) >>

MCPrograms ==
    {Program(TwoTests, {"c", "v"}, from, before) : from \in 0..1, before \in {0, 3}}
    \cup
    { Program(<< TestOf(No, {"users"},
                    << StepOf(ForEach("users", 2, "j"), Loop("forEach", 0, "k", FALSE),
                              TRUE, {"j"}, {}),
                       StepOf(Loop("repeat", 2, "j", FALSE), ForEach("k", 1, "m"),
                              FALSE, {}, {}) >>),
                 OneStep(ForEach("users", 1, "i")),
                 TestOf(ForEach("none", 1, "i"), {}, <<>>),
                 OneStep(Loop("forEach", 0, "i", FALSE)),
                 OneStep(No) >>, {}, 0, 0),
      Program(<< TestOf(Loop("repeat", 2, "i", TRUE), {},
                    << StepOf(Loop("for", 2, "j", FALSE), Loop("for", 2, "k", FALSE),
                              TRUE, {"i", "j", "k"}, {"x"}),
                       StepOf(ForEach("none", 1, "y"), No, TRUE, {}, {}) >>) >>, {}, 0, 1) }

-----------------------------------------------------------------------------
(* Definitions: objects with up to two loops in each other, and ranges.     *)

MCBesides ==
    {b \in SUBSET {"steps", "action", "match", "assertions", "blocks", "extract"} :
        ~({"assertions", "blocks"} \subseteq b)}
MCInner == {b \in MCBesides : b \cap {"steps", "extract"} = {}}

MCDefinitions ==
    [level : {"step", "block"}, beside : MCBesides,
     bodies : {<<>>} \cup {<<b>> : b \in MCBesides} \cup {<<b, c>> : b, c \in MCInner}]

MCRanges == [from : -5..5, to : -5..5, step : -3..3]

-----------------------------------------------------------------------------
(* References: four files that refer to each other, to themselves and to    *)
(* one that is missing.                                                     *)

MCFileSystems ==
    LET File(refs, keys) == [refs |-> refs, keys |-> keys]
        Lists(S) == UNION {[1..n -> S] : n \in 0..2}
    IN  { "d" :> File(d, keys) @@ "a" :> File(a, {"x"}) @@ "b" :> File(b, {"x", "y"})
            @@ "c" :> c :
          keys \in {{}, {"y"}}, d \in Lists({"a", "b"}), a \in Lists({"b", "c", "d"}),
          b \in Lists({"c", "a", "none"}),
          c \in {File(<<>>, {"y", "z"}), File(<<>>, {"y", "no-name"}), File(<<"a">>, {"y", "no-name"}),
                 File(<<"b", "a">>, {"y", "z"})} }

-----------------------------------------------------------------------------
(* Assertions: a document with values of each kind, numbers that are texts,  *)
(* keys and texts in other letters, and what is empty.                       *)

Asserts == INSTANCE Assertions

MCElements ==
    LET E(a, id) == Asserts!Object("a" :> a @@ "Id" :> id) IN
    << E(Asserts!NumberValue(1), Asserts!Text("AB")), E(Asserts!Text("1"), Asserts!Null), Asserts!Text("a"),
       E(Asserts!Text("TRUE"), Asserts!Text("ab")), Asserts!Object("b" :> Asserts!NumberValue(2)) >>

MCDocument ==
    Asserts!Object("items" :> Asserts!List(MCElements)
             @@ "a" :> Asserts!List(<<Asserts!Text("AB"), Asserts!NumberValue(1), Asserts!Text("01"), Asserts!Null>>)
             @@ "b" :> Asserts!Object("Id" :> Asserts!Text("") @@ "a" :> Asserts!List(<<>>)
                                @@ "b" :> Asserts!Value("bool", "true")))

At(root, segs) == [root |-> root, segs |-> segs]

MCValues ==
    { Asserts!Null, Asserts!Value("bool", "true"), Asserts!Text("true"), Asserts!Text("TRUE"), Asserts!NumberValue(1), Asserts!Text("1"),
      Asserts!Text("01"), Asserts!NumberValue(2), Asserts!Text(""), Asserts!Text("a"), Asserts!Text("AB"), Asserts!Text("ab"),
      Asserts!Text("id"), Asserts!Text("^a"), Asserts!List(<<>>), Asserts!List(<<Asserts!Text("1"), Asserts!Text("AB")>>),
      Asserts!Object("a" :> Asserts!Null) }

Expect(v) == [ref |-> <<>>, value |-> v, transform |-> ""]
Refer(root, segs, transform) ==
    [ref |-> <<At(root, segs)>>, value |-> Asserts!Object(<<>>), transform |-> transform]

MCExpected ==
    {Expect(v) : v \in MCValues}
    \cup { Refer("$", <<"a", "[-1]">>, ""), Refer("$", <<"b">>, "keys"), Refer("$", <<"A">>, "length"),
           Refer("$", <<"b", "ID">>, ""), Refer("$$", <<"a">>, "") }

MCPaths ==
    { <<>>, <<"a">>, <<"a", "[0]">>, <<"a", "[-1]">>, <<"b">>, <<"b", "id">>, <<"b", "a">>,
      <<"b", "b">>, <<"items", "[0]", "a">>, <<"items", "[2]">>, <<"items", "a">>, <<"a", "[-1]", "b">>,
      <<"key">> }

MCSources ==
    LET Src(object, root, segs, transform) ==
            [object |-> object, root |-> root, segs |-> segs, transform |-> transform]
        texts == {Src(FALSE, root, <<"a">>, "") : root \in {"$$", "empty", "other"}}
                 \cup {Src(FALSE, "$", p, "") : p \in MCPaths}
        objects == {Src(TRUE, root, <<"b">>, t) : root \in {"$", "$$", "empty"},
                                                  t \in Asserts!Transforms \cup {"", "reverse"}}
    IN {f :> s : f \in {Asserts!Fields[i] : i \in 1..6}, s \in texts} \cup {"path" :> s : s \in objects}
       \cup {"path" :> s @@ "count" :> Src(FALSE, "$", <<"a">>, "") : s \in texts \cup objects}
       \cup {<<>>}

\* An input is a source; what is asked of it, and how it may be written.
MCJudged(sources) ==
    [sources : {sources}, op : DOMAIN Asserts!Negation, expected : MCExpected, disabled : {FALSE}]
MCWritten(sources) ==
    [sources : {sources}, op : Asserts!Operators \cup {"none", "like"},
     expected : {Expect(Asserts!Null)}, disabled : BOOLEAN]

Where(root, segs, op, e) ==
    [form |-> "is", op |-> op, path |-> At(root, segs), expected |-> e, of |-> <<>>]

MCWheres ==
    LET simple == {Where("$$", segs, op, e) :
                    segs \in {<<"a">>, <<"id">>, <<"b", "a">>},
                    op \in {"eq", "gt", "notExists", "contains"},
                    e \in {Expect(Asserts!NumberValue(1)), Expect(Asserts!Text("AB")), Refer("$", <<"key">>, "")}}
                  \cup {Where("$", <<"a">>, "eq", Expect(Asserts!Null))}
        w == Where("$$", <<"a">>, "eq", Expect(Asserts!NumberValue(1)))
        Form(form, of) == [w EXCEPT !.form = form, !.of = of]
    IN simple \cup { Form("not", <<w>>), Form("or", <<>>),
                     Form("and", <<w, Form("not", <<Where("$$", <<"id">>, "exists", w.expected)>>)>>) }

MCBlocks ==
    LET Match(path, where, count) == [path |-> At("$", path), where |-> where, count |-> count]
        one == Where("$$", <<"a">>, "eq", Expect(Asserts!NumberValue(1)))
        none == Where("$$", <<"a">>, "eq", Expect(Asserts!Text("none")))
        matches == { <<Match(path, where, count)>> :
                        path \in {<<"items">>, <<"b">>, <<"matches">>}, where \in {<<>>, <<one>>, <<none>>},
                        count \in {<<>>, <<[op |-> "", n |-> 2]>>, <<[op |-> "gte", n |-> 1]>>} }
        Says(op, segs, off) ==
            [sources |-> "path" :> [object |-> FALSE, root |-> "$", segs |-> segs, transform |-> ""],
             op |-> op, expected |-> Expect(Asserts!NumberValue(1)), disabled |-> off]
        said == << Says("eq", <<"match", "a">>, FALSE), Says("notExists", <<"lastMatch", "b">>, FALSE),
                   Says("eq", <<"match", "a">>, TRUE) >>
        Block(m, loop) == [match |-> m, assertions |-> said, loop |-> loop]
        Times(n, body) == <<[times |-> n, body |-> body]>>
        inner == {Block(m, <<>>) : m \in {<<>>} \cup matches}
    IN {Block(m, l) : m \in {<<>>} \cup matches,
                      l \in {<<>>} \cup {Times(n, b) : n \in 0..2, b \in inner}}

-----------------------------------------------------------------------------
(* The sub-steps of a UI action, as they may be written.                   *)

Ui == INSTANCE UiDefinitions

Leaves(words) == {Ui!Leaf(w) : w \in words}

\* The objects with these fields; a field that is absent may be left out as well.
ObjectsOf(fields) == {Ui!Fields(f) : f \in [fields -> Leaves({"absent", "empty", "word", "whole", "null"})]}

MCExtracts ==
    {Ui!Fields("from" :> Ui!Leaf(from) @@ "selector" :> s @@ "name" :> n @@ "key" :> k @@ "part" :> p) :
        from \in Ui!ExtractFrom \cup {"absent", "word", "whole"},
        s \in Leaves({"absent", "empty", "word", "whole"}), n \in Leaves({"absent", "word", "whole"}),
        k \in Leaves({"absent", "word", "whole"}), p \in Leaves({"absent", "full", "word", "whole"})}
    \cup {Ui!Fields("from" :> Ui!Leaf("text") @@ "selector" :> Ui!Leaf("word") @@ "pattern" :> p @@ "group" :> g) :
            p \in Leaves({"absent", "empty", "whole", "null"} \cup Ui!Regexes),
            g \in Leaves({"absent", "zero", "whole", "minus", "null", "word"})}

MCUiValues ==
    LET regions == {Ui!Elements(l) : l \in {<<>>, <<Ui!Leaf("word")>>, <<Ui!Leaf("word"), Ui!Leaf("whole")>>}}
        matches == Leaves({"absent", "null", "true", "false", "word"}) \cup
            {Ui!Fields("threshold" :> t @@ "ignoreRegions" :> l) :
                t \in Leaves({"absent", "half", "word", "minus"}), l \in regions \cup Leaves({"absent", "word"})}
        captures == {Ui!Fields("name" :> n @@ "selector" :> s @@ "match" :> m) :
            n \in Leaves({"absent", "word", "braces", "whole"}), s \in Leaves({"absent", "empty", "word", "whole"}),
            m \in matches}
        offsets == {Ui!Fields("selector" :> s @@ "x" :> x @@ "y" :> y) :
            s \in Leaves({"absent", "empty", "word", "whole", "null"}),
            x \in Leaves({"absent", "whole", "half", "minus", "null"}), y \in Leaves({"absent", "zero", "word"})}
        sizes == {Ui!Fields("width" :> w @@ "height" :> h) :
            w \in Leaves({"absent", "whole", "zero", "half"}), h \in Leaves({"whole", "minus", "word"})}
        uploads == {Ui!Fields("selector" :> s @@ "files" :> l) :
            s \in Leaves({"absent", "word"}), l \in regions \cup Leaves({"absent", "word"})}
        any == Leaves({"empty", "word", "braces", "whole", "null", "true"})
    IN [visit |-> any, click |-> any, hover |-> any, type |-> any \cup ObjectsOf({"selector", "text"}),
        waitFor |-> any \cup ObjectsOf({"selector", "text"}), screenshot |-> any \cup captures,
        scroll |-> any \cup offsets, select |-> any \cup ObjectsOf({"selector", "value"}),
        key |-> any \cup ObjectsOf({"selector", "key"}), upload |-> any \cup uploads,
        drag |-> any \cup ObjectsOf({"from", "to"}), viewport |-> any \cup sizes,
        extract |-> any \cup {Ui!Fields("v" :> s) : s \in MCExtracts \cup Leaves({"word"})}]

MCSubSteps ==
    LET single == UNION {{Ui!Fields(k :> v) : v \in MCUiValues[k]} : k \in Ui!Kinds}
        click == "click" :> Ui!Leaf("word")
        loop == "repeat" :> Ui!Fields(<<>>)
        Group(l, subs) == Ui!Fields(l @@ "steps" :> Ui!Elements(subs))
        timed == {Ui!Fields(click @@ "timeoutMs" :> t) : t \in Leaves({"whole", "zero", "half", "word", "null"})}
        flat == Ui!Fields("extract" :> Ui!Fields("v" :> Ui!Fields("from" :> Ui!Leaf("url") @@ "pattern" :> Ui!Leaf("flat"))))
        odd == {Ui!Leaf("word"), Ui!Fields(<<>>), Ui!Fields(click @@ loop), Ui!Fields(click @@ "hover" :> Ui!Leaf("word")),
                Ui!Fields(click @@ loop @@ "steps" :> Ui!Leaf("null")), Ui!Fields("steps" :> Ui!Elements(<<Ui!Fields(click)>>)),
                flat}
        subs == timed \cup odd
        groups == {Group(l, b) : l \in {loop, "for" :> Ui!Leaf("word"), loop @@ "forEach" :> Ui!Fields(<<>>)},
                                 b \in {<<>>} \cup {<<s>> : s \in subs} \cup {<<Ui!Fields(click), s>> : s \in subs}}
    IN single \cup subs \cup groups \cup {Group(loop, <<Ui!Fields(click), g>>) : g \in groups}

-----------------------------------------------------------------------------
(* Baselines: shots within and without loops, in one definition and in two,  *)
(* and of one name and of two.                                               *)

Shot(name, loop) == [name |-> name, match |-> TRUE, loop |-> loop]

MCProjects ==
    { << <<Shot("one", FALSE), Shot("two", TRUE)>> >>,
      << <<Shot("one", TRUE), Shot("two", TRUE)>> >>, << <<Shot("one", TRUE), Shot("one", TRUE)>> >>,
      << <<Shot("one", FALSE)>>, <<Shot("one", FALSE)>> >>, << <<Shot("one", FALSE)>>, <<Shot("two", FALSE)>> >>,
      << <<Shot("one", FALSE), [Shot("two", FALSE) EXCEPT !.match = FALSE]>> >> }

-----------------------------------------------------------------------------
(* UiTimeline: groups in both places, and a loop of actions; calls from the  *)
(* browser to a, from a to itself, and to a database.                        *)

Plain == [turns |-> 0, size |-> 0]
Grouped(turns, size) == [turns |-> turns, size |-> size]
UiAction(step, subs) == [step |-> step, subs |-> subs, goesOn |-> TRUE]

MCActions ==
    { << UiAction(1, <<Grouped(1, 2), Plain>>) >>, << UiAction(1, <<Grouped(2, 1)>>) >>,
      << UiAction(1, <<Plain>>), UiAction(1, <<Plain>>) >>,
      << [UiAction(1, <<Plain>>) EXCEPT !.goesOn = FALSE], UiAction(2, <<Grouped(1, 1)>>) >> }

MCCallKinds ==
    { [kind |-> "http", origin |-> "", target |-> "a"],
      [kind |-> "http", origin |-> "a", target |-> "a"],
      [kind |-> "db", origin |-> "", target |-> "d"] }

-----------------------------------------------------------------------------
(* Items: one of each type, with one value, or two that depend on each       *)
(* other, replaced by each of the shapes a value may have.                   *)

Thing == INSTANCE Items

\* The values an item cannot do without.
MCGiven ==
    [SERVICE |-> [healthCheck |-> Thing!Text("/path")], WORKER |-> <<>>,
     DATABASE |-> [database |-> Thing!Text("postgres")], BROKER |-> [broker |-> Thing!Text("amqp")],
     MOCK |-> [mockTarget |-> Thing!Text("word"), mockPath |-> Thing!Text("word")],
     HTTP_REQUEST |-> [requestMethod |-> Thing!Text("GET"), requestUrl |-> Thing!Text("word"),
                       requestTarget |-> Thing!Text("word")],
     DB_QUERY |-> [queryTarget |-> Thing!Text("word"), queryText |-> Thing!Text("word")]]

MCItemOf(type) == MCGiven[type] @@ [type |-> Thing!Text(type), name |-> Thing!Text("word")]

MCEnv(names) == Thing!List([i \in DOMAIN names |->
    Thing!Object([name |-> Thing!Text(names[i]), value |-> Thing!Number(i)])])

MCShapes ==
    {Thing!Text(s) : s \in {"", "word", "16", "v16", "/path", "tcp", "missing", "[", "Bad_Name", "*", "GET",
                           "https", "postgres", "kafka"}}
    \cup {Thing!Number(n) : n \in {-1, 0, 1, 99, 100, 599, 600, 65535, 65536}}
    \cup {Thing!Null, Thing!Half, Thing!Boolean(TRUE), Thing!Boolean(FALSE), Thing!Object(<<>>), Thing!List(<<>>),
          Thing!List(<<Thing!Text("word")>>), Thing!List(<<Thing!Text("word"), Thing!Number(1)>>),
          Thing!List(<<Thing!Text("missing")>>), MCEnv(<<"a">>),
          Thing!List(<<Thing!Object([name |-> Thing!Text("a"), value |-> Thing!Text("x")]),
                      Thing!Object([name |-> Thing!Text("b"), value |-> Thing!Text("x")]),
                      Thing!Object([name |-> Thing!Text("a"), value |-> Thing!Text("y")])>>),
          Thing!List(<<Thing!Object([source |-> Thing!Text("word"), target |-> Thing!Text("/path")])>>),
          Thing!List(<<Thing!Object([source |-> Thing!Text("missing"), target |-> Thing!Text("/path")])>>),
          Thing!List(<<Thing!Object([source |-> Thing!Text("word"), target |-> Thing!Text("word")])>>)}

MCTogether ==
    [DATABASE |-> {"noAuth", "dbUser", "image", "version"},
     MOCK |-> {"mockRequestBodyContains", "mockRequestBodyMatches"}]

MCDefinedItems ==
    UNION { { (k :> v) @@ MCItemOf(type) : k \in (Thing!ItemKeys[type] \ {"$ref"}) \cup {"domain"}, v \in MCShapes }
            : type \in Thing!Types }
    \cup UNION { { (k :> v) @@ (l :> w) @@ MCItemOf(type) :
                   k \in MCTogether[type], l \in MCTogether[type],
                   v \in {Thing!Text("16"), Thing!Boolean(TRUE), Thing!Boolean(FALSE), Thing!Null},
                   w \in {Thing!Text("16"), Thing!Text("[")} }
            : type \in DOMAIN MCTogether }

-----------------------------------------------------------------------------
(* Containers: items one by one, with what they are given, and up to three   *)
(* of them with names that other containers might have.                      *)

MCItemRecord(name, type, kind) ==
    [name |-> name, type |-> type, kind |-> kind, stage |-> 0, image |-> TRUE, port |-> 0,
     creds |-> [dbName |-> "none", dbUser |-> "none", dbPassword |-> "none", noAuth |-> FALSE],
     inits |-> 0, mounts |-> <<>>]

MCCredentials ==
    [dbName : {"none", "x"}, dbUser : {"none", "x", ""}, dbPassword : {"none", "x", ""}, noAuth : {FALSE}]
    \cup {[dbName |-> "none", dbUser |-> "none", dbPassword |-> "none", noAuth |-> TRUE]}

MCMounts == {<<d, b, t>> : d \in {1, 2}, b \in {"x", "y"}, t \in {"p", "q"}}

MCOneItem ==
    { [MCItemRecord(<<"orders">>, "DATABASE", k) EXCEPT !.creds = c, !.inits = n] :
        k \in {"postgres", "mysql", "mongodb", "redis"}, c \in MCCredentials, n \in {0, 2, 12} }
    \cup { [MCItemRecord(<<"orders">>, "DATABASE", "mongodb") EXCEPT !.inits = n] : n \in {98, 99, 100, 101} }
    \cup { [MCItemRecord(<<"orders">>, "BROKER", k) EXCEPT !.port = p] :
        k \in {"amqp", "kafka"}, p \in {0, 1234, 5672, 9092} }
    \cup { [MCItemRecord(<<"orders">>, "SERVICE", "") EXCEPT !.mounts = m] :
        m \in UNION {[1..n -> MCMounts] : n \in 0..2} }

MCItemNames == {<<"orders">>, <<"orders", "db">>, <<"chromium">>}

MCDeployed ==
    { [MCItemRecord(n, t, "") EXCEPT !.stage = s, !.image = i] :
        n \in MCItemNames, t \in {"SERVICE", "WORKER", "DATABASE", "BROKER", "MOCK"}, s \in {0, 2}, i \in {TRUE} }
    \cup {[MCItemRecord(n, "SERVICE", "") EXCEPT !.image = FALSE] : n \in MCItemNames}

MCInstances ==
    { [items |-> items, ui |-> ui] :
        items \in { s \in UNION {[1..n -> MCDeployed] : n \in 0..2} :
                      \A i, j \in DOMAIN s : s[i].name = s[j].name => i = j },
        ui \in BOOLEAN }

-----------------------------------------------------------------------------
(* Tests, on which is checked what the validator accepts against what the    *)
(* test agent makes of it: one of each kind, with one value, or several that *)
(* depend on each other, replaced by each of the shapes it may have.         *)

Tested == INSTANCE TestDefinitions

MCText(s) == Tested!Text(s)

\* An object without the keys that are absent.
MCObject(f) == Tested!Object([k \in {x \in DOMAIN f : f[x] # Tested!Absent} |-> f[k]])
MCWith(v, k, w) == MCObject((k :> w) @@ v[2])

MCTestTexts == {MCText(s) : s \in {"", "word", "bad-name", "$.ok", "$.body.old", "{{v}}", "{{v}}/x", "[", "GET"}}
MCTestShapes ==
    MCTestTexts
    \cup {Tested!Number(n) : n \in {-1, 0, 1, 60000, 60001}}
    \cup {Tested!Absent, Tested!Null, Tested!Half, Tested!Boolean(TRUE), Tested!Object(<<>>), Tested!List(<<>>),
          Tested!List(<<MCText("word")>>), Tested!List(<<Tested!Object(<<>>)>>),
          MCObject([word |-> MCText("$.ok")]), MCObject([word |-> Tested!Number(1)]),
          Tested!Object("bad-name" :> MCText("word"))}

MCSub(kind, v) == Tested!Object(kind :> v)
MCGroup(subs) == MCObject([forEach |-> MCObject([as |-> MCText("word")]), steps |-> Tested!List(subs)])
MCUi(subs) == MCObject([type |-> MCText("ui"), target |-> MCText("word"), steps |-> Tested!List(subs)])

MCActionOf ==
    [httpRequest |-> MCObject([type |-> MCText("httpRequest"), method |-> MCText("GET"), url |-> MCText("word")]),
     dbQuery |-> MCObject([type |-> MCText("dbQuery"), database |-> MCText("word"), query |-> MCText("word")]),
     wait |-> MCObject([type |-> MCText("wait"), durationMs |-> Tested!Number(1)]),
     ui |-> MCUi(<<MCSub("screenshot", MCText("word"))>>),
     parallel |-> MCObject([type |-> MCText("parallel"), actions |-> Tested!List(<<>>)])]

MCStep(action) == MCObject([action |-> action])
MCTest(steps) == MCObject([name |-> MCText("word"), steps |-> Tested!List(steps)])
MCBlockTest(block) == MCTest(<<MCWith(MCStep(MCActionOf["dbQuery"]), "assertions", Tested!List(<<block>>))>>)

-----------------------------------------------------------------------------
MCPlainTests ==
    { MCWith(MCTest(<<MCStep(MCActionOf["wait"])>>), k, v) : k \in Tested!TestKeys, v \in MCTestShapes }
    \cup { MCTest(<<MCWith(MCStep(MCActionOf["wait"]), k, v)>>) : k \in Tested!StepKeys, v \in MCTestShapes }
    \cup UNION { { MCTest(<<MCStep(MCWith(MCActionOf[type], k, v))>>) :
                   k \in Tested!ActionKeys[type], v \in MCTestShapes } : type \in DOMAIN MCActionOf }
    \cup { MCBlockTest(MCObject(k :> v)) : k \in Tested!BlockKeys, v \in MCTestShapes }
    \cup { MCBlockTest(MCObject([match |-> MCWith(MCObject([path |-> MCText("$.ok")]), k, v)])) :
           k \in {"path", "where", "count", "as"}, v \in MCTestShapes }
    \cup { MCBlockTest(MCObject([match |-> MCObject([path |-> MCText("$.ok"),
                count |-> MCObject([operator |-> op, value |-> v])])])) :
           op \in {MCText("eq"), MCText("word"), Tested!Absent}, v \in {Tested!Number(1), Tested!Half, Tested!Absent} }
    \cup { MCTest(<<MCStep(MCWith(MCWith(MCActionOf["httpRequest"], "body", v), "formData", w))>>) :
           v \in {Tested!Absent, Tested!Null, MCText("word")}, w \in {Tested!Absent, Tested!Object(<<>>)} }

MCRules ==
    { MCObject([transform |-> t, from |-> f, path |-> p, pattern |-> MCText(x)]) :
        t \in {MCText("keys"), MCText("word"), Tested!Null}, f \in {Tested!Absent, MCText("{{v}}"), MCText("word"), MCText("")},
        p \in {Tested!Absent, MCText("$.ok"), MCText("word")}, x \in {"(x)"} }
    \cup { MCObject([transform |-> t, from |-> f, path |-> p]) :
        t \in {MCText("keys"), MCText("word"), Tested!Null}, f \in {Tested!Absent, MCText("{{v}}"), MCText("word"), MCText("")},
        p \in {Tested!Absent, MCText("$.ok"), MCText("word")} }
    \cup { MCObject([path |-> p, pattern |-> MCText(x), group |-> g]) :
        p \in {Tested!Absent, MCText("$.ok"), MCText("{{v}}/x"), MCText("$.body.old"), MCText("$$.here")},
        x \in {"(x)", "word", "[", "(?=x)", ""},
        g \in {Tested!Absent, Tested!Null, Tested!Half} \cup {Tested!Number(n) : n \in -1..2} }

MCRuleTests ==
    { MCTest(<<MCWith(MCStep(MCActionOf["dbQuery"]), "extract", MCObject([word |-> r]))>>) : r \in MCRules }
    \cup { MCBlockTest(MCObject([extract |-> MCObject([word |-> r])])) : r \in MCRules }

\* Loops of each kind, and of each level.
MCLoopOf ==
    [forEach |-> MCObject([as |-> MCText("word"), items |-> Tested!List(<<>>)]),
     for |-> MCObject([as |-> MCText("word"), from |-> Tested!Number(0), to |-> Tested!Number(3)]),
     repeat |-> MCObject([as |-> MCText("word"), count |-> Tested!Number(2)])]

MCBounds == {Tested!Half} \cup {Tested!Number(n) : n \in {-3, 0, 2, 9}}

MCLoops ==
    UNION { { <<k, MCWith(MCLoopOf[k], f, v)>> :
              f \in {"as", "name", "delayMs", "items", "count", "until", "action", "match", "assertions", "extract",
                     "steps", "forEach", "repeat"}, v \in MCTestShapes } : k \in DOMAIN MCLoopOf }
    \cup { <<"for", MCObject([as |-> MCText("word"), from |-> a, to |-> b, step |-> c])>> :
           a \in MCBounds, b \in MCBounds, c \in MCBounds \cup {Tested!Absent} }
    \cup { <<"repeat", MCWith(MCLoopOf["repeat"], "for", MCWith(MCLoopOf["for"], "forEach", MCLoopOf["forEach"]))>> }

\* The test in which a loop stands at a place.
MCLooped(place, loop) ==
    LET Put(v) == MCWith(v, loop[1], loop[2]) IN
    CASE place = "test"   -> Put(MCObject([name |-> MCText("word")]))
      [] place = "step"   -> MCTest(<<Put(MCStep(MCActionOf["wait"]))>>)
      [] place = "action" -> MCTest(<<MCStep(Put(MCActionOf["wait"]))>>)
      [] place = "block"  -> MCBlockTest(MCObject(loop[1] :> loop[2]))

MCPlacedLoops == {"test", "step", "action", "block"} \X MCLoops

MCBodyTests ==
    { MCTest(<<MCWith(MCObject([action |-> a]), "repeat", MCWith(MCLoopOf["repeat"], "action", b))>>) :
      a \in {Tested!Absent, Tested!Null, MCText("word"), MCActionOf["ui"]},
      b \in {Tested!Absent, MCActionOf["wait"], MCActionOf["ui"]} }

\* Captures of the same name in one or two steps, and what is done in parallel.
MCSubs ==
    {MCSub("screenshot", MCText("word")), MCSub("screenshot", MCText("")),
     MCSub("screenshot", MCObject([name |-> MCText("word")])), MCSub("screenshot", MCText("GET")),
     MCSub("click", MCText("word")), MCGroup(<<MCSub("screenshot", MCText("word"))>>)}

MCSubLists == UNION {[1..n -> MCSubs] : n \in 1..2}

MCShotTests ==
    { MCTest(<<MCStep(MCUi(s)), MCStep(MCUi(t))>>) : s \in MCSubLists, t \in {<<x>> : x \in MCSubs} }

MCSubActions ==
    {MCActionOf[k] : k \in DOMAIN MCActionOf}
    \cup {MCWith(MCActionOf["dbQuery"], "repeat", MCLoopOf["repeat"]), MCWith(MCActionOf["dbQuery"], "query", Tested!Null),
          MCWith(MCActionOf["parallel"], "actions", Tested!List(<<MCActionOf["ui"]>>)), MCText("word"), Tested!Object(<<>>)}

MCParallelTests ==
    { MCTest(<<MCStep(MCWith(MCActionOf["parallel"], "actions", Tested!List(s)))>>) :
      s \in UNION {[1..n -> MCSubActions] : n \in 1..2} }

MCTests == MCPlainTests \cup MCRuleTests \cup MCBodyTests \cup MCShotTests \cup MCParallelTests

-----------------------------------------------------------------------------
(* Projects, for the resolver: one whose files only lie somewhere, and one   *)
(* whose definitions draw in others, or not, or refer to variables.          *)

Project == INSTANCE Resolver

MCData == [is |-> "data"]
MCRoot == <<"p", ".dokkimi">>
MCIn(path) == MCRoot \o path

MCScopeFiles ==
    {MCIn(<<"a.yaml">>), MCIn(<<"sub", "a.yaml">>), MCIn(<<"sub", "b.yaml">>), MCIn(<<"sub", "init.sql">>),
     MCIn(<<".old", "a.yaml">>), MCIn(<<"sub", ".old", "b.yaml">>), MCIn(<<"sub", "sub", "b.yaml">>),
     <<"p", "a.yaml">>, <<"p", "src", "x">>, <<"q", "sub", "a.yaml">>, <<"q", "b.yaml">>}
MCLines == {<<"a.yaml">>, <<"sub", "b.yaml">>, <<"sub", "*">>, <<"*">>}
MCScopeTree(lines) ==
    MCIn(<<".dokignore">>) :> [is |-> "ignore", lines |-> lines] @@ [f \in MCScopeFiles |-> MCData]
MCDirs == UNION {Project!Ancestors(Project!Parent(f)) : f \in MCScopeFiles} \cup {<<"p", "none">>}

MCTargets ==
    {[is |-> "none", path |-> <<>>]}
    \cup {[is |-> "path", path |-> f] : f \in MCScopeFiles \cup (MCDirs \ {<<"p", "none">>}) \cup {MCIn(<<"b.yaml">>)}}
    \cup {[is |-> "pattern", path |-> <<>>, glob |-> g, names |-> s] : g \in BOOLEAN, s \in {{"sub"}, {"a.yaml"}}}

MCScopes == [lines : SUBSET MCLines, cwd : MCDirs, target : MCTargets]

-----------------------------------------------------------------------------
MCWord == <<"word", "w">>
MCTexts ==
    {<<>>, <<MCWord>>} \cup {<<<<kind, k>>>> : kind \in {"var", "path", "env", "odd"}, k \in {"k", "l"}}
    \cup {<<<<"var", "k">>, <<"env", "k">>>>}
MCVarValues == {<<MCWord>>, <<<<"env", "k">>>>, <<<<"var", "k">>>>}

MCItem(name, type, ref, files, text) ==
    [name |-> name, type |-> type, ref |-> ref, files |-> files, text |-> text,
     over |-> "name" :> name @@ "type" :> type]
MCSoleItem(text) == MCItem("i", "SERVICE", {}, {}, text)
MCDefines(name, items, variables, draws, says, valid) ==
    [is |-> "definition", name |-> name, items |-> items, variables |-> variables, draws |-> draws,
     says |-> says, valid |-> valid]
MCPart(files, text) ==
    [is |-> "part", item |-> [name |-> "i", type |-> "SERVICE", files |-> files, text |-> text],
     variables |-> "k" :> <<MCWord>>]
MCBroken == [is |-> "broken"]
MCContents == {MCBroken, MCData, MCPart({}, <<MCWord>>)}

\* One definition, and each of the configurations.
MCConfigs ==
    {<<>>, MCIn(<<"config.yaml">>) :> MCBroken, MCIn(<<"config.yaml">>) :> MCData}
    \cup {MCIn(<<n>>) :> [is |-> "config", env |-> e] :
          n \in {"config.yaml", "config.json"}, e \in {"k" :> v : v \in MCVarValues} \cup {"no-key" :> <<MCWord>>}}
    \cup {MCIn(<<"config.yaml">>) :> [is |-> "config", env |-> "k" :> <<MCWord>>]
          @@ MCIn(<<"config.yml">>) :> [is |-> "config", env |-> "l" :> <<MCWord>>]}

MCSpokenProjects ==
    { MCIn(<<"a.yaml">>) :> MCDefines("n", <<MCSoleItem(text)>>, variables, draws, says, TRUE)
        @@ MCIn(<<"sub", "base.yaml">>) :> MCPart({}, <<MCWord>>) @@ config :
      text \in MCTexts, variables \in {<<>>} \cup {"k" :> v : v \in MCVarValues},
      draws \in {{}, {MCIn(<<"sub", "base.yaml">>)}}, says \in {<<>>, <<<<"env", "k">>, <<"var", "l">>>>},
      config \in MCConfigs }

\* Two definitions, of which one draws in a file.
MCFileSets == {{}, {<<"init.sql">>}, {<<"..", "mounted">>}, {<<"..", "..", "outside">>}, {<<"none">>}, {<<"sub", "init.sql">>}}

MCDrawnItems ==
    {<<MCItem("i", type, {}, files, <<>>)>> : type \in {"SERVICE", "DATABASE"}, files \in MCFileSets}
    \cup {<<MCItem("i", type, {MCIn(ref)}, {}, <<>>)>> :
          type \in {"SERVICE", "DATABASE"}, ref \in {<<"sub", "base.yaml">>, <<"sub", "none">>, <<"a.yaml">>}}
    \cup {<<MCSoleItem(<<>>), MCSoleItem(<<>>)>>,
          <<MCItem("i", "DATABASE", {}, {<<"..", "mounted">>}, <<>>), MCItem("j", "SERVICE", {}, {<<"init.sql">>}, <<>>)>>}

MCBases == {MCBroken, MCData} \cup {MCPart(files, <<>>) : files \in {{<<"init.sql">>}, {<<"..", "init.sql">>}}}

MCDrawnProjects ==
    { MCIn(<<"a.yaml">>) :> MCDefines("n", items, <<>>, {}, <<>>, valid)
        @@ MCIn(<<"b.yaml">>) :> other @@ MCIn(<<"sub", "base.yaml">>) :> base
        @@ [f \in {MCIn(<<"init.sql">>), MCIn(<<"sub", "init.sql">>), <<"p", "mounted">>, <<"outside">>} |-> MCData] :
      items \in MCDrawnItems, valid \in BOOLEAN,
      other \in {MCDefines(name, <<MCSoleItem(<<>>)>>, <<>>, {}, <<>>, TRUE) : name \in {"n", "o", ""}} \cup {MCData},
      base \in MCBases }

MCOrders ==
    LET order == [i \in 1..7 |-> MCIn(<<<<"a.yaml">>, <<"b.yaml">>, <<"config.json">>, <<"config.yaml">>, <<"config.yml">>,
                                        <<"sub", "base.yaml">>, <<"sub", "a.yaml">>>>[i])]
    IN {order, [i \in 1..7 |-> order[8 - i]]}

MCAllProjects == (MCSpokenProjects \X {CHOOSE o \in MCOrders : TRUE}) \cup (MCDrawnProjects \X MCOrders)

-----------------------------------------------------------------------------
(* Preferences, telemetry, configuration, registries and reports.          *)

Prefs == INSTANCE Preferences

MCScopeNames == {"global", "p", "q"}
MCNumbers == {2, 3, 6, 51}

MCConcurrency(most, booting) ==
    [k \in {x \in Prefs!Limits : (IF x = "maxBootingTests" THEN booting ELSE most) # {}} |->
        Prefs!Sole(IF k = "maxBootingTests" THEN booting ELSE most)]
\* The record that holds what is given, if anything.
MCOwn(most, booting, history) ==
    Prefs!setMaxRunHistory(Prefs!Put(<<>>, "concurrency", MCConcurrency(most, booting)), history, "global")
MCFile(own, p, q) ==
    Prefs!Put(own, "projects", Prefs!Put(Prefs!Put(<<>>, "p", p), "q", q))

MCGlobalKeys == {{}, {3}} \X {{}, {3}} \X {{}, {3}}
MCProjectKeys == {{}, {3}} \X {{}, {2}} \X {{}, {2}, {3}}
MCKept(k) == MCOwn(k[1], k[2], k[3])

MCFiles ==
    {[is |-> "prefs", global |-> g, p |-> p, q |-> q] :
        g \in MCGlobalKeys, p \in MCProjectKeys, q \in {<<{}, {}, {}>>, <<{3}, {}, {2}>>}}
    \cup {[is |-> "torn"]}
MCPrefsOf(f) ==
    Prefs!getUserPrefs(IF f.is = "torn" THEN f
                       ELSE [is |-> "prefs", prefs |-> MCFile(MCKept(f.global), MCKept(f.p), MCKept(f.q))])

MCToolCalls ==
    [key : Prefs!Settings, scope : {"project", "global", "unsaid"},
     value : [is : {"number"}, has : MCNumbers] \cup {[is |-> "boolean", has |-> TRUE]}]

-----------------------------------------------------------------------------
Tracking == INSTANCE Telemetry

MCStates ==
    {{}} \cup {{[distinctId |-> id, enabled |-> on, firstRunNoticeSeen |-> seen]} :
              id \in {"", "id"}, on, seen \in BOOLEAN}
MCStarts ==
    [state : MCStates,
     options : [ci : BOOLEAN, showFirstRunNotice : BOOLEAN, detachedFlush : BOOLEAN, configured : BOOLEAN]]
MCActs == {"track", "on", "off", "on elsewhere", "off elsewhere", "end"}
MCLives == UNION {[1..n -> MCActs] : n \in 1..2} \cup {<<"track">> \o a \o <<"track", "end">> : a \in [1..2 -> MCActs]}

-----------------------------------------------------------------------------
Configured == INSTANCE Configuration

\* A configuration that is valid, in which one or two fields are as they are not.
MCRight(rule) ==
    CASE rule = "text" -> <<"text", "h">> [] rule = "protocol" -> <<"text", "http">> [] OTHER -> <<"number", 1>>
MCRightConfig ==
    [s \in DOMAIN Configured!Required |->
        [f \in DOMAIN Configured!Required[s] |-> MCRight(Configured!Required[s][f])]]
    @@ "database" :> ("url" :> <<"tilde", "u">>)
MCFields == UNION {{<<s, f>> : f \in DOMAIN Configured!Required[s]} : s \in DOMAIN Configured!Required}
MCOddValues ==
    {<<"number", -1>>, <<"number", 0>>, <<"half", 0>>, <<"half", 65535>>, <<"number", 65535>>,
     <<"number", 65536>>, <<"nan", 0>>, <<"text", "">>, <<"text", "https">>, <<"tilde", "h">>}
MCTexts2 == {<<"text", "">>, <<"text", "w">>, <<"number", 0>>, <<"tilde", "v">>}

MCOddities ==
    [at : MCFields, as : MCOddValues \cup {<<"missing", 0>>}, var : DOMAIN Configured!Overrides, text : MCTexts2]
MCSectionsLeftOut == {{s} : s \in DOMAIN Configured!Required \cup {"database"}}
MCConfigOf(odd) ==
    [s \in DOMAIN MCRightConfig |->
        IF s # odd.at[1] THEN MCRightConfig[s]
        ELSE IF odd.as[1] = "missing" THEN Prefs!Without(MCRightConfig[s], odd.at[2])
        ELSE [MCRightConfig[s] EXCEPT ![odd.at[2]] = odd.as]]

-----------------------------------------------------------------------------
Pulls == INSTANCE Registries

MCRegistries ==
    {Pulls!Registry("", "r.io", ""), Pulls!Registry("https", "r.io", ""), Pulls!Registry("https", "r.io", "/v2/"),
     Pulls!Hub, Pulls!Registry("", "index.docker.io", "")}
MCAnswers == {"none", "x", "y"}
MCEntries(who) == {<<>>} \cup {<<<<r, a>>>> : r \in MCRegistries, a \in who}
MCTwoEntries(who) == MCEntries(who) \cup {<<<<r, a>>, <<q, b>>>> : r, q \in MCRegistries, a, b \in who}
MCDockers ==
    [store : [lists : {TRUE}, entries : MCEntries({"store"})], auths : MCTwoEntries({"a", "no colon"}),
     helpers : MCEntries({"h", "none"}), readable : {TRUE}]
    \cup [store : [lists : {FALSE}, entries : MCEntries({"store"})], auths : MCEntries({"a"}),
          helpers : {<<>>}, readable : BOOLEAN]
MCDocker == [store |-> [lists |-> TRUE, entries |-> <<<<Pulls!Hub, "store">>>>], auths |-> <<>>, helpers |-> <<>>, readable |-> TRUE]
MCYamls == {<<>>} \cup {<<[registry |-> r, who |-> "l", var |-> v], [registry |-> q, who |-> "m", var |-> "v"]>> :
                       r, q \in MCRegistries, v \in {"v", "w"}}
MCAboves == {<<>>, <<{}>>} \cup {<<{}, {y}>> : y \in MCYamls} \cup {<<{y}, {<<>>}>> : y \in MCYamls}
MCImages == [first : {"r.io"}, dotted : {TRUE}] \cup {[first |-> "org", dotted |-> FALSE]}

-----------------------------------------------------------------------------
Told == INSTANCE Reports

MCChars == {"a", "&", "<", "quote", "lt", "amp"}
MCStrings == UNION {[1..n -> MCChars] : n \in 0..4}

\* Instances of a run: what the logs say, and what is shown of them.
MCAssertion(passed, type) ==
    [passed |-> passed, assertionType |-> <<type>>, path |-> <<"a", "<">>, error |-> <<>>,
     expected |-> <<"1">>, actual |-> <<"2">>, operator |-> <<>>]
MCLogged(error) == [eventType |-> "step", stepIndex |-> <<>>, message |-> <<"m">>, error |-> error]
MCInstance(id, status, testStatus, error, answers, passed, logs) ==
    [id |-> id, name |-> IF id = "y" THEN <<"a", "&">> ELSE <<"a">>, status |-> status, testStatus |-> testStatus,
     skipped |-> status = "SKIPPED", errorMessage |-> error,
     startedAt |-> <<1>>, stoppedAt |-> IF status = "RUNNING" THEN <<>> ELSE <<1501>>,
     assertions |-> IF answers THEN <<[k \in DOMAIN passed |-> MCAssertion(passed[k], IF k = 2 THEN "skip" ELSE "status")]>>
                    ELSE <<>>,
     execution |-> <<logs>>,
     console |-> IF answers THEN <<<<[level |-> "INFO", message |-> <<"i">>], [level |-> "WARN", message |-> <<"w">>]>>>>
                 ELSE <<>>]
MCReported ==
    {MCInstance("x", pair[1], pair[2], error, answers, passed, logs) :
     pair \in {<<"RUNNING", "">>, <<"STOPPED", "PASSED">>, <<"STOPPED", "FAILED">>, <<"STOPPED", "">>, <<"SKIPPED", "">>,
               <<"FAILED", "">>, <<"FAILED", "PASSED">>},
     error \in {<<>>, <<<<>>>>, <<<<"why", "&">>>>}, answers \in BOOLEAN, passed \in {<<>>, <<TRUE, FALSE>>, <<FALSE>>},
     logs \in {<<>>, <<MCLogged(<<"e">>), MCLogged(<<>>)>>}}
MCSecond == {MCInstance("y", s, "", <<>>, TRUE, <<>>, <<>>) : s \in {"FAILED", "SKIPPED", "COMPLETED"}}
MCTold == {<<i>> : i \in MCReported} \cup {<<i, j>> : i \in MCReported, j \in MCSecond}

MCSeen(id, shown) == MCInstance(id, shown, "", <<>>, TRUE, <<>>, <<>>)
MCPolls ==
    [is : {"nothing", "abort"}] \cup
    {[is |-> "status", status |-> s, instances |-> <<MCSeen("x", a), MCSeen("y", b)>>] :
     s \in {"RUNNING", "COMPLETED"}, a, b \in {"RUNNING", "PASSED", "STOPPED"}}
MCLastPolls == MCPolls \cup [is : {"timeout"}]
MCSkipped == {<<>>, <<MCSeen("z", "SKIPPED")>>}

MCFrames ==
    [shown : UNION {[1..n -> {"PENDING", "RUNNING", "PASSED", "FAILED", "STOPPED"}] : n \in {1, 3, 4}}, height : 0..9]
MCLive(shown) == [k \in DOMAIN shown |-> MCSeen("x", shown[k])]

-----------------------------------------------------------------------------
(* ConsoleLogs: two chunks, of lines of each kind, cut within a frame and not. *)

Console == INSTANCE ConsoleLogs

MCConsoleLines ==
    LET LineOf(time, is, own, says) ==
            [time |-> time, text |-> [is |-> is, time |-> own, says |-> says]]
    IN {LineOf(t, "blank", 0, {}) : t \in {0, 1}}
       \cup {LineOf(t, "plain", 0, says) : t \in {0, 1}, says \in {{}, {"DEBUG"}, {"WARN", "ERROR"}, {"INFO", "WARN"}}}
       \cup {LineOf(t, is, 2, {"ERROR"}) : t \in {0, 1}, is \in {"json", "cri"}}
       \cup {LineOf(1, "json", 0, {"DEBUG", "INFO"})}

MCPrinted ==
    LET some == {<<>>} \cup {<<l>> : l \in MCConsoleLines}
        first == CHOOSE l \in MCConsoleLines : l.text.is = "cri"
        few == {<<>>, <<first>>}
        Chunk(rest, frames, cut) == [rest |-> rest, frames |-> frames, cut |-> cut]
    IN {<<Chunk(<<>>, <<a, b>>, <<>>), Chunk(<<>>, <<c>>, <<>>)>> : a, b \in some, c \in few}
       \cup {<<Chunk(<<>>, <<a>>, cut), Chunk(<<l>>, <<b>>, <<>>)>> :
                a, b \in few, l \in MCConsoleLines, cut \in {<<l>> : l \in MCConsoleLines} \cup {<<first, l>> : l \in MCConsoleLines}}

=============================================================================
