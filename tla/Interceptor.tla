---------------------------- MODULE Interceptor ----------------------------
(***************************************************************************)
(* How an interceptor answers a request: which mock, if any, and else to   *)
(* which service it forwards it and with which path; and how the calls of  *)
(* services and of the test agent get to an interceptor in the first       *)
(* place.  Names and segments of paths are values; a request is a record   *)
(* [host, method, path, body], with the path a sequence of segments; a     *)
(* mock has for each of these a value or "*", and a path pattern           *)
(* [kind, segs] whose segments may be Variable.  Nobody is the empty       *)
(* string: the origin of the shared interceptor, and no service.           *)
(***************************************************************************)
EXTENDS Naturals, Sequences, FiniteSets

Variable == ":id"
Any == "*"
Nobody == "nobody"

SegmentMatches(p, s) == p = Variable \/ p = s

IsVariablePath(pattern) == \E i \in DOMAIN pattern.segs : pattern.segs[i] = Variable

IsExact(pattern, path) == pattern.kind = "plain" /\ pattern.segs = path

\* pathMatches.  A pattern that ends in "*" is compared as a prefix, in which
\* a variable is taken literally.
PathMatches(pattern, path) ==
    LET n == Len(pattern.segs) IN
    CASE pattern.kind = "all" -> TRUE
      [] pattern.kind = "prefix" ->
            n < Len(path) /\ \A i \in 1..n : pattern.segs[i] = path[i]
      [] pattern.kind = "plain" ->
            \/ pattern.segs = path
            \/ /\ IsVariablePath(pattern)
               /\ n = Len(path)
               /\ \A i \in 1..n : SegmentMatches(pattern.segs[i], path[i])

\* matches, for the interceptor of service origin (Nobody for the shared one).
Matches(mock, r, origin) ==
    /\ mock.origin \in {Any, Nobody} \/ (origin # Nobody /\ mock.origin = origin)
    /\ mock.target \in {Any, r.host}
    /\ mock.method \in {Any, r.method}
    /\ PathMatches(mock.path, r.path)
    /\ mock.body \in {Any, r.body}

Point(b) == IF b THEN 1 ELSE 0

\* A mutant of PathScore: a prefix counts as much as a whole path.
PathScoreFlat(pattern, path) == IF pattern.kind = "all" THEN 0 ELSE 2

PathScore(pattern, path) ==
    CASE pattern.kind = "all" -> 0
      [] pattern.kind = "plain" -> 2
      [] pattern.kind = "prefix" -> 1

\* calculateSpecificity, for a mock that matches.
Specificity(mock, r) ==
    Point(mock.origin # Any) + Point(mock.target # Any) + Point(mock.method # Any)
        + PathScore(mock.path, r.path) + Point(mock.body # Any)

\* Whether mock i takes the place of the best so far.
Beats(i, best, mocks, r) ==
    LET score == Specificity(mocks[i], r)
        bestScore == Specificity(mocks[best], r)
    IN  \/ score > bestScore
        \/ /\ score = bestScore
           /\ IsExact(mocks[i].path, r.path)
           /\ ~IsExact(mocks[best].path, r.path)

\* FindMatch: the index of the mock that answers, or 0.
FindMatch(mocks, r, origin) ==
    LET Best[i \in 0..Len(mocks)] ==
            IF i = 0 THEN 0
            ELSE LET best == Best[i - 1] IN
                 IF Matches(mocks[i], r, origin) /\ (best = 0 \/ Beats(i, best, mocks, r))
                 THEN i ELSE best
    IN  Best[Len(mocks)]

-----------------------------------------------------------------------------
(* Forwarding.  The items of a definition are records [name, type, port]; a *)
(* name is in the form Docker takes, which the validator sees to, so that   *)
(* an item, its container and its alias have one name.                      *)

\* buildInterceptorConfigMap: the keys of urlMap.
UrlMap(items) == {i.name : i \in {j \in items : j.type = "SERVICE" /\ j.port}}

\* normalizeForUrlMap, for segments that are names but for their case.
Normal(segment) == IF segment = "API" THEN "api" ELSE segment

\* extractServiceName, for the hosts that have dots.
FirstLabel(host) ==
    CASE host = "api.stripe.com" -> "api"
      [] host = "example.com" -> "example"
      [] OTHER -> host

\* A mutant of ServiceOf: the path is asked before the host.
ServiceOfPathFirst(r, urlMap) ==
    CASE r.path # <<>> /\ Normal(Head(r.path)) \in urlMap -> Normal(Head(r.path))
      [] OTHER -> IF r.host \in urlMap THEN r.host ELSE Nobody

\* extractServiceNameFromRequest: the host, its first label, else the first
\* segment.
ServiceOf(r, urlMap) ==
    CASE r.host \in urlMap -> r.host
      [] r.host \notin urlMap /\ FirstLabel(r.host) \in urlMap -> FirstLabel(r.host)
      [] /\ r.host \notin urlMap /\ FirstLabel(r.host) \notin urlMap
         /\ r.path # <<>> /\ Normal(Head(r.path)) \in urlMap -> Normal(Head(r.path))
      [] OTHER -> Nobody

\* Hosts that have two dots, by which a first segment is known to be a host.
LooksExternal(segment) == segment = "api.stripe.com"

\* getTargetURL: where the interceptor of origin sends r, and with which path.
\* That of a service takes what names no service for a request to its own.
TargetOf(r, urlMap, origin) ==
    LET name == ServiceOf(r, urlMap)
        path == IF r.path # <<>> /\ name # Nobody /\ Normal(Head(r.path)) = name
                THEN Tail(r.path) ELSE r.path
        own  == origin \in urlMap /\ name \in {origin, Nobody}
    IN  CASE own -> [host |-> origin, path |-> path]
          [] ~own /\ name # Nobody -> [host |-> name, path |-> path]
          [] ~own /\ name = Nobody /\ path # <<>> /\ LooksExternal(Head(path)) ->
                [host |-> Head(path), path |-> Tail(path)]
          [] OTHER -> [host |-> r.host, path |-> path]

-----------------------------------------------------------------------------
(* The network of an instance.  A call is a record [from, host, path], from *)
(* an item or the agent; the agent calls the shared interceptor, with the   *)
(* host as the first segment of the path.                                   *)

Shared == "interceptor-service"
Agent == "test-agent"

\* buildDnsmasqConfig: what a container resolves to something other than its
\* own interceptor.
Direct(items) == {i.name : i \in {j \in items : j.type \in {"DATABASE", "BROKER"}}}

\* What Docker resolves: the aliases of the containers, and hosts outside.
Aliases(items) == {i.name : i \in items} \cup {Shared}

\* A journey [at, path, logs]: where a request has got to, and how many
\* interceptors have logged it on its way.
Through(origin, r, items, logs) ==
    LET t == TargetOf(r, UrlMap(items), origin) IN
    [at   |-> IF t.host \in Aliases(items) THEN t.host ELSE "outside",
     path |-> t.path, logs |-> logs + 1]

\* Where a call goes first.
FirstHop(call, items) ==
    CASE call.from = Agent ->
            Through(Nobody, [host |-> Shared, path |-> <<call.host>> \o call.path], items, 0)
      [] call.from # Agent /\ call.host \in Direct(items) ->
            [at |-> call.host, path |-> call.path, logs |-> 0]
      [] OTHER -> Through(call.from, [host |-> call.host, path |-> call.path], items, 0)

\* The shared interceptor may be what a request is forwarded to.
Journey(call, items) ==
    LET first == FirstHop(call, items) IN
    IF first.at = Shared
    THEN Through(Nobody, [host |-> Shared, path |-> first.path], items, first.logs)
    ELSE first

-----------------------------------------------------------------------------
(* What the choice of a mock and the forwarding must satisfy.              *)

\* The mocks are a list, and there are no other kinds of paths.
MocksTyped(mocks) ==
    /\ mocks \in Seq({mocks[i] : i \in DOMAIN mocks})
    /\ \A i \in DOMAIN mocks : mocks[i].path.kind \in {"all", "prefix", "plain"}

\* No two items have one name, which is not that of the shared interceptor; and
\* a name is in the form to which the segments of paths are brought.
ItemsNamed(items) ==
    /\ \A i \in items : i.name \notin {Shared, Nobody} /\ Normal(i.name) = i.name
    /\ \A i, j \in items : i.name = j.name => i = j

CallTyped(call) == call.path \in Seq({call.path[i] : i \in DOMAIN call.path})

\* Longer is the part of the path that the pattern fixes.
PathOrder(pattern, path) ==
    CASE pattern.kind = "all" -> 0
      [] pattern.kind = "prefix" -> 1
      [] pattern.kind = "plain" /\ pattern.segs # path -> 2
      [] pattern.kind = "plain" /\ pattern.segs = path -> 3

\* Mock a is as specific as b in everything and more so in something.
MoreSpecific(a, b, r) ==
    LET Ranks(m) == <<Point(m.target # Any), Point(m.method # Any),
                      PathOrder(m.path, r.path), Point(m.body # Any)>>
    IN  /\ Ranks(a) # Ranks(b)
        /\ \A k \in 1..4 : Ranks(a)[k] >= Ranks(b)[k]

\* A mock answers if one matches, and none that matches and asks for the same
\* origin is more specific than the one that answers.  Of an origin the code
\* makes nothing: Nobody, the default, counts as much as the name of a service.
ChoiceIsBest(mocks, r, origin) ==
    LET m == FindMatch(mocks, r, origin)
        Fit == {i \in DOMAIN mocks : Matches(mocks[i], r, origin)}
    IN  /\ m = 0 <=> Fit = {}
        /\ m # 0 => /\ m \in Fit
                    /\ \A i \in Fit : mocks[i].origin = mocks[m].origin =>
                                          ~MoreSpecific(mocks[i], mocks[m], r)

\* A call to a service arrives there with its path, logged by one interceptor;
\* a call to a database or a broker by none, since its proxy logs it.  Left out
\* is a path that begins with the name of the service it is called on directly,
\* of which the interceptor takes that segment for the name and drops it.  A call
\* of the test agent to a host outside gets out with its path, if two dots show that
\* it is one; that of a service does not, its interceptor takes it for its own.
CallArrives(call, items) ==
    LET j == Journey(call, items)
        doubled == call.from # Agent /\ call.path # <<>> /\ Normal(Head(call.path)) = call.host
    IN  /\ Normal(call.host) \in UrlMap(items) /\ (call.from = Agent \/ call.host \in UrlMap(items))
           /\ ~doubled
              => j = [at |-> Normal(call.host), path |-> call.path, logs |-> 1]
        /\ call.from # Agent /\ call.host \in Direct(items)
              => j = [at |-> call.host, path |-> call.path, logs |-> 0]
        /\ call.from = Agent /\ LooksExternal(call.host)
           /\ call.host \notin Aliases(items) /\ Normal(call.host) \notin UrlMap(items)
              => j = [at |-> "outside", path |-> call.path, logs |-> 1]

=============================================================================
