--------------------------- MODULE TrafficCapture ---------------------------
(***************************************************************************)
(* One connection through a database or broker proxy, from the end of its  *)
(* handshake: a goroutine per direction, the state the two share, what the *)
(* proxy logs, and how the connection ends.  The client and the server are *)
(* modelled from what the proxies make of them: the client sends a given   *)
(* script of requests, the server answers each in one of the ways of its   *)
(* protocol, at any time, and either may go away at any time.              *)
(*                                                                         *)
(* A database proxy reads a message before it forwards it, so that no      *)
(* answer precedes the reading; a broker proxy forwards a frame first.     *)
(***************************************************************************)
EXTENDS Naturals, Sequences, FiniteSets, ProxyProtocols

CONSTANTS
    Scripts,   \* the connections: [proto, reqs, pushes]
    Names,     \* statements, cursors, channels
    QueueCap   \* the capacity of pendingCh, 1024 in the code

Protocols == {"postgres", "mysql", "redis", "mongo", "kafka", "amqp"}
Brokers == {"kafka", "amqp"}

VARIABLES
    conn,     \* the script of this connection
    sent,     \* how many requests the client sends before it goes,
    fwd,      \* how many of them the proxy has forwarded
    seen,     \* and inspected
    served,   \* how many the server has answered
    pushed,   \* how many frames the server has pushed of its own
    srv,      \* skip: the server discards until Sync; live: its open cursors or statements
    answers,  \* what the server has sent,
    relayed,  \* how much of it the proxy has forwarded
    read,     \* and inspected
    px,       \* what the proxy remembers, its logs among it
    odd,      \* the server has answered in a way that the proxy does not pair
    client,   \* "open" or "gone"
    server,   \* "open", "crashed", or "left" after its client
    up, down, \* the goroutines: "running" or "done"; up "blocked" in a send
    closed    \* what relay has closed: "nothing", "client" or "both"

\* What is assumed of the connections: both sides send lists.  Unasked, a Redis
\* server sends pushes, MongoDB and Kafka nothing.  The client of MongoDB sends
\* what its server knows, and asks for more of what it has asked for.
ScriptsTyped ==
    \A c \in Scripts :
        /\ c.reqs \in Seq({c.reqs[i] : i \in DOMAIN c.reqs})
        /\ c.pushes \in Seq({c.pushes[i] : i \in DOMAIN c.pushes})
        /\ c.proto = "redis" =>
                \A i \in DOMAIN c.pushes : c.pushes[i].kind = "push" /\ ~c.pushes[i].final
        /\ c.proto \in {"kafka", "mongo"} => c.pushes = <<>>
        /\ c.proto = "mongo" => DOMAIN c.reqs \subseteq Names /\ \A i \in DOMAIN c.reqs :
                /\ c.reqs[i].kind \in {"find", "aggregate", "getMore", "internal", "command"}
                /\ c.reqs[i].kind = "getMore" => c.reqs[i].name \in DOMAIN c.reqs

reqVars == <<sent, fwd, seen>>
srvVars == <<served, pushed, srv, answers>>
backVars == <<relayed, read>>
peerVars == <<client, server>>
endVars == <<up, down, closed>>
vars == <<conn, reqVars, srvVars, backVars, px, odd, peerVars, endVars>>

Reqs == conn.reqs
Is(p) == conn.proto = p
IsBroker == conn.proto \in Brokers

Fresh(proto) ==
    CASE proto = "postgres" -> PostgresFresh(Names)
      [] proto = "mysql" -> MySQLFresh(Names)
      [] proto = "redis" -> RedisFresh
      [] proto = "mongo" -> MongoFresh(Names)
      [] proto = "kafka" -> KafkaFresh
      [] proto = "amqp" -> AmqpFresh(Names)

OnRequest(i) ==
    LET r == Reqs[i] IN
    CASE Is("postgres") -> PostgresRequest(px, r, i)
      [] Is("mysql") -> MySQLRequest(px, r, i)
      [] Is("redis") -> RedisRequest(px, r, i)
      [] Is("mongo") -> MongoRequest(px, r, i)
      [] Is("kafka") -> KafkaRequest(px, r, i)
      [] Is("amqp") -> AmqpFrame(px, r, "up")

OnPacket(p) ==
    CASE Is("postgres") -> PostgresPacket(px, p)
      [] Is("mysql") -> MySQLPacket(px, p, Reqs[p.req])
      [] Is("redis") -> RedisPacket(px, p, Reqs)
      [] Is("mongo") -> MongoPacket(px, p, Reqs[p.req])
      [] Is("kafka") -> KafkaPacket(px, p, Reqs[p.req])
      [] Is("amqp") -> AmqpFrame(px, p, "down")

\* Whether completeMessage still has to run in a direction.
Due(dir) == Is("amqp") /\ px.due[dir] # 0

TypeOK ==
    /\ conn \in Scripts
    /\ IF IsBroker THEN seen =< fwd ELSE fwd =< seen
    /\ served =< fwd /\ seen =< sent /\ fwd =< sent /\ sent =< Len(Reqs)
    /\ read =< Len(answers) /\ relayed =< Len(answers)
    /\ pushed =< Len(conn.pushes)
    /\ odd \in BOOLEAN
    /\ client \in {"open", "gone"}
    /\ server \in {"open", "crashed", "left"}
    /\ up \in {"running", "blocked", "done"}
    /\ up = "blocked" => Is("redis") /\ seen < sent
    /\ down \in {"running", "done"}
    /\ closed \in {"nothing", "client", "both"}
    /\ Is("redis") => Len(px.queue) =< QueueCap
    /\ closed = "both" => "done" \in {up, down}

Init ==
    /\ conn \in Scripts
    /\ sent = Len(conn.reqs) /\ fwd = 0 /\ seen = 0
    /\ served = 0 /\ pushed = 0
    /\ srv = [skip |-> FALSE, live |-> {}]
    /\ answers = <<>>
    /\ relayed = 0 /\ read = 0
    /\ px = Fresh(conn.proto)
    /\ odd = FALSE
    /\ client = "open" /\ server = "open"
    /\ up = "running" /\ down = "running"
    /\ closed = "nothing"

-----------------------------------------------------------------------------
(* The servers.                                                            *)

LastBefore(i, P(_)) ==
    LET S == {j \in 1..(i - 1) : P(Reqs[j])} IN
    IF S = {} THEN i ELSE CHOOSE j \in S : \A k \in S : k =< j

\* PostgreSQL: the Bind of the portal that request i executes.
BindOf(i) == LastBefore(i, LAMBDA q : q.kind = "bind" /\ q.portal = Reqs[i].portal)

\* The request that carried the text that request i executes: that which its
\* statement had when the portal was bound.
TextOf(i) ==
    LET r == Reqs[i]
        bound == IF Is("postgres") /\ r.kind = "execute" THEN BindOf(i) ELSE i
        Gives(q) == q.kind \in {"parse", "prepare"} /\ q.name = Reqs[bound].name
    IN  CASE r.kind \in {"bind", "execute", "describe"} -> LastBefore(bound, Gives)
          [] r.kind = "getMore" /\ r.name \in srv.live
             /\ Reqs[r.name].kind = "find" -> r.name
          [] OTHER -> i

Answer(packets, strange, skip, live) ==
    [packets |-> packets, odd |-> strange, skip |-> skip, live |-> live]

\* Request i's answers.  After an error PostgreSQL discards what comes before
\* the next Sync.  The proxy counts on one completion for each query and each
\* Execute; an Execute that is discarded gets none, nor does one that stops at
\* its limit of rows (PortalSuspended) or of which the text is empty, as a query
\* of comments is; the Parse or Bind at fault gets one, a query of two
\* statements two.
PostgresAnswers(i) ==
    LET r == Reqs[i]
        P(kind, final) == [kind |-> kind, req |-> i, text |-> TextOf(i),
                           final |-> final, n |-> <<0, 0>>]
        A(packets) == Answer(packets, FALSE, FALSE, {})
        Fails(packets) == Answer(packets, r.kind # "execute", TRUE, {})
        ready == P("other", FALSE)
        whole == {<<P("columns", FALSE), P("row", FALSE), P("complete", TRUE)>>,
                  <<P("complete", TRUE)>>, <<P("error", TRUE)>>}
    IN  CASE r.kind = "query" -> {A(Append(w, ready)) : w \in whole}
          [] r.kind = "multi" ->
                {Answer(<<P("complete", TRUE), P("complete", FALSE), ready>>, TRUE, FALSE, {})}
          [] r.kind = "comment" -> {Answer(<<ready>>, TRUE, FALSE, {})}
          [] r.kind = "sync" -> {A(<<ready>>)}
          [] srv.skip /\ r.kind \notin {"query", "multi", "comment", "sync"} ->
                {Answer(<<>>, r.kind = "execute", TRUE, {})}
          [] ~srv.skip /\ r.kind = "execute" ->
                {A(<<P("row", FALSE), P("complete", TRUE)>>),
                 A(<<P("complete", TRUE)>>), Fails(<<P("error", TRUE)>>),
                 Answer(<<P("row", FALSE), ready>>, TRUE, FALSE, {}),
                 Answer(<<ready>>, TRUE, FALSE, {})}
          [] ~srv.skip /\ r.kind \in {"parse", "bind", "describe"} ->
                {A(<<P(IF r.kind = "describe" THEN "columns" ELSE "other", FALSE)>>),
                 Fails(<<P("error", FALSE)>>)}

MySQLAnswers(i) ==
    LET r == Reqs[i]
        P(kind, final, n) == [kind |-> kind, req |-> i, text |-> TextOf(i),
                              final |-> final, n |-> n]
        Q(kind) == P(kind, FALSE, <<0, 0>>)
        Last(kind) == P(kind, TRUE, <<0, 0>>)
        row == IF r.kind = "execute" THEN Q("binary") ELSE Q("row")
        head == <<P("set", FALSE, <<1, 0>>), Q("column"), Q("eof")>>
        whole == {<<Last("ok")>>, <<Last("error")>>,
                  head \o <<row, Last("eof")>>, head \o <<Last("error")>>,
                  head \o <<row, Last("eof"), Q("ok")>>}
        prepared == {<<P("prepared", FALSE, <<0, 0>>)>>,
                     <<P("prepared", FALSE, <<0, 1>>), Q("column"), Q("eof")>>,
                     <<P("prepared", FALSE, <<1, 1>>), Q("column"), Q("eof"),
                       Q("column"), Q("eof")>>}
        A(packets) == Answer(packets, FALSE, FALSE, srv.live)
    IN  CASE r.kind = "query" -> {A(w) : w \in whole}
          [] r.kind = "execute" ->
                IF r.name \in srv.live THEN {A(w) : w \in whole} ELSE {A(<<Q("error")>>)}
          [] r.kind = "prepare" ->
                {Answer(w, FALSE, FALSE, srv.live \cup {r.name}) : w \in prepared}
                    \cup {A(<<Last("error")>>)}
          [] r.kind = "ping" -> {A(<<Q("ok")>>)}

\* In RESP3 a subscription is confirmed by a push, and no reply.
RedisAnswers(i) ==
    LET r == Reqs[i]
        P(kind) == [kind |-> kind, req |-> i, text |-> i,
                    final |-> r.kind = "command", n |-> <<0, 0>>]
    IN  IF r.kind = "subscribe" THEN {Answer(<<P("push")>>, TRUE, FALSE, {})}
        ELSE {Answer(<<P(k)>>, FALSE, FALSE, {}) : k \in {"reply", "error"}}

\* A find that leaves a cursor open is complete with its last getMore.
MongoAnswers(i) ==
    LET r == Reqs[i]
        c == IF r.kind = "getMore" THEN r.name ELSE i
        P(kind, final, next) == [kind |-> kind, req |-> i, text |-> TextOf(i),
                                 final |-> final, n |-> <<next, 0>>]
        found == Reqs[c].kind = "find"
        open == Answer(<<P("batch", ~found, c)>>, FALSE, FALSE, srv.live \cup {c})
        last == Answer(<<P("batch", TRUE, 0)>>, FALSE, FALSE, srv.live \ {c})
        fail == Answer(<<P("error", TRUE, 0)>>, FALSE, FALSE, srv.live \ {c})
    IN  CASE r.kind \in {"find", "aggregate"} -> {open, last, fail}
          [] r.kind = "getMore" -> IF c \in srv.live THEN {open, last, fail} ELSE {fail}
          [] r.kind = "internal" ->
                {Answer(<<P("reply", FALSE, 0), P("more", FALSE, 0)>>, FALSE, FALSE, srv.live)}
          [] r.kind = "command" -> {Answer(<<P("reply", TRUE, 0)>>, FALSE, FALSE, srv.live)}

KafkaAnswers(i) ==
    LET P(final) == [kind |-> "response", req |-> i, text |-> i,
                     final |-> final, n |-> <<0, 0>>]
    IN  {Answer(<<P(Reqs[i].kind = "fetch")>>, FALSE, FALSE, {})}

Answers(i) ==
    CASE Is("postgres") -> PostgresAnswers(i)
      [] Is("mysql") -> MySQLAnswers(i)
      [] Is("redis") -> RedisAnswers(i)
      [] Is("mongo") -> MongoAnswers(i)
      [] Is("kafka") -> KafkaAnswers(i)
      [] Is("amqp") -> {Answer(<<>>, FALSE, FALSE, {})}

Serve ==
    /\ server = "open"
    /\ served < fwd
    /\ \E a \in Answers(served + 1) :
          /\ answers' = answers \o a.packets
          /\ srv' = [skip |-> a.skip, live |-> a.live]
          /\ odd' = (odd \/ a.odd)
    /\ served' = served + 1
    /\ UNCHANGED <<conn, reqVars, pushed, backVars, px, peerVars, endVars>>

\* A push of Redis (to a subscriber), a frame of a delivery.
Push ==
    /\ server = "open"
    /\ pushed < Len(conn.pushes)
    /\ answers' = Append(answers, conn.pushes[pushed + 1])
    /\ pushed' = pushed + 1
    /\ UNCHANGED <<conn, reqVars, served, srv, backVars, px, odd, peerVars, endVars>>

Crash ==
    /\ server = "open"
    /\ server' = "crashed"
    /\ UNCHANGED <<conn, reqVars, srvVars, backVars, px, odd, client, endVars>>

\* The server goes after it has read the end of its client.
ServerLeaves ==
    /\ server = "open"
    /\ served = fwd
    /\ closed = "both" \/ (IsBroker /\ up = "done")
    /\ server' = "left"
    /\ UNCHANGED <<conn, reqVars, srvVars, backVars, px, odd, client, endVars>>

-----------------------------------------------------------------------------
(* The client.                                                             *)

\* How many requests the proxy has taken from the client.
Taken ==
    CASE IsBroker -> fwd
      [] ~IsBroker /\ up = "blocked" -> seen + 1
      [] OTHER -> seen

\* The next request is there.  What the client has sent and the proxy has not
\* read does not show, so that sending is no step of its own.  A MySQL client
\* waits for the answer to its last command.
HasSentNext ==
    /\ Taken < sent
    /\ Is("mysql") => served = seen /\ relayed = Len(answers)

\* The client goes: it quits, has read the end of its server, or dies.  Of what
\* it had to send it has sent all or some.
Leave ==
    /\ client = "open"
    /\ client' = "gone"
    /\ sent' \in IF up # "done" THEN Taken..Len(Reqs) ELSE {Taken}
    /\ UNCHANGED <<conn, fwd, seen, srvVars, backVars, px, odd, server, endVars>>

-----------------------------------------------------------------------------
(* relayClientToUpstream, relayRequests, relayDirection.                   *)

\* A mutant of QueueHasRoom.
QueueHasRoomLate == Is("redis") => Len(px.queue) =< QueueCap

\* Redis: pendingCh takes one more command.
QueueHasRoom == Is("redis") => Len(px.queue) < QueueCap

\* A command can be read: of a client that has been closed one of those that
\* the buffered reader of Redis holds.
RequestReadable ==
    /\ up = "running"
    /\ closed = "nothing" \/ (Is("redis") /\ closed = "client")
    /\ HasSentNext

\* Redis: pendingCh is full, and the send waits.  To close the client, which
\* ends a read, does not end it.
ReadAndBlock ==
    /\ Is("redis")
    /\ RequestReadable
    /\ ~QueueHasRoom
    /\ up' = "blocked"
    /\ UNCHANGED <<conn, reqVars, srvVars, backVars, px, odd, peerVars, down, closed>>

\* A database proxy reads a request, or goes on with the one it holds, then
\* forwards it.  A write to a server that is gone may fail, and ends the
\* goroutine.
ReadAndForward ==
    /\ ~IsBroker
    /\ RequestReadable \/ up = "blocked"
    /\ QueueHasRoom
    /\ seen' = seen + 1
    /\ px' = OnRequest(seen + 1)
    /\ \/ fwd' = fwd + 1 /\ up' = "running"
       \/ server # "open" /\ up' = "done" /\ fwd' = fwd
    /\ UNCHANGED <<conn, sent, srvVars, backVars, odd, peerVars, down, closed>>

\* A broker proxy forwards a frame,
ForwardRequest ==
    /\ IsBroker
    /\ up = "running" /\ closed = "nothing"
    /\ HasSentNext /\ seen = fwd /\ ~Due("up")
    /\ \/ fwd' = fwd + 1 /\ up' = up
       \/ server # "open" /\ up' = "done" /\ fwd' = fwd
    /\ UNCHANGED <<conn, sent, seen, srvVars, backVars, px, odd, peerVars, down, closed>>

\* and then inspects it.
InspectRequest ==
    /\ IsBroker
    /\ seen < fwd
    /\ seen' = seen + 1
    /\ px' = OnRequest(seen + 1)
    /\ UNCHANGED <<conn, sent, fwd, srvVars, backVars, odd, peerVars, endVars>>

CompleteMessage(dir) ==
    /\ Due(dir)
    /\ px' = AmqpComplete(px, dir)
    /\ UNCHANGED <<conn, reqVars, srvVars, backVars, odd, peerVars, endVars>>

\* Nothing more can be read from the client.  A goroutine that is blocked in a
\* send does not get to reading.
UpEnds ==
    /\ up = "running"
    /\ \/ closed # "nothing"
       \/ client = "gone" /\ seen = sent
    /\ IsBroker => seen = fwd /\ ~Due("up")
    /\ up' = "done"
    /\ UNCHANGED <<conn, reqVars, srvVars, backVars, px, odd, peerVars, down, closed>>

-----------------------------------------------------------------------------
(* relayUpstreamToClient, relayResponses, relayDirection.                  *)

\* Redis: the next pending command.
TakePending ==
    /\ Is("redis")
    /\ down = "running"
    /\ px.cur = 0 /\ px.queue # <<>>
    /\ px' = RedisTake(px)
    /\ UNCHANGED <<conn, reqVars, srvVars, backVars, odd, peerVars, endVars>>

AnswerReadable ==
    /\ down = "running" /\ closed # "both"
    /\ relayed < Len(answers) /\ read = relayed /\ ~Due("down")
    /\ Is("redis") => px.cur # 0

\* The packet reaches the client; a database proxy has inspected it.
RelayBack ==
    /\ AnswerReadable
    /\ relayed' = relayed + 1
    /\ IF IsBroker THEN read' = read /\ px' = px
       ELSE read' = read + 1 /\ px' = OnPacket(answers[read + 1])
    /\ UNCHANGED <<conn, reqVars, srvVars, odd, peerVars, endVars>>

\* The client is gone and the write fails.  All but Redis and the brokers
\* have inspected the packet before.
RelayFails ==
    /\ AnswerReadable
    /\ client = "gone"
    /\ down' = "done"
    /\ IF IsBroker \/ Is("redis") THEN read' = read /\ px' = px
       ELSE read' = read + 1 /\ px' = OnPacket(answers[read + 1])
    /\ UNCHANGED <<conn, reqVars, srvVars, relayed, odd, peerVars, up, closed>>

\* An answer that overtakes the inspection of its request cannot be paired.
InspectResponse ==
    /\ IsBroker
    /\ read < relayed
    /\ read' = read + 1
    /\ px' = OnPacket(answers[read + 1])
    /\ odd' = (odd \/ (Is("kafka") /\ answers[read + 1].req > seen))
    /\ UNCHANGED <<conn, reqVars, srvVars, relayed, peerVars, endVars>>

\* Nothing more can be read from the server, or from pendingCh.
DownEnds ==
    /\ down = "running" /\ read = relayed /\ ~Due("down")
    /\ \/ closed = "both"
       \/ server # "open" /\ relayed = Len(answers) /\ (Is("redis") => px.cur # 0)
       \/ (Is("redis") /\ up = "done" /\ px.cur = 0 /\ px.queue = <<>>)
    /\ down' = "done"
    /\ UNCHANGED <<conn, reqVars, srvVars, backVars, px, odd, peerVars, up, closed>>

-----------------------------------------------------------------------------
(* relay.                                                                  *)

\* A mutant of MayCloseBoth: the broker proxies close at the first end.
MayCloseAtFirstEnd ==
    IF Is("redis") \/ Is("mongo")
    THEN up = "done" /\ down = "done"
    ELSE "done" \in {up, down}

\* PostgreSQL and MySQL close both sockets when the first goroutine is done.
MayCloseBoth ==
    IF Is("postgres") \/ Is("mysql")
    THEN "done" \in {up, down}
    ELSE up = "done" /\ down = "done"

CloseBoth ==
    /\ closed # "both"
    /\ MayCloseBoth
    /\ closed' = "both"
    /\ UNCHANGED <<conn, reqVars, srvVars, backVars, px, odd, peerVars, up, down>>

\* Redis and MongoDB close the client when the server is gone.
CloseClient ==
    /\ Is("redis") \/ Is("mongo")
    /\ closed = "nothing"
    /\ down = "done" /\ up # "done"
    /\ closed' = "client"
    /\ UNCHANGED <<conn, reqVars, srvVars, backVars, px, odd, peerVars, up, down>>

\* A mutant of ReadDeadline: no deadline is set.
NoDeadline == FALSE

\* 30 s after one direction of a broker connection has ended.
ReadDeadline == IsBroker /\ "done" \in {up, down}

DeadlinePasses ==
    /\ ReadDeadline
    /\ \/ up = "running" /\ seen = fwd /\ ~Due("up")
          /\ client = "open" /\ up' = "done" /\ down' = down
       \/ down = "running" /\ read = Len(answers) /\ ~Due("down")
          /\ down' = "done" /\ up' = up
    /\ UNCHANGED <<conn, reqVars, srvVars, backVars, px, odd, peerVars, closed>>

-----------------------------------------------------------------------------
ClientToUpstream ==
    \/ ReadAndBlock
    \/ ReadAndForward
    \/ ForwardRequest
    \/ InspectRequest
    \/ CompleteMessage("up")
    \/ UpEnds

UpstreamToClient ==
    \/ TakePending
    \/ RelayBack
    \/ RelayFails
    \/ InspectResponse
    \/ CompleteMessage("down")
    \/ DownEnds

Relay == CloseBoth \/ CloseClient \/ DeadlinePasses

Next ==
    \/ Leave
    \/ Serve \/ Push \/ Crash \/ ServerLeaves
    \/ ClientToUpstream
    \/ UpstreamToClient
    \/ Relay

\* Each goroutine goes on, and so does the server.  All of these steps together
\* are finitely many.
Fair == ClientToUpstream \/ UpstreamToClient \/ Relay \/ Serve

Spec == Init /\ [][Next]_vars
FairSpec == Spec /\ WF_vars(Fair)

-----------------------------------------------------------------------------
(* Properties.                                                             *)

\* A channel on which the client publishes and the server delivers.
SharedChannel ==
    Is("amqp") /\ \E i \in DOMAIN Reqs, j \in DOMAIN conn.pushes :
                      Reqs[i].name = conn.pushes[j].name

\* PostgreSQL: the proxy takes every Execute for one of the statement bound
\* last, whatever the portal, with the text that this has by now,
StatementIsLast(i) ==
    Is("postgres") /\ Reqs[i].kind = "execute" =>
        \A j \in (BindOf(i) + 1)..(i - 1) :
            /\ Reqs[j].kind # "bind"
            /\ Reqs[j].kind = "parse" => Reqs[j].name # Reqs[BindOf(i)].name

\* and reads its rows with the columns described last.
ColumnsAreLast(i) ==
    Is("postgres") /\ Reqs[i].kind = "execute" =>
        LET d == LastBefore(i, LAMBDA q : q.kind \in {"describe", "query", "execute"})
        IN  Reqs[d].kind = "describe" => TextOf(d) = TextOf(i)

\* Every log carries the text of the query (the names of the message) whose
\* answer completed it, and rows (a body) of that query only, read with its
\* own columns and format.  About the pairing by order (PostgreSQL, MySQL,
\* Redis), by id (MongoDB, Kafka) and by channel (AMQP).  With PostgreSQL the
\* text of an Execute is left open when another portal was bound or its
\* statement parsed anew before it, and the columns when another statement was
\* described last: the code then takes those of the other.
Paired ==
    ~odd /\ ~SharedChannel =>
        \A k \in DOMAIN px.log :
            LET e == px.log[k] IN
            /\ StatementIsLast(e.by) => e.text = e.answer
            /\ \A row \in e.rows :
                  row.text = e.answer /\ (ColumnsAreLast(e.by) => row.ok)

\* The frames of message m that go in a direction.
FramesOf(m, frames) == {k \in DOMAIN frames : frames[k].msg = m}

\* What must have been logged by now.
Completed ==
    CASE Is("amqp") ->
            {Reqs[k].msg : k \in {j \in 1..seen : ~Due("up") /\
                \A f \in FramesOf(Reqs[j].msg, Reqs) : f =< seen}}
            \cup {answers[k].msg : k \in {j \in 1..read : ~Due("down") /\
                \A f \in FramesOf(answers[j].msg, conn.pushes) : f =< read}}
      [] OTHER ->
            {answers[k].req : k \in {j \in 1..read : answers[j].final}}
            \cup {i \in 1..seen : Is("kafka") /\ Reqs[i].kind = "produce"}

Logs(x) == {k \in DOMAIN px.log : px.log[k].by = x}

\* Every query that was answered and every message that was relayed is logged,
\* once, with one log for a find and all of its batches.  A command of which
\* the proxy misses the end would shift the pairing of all that follow.
Captured ==
    ~odd /\ ~SharedChannel => \A x \in Completed : Cardinality(Logs(x)) = 1

\* A client that publishes and disconnects quickly loses nothing
\* (kafka/connection.go:67, amqp/connection.go:65): unless the broker died,
\* all it has sent is inspected before the sockets are closed.
PublishesSurvive ==
    IsBroker /\ closed = "both" /\ server # "crashed" /\ client = "gone" => seen = sent

Over == closed = "both" /\ up = "done" /\ down = "done"

\* What the server answers reaches the client, as long as both stay.  Redis
\* may keep a push for as long as the client sends no command.
Replied ==
    \/ \A k \in DOMAIN answers : answers[k].kind = "push" \/ k =< relayed
    \/ odd \/ client = "gone" \/ server # "open"

\* Redis: no command waits for its reply, and nobody reads from the server.
Idle == Is("redis") /\ down = "running" /\ px.cur = 0 /\ px.queue = <<>>

\* Redis: nobody takes commands any more, and one waits for room.  The relay
\* closes the client to "unblock" the goroutine (redis/connection.go:65) and
\* waits for it for ever.
Stuck == up = "blocked" /\ down = "done" /\ ~QueueHasRoom

\* A connection whose client or server has gone is closed.  Without the client
\* a MongoDB proxy waits for the server to close, and a Redis proxy that has
\* missed a reply does; without the server, an idle Redis proxy notices nothing;
\* and one that is stuck never closes.
Ended ==
    /\ client = "gone" => Over \/ Is("mongo") \/ odd \/ Stuck
    /\ server = "crashed" => Over \/ Idle \/ Stuck

\* Neither is put off for ever.
TrafficSettles == []<>(Replied /\ Ended)

=============================================================================
