--------------------------- MODULE ProxyProtocols ---------------------------
(***************************************************************************)
(* What each proxy of a database or a broker remembers of a connection,    *)
(* and what it does with a request of the client and with a packet of the  *)
(* server.  A request is a record [kind, name, portal]; it is known by its *)
(* index, and so is the text it carries.  A packet is a record [kind, req, *)
(* text, final, n] that says which request it answers and with which text  *)
(* that request was made: a proxy must not read these two, which serve to  *)
(* judge what it logs.  "px.log" is what goes to the query logger.         *)
(*                                                                         *)
(* A frame of a broker, [kind, name, msg], is looked at after it has been  *)
(* forwarded: for AMQP "name" is the channel, for Kafka the correlation id *)
(* is the frame's index.  "msg" is the message the frame is part of, which *)
(* serves to judge what is logged.                                         *)
(***************************************************************************)
EXTENDS Naturals, Sequences

\* A log: the text the proxy ascribes it to, the packet that completed it and
\* the rows.
Entry(text, p, rows) ==
    [text |-> text, by |-> p.req, answer |-> p.text, rows |-> rows]

\* A row as the proxy read it: ok if it knew the row's own format.
Row(p, ok) == [text |-> p.text, ok |-> ok]

\* completeQuery: the oldest pending query is the one that p completes.
PopAndLog(px, p, rows) ==
    IF px.pending = <<>> THEN px
    ELSE [px EXCEPT !.pending = Tail(@),
                    !.log = Append(@, Entry(Head(px.pending), p, rows))]

-----------------------------------------------------------------------------
(* PostgreSQL.                                                             *)

PostgresFresh(Names) ==
    [stmts |-> [s \in Names |-> 0], active |-> CHOOSE s \in Names : TRUE,
     pending |-> <<>>, columns |-> 0, rows |-> {}, log |-> <<>>]

PostgresRequest(px, r, i) ==
    CASE r.kind \in {"query", "multi", "comment"} ->
            [px EXCEPT !.pending = Append(@, i)]
      [] r.kind = "parse" -> [px EXCEPT !.stmts[r.name] = i]
      [] r.kind = "bind" -> [px EXCEPT !.active = r.name]
      [] r.kind = "execute" /\ px.stmts[px.active] # 0 ->
            [px EXCEPT !.pending = Append(@, px.stmts[px.active])]
      [] OTHER -> px

\* A mutant of Cleared: the columns outlive their query.
ClearedRowsOnly(px) == [px EXCEPT !.rows = {}]

\* The end of a result set.
Cleared(px) == [px EXCEPT !.columns = 0, !.rows = {}]

PostgresPacket(px, p) ==
    CASE p.kind = "columns" -> [px EXCEPT !.columns = p.text, !.rows = {}]
      [] p.kind = "row" /\ px.columns # 0 ->
            [px EXCEPT !.rows = @ \cup {Row(p, px.columns = p.text)}]
      [] p.kind = "complete" -> PopAndLog(Cleared(px), p, px.rows)
      [] p.kind = "error" -> PopAndLog(Cleared(px), p, {})
      [] OTHER -> px

-----------------------------------------------------------------------------
(* MySQL.                                                                  *)

MySQLFresh(Names) ==
    [stmts |-> [s \in Names |-> 0], last |-> "none", pending |-> <<>>,
     skip |-> 0, inSet |-> FALSE, binary |-> FALSE, columns |-> 0,
     eof |-> FALSE, rows |-> {}, log |-> <<>>]

MySQLRequest(px, r, i) ==
    CASE r.kind \in {"query", "prepare"} ->
            [px EXCEPT !.last = r.kind, !.pending = Append(@, i)]
      [] r.kind = "execute" ->
            [px EXCEPT !.last = r.kind,
                       !.pending = IF px.stmts[r.name] = 0 THEN @
                                   ELSE Append(@, px.stmts[r.name])]
      [] OTHER -> px

Flag(b) == IF b THEN 1 ELSE 0

\* A mutant of PrepareSkip: one EOF is forgotten.
PrepareSkipOneEof(params, columns) ==
    params + columns + Flag(params > 0 \/ columns > 0)

\* The definitions that follow a PREPARE_OK, with an EOF after each list.
PrepareSkip(params, columns) ==
    params + columns + Flag(params > 0) + Flag(columns > 0)

\* processResultSetPacket: columns, an EOF, rows until an EOF or an error.
MySQLResultSetPacket(px, p) ==
    CASE px.columns > 0 -> [px EXCEPT !.columns = @ - 1]
      [] px.columns = 0 /\ ~px.eof -> [px EXCEPT !.eof = p.kind = "eof"]
      [] px.columns = 0 /\ px.eof /\ p.kind \in {"eof", "error"} ->
            PopAndLog([px EXCEPT !.inSet = FALSE, !.rows = {}], p,
                      IF p.kind = "error" THEN {} ELSE px.rows)
      [] OTHER ->
            [px EXCEPT !.rows = @ \cup {Row(p, px.binary = (p.kind = "binary"))}]

\* processServerPacket.  "set" is the first packet of a result set, with the
\* number of columns; "prepared" a PREPARE_OK, which looks like an OK.
MySQLPacket(px, p, r) ==
    CASE px.skip > 0 -> [px EXCEPT !.skip = @ - 1]
      [] px.skip = 0 /\ px.inSet -> MySQLResultSetPacket(px, p)
      [] px.skip = 0 /\ ~px.inSet /\ p.kind = "prepared"
         /\ px.last = "prepare" /\ px.pending # <<>> ->
            [px EXCEPT !.stmts[r.name] = Head(px.pending),
                       !.pending = Tail(@),
                       !.skip = PrepareSkip(p.n[1], p.n[2]),
                       !.last = "none"]
      [] px.skip = 0 /\ ~px.inSet /\ p.kind = "set" ->
            [px EXCEPT !.inSet = TRUE, !.binary = px.last = "execute",
                       !.columns = p.n[1], !.eof = FALSE, !.rows = {}]
      [] px.skip = 0 /\ ~px.inSet /\ p.kind \in {"ok", "error", "prepared"}
         /\ ~(p.kind = "prepared" /\ px.last = "prepare" /\ px.pending # <<>>) ->
            PopAndLog(px, p, {})
      [] OTHER -> px

-----------------------------------------------------------------------------
(* Redis.  "cur" is the command whose reply relayUpstreamToClient reads.   *)

RedisFresh == [queue |-> <<>>, cur |-> 0, log |-> <<>>]

\* A mutant of RedisRequest: commands that are not logged are not queued.
RedisRequestNoPlaceholder(px, r, i) ==
    IF r.kind = "internal" THEN px ELSE [px EXCEPT !.queue = Append(@, i)]

\* Every command is queued, also those that are not logged.
RedisRequest(px, r, i) == [px EXCEPT !.queue = Append(@, i)]

RedisTake(px) == [px EXCEPT !.cur = Head(px.queue), !.queue = Tail(@)]

RedisLogged(r) == r.kind # "internal"

\* A push is relayed and forgotten; anything else answers the command.
RedisPacket(px, p, reqs) ==
    IF p.kind = "push" THEN px
    ELSE [px EXCEPT !.cur = 0,
                    !.log = IF RedisLogged(reqs[px.cur])
                            THEN Append(@, Entry(px.cur, p, {})) ELSE @]

-----------------------------------------------------------------------------
(* MongoDB.  A cursor is known by the index of the request that opened it. *)

NoCursor == [text |-> 0, rows |-> {}]

MongoFresh(Names) ==
    [pending |-> {}, cursors |-> [c \in Names |-> NoCursor], log |-> <<>>]

MongoRequest(px, r, i) ==
    IF r.kind = "internal" THEN px ELSE [px EXCEPT !.pending = @ \cup {i}]

\* logQuery.  "n" holds the cursor that the reply leaves open, or 0.
MongoLogQuery(px, p, r, i) ==
    LET next == p.n[1]
        acc  == px.cursors[r.name]
        with == [acc EXCEPT !.rows = IF p.kind = "batch" THEN @ \cup {Row(p, TRUE)} ELSE @]
    IN  CASE r.kind = "find" /\ next # 0 /\ p.kind = "batch" ->
                [px EXCEPT !.cursors[next] = [text |-> i, rows |-> {Row(p, TRUE)}]]
          [] r.kind = "getMore" /\ acc # NoCursor /\ next = 0 ->
                [px EXCEPT !.cursors[r.name] = NoCursor,
                           !.log = Append(@, Entry(acc.text, p, with.rows))]
          [] r.kind = "getMore" /\ acc # NoCursor /\ next # 0 ->
                [px EXCEPT !.cursors = [@ EXCEPT ![r.name] = NoCursor, ![next] = with]]
          [] OTHER ->
                [px EXCEPT !.log = Append(@, Entry(i, p,
                               IF p.kind = "batch" THEN {Row(p, TRUE)} ELSE {}))]

\* Replies carry the id of their request.  The messages that follow one with
\* moreToCome ("more") are relayed unread.
MongoPacket(px, p, r) ==
    IF p.kind = "more" \/ p.req \notin px.pending THEN px
    ELSE MongoLogQuery([px EXCEPT !.pending = @ \ {p.req}], p, r, p.req)

-----------------------------------------------------------------------------
(* Kafka.                                                                  *)

KafkaFresh == [pending |-> {}, log |-> <<>>]

\* inspectRequest: the request is registered, a produce is logged at once.
KafkaRequest(px, r, i) ==
    [px EXCEPT !.pending = @ \cup {i},
               !.log = IF r.kind = "produce"
                       THEN Append(@, [text |-> i, by |-> i, answer |-> i, rows |-> {}])
                       ELSE @]

\* inspectResponse: only what answers a fetch that is registered is logged.
KafkaPacket(px, p, r) ==
    [px EXCEPT !.pending = @ \ {p.req},
               !.log = IF p.req \in px.pending /\ r.kind = "fetch"
                       THEN Append(@, [text |-> p.req, by |-> p.req,
                                       answer |-> p.text, rows |-> {}])
                       ELSE @]

-----------------------------------------------------------------------------
(* AMQP.  Both directions share the state of a channel.  "due" holds, per  *)
(* direction, the channel whose message is complete: completeMessage takes *)
(* the lock anew.                                                          *)

NoMessage == [text |-> 0, header |-> 0, size |-> 0, body |-> <<>>]

AmqpFresh(Channels) ==
    [chans |-> [c \in Channels |-> NoMessage],
     due |-> [d \in {"up", "down"} |-> 0], log |-> <<>>]

\* The frames after which a direction looks for a method of its own.
Starts(kind, dir) ==
    \/ kind = "publish" /\ dir = "up"
    \/ kind = "deliver" /\ dir = "down"

\* A mutant of HasWholeBody: the last frame of a body is not enough.
HasMoreThanBody(received, size) == received > size

HasWholeBody(received, size) == received >= size

\* inspectFrame.  The size of a message is its number of body frames, in "n".
AmqpFrame(px, f, dir) ==
    LET c  == f.name
        cs == px.chans[c]
    IN  CASE Starts(f.kind, dir) ->
                [px EXCEPT !.chans[c] = [NoMessage EXCEPT !.text = f.msg]]
          [] f.kind = "header" /\ cs # NoMessage ->
                [px EXCEPT !.chans[c].size = f.n,
                           !.chans[c].header = f.msg,
                           !.chans[c].body = <<>>,
                           !.due[dir] = IF f.n = 0 THEN c ELSE @]
          [] f.kind = "body" /\ cs # NoMessage ->
                [px EXCEPT !.chans[c].body = Append(@, f.msg),
                           !.due[dir] = IF HasWholeBody(Len(cs.body) + 1, cs.size) THEN c ELSE @]
          [] OTHER -> px

\* completeMessage.
AmqpComplete(px, dir) ==
    LET c  == px.due[dir]
        cs == px.chans[c]
    IN  IF cs = NoMessage THEN [px EXCEPT !.due[dir] = 0]
        ELSE [px EXCEPT !.due[dir] = 0,
                        !.chans[c] = NoMessage,
                        !.log = Append(@,
                            [text |-> cs.text, by |-> cs.text, answer |-> cs.header,
                             rows |-> {[text |-> cs.body[k], ok |-> Len(cs.body) = cs.size]
                                         : k \in 1..Len(cs.body)}])]

=============================================================================
