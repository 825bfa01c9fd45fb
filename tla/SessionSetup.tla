---------------------------- MODULE SessionSetup ----------------------------
(***************************************************************************)
(* The beginning of a connection through the PostgreSQL and MySQL proxies: *)
(* denial of TLS, cancel requests, and the relay of the authentication.    *)
(* The proxy is one goroutine that must know from a message of the server  *)
(* whether the client is going to answer it.  If it waits for an answer    *)
(* nobody sends, or for a message of a server that waits for an answer,    *)
(* the three wait for each other for ever: no read has a deadline.         *)
(***************************************************************************)
EXTENDS Naturals, Sequences

CONSTANT Dialogues  \* [proto, first, msgs]: how a server authenticates

VARIABLES
    talk,      \* the dialogue of this session
    hello,     \* what the client has yet to send before the authentication
    told,      \* how many messages the server has sent,
    passed,    \* and the proxy relayed
    answered,  \* how many answers the client has sent,
    returned,  \* and the proxy relayed
    peers,     \* who has gone: a subset of {"client", "server"}
    proxy      \* "first", "server", "client": what it reads; "relay" or "failed"

vars == <<talk, hello, told, passed, answered, returned, peers, proxy>>

Msgs == talk.msgs

\* Messages to which a client answers (external: PostgreSQL's and MySQL's
\* protocols).  "switch" and "fullAuth", "publicKey" are MySQL's.
Answerable == {"password", "md5", "sasl", "saslContinue", "gss",
               "greeting", "switch", "fullAuth", "publicKey"}

\* How many answers the first n messages call for.
Wanted(n) ==
    LET Count[k \in 0..n] ==
            IF k = 0 THEN 0
            ELSE Count[k - 1] + (IF Msgs[k] \in Answerable THEN 1 ELSE 0)
    IN  Count[n]

\* What is assumed of the dialogues: a server sends messages of its protocol, and
\* none after the one that ends the handshake.
Messages(proto) ==
    IF proto = "mysql" THEN {"greeting", "switch", "fullAuth", "publicKey", "fastAuth", "ok", "error"}
    ELSE {"password", "md5", "sasl", "saslContinue", "saslFinal", "gss", "authOk",
          "parameter", "notice", "ready", "error"}
DialoguesTyped ==
    \A t \in Dialogues :
        /\ t.proto \in {"postgres", "mysql"} /\ t.msgs \in Seq(Messages(t.proto))
        /\ t.first \in Seq({"ssl", "cancel", "startup"})
        /\ \A k \in DOMAIN t.msgs : t.msgs[k] \in {"ready", "ok"} => k = Len(t.msgs)

TypeOK ==
    /\ talk \in Dialogues
    /\ passed =< told /\ told =< Len(Msgs)
    /\ returned =< answered /\ answered =< Wanted(passed)
    /\ peers \subseteq {"client", "server"}
    /\ proxy \in {"first", "server", "client", "relay", "failed"}

Init ==
    /\ talk \in Dialogues
    /\ hello = talk.first
    /\ told = 0 /\ passed = 0 /\ answered = 0 /\ returned = 0
    /\ peers = {}
    /\ proxy = IF talk.proto = "mysql" THEN "server" ELSE "first"

-----------------------------------------------------------------------------
(* The client and the server.                                              *)

\* The server goes on when it has every answer it has asked for; PostgreSQL
\* after the startup message.
Tell ==
    /\ "server" \notin peers
    /\ told < Len(Msgs)
    /\ hello = <<>>
    /\ returned = Wanted(told)
    /\ told' = told + 1
    /\ UNCHANGED <<talk, hello, passed, answered, returned, peers, proxy>>

Reply ==
    /\ "client" \notin peers
    /\ answered < Wanted(passed)
    /\ answered' = answered + 1
    /\ UNCHANGED <<talk, hello, told, passed, returned, peers, proxy>>

Go(who) ==
    /\ who \notin peers
    /\ peers' = peers \cup {who}
    /\ UNCHANGED <<talk, hello, told, passed, answered, returned, proxy>>

-----------------------------------------------------------------------------
(* The proxy.                                                              *)

\* handleConnection of PostgreSQL: a request for TLS is denied and the client
\* starts again in the clear; a cancel request goes to a connection of its own;
\* for a startup message the server is dialled, which may fail.
ReadFirst ==
    /\ proxy = "first"
    /\ hello # <<>> /\ "client" \notin peers
    /\ hello' = Tail(hello)
    /\ CASE Head(hello) = "ssl" -> proxy' = "first"
         [] Head(hello) = "cancel" -> proxy' = "failed"
         [] Head(hello) = "startup" ->
               proxy' \in {"server", "failed"} /\ ("server" \in peers => proxy' = "failed")
    /\ UNCHANGED <<talk, told, passed, answered, returned, peers>>

\* A mutant of ExpectsAnswer: SASLFinal and the success of the fast
\* authentication are taken for a challenge.
ExpectsAnswerToAll(m) ==
    m \in {"password", "md5", "sasl", "saslContinue", "saslFinal", "gss",
           "greeting", "switch", "fullAuth", "publicKey", "fastAuth"}

\* relayAuth and relayHandshake.  PostgreSQL: every request for authentication
\* but 0 (ok) and 12 (SASLFinal); MySQL: the greeting and then everything but
\* OK, ERR and 0x01 0x03.
ExpectsAnswer(m) ==
    IF talk.proto = "postgres"
    THEN m \notin {"authOk", "saslFinal", "parameter", "notice", "ready", "error"}
    ELSE m \notin {"fastAuth", "ok", "error"}

\* Where the proxy goes on after message m.
After(m) ==
    CASE m \in {"ready", "ok"} -> "relay"
      [] m = "error" -> "failed"
      [] m \notin {"ready", "ok", "error"} ->
            IF ExpectsAnswer(m) THEN "client" ELSE "server"

ReadServer ==
    /\ proxy = "server"
    /\ passed < told
    /\ passed' = passed + 1
    /\ proxy' = IF "client" \in peers THEN "failed" ELSE After(Msgs[passed + 1])
    /\ UNCHANGED <<talk, hello, told, answered, returned, peers>>

ReadClient ==
    /\ proxy = "client"
    /\ returned < answered
    /\ returned' = returned + 1
    /\ proxy' = IF "server" \in peers THEN "failed" ELSE "server"
    /\ UNCHANGED <<talk, hello, told, passed, answered, peers>>

\* A read fails because the peer is gone; handleConnection closes both.
ReadError ==
    /\ \/ proxy = "first" /\ "client" \in peers
       \/ proxy = "client" /\ "client" \in peers /\ returned = answered
       \/ proxy = "server" /\ "server" \in peers /\ passed = told
    /\ proxy' = "failed"
    /\ UNCHANGED <<talk, hello, told, passed, answered, returned, peers>>

Proxy == ReadFirst \/ ReadServer \/ ReadClient \/ ReadError

\* The proxy goes on, and so do the client and the server while they are there.
Fair == Proxy \/ Tell \/ Reply

Next ==
    \/ Tell \/ Reply
    \/ \E who \in {"client", "server"} : Go(who)
    \/ Proxy

-----------------------------------------------------------------------------
(* Properties.                                                             *)

\* The handshake comes to an end: no one waits for a message that no one sends.
Over == proxy \in {"relay", "failed"}
SetupEnds == []<>Over

\* The relay of traffic, which takes every message of the client for a request,
\* begins with the last message of the handshake and not before, and no answer
\* of the client is still to come.
RelayInStep ==
    proxy = "relay" =>
        passed = Len(Msgs) /\ returned = answered /\ answered = Wanted(passed)

=============================================================================
