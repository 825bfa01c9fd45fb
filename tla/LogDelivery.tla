---------------------------- MODULE LogDelivery -----------------------------
(***************************************************************************)
(* The way of a captured log out of a sidecar.  A sidecar (interceptor,    *)
(* db-proxy or broker-proxy) sends every log twice: a goroutine of the     *)
(* log's own posts the copy that assertions read to the test agent, and    *)
(* the log goes into a bounded channel from which one worker posts it to   *)
(* the Control Tower, the durable record.  Both posts are tried up to      *)
(* MaxAttempts times.  A client that times out leaves its request on the   *)
(* wire, so a request may be handled after the next attempt has started,   *)
(* after the sidecar has given up, or after the sidecar is gone.           *)
(*                                                                         *)
(* The three loggers differ only in how they stop: those of the            *)
(* interceptor and of the db-proxy drain the channel themselves next to a  *)
(* worker they do not wait for ("plain"), that of the broker-proxy lets    *)
(* the worker drain and waits for it ("message").                          *)
(***************************************************************************)
EXTENDS Naturals, Sequences, FiniteSets

CONSTANTS
    Logs,         \* the logs captured, one model value each
    Stamped,      \* those that got a logId (rand.Read may fail, old sidecars)
    LateLogs,     \* those of connections still open when Shutdown gives up
    Rejected,     \* those the Control Tower refuses with a 4xx
    Orphans,      \* those whose instance may be gone from the Control Tower
    QueueSize,    \* capacity of the channel (1000 in the code)
    MaxAttempts,  \* attempts per post (3 in the code)
    Kinds,        \* the loggers considered
    Events        \* what may happen: "stop" (SIGTERM), "kill", "error" (5xx)

Workers == {"worker", "stopper"}
Senders == Workers \cup Logs  \* a log stands for the goroutine of its copy
None == "none"

ASSUME LogDeliveryAssumption ==
    /\ Stamped \subseteq Logs
    /\ LateLogs \subseteq Logs
    /\ Rejected \subseteq Logs
    /\ Orphans \subseteq Logs
    /\ QueueSize \in Nat
    /\ MaxAttempts \in Nat \ {0}
    /\ Kinds \subseteq {"plain", "message"}
    /\ Kinds # {}
    /\ Events \subseteq {"stop", "kill", "error"}
    /\ (Workers \cup {None}) \cap Logs = {}

VARIABLES
    kind,      \* which logger this is
    proc,      \* "up", "stopping" (in Stop), "exited" or "killed"
    captured,  \* the logs the sidecar has seen
    late,      \* those of them seen after Stop was called
    queue,     \* logChan
    sender,    \* what each sending goroutine is doing
    fate,      \* why a log will not be uploaded any more
    wire,      \* requests sent and not handled yet
    rows,      \* rows of each log in the Control Tower's table
    counted,   \* copies of each log put into the test agent's windows so far
    seen       \* seenLogIds of the test agent

sidecarVars == <<kind, proc, captured, late, queue, fate>>
agentVars == <<counted, seen>>
vars == <<sidecarVars, sender, wire, rows, agentVars>>

Gone == {"exited", "killed"}
Dest(s) == IF s \in Logs THEN "agent" ELSE "ct"

SenderState ==
    [pc : {"idle", "waiting", "done"},
     log : Logs \cup {None},
     attempt : 0..MaxAttempts]

Request == [to : {"ct", "agent"}, log : Logs, attempt : 1..MaxAttempts]

Resting(pc) == [pc |-> pc, log |-> None, attempt |-> 0]

\* The request with which s sends l for the a-th time.
Req(s, l, a) == [to |-> Dest(s), log |-> l, attempt |-> a]

\* s posts l for the a-th time; w is the wire without what was just handled.
\* A post that is still due (goroutine not scheduled, backoff) is a request
\* that is not handled yet.
Attempt(s, l, a, w) ==
    /\ sender' = [sender EXCEPT ![s] = [pc |-> "waiting", log |-> l, attempt |-> a]]
    /\ wire' = w \cup {Req(s, l, a)}

Queued == {queue[i] : i \in DOMAIN queue}
Held == {sender[s].log : s \in Workers} \ {None}

TypeOK ==
    /\ kind \in Kinds
    /\ proc \in {"up", "stopping"} \cup Gone
    /\ captured \subseteq Logs
    /\ late \subseteq captured
    /\ queue \in Seq(captured)
    /\ Len(queue) =< QueueSize
    /\ sender \in [Senders -> SenderState]
    /\ fate \in [Logs -> {None, "dropped", "rejected", "skipped", "gaveUp", "abandoned"}]
    /\ wire \subseteq Request
    /\ rows \in [Logs -> Nat]
    /\ counted \in [Logs -> Nat]
    /\ seen \subseteq Stamped

Init ==
    /\ kind \in Kinds
    /\ proc = "up"
    /\ captured = {}
    /\ late = {}
    /\ queue = <<>>
    /\ sender = [s \in Senders |-> Resting("idle")]
    /\ fate = [l \in Logs |-> None]
    /\ wire = {}
    /\ rows = [l \in Logs |-> 0]
    /\ counted = [l \in Logs |-> 0]
    /\ seen = {}

-----------------------------------------------------------------------------
(* The sidecar.                                                            *)

Full == Len(queue) >= QueueSize

\* A mutant of StartCopy: the goroutine is started only for a log that found
\* room in the channel.
StartCopyIfQueued(l) ==
    IF Full THEN UNCHANGED <<sender, wire>> ELSE Attempt(l, l, 1, wire)

\* The copy for the test agent, by a goroutine of its own.
StartCopy(l) == Attempt(l, l, 1, wire)

\* The select that queues the log for the worker or drops it.
Enqueue(l) ==
    IF Full
    THEN /\ fate' = [fate EXCEPT ![l] = "dropped"]
         /\ UNCHANGED queue
    ELSE /\ queue' = Append(queue, l)
         /\ UNCHANGED fate

\* Log / logResponseInternal: start the copy's goroutine, then put the log
\* into the channel, or drop it when the channel is full.  The proxies'
\* Shutdown waits 5 s for connections and goes on to Stop with those open.
Capture(l) ==
    /\ proc \in (IF l \in LateLogs THEN {"up", "stopping"} ELSE {"up"})
    /\ l \notin captured
    /\ captured' = captured \cup {l}
    /\ late' = IF proc = "stopping" THEN late \cup {l} ELSE late
    /\ StartCopy(l)
    /\ Enqueue(l)
    /\ UNCHANGED <<kind, proc, rows, agentVars>>

\* Who receives from the channel: the worker until it has left its loop (a
\* select with both cases ready picks either), and the plain loggers' Stop.
Receives(s) ==
    \/ s = "worker"
    \/ s = "stopper" /\ kind = "plain" /\ proc = "stopping"

Take(s) ==
    /\ proc \notin Gone
    /\ Receives(s)
    /\ sender[s].pc = "idle"
    /\ queue # <<>>
    /\ Attempt(s, Head(queue), 1, wire)
    /\ queue' = Tail(queue)
    /\ UNCHANGED <<kind, proc, captured, late, fate, rows, agentVars>>

\* What a goroutine does after its post: a worker goes back to its loop, the
\* goroutine of a copy ends.
After(s) == Resting(IF s \in Logs THEN "done" ELSE "idle")

\* The reason a log is not uploaded is known when a worker is through with it.
Settle(s, why) ==
    fate' = IF s \in Logs THEN fate ELSE [fate EXCEPT ![sender[s].log] = why]

\* A mutant of Retry: the attempts are not counted.
RetryForever(s, w) ==
    /\ Attempt(s, sender[s].log, sender[s].attempt, w)
    /\ UNCHANGED fate

\* The next round of sendLog's and sendToTestAgent's loop, after a transport
\* error, a 5xx or a 429.
Retry(s, w) ==
    IF sender[s].attempt < MaxAttempts
    THEN /\ Attempt(s, sender[s].log, sender[s].attempt + 1, w)
         /\ UNCHANGED fate
    ELSE /\ sender' = [sender EXCEPT ![s] = After(s)]
         /\ wire' = w
         /\ Settle(s, "gaveUp")

\* The client's timeout, or a connection that fails.  The request stays on the
\* wire: it may still be handled, and nothing says that it ever is.
Timeout(s) ==
    /\ proc \notin Gone
    /\ sender[s].pc = "waiting"
    /\ Retry(s, wire)
    /\ UNCHANGED <<kind, proc, captured, late, queue, rows, agentVars>>

\* The client is still waiting for the response to r.
Waits(s, r) ==
    /\ proc \notin Gone
    /\ sender[s].pc = "waiting"
    /\ r = Req(s, sender[s].log, sender[s].attempt)

Finish(s, code, w) ==
    /\ sender' = [sender EXCEPT ![s] = After(s)]
    /\ wire' = w
    /\ CASE code = "4xx" -> Settle(s, "rejected")
         [] code = "skip" -> Settle(s, "skipped")
         [] OTHER -> UNCHANGED fate

\* r is handled with the answer `code`.  The client gets it if it still waits
\* and the answer is not lost.
Answer(r, code) ==
    \/ wire' = wire \ {r} /\ UNCHANGED <<sender, fate>>
    \/ \E s \in Senders :
          /\ Waits(s, r)
          /\ IF code = "5xx" THEN Retry(s, wire \ {r}) ELSE Finish(s, code, wire \ {r})

-----------------------------------------------------------------------------
(* The Control Tower.                                                      *)

\* A mutant of StoreRow: without the unique constraint every request makes a
\* row.
StoreRowAlways(l) == rows' = [rows EXCEPT ![l] = @ + 1]

\* storeHttpLog, storeDatabaseLog, storeMessageLog: the unique constraint on
\* [logId, timestamp] refuses the second row of a log, which counts as
\* success.  Rows without a logId are all different to it.
StoreRow(l) ==
    IF l \in Stamped /\ rows[l] > 0
    THEN UNCHANGED rows
    ELSE rows' = [rows EXCEPT ![l] = @ + 1]

Store(r) ==
    /\ r.log \notin Rejected
    /\ StoreRow(r.log)
    /\ Answer(r, "2xx")

Reject(r) ==
    /\ r.log \in Rejected
    /\ Answer(r, "4xx")
    /\ UNCHANGED rows

\* The log is valid but its instance is not found: nothing is stored, and the
\* sidecar is told that all went well.
Skip(r) ==
    /\ r.log \in Orphans \ Rejected
    /\ Answer(r, "skip")
    /\ UNCHANGED rows

StoreFails(r) ==
    /\ "error" \in Events
    /\ Answer(r, "5xx")
    /\ UNCHANGED rows

HandleByCT(r) ==
    /\ r.to = "ct"
    /\ Store(r) \/ Reject(r) \/ Skip(r) \/ StoreFails(r)
    /\ UNCHANGED <<kind, proc, captured, late, queue, agentVars>>

-----------------------------------------------------------------------------
(* The test agent.                                                         *)

\* isDuplicate, which AddHttpLog, AddDbLog and AddMessageLog ask first.
IsDuplicate(l) == l \in seen

\* AddHttpLog, AddDbLog, AddMessageLog: into the window, once per logId.
AddLog(l) ==
    IF IsDuplicate(l)
    THEN UNCHANGED agentVars
    ELSE /\ seen' = seen \cup ({l} \cap Stamped)
         /\ counted' = [counted EXCEPT ![l] = @ + 1]

\* The agent answers 200 whether the log was new or not.
HandleByAgent(r) ==
    /\ r.to = "agent"
    /\ AddLog(r.log)
    /\ Answer(r, "2xx")
    /\ UNCHANGED <<kind, proc, captured, late, queue, rows>>

\* A mutant of KeepSeen: a new window forgets the ids of the last one.
ForgetSeen == seen' = {}

\* The ids survive the window.
KeepSeen == UNCHANGED seen

\* Flush, SnapshotAndFlush: the step ends and the next window starts empty.
\* What a window holds is StepValidation's subject; here it matters that its
\* end takes nothing from what isDuplicate knows.
Flush ==
    /\ KeepSeen
    /\ UNCHANGED <<sidecarVars, sender, wire, rows, counted>>

-----------------------------------------------------------------------------
(* The end of the sidecar.                                                 *)

\* Stop closes stopChan.
StopSignal ==
    /\ "stop" \in Events
    /\ proc = "up"
    /\ proc' = "stopping"
    /\ UNCHANGED <<kind, captured, late, queue, fate, sender, wire, rows, agentVars>>

\* A mutant of MayLeave: the broker-proxy's worker returns like the others',
\* without draining the channel.
MayLeaveAtOnce == TRUE

\* When the worker may return after the stop signal: the plain ones at once,
\* that of the broker-proxy when the channel is empty.
MayLeave == kind = "message" => queue = <<>>

WorkerLeaves ==
    /\ proc = "stopping"
    /\ sender["worker"].pc = "idle"
    /\ MayLeave
    /\ sender' = [sender EXCEPT !["worker"] = Resting("done")]
    /\ UNCHANGED <<sidecarVars, wire, rows, agentVars>>

\* The process ends: the channel and every goroutine with it.  What it has
\* put on the wire stays there.
Ends(how) ==
    /\ proc' = how
    /\ queue' = <<>>
    /\ sender' = [s \in Senders |-> Resting("done")]
    /\ UNCHANGED <<kind, captured, late, wire, rows, agentVars>>

Exit(givenUp) ==
    /\ proc = "stopping"
    /\ Ends("exited")
    /\ fate' = [l \in Logs |-> IF l \in givenUp THEN "abandoned" ELSE fate[l]]

\* Stop of the interceptor's and the db-proxy's logger returns when its own
\* drain finds the channel empty, or at its 5 s limit between two messages.
PlainStopReturns ==
    /\ kind = "plain"
    /\ sender["stopper"].pc = "idle"
    /\ Exit(Queued)

\* Stop of the broker-proxy's logger returns when the worker is done, or at
\* its 5 s limit, whatever the worker is doing.
MessageStopReturns ==
    /\ kind = "message"
    /\ \/ sender["worker"].pc = "done" /\ Exit({})
       \/ sender["worker"].pc # "done" /\ Exit(Queued \cup Held)

\* The Control Tower removes the namespace's containers by force: SIGKILL.
Killed ==
    /\ "kill" \in Events
    /\ proc \notin Gone
    /\ Ends("killed")
    /\ UNCHANGED fate

-----------------------------------------------------------------------------
Next ==
    \/ \E l \in Logs : Capture(l)
    \/ \E s \in Workers : Take(s)
    \/ \E s \in Senders : Timeout(s)
    \/ \E r \in wire : HandleByCT(r) \/ HandleByAgent(r)
    \/ Flush
    \/ StopSignal
    \/ WorkerLeaves
    \/ PlainStopReturns
    \/ MessageStopReturns
    \/ Killed

\* The goroutines are scheduled, every client has a timeout and Stop a limit;
\* whether the Control Tower or the test agent answers is left open.
Fairness ==
    /\ WF_vars(Take("worker"))
    /\ WF_vars(PlainStopReturns \/ MessageStopReturns)
    /\ \A s \in Senders : WF_vars(Timeout(s))

Spec == Init /\ [][Next]_vars

FairSpec == Spec /\ Fairness

-----------------------------------------------------------------------------
(* Properties.                                                             *)

\* What has become of a log nobody knows, except of those that connections
\* outliving Shutdown brought in after Stop was called.
Unaccounted ==
    {l \in captured \ late :
        rows[l] = 0 /\ fate[l] = None /\ l \notin Queued \cup Held}

\* A log that was captured is stored, or on its way to be, or there is a
\* named reason that it is not: it found the channel full, the Control Tower
\* refused it or did not know its instance, every attempt failed, or Stop ran
\* into its limit.  Excepted are a killed sidecar and, when Stop of a plain
\* logger returns, the one log in the hands of the worker it does not wait
\* for.  About Log, worker, sendLog and Stop.
LossAccounted ==
    CASE proc = "killed" -> TRUE
      [] proc = "exited" /\ kind = "plain" -> Cardinality(Unaccounted) =< 1
      [] OTHER -> Unaccounted = {}

\* Each side of the path, for the logs that carry an id, implements the
\* channel of LogChannel: retries, late requests and a response lost on the
\* way make no second row in the Control Tower's tables (the unique
\* constraint), and no second copy in any window of the test agent, not even
\* across a flush (seenLogIds): "a retried delivery can never inflate a count
\* assertion or duplicate an entry in your logs".
Durable == INSTANCE LogChannel WITH
    Logs <- Stamped,
    captured <- captured \cap Stamped,
    copies <- [l \in Stamped |-> rows[l]]

Assertion == INSTANCE LogChannel WITH
    Logs <- Stamped,
    captured <- captured \cap Stamped,
    copies <- [l \in Stamped |-> counted[l]]

StoredOnce == Durable!Spec
CountedOnce == Assertion!Spec

\* Every captured log comes to the end of both of its ways.  The copy that
\* assertions read is delivered, or every attempt made, even if the channel is
\* full or the Control Tower never answers ("a slow CT upload ahead in the queue
\* must never delay the log", services/interceptor/logger.go:209).  A Control
\* Tower that never answers costs the logs their attempts, and no more: the
\* worker gets to every log in the channel.
LogsSettle ==
    []<>(\A l \in captured :
            /\ sender[l].pc = "done" \/ proc \in Gone
            /\ rows[l] > 0 \/ fate[l] # None \/ proc \in Gone)

=============================================================================
