------------------------------ MODULE Telemetry ------------------------------
(***************************************************************************)
(* shared/telemetry/index.ts: what one process reads of its state when it  *)
(* starts, changes in it, and sends.  Events are numbered by the turns of  *)
(* the process, 0 is cli_first_run; what PostHog does with them is left    *)
(* out.  The state is a set of one record, or empty where there is none;   *)
(* other processes may change it.                                          *)
(***************************************************************************)
EXTENDS Integers, Sequences, FiniteSets, SequencesExt

Sole(set) == CHOOSE x \in set : TRUE
NoId == ""
Said(state, otherwise) == IF state = {} THEN otherwise ELSE Sole(state).enabled

\* Of a process: who it is, whether it tracks, where events go, and what became
\* of them; told is whether the notice was printed.
Idle ==
    [state |-> {}, distinctId |-> NoId, enabled |-> FALSE, detached |-> FALSE, client |-> FALSE,
     key |-> FALSE, pending |-> <<>>, captured |-> {}, told |-> FALSE]

trackEvent(p, event) ==
    IF ~p.enabled \/ p.distinctId = NoId THEN p
    ELSE IF p.detached THEN [p EXCEPT !.pending = Append(@, event)]
    ELSE IF p.client THEN [p EXCEPT !.captured = @ \cup {event}] ELSE p

\* How it is started: options of the process, ci for an environment that says
\* so, and configured for one that knows where to send.
Identified(state, options) ==
    LET found == IF state = {} /\ ~options.ci
                 THEN {[distinctId |-> "new", enabled |-> TRUE, firstRunNoticeSeen |-> FALSE]} ELSE state
        first == ~options.ci /\ ~Sole(found).firstRunNoticeSeen
        told == first /\ options.showFirstRunNotice
    IN [first |-> first,
        process |->
            [Idle EXCEPT
             !.distinctId = IF options.ci THEN "ci" ELSE Sole(found).distinctId,
             !.enabled = Said(found, TRUE),
             !.told = told,
             !.state = IF told THEN {[Sole(found) EXCEPT !.firstRunNoticeSeen = TRUE]} ELSE found]]

initTelemetry(state, options) ==
    LET known == Identified(state, options)
        p == known.process
        ready == [p EXCEPT !.key = TRUE, !.detached = options.detachedFlush, !.client = ~options.detachedFlush]
    IN IF ~p.enabled THEN p
       ELSE IF ~options.configured THEN [p EXCEPT !.enabled = FALSE]
       ELSE IF known.first THEN trackEvent(ready, 0) ELSE ready

\* Mutant: what waits to be sent is sent although telemetry was turned off.
setTelemetryKeepPending(p, value) ==
    LET state == IF p.state = {} THEN {[distinctId |-> "new", enabled |-> value, firstRunNoticeSeen |-> TRUE]}
                 ELSE {[Sole(p.state) EXCEPT !.enabled = value]}
    IN [p EXCEPT !.state = state, !.enabled = value, !.client = @ /\ value]

setTelemetryEnabled(p, value) ==
    LET state == IF p.state = {} THEN {[distinctId |-> "new", enabled |-> value, firstRunNoticeSeen |-> TRUE]}
                 ELSE {[Sole(p.state) EXCEPT !.enabled = value]}
        turned == [p EXCEPT !.state = state, !.enabled = value]
    IN IF value THEN turned ELSE [turned EXCEPT !.pending = <<>>, !.client = FALSE]

\* The menu changes what is not so already, and tracks that it did.
isTelemetryEnabled(p) == Said(p.state, TRUE)
editTelemetry(p, value, event) ==
    IF value = isTelemetryEnabled(p) THEN p ELSE trackEvent(setTelemetryEnabled(p, value), event)

flushDetached(p) ==
    IF p.distinctId = NoId \/ ~p.key THEN [p EXCEPT !.pending = <<>>]
    ELSE [p EXCEPT !.captured = @ \cup Range(p.pending), !.pending = <<>>]

shutdownTelemetry(p) == IF p.detached THEN flushDetached(p) ELSE [p EXCEPT !.client = FALSE]

\* set_config, in another process: it has no id to give to a state that is not there.
set_telemetry(p, value) ==
    [p EXCEPT !.state =
        {[distinctId |-> IF @ = {} THEN NoId ELSE Sole(@).distinctId, enabled |-> value,
          firstRunNoticeSeen |-> IF @ = {} THEN TRUE ELSE Sole(@).firstRunNoticeSeen]}]

-----------------------------------------------------------------------------
\* What a process does, in its turn: it tracks an event, which is the number of
\* its turn, turns telemetry on or off, ends, or has it changed behind its back.
Turn(p, act, at) ==
    CASE act = "track" -> trackEvent(p, at)
      [] act \in {"on", "off"} -> editTelemetry(p, act = "on", at)
      [] act \in {"on elsewhere", "off elsewhere"} -> set_telemetry(p, act = "on elsewhere")
      [] act = "end" -> shutdownTelemetry(p)

Life(state, options, acts) ==
    FoldLeft(LAMBDA p, at : Turn(p, acts[at], at), initTelemetry(state, options), [i \in 1..Len(acts) |-> i])

-----------------------------------------------------------------------------
(* Properties.                                                             *)

\* No process sends what it tracked after it was turned off, by a menu of its own
\* or before it started; nor what was not yet under way when it was.  That another
\* process turns it off it does not notice, nor then that it is to do so itself.
OptOutIsKept(state, options, acts) ==
    \A at \in 1..Len(acts) : at \in Life(state, options, acts).captured =>
        /\ state # {} => Sole(state).enabled
        /\ \A off \in 1..at : acts[off] = "off" =>
            \/ \E on \in off..at : acts[on] = "on"
            \/ \E other \in 1..off : acts[other] = "off elsewhere"
        /\ options.detachedFlush =>
            \E end \in at..Len(acts) : acts[end] = "end" /\
                (\A b \in at..end : acts[b] # "off" \/ \E other \in 1..b : acts[other] = "off elsewhere")

\* Who is asked for notice is given it before anything is sent; the notice is
\* given once, and an id, once there is one, is kept.
NoticeFirst(state, options, acts) ==
    LET p == Life(state, options, acts)
        again == initTelemetry(p.state, options)
    IN /\ p.captured # {} /\ ~options.ci /\ options.showFirstRunNotice => Sole(p.state).firstRunNoticeSeen
       /\ p.told => ~again.told
       /\ state # {} => Sole(p.state).distinctId = Sole(state).distinctId

=============================================================================
