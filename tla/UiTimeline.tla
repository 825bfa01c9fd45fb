----------------------------- MODULE UiTimeline -----------------------------
(***************************************************************************)
(* The sub-steps a test agent performs for the UI actions of a test, the   *)
(* calls that services make meanwhile, and the timeline that the Control   *)
(* Tower makes of the events and the logs of both, by their times alone.   *)
(*                                                                         *)
(* An action is [step, subs, goesOn]: the index of its step, the sizes of  *)
(* its entries ([turns, size], turns = 0 for a plain sub-step), and if the *)
(* loop around it goes on after a failure.  A loop is as many actions of   *)
(* the same step.  Time is in milliseconds; what comes after the last       *)
(* sub-step is on no timeline.                                             *)
(***************************************************************************)
EXTENDS Integers, Sequences, FiniteSets, TLC, SequencesExt

CONSTANTS Actions, CallKinds, MaxTime, MaxCalls

VARIABLES
    program,  \* the actions of the test
    order,    \* their sub-steps, in the order in which they are performed
    next,     \* the sub-step that is next, or that is performed
    doing,    \* it is performed
    ended,    \* the test is over
    now,
    events,   \* the events of sub-steps, as the Control Tower has them
    calls     \* the calls between services; done ones are logged

vars == <<program, order, next, doing, ended, now, events, calls>>

-----------------------------------------------------------------------------
(* UIStepExecutor: Execute and runSubStepGroup.                            *)

\* The index by which events and artifacts tell the sub-steps of an action:
\* that of the entry, or for one in a group a number made of three.
PlainIndex(i, turn, j) == i - 1
SubStepIndex(i, turn, j) == (i - 1) * 100000000 + turn * 10000 + (j - 1)

IndexesOf(i, entry) ==
    IF entry.turns = 0 THEN << PlainIndex(i, 0, 0) >>
    ELSE FlattenSeq([turn \in 1..entry.turns |->
            [j \in 1..entry.size |-> SubStepIndex(i, turn - 1, j)]])

OrderOf(prog) ==
    FlattenSeq([a \in DOMAIN prog |->
        LET subs == prog[a].subs
            indexes == FlattenSeq([i \in DOMAIN subs |-> IndexesOf(i, subs[i])])
        IN [k \in DOMAIN indexes |-> [action |-> a, key |-> <<prog[a].step, indexes[k]>>]]])

Event(type) == [type |-> type, key |-> order[next].key, sub |-> next, at |-> now]

Init ==
    /\ program \in Actions /\ order = OrderOf(program)
    /\ next = 1 /\ doing = FALSE /\ ended = FALSE
    /\ now = 1 /\ events = <<>> /\ calls = <<>>

StartSubStep ==
    /\ ~doing /\ ~ended /\ next \in DOMAIN order
    /\ doing' = TRUE
    /\ events' = Append(events, Event("started"))
    /\ UNCHANGED <<program, order, next, ended, now, calls>>

\* What follows a failure: the next turn of a loop that goes on, or nothing.
AfterFailure ==
    LET later == {k \in DOMAIN order : order[k].action > order[next].action}
    IN IF program[order[next].action].goesOn /\ later # {}
       THEN CHOOSE k \in later : \A l \in later : k <= l
       ELSE Len(order) + 1

CompleteSubStep(type) ==
    /\ doing
    /\ doing' = FALSE
    /\ events' = Append(events, Event(type))
    /\ next' = IF type = "failed" THEN AfterFailure ELSE next + 1
    /\ ended' = (next' > Len(order))
    /\ UNCHANGED <<program, order, now, calls>>

-----------------------------------------------------------------------------
(* The services, the interceptors and the proxies of databases.            *)

BeginCall(kind) ==
    /\ ~ended /\ Len(calls) < MaxCalls /\ kind.kind = "http"
    /\ calls' = Append(calls, kind @@ [start |-> now, end |-> 0])
    /\ UNCHANGED <<program, order, next, doing, ended, now, events>>

\* A call is logged when it is over, with the times it began and ended at, and
\* so it is if it failed.
EndCall(c) ==
    /\ ~ended /\ calls[c].end = 0
    /\ calls' = [calls EXCEPT ![c].end = now]
    /\ UNCHANGED <<program, order, next, doing, ended, now, events>>

\* That of a query has the time it was answered at, and no other.
LogQuery(kind) ==
    /\ ~ended /\ Len(calls) < MaxCalls /\ kind.kind = "db"
    /\ calls' = Append(calls, kind @@ [start |-> now, end |-> now])
    /\ UNCHANGED <<program, order, next, doing, ended, now, events>>

Tick ==
    /\ ~ended /\ now < MaxTime /\ now' = now + 1
    /\ UNCHANGED <<program, order, next, doing, ended, events, calls>>

Next ==
    \/ StartSubStep
    \/ \E type \in {"completed", "failed"} : CompleteSubStep(type)
    \/ \E kind \in CallKinds : BeginCall(kind) \/ LogQuery(kind)
    \/ \E c \in DOMAIN calls : EndCall(c)
    \/ Tick

Spec == Init /\ [][Next]_vars

-----------------------------------------------------------------------------
(* UiTimelineService.                                                      *)

Started == SelectSeq(events, LAMBDA e : e.type = "started")
Ended == {i \in DOMAIN events : events[i].type # "started"}

EndsOf(e) == {i \in Ended : events[i].key = e.key}

FirstEnd(e) == CHOOSE i \in EndsOf(e) : \A j \in EndsOf(e) : i <= j

\* Of the ends with the key of a start the last one counts, whosever it is.
LastEnd(e) == CHOOSE i \in EndsOf(e) : \A j \in EndsOf(e) : j <= i
completedBy(e) == IF EndsOf(e) = {} THEN <<>> ELSE << events[LastEnd(e)] >>

Status(e) ==
    IF completedBy(e) = <<>> THEN "in-progress"
    ELSE IF completedBy(e)[1].type = "failed" THEN "failed" ELSE "success"

EndsWithItsSubStep(i) ==
    IF completedBy(Started[i]) = <<>> THEN <<>> ELSE << completedBy(Started[i])[1].at >>

\* A window ends where the next begins, and the last with its sub-step; while
\* that goes on it has no end.
windowEndsAt(i) ==
    IF i < Len(Started) THEN << Started[i + 1].at >>
    ELSE EndsWithItsSubStep(i)

Before(t, end) == end = <<>> \/ t < end[1]

\* The window a time is in, the latest first; 0 if in none.
windowIndexOf(t) ==
    LET starts == Started
        in == {i \in DOMAIN starts : starts[i].at <= t /\ Before(t, windowEndsAt(i))}
    IN IF in = {} THEN 0 ELSE CHOOSE i \in in : \A j \in in : j <= i

\* The logs of the time the windows span, by the times they were written at.
Logs ==
    IF Started = <<>> THEN {}
    ELSE LET first == Started[1].at
             end == windowEndsAt(Len(Started))
             last == IF end = <<>> THEN now ELSE end[1]
         IN {c \in DOMAIN calls : calls[c].end # 0 /\ calls[c].end >= first /\ calls[c].end < last}

StartMs(c) == calls[c].start
Open(c, t) == StartMs(c) <= t /\ t <= calls[c].end

\* The calls that a call may have been made in.
MayContain(p, c) ==
    /\ p # c /\ calls[p].kind = "http" /\ Open(p, StartMs(c))
    /\ calls[c].kind = "http" => calls[c].origin # "" /\ calls[p].target = calls[c].origin

\* The latest of them is its parent, of those the one that ended first; 0 if
\* there is none.
Parent(c) ==
    LET ps == {p \in Logs : MayContain(p, c)}
    IN IF ps = {} THEN 0
       ELSE CHOOSE p \in ps : \A q \in ps :
                \/ StartMs(q) < StartMs(p)
                \/ StartMs(q) = StartMs(p) /\ calls[p].end <= calls[q].end

\* The outermost call that a call is shown in; 0 if they contain each other.
Topmost(c, parent) ==
    LET up[n \in 0..Cardinality(DOMAIN parent)] ==
            IF n = 0 THEN c
            ELSE LET below == up[n - 1] IN IF parent[below] = 0 THEN below ELSE parent[below]
        top == up[Cardinality(DOMAIN parent)]
    IN IF parent[top] = 0 THEN top ELSE 0
Outermost(c) == Topmost(c, [d \in Logs |-> Parent(d)])

\* The entry that shows a call; 0 if none does.
ShownIn(c) == IF Outermost(c) = 0 THEN 0 ELSE windowIndexOf(StartMs(Outermost(c)))

-----------------------------------------------------------------------------
TypeOK ==
    /\ next \in 1..(Len(order) + 1) /\ now \in 1..MaxTime /\ Len(calls) <= MaxCalls
    /\ \A i \in DOMAIN events : events[i].type \in {"started", "completed", "failed"}

OwnEnd(e) == SelectSeq(events, LAMBDA x : x.sub = e.sub /\ x.type # "started")
Alone(e) == \A j \in DOMAIN Started : Started[j].sub # e.sub => Started[j].key # e.key

\* An entry of the timeline tells what came of its own sub-step, unless another
\* was given the same index; and the failure that came last is shown in any case.
EntriesTell ==
    \A i \in DOMAIN Started :
        LET e == Started[i]
            own == OwnEnd(e)
        IN /\ Alone(e) =>
                Status(e) = (IF own = <<>> THEN "in-progress"
                             ELSE IF own[1].type = "failed" THEN "failed" ELSE "success")
           /\ own # <<>> /\ own[1] = Last(events) /\ own[1].type = "failed" => Status(e) = "failed"

\* An index is given twice only by a group that is the first entry of its
\* action, or by the turns of a loop.
IndexesDiffer ==
    \A i, j \in DOMAIN order :
        i # j /\ order[i].key = order[j].key =>
            \/ order[i].action # order[j].action
            \/ program[order[i].action].subs[1].turns > 0

\* The calls that ended after the first sub-step began, and before the last
\* sub-step ended or, while that goes on, before now.
CallsMeanwhile ==
    {c \in DOMAIN calls :
        /\ calls[c].end # 0 /\ Started # <<>> /\ calls[c].end >= Started[1].at
        /\ calls[c].end < (IF doing THEN now ELSE Last(events).at)}

\* Each of them is shown, in the sub-step that had begun last when the outermost
\* call that it was made in began.  Not so if that was before the first sub-step,
\* if two calls that may each have been made in the other began in the same
\* millisecond, or while the last sub-step has an index that another has too.
CallsShown ==
    LET tied == \E p, q \in DOMAIN calls :
                    p # q /\ StartMs(p) = StartMs(q) /\ MayContain(p, q)
        shown(top, entry) ==
            /\ top # 0
            /\ StartMs(top) >= Started[1].at =>
                /\ entry # 0
                /\ Started[entry].at <= StartMs(top)
                /\ \A j \in DOMAIN Started : j > entry => StartMs(top) < Started[j].at
    IN \A c \in CallsMeanwhile :
        Alone(Last(Started)) => c \in Logs /\ (tied \/ shown(Outermost(c), ShownIn(c)))

TimelineTells == EntriesTell /\ IndexesDiffer /\ CallsShown
=============================================================================
