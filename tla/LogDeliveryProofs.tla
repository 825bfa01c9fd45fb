-------------------------- MODULE LogDeliveryProofs ---------------------------
(***************************************************************************)
(* Proofs about the way of a log: for any logs, any size of the channel,   *)
(* any number of attempts and any answers, both sides of the path deliver  *)
(* a log with an id at most once, and the log that is lost is accounted    *)
(* for.                                                                    *)
(***************************************************************************)
EXTENDS LogDelivery, FiniteSetTheorems, TLAPS

USE DEF vars, sidecarVars, agentVars

-----------------------------------------------------------------------------
(* The inductive invariant.                                                *)

\* A goroutine holds a log exactly while it waits for an answer.
HoldsOne(st) ==
    IF st.pc = "waiting" THEN st.log \in captured /\ st.attempt # 0 ELSE st.log = None

SendersHold == \A s \in Senders : HoldsOne(sender[s])

\* Nothing is on the wire that was not captured.
WireCaptured == \A r \in wire : r.log \in captured

\* A process that is gone has no goroutines and no channel.
GoneRests == proc \in Gone => queue = <<>> /\ \A s \in Senders : sender[s] = Resting("done")

\* The worker stays until it is told to stop.
WorkerStays == proc = "up" => sender["worker"].pc # "done"

\* Where the worker drains, it leaves nothing behind but what came too late,
\* and nobody else takes from the channel.
WorkerDrains ==
    kind = "message" =>
        /\ sender["stopper"].pc # "waiting"
        /\ sender["worker"].pc = "done" /\ proc \notin Gone => Queued \subseteq late

\* The test agent has counted the copies whose ids it has seen, and those only.
SeenIsCounted == \A l \in Stamped : counted[l] = 0 <=> l \notin seen

\* What LossAccounted says, and more of it: the one log that a plain logger may
\* lose without a reason is lost when it exits.
LossKnown ==
    /\ proc \notin Gone => Unaccounted = {}
    /\ proc = "exited" /\ kind = "message" => Unaccounted = {}
    /\ proc = "exited" => \A k, l \in Unaccounted : k = l

IInv ==
    /\ TypeOK
    /\ SendersHold
    /\ WireCaptured
    /\ GoneRests
    /\ WorkerStays
    /\ WorkerDrains
    /\ SeenIsCounted
    /\ LossKnown

-----------------------------------------------------------------------------
(* The channel and the goroutines.                                         *)

Items(q) == {q[i] : i \in DOMAIN q}

\* What is put into the channel is in it, behind the others.
LEMMA AppendItems ==
  ASSUME NEW S, NEW q \in Seq(S), NEW l
  PROVE  Items(Append(q, l)) = Items(q) \cup {l}
  <1>1. \A i \in 1..(Len(q) + 1) : Append(q, l)[i] = IF i =< Len(q) THEN q[i] ELSE l
    OBVIOUS
  <1>2. DOMAIN q = 1..Len(q) /\ DOMAIN Append(q, l) = 1..(Len(q) + 1) /\ Len(q) \in Nat
    OBVIOUS
  <1>3. Items(Append(q, l)) \subseteq Items(q) \cup {l}
    BY <1>1, <1>2 DEF Items
  <1>4. Items(q) \subseteq Items(Append(q, l))
    <2> SUFFICES ASSUME NEW i \in 1..Len(q)
                 PROVE  q[i] \in Items(Append(q, l))
      BY <1>2 DEF Items
    <2>1. i \in 1..(Len(q) + 1) /\ Append(q, l)[i] = q[i]
      BY <1>1, <1>2
    <2> QED BY <2>1, <1>2 DEF Items
  <1>5. l \in Items(Append(q, l))
    <2>1. Len(q) + 1 \in 1..(Len(q) + 1) /\ Append(q, l)[Len(q) + 1] = l
      BY <1>1, <1>2
    <2> QED BY <2>1, <1>2 DEF Items
  <1> QED BY <1>3, <1>4, <1>5

\* What is taken from the channel was in it, and the others stay.
LEMMA TakeItems ==
  ASSUME NEW S, NEW q \in Seq(S), q # <<>>
  PROVE  /\ Head(q) \in S /\ Tail(q) \in Seq(S) /\ Len(Tail(q)) =< Len(q)
         /\ Items(q) \subseteq Items(Tail(q)) \cup {Head(q)}
         /\ Items(Tail(q)) \subseteq Items(q)
  <1>1. Len(q) \in Nat /\ Len(q) >= 1 /\ DOMAIN q = 1..Len(q)
    OBVIOUS
  <1>2. Len(Tail(q)) = Len(q) - 1 /\ DOMAIN Tail(q) = 1..(Len(q) - 1) /\ Head(q) = q[1]
        /\ Tail(q) \in Seq(S) /\ Head(q) \in S
    BY <1>1
  <1>3. \A i \in 1..(Len(q) - 1) : Tail(q)[i] = q[i + 1]
    BY <1>1
  <1>4. Items(q) \subseteq Items(Tail(q)) \cup {Head(q)}
    <2> SUFFICES ASSUME NEW i \in 1..Len(q), i # 1
                 PROVE  q[i] \in Items(Tail(q))
      BY <1>1, <1>2 DEF Items
    <2>1. i - 1 \in 1..(Len(q) - 1) /\ Tail(q)[i - 1] = q[i]
      BY <1>1, <1>3
    <2> QED BY <2>1, <1>2 DEF Items
  <1>5. Items(Tail(q)) \subseteq Items(q)
    <2> SUFFICES ASSUME NEW i \in 1..(Len(q) - 1)
                 PROVE  Tail(q)[i] \in Items(q)
      BY <1>2 DEF Items
    <2>1. i + 1 \in 1..Len(q) /\ Tail(q)[i] = q[i + 1]
      BY <1>1, <1>3
    <2> QED BY <2>1, <1>1 DEF Items
  <1> QED BY <1>1, <1>2, <1>4, <1>5

Fates == {None, "dropped", "rejected", "skipped", "gaveUp", "abandoned"}

\* The types of what a post changes.
PostTypes ==
    /\ sender \in [Senders -> SenderState]
    /\ fate \in [Logs -> Fates]
    /\ wire \subseteq Request

\* What becomes of goroutine s, of its log's fate and of the wire when the
\* client of s gets its answer or stops waiting for one: it tries again, or it
\* goes on, and then the log of a worker that was not accepted has a fate.
Goes(s, accepted) ==
    /\ PostTypes'
    /\ \A t \in Senders : t # s => sender'[t] = sender[t]
    /\ \/ /\ sender'[s].pc = "waiting" /\ sender'[s].log = sender[s].log
          /\ sender'[s].attempt # 0
          /\ fate' = fate
       \/ /\ sender'[s] = After(s)
          /\ s \in Workers /\ ~accepted => fate'[sender[s].log] # None
    /\ \A l \in Logs : fate'[l] = fate[l] \/ (s \in Workers /\ fate'[l] # None)
    /\ \A r \in wire' : r \in wire \/ r.log = sender[s].log

LEMMA RestingTypes == \A pc \in {"idle", "waiting", "done"} : Resting(pc) \in SenderState
  BY LogDeliveryAssumption DEF Resting, SenderState

\* A log's fate has a name.
LEMMA SettleTypes ==
  ASSUME PostTypes, NEW s \in Senders, sender[s].log \in Logs, NEW why \in Fates \ {None}, Settle(s, why)
  PROVE  /\ fate' \in [Logs -> Fates]
         /\ s \in Workers => fate'[sender[s].log] = why
         /\ \A l \in Logs : fate'[l] = fate[l] \/ (s \in Workers /\ fate'[l] # None)
  <1>1. CASE s \in Logs
    <2>1. s \notin Workers
      BY <1>1, LogDeliveryAssumption
    <2> QED BY <1>1, <2>1 DEF Settle, PostTypes
  <1>2. CASE s \notin Logs
    <2>1. s \in Workers
      BY <1>2 DEF Senders
    <2> QED BY <1>2, <2>1 DEF Settle, PostTypes
  <1> QED BY <1>1, <1>2

\* One more attempt, or the log is given up.
LEMMA RetryGoes ==
  ASSUME PostTypes, NEW s \in Senders, sender[s].pc = "waiting", sender[s].log \in Logs,
         sender[s].attempt # 0, NEW w \in SUBSET wire, Retry(s, w)
  PROVE  Goes(s, FALSE)
  <1> DEFINE l == sender[s].log
             a == sender[s].attempt + 1
  <1>1. sender[s].attempt \in 0..MaxAttempts /\ MaxAttempts \in Nat
    BY LogDeliveryAssumption DEF PostTypes, SenderState
  <1>2. CASE sender[s].attempt < MaxAttempts
    <2>1. a \in 1..MaxAttempts
      BY <1>1, <1>2
    <2>2. sender' = [sender EXCEPT ![s] = [pc |-> "waiting", log |-> l, attempt |-> a]]
          /\ wire' = w \cup {Req(s, l, a)} /\ fate' = fate
      BY <1>2 DEF Retry, Attempt
    <2> HIDE DEF a, l
    <2>3. [pc |-> "waiting", log |-> l, attempt |-> a] \in SenderState
      BY <2>1 DEF SenderState, l
    <2>4. Req(s, l, a) \in Request /\ Req(s, l, a).log = l
      BY <2>1 DEF Req, Request, Dest, l
    <2>5. PostTypes'
      BY <2>2, <2>3, <2>4 DEF PostTypes
    <2>6. /\ sender'[s] = [pc |-> "waiting", log |-> l, attempt |-> a]
          /\ \A t \in Senders : t # s => sender'[t] = sender[t]
      BY <2>2 DEF PostTypes
    <2> QED BY <2>1, <2>2, <2>4, <2>5, <2>6 DEF Goes, l
  <1>3. CASE ~(sender[s].attempt < MaxAttempts)
    <2>1. sender' = [sender EXCEPT ![s] = After(s)] /\ wire' = w /\ Settle(s, "gaveUp")
      BY <1>3 DEF Retry
    <2>2. "gaveUp" \in Fates \ {None} /\ After(s) \in SenderState
      BY RestingTypes DEF Fates, None, After
    <2>3. /\ fate' \in [Logs -> Fates]
          /\ s \in Workers => fate'[sender[s].log] = "gaveUp"
          /\ \A k \in Logs : fate'[k] = fate[k] \/ (s \in Workers /\ fate'[k] # None)
      BY <2>1, <2>2, SettleTypes
    <2> QED BY <2>1, <2>2, <2>3 DEF Goes, PostTypes
  <1> QED BY <1>2, <1>3

\* The client gets its answer.
LEMMA FinishGoes ==
  ASSUME PostTypes, NEW s \in Senders, sender[s].log \in Logs, NEW w \in SUBSET wire,
         NEW code \in {"2xx", "4xx", "skip"}, Finish(s, code, w)
  PROVE  Goes(s, code = "2xx")
  <1>1. sender' = [sender EXCEPT ![s] = After(s)] /\ wire' = w
    BY DEF Finish
  <1>2. After(s) \in SenderState
    BY RestingTypes DEF After
  <1>3. CASE code = "2xx"
    BY <1>1, <1>2, <1>3 DEF Finish, Goes, PostTypes
  <1>4. CASE code # "2xx"
    <2>1. PICK why \in Fates \ {None} : Settle(s, why)
      BY <1>4 DEF Finish, Fates, None
    <2>2. /\ fate' \in [Logs -> Fates]
          /\ s \in Workers => fate'[sender[s].log] = why
          /\ \A k \in Logs : fate'[k] = fate[k] \/ (s \in Workers /\ fate'[k] # None)
      BY <2>1, SettleTypes
    <2> QED BY <1>1, <1>2, <1>4, <2>2 DEF Goes, PostTypes
  <1> QED BY <1>3, <1>4

\* A request that is handled leaves the wire, and the client that still waits
\* for it, if there is one, goes on.
LEMMA AnswerGoes ==
  ASSUME PostTypes, SendersHold, captured \subseteq Logs, NEW r \in wire,
         NEW code \in {"2xx", "4xx", "skip", "5xx"}, Answer(r, code)
  PROVE  \/ UNCHANGED <<sender, fate>> /\ wire' \in SUBSET wire
         \/ \E s \in Senders :
              /\ proc \notin Gone /\ sender[s].pc = "waiting"
              /\ r.log = sender[s].log /\ r.to = Dest(s)
              /\ Goes(s, code = "2xx")
  <1>1. CASE wire' = wire \ {r} /\ UNCHANGED <<sender, fate>>
    BY <1>1
  <1>2. ASSUME NEW s \in Senders, Waits(s, r),
               IF code = "5xx" THEN Retry(s, wire \ {r}) ELSE Finish(s, code, wire \ {r})
        PROVE  /\ proc \notin Gone /\ sender[s].pc = "waiting"
               /\ r.log = sender[s].log /\ r.to = Dest(s)
               /\ Goes(s, code = "2xx")
    <2>1. proc \notin Gone /\ sender[s].pc = "waiting" /\ r.log = sender[s].log /\ r.to = Dest(s)
      BY <1>2 DEF Waits, Req
    <2>2. sender[s].log \in Logs /\ sender[s].attempt # 0
      BY <2>1 DEF SendersHold, HoldsOne
    <2>3. wire \ {r} \in SUBSET wire
      OBVIOUS
    <2>4. CASE code = "5xx"
      <3>1. Goes(s, FALSE)
        BY <1>2, <2>1, <2>2, <2>3, <2>4, RetryGoes
      <3> QED BY <2>1, <2>4, <3>1 DEF Goes
    <2>5. CASE code # "5xx"
      BY <1>2, <2>1, <2>2, <2>3, <2>5, FinishGoes
    <2> QED BY <2>1, <2>4, <2>5
  <1> QED BY <1>1, <1>2 DEF Answer

-----------------------------------------------------------------------------
(* What does not depend on the rows and counts: one lemma for a client     *)
(* that goes on, one for all the others.                                   *)

OwnTypes ==
    /\ kind \in Kinds
    /\ proc \in {"up", "stopping"} \cup Gone
    /\ captured \subseteq Logs
    /\ late \subseteq captured
    /\ queue \in Seq(captured)
    /\ Len(queue) =< QueueSize

ReaderTypes ==
    /\ rows \in [Logs -> Nat]
    /\ counted \in [Logs -> Nat]
    /\ seen \subseteq Stamped

LEMMA TypesAre == TypeOK <=> OwnTypes /\ PostTypes /\ ReaderTypes
  BY DEF TypeOK, OwnTypes, PostTypes, ReaderTypes, Fates

SidecarInv ==
    /\ OwnTypes /\ PostTypes
    /\ SendersHold /\ WireCaptured /\ GoneRests /\ WorkerStays /\ WorkerDrains

\* No row disappears.
RowsStay == \A l \in Logs : rows'[l] = 0 => rows[l] = 0

LEMMA GoesKeeps ==
  ASSUME SidecarInv, NEW s \in Senders, proc \notin Gone, sender[s].pc = "waiting",
         NEW accepted, Goes(s, accepted), UNCHANGED <<kind, proc, captured, late, queue>>
  PROVE  SidecarInv'
  <1>0. /\ sender[s].log \in captured
        /\ After(s).pc # "waiting" /\ After(s).log = None
        /\ s \in Workers => After(s).pc = "idle"
    BY LogDeliveryAssumption DEF SidecarInv, SendersHold, HoldsOne, After, Resting
  <1>n. /\ \A t \in Senders : t # s => sender'[t] = sender[t]
        /\ \/ sender'[s].pc = "waiting" /\ sender'[s].log = sender[s].log /\ sender'[s].attempt # 0
           \/ sender'[s].pc = After(s).pc /\ sender'[s].log = None
        /\ \A r \in wire' : r \in wire \/ r.log = sender[s].log
    BY <1>0 DEF Goes
  <1>1. OwnTypes' /\ PostTypes'
    BY DEF SidecarInv, OwnTypes, Goes
  <1>2. SendersHold'
    <2> SUFFICES ASSUME NEW t \in Senders PROVE HoldsOne(sender[t])'
      BY DEF SendersHold
    <2>1. HoldsOne(sender[t])
      BY DEF SidecarInv, SendersHold
    <2>2. CASE t # s
      BY <1>n, <2>1, <2>2 DEF HoldsOne
    <2>3. CASE t = s
      BY <1>0, <1>n, <2>1, <2>3 DEF HoldsOne
    <2> QED BY <2>2, <2>3
  <1>3. WireCaptured'
    BY <1>0, <1>n DEF SidecarInv, WireCaptured
  <1>4. GoneRests'
    BY DEF GoneRests
  <1>5. WorkerStays'
    <2>1. sender'["worker"].pc = "done" => sender["worker"].pc = "done"
      BY <1>0, <1>n DEF Senders, Workers
    <2> QED BY <2>1 DEF SidecarInv, WorkerStays
  <1>6. WorkerDrains'
    <2>1. /\ sender'["worker"].pc = "done" => sender["worker"].pc = "done"
          /\ sender'["stopper"].pc = "waiting" => sender["stopper"].pc = "waiting"
      BY <1>0, <1>n DEF Senders, Workers
    <2> QED BY <2>1 DEF SidecarInv, WorkerDrains, Queued
  <1> QED BY <1>1, <1>2, <1>3, <1>4, <1>5, <1>6 DEF SidecarInv

LEMMA QuietKeeps ==
  ASSUME SidecarInv, UNCHANGED <<sidecarVars, sender>>, wire' \in SUBSET wire
  PROVE  SidecarInv'
  BY DEF SidecarInv, OwnTypes, PostTypes, SendersHold, HoldsOne, WireCaptured, GoneRests, WorkerStays,
         WorkerDrains, Queued

\* A client that goes on leaves no log unaccounted for.
LEMMA GoesAccounts ==
  ASSUME SidecarInv, Unaccounted = {}, NEW s \in Senders, sender[s].pc = "waiting",
         NEW accepted \in BOOLEAN, Goes(s, accepted), UNCHANGED <<captured, late, queue>>, RowsStay,
         accepted /\ s \in Workers => rows'[sender[s].log] # 0
  PROVE  Unaccounted' = {}
  <1> SUFFICES ASSUME NEW l \in captured, l \notin late, rows'[l] = 0, fate'[l] = None,
                      l \notin Queued, l \notin Held'
               PROVE  FALSE
    BY DEF Unaccounted, Queued
  <1>0. l \in Logs /\ l # None
    BY LogDeliveryAssumption DEF SidecarInv, OwnTypes
  <1>1. rows[l] = 0 /\ fate[l] = None
    BY <1>0 DEF RowsStay, Goes
  <1>2. l \in Held
    BY <1>1 DEF Unaccounted
  <1>3. PICK t \in Workers : sender[t].log = l
    BY <1>2 DEF Held
  <1>4. t = s
    BY <1>0, <1>3 DEF Held, Goes, Senders
  <1>5. sender'[s] = After(s) /\ fate'[l] # None
    BY <1>0, <1>3, <1>4 DEF Held, Goes
  <1> QED BY <1>5

LEMMA QuietAccounts ==
  ASSUME UNCHANGED <<captured, late, queue, sender, fate>>, RowsStay, captured \subseteq Logs
  PROVE  \A l \in Unaccounted' : l \in Unaccounted
  BY DEF Unaccounted, Queued, Held, RowsStay

-----------------------------------------------------------------------------
(* The readers.                                                            *)

\* What the Control Tower does with a request.
LEMMA RowsOfCT ==
  ASSUME ReaderTypes, NEW r \in wire, r.log \in Logs, HandleByCT(r)
  PROVE  \E code \in {"2xx", "4xx", "skip", "5xx"} :
           /\ Answer(r, code)
           /\ code = "2xx" => rows'[r.log] # 0
           /\ rows' \in [Logs -> Nat] /\ RowsStay
           /\ \A l \in Stamped : rows'[l] = rows[l] \/ (l = r.log /\ rows[l] = 0 /\ rows'[l] = 1)
  <1>1. CASE Store(r)
    <2>1. Answer(r, "2xx") /\ StoreRow(r.log)
      BY <1>1 DEF Store
    <2>2. \/ rows' = rows /\ rows[r.log] > 0
          \/ rows' = [rows EXCEPT ![r.log] = @ + 1] /\ ~(r.log \in Stamped /\ rows[r.log] > 0)
      BY <2>1 DEF StoreRow
    <2>3. \A l \in Logs : rows[l] \in Nat
      BY DEF ReaderTypes
    <2>4. Stamped \subseteq Logs
      BY LogDeliveryAssumption
    <2> QED BY <2>1, <2>2, <2>3, <2>4 DEF RowsStay, ReaderTypes
  <1>2. CASE Reject(r)
    BY <1>2 DEF Reject, RowsStay, ReaderTypes
  <1>3. CASE Skip(r)
    BY <1>3 DEF Skip, RowsStay, ReaderTypes
  <1>4. CASE StoreFails(r)
    BY <1>4 DEF StoreFails, RowsStay, ReaderTypes
  <1> QED BY <1>1, <1>2, <1>3, <1>4 DEF HandleByCT

\* What the test agent does with one.
LEMMA CountsOfAgent ==
  ASSUME ReaderTypes, SeenIsCounted, NEW r \in wire, r.log \in Logs, HandleByAgent(r)
  PROVE  /\ counted' \in [Logs -> Nat] /\ seen' \subseteq Stamped
         /\ SeenIsCounted'
         /\ \A l \in Stamped :
              counted'[l] = counted[l] \/ (l = r.log /\ counted[l] = 0 /\ counted'[l] = 1)
  <1>1. AddLog(r.log)
    BY DEF HandleByAgent
  <1>2. CASE r.log \in seen
    BY <1>1, <1>2 DEF AddLog, IsDuplicate, ReaderTypes, SeenIsCounted
  <1>3. CASE r.log \notin seen
    <2>1. seen' = seen \cup ({r.log} \cap Stamped) /\ counted' = [counted EXCEPT ![r.log] = @ + 1]
      BY <1>1, <1>3 DEF AddLog, IsDuplicate
    <2>2. Stamped \subseteq Logs /\ \A l \in Logs : counted[l] \in Nat
      BY LogDeliveryAssumption DEF ReaderTypes
    <2>3. \A l \in Logs : counted'[l] = IF l = r.log THEN counted[l] + 1 ELSE counted[l]
      BY <2>1 DEF ReaderTypes
    <2>4. \A l \in Stamped : counted[l] = 0 <=> l \notin seen
      BY DEF SeenIsCounted
    <2>5. SeenIsCounted'
      BY <2>1, <2>2, <2>3, <2>4 DEF SeenIsCounted
    <2>6. \A l \in Stamped : l = r.log => counted[l] = 0
      BY <1>3, <2>4
    <2>7. counted' \in [Logs -> Nat] /\ seen' \subseteq Stamped
      BY <2>1, <2>2 DEF ReaderTypes
    <2> QED BY <2>2, <2>3, <2>5, <2>6, <2>7
  <1> QED BY <1>2, <1>3

-----------------------------------------------------------------------------
(* Every step preserves the invariant: one lemma per kind of step.         *)

LEMMA InvIs == IInv <=> SidecarInv /\ ReaderTypes /\ SeenIsCounted /\ LossKnown
  BY TypesAre DEF IInv, SidecarInv

LEMMA InvInit == Init => IInv
  <1> SUFFICES ASSUME Init PROVE IInv
    OBVIOUS
  <1>1. OwnTypes /\ ReaderTypes /\ SeenIsCounted
    BY LogDeliveryAssumption DEF Init, OwnTypes, ReaderTypes, SeenIsCounted
  <1>2. PostTypes
    BY RestingTypes DEF Init, PostTypes, Fates
  <1>3. SendersHold /\ WireCaptured /\ GoneRests /\ WorkerStays /\ WorkerDrains
    BY DEF Init, SendersHold, HoldsOne, WireCaptured, GoneRests, Gone, WorkerStays, WorkerDrains, Resting,
           Senders, Workers
  <1>4. LossKnown
    BY DEF Init, LossKnown, Unaccounted
  <1> QED BY <1>1, <1>2, <1>3, <1>4, InvIs DEF SidecarInv

\* A captured log is in the channel, or dropped.
LEMMA CaptureStep ==
  ASSUME SidecarInv, LossKnown, NEW l \in Logs, Capture(l)
  PROVE  SidecarInv' /\ LossKnown'
  <1> DEFINE q == Append(queue, l)
             req == Req(l, l, 1)
             st == [pc |-> "waiting", log |-> l, attempt |-> 1]
  <1>0. /\ proc \notin Gone /\ proc' = proc /\ kind' = kind
        /\ proc = "up" => late' = late
        /\ proc = "stopping" => late' = late \cup {l}
        /\ l \notin captured /\ captured' = captured \cup {l}
        /\ sender' = [sender EXCEPT ![l] = st] /\ wire' = wire \cup {req}
        /\ UNCHANGED <<rows, agentVars>>
    BY DEF Capture, StartCopy, Attempt, Gone
  <1>1. MaxAttempts \in Nat /\ 1 =< MaxAttempts /\ QueueSize \in Nat /\ l \in Senders /\ l \notin Workers
    BY LogDeliveryAssumption DEF Senders
  <1>2. queue \in Seq(captured) /\ queue \in Seq(captured') /\ Len(queue) \in Nat
    BY <1>0 DEF SidecarInv, OwnTypes
  <1>3. \/ queue' = queue /\ fate' = [fate EXCEPT ![l] = "dropped"]
        \/ queue' = q /\ fate' = fate /\ Len(queue) < QueueSize
    BY <1>1, <1>2 DEF Capture, Enqueue, Full
  <1>4. q \in Seq(captured') /\ Len(q) = Len(queue) + 1
    BY <1>0, <1>2
  <1>5. Items(q) = Items(queue) \cup {l}
    BY <1>2, AppendItems
  <1>6. Queued' = Items(queue') /\ Queued = Items(queue)
    BY DEF Queued, Items
  <1>7. st \in SenderState /\ req \in Request /\ req.log = l
    BY <1>1 DEF SenderState, Request, Req, Dest
  <1> HIDE DEF q, req
  <1>8. OwnTypes' /\ PostTypes'
    <2>1. OwnTypes'
      BY <1>0, <1>1, <1>2, <1>3, <1>4 DEF SidecarInv, OwnTypes, Gone
    <2>2. PostTypes'
      BY <1>0, <1>3, <1>7 DEF SidecarInv, PostTypes, Fates
    <2> QED BY <2>1, <2>2
  <1>9. sender'[l] = st /\ \A t \in Senders : t # l => sender'[t] = sender[t]
    BY <1>0, <1>1 DEF SidecarInv, PostTypes
  <1>10. SendersHold'
    BY <1>0, <1>9 DEF SidecarInv, SendersHold, HoldsOne
  <1>11. WireCaptured' /\ GoneRests'
    BY <1>0, <1>7 DEF SidecarInv, WireCaptured, GoneRests
  <1>12. sender'["worker"] = sender["worker"] /\ sender'["stopper"] = sender["stopper"]
    BY <1>1, <1>9 DEF Senders, Workers
  <1>13. WorkerStays' /\ WorkerDrains'
    BY <1>0, <1>3, <1>5, <1>6, <1>12 DEF SidecarInv, OwnTypes, WorkerStays, WorkerDrains, Gone
  <1>14. Unaccounted' = {}
    <2>1. Held' = Held
      BY <1>12 DEF Held, Workers
    <2>2. fate'[l] # None \/ l \in Queued'
      BY <1>3, <1>5, <1>6 DEF SidecarInv, PostTypes, None
    <2>3. \A k \in Logs : k # l => fate'[k] = fate[k]
      BY <1>3 DEF SidecarInv, PostTypes
    <2>4. Queued \subseteq Queued' /\ captured \subseteq Logs /\ late \subseteq late'
      BY <1>0, <1>3, <1>5, <1>6 DEF SidecarInv, OwnTypes, Gone
    <2>5. Unaccounted = {}
      BY <1>0 DEF LossKnown
    <2> QED BY <1>0, <2>1, <2>2, <2>3, <2>4, <2>5 DEF Unaccounted
  <1>15. LossKnown'
    BY <1>0, <1>14 DEF LossKnown, Gone
  <1> QED BY <1>8, <1>10, <1>11, <1>13, <1>15 DEF SidecarInv

\* A log that leaves the channel is in the hands of who took it.
LEMMA TakeStep ==
  ASSUME SidecarInv, LossKnown, NEW s \in Workers, Take(s)
  PROVE  SidecarInv' /\ LossKnown'
  <1> DEFINE l == Head(queue)
             q == Tail(queue)
             req == Req(s, l, 1)
             st == [pc |-> "waiting", log |-> l, attempt |-> 1]
  <1>0. /\ proc \notin Gone /\ Receives(s) /\ sender[s].pc = "idle" /\ queue # <<>> /\ queue' = q
        /\ sender' = [sender EXCEPT ![s] = st] /\ wire' = wire \cup {req}
        /\ UNCHANGED <<kind, proc, captured, late, fate, rows, agentVars>>
    BY DEF Take, Attempt
  <1>1. MaxAttempts \in Nat /\ 1 =< MaxAttempts /\ QueueSize \in Nat /\ s \in Senders
    BY LogDeliveryAssumption DEF Senders
  <1>2. queue \in Seq(captured) /\ captured \subseteq Logs /\ Len(queue) \in Nat /\ Len(queue) =< QueueSize
    BY DEF SidecarInv, OwnTypes
  <1>3. /\ l \in captured /\ q \in Seq(captured) /\ Len(q) =< Len(queue) /\ Len(q) \in Nat
        /\ Items(queue) \subseteq Items(q) \cup {l} /\ Items(q) \subseteq Items(queue)
    BY <1>0, <1>2, TakeItems
  <1>4. Queued' = Items(q) /\ Queued = Items(queue)
    BY <1>0 DEF Queued, Items
  <1> HIDE DEF l, q
  <1>5. st \in SenderState /\ req \in Request /\ req.log = l
    BY <1>1, <1>2, <1>3 DEF SenderState, Request, Req, Dest
  <1> HIDE DEF req
  <1>6. OwnTypes'
    BY <1>0, <1>1, <1>2, <1>3 DEF SidecarInv, OwnTypes
  <1>7. PostTypes'
    BY <1>0, <1>5 DEF SidecarInv, PostTypes
  <1>8. sender'[s] = st /\ \A t \in Senders : t # s => sender'[t] = sender[t]
    BY <1>0, <1>1 DEF SidecarInv, PostTypes
  <1>9. SendersHold'
    BY <1>0, <1>3, <1>8 DEF SidecarInv, SendersHold, HoldsOne
  <1>10. WireCaptured' /\ GoneRests'
    BY <1>0, <1>3, <1>5 DEF SidecarInv, WireCaptured, GoneRests
  <1>11. WorkerStays'
    BY <1>0, <1>8 DEF SidecarInv, WorkerStays, Workers, Senders
  <1>12. WorkerDrains'
    <2>1. s = "stopper" => kind # "message"
      BY <1>0 DEF Receives
    <2> QED BY <1>0, <1>3, <1>4, <1>8, <2>1 DEF SidecarInv, WorkerDrains, Workers, Senders
  <1>13. LossKnown'
    <2>1. Unaccounted = {}
      BY <1>0 DEF LossKnown
    <2>2. sender[s].log = None
      BY <1>0, <1>1 DEF SidecarInv, SendersHold, HoldsOne
    <2>3. Held \cup {l} \subseteq Held'
      <3>1. l # None
        BY <1>2, <1>3, LogDeliveryAssumption
      <3> QED BY <1>8, <2>2, <3>1 DEF Held, Senders
    <2>4. Queued \cup Held \subseteq Queued' \cup Held'
      BY <1>3, <1>4, <2>3
    <2>5. Unaccounted' = {}
      BY <1>0, <2>1, <2>4 DEF Unaccounted
    <2> QED BY <1>0, <2>5 DEF LossKnown, Gone
  <1> QED BY <1>6, <1>7, <1>9, <1>10, <1>11, <1>12, <1>13 DEF SidecarInv

\* A client that goes on, whatever for, and rows and counts that only grow.
LEMMA ClientStep ==
  ASSUME SidecarInv, LossKnown, UNCHANGED sidecarVars \/ UNCHANGED <<kind, proc, captured, late, queue>>,
         RowsStay,
         \/ UNCHANGED <<sender, fate>> /\ wire' \in SUBSET wire
         \/ \E s \in Senders, accepted \in BOOLEAN :
              /\ proc \notin Gone /\ sender[s].pc = "waiting" /\ Goes(s, accepted)
              /\ accepted /\ s \in Workers => rows'[sender[s].log] # 0
  PROVE  SidecarInv' /\ LossKnown'
  <1>0. UNCHANGED <<kind, proc, captured, late, queue>>
    OBVIOUS
  <1>1. CASE UNCHANGED <<sender, fate>> /\ wire' \in SUBSET wire
    <2>1. SidecarInv'
      BY <1>0, <1>1, QuietKeeps
    <2>2. \A l \in Unaccounted' : l \in Unaccounted
      BY <1>0, <1>1, QuietAccounts DEF SidecarInv, OwnTypes
    <2> QED BY <1>0, <2>1, <2>2 DEF LossKnown
  <1>2. ASSUME NEW s \in Senders, NEW accepted \in BOOLEAN,
               proc \notin Gone, sender[s].pc = "waiting", Goes(s, accepted),
               accepted /\ s \in Workers => rows'[sender[s].log] # 0
        PROVE  SidecarInv' /\ LossKnown'
    <2>1. SidecarInv'
      BY <1>0, <1>2, GoesKeeps
    <2>2. Unaccounted = {}
      BY <1>2 DEF LossKnown
    <2>3. Unaccounted' = {}
      BY <1>0, <1>2, <2>2, GoesAccounts
    <2> QED BY <1>0, <1>2, <2>1, <2>3 DEF LossKnown, Gone
  <1> QED BY <1>1, <1>2

\* Workers write to the Control Tower, the copies' goroutines to the agent.
LEMMA Destinations ==
  /\ \A s \in Senders : Dest(s) = "agent" <=> s \in Logs
  /\ \A s \in Senders : Dest(s) = "ct" <=> s \in Workers
  BY LogDeliveryAssumption DEF Dest, Senders

LEMMA PostStep ==
  ASSUME IInv,
         \/ \E s \in Senders : Timeout(s)
         \/ \E r \in wire : HandleByCT(r) \/ HandleByAgent(r)
  PROVE  IInv'
  <1>0. SidecarInv /\ ReaderTypes /\ SeenIsCounted /\ LossKnown
    BY InvIs
  <1>p. PostTypes /\ SendersHold /\ captured \subseteq Logs
    BY <1>0 DEF SidecarInv, OwnTypes
  <1>w. \A r \in wire : r.log \in Logs
    BY <1>0 DEF SidecarInv, PostTypes, Request
  <1> SUFFICES SidecarInv' /\ ReaderTypes' /\ SeenIsCounted' /\ LossKnown'
    BY DEF IInv, SidecarInv, TypeOK, OwnTypes, PostTypes, ReaderTypes, Fates
  <1>1. ASSUME NEW s \in Senders, Timeout(s)
        PROVE  SidecarInv' /\ ReaderTypes' /\ SeenIsCounted' /\ LossKnown'
    <2>1. sender[s].pc = "waiting" /\ proc \notin Gone /\ Retry(s, wire)
          /\ UNCHANGED <<kind, proc, captured, late, queue, rows, agentVars>>
      BY <1>1 DEF Timeout
    <2>2. sender[s].log \in Logs /\ sender[s].attempt # 0
      BY <1>p, <2>1 DEF SendersHold, HoldsOne
    <2>3. Goes(s, FALSE)
      BY <1>p, <2>1, <2>2, RetryGoes
    <2>4. RowsStay
      BY <2>1 DEF RowsStay
    <2>5. SidecarInv' /\ LossKnown'
      BY <1>0, <2>1, <2>3, <2>4, ClientStep
    <2> QED BY <1>0, <2>1, <2>5 DEF ReaderTypes, SeenIsCounted
  <1>2. ASSUME NEW r \in wire, HandleByCT(r)
        PROVE  SidecarInv' /\ ReaderTypes' /\ SeenIsCounted' /\ LossKnown'
    <2>1. PICK code \in {"2xx", "4xx", "skip", "5xx"} :
            /\ Answer(r, code)
            /\ code = "2xx" => rows'[r.log] # 0
            /\ rows' \in [Logs -> Nat] /\ RowsStay
      BY <1>0, <1>2, <1>w, RowsOfCT
    <2>2. UNCHANGED <<kind, proc, captured, late, queue, agentVars>>
      BY <1>2 DEF HandleByCT
    <2>3. \/ UNCHANGED <<sender, fate>> /\ wire' \in SUBSET wire
          \/ \E s \in Senders :
               /\ proc \notin Gone /\ sender[s].pc = "waiting"
               /\ r.log = sender[s].log /\ r.to = Dest(s)
               /\ Goes(s, code = "2xx")
      BY <1>p, <2>1, AnswerGoes
    <2>4. (code = "2xx") \in BOOLEAN
      OBVIOUS
    <2>5. \/ UNCHANGED <<sender, fate>> /\ wire' \in SUBSET wire
          \/ \E s \in Senders, accepted \in BOOLEAN :
               /\ proc \notin Gone /\ sender[s].pc = "waiting" /\ Goes(s, accepted)
               /\ accepted /\ s \in Workers => rows'[sender[s].log] # 0
      BY <2>1, <2>3, <2>4
    <2>6. SidecarInv' /\ LossKnown'
      BY <1>0, <2>1, <2>2, <2>5, ClientStep
    <2> QED BY <1>0, <2>1, <2>2, <2>6 DEF ReaderTypes, SeenIsCounted
  <1>3. ASSUME NEW r \in wire, HandleByAgent(r)
        PROVE  SidecarInv' /\ ReaderTypes' /\ SeenIsCounted' /\ LossKnown'
    <2>1. Answer(r, "2xx") /\ r.to = "agent" /\ UNCHANGED <<kind, proc, captured, late, queue, rows>>
      BY <1>3 DEF HandleByAgent
    <2>2. \/ UNCHANGED <<sender, fate>> /\ wire' \in SUBSET wire
          \/ \E s \in Senders :
               /\ proc \notin Gone /\ sender[s].pc = "waiting"
               /\ r.log = sender[s].log /\ r.to = Dest(s)
               /\ Goes(s, TRUE)
      BY <1>p, <2>1, AnswerGoes
    <2>3. \A s \in Senders : r.to = Dest(s) => s \notin Workers
      BY <2>1, Destinations
    <2>4. RowsStay
      BY <2>1 DEF RowsStay
    <2>5. SidecarInv' /\ LossKnown'
      BY <1>0, <2>1, <2>2, <2>3, <2>4, ClientStep
    <2>6. counted' \in [Logs -> Nat] /\ seen' \subseteq Stamped /\ SeenIsCounted'
      BY <1>0, <1>3, <1>w, CountsOfAgent
    <2> QED BY <1>0, <2>1, <2>5, <2>6 DEF ReaderTypes
  <1> QED BY <1>1, <1>2, <1>3

\* The end of the sidecar: what it holds or has not taken from the channel is
\* given up by name, but for the log in the hands of a worker nobody waits for.
LEMMA EndStep ==
  ASSUME SidecarInv, LossKnown, PlainStopReturns \/ MessageStopReturns \/ Killed
  PROVE  SidecarInv' /\ LossKnown'
  <1>1. PICK how \in Gone : Ends(how)
    BY DEF PlainStopReturns, MessageStopReturns, Killed, Exit, Gone
  <1>2. /\ proc' = how /\ queue' = <<>> /\ \A s \in Senders : sender'[s] = Resting("done")
        /\ sender' \in [Senders -> SenderState]
        /\ UNCHANGED <<kind, captured, late, wire, rows, agentVars>>
    BY <1>1, RestingTypes DEF Ends
  <1>3. proc \notin Gone /\ Unaccounted = {}
    BY DEF PlainStopReturns, MessageStopReturns, Killed, Exit, Gone, LossKnown
  <1>4. fate' \in [Logs -> Fates]
    BY DEF PlainStopReturns, MessageStopReturns, Killed, Exit, SidecarInv, PostTypes, Fates
  <1>5. OwnTypes' /\ PostTypes'
    BY <1>2, <1>4, LogDeliveryAssumption DEF SidecarInv, OwnTypes, PostTypes
  <1>6. SendersHold' /\ WireCaptured' /\ GoneRests' /\ WorkerStays' /\ WorkerDrains'
    BY <1>2 DEF SidecarInv, SendersHold, HoldsOne, Resting, WireCaptured, GoneRests, WorkerStays, WorkerDrains,
                Gone, Senders, Workers
  <1>7. LossKnown'
    <2>1. CASE Killed
      BY <2>1 DEF LossKnown, Killed, Ends, Gone
    <2>2. ASSUME NEW givenUp, Exit(givenUp), NEW l \in Unaccounted'
          PROVE  l \in (Queued \cup Held) \ givenUp /\ l \in captured \ late
      <3>1. l \in captured \ late /\ rows[l] = 0 /\ fate'[l] = None
        BY <1>2 DEF Unaccounted
      <3>2. fate'[l] = IF l \in givenUp THEN "abandoned" ELSE fate[l]
        BY <2>2, <3>1 DEF Exit, SidecarInv, OwnTypes
      <3> QED BY <1>3, <3>1, <3>2 DEF Unaccounted, None
    <2>3. CASE PlainStopReturns
      <3>1. kind = "plain" /\ sender["stopper"].pc = "idle" /\ Exit(Queued)
        BY <2>3 DEF PlainStopReturns
      <3>2. sender["stopper"].log = None
        BY <3>1 DEF SidecarInv, SendersHold, HoldsOne, Senders, Workers
      <3>3. \A l \in Unaccounted' : l = sender["worker"].log
        BY <2>2, <3>1, <3>2 DEF Held, Workers
      <3> QED BY <1>2, <3>1, <3>3 DEF LossKnown
    <2>4. CASE MessageStopReturns
      <3>1. kind = "message" /\ sender["stopper"].log = None
        BY <2>4 DEF MessageStopReturns, SidecarInv, WorkerDrains, SendersHold, HoldsOne, Senders, Workers
      <3>2. CASE Exit(Queued \cup Held)
        <4>1. Unaccounted' = {}
          BY <2>2, <3>2
        <4> QED BY <1>2, <4>1 DEF LossKnown
      <3>3. CASE sender["worker"].pc = "done" /\ Exit({})
        <4>1. Queued \subseteq late
          BY <1>3, <3>1, <3>3 DEF SidecarInv, WorkerDrains
        <4>2. sender["worker"].log = None
          BY <3>3 DEF SidecarInv, SendersHold, HoldsOne, Senders, Workers
        <4>3. Held = {}
          BY <3>1, <4>2 DEF Held, Workers
        <4>4. Unaccounted' = {}
          BY <2>2, <3>3, <4>1, <4>3
        <4> QED BY <1>2, <4>4 DEF LossKnown
      <3> QED BY <2>4, <3>2, <3>3 DEF MessageStopReturns
    <2> QED BY <2>1, <2>3, <2>4
  <1> QED BY <1>5, <1>6, <1>7 DEF SidecarInv

LEMMA InvStutter ==
  ASSUME IInv, UNCHANGED vars
  PROVE  IInv'
  BY DEF IInv, TypeOK, SendersHold, HoldsOne, WireCaptured, GoneRests, WorkerStays, WorkerDrains,
         SeenIsCounted, LossKnown, Unaccounted, Queued, Held

LEMMA InvStep == IInv /\ [Next]_vars => IInv'
  <1> SUFFICES ASSUME IInv, Next PROVE IInv'
    BY InvStutter
  <1>0. SidecarInv /\ ReaderTypes /\ SeenIsCounted /\ LossKnown
    BY InvIs
  <1>1. SidecarInv' /\ ReaderTypes' /\ SeenIsCounted' /\ LossKnown' => IInv'
    BY DEF IInv, SidecarInv, TypeOK, OwnTypes, PostTypes, ReaderTypes, Fates
  <1>2. UNCHANGED <<rows, agentVars>> => ReaderTypes' /\ SeenIsCounted'
    BY <1>0 DEF ReaderTypes, SeenIsCounted
  <1>3. ASSUME NEW l \in Logs, Capture(l)
        PROVE  IInv'
    BY <1>0, <1>1, <1>2, <1>3, CaptureStep DEF Capture
  <1>4. ASSUME NEW s \in Workers, Take(s)
        PROVE  IInv'
    BY <1>0, <1>1, <1>2, <1>4, TakeStep DEF Take
  <1>5. CASE (\E s \in Senders : Timeout(s)) \/ (\E r \in wire : HandleByCT(r) \/ HandleByAgent(r))
    BY <1>5, PostStep
  <1>6. CASE Flush
    <2>1. UNCHANGED vars
      BY <1>6 DEF Flush, KeepSeen
    <2> QED BY <2>1, InvStutter
  <1>7. CASE StopSignal
    <2>1. /\ proc = "up" /\ proc' = "stopping"
          /\ UNCHANGED <<kind, captured, late, queue, fate, sender, wire, rows, agentVars>>
      BY <1>7 DEF StopSignal
    <2>2. SidecarInv'
      BY <1>0, <2>1 DEF SidecarInv, OwnTypes, PostTypes, SendersHold, HoldsOne, WireCaptured, GoneRests,
                        WorkerStays, WorkerDrains, Queued, Gone
    <2>3. LossKnown'
      BY <1>0, <2>1 DEF LossKnown, Unaccounted, Queued, Held, Gone
    <2> QED BY <1>1, <1>2, <2>1, <2>2, <2>3
  <1>8. CASE WorkerLeaves
    <2>1. /\ proc = "stopping" /\ sender["worker"].pc = "idle" /\ MayLeave
          /\ sender' = [sender EXCEPT !["worker"] = Resting("done")]
          /\ UNCHANGED <<sidecarVars, wire, rows, agentVars>>
      BY <1>8 DEF WorkerLeaves
    <2>2. /\ sender'["worker"] = Resting("done") /\ "worker" \in Senders
          /\ \A t \in Senders : t # "worker" => sender'[t] = sender[t]
          /\ sender' \in [Senders -> SenderState]
      BY <1>0, <2>1, RestingTypes DEF SidecarInv, PostTypes, Senders, Workers
    <2>3. OwnTypes' /\ PostTypes' /\ WireCaptured' /\ GoneRests' /\ WorkerStays'
      BY <1>0, <2>1, <2>2 DEF SidecarInv, OwnTypes, PostTypes, WireCaptured, GoneRests, WorkerStays, Gone
    <2>4. SendersHold'
      BY <1>0, <2>1, <2>2 DEF SidecarInv, SendersHold, HoldsOne, Resting
    <2>5. WorkerDrains'
      <3>1. kind = "message" => Queued = {}
        BY <2>1 DEF MayLeave, Queued
      <3>2. sender'["stopper"] = sender["stopper"] /\ Queued' = Queued
        BY <2>1, <2>2 DEF Senders, Workers, Queued
      <3> QED BY <1>0, <2>1, <3>1, <3>2 DEF SidecarInv, WorkerDrains
    <2>6. LossKnown'
      <3>1. sender["worker"].log = None /\ sender'["worker"].log = None
        BY <1>0, <2>1, <2>2 DEF SidecarInv, SendersHold, HoldsOne, Resting
      <3>2. Held' = Held
        BY <2>2, <3>1 DEF Held, Workers, Senders
      <3> QED BY <1>0, <2>1, <3>2 DEF LossKnown, Unaccounted, Queued
    <2> QED BY <1>1, <1>2, <2>1, <2>3, <2>4, <2>5, <2>6 DEF SidecarInv
  <1>9. CASE PlainStopReturns \/ MessageStopReturns \/ Killed
    <2>1. UNCHANGED <<rows, agentVars>>
      BY <1>9 DEF PlainStopReturns, MessageStopReturns, Killed, Exit, Ends
    <2> QED BY <1>0, <1>1, <1>2, <1>9, <2>1, EndStep
  <1> QED BY <1>3, <1>4, <1>5, <1>6, <1>7, <1>8, <1>9 DEF Next

-----------------------------------------------------------------------------
(* The theorems.                                                           *)

LEMMA Invariance == Spec => []IInv
  <1>1. Init => IInv
    BY InvInit
  <1>2. IInv /\ [Next]_vars => IInv'
    BY InvStep
  <1> QED BY <1>1, <1>2, PTL DEF Spec

\* Loggers, wire and readers keep their types; the channel stays within its
\* capacity.
THEOREM TypeCorrect == Spec => []TypeOK
  <1>1. IInv => TypeOK
    BY DEF IInv
  <1> QED BY <1>1, Invariance, PTL

\* A log that is lost is lost for a reason that has a name, apart from what a
\* killed sidecar takes along and the one log in the hands of a worker that Stop
\* does not wait for.
THEOREM LossIsAccounted == Spec => []LossAccounted
  <1>1. IInv => LossAccounted
    <2> SUFFICES ASSUME IInv, proc # "killed" PROVE LossAccounted
      BY DEF LossAccounted
    <2>1. proc \in {"up", "stopping", "exited"} /\ kind \in {"plain", "message"}
      BY LogDeliveryAssumption DEF IInv, TypeOK, Gone
    <2>2. CASE proc = "exited" /\ kind = "plain"
      <3>1. \A k, l \in Unaccounted : k = l
        BY <2>2 DEF IInv, LossKnown
      <3>2. Cardinality(Unaccounted) =< 1
        <4>1. CASE Unaccounted = {}
          BY <4>1, FS_EmptySet
        <4>2. CASE Unaccounted # {}
          <5>1. PICK k \in Unaccounted : TRUE
            BY <4>2
          <5>2. Unaccounted = {k}
            BY <3>1, <5>1
          <5>3. Cardinality({k}) = 1
            BY FS_Singleton
          <5> QED BY <5>2, <5>3
        <4> QED BY <4>1, <4>2
      <3> QED BY <2>2, <3>2 DEF LossAccounted
    <2>3. CASE ~(proc = "exited" /\ kind = "plain")
      <3>1. Unaccounted = {}
        BY <2>1, <2>3 DEF IInv, LossKnown, Gone
      <3> QED BY <2>3, <3>1 DEF LossAccounted
    <2> QED BY <2>2, <2>3
  <1> QED BY <1>1, Invariance, PTL

\* The tables of the Control Tower implement LogChannel: a log with an id has one
\* row at most, however often and however late its requests arrive.
THEOREM StoredAtMostOnce == Spec => StoredOnce
  <1>1. Init => Durable!Init
    BY LogDeliveryAssumption DEF Init, Durable!Init
  <1>2. IInv /\ [Next]_vars => [Durable!Next]_Durable!vars
    <2> SUFFICES ASSUME IInv, [Next]_vars PROVE [Durable!Next]_Durable!vars
      OBVIOUS
    <2> DEFINE copies == [l \in Stamped |-> rows[l]]
    <2>1. ASSUME NEW l \in Logs, Capture(l)
          PROVE  [Durable!Next]_Durable!vars
      <3>1. l \notin captured /\ captured' = captured \cup {l} /\ rows' = rows
        BY <2>1 DEF Capture
      <3>2. CASE l \in Stamped
        <4>1. Durable!Capture(l)
          BY <3>1, <3>2 DEF Durable!Capture
        <4> QED BY <3>2, <4>1 DEF Durable!Next
      <3>3. CASE l \notin Stamped
        <4>1. (captured \cap Stamped)' = captured \cap Stamped
          BY <3>1, <3>3
        <4> QED BY <3>1, <4>1 DEF Durable!vars
      <3> QED BY <3>2, <3>3
    <2>2. ASSUME NEW r \in wire, HandleByCT(r)
          PROVE  [Durable!Next]_Durable!vars
      <3>1. r.log \in captured /\ r.log \in Logs
        BY DEF IInv, TypeOK, WireCaptured
      <3>2. \A l \in Stamped : rows'[l] = rows[l] \/ (l = r.log /\ rows[l] = 0 /\ rows'[l] = 1)
        BY <2>2, <3>1, RowsOfCT, InvIs
      <3>3. captured' = captured
        BY <2>2 DEF HandleByCT
      <3>4. CASE \A l \in Stamped : rows'[l] = rows[l]
        BY <3>3, <3>4 DEF Durable!vars
      <3>5. CASE r.log \in Stamped /\ rows[r.log] = 0 /\ rows'[r.log] = 1
        <4>1. copies' = [copies EXCEPT ![r.log] = 1]
          BY <3>2, <3>5
        <4>2. Durable!Deliver(r.log)
          BY <3>1, <3>3, <3>5, <4>1 DEF Durable!Deliver
        <4> QED BY <3>5, <4>2 DEF Durable!Next
      <3> QED BY <3>2, <3>4, <3>5
    <2>3. CASE UNCHANGED <<captured, rows>>
      BY <2>3 DEF Durable!vars
    <2>4. \/ \E l \in Logs : Capture(l)
          \/ \E r \in wire : HandleByCT(r)
          \/ UNCHANGED <<captured, rows>>
      BY DEF Next, Take, Timeout, HandleByAgent, Flush, StopSignal, WorkerLeaves, PlainStopReturns,
             MessageStopReturns, Killed, Exit, Ends
    <2> QED BY <2>1, <2>2, <2>3, <2>4
  <1> QED BY <1>1, <1>2, Invariance, PTL DEF Spec, StoredOnce, Durable!Spec

\* So do the copies that the test agent counts, across any flushes.
THEOREM CountedAtMostOnce == Spec => CountedOnce
  <1>1. Init => Assertion!Init
    BY LogDeliveryAssumption DEF Init, Assertion!Init
  <1>2. IInv /\ [Next]_vars => [Assertion!Next]_Assertion!vars
    <2> SUFFICES ASSUME IInv, [Next]_vars PROVE [Assertion!Next]_Assertion!vars
      OBVIOUS
    <2> DEFINE copies == [l \in Stamped |-> counted[l]]
    <2>1. ASSUME NEW l \in Logs, Capture(l)
          PROVE  [Assertion!Next]_Assertion!vars
      <3>1. l \notin captured /\ captured' = captured \cup {l} /\ counted' = counted
        BY <2>1 DEF Capture
      <3>2. CASE l \in Stamped
        <4>1. Assertion!Capture(l)
          BY <3>1, <3>2 DEF Assertion!Capture
        <4> QED BY <3>2, <4>1 DEF Assertion!Next
      <3>3. CASE l \notin Stamped
        <4>1. (captured \cap Stamped)' = captured \cap Stamped
          BY <3>1, <3>3
        <4> QED BY <3>1, <4>1 DEF Assertion!vars
      <3> QED BY <3>2, <3>3
    <2>2. ASSUME NEW r \in wire, HandleByAgent(r)
          PROVE  [Assertion!Next]_Assertion!vars
      <3>1. r.log \in captured /\ r.log \in Logs
        BY DEF IInv, TypeOK, WireCaptured
      <3>2. \A l \in Stamped : counted'[l] = counted[l] \/ (l = r.log /\ counted[l] = 0 /\ counted'[l] = 1)
        BY <2>2, <3>1, CountsOfAgent, InvIs
      <3>3. captured' = captured
        BY <2>2 DEF HandleByAgent
      <3>4. CASE \A l \in Stamped : counted'[l] = counted[l]
        BY <3>3, <3>4 DEF Assertion!vars
      <3>5. CASE r.log \in Stamped /\ counted[r.log] = 0 /\ counted'[r.log] = 1
        <4>1. copies' = [copies EXCEPT ![r.log] = 1]
          BY <3>2, <3>5
        <4>2. Assertion!Deliver(r.log)
          BY <3>1, <3>3, <3>5, <4>1 DEF Assertion!Deliver
        <4> QED BY <3>5, <4>2 DEF Assertion!Next
      <3> QED BY <3>2, <3>4, <3>5
    <2>3. CASE UNCHANGED <<captured, counted>>
      BY <2>3 DEF Assertion!vars
    <2>4. \/ \E l \in Logs : Capture(l)
          \/ \E r \in wire : HandleByAgent(r)
          \/ UNCHANGED <<captured, counted>>
      BY DEF Next, Take, Timeout, HandleByCT, Flush, StopSignal, WorkerLeaves, PlainStopReturns,
             MessageStopReturns, Killed, Exit, Ends
    <2> QED BY <2>1, <2>2, <2>3, <2>4
  <1> QED BY <1>1, <1>2, Invariance, PTL DEF Spec, CountedOnce, Assertion!Spec
=============================================================================
