----------------------------- MODULE LogChannel -----------------------------
(***************************************************************************)
(* What each side of the log path promises its reader: a captured log      *)
(* turns up at most once, in any order relative to the others, and never   *)
(* before it was captured or without it.  The sidecars' loggers, the wire, *)
(* the Control Tower's tables and the test agent's buffer implement it     *)
(* (LogDelivery), once for the stored rows and once for the copies that    *)
(* assertions read.                                                        *)
(***************************************************************************)
EXTENDS Naturals

CONSTANT Logs

VARIABLES captured,  \* the logs a sidecar has seen
          copies     \* how often each log has turned up at the reader

vars == <<captured, copies>>

Init ==
    /\ captured = {}
    /\ copies = [l \in Logs |-> 0]

Capture(l) ==
    /\ l \notin captured
    /\ captured' = captured \cup {l}
    /\ UNCHANGED copies

Deliver(l) ==
    /\ l \in captured
    /\ copies[l] = 0
    /\ copies' = [copies EXCEPT ![l] = 1]
    /\ UNCHANGED captured

Next == \E l \in Logs : Capture(l) \/ Deliver(l)

Spec == Init /\ [][Next]_vars

=============================================================================
