----------------------------- MODULE StagedBoot -----------------------------
(***************************************************************************)
(* What booting an instance in stages promises: "stage N+1 containers      *)
(* don't start until all stage N items are healthy"                        *)
(* (apps/landing/src/pages/docs/project-structure.astro:100), and the      *)
(* tests do not start before every item has been healthy.  StagedHealth    *)
(* implements it.                                                          *)
(***************************************************************************)
EXTENDS Naturals

CONSTANTS
    Items,
    StageOf  \* the stage of each item

VARIABLES
    deployed,  \* the items whose containers have been started
    healthy,   \* those that have been healthy at some time
    testing    \* whether the tests have begun

vars == <<deployed, healthy, testing>>

EarlierThan(s) == {i \in Items : StageOf[i] < s}

Init ==
    /\ deployed \subseteq EarlierThan(1)
    /\ healthy = {}
    /\ testing = FALSE

Deploy(i) ==
    /\ EarlierThan(StageOf[i]) \subseteq healthy
    /\ deployed' = deployed \cup {i}
    /\ UNCHANGED <<healthy, testing>>

BecomeHealthy(i) ==
    /\ i \in deployed
    /\ healthy' = healthy \cup {i}
    /\ UNCHANGED <<deployed, testing>>

StartTests ==
    /\ healthy = Items
    /\ testing' = TRUE
    /\ UNCHANGED <<deployed, healthy>>

Next ==
    \/ \E i \in Items : Deploy(i) \/ BecomeHealthy(i)
    \/ StartTests

Spec == Init /\ [][Next]_vars

=============================================================================
