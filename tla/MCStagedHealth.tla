--------------------------- MODULE MCStagedHealth ---------------------------
(* An instance of StagedHealth for TLC: a database and a service in stage 0, *)
(* a service that needs both in stage 1.                                     *)
EXTENDS StagedHealth, TLC

CONSTANTS db, api, web

MCStageOf == [i \in Items |-> IF i = web THEN 1 ELSE 0]

=============================================================================
