SPECIFICATION FairSpec
CONSTANTS
    Instances = {i1}
    Callers = {c1}
    MaxConcurrent = 1
    MaxBooting = 1
    LastStage = 1
    Events = {"poll", "cancel", "api", "deploy", "container", "early", "restart"}
    MaxRestarts = 1
INVARIANT TypeOK
INVARIANT EndedLeavesNonePending
INVARIANT RecoveredRunIsOver
PROPERTY NamespacesDestroyed
CHECK_DEADLOCK FALSE
