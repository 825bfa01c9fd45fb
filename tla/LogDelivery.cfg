SPECIFICATION FairSpec
CONSTANTS
    Logs = {l1, l2}
    Stamped = {l1}
    LateLogs = {l2}
    Rejected = {l2}
    Orphans = {l1}
    QueueSize = 1
    MaxAttempts = 2
    Kinds = {"plain", "message"}
    Events = {"stop", "kill", "error"}
INVARIANTS
    LossAccounted
CHECK_DEADLOCK FALSE
PROPERTIES
    StoredOnce
    CountedOnce
    LogsSettle
