SPECIFICATION FairSpec
CONSTANTS
    Instances = {i1, i2, i3}
    Callers = {c1}
    MaxConcurrent = 2
    MaxBooting = 1
    LastStage = 0
    Events = {"poll", "deploy"}
    MaxRestarts = 0
INVARIANT ConcurrencyLimit
INVARIANT BootingLimit
PROPERTY RunEnds
CHECK_DEADLOCK FALSE
