SPECIFICATION FairSpec
CONSTANTS
    Instances = {i1}
    Callers = {c1}
    MaxConcurrent = 1
    MaxBooting = 1
    LastStage = 1
    Events = {"poll", "deploy"}
    MaxRestarts = 0
PROPERTY FailedInstanceEndsRun
CHECK_DEADLOCK FALSE
