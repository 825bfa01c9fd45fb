SPECIFICATION Spec
CONSTANTS
    Instances = {i1, i2}
    Callers = {c1, c2}
    MaxConcurrent = 2
    MaxBooting = 2
    LastStage = 0
    Events = {"poll", "partial", "early", "teardown"}
    MaxRestarts = 0
INVARIANT SingleDeploy
INVARIANT CompletedMeansPassed
SYMMETRY Symmetry
CHECK_DEADLOCK FALSE
