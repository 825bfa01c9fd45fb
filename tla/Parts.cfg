SPECIFICATION AllSpec
CONSTANTS
    Scripts <- MCScripts
    Names <- MCNames
    Dialogues <- MCDialogues
    Commands <- MCCommandNames
    Calls <- MCCommands
    Programs <- MCPrograms
    Projects <- MCProjects
    Actions <- MCActions
    CallKinds <- MCCallKinds
    Network <- MCItems
    Inputs <- MCPartInputs
    QueueCap = 2
    MaxIterations = 8
    MaxRefDepth = 2
    Triggers = {1, 2}
    Modes = {"ci", "tty", "watch"}
    Executions = {"x1", "x2"}
    MaxSteps = 3
    Images = {1, 2}
    MaxRuns = 2
    MaxAccidents = 1
    MaxTime = 3
    MaxCalls = 2
INVARIANTS
    PartsTypeOK
    TrafficTold
    TrafficArrives
    OneDaemon
    StepsInOrder
    PassedMeansJudged
    DefinitionsAgree
    AssertionsAgree
    ItemsServe
    ResolutionHolds
    SettingsKept
    ReportsTell
    BaselinesHold
    AgentEndsWell
    CommandEndsWell
PROPERTIES
    PartsSettle
CHECK_DEADLOCK FALSE
