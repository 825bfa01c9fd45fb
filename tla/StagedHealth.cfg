SPECIFICATION FairSpec
CONSTANTS
    db = db
    api = api
    web = web
    Items = {db, api, web}
    StageOf <- MCStageOf
    LastStage = 1
    Eager = {db}
CHECK_DEADLOCK FALSE
PROPERTIES
    BootsInOrder
    BootsIfUp
