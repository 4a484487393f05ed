SPECIFICATION FairSpec
CONSTANTS
    CallIds = {c1}
    NoCall = NoCall
    UseStream = TRUE
    MaxIterations = 2
    RetryLimit = 0
    PersistOnFailure = TRUE
    HooksIntervene = FALSE
    SaveMayFail = FALSE
    InflightMayFail = TRUE
    Heads = {"none"}
    MaxCalls = 1
    MaxInputs = 2
    MaxControls = 1
    QueueCap = 1
    NoCheckpoint = NoCheckpoint
    NoResponse = NoResponse
INVARIANTS
    StatesAgree
    CheckpointIsExact
    SessionIsSound
PROPERTIES
    CancelTakesEffect
    QueuedInputRuns
    LoopEnds
