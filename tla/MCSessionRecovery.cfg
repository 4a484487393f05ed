SPECIFICATION RecoverySpec
CONSTANTS
    CallIds = {c1}
    NoCall = NoCall
    UseStream = FALSE
    MaxIterations = 1
    RetryLimit = 0
    PersistOnFailure = TRUE
    HooksIntervene = FALSE
    SaveMayFail = FALSE
    InflightMayFail = FALSE
    Heads = {"reasoning"}
    MaxCalls = 1
    MaxInputs = 2
    MaxControls = 1
    QueueCap = 1
    NoCheckpoint = NoCheckpoint
    NoResponse = NoResponse
    MaxLives = 3
INVARIANTS
    RestartIsSound
    HistoryIsSaved
PROPERTIES
    FinishedWorkSurvives
