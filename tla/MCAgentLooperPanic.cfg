SPECIFICATION Spec
CONSTANTS
    CallIds = {c1}
    NoCall = NoCall
    UseStream = FALSE
    MaxIterations = 2
    RetryLimit = 0
    PersistOnFailure = TRUE
    HooksIntervene = FALSE
    SaveMayFail = FALSE
    InflightMayFail = FALSE
    Heads = {"none"}
    MaxCalls = 1
    MaxInputs = 1
    MaxControls = 1
    QueueCap = 1
    NoCheckpoint = NoCheckpoint
    NoResponse = NoResponse
INVARIANT EveryCallIsPaired
