SPECIFICATION Spec
CONSTANTS
    CallIds = {c1, c2}
    NoCall = NoCall
    UseStream = TRUE
    MaxIterations = 3
    RetryLimit = 1
    PersistOnFailure = TRUE
    HooksIntervene = TRUE
    SaveMayFail = FALSE
    InflightMayFail = TRUE
    Heads = {"text"}
    MaxCalls = 2
    MaxInputs = 1
    MaxControls = 2
    QueueCap = 2
    NoCheckpoint = NoCheckpoint
    NoResponse = NoResponse
SYMMETRY CallSymmetry
INVARIANTS
    TypeOK
    DockedHoldsNothing
    OutputsMatchCalls
    RequestsAreAnswered
