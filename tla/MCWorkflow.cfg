SPECIFICATION Spec
CONSTANTS
    Steps = {1, 2, 3}
    Missing = 0
    Definitions <- MCDefinitions
    MaxRequests = 2
    EventCap = 1
INVARIANTS
    TurnsDownTheCyclic
    SnapshotsAreTrue
    NoDecisionIsLeft
    FeedFollowsTheRun
PROPERTIES
    KeepsThePromise
    EndsOrWaits
CHECK_DEADLOCK FALSE
