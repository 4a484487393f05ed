SPECIFICATION FileSpec
CONSTANTS
    CallIds = {c1}
    NoCall = NoCall
    MaxInputs = 3
    MaxMessages = 6
    MaxTurns = 4
    MaxBudget = 2
INVARIANTS
    MessageIdsInOrder
    NoTurnUnderflow
    InputsKeepOrder
    TurnNumbersSeparate
    HistoryIsLegal
    RequestsAreWhole
    PecoHistoryFits
    FileHoldsTheHistory
