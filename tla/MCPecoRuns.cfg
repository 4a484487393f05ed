SPECIFICATION Spec
CONSTANTS
    Clients = {a, b}
    MaxRuns = 2
    MaxMessages = 2
    MaxOrders = 1
    MaxTries = 2
    ControlCap = 1
    EventCap = 2
INVARIANTS
    OneRunIsVisible
    AcceptedMessagesArrive
    FlagsFollowTheLoop
PROPERTIES
    HistoryIsKept
SYMMETRY Symmetry
CHECK_DEADLOCK FALSE
