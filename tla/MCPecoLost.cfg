SPECIFICATION Spec
CONSTANTS
    Clients = {a, b}
    MaxRuns = 2
    MaxMessages = 3
    MaxOrders = 0
    MaxTries = 1
    ControlCap = 1
    EventCap = 2
INVARIANTS
    SubscribedIsDelivered
SYMMETRY Symmetry
CHECK_DEADLOCK FALSE
