SPECIFICATION Spec
CONSTANTS
    p1 = p1
    p2 = p2
    c1 = c1
    c2 = c2
    c3 = c3
    x = x
    y = y
    Paths = {p1, p2}
    Contents = {c1, c2, c3}
    Texts = {x, y}
    Text <- MCText
    AtFirst <- OneFile
    NoContent = NoContent
    NoText = NoText
    Tasks = {t1, t2}
    MaxEvents = 3
    MaxIncidents = 3
INVARIANTS
    SyncedIsServed
    NothingStaysBehind
PROPERTY ChangesArrive
CHECK_DEADLOCK FALSE
