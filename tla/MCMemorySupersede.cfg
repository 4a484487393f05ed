SPECIFICATION Spec
CONSTANTS
    d1 = d1
    d2 = d2
    Docs = {d1, d2}
    NoDoc = NoDoc
    Tasks = {t1, t2}
    Initial <- MCInitial
    MaxAttempts = 2
    MaxHooks = 2
    MaxIncidents = 2
INVARIANTS OneTaskPerIntent GoneIsAudited
PROPERTIES NewBeforeOld EverythingCloses
