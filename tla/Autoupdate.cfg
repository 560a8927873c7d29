CONSTANTS
    k1 = k1
    k2 = k2
    u = u
    Procs = {k1, k2, u}
    Kids = {k1, k2}
    Mon = Mon
    None = None
    Exit = Exit
    MaxEdits = 2
    QueueMax = 10
    MaxKills = 1
    MaxStarts = 1
SPECIFICATION AFairSpec
INVARIANTS
    FlushedMeansUpdated
PROPERTIES
    EditsAreUpdated
    FlushReturns
    UpdatesEnd
    StopEndsWithoutUpdate
CHECK_DEADLOCK FALSE
