CONSTANTS
    k1 = k1
    k2 = k2
    u = u
    Procs = {k1, k2, u}
    Kids = {k1, k2}
    Mon = Mon
    None = None
    Exit = Exit
    MaxEdits = 1
    QueueMax = 10
    MaxKills = 0
    MaxStarts = 1
SPECIFICATION AFairSpec
PROPERTY StopEnds
CHECK_DEADLOCK FALSE
