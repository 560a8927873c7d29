CONSTANTS
    p1 = p1
    p2 = p2
    Procs = {p1, p2}
    Mon = Mon
    None = None
    Old = Old
    Stale = Stale
    MaxEdits = 2
    QueueMax = 10
    MaxCrashes = 2
SPECIFICATION RFairSpec
INVARIANTS
    DatabaseExclusive
    FreshUnlessKilled
PROPERTY CommandsFinishWithOne
CHECK_DEADLOCK FALSE
