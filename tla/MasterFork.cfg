CONSTANTS
    Sids = {1, 2}
    Pids = {11, 12}
    MaxExecs = 3
    SocketMax = 1
    None = None
SPECIFICATION FairSpec
INVARIANTS
    StatusIsOwn
    NobodyGivesUp
    ShutdownIsClean
PROPERTIES
    JobsEnd
    ShutdownEnds
CHECK_DEADLOCK FALSE
