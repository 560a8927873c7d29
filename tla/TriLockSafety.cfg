CONSTANTS
    p1 = p1
    p2 = p2
    Procs = {p1, p2}
    Mon = Mon
    None = None
    MaxEdits = 2
    QueueMax = 2
SPECIFICATION Spec
INVARIANTS
    TypeOK
    DatabaseExclusive
    Fresh
    NoMissedOpen
    NoLostEdit
    IndInv
PROPERTY FreshDatabaseSpec
