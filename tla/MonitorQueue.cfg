CONSTANTS
    Names = {a, g}
    Generated = {g}
    Out = Out
    Gone = Gone
    Kid = Kid
    Dirs = {1, 2}
    MaxOps = 4
    Kinds = {"create", "edit", "delete", "move", "mkdir", "rmdir", "movedir"}
SPECIFICATION Spec
CHECK_DEADLOCK FALSE
INVARIANTS
    DiskIsKnown
    GoneIsNoticed
    EditsAreFlagged
    MonitorSurvives
