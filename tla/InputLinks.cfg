SPECIFICATION Spec
CONSTANTS
    Cmds = {"c1", "c2", "c3"}
    Files = {"s", "g", "h", "k"}
    Outputs <- ChainOutputs
    Rules <- ChainRules
    Compare = {"c2"}
    Allowed <- NoneAllowed
    Values = {0, 1}
    Gone = Gone
    NoJob = NoJob
    MaxEvents = 2
INVARIANTS
    SeenIsCurrent StillAccepted DeclaredOrder
