SPECIFICATION Spec
CONSTANTS
    Cmds = {"c1", "c2", "c3"}
    Files <- TwinFiles
    Inputs <- TwinInputs
    Outputs <- TwinOutputs
    Compare = {"c1"}
    Transient = {}
    Values = {0, 1, 2}
    First = 0
    Gone = Gone
    Bad = Bad
    NoJob = NoJob
    Content <- Highest
    Targets = {{"b"}}
    Failing = {"c1", "c2", "c3"}
    Faults = {"signal", "modify"}
    MaxEvents = 3
INVARIANTS
    UpdatedMeansUpToDate
