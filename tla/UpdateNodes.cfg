SPECIFICATION FairSpec
CONSTANTS
    Cmds = {"c1", "c2", "c3"}
    Files <- TwinFiles
    Inputs <- TwinInputs
    Outputs <- TwinOutputs
    Compare = {}
    Transient = {}
    Values = {0, 1}
    First = 0
    Gone = Gone
    Bad = Bad
    NoJob = NoJob
    Content <- Highest
    Targets <- PartTarget
    Failing = {"c1", "c2", "c3"}
    Faults = {"signal", "kill", "exec", "modify", "delete"}
    MaxEvents = 3
INVARIANTS
    UpdatedMeansUpToDate InputsExist
PROPERTY Converges
