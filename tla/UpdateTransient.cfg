SPECIFICATION Spec
CONSTANTS
    Cmds = {"c1", "c2", "c3"}
    Files <- LadderFiles
    Inputs <- LadderInputs
    Outputs <- LadderOutputs
    Compare = {}
    Transient = {"c1", "c2"}
    Values = {0, 1}
    First = 0
    Gone = Gone
    Bad = Bad
    NoJob = NoJob
    Content <- Highest
    Targets <- AnyTarget
    Failing = {}
    Faults = {"kill", "modify", "delete"}
    MaxEvents = 3
INVARIANTS
    UpdatedMeansUpToDate InputsExist TransientFilesGone
