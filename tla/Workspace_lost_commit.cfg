\* A commit is pushed after the plan pod has cloned the branch.
SPECIFICATION Spec
CONSTANTS
    Specs = {1}
    InitSpec = 1
    Edits <- AnyEdit
    AutoApply = {1}
    MaxCommit = 2
    VarStates = {"none"}
    InitVars = "none"
    Faults = {}
    MaxFaults = 0
    MaxInputs = 0
    MaxRuns = 1
PROPERTIES
    DetectedRevisionProcessed
