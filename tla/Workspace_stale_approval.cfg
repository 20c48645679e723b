\* A plan is approved and the spec edited before the controller acts.
SPECIFICATION Spec
CONSTANTS
    Specs = {1, 2}
    InitSpec = 1
    Edits <- Forward
    AutoApply = {}
    MaxCommit = 1
    VarStates = {"none"}
    InitVars = "none"
    Faults = {}
    MaxFaults = 0
    MaxInputs = 2
    MaxRuns = 2
INVARIANTS
    NoUnreviewedApply
