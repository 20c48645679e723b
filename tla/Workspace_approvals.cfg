\* A manual spec that an edit replaces by one with autoApply, one failure of any kind,
\* two inputs (that edit, decisions, requests, variables that stop resolving), two runs.
SPECIFICATION Spec
CONSTANTS
    Specs = {1, 2}
    InitSpec = 1
    Edits <- Forward
    AutoApply = {2}
    MaxCommit = 1
    VarStates = {"none", "unresolved"}
    InitVars = "none"
    Faults = {"crash", "status", "patch", "create", "delete", "archive", "read", "api"}
    MaxFaults = 1
    MaxInputs = 2
    MaxRuns = 2
INVARIANTS
    TypeOK
    ApprovalUsedOnce
    OneActiveJob
    ApplyFindsReviewedPlan
