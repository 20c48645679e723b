\* A manual spec edited once to one with autoApply; a crash or a failed write at
\* any point. Fair behaviours; three run IDs so that the bound on them is never what
\* stops a run.
SPECIFICATION FairSpec
CONSTANTS
    Specs = {1, 2}
    InitSpec = 1
    Edits <- Forward
    AutoApply = {2}
    MaxCommit = 1
    VarStates = {"none"}
    InitVars = "none"
    Faults = {"crash", "patch", "create", "delete"}
    MaxFaults = 1
    MaxInputs = 1
    MaxRuns = 3
INVARIANTS
    AppliedIsOwnRun
PROPERTIES
    PermissionReleasedAfterOutcome
    RunSettles
