\* Two commits, variables that rotate, a schedule that comes due, two inputs, one
\* failure of a kind that a parked plan should survive or that ends it with Failed.
SPECIFICATION Spec
CONSTANTS
    Specs = {1}
    InitSpec = 1
    Edits <- AnyEdit
    AutoApply = {}
    MaxCommit = 2
    VarStates = {"h1", "h2"}
    InitVars = "h1"
    Faults = {"crash", "patch", "create", "delete"}
    MaxFaults = 1
    MaxInputs = 2
    MaxRuns = 2
PROPERTIES
    ParkedPlanWaits
