\* Two levels; the Workspace of the second one is created later.  When both the
\* Project and the Rollout are gone there is nobody left to let a Workspace run.
SPECIFICATION PFairSpec
CONSTANTS
    a = a
    b = b
    Workspaces = {a, b}
    Strategies <- Ordered
    Late = {b}
    MaxEvents = 2
INVARIANTS
    PTypeOK
PROPERTIES
    
    WorkCompletes
    InChargeShown
CHECK_DEADLOCK FALSE
