\* One source, the set of the Project that users write, the one of the Workspace
\* that overrides it; two events (writes of users, failed calls).  Fair behaviours.
SPECIFICATION WSpec
CONSTANTS
    k = k
    p = p
    w = w
    Names = {"x", "y"}
    Values = {"1", "2"}
    Sources = {k}
    Sets = {p, w}
    SpecsOf <- Specs
    Begin <- First
    Written = {p}
    Becomes = {"absent", "present"}
    ProjectRefs <- Project
    FirstRefs <- ProjectsP
    WorkspaceRefs <- Own
    MaxEvents = 2
INVARIANTS
    TypeOK
    StatusTracksSources
PROPERTIES
    VariablesConverge
