\* Three runs, so that a spec can come back after another one.  After the last run
\* everything stops.
SPECIFICATION Spec
CONSTANTS
    Specs = {1, 2}
    Validated = {1}
    MaxRuns = 3
    MaxFaults = 2
INVARIANTS
    TypeOK
    OwnPlanApplied
    OneTreeKept
CHECK_DEADLOCK FALSE
