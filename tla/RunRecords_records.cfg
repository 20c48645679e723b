\* Two reviewers who disagree, two runs, pages of one row, one fault.
SPECIFICATION Spec
CONSTANTS
    first = first
    second = second
    Requests = {first, second}
    Wants <- Disagree
    Limit = 1
    MaxRuns = 2
    MaxFaults = 1
INVARIANTS
    TypeOK
    PhaseLogReadable
PROPERTIES
    WalkMissesNoRun
    
    OneDecisionPerRun
CHECK_DEADLOCK FALSE
