\* Two Workspaces are registered while the scheduler is already running.
SPECIFICATION Spec
CHECK_DEADLOCK FALSE
CONSTANTS
    Keys = {k1, k2}
    Sources = {1}
    InitSource = 1
    NoKey = NoKey
    Workers = {w1, w2}
    QueueSize = 2
    MaxCommit = 1
    MaxInputs = 0
    MaxFaults = 0
INVARIANTS
    NoLockCycle
