\* One Workspace, one worker, two sources; edits put two entries of its key on the heap.
SPECIFICATION FairSpec
CHECK_DEADLOCK FALSE
CONSTANTS
    Keys = {k1}
    Sources = {1, 2}
    InitSource = 1
    NoKey = NoKey
    Workers = {w1}
    QueueSize = 3
    MaxCommit = 2
    MaxInputs = 2
    MaxFaults = 1
INVARIANTS
    TypeOK
    
    RecordedMeansReported
    PollsBounded

    
