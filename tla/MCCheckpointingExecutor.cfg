SPECIFICATION ExecutorSpec
CONSTANTS
    a = a
    b = b
    c = c
    w1 = w1
    w2 = w2
    r1 = r1
    None = None
    Runs = {r1}
    Workers <- TwoWorkers
    Bodies <- DAGCheckpoint
    MaxCheckpoints = 0
    Order <- Three
    Setups <- SmallSetups
    TTL = 1
    MaxTime = 2
    MaxToken = 3
    MaxFaults = 1
SYMMETRY WorkerSymmetry
INVARIANTS
    NoNodeIsSkipped
    CompletedRunsHideNoFailure
    UnsavedWorkIsBounded
PROPERTIES
    OwnersProgressStands
    EndedRunsStay
\* A run may be COMPLETED or CANCELLED, or nobody resumes it.
CHECK_DEADLOCK FALSE
