SPECIFICATION FairSpec
CONSTANTS
    a = a
    b = b
    c = c
    d = d
    e = e
    None = None
    Dags <- SmallGraphs
    MaxIterations = 2
    MaxAttempts = 3
    MaxFaults = 1
INVARIANTS
    SavedSuccessesAreReal
    ContextHoldsOutputs
    UnsavedWorkIsBounded
PROPERTIES
    SavedProgressStands
    OnlyTheDecidedBranchRuns
    RejectedBranchNeverRuns
    EveryCallReturns
\* A run may be COMPLETED, or nobody resumes it.
CHECK_DEADLOCK FALSE
