CONSTANTS
    d1 = d1
    d2 = d2
    NotYet = NotYet
    Dags <- MCDags
    Length <- MCLength
    Items <- MCItems
    HandlersOf <- MCHandlersOf
    Buses = {"memory", "async"}
    Permits = {2}
    Modes = {"gate", "observe"}
    Workers = 2
    MaxEvals = 1
    Lookups = 2
    MaxStarts = 1

SPECIFICATION FairRunsSpec

PROPERTY
    SubmittedRunsResolve
    

CHECK_DEADLOCK FALSE
