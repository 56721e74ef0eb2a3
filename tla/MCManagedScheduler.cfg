SPECIFICATION FairSpec
CONSTANTS
    w1 = w1
    w2 = w2
    None = None
    Workers <- TwoWorkers
    Tasks <- ThreeTasks
    Jobs <- AnyJob
    MaxConcurrent = 1
    MaxRetries = 2
    Interval = 1
    LeaseTTL = 2
    MaxMishaps = 1
INVARIANTS
    TypeOK
    ClaimsAndPermitsAreHeld
    

    
