SPECIFICATION FairSpec
CONSTANTS
    Callers = {c1, c2}
    Backends <- BothBackends
    Threshold = 2
    Window = 2
    Recovery = 1
    SuccessThreshold = 2
    Burst = 1
    MaxWait = 1
    MaxAttempts = 2
INVARIANTS
    TypeOK
    ClosedMeansHealthy
PROPERTIES
    OpenIsLeftLate
    EveryCallEnds
    CircuitRecovers
