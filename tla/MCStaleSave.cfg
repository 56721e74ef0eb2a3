SPECIFICATION Spec
CONSTANTS
    Runs = {r1}
    Workers = {w1, w2}
    None = None
    TTL = 1
    MaxTime = 2
    MaxToken = 2
    Bodies = {b1}
    MaxCheckpoints = 0
PROPERTY StaleSavesAreRejected
CHECK_DEADLOCK FALSE
