SPECIFICATION Spec
CONSTANTS
    Runs = {r1, r2}
    Workers = {w1, w2}
    None = None
    TTL = 1
    MaxTime = 4
    MaxToken = 3
    Bodies = {b1}
    MaxCheckpoints = 1
SYMMETRY Symmetry
INVARIANTS
    TypeOK
    TokensIdentifyOneOwner
PROPERTIES
    LeaseIsNeverTakenEarly
    OwnersCheckpointStands
    ImplementsRegister
\* The clock and the tokens are bounded, and workers may simply be done.
CHECK_DEADLOCK FALSE
