SPECIFICATION FairSpec
\* Calls are bounded, and a closed store need not be used again.
CHECK_DEADLOCK FALSE
CONSTANTS
    None = None
    a = a
    b = b
    c = c
    s1 = s1
    s2 = s2
    Callers <- ThreeCallers
    Stores <- TwoStores
    StoreOf <- Uses
    MaxCalls = 3

    
PROPERTIES
    CallsEndUnlessClosedUnder
