SPECIFICATION FairSpec
\* A document that is done takes no more transitions.
CHECK_DEADLOCK FALSE
CONSTANTS
    person = person
    agent = agent
    db1 = db1
    db2 = db2
    None = None
    Callers <- TwoCallers
    Humans <- OneHuman
    Stores <- TwoStores
    Deployments <- BothWays
    Backends = {"memory", "sqlite"}
    Transitions <- Review
    Initial = "draft"
    Terminal = {"done"}
    MaxRows = 3
INVARIANTS
    TypeOK
    ReturnedTransitionsStand
PROPERTIES
    ImplementsLog
    EveryCallEnds
