SPECIFICATION FairSpec
\* Runs return and nobody need call them again.
CHECK_DEADLOCK FALSE
CONSTANTS
    None = None
    run1 = run1
    run2 = run2
    writer = writer
    other = other
    council = council
    m1 = m1
    m2 = m2
    Sinks = {"memory", "file"}
    Spawns <- Roster
    Runs <- AllRuns
    RunOf <- SpawnRuns
    TaskOf <- SpawnTasks
    Agents <- AllAgents
    Nodes <- AgentNodes
    CouncilOf <- Seats
    RunOfCouncil <- CouncilRuns
    Stage <- Order
    Peers <- OnePeer
    RefId <- Refs
    Bids <- Auction
    MaxAttempts <- Attempts
    MaxRecovery = 1
    MaxRounds = 2
    MaxConcurrency = 1
    MaxCalls = 2
    MaxRestarts = 1
INVARIANTS
    HandlesResolve
    StatusIsTheFirstOutcome
PROPERTIES
    ImplementsIdentities
    EveryInstanceIsSettled
