SPECIFICATION FairSpec
\* Events and subscriptions are bounded.
CHECK_DEADLOCK FALSE
CONSTANTS
    None = None
    Group = Group
    audit = audit
    eval = eval
    Subscribers <- TwoTasks
    Kinds <- OneOrTwoOfType
    Count = 2
    MaxDeliveryAttempts = 3
    MaxStream = 2
    MaxEvents = 2
    MaxSubscribes = 2
    MaxFaults = 0
PROPERTIES
    EverySubscriberGetsEveryEvent
