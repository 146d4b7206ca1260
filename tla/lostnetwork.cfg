SPECIFICATION Spec
CONSTANTS
    s1 = s1
    s2 = s2
    s3 = s3
    c1 = c1
    c2 = c2
    None = None
    Sessions <- TwoSessions
    Containers <- OneContainer
    Profiles <- UserProfiles
    Named <- NoContainers
    FailingCalls <- NoCalls
    MaxFaults = 0
    MaxOutages = 1
    Tears = FALSE
    SlowRequests = FALSE
    Exclusive = TRUE
INVARIANTS
    AttachedHasNetwork
CHECK_DEADLOCK FALSE
