SPECIFICATION FairSpec
CONSTANTS
    s1 = s1
    s2 = s2
    s3 = s3
    c1 = c1
    c2 = c2
    None = None
    Sessions <- TwoSessions
    Containers <- OneContainer
    Profiles <- UserProfiles
    Named <- NoContainers
    FailingCalls <- EndingCalls
    MaxFaults = 1
    MaxOutages = 1
    Tears = FALSE
    SlowRequests = FALSE
    Exclusive = FALSE
PROPERTIES
    KeepsLifecycleUntilItEnds
    SessionEnds
    UnattendedStops
    ShutdownEnds
CHECK_DEADLOCK FALSE
