SPECIFICATION Spec
CONSTANTS
    s1 = s1
    s2 = s2
    s3 = s3
    c1 = c1
    c2 = c2
    None = None
    Sessions <- TwoSessions
    Containers <- OneContainer
    Profiles <- AllProfiles
    Named <- NoContainers
    FailingCalls <- AnyCallButQuery
    MaxFaults = 1
    MaxOutages = 1
    Tears = TRUE
    SlowRequests = TRUE
    Exclusive = FALSE
SYMMETRY SessionSymmetry
INVARIANTS
    TypeOK
    RunningIsRecorded
    AttachedIsLive
    SharedObjectsAgree
CHECK_DEADLOCK FALSE
