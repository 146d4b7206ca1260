SPECIFICATION Spec
CONSTANTS
    s1 = s1
    s2 = s2
    s3 = s3
    c1 = c1
    c2 = c2
    None = None
    Sessions <- ThreeSessions
    Containers <- OneContainer
    Profiles <- UserProfiles
    Named <- NoContainers
    FailingCalls <- AnyCallButQuery
    MaxFaults = 1
    MaxOutages = 0
    Tears = FALSE
    SlowRequests = FALSE
    Exclusive = FALSE
SYMMETRY SessionSymmetry
INVARIANTS
    UnattendedIsExplained
    RemovedLeavesNoRows
PROPERTIES
    KeepsLifecycleUntilItEnds
CHECK_DEADLOCK FALSE
