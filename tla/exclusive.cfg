SPECIFICATION Spec
CONSTANTS
    s1 = s1
    s2 = s2
    s3 = s3
    c1 = c1
    c2 = c2
    None = None
    Sessions <- TwoSessions
    Containers <- TwoContainers
    Profiles <- UserProfiles
    Named <- TwoContainers
    FailingCalls <- AnyCallButQuery
    MaxFaults = 1
    MaxOutages = 1
    Tears = FALSE
    SlowRequests = FALSE
    Exclusive = TRUE
SYMMETRY ContainerSymmetry
INVARIANTS
    AttachedIsRegistered
PROPERTIES
    KeepsLifecycle
CHECK_DEADLOCK FALSE
