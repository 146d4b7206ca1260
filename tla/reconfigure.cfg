SPECIFICATION Spec
CONSTANTS
    Requests = {r1, r2}
    r1 = r1
    r2 = r2
    Session = Session
    Nil = Nil
    Profiles <- SomeProfiles
    Bodies <- SomeBodies
    FailingCalls <- AllCalls
    MaxFaults = 1
    MaxOutages = 1
    MaxVisits = 2
    Overlap = TRUE
SYMMETRY Interchangeable
INVARIANTS
    TypeOK StoredIsConfig DockerFollowsConfig RemovedLeavesNoSettings
    ConfigWasAsked KeptIsNotRemoved KeptCanReturn
CHECK_DEADLOCK FALSE
