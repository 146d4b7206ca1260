SPECIFICATION FairSpec
CONSTANTS
    job = job
    task = task
    None = None
    Sessions = {s1, s2}
    Listeners = {l1, l2}
    Processes = {job, task}
    Pids <- AllPids
    Profiles <- Levels
    Changes <- Reconfigured
    MaxRequests = 1
    MaxFaults = 1
INVARIANTS
    TypeOK
    
    StopIsExplained
    
PROPERTIES
    EndStopsContainer
    ListenersEnd
CHECK_DEADLOCK FALSE
