SPECIFICATION Spec
CONSTANTS
    job = job
    task = task
    None = None
    Sessions = {s1, s2}
    Listeners = {l1, l2}
    Processes = {job, task}
    Pids <- LostPids
    Profiles <- Jobs
    Changes <- Reconfigured
    MaxRequests = 0
    MaxFaults = 0
PROPERTIES
    StopsAsConfigured
CHECK_DEADLOCK FALSE
