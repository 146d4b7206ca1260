SPECIFICATION FairSpec
CONSTANTS
    None = None
    Hosts <- AllHosts
    Signals <- AllSignals
    MaxRegistered = 3
INVARIANTS
    TypeOK
    ExitIsOrderly
    CheckedConfigStarts
    ServedDynamicIsValid
PROPERTIES
    SignalledShutdownIsNotForced
    AbortEndsProcess
    FailedStartEnds
CHECK_DEADLOCK FALSE
