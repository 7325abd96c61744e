SPECIFICATION GonnerFairSpec
CONSTANTS
    Shutdown = {SIGTERM}
    Forwarded = {SIGHUP}
    Capacity = 2
    MaxSignals = 3
INVARIANTS
    NothingLeftRunning
    FailureReachesExit
PROPERTIES
    QueuedShutdownEnds
    FailureEnds
CHECK_DEADLOCK FALSE
