SPECIFICATION GonnerFairSpec
CONSTANTS
    Shutdown = {SIGTERM}
    Forwarded = {SIGHUP}
    Capacity = 2
    MaxSignals = 3
INVARIANT HealthAnswersShutdown
CHECK_DEADLOCK FALSE
