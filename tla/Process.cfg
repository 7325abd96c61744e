SPECIFICATION FairSpec
CONSTANTS
    MaxAttempts = 3
    RetryLimits = {0, 1}
INVARIANTS
    StaleRequestNeverStops
    RetryBudget
    RunningIsCurrent
PROPERTIES
    ImplementsPublishedState
    ReplacementAfterReap
    RestartHonoured
    CancelEnds
CHECK_DEADLOCK FALSE
