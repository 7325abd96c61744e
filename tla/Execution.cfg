SPECIFICATION FairSpec
INVARIANTS
    GroupStoppedAtReturn
    DrainBoundIsDue
PROPERTIES
    ImplementsContract
    InterruptionReturns
    ExitReturns
CHECK_DEADLOCK FALSE
