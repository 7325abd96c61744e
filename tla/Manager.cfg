SPECIFICATION FairSpec
CONSTANTS
    a = a
    b = b
    a0 = a0
    a1 = a1
    b0 = b0
    Order <- MCOrder
    InstancesOf <- MCInstances
    Modes = {"parallel", "sequential"}
    CriticalSets <- MCCritical
    DependsOn <- MCDepends
INVARIANTS
    ShutdownHasCause
    ReturnsJoined
    NoErrorLost
PROPERTIES
    ImplementsLaunchOrder
    CancelReturns
    ReportShutsDown
    DeadDependencyReleases
CHECK_DEADLOCK FALSE
