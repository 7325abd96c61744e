SPECIFICATION FairSpec
PROPERTIES
    RequestReturns
CHECK_DEADLOCK FALSE
