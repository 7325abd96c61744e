SPECIFICATION FairStartSpec
CONSTANTS
    RawConfigs <- MCConfigs
    Strings <- MCStrings
    NoName = ""
    SimpleNames <- MCSimple
    CopyName <- MCCopyName
INVARIANTS
    VerdictExact
    IdsUnique
    DecisionHasReason
PROPERTIES
    AcceptedStarts
CHECK_DEADLOCK FALSE
