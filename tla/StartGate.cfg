SPECIFICATION FairSpec
CONSTANT Procs = {p1, p2, p3}
PROPERTIES
    ImplementsGate
    AnswersInTime
CHECK_DEADLOCK FALSE
