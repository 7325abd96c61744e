SPECIFICATION ManagementSpec
CONSTANTS
    i1 = i1
    i2 = i2
    Gonners = {g1, g2, g3}
    Conns = {c1, c2}
    Slots = 1
    NoSocket = NoSocket
    Insts = {i1, i2}
    Processes <- MCProcesses
    Namings <- MCNamings
    CriticalSets = {{}, {"a"}, {"a", "b"}}
    MaxRestarts = 1
SYMMETRY MCSymmetry
INVARIANTS
    LiveSocketKept
    SlotsExact
    AnswersHoldDuring
CHECK_DEADLOCK FALSE
