SPECIFICATION FairSpec
CONSTANTS
    Pids = {p1, p2, p3}
    Runs = {r1, r2}
    Orphan = Orphan
    TheReaper = TheReaper
    None = None
INVARIANTS
    NoStolenStatus
    RegistryMirrorsWaits
    JoinLeavesNoZombie
PROPERTIES
    OrphansReaped
    ExitedRunLeaves
CHECK_DEADLOCK FALSE
