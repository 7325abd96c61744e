SPECIFICATION Spec
CONSTANTS
    Writers = {api, worker}
    Limit = 2
    MaxBackups = 1
    Faults = {"open", "link", "unlink", "compress", "write"}
    MaxWrites = 6
    MaxCrashes = 1
INVARIANTS
    NothingLost
    SharedFileUsable
    RotationBounds
