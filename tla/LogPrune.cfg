SPECIFICATION Spec
CONSTANTS
    Writers = {api}
    Limit = 1
    MaxBackups = 1
    Faults = {"compress"}
    MaxWrites = 4
    MaxCrashes = 0
INVARIANT BackupsRetained
