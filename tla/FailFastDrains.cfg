SPECIFICATION Spec
CONSTANTS
    N = 3
    Parallel = 2
    Exits <- MCExits
    MaxInterrupts = 0
    MaxSpawnFaults = 0
INVARIANT FailFastDrains
