SPECIFICATION FairSpec
CONSTANTS
    N = 3
    Parallel = 2
    Exits <- MCExits
    MaxInterrupts = 2
    MaxSpawnFaults = 1
INVARIANTS
    TypeOK
    AbortReachesEverySpawn
    NotRunMeansNeverStarted
    HonestVerdict
    BoundedProcesses
PROPERTY RunEnds
