SPECIFICATION FairSpec
CONSTANTS
    Tests = 1
    Retries = 1
    HookSets <- MCHookSets
    Faults = 2
INVARIANTS
    TypeOK
    OwnWakeup
    PassedMeansBodyRan
    PassedRunIsClean
PROPERTIES
    NoLateStart
    SuiteEnds
