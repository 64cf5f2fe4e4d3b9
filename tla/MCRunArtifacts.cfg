SPECIFICATION Spec
CONSTANTS
    r1 = r1
    r2 = r2
    Runs <- TwoRuns
    Old = "old"
    User = "user"
    Verdicts = {"passed"}
    MaxTroubles = 2
SYMMETRY Alike
INVARIANTS
    TypeOK
    FinishedMeansCollected
    EvidenceOutlivesFailedRuns
PROPERTIES
    RicherIndexKept
    UserDirectoryKept
    LatestRunOnly
