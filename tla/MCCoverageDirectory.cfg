SPECIFICATION Spec
CONSTANTS
    s1 = s1
    s2 = s2
    NumFiles = 2
    Sources <- TwoSources
    Empty = Empty
    Broken = Broken
    Absent = Absent
    None = None
    Torn = Torn
    Outdated = Outdated
    MaxEdits = 2
    MaxCommands = 3
    MaxBeats = 1
SYMMETRY Alike
INVARIANTS
    TypeOK
    OwnReport
    GatedMeansComplete
    PlayedIsReported
PROPERTY SettledProjectHits
CHECK_DEADLOCK FALSE
