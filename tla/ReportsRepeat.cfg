SPECIFICATION Spec
CONSTANTS
    NumFiles = 2
    NumSuites = 2
    Contents <- AllContents
    Points <- PointsOfLines
    Starts <- Branches
    Absent = "absent"
    Added <- AddedLines
    Executes <- SuiteRuns
    Shards <- HalvesAndWhole
    Thresholds = {50, 100}
    None = None
    Refused = Refused
    MaxPoints = 3
    MaxEdits = 1
    MaxCommands = 3
PROPERTY ReportsRepeat
CHECK_DEADLOCK FALSE
