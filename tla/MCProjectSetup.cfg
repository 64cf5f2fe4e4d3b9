SPECIFICATION Spec
CONSTANTS
    NumVersions = 2
    Addons = {"test", "coverage"}
    Gated = {"test", "coverage"}
    Layout <- Bundled
    ManagedFiles <- AllFiles
    Edits = {own}
    NumSuites = 2
    DirOf <- SuiteDirs
    SuiteStarts <- Projects
    Keys = {"dirs"}
    Values <- DirSettings
    Default <- DefaultDirs
    Gutconfigs <- GutDirs
    Unset = Unset
    None = None
    Absent = Absent
    Torn = Torn
    Broken = Broken
    Blind = Blind
    MaxEdits = 1
    MaxCommands = 4
INVARIANTS
    TypeOK
    EditKept
    UpgradeIsWhole
    NeverClobbered
    ApplyConverges
CHECK_DEADLOCK FALSE
