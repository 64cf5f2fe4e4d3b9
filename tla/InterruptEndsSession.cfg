SPECIFICATION FairSpec
CONSTANTS
    Files = {"enemy", "test_enemy", "test_map"}
    Suites = {"test_enemy", "test_map"}
    Names <- MCNames
    Filter = "none"
    NoSuite = "none"
    MaxSaves = 0
    MaxInterrupts = 1
PROPERTY InterruptEndsSession
