SPECIFICATION Spec
CONSTANTS
    c1 = c1
    c2 = c2
    Commands <- TwoCommands
    NumContents = 2
    MaxEdits = 3
    Names <- MCNames
    Covered <- MCCovered
SYMMETRY Alike
INVARIANTS
    TypeOK
    NoStaleImport
    NoStaleMetadata
