SPECIFICATION Spec
CONSTANTS
    here = here
    there = there
    NoPath = NoPath
    Paths <- TwoPaths
    MaxFiles = 2
    MaxEntries = 2
    MaxKept = 1
    MaxExits = 1
    MaxFaults = 1
INVARIANTS
    TypeOK
    OnePlace
    RowsTellTheTruth
PROPERTIES
    PurgeJustified
    BinEmpties
    ImplementsCustody
CHECK_DEADLOCK FALSE
