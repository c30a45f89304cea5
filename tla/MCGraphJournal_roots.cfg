\* A map, a numeric matrix and every hook: records of several roots in one journal.
SPECIFICATION Spec
CONSTANTS
    Keys = {"k1"}
    Val <- MCVal
    Na = Na
    MaxSize = 1
    MapRoots = {"m"}
    GenericRoots = {}
    NumericRoots = {"n"}
    AddRowMayTear = FALSE
    MaxGeneration = 2
    MaxRecords = 3
INVARIANTS TypeOK RecordsLinkPayloads LatchMatchesRecords
PROPERTIES ImplementsContract
