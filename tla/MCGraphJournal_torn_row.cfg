\* A matrix of rows whose add_row may leave a row inserted when it throws.
SPECIFICATION Spec
CONSTANTS
    Keys = {"k1"}
    Val <- MCVal
    Na = Na
    MaxSize = 2
    MapRoots = {}
    GenericRoots = {"g"}
    NumericRoots = {}
    AddRowMayTear = TRUE
    MaxGeneration = 1
    MaxRecords = 1
PROPERTIES ImplementsContract
