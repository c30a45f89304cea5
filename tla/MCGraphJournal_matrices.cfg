\* One matrix of rows.
SPECIFICATION Spec
CONSTANTS
    Keys = {"k1"}
    Val <- MCVal
    Na = Na
    MaxSize = 2
    MapRoots = {}
    GenericRoots = {"g"}
    NumericRoots = {}
    AddRowMayTear = FALSE
    MaxGeneration = 1
    MaxRecords = 2
INVARIANTS DeltasWithinPayload RecordsLinkPayloads UndosAccepted
