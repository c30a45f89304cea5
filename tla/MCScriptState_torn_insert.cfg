\* A standard library whose vector::insert may leave a gap when a copy throws.
SPECIFICATION Spec
CONSTANTS
    Val <- MCVal
    Default = 0
    Roots = {"words"}
    StringRoots = {"words"}
    Copied = {}
    Requested = {}
    Varip = {}
    InsertMayTear = TRUE
    MaxGeneration = 1
    MaxLen = 2
    MaxRecords = 1
INVARIANT RecordsRebuildCheckpoint
