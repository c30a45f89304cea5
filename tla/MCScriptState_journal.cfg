\* The undo log: two roots of different element families, any two records.
SPECIFICATION Spec
CONSTANTS
    Val <- MCVal
    Default = 0
    Roots = {"nums", "words"}
    StringRoots = {"words"}
    Copied = {}
    Requested = {}
    Varip = {}
    InsertMayTear = FALSE
    MaxGeneration = 2
    MaxLen = 2
    MaxRecords = 2
INVARIANTS
    RecordsRebuildCheckpoint
    RecordsLinkContents
    TokensMatchJournal
    UndosInRange
