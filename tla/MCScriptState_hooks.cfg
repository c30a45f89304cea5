\* The hooks: one root, one member of every other class, three generations.
SPECIFICATION Spec
CONSTANTS
    Val <- MCVal
    Default = 0
    Roots = {"words"}
    StringRoots = {"words"}
    Copied = {"total"}
    Requested = {"evaluator"}
    Varip = {"ticks"}
    InsertMayTear = FALSE
    MaxGeneration = 3
    MaxLen = 1
    MaxRecords = 3
INVARIANTS
    TypeOK
    JournalFollowsHooks
PROPERTIES
    ImplementsContract
    GenerationsNeverReused
