\* A count and slack of one: with a drawing pinned, collecting cannot reach the count.
SPECIFICATION Spec
CONSTANTS
    Pinning = {"v"}
    Varip = {"v"}
    Plain = {"x"}
    Keep = 1
    Slack = 1
    MaxDrawings = 5
INVARIANTS TypeOK LiveCountBounded HandlesNameTheirDrawing
PROPERTIES RollbackIsWhole CollectsOldestUnheld
