\* One rolled-back array and one varip array, any a window of any.
SPECIFICATION Spec
CONSTANTS
    Arrays = {"a", "k"}
    Kept = {"k"}
    Storages = {s1, s2, s3}
    Val = {v1, v2}
    MaxLen = 2
    MaxElements = 4
SYMMETRY Symmetry
INVARIANTS TypeOK WindowsInBounds HeldStoragesKeepLength
PROPERTIES ImplementsElements UnsharedVaripSurvives
