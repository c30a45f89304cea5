\* A rolled-back window of a varip array.
SPECIFICATION Spec
CONSTANTS
    Arrays = {"v", "k"}
    Kept = {"k"}
    Storages = {s1, s2, s3}
    Val = {v1, v2}
    MaxLen = 1
    MaxElements = 2
PROPERTIES VaripSurvivesRestore
