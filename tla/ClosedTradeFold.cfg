\* Enough rows for two runs of two and a row after them.
SPECIFICATION Spec
CONSTANTS
    Value = {v1, v2}
    MaxTime = 3
    MaxRows = 4
INVARIANTS TypeOK PrefixIsFinal
PROPERTIES MatchesPlainLoop FoldsOnce
