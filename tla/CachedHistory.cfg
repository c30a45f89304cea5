SPECIFICATION Spec
CONSTANTS
    Arrays = {a}
    Contents = {c1, c2}
    Empty = c1
    Unset = Unset
    Capacity = 2
    MaxToken = 5
INVARIANTS TypeOK CacheIsCurrent
PROPERTIES ImplementsPlainHistory
