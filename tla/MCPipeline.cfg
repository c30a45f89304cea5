\* Three declarations of one name, at most one of them direct; two of three types are scalars.
SPECIFICATION Spec
CONSTANTS
    Declarations = {1, 2, 3}
    Name <- MCName
    Functions = {f, g}
    Types = {"int", "double", "string"}
    Unknown = "unknown"
    Scalars = {"int", "double"}
    Seconds = 1
    MaxClock = 1
INVARIANTS TypeOK RestartsBounded ReturnedIsSettled
PROPERTIES LateWorkStops Terminates
