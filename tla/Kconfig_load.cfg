SPECIFICATION LoadSpec
CONSTANTS
    a = a
    b = b
    c = c
    Symbols = {a, b, c}
    Spelling <- SmallSpelling
    MODULES = MODULES
    Inputs <- SmallInputs
    Databases <- SmallDatabases
    Requests <- SmallRequests
INVARIANTS
    ReturnsLeast
    ParsesEntries
    DependsRead
PROPERTIES
    Returns
CHECK_DEADLOCK FALSE
