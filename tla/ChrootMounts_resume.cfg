SPECIFICATION Spec
CONSTANTS
    first = first
    Procs <- One
    MaxStack = 2
    Faults = {"kill", "mount", "command"}
INVARIANTS
    ChrootIsMounted
    NothingStacked
    ContextCleansUp
