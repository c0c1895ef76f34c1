SPECIFICATION Spec
CONSTANTS
    Procs = {p1, p2}
    p1 = p1
    p2 = p2
    Plan <- ShortSteps
    MountStep = "mount"
    UnmountStep = "unmount"
    AgentStep = "continuation_agent"
    Wipes <- ShortWiping
    InTarget <- ShortTarget
    Stores <- ShortStoring
    Faults = {"enospc"}
    LivePersists = TRUE
    NoStep = NoStep
    Absent = Absent
    Empty = Empty
    Torn = Torn
SYMMETRY Logins
INVARIANTS
    RecordsInOrder
