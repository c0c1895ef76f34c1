SPECIFICATION FairSpec
CONSTANTS
    Stage1Done <- Handed
    UnmountStep = "unmount"
    AgentStep = "continuation_agent"
    Manual = FALSE
    Faults = {}
    NoStep = NoStep
    Absent = Absent
    Empty = Empty
    Torn = Torn
PROPERTY StartsByItself
CHECK_DEADLOCK FALSE
