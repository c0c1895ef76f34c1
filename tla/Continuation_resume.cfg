SPECIFICATION FairSpec
CONSTANTS
    Stage1Done <- Handed
    UnmountStep = "unmount"
    AgentStep = "continuation_agent"
    Manual = TRUE
    Faults = {"kill", "torn", "reboot", "emerge", "resume", "disable"}
    NoStep = NoStep
    Absent = Absent
    Empty = Empty
    Torn = Torn
INVARIANTS
    NothingBeforeWorld
PROPERTIES
    WorldOnce
    PhaseForward
    KeepsJournal
    Stage3Completes
