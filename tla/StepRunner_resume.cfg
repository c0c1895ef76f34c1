SPECIFICATION FairSpec
CONSTANTS
    Procs = {p1}
    p1 = p1
    Plan <- Stage1Steps
    MountStep = "mount"
    UnmountStep = "unmount"
    AgentStep = "continuation_agent"
    Wipes <- WipingSteps
    InTarget <- TargetSteps
    Stores <- StoringSteps
    Faults = {"kill", "torn", "ctrlc", "steperror", "reboot"}
    LivePersists = FALSE
    NoStep = NoStep
    Absent = Absent
    Empty = Empty
    Torn = Torn
INVARIANTS
    TypeOK
    RecordedInPlace
    WritesHitTarget
    BootReady
    RecordedBeforeNext
PROPERTIES
    CompletedSkipped
    KeepsJournal
    Completes
