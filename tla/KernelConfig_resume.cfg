SPECIFICATION FairSpec
CONSTANTS
    old = old
    new = new
    Trees <- TwoTrees
    Here = Here
    Missing = Missing
    Unset = Unset
    Symbols <- AllSymbols
    Base <- TableBase
    DisabledSymbols <- TableDisabled
    Static <- TableStatic
    AcpiSymbols = {"ACPI", "PCI_MMCONFIG"}
    Modules <- MatchingModules
    ConfigsOf <- MakefileConfigs
    Pulls <- PulledSymbols
    Depends <- DependedSymbols
    Bools <- BoolSymbols
    DriverValue = "m"
    Caching = TRUE
    Faults = {"unset", "missing", "kill", "torn", "make"}
    Absent = Absent
    Torn = Torn
INVARIANTS
    StaticWritten
    EssentialWritten
    DriversAsked
    InstalledIsConfigured
    StaticSurvives
PROPERTIES
    Configures
CHECK_DEADLOCK FALSE
