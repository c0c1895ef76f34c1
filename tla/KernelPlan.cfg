SPECIFICATION Spec
CONSTANTS
    Files <- DriverFiles
    ObjLines <- Objects
    Slots <- AllSlots
    LastFn = 2
    SameButHyphens <- Hyphens
    Prefixes <- Beginnings
    Machines <- SmallMachines
    KeyOrders <- TwoOrders
INVARIANTS
    DriversFound
    NothingForeign
    ChainBuiltIn
    ScanExact
    DtLeavesFound
CHECK_DEADLOCK FALSE
