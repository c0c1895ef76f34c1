SPECIFICATION Spec
CONSTANTS
    Files <- DriverFiles
    ObjLines <- Objects
    Slots <- AllSlots
    LastFn = 2
    SameButHyphens <- Hyphens
    Prefixes <- Beginnings
    Machines <- SmallMachines
    KeyOrders <- TwoOrders
INVARIANTS
    TracedBack
CHECK_DEADLOCK FALSE
