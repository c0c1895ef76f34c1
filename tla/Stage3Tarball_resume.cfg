SPECIFICATION FairSpec
CONSTANTS
    old = old
    new = new
    Builds <- TwoBuilds
    UrlArgs <- AnyUrl
    NoBuild = NoBuild
    Faults = {"kill", "cut", "mirror", "replaced", "deleted"}
INVARIANTS
    TargetIsOneBuild
PROPERTIES
    GetsExtracted
CHECK_DEADLOCK FALSE
