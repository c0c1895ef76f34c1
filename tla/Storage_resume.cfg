SPECIFICATION FairSpec
CONSTANTS
    sda = sda
    sdb = sdb
    Disks <- TwoDisks
    DiskArgs <- AnyDisk
    FsArgs = {"ext4", "xfs", "f2fs"}
    NoDisk = NoDisk
    NoFs = NoFs
    Faults = {"kill", "lost", "reboot", "sgdisk", "fdisk"}
INVARIANTS
    RecordedReady
PROPERTIES
    MountedIsRecorded
    GetsReady
CHECK_DEADLOCK FALSE
