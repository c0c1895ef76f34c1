-------------------------------- MODULE Storage --------------------------------
(***************************************************************************)
(* The three steps that get a disk ready, with what StepRunner abstracts   *)
(* from: PartitionStep (s02_partition.py), FormatStep (s03_format.py) and  *)
(* MountStep (s04_mount.py), run again until all three are done.           *)
(*                                                                         *)
(* Abstracted: a disk's partitions are there or not (their names follow    *)
(* from the disk's); of the file systems only the root's is followed; a    *)
(* state.set or mark_done saves in one step, and losing the state file is  *)
(* a fault of its own (StepRunner has the save in detail).                 *)
(***************************************************************************)
EXTENDS Naturals, Sequences

CONSTANTS
    Disks,     \* in lsblk's order: a sequence
    DiskArgs,  \* values of --disk; NoDisk where it is not given
    FsArgs,    \* values of --root-fs
    NoDisk,
    NoFs,
    Faults     \* what may go wrong in this instance

DiskSet == {Disks[i] : i \in 1 .. Len(Disks)}
AllFaults == {"kill", "lost", "reboot", "sgdisk", "fdisk"}
FileSystems == {"ext4", "btrfs", "xfs", "f2fs"}

ASSUME StorageAssumption ==
    /\ Disks \in Seq(DiskSet) /\ Len(Disks) > 0 /\ NoDisk \notin DiskSet
    /\ DiskArgs \subseteq DiskSet \cup {NoDisk}
    /\ FsArgs \subseteq FileSystems /\ NoFs \notin FileSystems
    /\ Faults \subseteq AllFaults

VARIABLES
    uefi,      \* the machine boots with UEFI
    parted,   \* disks that have the layout's partitions
    holds,    \* the file system whose signature lies where root is
    root,     \* the disk mounted at the mountpoint
    boot,     \* the disk whose boot partition is mounted below it
    swaps,    \* disks that are swapped on
    conf,     \* the state file's disk, partitions, root_fs
    done,     \* steps the state file lists
    args,     \* --disk and --root-fs of this run
    chosen,   \* execute()'s local `disk'
    calm,     \* nothing goes wrong any more (an environment's choice)
    at        \* control point

kernel == <<uefi, parted, holds, root, boot, swaps>>
record == <<conf, done>>
vars   == <<kernel, record, args, chosen, calm, at>>

NoConf == [disk |-> NoDisk, partitions |-> NoDisk, root_fs |-> NoFs]
Points == {"off", "select", "wipe", "create", "setDisk", "setParts", "partitioned",
           "format", "mkfs", "setFs", "formatted",
           "mount", "mountBoot", "swapon", "mounted", "over"}

May(f) == f \in Faults /\ ~calm
GoTo(point) == at' = point
Leave == at' = "off" /\ chosen' = NoDisk
Busy(d) == root = d \/ boot = d \/ d \in swaps

Init == /\ uefi \in BOOLEAN
        /\ parted = {}
        /\ holds = [d \in DiskSet |-> NoFs]
        /\ root = NoDisk /\ boot = NoDisk /\ swaps = {}
        /\ conf = NoConf /\ done = {}
        /\ args \in [disk : DiskArgs, root_fs : FsArgs]
        /\ chosen = NoDisk /\ calm = FALSE /\ at = "off"

\* A run of the installer, which goes to the first step not done.
Launch == /\ at = "off"
          /\ args' \in [disk : DiskArgs, root_fs : FsArgs]
          /\ \/ "disk_select" \notin done /\ GoTo("select")
             \/ "disk_select" \in done /\ "format" \notin done /\ GoTo("format")
             \/ {"disk_select", "format"} \subseteq done /\ "mount" \notin done /\ GoTo("mount")
             \/ {"disk_select", "format", "mount"} \subseteq done /\ GoTo("over")
          /\ UNCHANGED <<kernel, record, chosen, calm>>

\* Step.run is over: mark_done.
Mark(step, from, to) == /\ at = from /\ GoTo(to)
                        /\ done' = done \cup {step}
                        /\ UNCHANGED <<kernel, conf, args, chosen, calm>>
-----------------------------------------------------------------------------
(* PartitionStep.                                                          *)

\* list_disks()[0]: the first disk of lsblk, or of /sys/block, that is not
\* mounted itself.  One whose partitions are is listed.
FirstListed == Disks[1]

\* self._disk, or the one of an earlier attempt, or the first listed.
SelectDisk == /\ at = "select" /\ GoTo("wipe")
              /\ chosen' = IF args.disk # NoDisk THEN args.disk
                           ELSE IF conf.disk # NoDisk THEN conf.disk
                           ELSE FirstListed
              /\ UNCHANGED <<kernel, record, args, calm>>

\* wipefs and sgdisk --zap-all; what a partition held stays in its place.
WipeDisk == /\ at = "wipe" /\ ~Busy(chosen)
            /\ parted' = parted \ {chosen}
            /\ GoTo("create")
            /\ UNCHANGED <<uefi, holds, root, boot, swaps, record, args, chosen, calm>>

WipeRefused == /\ at = "wipe" /\ Busy(chosen)
               /\ Leave
               /\ UNCHANGED <<kernel, record, args, calm>>

CreateLayout == /\ at = "create"
                /\ parted' = parted \cup {chosen}
                /\ GoTo("setDisk")
                /\ UNCHANGED <<uefi, holds, root, boot, swaps, record, args, chosen, calm>>

\* sgdisk is run with check=True ...
SgdiskFails == /\ at = "create" /\ uefi /\ May("sgdisk")
               /\ Leave
               /\ UNCHANGED <<kernel, record, args, calm>>

\* ... while nobody looks at what became of fdisk.
FdiskFails == /\ at = "create" /\ ~uefi /\ May("fdisk")
              /\ GoTo("setDisk")
              /\ UNCHANGED <<kernel, record, args, chosen, calm>>

SetDisk == /\ at = "setDisk" /\ GoTo("setParts")
           /\ conf' = [conf EXCEPT !.disk = chosen]
           /\ UNCHANGED <<kernel, done, args, chosen, calm>>

SetPartitions == /\ at = "setParts" /\ GoTo("partitioned")
                 /\ conf' = [conf EXCEPT !.partitions = chosen]
                 /\ UNCHANGED <<kernel, done, args, chosen, calm>>

PartitionDone == Mark("disk_select", "partitioned", "format")
-----------------------------------------------------------------------------
(* FormatStep: `parts' is conf.partitions.                                 *)

Target == conf.partitions
RootFs == IF conf.root_fs # NoFs THEN conf.root_fs ELSE args.root_fs

\* mkfs of the boot partition and mkswap need partitions not in use.
FormatBoot == /\ at = "format" /\ Target \in parted /\ ~Busy(Target)
              /\ GoTo("mkfs")
              /\ UNCHANGED <<kernel, record, args, chosen, calm>>

\* Faulty form: mkfs.xfs without -f.
Overwrites_XfsUnforced(fs, old) == fs \in {"f2fs", "xfs"} => old = NoFs

\* The root's mkfs.  -f is given to mkfs.btrfs and mkfs.xfs; mkfs.ext4 does
\* not ask without a terminal; mkfs.f2fs refuses to replace a file system.
Overwrites(fs, old) == fs = "f2fs" => old = NoFs

FormatRoot == /\ at = "mkfs" /\ Overwrites(RootFs, holds[Target])
              /\ holds' = [holds EXCEPT ![Target] = RootFs]
              /\ GoTo("setFs")
              /\ UNCHANGED <<uefi, parted, root, boot, swaps, record, args, chosen, calm>>

FormatFails == /\ \/ at = "format" /\ (Target \notin parted \/ Busy(Target))
                  \/ at = "mkfs" /\ ~Overwrites(RootFs, holds[Target])
               /\ Leave
               /\ UNCHANGED <<kernel, record, args, calm>>

\* Faulty form: the value of the command line is stored.
SetFs_Arg == /\ at = "setFs" /\ GoTo("formatted")
             /\ conf' = [conf EXCEPT !.root_fs = args.root_fs]
             /\ UNCHANGED <<kernel, done, args, chosen, calm>>
SetFs == /\ at = "setFs" /\ GoTo("formatted")
         /\ conf' = [conf EXCEPT !.root_fs = RootFs]
         /\ UNCHANGED <<kernel, done, args, chosen, calm>>

FormatDone == Mark("format", "formatted", "mount")
-----------------------------------------------------------------------------
(* MountStep.                                                              *)

\* Mounted already, by whomever and whatever it is: left alone.
MountRoot == /\ at = "mount" /\ GoTo("mountBoot")
             /\ root' = IF root = NoDisk THEN Target ELSE root
             /\ UNCHANGED <<uefi, parted, holds, boot, swaps, record, args, chosen, calm>>

\* Faulty form: the root's mount answers for the boot partition's.
MountBoot_WithRoot ==
    /\ at = "mountBoot" /\ GoTo("swapon")
    /\ boot' = IF root = NoDisk THEN Target ELSE boot
    /\ UNCHANGED <<uefi, parted, holds, root, swaps, record, args, chosen, calm>>

MountBoot == /\ at = "mountBoot" /\ GoTo("swapon")
             /\ boot' = IF boot = NoDisk THEN Target ELSE boot
             /\ UNCHANGED <<uefi, parted, holds, root, swaps, record, args, chosen, calm>>

SwapOn == /\ at = "swapon" /\ GoTo("mounted")
          /\ swaps' = swaps \cup {Target}
          /\ UNCHANGED <<uefi, parted, holds, root, boot, record, args, chosen, calm>>

MountDone == Mark("mount", "mounted", "over")
-----------------------------------------------------------------------------
(* What cuts a run short.                                                  *)

Kill == /\ May("kill") /\ at # "off"
        /\ Leave
        /\ UNCHANGED <<kernel, record, args, calm>>

\* Killed within a save: the state file does not parse.
KillInSave == /\ May("lost") /\ at # "off"
              /\ Leave
              /\ conf' = NoConf /\ done' = {}
              /\ UNCHANGED <<kernel, args, calm>>

\* The live system's files and mounts are gone.
Reboot == /\ May("reboot")
          /\ Leave
          /\ root' = NoDisk /\ boot' = NoDisk /\ swaps' = {}
          /\ conf' = NoConf /\ done' = {}
          /\ UNCHANGED <<uefi, parted, holds, args, calm>>

CalmDown == /\ ~calm /\ calm' = TRUE
            /\ UNCHANGED <<kernel, record, args, chosen, at>>

Work == \/ SelectDisk \/ WipeDisk \/ WipeRefused \/ CreateLayout \/ SgdiskFails
        \/ FdiskFails \/ SetDisk \/ SetPartitions \/ PartitionDone
        \/ FormatBoot \/ FormatRoot \/ FormatFails \/ SetFs \/ FormatDone
        \/ MountRoot \/ MountBoot \/ SwapOn \/ MountDone

Next == Launch \/ Work \/ Kill \/ KillInSave \/ Reboot \/ CalmDown

Spec == Init /\ [][Next]_vars

\* A running step goes on and the user runs the installer again.
FairSpec == Spec /\ WF_vars(Work) /\ WF_vars(Launch)
-----------------------------------------------------------------------------
TypeOK == /\ uefi \in BOOLEAN
          /\ parted \subseteq DiskSet
          /\ holds \in [DiskSet -> FileSystems \cup {NoFs}]
          /\ {root, boot, chosen} \subseteq DiskSet \cup {NoDisk}
          /\ swaps \subseteq DiskSet
          /\ conf \in [disk : DiskSet \cup {NoDisk},
                       partitions : DiskSet \cup {NoDisk},
                       root_fs : FileSystems \cup {NoFs}]
          /\ done \subseteq {"disk_select", "format", "mount"}
          /\ args \in [disk : DiskArgs, root_fs : FsArgs]
          /\ calm \in BOOLEAN /\ at \in Points

\* The state file was lost while a disk was mounted.
MountForgotten == root # NoDisk /\ conf.disk = NoDisk

\* What the later steps write to, name in fstab and put the boot loader on is
\* one disk: the mounts are those of the partitions on record, however often
\* the steps were cut short and whatever --disk each run was given, unless
\* the record of a mounted disk was ever lost (s04_mount.py 55-64,
\* s09_bootloader.py 62-66, 89).
MountedIsRecorded ==
    []~MountForgotten =>
        [](at = "over" => root = conf.partitions /\ boot = root /\ conf.disk = root)

\* A recorded step has its result on the disk it recorded: the partitions are
\* there, with the file system that kernel configuration and fstab are told
\* of, whatever --root-fs later runs are given (base.py 35: `Execute the
\* step. Raises StepError on failure.').  On BIOS machines nobody looks at
\* whether fdisk worked.
RecordedReady ==
    /\ uefi /\ "disk_select" \in done => conf.partitions \in parted
    /\ "format" \in done => holds[conf.partitions] = conf.root_fs

\* The partitions on record are not there.
NoPartitions == "disk_select" \in done /\ conf.partitions \notin parted
\* mkfs.f2fs, which is not forced, meets what a format step cut short left.
F2fsMeets == at = "mkfs" /\ RootFs = "f2fs" /\ holds[Target] # NoFs

\* Once nothing goes wrong any more the disk gets ready, unless fdisk failed
\* unnoticed, or the record of a mounted disk was lost, or mkfs.f2fs met
\* what an interrupted format left (README.md 28-29, 192: `All steps are idempotent.').
GetsReady == [](~NoPartitions /\ ~MountForgotten /\ ~F2fsMeets) => (calm ~> at = "over")
=============================================================================
