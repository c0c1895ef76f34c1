----------------------------- MODULE StorageProofs -----------------------------
(***************************************************************************)
(* What partitioning, formatting and mounting leave on record is what they *)
(* left on the disk, for any disks, arguments and faults, over any number  *)
(* of interrupted runs.                                                    *)
(***************************************************************************)
EXTENDS Storage, SequenceTheorems, TLAPS

\* Control points of the three steps, and those of PartitionStep at which it
\* has chosen a disk.
Partitioning == {"select", "wipe", "create", "setDisk", "setParts", "partitioned"}
Formatting == {"format", "mkfs", "setFs", "formatted"}
Mounting == {"mount", "mountBoot", "swapon", "mounted"}

\* The steps are recorded in their order, each before the next begins.
OrderInv == /\ "format" \in done => "disk_select" \in done
            /\ "mount" \in done => "format" \in done
            /\ at \in Partitioning => "disk_select" \notin done
            /\ at \in Formatting => "disk_select" \in done /\ "format" \notin done
            /\ at \in Mounting => "format" \in done /\ "mount" \notin done
            /\ at = "over" => "mount" \in done

\* Both entries name the disk PartitionStep has chosen by the time it is
\* done, and from then on; where sgdisk partitions it, it is partitioned.
DiskInv == /\ at \in Partitioning \ {"select"} => chosen \in DiskSet
           /\ at \in {"setParts", "partitioned"} => conf.disk = chosen
           /\ at = "partitioned" => conf.partitions = chosen
           /\ "disk_select" \in done =>
                 conf.partitions \in DiskSet /\ conf.disk = conf.partitions
           /\ uefi /\ at \in {"setDisk", "setParts", "partitioned"} => chosen \in parted
           /\ uefi /\ "disk_select" \in done => conf.partitions \in parted

\* The file system on record is the one the root's mkfs made.
FsInv == /\ at = "setFs" => holds[Target] = RootFs
         /\ at = "formatted" \/ "format" \in done => holds[Target] = conf.root_fs

\* As long as the record of a mounted disk is not lost: nothing is mounted
\* before the file systems are on record, the root first, and what is mounted
\* is of the disk on record.
MountInv == /\ root # NoDisk => "format" \in done
            /\ boot # NoDisk => root # NoDisk
            /\ {root, boot} \subseteq {NoDisk, Target}
            /\ at \in {"mountBoot", "swapon", "mounted"} \/ "mount" \in done =>
                  root = Target
            /\ at \in {"swapon", "mounted"} \/ "mount" \in done => boot = Target

RecordInv == OrderInv /\ DiskInv /\ FsInv
-----------------------------------------------------------------------------
(* Types.                                                                  *)

LEMMA InitTypeOK == Init => TypeOK
  <1> SUFFICES ASSUME Init PROVE TypeOK
    OBVIOUS
  <1>1. holds \in [DiskSet -> FileSystems \cup {NoFs}]
    BY DEF Init
  <1>2. conf \in [disk : DiskSet \cup {NoDisk}, partitions : DiskSet \cup {NoDisk},
                  root_fs : FileSystems \cup {NoFs}]
    BY DEF Init, NoConf
  <1> QED
    BY <1>1, <1>2 DEF Init, TypeOK, Points

\* What the two choices come to.
LEMMA Choices ==
    ASSUME TypeOK
    PROVE  /\ FirstListed \in DiskSet
           /\ args.disk \in DiskSet \cup {NoDisk}
           /\ RootFs \in FileSystems
           /\ conf = [disk |-> conf.disk, partitions |-> conf.partitions,
                      root_fs |-> conf.root_fs]
  <1>1. FirstListed \in DiskSet
    <2>1. 1 \in 1 .. Len(Disks)
      BY StorageAssumption, LenProperties
    <2> QED
      BY <2>1 DEF FirstListed, DiskSet
  <1>2. args.disk \in DiskSet \cup {NoDisk} /\ args.root_fs \in FileSystems
    BY StorageAssumption DEF TypeOK
  <1>3. RootFs \in FileSystems
    BY <1>2 DEF TypeOK, RootFs
  <1> QED
    BY <1>1, <1>2, <1>3 DEF TypeOK

LEMMA NextTypeOK == TypeOK /\ OrderInv /\ DiskInv /\ [Next]_vars => TypeOK'
  <1> SUFFICES ASSUME TypeOK, OrderInv, DiskInv, [Next]_vars PROVE TypeOK'
    OBVIOUS
  <1> USE DEF TypeOK, Points, GoTo, Leave, kernel, record
  <1>1. CASE Launch
    BY <1>1 DEF Launch
  <1>2. CASE SelectDisk
    <2>1. chosen' \in DiskSet
      BY <1>2, Choices DEF SelectDisk
    <2> QED
      BY <1>2, <2>1 DEF SelectDisk
  <1>3. CASE WipeDisk \/ WipeRefused
    <2>1. CASE WipeDisk
      BY <2>1 DEF WipeDisk
    <2>2. CASE WipeRefused
      BY <2>2 DEF WipeRefused
    <2> QED
      BY <1>3, <2>1, <2>2
  <1>4. CASE SgdiskFails \/ FdiskFails \/ FormatBoot \/ FormatFails
    <2>1. CASE SgdiskFails
      BY <2>1 DEF SgdiskFails
    <2>2. CASE FdiskFails
      BY <2>2 DEF FdiskFails
    <2>3. CASE FormatBoot
      BY <2>3 DEF FormatBoot
    <2>4. CASE FormatFails
      BY <2>4 DEF FormatFails
    <2> QED
      BY <1>4, <2>1, <2>2, <2>3, <2>4
  <1>5. CASE SetDisk \/ SetPartitions
    <2>1. CASE SetDisk
      BY <2>1 DEF SetDisk
    <2>2. CASE SetPartitions
      BY <2>2 DEF SetPartitions
    <2> QED
      BY <1>5, <2>1, <2>2
  <1>6. CASE PartitionDone \/ FormatDone \/ MountDone
    <2>1. CASE PartitionDone
      BY <2>1 DEF PartitionDone, Mark
    <2>2. CASE FormatDone
      BY <2>2 DEF FormatDone, Mark
    <2>3. CASE MountDone
      BY <2>3 DEF MountDone, Mark
    <2> QED
      BY <1>6, <2>1, <2>2, <2>3
  <1>7. CASE FormatRoot
    <2>1. holds' \in [DiskSet -> FileSystems \cup {NoFs}]
      BY <1>7, Choices DEF FormatRoot
    <2> QED
      BY <1>7, <2>1 DEF FormatRoot
  <1>8. CASE SetFs
    BY <1>8, Choices DEF SetFs
  <1>9. CASE MountRoot \/ MountBoot
    BY <1>9 DEF MountRoot, MountBoot, Target
  <1>10. CASE Kill \/ CalmDown \/ UNCHANGED vars
    BY <1>10 DEF Kill, CalmDown, vars
  <1>11. CASE KillInSave \/ Reboot
    <2>1. conf' \in [disk : DiskSet \cup {NoDisk}, partitions : DiskSet \cup {NoDisk},
                     root_fs : FileSystems \cup {NoFs}]
      BY <1>11 DEF KillInSave, Reboot, NoConf
    <2> QED
      BY <1>11, <2>1 DEF KillInSave, Reboot
  <1>12. CASE CreateLayout
    <2>1. chosen \in DiskSet
      BY <1>12 DEF CreateLayout, DiskInv, Partitioning
    <2> QED
      BY <1>12, <2>1 DEF CreateLayout
  <1>13. CASE SwapOn
    <2>1. Target \in DiskSet
      BY <1>13 DEF SwapOn, OrderInv, DiskInv, Mounting, Target
    <2> QED
      BY <1>13, <2>1 DEF SwapOn
  <1> QED
    BY <1>1, <1>2, <1>3, <1>4, <1>5, <1>6, <1>7, <1>8, <1>9, <1>10, <1>11, <1>12,
     <1>13
     DEF Next, Work
-----------------------------------------------------------------------------
(* What is on record.                                                      *)

LEMMA InitRecordInv == Init => RecordInv
  BY DEF Init, RecordInv, OrderInv, DiskInv, FsInv, NoConf, Partitioning, Formatting,
         Mounting

LEMMA NextOrderInv == OrderInv /\ [Next]_vars => OrderInv'
  <1> SUFFICES ASSUME OrderInv, [Next]_vars PROVE OrderInv'
    OBVIOUS
  <1> USE DEF OrderInv, Partitioning, Formatting, Mounting, GoTo, Leave, record
  <1>1. CASE Launch
    BY <1>1 DEF Launch
  <1>2. CASE PartitionDone \/ FormatDone \/ MountDone
    BY <1>2 DEF PartitionDone, FormatDone, MountDone, Mark
  <1>3. CASE \/ SelectDisk \/ WipeDisk \/ WipeRefused \/ CreateLayout \/ SgdiskFails
             \/ FdiskFails \/ SetDisk \/ SetPartitions
    BY <1>3 DEF SelectDisk, WipeDisk, WipeRefused, CreateLayout, SgdiskFails,
                FdiskFails, SetDisk, SetPartitions
  <1>4. CASE \/ FormatBoot \/ FormatRoot \/ FormatFails \/ SetFs \/ MountRoot
             \/ MountBoot \/ SwapOn
    BY <1>4 DEF FormatBoot, FormatRoot, FormatFails, SetFs, MountRoot, MountBoot,
                SwapOn
  <1>5. CASE KillInSave \/ Reboot
    BY <1>5 DEF KillInSave, Reboot
  <1>6. CASE Kill \/ CalmDown \/ UNCHANGED vars
    BY <1>6 DEF Kill, CalmDown, vars
  <1> QED
    BY <1>1, <1>2, <1>3, <1>4, <1>5, <1>6 DEF Next, Work

\* PartitionStep.
LEMMA NextPartitions ==
    ASSUME TypeOK, RecordInv,
           \/ SelectDisk \/ WipeDisk \/ WipeRefused \/ CreateLayout \/ SgdiskFails
           \/ FdiskFails \/ SetDisk \/ SetPartitions \/ PartitionDone
    PROVE  DiskInv' /\ FsInv'
  <1> USE DEF RecordInv, DiskInv, FsInv, Partitioning, GoTo, Leave, kernel, record
  <1>1. /\ at \in Partitioning /\ "disk_select" \notin done /\ "format" \notin done
        /\ at' \notin {"setFs", "formatted"} /\ uefi' = uefi
    BY DEF OrderInv, SelectDisk, WipeDisk, WipeRefused, CreateLayout, SgdiskFails,
           FdiskFails, SetDisk, SetPartitions, PartitionDone, Mark
  <1>2. CASE SelectDisk
    <2>1. chosen' \in DiskSet
      BY <1>2, Choices DEF SelectDisk, TypeOK
    <2> QED
      BY <1>1, <1>2, <2>1 DEF SelectDisk
  <1>3. CASE WipeDisk \/ CreateLayout \/ FdiskFails
    BY <1>1, <1>3 DEF WipeDisk, CreateLayout, FdiskFails
  <1>4. CASE WipeRefused \/ SgdiskFails
    BY <1>1, <1>4 DEF WipeRefused, SgdiskFails
  <1>5. CASE SetDisk
    BY <1>1, <1>5 DEF SetDisk, TypeOK
  <1>6. CASE SetPartitions
    BY <1>1, <1>6 DEF SetPartitions, TypeOK
  <1>7. CASE PartitionDone
    BY <1>1, <1>7 DEF PartitionDone, Mark
  <1> QED
    BY <1>2, <1>3, <1>4, <1>5, <1>6, <1>7

\* FormatStep.
LEMMA NextFormats ==
    ASSUME TypeOK, RecordInv,
           FormatBoot \/ FormatRoot \/ FormatFails \/ SetFs \/ FormatDone
    PROVE  DiskInv' /\ FsInv'
  <1> USE DEF RecordInv, DiskInv, FsInv, Partitioning, GoTo, Leave, kernel, record
  <1>1. /\ "disk_select" \in done /\ "format" \notin done /\ Target \in DiskSet
        /\ at' \notin Partitioning /\ UNCHANGED <<uefi, parted>>
        /\ conf'.disk = conf.disk /\ conf'.partitions = conf.partitions
    BY DEF OrderInv, Formatting, FormatBoot, FormatRoot, FormatFails, SetFs,
           FormatDone, Mark, Target, TypeOK
  <1>2. CASE FormatBoot \/ FormatFails
    BY <1>1, <1>2 DEF FormatBoot, FormatFails
  <1>3. CASE FormatRoot
    <2>1. holds'[Target] = RootFs /\ RootFs' = RootFs /\ Target' = Target
      BY <1>1, <1>3 DEF FormatRoot, TypeOK, RootFs, Target
    <2> QED
      BY <1>1, <1>3, <2>1 DEF FormatRoot
  <1>4. CASE SetFs
    <2>1. /\ holds' = holds /\ Target' = Target /\ conf'.root_fs = RootFs
          /\ holds[Target] = RootFs
      BY <1>4 DEF SetFs, TypeOK, Target
    <2> QED
      BY <1>1, <1>4, <2>1 DEF SetFs
  <1>5. CASE FormatDone
    <2>1. UNCHANGED <<holds, conf>> /\ holds[Target] = conf.root_fs /\ Target' = Target
      BY <1>5 DEF FormatDone, Mark, Target
    <2> QED
      BY <1>1, <1>5, <2>1 DEF FormatDone, Mark
  <1> QED
    BY <1>2, <1>3, <1>4, <1>5

\* All other steps.
LEMMA NextLeaves ==
    ASSUME RecordInv,
           \/ MountRoot \/ MountBoot \/ SwapOn \/ MountDone \/ Launch
           \/ Kill \/ KillInSave \/ Reboot \/ CalmDown \/ UNCHANGED vars
    PROVE  DiskInv' /\ FsInv'
  <1> USE DEF RecordInv, DiskInv, FsInv, Partitioning, GoTo, Leave, kernel, record
  <1>1. CASE MountRoot \/ MountBoot \/ SwapOn \/ MountDone
    BY <1>1 DEF MountRoot, MountBoot, SwapOn, MountDone, Mark, Target
  <1>2. CASE Launch \/ Kill
    BY <1>2 DEF Launch, Kill, Target
  <1>3. CASE KillInSave \/ Reboot
    BY <1>3 DEF KillInSave, Reboot
  <1>4. CASE CalmDown \/ UNCHANGED vars
    BY <1>4 DEF CalmDown, vars, Target, RootFs
  <1> QED
    BY <1>1, <1>2, <1>3, <1>4

LEMMA NextRecordInv == TypeOK /\ RecordInv /\ [Next]_vars => RecordInv'
  BY NextOrderInv, NextPartitions, NextFormats, NextLeaves DEF RecordInv, Next, Work

LEMMA RecordAlways == Spec => [](TypeOK /\ RecordInv)
  <1>1. TypeOK /\ RecordInv /\ [Next]_vars => TypeOK' /\ RecordInv'
    BY NextTypeOK, NextRecordInv DEF RecordInv
  <1> QED
    BY <1>1, InitTypeOK, InitRecordInv, PTL DEF Spec

\* The state of the three steps has the types TypeOK gives it, for all disks,
\* arguments and faults.
THEOREM TypeCorrect == Spec => []TypeOK
  BY RecordAlways, PTL

\* A recorded step has its result on the disk it recorded, for any disks and
\* any --disk and --root-fs of the runs (s02_partition.py 193-214,
\* s03_format.py 45-70).
THEOREM RecordedIsReady == Spec => []RecordedReady
  <1>1. RecordInv => RecordedReady
    BY DEF RecordInv, DiskInv, FsInv, RecordedReady, Target
  <1> QED
    BY <1>1, RecordAlways, PTL
-----------------------------------------------------------------------------
(* What is mounted.                                                        *)

LEMMA InitMountInv == Init => MountInv
  BY DEF Init, MountInv, NoConf

LEMMA NextMountInv ==
    TypeOK /\ RecordInv /\ MountInv /\ ~MountForgotten /\ ~MountForgotten'
        /\ [Next]_vars => MountInv'
  <1> SUFFICES ASSUME TypeOK, RecordInv, MountInv, ~MountForgotten', [Next]_vars
               PROVE  MountInv'
    OBVIOUS
  <1> USE DEF MountInv, GoTo, Leave, kernel, record, Target
  <1>1. CASE Launch \/ Kill
    BY <1>1 DEF Launch, Kill
  <1>2. CASE CalmDown \/ UNCHANGED vars
    BY <1>2 DEF CalmDown, vars
  <1>3. CASE \/ SelectDisk \/ WipeDisk \/ WipeRefused \/ CreateLayout \/ SgdiskFails
             \/ FdiskFails \/ SetDisk \/ SetPartitions \/ PartitionDone
    <2>1. root = NoDisk /\ boot = NoDisk /\ "mount" \notin done
      BY <1>3 DEF RecordInv, OrderInv, Partitioning, SelectDisk, WipeDisk, WipeRefused,
                  CreateLayout, SgdiskFails, FdiskFails, SetDisk, SetPartitions,
                  PartitionDone, Mark
    <2>2. /\ UNCHANGED <<root, boot>> /\ "mount" \notin done'
          /\ at' \notin {"mountBoot", "swapon", "mounted"}
      BY <1>3, <2>1
         DEF SelectDisk, WipeDisk, WipeRefused, CreateLayout, SgdiskFails, FdiskFails,
             SetDisk, SetPartitions, PartitionDone, Mark
    <2> QED
      BY <2>1, <2>2
  <1>4. CASE FormatBoot \/ FormatRoot \/ FormatFails \/ SetFs \/ FormatDone
    <2>1. root = NoDisk /\ boot = NoDisk /\ "mount" \notin done
      BY <1>4 DEF RecordInv, OrderInv, Formatting, FormatBoot, FormatRoot, FormatFails,
                  SetFs, FormatDone, Mark
    <2>2. /\ UNCHANGED <<root, boot>> /\ "mount" \notin done'
          /\ at' \notin {"mountBoot", "swapon", "mounted"}
      BY <1>4, <2>1 DEF FormatBoot, FormatRoot, FormatFails, SetFs, FormatDone, Mark
    <2> QED
      BY <2>1, <2>2
  <1>5. CASE MountRoot \/ MountBoot \/ SwapOn \/ MountDone
    <2>1. /\ "format" \in done /\ "mount" \notin done
          /\ Target \in DiskSet /\ Target # NoDisk
      BY <1>5, StorageAssumption
         DEF RecordInv, OrderInv, DiskInv, Mounting, MountRoot, MountBoot, SwapOn,
             MountDone, Mark
    <2>2. CASE MountRoot
      BY <2>1, <2>2 DEF MountRoot
    <2>3. CASE MountBoot
      BY <2>1, <2>3 DEF MountBoot
    <2>4. CASE SwapOn
      BY <2>1, <2>4 DEF SwapOn
    <2>5. CASE MountDone
      BY <2>1, <2>5 DEF MountDone, Mark
    <2> QED
      BY <1>5, <2>2, <2>3, <2>4, <2>5
  <1>6. CASE KillInSave
    <2>1. UNCHANGED <<root, boot>> /\ conf'.disk = NoDisk /\ done' = {} /\ at' = "off"
      BY <1>6 DEF KillInSave, NoConf
    <2>2. root = NoDisk
      BY <2>1 DEF MountForgotten
    <2> QED
      BY <2>1, <2>2
  <1>7. CASE Reboot
    BY <1>7 DEF Reboot
  <1> QED
    BY <1>1, <1>2, <1>3, <1>4, <1>5, <1>6, <1>7 DEF Next, Work

\* When all three steps are done the disk that is mounted, boot partition and
\* all, is the one on record, unless the record of a mounted disk was ever
\* lost (s04_mount.py 55-64, s09_bootloader.py 62-66, 89).
THEOREM MountsAreRecorded == Spec => MountedIsRecorded
  <1>1. RecordInv /\ MountInv
        => (at = "over" => root = conf.partitions /\ boot = root /\ conf.disk = root)
    BY DEF RecordInv, OrderInv, DiskInv, MountInv, Target
  <1> QED
    BY <1>1, RecordAlways, InitMountInv, NextMountInv, PTL DEF Spec, MountedIsRecorded

\* What MountedIsRecorded excepts has one cause: the record of a mounted disk
\* goes only with a state file that a kill cut in two (state.py 80-93).  No
\* choice of disks and arguments, no failure and no other interruption gets
\* there.
THEOREM ForgottenByTornSave == Spec => [][MountForgotten' => MountForgotten \/ KillInSave]_vars
  <1>1. TypeOK /\ RecordInv /\ [Next]_vars
        => [MountForgotten' => MountForgotten \/ KillInSave]_vars
    <2> SUFFICES ASSUME TypeOK, RecordInv, Next, root' # NoDisk, conf'.disk = NoDisk,
                        ~(root # NoDisk /\ conf.disk = NoDisk)
                 PROVE  KillInSave
      BY DEF MountForgotten
    <2> USE DEF GoTo, Leave, kernel, record
    <2>1. CASE \/ Launch \/ SelectDisk \/ WipeDisk \/ WipeRefused \/ CreateLayout
               \/ SgdiskFails \/ FdiskFails \/ PartitionDone \/ FormatBoot \/ FormatRoot
               \/ FormatFails \/ FormatDone \/ MountBoot \/ SwapOn \/ MountDone
               \/ Kill \/ CalmDown
      BY <2>1 DEF Launch, SelectDisk, WipeDisk, WipeRefused, CreateLayout, SgdiskFails,
                  FdiskFails, PartitionDone, FormatBoot, FormatRoot, FormatFails,
                  FormatDone, MountBoot, SwapOn, MountDone, Mark, Kill, CalmDown
    <2>2. CASE SetDisk
      <3>1. conf'.disk = chosen /\ chosen \in DiskSet
        BY <2>2 DEF SetDisk, TypeOK, RecordInv, DiskInv, Partitioning
      <3> QED
        BY <3>1, StorageAssumption
    <2>3. CASE SetPartitions \/ SetFs
      BY <2>3 DEF SetPartitions, SetFs, TypeOK
    <2>4. CASE MountRoot
      <3>1. conf' = conf /\ conf.disk \in DiskSet
        BY <2>4 DEF MountRoot, TypeOK, RecordInv, OrderInv, DiskInv, Mounting
      <3> QED
        BY <3>1, StorageAssumption
    <2>5. CASE KillInSave
      BY <2>5
    <2>6. CASE Reboot
      BY <2>6 DEF Reboot
    <2> QED
      BY <2>1, <2>2, <2>3, <2>4, <2>5, <2>6 DEF Next, Work
  <1> QED
    BY <1>1, RecordAlways, PTL DEF Spec
=============================================================================
