# Formal models of anaconda-gentoo

TLA+ models of the installer in `src/`: its resumable step machine, the steps
that touch disks, mounts, downloads and the target's settings, hardware
detection, the kernel from its configuration to its installation with the
Kconfig database behind it, and the continuation on the installed system. TLC
checks the models on small instances; TLAPS proves every safety property and
every property of a step that the passing runs check for every value of the
constants: any plan, disks, builds, source trees, expressions, device trees and
tables, machines and options, over any number of interrupted runs.

Source lines are given as `file:line`, paths below `src/`.

## 1. The system

anaconda-gentoo is a Python program that installs Gentoo from a live image. It
has no threads; what makes it hard is that it is **cut short and run again**: by
Ctrl-C, by a kill, by a step that fails, by a reboot, by a second login that
starts a second installer. `README.md:28` promises "If interrupted at any
point, re-running the installer resumes from the last completed step".

| Component | Code | State it keeps | Operations | Models |
|---|---|---|---|---|
| Installer state | `installer/state.py` | phase, completed steps, current, failed, config; a JSON file on the live system and a copy in the target | `load`, `save`, `mark_started`, `mark_done`, `mark_failed`, `set` | `InstallerState`, `ProgressJournal` |
| Stage 1 step runner | `main.py` (`cmd_install`), `installer/tui.py`, `installer/steps/base.py` | place in the plan | `run_all_steps`, `run_step`, `Step.run` | `Stage1Plan`, `StepRunner` |
| Stage 3 continuation | `main.py` (`cmd_continue`), `stage3_agent/agent.py`, services of `s10_finalize.py` | the same state file; a service in a runlevel or target | `run_stage3` and its four blocks | `Continuation` |
| Partition, format, mount | `s02_partition.py`, `s03_format.py`, `s04_mount.py` | the disk; `disk`, `partitions`, `root_fs` in the state; mount table | the steps' `execute` | `Storage` |
| Stage3 tarball | `s05_stage3.py` | the downloaded file; `stage3_url`, `stage3_tarball`; the target's tree | `Stage3Step`, `Stage3ExtractStep` | `Stage3Tarball` |
| Chroot mounts | `installer/chroot.py` | mount table below the target | `mount_pseudofs`, `umount_pseudofs`, `umount_all`, `chroot_context` | `ChrootMounts` |
| Hardware detection | `s01_hardware.py`, `kconfig_builder/hardware/` (PCI, USB, ACPI, device tree) | the PCI address port; the devices found; `hardware` in the state | `scan_pci`, `scan_usb`, `scan_acpi`, `scan_dt`, save, refuse | `HardwareDetect`, `FdtParse` |
| Driver matching | `kconfig_builder/matchers.py`, `s08_kernel.py` | the source index; the names in Makefiles | rebuild from the state, match, `get_configs` | `HardwareMatch`, `KernelPlan` |
| Boot path and generator | `kconfig_builder/bootpath.py`, `generator.py` | entries of the generator | `static_configs`, `apply_boot_path`, `add`, `add_many`, `write` | `KernelTables`, `ConfigGenerator`, `KernelPlan` |
| Kernel steps | `s08_kernel.py`, `matchers.py` | index cache, `.config`, build, `kernel_src`, modules and image on the target | `execute` of `KernelConfigStep`, `KernelCompileStep`, `KernelInstallStep` | `KernelConfig` |
| Kconfig database | `kconfig_builder/kconfig.py` | visited files, entries; queue and resolved set | `load`, `depends_symbols`, `resolve_dependencies` | `KconfigLoad`, `KconfigExpr`, `KconfigGraph`, `KconfigResolve` |
| Target settings | `s06_makeconf.py`, `s07_chroot_init.py`, `s09_bootloader.py`, `s10_finalize.py` | files in the target's `/etc`, locales, services, GRUB; `make_conf`, `timezone`, `locale`, `hostname` in the state | `execute` of eight steps | `MakeConf`, `TargetSettings` |

How they interact: the step runner calls each step's `execute`; steps
communicate only through the state file (`state.set`, `state.get`) and through
the disk; `save` mirrors the state into the target, where Stage 3 finds it after
the reboot as its own live state. The service that `ContinuationAgentStep`
installs starts `main.py` again on the installed system. Several processes meet
only in files and in the mount table; nothing locks them.

### What makes each part correct

- **State and runner**: what is on record is in place; nothing on record runs
  again; what runs in the target finds it mounted; the loop goes on only from a
  step that is on record; the phase of the target lets Stage 3 start only on a
  complete system; re-running gets through.
- **Continuation**: complete means every step; depclean only after the update;
  the update once; the phase never back; it starts and ends.
- **Storage**: the disk that is mounted, the one that is recorded and the one
  that is partitioned are one; the recorded file system is the disk's.
- **Tarball**: one build is recorded and all of it, nothing of another, is in
  the target.
- **Chroot**: commands find all pseudo file systems, nothing is stacked, nothing
  is left.
- **Detection**: exactly the functions that are there are saved, with what is
  theirs, and whatever comes in between spoils no more than the slot being read;
  a device tree node answers with its own properties.
- **Kernel**: every driver for a device asked for, no foreign one, the path to
  the root built in whatever the hardware asks for, all dependencies drawn in;
  the modules and the image on the target are of one build of a tree that was
  configured for this machine.
- **Kconfig**: the entries say what the files say; no needed symbol is lost from
  an expression; the loop returns the least closed set.
- **Settings**: files and record agree whatever options earlier runs had, what
  is on record stays, nothing is written twice, and the boot loader is of the
  firmware that make.conf and fstab are written for.

## 2. Modules

`MC*` modules hold nothing but the instances for TLC. Definitions ending in
`_Word` after the name of another are faulty forms of it: the way a plausible
bug would write it. Each property has one that breaks it.

### InstallerState, ProgressJournal, Stage1Plan
`InstallerState` has the record of `state.py` and its operations as operators on
records; the log is left out, `config` is the set of steps that stored their
keys. `load` of a file that is missing, truncated or a mixture is the fresh
state (`state.py:80-84`). `Stage1Plan` is the list of `main.py:58-89` with what
each step does to disk, target and state. `ProgressJournal` is the abstract
specification: recorded steps are an initial piece of the plan, which grows by
one step, loses at most the last one at a stop, and is lost as a whole only
where the state file is.

### StepRunner
Any number of processes, each with its `InstallerState` in memory (`mem`), a
control point (`ctl`), a place in the plan (`at`) and the place within a save
(`io`). A save opens, then writes, the live file, and then the same for the
copy in the target: four separate steps, so that a kill or another process can
come in between. `BodyBegins`/`BodyEnds` stand for `execute` by what resumption
depends on: it destroys what the disk holds, writes below the mountpoint, mounts
or unmounts. `FlipPhase` is `s10_finalize.py:197-198`. `Kill`, `Interrupt`
(Ctrl-C, whose handler saves), `StepFails`, `LiveFails`/`TargetFails` (the
swallowed `OSError`) and `Reboot` cut a run short.

### Continuation
The service, the boot that starts it, the command line as argparse reads it,
`cmd_continue`'s test of the phase, and `run_stage3` block by block with the
emerge commands' outcomes. Its plan continues Stage 1's record, and it too is
shown to implement `ProgressJournal`.

### Storage, Stage3Tarball, ChrootMounts
One process each, killed anywhere and started again with other options. In
`Storage` the machine is UEFI or BIOS (`uefi`), commands refuse a disk in use,
`mkfs` refuses or overwrites what is there as its flags say, and `mount` trusts
what `_is_mounted` says. In `Stage3Tarball` the file under the final name is
absent, partial, whole or another one; verification lets everything pass, as the
code does. In `ChrootMounts` mounts stack, `/dev` brings a `pts` along,
`umount -l` takes it away, and without mountpoint(1) the fallback finds prefixes
in `/proc/mounts`.

### HardwareDetect, FdtParse
`HardwareDetect` is `HardwareDetectStep.execute`. The PCI scan goes system call
by system call: `SelectRegister` writes the address port, the next action reads
the data port, and `KernelAccess` may move the address in between, after which
the same register of another device, or any other's contents, may be the answer (`Answers`). `ScanUsb` walks
descriptors by the lengths the device gives; `AcpiInfo` takes the root table that
`_parse_rsdp` accepts and its revision lead to. `OpenTree` takes the first candidate
file that is a blob, and `WalkTree` is a turn of the loop of `parse_fdt`: it reads the
token at `offset` and does to `walk` (the path, the property, the devices) what
`FdtParse` says of that kind of token. `LeaveTree` is the loop's end. `AcpiRaises`,
`HeaderRaises` and `TokenRaises` are the exceptions nothing catches.
`FdtParse` also gives the tokens of a tree, and what the walk should find in it
(`Leaves`).

### HardwareMatch, KernelPlan, KernelTables, ConfigGenerator
`KernelTables` is the program's tables (`_ESSENTIAL`, `_DISABLED`,
`_DEVICE_CONFIGS`, `_FS_CONFIG`, ...) and `static_configs`; `ConfigGenerator`
is `add`, `add_many` and `write`. `HardwareMatch` follows what the state file
keeps of a device to its alias, a device table entry to its pattern, and a file
name to the module the Makefiles are searched for; an alias is a record with a
field per labelled part, so that fnmatch is a comparison of fields with `*`.
`KernelPlan` composes them with `HardwareDetect`: detection, the saved record,
matching, `get_configs`, generation, the lock on the boot path. `NothingForeign`
is about the `.config` that comes of it: it names every way in which a symbol gets
into it that no device of the machine needs, and says that there is no other.

### KernelConfig
The three kernel steps, run repeatedly, with `--kernel-src` or the recorded
tree: the index cache, the file that is written, `make olddefconfig`, the record
of the tree; then `make`, `modules_install` and the copy of the image, each in
the recorded tree. Directories differ in what matches and what depends on what.

### KconfigLoad, KconfigExpr, KconfigGraph, KconfigResolve
`KconfigLoad` is `KconfigDB.load`: a stack of files, each with the line from which
its source lines are left to follow (`FollowSource`), the visited set, and the
entries each file adds when its source lines are done (`ParseEntries`). A file is a
sequence of lines of seven kinds. `KconfigExpr` is what the two substitutions and
the search of `depends_symbols` make of token sequences, and the grammar of the
expressions (`FollowsGrammar`, `WellFormed`) with the symbols each needs (`free`).
Of a symbol's name it keeps what `_SYMBOL_RE` looks at (`Spelling`): the first
character, the length, small letters; `Searched` are the names that it takes. Of an
expression that a backslash continues, the tokens of the first line are what is
parsed, the others are its `rest`.
`KconfigGraph` defines the least set closed under "pulls" (the reference, which
`KernelConfig` uses too); `KconfigResolve` is the loop of `resolve_dependencies`,
one turn per step, with the queue as a bag (`pop()` of a list and the order of a set
are a choice).

### MakeConf, TargetSettings
`MakeConf` is what `s06` makes of the saved hardware, the firmware and the
options. `TargetSettings` runs the eight steps that write the target's own
configuration, one action per write, command or `state.set`; every launch has
options of its own. A file is the sequence of its lines; `Kill` may leave a file
that is being written empty.

## 3. Runs

| Run | Instance | What it shows |
|---|---|---|
| `StepRunner_resume` | one process, the real 21 steps; Ctrl-C, kill (also in a save's open file), step error, reboot of a RAM live system | `TypeOK`; `RecordedInPlace`, `WritesHitTarget`, `BootReady`, `RecordedBeforeNext`; no recorded step runs (`CompletedSkipped`); the record is a `ProgressJournal` (`KeepsJournal`); re-running completes (`Completes`) |
| `StepRunner_logins` | two interchangeable processes on a plan with one step of every kind, full disks included | whatever two installers do to each other's files, each record lists an initial piece of the plan (`RecordsInOrder`) |
| `Continuation_resume` | both init systems; kill, torn file, reboot, failing emerge, failing resume, failing disable; a user who re-runs | complete means every step, and depclean waits for the update (`NothingBeforeWorld`); `WorldOnce`, `PhaseForward`, `KeepsJournal`, `Stage3Completes` |
| `Continuation_auto` | nothing goes wrong, the user does nothing | `StartsByItself` is violated: see section 6 |
| `Storage_resume` | two disks, `--disk` either or none, three file systems, UEFI and BIOS; kills, lost state, reboots, failing sgdisk and fdisk | `RecordedReady`, `MountedIsRecorded`, `GetsReady` |
| `Stage3Tarball_resume` | two builds, `--stage3-url` either or none; kills, cut and replaced downloads, deleted files, a mirror that moves | one build is recorded and exactly that one is on the target (`TargetIsOneBuild`); `GetsExtracted` |
| `ChrootMounts_resume` | one process, with and without mountpoint(1); kill, failing mount, failing command | `ChrootIsMounted`, `NothingStacked`, `ContextCleansUp` |
| `KernelConfig_resume` | a machine with an ACPI MCFG table; two trees and the empty path, shared cache; kills, torn cache and `.config`, failing make, a tree that is not there | `StaticWritten`, `EssentialWritten`, `DriversAsked`; what is installed is one configured build (`InstalledIsConfigured`), with the boot path built in (`StaticSurvives`); `Configures` |
| `KernelPlan` | sets of three PCI slots and a stray function, of four USB devices; a kernel access in the middle of the scan, of two network cards too whose ids mixed are a third's; good and bad ACPI tables; every device tree of up to four nodes; every boot path | `ScanExact`, `DtLeavesFound`, `DriversFound`, `NothingForeign`, `ChainBuiltIn` |
| `KernelPlan_traced` | the same | `TracedBack` is violated: see section 6 |
| `Kconfig_load` | trees of up to four files with circular, repeated and missing sources; one entry with every expression up to three operators deep, comparisons among them, or with one that goes on in the next line; a name like `64BIT`; all databases of three symbols, each request | `ParsesEntries`, `DependsRead`; the loop ends (`Returns`) with the least closed set (`ReturnsLeast`) |
| `TargetSettings_resume` | a UEFI laptop with two graphics cards and a BIOS server, three sets of options; kills between and within writes, failing commands, a zone that is not there | `SettingsAgree`, `SettingsStay`, `SettingsDone` |

The type invariants of the modules other than `StepRunner` are in no run: they
are stated for the proofs, which prove those of `Continuation`, `Storage`,
`Stage3Tarball`, `ChrootMounts`, `KernelConfig` and `TargetSettings` (section 4).

### Bounds and why they are enough
- *One installer* in most runs: the program is sequential, and what it meets is
  its own earlier runs. The number of runs is unbounded everywhere. Two logins
  are a run of their own, on a plan of four steps: the protocol of a step is the
  same for all steps of a kind, and the theorems hold for every plan and number
  of processes.
- *Two disks, two builds, two trees*: what can go wrong is confusing one with
  another.
- *Three symbols*: a cycle, a diamond and a chain of dependencies fit, and a
  symbol can be queued many times; the theorem is for every set.
- *Expressions*: two levels are needed to put a group within a group, the third
  to negate it; the theorem is for every expression of the grammar.
- *Kconfig trees*: four files are enough for a circle, for two ways to one file
  and for a path that exists both below the root and below the directory; the
  contents have two definitions of a symbol in one file and in two, comments and
  help texts within an entry. One tree has no file at the top. The theorem is for
  every tree.
- *Device trees*: four nodes nest three deep and return to an outer level, with
  every choice of which have the property; what the walk keeps of a tree is one
  path and one property. The theorem is for every tree.
- *One kernel access* (`traffic`): the damage is to the slot being read, which a
  second access only repeats. `LastFn = 2` leaves function 0, one beyond it and
  a gap between.
- *Two machines, three option sets*: the two firmwares, with and without swap,
  `net.lo` and known graphics; options that differ in everything, a host name
  within another, a locale in a comment, a zone that does not exist.
- `MaxStack = 2` bounds mounts over one another; `NothingStacked` says the bound
  is not reached.
- `KernelPlan`: the devices have one of each way of being matched (numbers,
  named vendor, class with mask, interface, number and interface), functions
  beyond the first, file names that are, with other hyphens are, and are not
  those of the Makefile, and two orders of the Makefiles' names. Drivers that
  must not match share an id with ones that must.

### Fairness and `calm`
A running process goes on (WF of its own steps): nothing in the code waits for
anything but a command. WF of `Launch`, or of `UserContinues`, says the user
re-runs the program, as the README asks. Faults are no part of fairness:
liveness is stated from the moment `calm` holds, which the environment may set
at any time or never, and after which no fault happens. (`KernelConfig` and
`TargetSettings` have WF of `CalmDown`: there the faults end some day.) Properties of the form
`[]~Bad => (calm ~> Good)` say that the code gets there unless something named
ever happened from which it does not recover: a save of the live state file cut
in two (`RecordCut`), a cache cut in two (`CacheCut`), a cut download or a
deleted tarball (`Unusable`), fdisk failing unnoticed (`NoPartitions`), an f2fs
format cut off (`F2fsMeets`), a state file lost with the disk mounted
(`MountForgotten`). In the same way safety properties name what they except:
`Plain`, `Nested`, `Searched` and `rest` for Kconfig text the parser does not
understand, `Conforming`, `disturbed` and `Misread` for the PCI scan, `Vague`,
`Interface`, `Traceable` and `Unmixed` for device tables, `Hidden` and `OnlyComment` for lines of `hosts`
and `locale.gen`. Section 6 lists these.

### Deadlock
It is looked for in `StepRunner_*`, `Continuation_resume` and
`ChrootMounts_resume`, where a program can always be started again. It is off
where the model ends with the work: a mounted disk (`Storage_resume`), an extracted
system (`Stage3Tarball_resume`), an installed kernel (`KernelConfig_resume`), a configuration written or refused (`KernelPlan`), a
returned set (`Kconfig_load`), all settings made (`TargetSettings_resume`), and in
the runs that show a violation.

## 4. Proofs

For every value of the constants that meets the modules' named assumptions.

| Module | Theorem | Says |
|---|---|---|
| `StepRunnerProofs` | `TypeCorrect` | `Spec => []TypeOK` |
| | `OrderKept` | `Spec => []RecordsInOrder`, for any number of processes and all faults |
| | `SoloSafe` | with one process, no full disk and the live files in RAM, `[]SoloInv` |
| | `RecordKeptInPlace`, `BootReadyKept`, `RecordedFirst`, `WritesReachTarget` | the four invariants, under the same conditions |
| | `SkippedWhenDone` | no step on record is executed |
| | `ImplementsJournal` | the step runner implements `ProgressJournal` |
| `ContinuationProofs` | `TypeCorrect` | `Spec => []TypeOK` |
| | `WorldComesFirst`, `WorldRunsOnce` | nothing that needs the update comes before it, and no recorded update is run again |
| | `PhaseKeeps` | no save is of a phase behind that of the file it replaces |
| | `ImplementsJournal` | Stage 3 implements `ProgressJournal`, under all faults |
| `StorageProofs` | `TypeCorrect` | `Spec => []TypeOK` |
| | `RecordedIsReady` | a recorded step has its result on the disk on record, for all disks and options |
| | `MountsAreRecorded` | what is mounted in the end is of the disk on record, unless the record of a mounted disk was ever lost |
| | `ForgottenByTornSave` | the record of a mounted disk is lost only when a kill cuts a save of the state file in two |
| `Stage3TarballProofs` | `TypeCorrect`, `OneBuildKept` | types; a recorded extraction left all of one build and nothing of another |
| `ChrootMountsProofs` | `TypeCorrect` | `Spec => []TypeOK`, for any number of processes |
| | `BodyFindsMounts`, `NeverStacked`, `LeavesNothing` | with one process: commands find every pseudo file system, nothing is stacked, nothing is left |
| `KernelPlanProofs` | `ScanIsExact` | what is saved of the slots the kernel left alone is exactly what is there, and every USB device that could be read is saved with its first interface |
| | `LeavesAreFound` | the walk over a device tree collects exactly its leaves with their own property, each under its own path |
| | `DriversAreFound`, `NothingIsForeign` | every traceable driver of a device seen is asked for; one that no device needs only where an entry says more than its pattern, a slot was misread or a file has not its driver's name |
| | `ChainIsBuiltIn` | the boot chain is built in, whatever the hardware asks for |
| `KernelConfigProofs` | `TypeCorrect` | `Spec => []TypeOK` |
| | `StaticIsWritten`, `EssentialIsWritten` | boot path and essentials are built in whenever make is started |
| | `DriversAreAsked` | the file make is started on asks for every driver found and all it drags in |
| | `InstalledAsConfigured` | modules and image on the target are of one build of a tree that was configured for this machine |
| | `StaticIsInstalled` | in that kernel every boot path symbol is built in whose dependencies are on the boot path or essential |
| | `ResolvesLeast` | the loop of the Kconfig database ends only with the least closed set, for every database |
| | `EntriesParsed` | for every tree of Kconfig files, circles included, the entries say what the files say |
| | `DependsAreRead` | of an expression of any depth on one line no needed symbol is lost whose name the pattern knows, and none of a negated part gets in, nested groups apart |
| `TargetSettingsProofs` | `TypeCorrect` | `Spec => []TypeOK` |
| | `SettingsHold` | files and record agree, for any machine, options and files of stage 3 |
| | `SettingsKept` | what is on record stays in its file, whatever later runs do |

### Assumptions
- `PlanAssumption` (names differ), `KindAssumption` (kinds of steps),
  `OrderAssumption` (wipe before mount, mount before the target's steps, these
  before unmount); `ContinuationAssumption`, `StorageAssumption`,
  `TarballAssumption`, `DirectoryAssumption` and `SymbolAssumption` say that
  names differ, which constants are subsets of which, and that the directory the
  program is started in has no kernel modules. TLC evaluates every one of them on
  the instances of section 3, that of the plan on the real plan.
- `Alone(p)`: one process. `Reliable`: no failing write, a live system in RAM.
  Without these two `SoloInv` is false of this code, and with two processes all
  three properties of `ChrootMounts` are (section 7).
- `DetectAssumption` and `DeviceAssumption`: no slot is listed twice, a device
  sits at a place the scan visits, alone there, and its vendor id is not all ones,
  which is how the bus says that nobody answers. `EntryAssumption`: ids of PCI have
  16 bits (the macros are read with numbers only, not with `PCI_ANY_ID`), no number
  is the pattern's `*`, and the vendor numbers of the program's
  `_VENDOR_NAMES` are those the kernel has for these names (the kernel's table is
  not in `src/`).
- `TreeAssumption`: a file with the magic number of a device tree has one in it, a
  sequence of nodes in which every depth but the first is one more than the node's
  before at most. `DescriptorAssumption`: the interface a USB device is driven by is
  the first descriptor of that type, and lies within the 255 bytes that are read,
  behind descriptors of two bytes or more.
- `InputAssumption`, `SpellingAssumption`: Kconfig lines are of the seven kinds, names
  are not operators. `DependsAreRead` has a hypothesis of its own: that what follows
  `depends on` on one line is an expression of Kconfig's grammar. (That every expression built
  by the grammar is `WellFormed` is lemma `GrammarFormed`.)
- `OptionAssumption`, `LineAssumption`: stage 3's `locale.gen` and `hosts` have no line
  twice, a host name is a part of its own line, and some option names a zone there is.

### Arguments
*Step runner.* `RecordsInOrder` is not inductive: that a mark adds the *next*
step needs what memory lists at each control point (`LoopInv`).
`OrderInv == RecordsInOrder /\ LoopInv` is, even if processes overwrite each
other's files, since whatever is written was some process's record or does not
load. For one process, `SaveInv` says what the files hold at each point of a
save, `MountInv` that the target is mounted whenever `mount` is on record and a
step still needs it (`WritesHitTarget` is shown together with it), `BodyInv` that
a finished body's result is in place, `BehindInv` how far the file may lag behind
memory. Each is shown preserved action by action given the others
(`NextSaveInv`, `NextMountInv`, `NextPlaceInv`, `NextBehindInv`); together they
are `SoloInv`. `BootReady` follows: a phase past `stage1` comes with a list of all
steps before the agent (`OrderKept`), and what is listed is in place.

*Continuation.* `WorldInv`: a record lists an initial piece of the four steps,
the update only once it has ended well, and all four in the phase `complete`
(`RecordInv`, of memory and of whatever the file loads as); what the loop's place
says about the list (`LoopInv`); how file and memory differ within a save
(`SaveInv`). A torn file loads as the fresh record, which satisfies `RecordInv`, so
that a kill in the middle of a save breaks nothing.

*Storage and tarball.* The steps are recorded in order (`OrderInv`); from the
choice of a disk or a build, the entries of the state agree with it point by
point (`DiskInv`, `EntriesInv`). `FsInv` holds although `--root-fs` may differ
from run to run, because `state.get` prefers the record to the option. `MountInv`
needs `~MountForgotten`: nothing is mounted before the file systems are on record
as long as no record of a mounted disk was lost. `TreeInv`: what is unpacked is of
the recorded build.

*Chroot.* `KnowsInv` says, for each loop of `mount_pseudofs` and
`umount_pseudofs`, which mounts are certain so far. A `/dev` that is mounted or
detached brings or takes a `pts`, so that nothing can be claimed of the entries
the loop has yet to come to; `NoneMounted` holds after the whole of
`umount_all` all the same. `Single` (no mount over another) is preserved because
an entry is mounted only after its test has found it unmounted, and with one
process that test is still true.

*Detection.* `ReadInv` is what the scan knows of the function it is reading,
`FoundInv` that of all functions passed exactly those present are in `found`. A
kernel access puts the slot being read into `disturbed`, where nothing is
claimed; no access reaches beyond that slot. `TreeInv` says what the walk over a
device tree has at a token: its path is that of the node being read, followed down
to the depth the tokens have come to; it has a property only between that
property's own token and the end of the same node; its devices are the leaves that
have ended. That an end of a node with children finds no property is the step where
the tree's shape counts: the next node's beginning clears it, and a node ends where
the next one's depth says.

*Matching.* Both directions of one equivalence: a pattern made of an entry
matches the alias made of a device if the entry is for it (`IsForMatches`), and
only if, unless the pattern says less than the entry (`MatchIsFor`, `Vague`). The
first attempts failed for a reason: a saved USB device has interface 0,0,0,
hence the condition on `ZeroIface` in `Vague`, and a table is traced by its own
file's name only, hence `Traceable` (section 6). `PlanInv` says where the entries
come from, for `DriversAreFound` and for its converse: an entry that is not there on
every machine is of a file that an alias matched, the alias is of a device that the
file's table names unless it was misread (`MatchedDevice`), and the lookup leads to
the file's own symbols if it has a name in the Makefiles that no other driver has
(`UnmixedConfigs`).

*Kconfig files.* `WalkInv`: what is visited is in every set that source lines reach,
and a visited file either is on the stack, the source lines before its mark
followed, or has all of them followed. At the end, what is visited is therefore
`Files`. `EntriesInv` follows each entry to one definition; between it and `Attributes` lies
only which lines belong to a body, which `Plain` makes the same.

*Expressions.* Induction over expressions is done without an induction theorem:
`WellFormed(e)` says that `e` is in every set that follows the grammar, and the set of
the expressions that are read well (`ReadWell`) is one, by a lemma for each rule of
the grammar. `ReadWell` has to say more than the property: that an expression
ends in no "!" and has the counterpart of each of its brackets (`Balanced`), so that
no match that begins in one part reaches into the next.

*Settings.* `SettingsInv` is one invariant per step: what its files and its entry in
the record are at each of its control points, and once it is on record. To the
actions of another step, to a kill and to a start a step looks the same whichever it
is (`Still`, `Stopped`; lemma `SeenFrom`), which leaves for each step only its own
actions. A file that a kill left empty is written anew, because its step is not on
record; only `locale.gen` and `hosts`, which are added to, need to know that a line is
there at most once.

*Resolution.* `CoverInv` (what a resolved symbol pulls is resolved or queued) and
`LeastInv` (everything reached is in every closed set over the request) are
inductive; with an empty queue they give the least closed set. `ResolvedIsLeast`
shows that the reference `Resolved` of `KconfigGraph` is that set.

*Kernel.* What the generator holds is followed from point to point
(`EssentialIn`, `StaticIn`). What is installed needs more: `InstallInv` says, at
each point of a run, what the generator and the file hold of which index and tree
(`RunInv`), which steps can be on record there (`OrderInv`), and what the recorded
tree's build and the target hold once they are (`BuildInv`). It holds for all
trees, tables and faults, because a configured tree is only written again while
`kernel_config` is not on record. `StaticIsInstalled` follows from that and from
what `OldDefConfig` leaves alone (`OldDefConfigKeeps`); `DriversAreAsked` from
`RunInv` and from that locking and writing take no symbol out.

### Only model-checked
Everything about liveness, which these provers do not reach: `Completes`,
`Stage3Completes`, `GetsReady`, `GetsExtracted`, `Configures`, `Returns`,
`SettingsDone`. Of the two runs that show a violation nothing is proved.

Where the code walks over data (source lines, tokens of a device tree, registers,
the queue) the models take a step per turn, so that the proofs are by induction over
steps. Two things are computed in one step all the same: the offsets of USB
descriptors, a sum that `DescriptorAssumption` speaks of and the proofs leave as it
is, and the matching of patterns, which is without recursion.

## 5. Plan

Order: the step machine first, since every promise of the README rests on it;
then the steps with state outside the state file; then the kernel part; then the
pure algorithms.

1. Done: `InstallerState`, `StepRunner`, `Continuation` with `ProgressJournal`;
   `Storage`, `Stage3Tarball`, `ChrootMounts`; `KconfigLoad` with `KconfigExpr` and
   `KconfigResolve`; `HardwareDetect`, `FdtParse`, `HardwareMatch`, `KernelPlan`;
   `KernelConfig` up to the installed kernel; `MakeConf`, `TargetSettings`; the
   proofs of section 4. No model of the plan is left.
2. Done: the proofs of section 4, which are of all safety properties and properties
   of steps that the passing runs check.
3. Left: liveness, for which TLC is the only means; and two installers on one
   mountpoint (section 7), once the code has something to tell them apart.

## 6. Where code and documentation part

Two disagreements have a run that shows them:

- Both services call `anaconda-gentoo --continue` (`s10_finalize.py:35,49`);
  `main.py:188` has a subcommand `continue`. Stage 3 does not "run
  automatically" (`README.md:27`). Run `Continuation_auto`.
- A matched source file is looked up in the obj- lines by its own name
  (`matchers.py:362`); the table of a driver built of several files is in none
  of that name. "Trace matched source files back to `CONFIG_*` symbols"
  (`README.md:158`) fails for them. Run `KernelPlan_traced`.

The rest are the conditions under which the properties above are stated. Each is
a consequence of the line named, and in the models the runs would violate the
property without the condition:

- `matchers.py:369-371`: the lookup then takes the first name of which one is a
  prefix of the other: for an NVMe disk, nvme's `pci.c` leads to `SERIO_PCIPS2` or to
  `PCI_STUB`, whichever directory is listed first; and a vendor's name that is not in
  the table is a wildcard (`matchers.py:163`), which brings drivers for other vendors'
  devices. The result is no "minimal config with only the drivers your hardware
  needs" (`README.md:161`); `NothingForeign` is that sentence with these two ways
  (`Unmixed`, `Vague`) and misread devices (`Misread`) excepted.
- `kconfig.py:25,42,96,132`: `depends_symbols` is to "Extract non-negated symbol names
  from all depends expressions" (`kconfig.py:38`). A name that begins with a digit, as
  `64BIT`, has small letters or fewer than three characters is not found; of an
  expression that a backslash continues only the first line is looked at, and a
  negated group cut there is searched; of a negated group with a group in it the rest
  is searched. `DependsRead` excepts these (`Searched`, `rest`, `Nested`).
- `state.py:92`: a save truncates and then writes; a kill in between loses the
  record with the target still mounted, where `wipefs` refuses for good
  (`RecordCut`). In Stage 3 the phase is lost and `continue` refuses.
- `state.py:93`: a failed save is swallowed (fault `enospc` is in
  `StepRunner_logins` only).
- `state.py:151`: after a reboot of the live system the record in the target is
  not looked at, and the disk is wiped again.
- `tui.py:88`: with a live medium that keeps its files, `mount` is skipped after
  a reboot and steps write into the live system (`LivePersists`).
- `tui.py:86`, `build_iso.sh:266`: two logins run two installers on one state
  file; one may execute what the other has recorded.
- `base.py:41`: a `StepError` does not reach `mark_failed`; `status` shows the
  step as running (`tui.py:58-61`).
- `state.py:142`: in Stage 3 `progress` counts Stage 1's steps against a total
  of four.
- `s10_finalize.py:51`: the OpenRC script removes itself also after a failure.
- `agent.py:53`, `agent.py:66`: a failed sync does not stop the update, and the
  retry skips the package that failed.
- `s02_partition.py:138`: fdisk's exit status is not looked at
  (`NoPartitions`). `s03_format.py:65`: `mkfs.f2fs` without `-f`
  (`F2fsMeets`). `s04_mount.py:55`: whatever is mounted is taken for the target
  (`MountForgotten`).
- `s05_stage3.py:93`: a partial file is "cached" (`Unusable`);
  `s05_stage3.py:101`: a checksum mismatch is caught like a missing file.
- `chroot.py:115`: `mount_pseudofs` is outside the `try`; `chroot.py:80`: one
  context unmounts what another process is using.
- `matchers.py:278,302`: the index cache is used for any tree, and written in
  place (`CacheCut`). `s08_kernel.py:92`: no `--kernel-src` is the current
  directory.
- `s08_kernel.py:139,142`: symbols of kind bool are asked for as modules, and
  the boot path is locked after dependencies were resolved; `make olddefconfig`
  lowers or drops what depends on them (the condition in `StaticSurvives`).
- `s01_hardware.py:45`: `dtb_path` is never set, so that `--dtb` has no effect;
  `s01_hardware.py:48`: the hardware is saved before an empty scan is refused.
- `pci.py:98`: nothing keeps the kernel from using the two ports in between
  (`disturbed`); a driver may then be asked for that no device needs (`Misread`).
- `acpi.py`: the RSDP is looked for in the BIOS area only (`scan_acpi`), and one with a bad
  checksum ends the search; an MCFG of 44 to 51 bytes raises `struct.error`.
- `dt.py:97`: the properties of a node are cleared when its first child begins,
  so that a node with children is lost (`Leaf`); what is found in the device
  tree is saved and not used for matching.
- `s08_kernel.py:54`: a saved USB device has no interface, so that tables of
  interfaces never match (`Interface` in `DriversFound`), while an entry of
  interface 0,0,0 matches every one (`Vague`).
- `kconfig.py:58-147`: of several definitions of a symbol the last one parsed
  counts alone; help text that begins like an attribute is one, and a `#` at the
  beginning of a line ends an entry (`Plain`, with lines that a backslash continues); of the variables in source lines
  only `$(srctree)` and `$(src)` are known.
- `matchers.py:342-372`: of an obj- line only the first target is taken.
- `s06_makeconf.py:89`: base and sub class are compared with the base class
  alone, so that no device adds alsa, networkmanager or wifi to USE;
  `s06_makeconf.py:85`: of several graphics cards the last known one counts.
- `s07_chroot_init.py:95`: a locale that `locale.gen` has in a comment is not
  enabled (`OnlyComment`); `s10_finalize.py:71`: a host name that is part of
  another line is not added to `hosts` (`Hidden`).
- `s09_bootloader.py`: where blkid finds no UUID, `UUID=` is followed by the
  device's name.
- `s10_finalize.py:87`, `s10_finalize.py:110`: no step records a password hash
  or a network interface: the root password stays empty unless one is given, and
  a re-run of the network step follows that run's options.
- `bootpath.py:110`: a kind of disk that is not in the table gets no driver.

## 7. Assumptions about the world, and what is left out

External commands are modelled by how the code uses them: `wipefs`, `sgdisk` and
`mkfs` refuse a device in use, `umount -l` detaches what is on top, `mount`
stacks, `make olddefconfig` keeps a symbol whose dependencies are at least as
strong and lowers or drops it otherwise, `emerge` succeeds or fails. That the
boot path's tables name what a kernel needs is taken from them and from
`tests/test_bootpath.py`; that `has_lvm`, `has_luks` and `has_raid` are set is an
input (no step sets them).

In `TargetSettings` commands in the chroot do what they are for or fail; GRUB
installs only for a platform that its package was built for, which is make.conf's.

Left out: the regular expressions that find macros in C text and lines in
Makefiles, symlinks among Kconfig paths, indented `config` lines, comparisons of two
symbols, strings and macros in Kconfig expressions; bits, checksums and text encodings of what the scans read, an
`OSError` of a port that was opened, the cap on the size of the root table; prompts
and types in Kconfig; sizes, partition names and mount options; the constant parts
of make.conf and of GRUB's defaults. `ChrootInitStep` and `PortageSyncStep` are steps of
`StepRunner`'s plan and no more: nothing reads back what they do. Two contexts on
one mountpoint (`chroot.py:80`) have no run: with two processes in `Procs` TLC finds
all three properties of `ChrootMounts` violated, since neither process looks for the
other. That a checksum mismatch is
caught (`s05_stage3.py:101`) is in `Stage3Tarball` as verification that lets
everything pass.

Not modelled: headings, progress lines and tables on the terminal; `build_iso.sh`,
`test_iso.sh` and the unit tests, which build and test the image.
