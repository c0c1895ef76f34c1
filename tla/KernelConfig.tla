----------------------------- MODULE KernelConfig -----------------------------
(***************************************************************************)
(* The kernel steps of installer/steps/s08_kernel.py, run again until they *)
(* are done.  KernelConfigStep: which kernel tree it takes, the cached     *)
(* source index, matching, dependency resolution, generation, the lock on  *)
(* the boot path and make olddefconfig; then KernelCompileStep and         *)
(* KernelInstallStep, which take the tree from the state file.             *)
(*                                                                         *)
(* Abstracted: the driver index of a tree is the set of modules in it that *)
(* match the machine's devices; the number of symbols state.set stores;    *)
(* a tree does not change while the installer works on it.                 *)
(***************************************************************************)
EXTENDS ConfigGenerator, KconfigGraph

CONSTANTS
    Trees,        \* kernel source trees of the machine
    Here,         \* the directory the installer is started in, no such tree
    Missing,      \* a path that is no directory
    Unset,        \* no path: None, or the default "" of state.get
    Base,         \* the entries ConfigGenerator starts with
    DisabledSymbols,  \* _DISABLED
    Static,       \* static_configs() of the boot path
    AcpiSymbols,  \* what the ACPI tables of the machine add
    Modules,      \* the modules of a directory that match a device
    ConfigsOf,    \* makefile_db.get_configs in a directory, by module
    Pulls,        \* selects, implies and depends in a directory, by symbol
    Depends,      \* the symbols a symbol depends on in a directory
    Bools,        \* the symbols of a directory that cannot be "m"
    DriverValue,  \* --driver-value
    Caching,      \* --cache-dir is given
    Faults,       \* what may go wrong in this instance
    Absent,       \* no file
    Torn          \* a truncated file

Dirs == Trees \cup {Here}
AllFaults == {"unset", "missing", "kill", "torn", "make"}

ASSUME DirectoryAssumption ==
    /\ {Here, Missing, Unset} \cap Trees = {}
    /\ Here # Missing /\ Here # Unset /\ Missing # Unset
    /\ {Absent, Torn} \cap Dirs = {}
    /\ Modules[Here] = {}

ASSUME SymbolAssumption ==
    /\ DOMAIN Base \subseteq Symbols /\ Base \in [DOMAIN Base -> Values]
    /\ DisabledSymbols \cup Static \cup AcpiSymbols \subseteq Symbols
    /\ DriverValue \in {"m", "y"}
    /\ \A d \in Dirs : {Pulls[d], Depends[d]} \subseteq [Symbols -> SUBSET Symbols]
    /\ \A idx, d \in Dirs : \A m \in Modules[idx] : ConfigsOf[d][m] \subseteq Symbols

ASSUME FaultAssumption == Caching \in BOOLEAN /\ Faults \subseteq AllFaults

VARIABLES
    arg,      \* --kernel-src of this run
    saved,    \* config["kernel_src"] in the state file
    cache,    \* source_index.json: the directory it indexes, or no index
    index,    \* src_index: the directory it was made from
    wanted,   \* config_symbols
    entries,  \* the generator's entries
    config,   \* each directory's .config
    done,     \* the steps recorded as completed
    built,    \* the .config each tree was compiled with
    target,   \* those of the modules and of the image installed
    calm,     \* nothing goes wrong any more (an environment's choice)
    at        \* control point of execute()

memory == <<index, wanted, entries>>
result == <<done, built, target>>
disk   == <<saved, cache, config, result>>
vars   == <<arg, memory, disk, calm, at>>

Points == {"off", "source", "index", "cache", "cacheOpen", "match", "generate",
           "lock", "save", "saveOpen", "make", "record", "recorded",
           "compile", "compiled", "modules", "image", "installed"}
Steps == {"kernel_config", "kernel_compile", "kernel_install"}

May(f) == f \in Faults /\ ~calm
GoTo(point) == at' = point
\* What KernelConfigStep had in memory is gone; or the whole process is.
Forget == arg' = Unset /\ index' = Unset /\ wanted' = {} /\ entries' = Base
Leave == GoTo("off") /\ Forget

\* self._kernel_src or state.get("kernel_src", "")
Source == IF arg # Unset THEN arg ELSE saved
\* Faulty form: the command line's --kernel-src is not looked at.
Directory_SavedOnly == IF saved = Unset THEN Here ELSE saved

\* Path("") is the path of the current directory.
Directory == IF Source = Unset THEN Here ELSE Source

Init == /\ arg = Unset /\ saved = Unset
        /\ cache = Absent /\ index = Unset
        /\ wanted = {} /\ entries = Base
        /\ config = [d \in Dirs |-> Absent]
        /\ done = {} /\ built = [d \in Dirs |-> Absent]
        /\ target = [modules |-> Absent, image |-> Absent]
        /\ calm = FALSE
        /\ at = "off"
-----------------------------------------------------------------------------
(* The tree and its index.                                                 *)

\* A run of the installer comes to the first step not recorded.
Launch == /\ at = "off" /\ done # Steps
          /\ \/ arg' \in Trees
             \/ May("unset") /\ arg' = Unset
             \/ May("missing") /\ arg' = Missing
          /\ \/ "kernel_config" \notin done /\ GoTo("source")
             \/ "kernel_config" \in done /\ "kernel_compile" \notin done /\ GoTo("compile")
             \/ {"kernel_config", "kernel_compile"} \subseteq done /\ GoTo("modules")
          /\ UNCHANGED <<memory, disk, calm>>

RefuseSource == /\ at = "source" /\ Directory \notin Dirs
                /\ Leave
                /\ UNCHANGED <<disk, calm>>

TakeSource == /\ at = "source" /\ Directory \in Dirs
              /\ GoTo("index")
              /\ UNCHANGED <<arg, memory, disk, calm>>

\* build_source_index: the cache file is there and parses ...
LoadIndex == /\ at = "index" /\ Caching /\ cache \in Dirs
             /\ index' = cache
             /\ GoTo("match")
             /\ UNCHANGED <<arg, wanted, entries, disk, calm>>

\* ... or does not parse, which nothing catches ...
LoadFails == /\ at = "index" /\ Caching /\ cache = Torn
             /\ Leave
             /\ UNCHANGED <<disk, calm>>

\* ... or is not there, or not asked for: the tree is scanned.
ScanTree == /\ at = "index" /\ ~(Caching /\ cache # Absent)
            /\ index' = Directory
            /\ GoTo(IF Caching THEN "cache" ELSE "match")
            /\ UNCHANGED <<arg, wanted, entries, disk, calm>>

\* cache_path.write_text: open, then write.
OpenCache == /\ at = "cache"
             /\ cache' = Torn
             /\ GoTo("cacheOpen")
             /\ UNCHANGED <<arg, memory, saved, config, result, calm>>

WriteCache == /\ at = "cacheOpen"
              /\ cache' = index
              /\ GoTo("match")
              /\ UNCHANGED <<arg, memory, saved, config, result, calm>>
-----------------------------------------------------------------------------
(* From the devices to a .config.                                          *)

\* Faulty form: the dependencies of the drivers are not resolved.
ConfigSymbols_Unresolved(idx, dir) ==
    (UNION {ConfigsOf[dir][m] : m \in Modules[idx]}) \cup AcpiSymbols

\* The symbols of the modules the index matches, by the Makefiles of the
\* tree, those of the ACPI tables, and their dependencies.
ConfigSymbols(idx, dir) ==
    Resolved((UNION {ConfigsOf[dir][m] : m \in Modules[idx]}) \cup AcpiSymbols,
             Pulls[dir])

Match == /\ at = "match"
         /\ wanted' = ConfigSymbols(index, Directory)
         /\ GoTo("generate")
         /\ UNCHANGED <<arg, index, entries, disk, calm>>

Generate == /\ at = "generate"
            /\ entries' = AddMany(Base, wanted, DriverValue)
            /\ GoTo("lock")
            /\ UNCHANGED <<arg, index, wanted, disk, calm>>

\* Faulty form: what the boot path needs is added like any driver.
LockStatic_AsDriver == /\ at = "lock"
                       /\ entries' = AddMany(entries, Static, DriverValue)
                       /\ GoTo("save")
                       /\ UNCHANGED <<arg, index, wanted, disk, calm>>

\* apply_boot_path.
LockStatic == /\ at = "lock"
              /\ entries' = AddMany(entries, Static, "y")
              /\ GoTo("save")
              /\ UNCHANGED <<arg, index, wanted, disk, calm>>

\* gen.save: open, then write.
OpenConfig == /\ at = "save"
              /\ config' = [config EXCEPT ![Directory] = Torn]
              /\ GoTo("saveOpen")
              /\ UNCHANGED <<arg, memory, saved, cache, result, calm>>

WriteConfig == /\ at = "saveOpen"
               /\ config' = [config EXCEPT ![Directory] = Written(entries, DisabledSymbols)]
               /\ GoTo("make")
               /\ UNCHANGED <<arg, memory, saved, cache, result, calm>>

\* The kernel's olddefconfig: a symbol keeps the value the file asks for as
\* far as everything it depends on allows it.  A symbol the file does not
\* have, and a bool one it gives "m", gets its default, taken to be "n".
Asked(dir, file, s) ==
    IF s \notin DOMAIN file \/ (s \in Bools[dir] /\ file[s] = "m") THEN "n"
    ELSE file[s]

OldDefConfig(dir, file) ==
    [s \in Symbols |->
        LET values == {Asked(dir, file, d) : d \in Resolved({s}, Depends[dir])}
        IN  IF "n" \in values THEN "n" ELSE IF "m" \in values THEN "m" ELSE "y"]

Make == /\ at = "make" /\ Directory \in Trees
        /\ config' = [config EXCEPT ![Directory] =
                          OldDefConfig(Directory, config[Directory])]
        /\ GoTo("record")
        /\ UNCHANGED <<arg, memory, saved, cache, result, calm>>

\* There is no Makefile, or make fails: CalledProcessError.
MakeFails == /\ at = "make" /\ (Directory = Here \/ May("make"))
             /\ Leave
             /\ UNCHANGED <<disk, calm>>

\* state.set("kernel_src", ...)
Record == /\ at = "record"
          /\ saved' = Directory
          /\ GoTo("recorded")
          /\ UNCHANGED <<arg, memory, cache, config, result, calm>>

\* mark_done, by Step.run.
Mark(step) == /\ done' = done \cup {step}
              /\ UNCHANGED <<saved, cache, config, built, target, calm>>

Finish == /\ at = "recorded" /\ GoTo("compile")
          /\ Forget /\ Mark("kernel_config")
-----------------------------------------------------------------------------
(* KernelCompileStep and KernelInstallStep: Path(state.get("kernel_src")). *)

\* Faulty form: the command line's tree goes before the recorded one.
Compile_Arg == /\ at = "compile" /\ GoTo("compiled")
               /\ Directory \in Dirs
               /\ built' = [built EXCEPT ![Directory] = config[Directory]]
               /\ UNCHANGED <<arg, memory, saved, cache, config, done, target, calm>>

Compile == /\ at = "compile" /\ GoTo("compiled")
           /\ built' = [built EXCEPT ![saved] = config[saved]]
           /\ UNCHANGED <<arg, memory, saved, cache, config, done, target, calm>>

CompileDone == /\ at = "compiled" /\ GoTo("modules") /\ UNCHANGED <<arg, memory>>
               /\ Mark("kernel_compile")

InstallModules == /\ at = "modules" /\ GoTo("image")
                  /\ target' = [target EXCEPT !.modules = built[saved]]
                  /\ UNCHANGED <<arg, memory, saved, cache, config, done, built, calm>>

InstallImage == /\ at = "image" /\ GoTo("installed")
                /\ target' = [target EXCEPT !.image = built[saved]]
                /\ UNCHANGED <<arg, memory, saved, cache, config, done, built, calm>>

InstallDone == /\ at = "installed" /\ Leave
               /\ Mark("kernel_install")

\* The tree is not there at the moment, or make fails.
BuildFails == /\ at \in {"compile", "modules", "image"}
              /\ May("missing") \/ May("make")
              /\ Leave
              /\ UNCHANGED <<disk, calm>>
-----------------------------------------------------------------------------
\* The process dies.  In the middle of writing the cache that leaves a file
\* that does not parse; elsewhere it leaves what is there.
Kill == /\ at # "off"
        /\ May("kill") /\ (at = "cacheOpen" => May("torn"))
        /\ Leave
        /\ UNCHANGED <<disk, calm>>

CalmDown == /\ ~calm
            /\ calm' = TRUE
            /\ UNCHANGED <<arg, memory, disk, at>>

Work == \/ RefuseSource \/ TakeSource \/ LoadIndex \/ LoadFails \/ ScanTree
        \/ OpenCache \/ WriteCache \/ Match \/ Generate \/ LockStatic
        \/ OpenConfig \/ WriteConfig \/ Make \/ MakeFails \/ Record \/ Finish
        \/ Compile \/ CompileDone \/ InstallModules \/ InstallImage \/ InstallDone
        \/ BuildFails

Next == Launch \/ Work \/ Kill \/ CalmDown

Spec == Init /\ [][Next]_vars

\* A running step goes on; the operator runs the installer again, and once
\* nothing goes wrong any more gives it a tree; the faults end some day.
FairSpec == Spec /\ WF_vars(Work) /\ WF_vars(Launch) /\ WF_vars(CalmDown)
-----------------------------------------------------------------------------
Configs == {Absent, Torn} \cup UNION {[set -> Values] : set \in SUBSET Symbols}

TypeOK == /\ arg \in Trees \cup {Missing, Unset}
          /\ saved \in Dirs \cup {Unset}
          /\ cache \in Dirs \cup {Absent, Torn}
          /\ index \in Dirs \cup {Unset}
          /\ wanted \in SUBSET Symbols
          /\ DOMAIN entries \subseteq Symbols /\ entries \in [DOMAIN entries -> Values]
          /\ {config, built} \subseteq [Dirs -> Configs]
          /\ target \in [modules : Configs, image : Configs]
          /\ done \subseteq Steps /\ calm \in BOOLEAN
          /\ at \in Points

\* Every driver of the boot path is built in when make is started, whatever
\* hardware was found, whatever an earlier run left in the tree
\* (s08_kernel.py 138-149, bootpath.py 147-158).
StaticWritten == at = "make" => \A s \in Static : BuiltIn(config[Directory], s)

\* What every kernel needs built in is asked for as built in, also when it is
\* among the symbols the hardware drags in (generator.py 111-115).
EssentialWritten == at = "make" => \A s \in Symbols :
                        BuiltIn(Base, s) => BuiltIn(config[Directory], s)

\* Every driver that matches a device is asked for, and none without what its
\* Kconfig entry drags in (s08_kernel.py 113-139).
DriversAsked ==
    at = "make" =>
        LET asked == {s \in DOMAIN config[Directory] : config[Directory][s] # "n"}
        IN  /\ \A m \in Modules[index] : ConfigsOf[Directory][m] \subseteq asked
            /\ \A s \in wanted : Pulls[Directory][s] \subseteq asked

\* The modules and the image on the target come from one build, of a tree
\* that was configured for this machine, from some index and no mixture of
\* runs: whatever --kernel-src the runs had that configured, compiled and
\* installed, and wherever they ended (s08_kernel.py 92, 158, 167, 188).
InstalledIsConfigured ==
    "kernel_install" \in done =>
        /\ target.modules = target.image
        /\ \E idx \in Dirs :
               target.image = OldDefConfig(saved,
                   Written(AddMany(AddMany(Base, ConfigSymbols(idx, saved), DriverValue),
                                   Static, "y"), DisabledSymbols))

\* make olddefconfig leaves a symbol of the boot path built in if everything
\* it depends on was asked for built in as well, though an earlier attempt
\* may have left a .config in the tree and other symbols are lowered; and
\* that is the kernel that gets installed.  README.md 165: `Every driver in
\* the path from PCI bus to mounted root is forced to =y'.  (A dependency
\* that is only a module lowers the symbol: the lock comes after dependencies
\* were resolved.)
StaticSurvives ==
    "kernel_install" \in done => \A s \in Static :
        (\A d \in Resolved({s}, Depends[saved]) :
            d \in Static \/ (BuiltIn(Base, d) /\ d \notin DisabledSymbols))
        => target.image[s] = "y"

\* The process ended in the middle of writing the cache.
CacheCut == cache = Torn /\ at = "off"

\* Once nothing goes wrong any more the steps get done, unless a write of the
\* cache was ever cut in two (README.md 28-29: `If interrupted at any point,
\* re-running the installer resumes').
Configures == []~CacheCut => (calm ~> done = Steps)
=============================================================================
