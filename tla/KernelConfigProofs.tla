-------------------------- MODULE KernelConfigProofs --------------------------
(***************************************************************************)
(* What the kernel is asked for has the boot path and the essentials built *)
(* in, for all trees, symbols, tables, hardware and faults, over any number*)
(* of interrupted runs.  Then the Kconfig database behind it: dependencies *)
(* are resolved to the least closed set in any database, the entries say   *)
(* what the files say in any tree, and expressions of any depth lose no    *)
(* symbol.                                                                 *)
(***************************************************************************)
EXTENDS KernelConfig, KconfigLoad, FiniteSetTheorems, SequenceTheorems, TLAPS

\* What add() keeps and what it gives.
LEMMA AddManyKeeps ==
    ASSUME NEW entries0, NEW set, NEW value, NEW s, BuiltIn(entries0, s)
    PROVE  BuiltIn(AddMany(entries0, set, value), s)
  BY DEF AddMany, BuiltIn

LEMMA AddManyBuildsIn ==
    ASSUME NEW entries0, NEW set, NEW s \in set
    PROVE  BuiltIn(AddMany(entries0, set, "y"), s)
  BY DEF AddMany, BuiltIn

LEMMA WrittenKeeps ==
    ASSUME NEW entries0, NEW disabled, NEW s, BuiltIn(entries0, s)
    PROVE  BuiltIn(Written(entries0, disabled), s)
  BY DEF Written, BuiltIn

\* How far the generator has come at each point.
EssentialIn == at \in {"lock", "save", "saveOpen"} =>
                   \A s \in Symbols : BuiltIn(Base, s) => BuiltIn(entries, s)
StaticIn == at \in {"save", "saveOpen"} => \A s \in Static : BuiltIn(entries, s)
\* Where no .config is in the making.
Elsewhere == {"off", "source", "compile", "compiled", "modules", "image", "installed"}

\* A run past the check works in a directory, and config has a place for it.
InDirectory == /\ at \notin Elsewhere => Directory \in Dirs
               /\ DOMAIN config = Dirs

ConfigInv == EssentialIn /\ StaticIn /\ InDirectory
             /\ StaticWritten /\ EssentialWritten

\* A step that leaves the arguments and the state file alone works in the
\* same directory.
LEMMA SameDirectory ==
    ASSUME UNCHANGED <<arg, saved>>
    PROVE  Directory' = Directory
  BY DEF Directory, Source

LEMMA ConfigInvariant == Spec => []ConfigInv
  <1> USE DEF Elsewhere
  <1>1. Init => ConfigInv
    BY DEF Init, ConfigInv, EssentialIn, StaticIn, InDirectory, StaticWritten,
           EssentialWritten
  <1>2. ConfigInv /\ [Next]_vars => ConfigInv'
    <2> SUFFICES ASSUME ConfigInv, [Next]_vars PROVE ConfigInv'
      OBVIOUS
    <2> USE DEF ConfigInv
    <2>0. /\ EssentialIn /\ StaticIn /\ InDirectory
          /\ StaticWritten /\ EssentialWritten
      OBVIOUS
    <2>1. CASE Launch
      <3>1. at' \in Elsewhere /\ config' = config
        BY <2>1 DEF Launch, GoTo, disk
      <3> QED
        BY <2>0, <3>1 DEF EssentialIn, StaticIn, InDirectory,
                          StaticWritten, EssentialWritten
    <2>2. CASE RefuseSource \/ LoadFails \/ MakeFails \/ Finish \/ Kill
      <3>1. at' \in Elsewhere /\ config' = config
        BY <2>2 DEF RefuseSource, LoadFails, MakeFails, Finish, Mark, Kill, Leave,
                    GoTo, disk
      <3> QED
        BY <2>0, <3>1 DEF EssentialIn, StaticIn, InDirectory,
                          StaticWritten, EssentialWritten
    <2>3. CASE \/ Compile \/ CompileDone \/ InstallModules \/ InstallImage
                \/ InstallDone \/ BuildFails
      <3>1. at' \in Elsewhere /\ config' = config
        BY <2>3 DEF Compile, CompileDone, InstallModules, InstallImage,
                     InstallDone, BuildFails, Mark, Leave, GoTo, disk
      <3> QED
        BY <2>0, <3>1 DEF EssentialIn, StaticIn, InDirectory,
                          StaticWritten, EssentialWritten
    <2>4. CASE TakeSource \/ LoadIndex \/ ScanTree \/ OpenCache \/ WriteCache \/ Match
      <3>1. /\ UNCHANGED <<arg, saved, config>>
            /\ at' \in {"index", "match", "cache", "cacheOpen", "generate"}
            /\ Directory \in Dirs
        BY <2>0, <2>4 DEF TakeSource, LoadIndex, ScanTree, OpenCache, WriteCache,
                          Match, GoTo, memory, disk, InDirectory
      <3>2. Directory' = Directory
        BY <3>1, SameDirectory
      <3> QED
        BY <2>0, <3>1, <3>2 DEF EssentialIn, StaticIn, InDirectory,
                                StaticWritten, EssentialWritten
    <2>5. CASE Generate
      <3>1. /\ at = "generate" /\ at' = "lock" /\ config' = config
            /\ UNCHANGED <<arg, saved>>
            /\ entries' = AddMany(Base, wanted, DriverValue)
        BY <2>5 DEF Generate, GoTo, disk
      <3>2. Directory' = Directory
        BY <3>1, SameDirectory
      <3>3. EssentialIn'
        BY <3>1, AddManyKeeps DEF EssentialIn
      <3> QED
        BY <2>0, <3>1, <3>2, <3>3 DEF StaticIn, InDirectory, StaticWritten,
                                      EssentialWritten
    <2>6. CASE LockStatic
      <3>1. /\ at = "lock" /\ at' = "save" /\ config' = config
            /\ UNCHANGED <<arg, saved>>
            /\ entries' = AddMany(entries, Static, "y")
        BY <2>6 DEF LockStatic, GoTo, disk
      <3>2. Directory' = Directory
        BY <3>1, SameDirectory
      <3>3. EssentialIn'
        BY <2>0, <3>1, AddManyKeeps DEF EssentialIn
      <3>4. StaticIn'
        BY <3>1, AddManyBuildsIn DEF StaticIn
      <3> QED
        BY <2>0, <3>1, <3>2, <3>3, <3>4 DEF InDirectory, StaticWritten,
                                            EssentialWritten
    <2>7. CASE OpenConfig
      <3>1. /\ at = "save" /\ at' = "saveOpen" /\ entries' = entries
            /\ UNCHANGED <<arg, saved>>
            /\ DOMAIN config' = DOMAIN config
        BY <2>7 DEF OpenConfig, GoTo, memory
      <3>2. Directory' = Directory
        BY <3>1, SameDirectory
      <3> QED
        BY <2>0, <3>1, <3>2 DEF EssentialIn, StaticIn, InDirectory,
                                StaticWritten, EssentialWritten
    <2>8. CASE WriteConfig
      <3>1. /\ at = "saveOpen" /\ at' = "make"
            /\ UNCHANGED <<arg, saved>>
            /\ config' = [config EXCEPT ![Directory] = Written(entries, DisabledSymbols)]
        BY <2>8 DEF WriteConfig, GoTo
      <3>2. Directory' = Directory /\ Directory \in Dirs /\ DOMAIN config = Dirs
        BY <2>0, <3>1, SameDirectory DEF InDirectory
      <3>3. config'[Directory'] = Written(entries, DisabledSymbols)
        BY <3>1, <3>2
      <3>4. StaticWritten'
        <4>1. \A s \in Static : BuiltIn(entries, s)
          BY <2>0, <3>1 DEF StaticIn
        <4> QED
          BY <3>3, <4>1, WrittenKeeps DEF StaticWritten
      <3>5. EssentialWritten'
        <4>1. \A s \in Symbols : BuiltIn(Base, s) => BuiltIn(entries, s)
          BY <2>0, <3>1 DEF EssentialIn
        <4> QED
          BY <3>3, <4>1, WrittenKeeps DEF EssentialWritten
      <3>6. InDirectory'
        BY <3>1, <3>2 DEF InDirectory
      <3> QED
        BY <3>1, <3>4, <3>5, <3>6 DEF EssentialIn, StaticIn
    <2>9. CASE Make
      <3>1. /\ at = "make" /\ at' = "record" /\ DOMAIN config' = DOMAIN config
            /\ UNCHANGED <<arg, saved>>
        BY <2>9 DEF Make, GoTo
      <3>2. Directory' = Directory
        BY <3>1, SameDirectory
      <3> QED
        BY <2>0, <3>1, <3>2 DEF EssentialIn, StaticIn, InDirectory,
                                StaticWritten, EssentialWritten
    <2>10. CASE Record
      <3>1. /\ at = "record" /\ at' = "recorded" /\ config' = config
            /\ arg' = arg /\ saved' = Directory /\ Directory \in Dirs
        BY <2>0, <2>10 DEF Record, GoTo, InDirectory
      <3>2. Directory' \in Dirs
        BY <3>1 DEF Directory, Source, Dirs
      <3> QED
        BY <2>0, <3>1, <3>2 DEF EssentialIn, StaticIn, InDirectory,
                                StaticWritten, EssentialWritten
    <2>11. CASE CalmDown \/ UNCHANGED vars
      <3>1. UNCHANGED <<arg, saved, at, entries, config>>
        BY <2>11 DEF CalmDown, vars, memory, disk
      <3>2. Directory' = Directory
        BY <3>1, SameDirectory
      <3> QED
        BY <2>0, <3>1, <3>2 DEF EssentialIn, StaticIn, InDirectory,
                                StaticWritten, EssentialWritten
    <2> QED
      BY <2>1, <2>2, <2>3, <2>4, <2>5, <2>6, <2>7, <2>8, <2>9, <2>10, <2>11
         DEF Next, Work
  <1> QED
    BY <1>1, <1>2, PTL DEF Spec

\* Whenever make is started, every symbol of the boot path is built in
\* (s08_kernel.py 138-154, bootpath.py 147-158).
THEOREM StaticIsWritten == Spec => []StaticWritten
  BY ConfigInvariant, PTL DEF ConfigInv

\* Whenever make is started, every symbol that is essential and built in
\* still is (generator.py 111-115).
THEOREM EssentialIsWritten == Spec => []EssentialWritten
  BY ConfigInvariant, PTL DEF ConfigInv
-----------------------------------------------------------------------------
(* What is installed.                                                      *)

\* What a run makes of a tree from an index, and what make leaves of that.
Asking(idx, dir) == AddMany(Base, ConfigSymbols(idx, dir), DriverValue)
Locking(idx, dir) == AddMany(Asking(idx, dir), Static, "y")
Planned(idx, dir) == Written(Locking(idx, dir), DisabledSymbols)
Configured(dir) == \E idx \in Dirs : config[dir] = OldDefConfig(dir, Planned(idx, dir))

\* Control points of KernelConfigStep at which it has the drivers, at which it
\* has an index, and all.
Generating == {"generate", "lock", "save", "saveOpen", "make"}
Indexed == {"cache", "cacheOpen", "match", "generate", "lock", "save", "saveOpen", "make"}
Configuring == {"source", "index"} \cup Indexed \cup {"record", "recorded"}

\* One run's way from the index to the .config and its record.
RunInv == /\ DOMAIN config = Dirs
          /\ at \in Configuring \ {"source"} => Directory \in Dirs
          /\ at \in Indexed => index \in Dirs
          /\ at \in Generating => wanted = ConfigSymbols(index, Directory)
          /\ at = "lock" => entries = Asking(index, Directory)
          /\ at \in {"save", "saveOpen"} => entries = Locking(index, Directory)
          /\ at = "make" => config[Directory] = Planned(index, Directory)
          /\ at = "record" => Configured(Directory)
          /\ at = "recorded" => saved \in Dirs /\ Configured(saved)

\* The record grows in the order of the steps, and only while it is empty is
\* anything configured.
OrderInv == /\ at \in Configuring => done = {}
            /\ at \in {"compile", "compiled"} => done = {"kernel_config"}
            /\ at \in {"modules", "image", "installed"} =>
                  done = {"kernel_config", "kernel_compile"}
            /\ done \in {{}, {"kernel_config"}, {"kernel_config", "kernel_compile"}, Steps}

\* What is on record, or about to be, has been made of the recorded tree.
BuildInv == /\ DOMAIN built = Dirs /\ DOMAIN target = {"modules", "image"}
            /\ done # {} => saved \in Dirs /\ Configured(saved)
            /\ at = "compiled" \/ "kernel_compile" \in done => built[saved] = config[saved]
            /\ at \in {"image", "installed"} \/ "kernel_install" \in done =>
                  target.modules = built[saved]
            /\ at = "installed" \/ "kernel_install" \in done => target.image = built[saved]

InstallInv == RunInv /\ OrderInv /\ BuildInv

LEMMA InstallInvInit == Init => InstallInv
  BY DEF Init, InstallInv, RunInv, OrderInv, BuildInv, Configuring, Indexed,
         Generating, Steps

\* The steps of KernelConfigStep before make.
LEMMA NextPlans ==
    ASSUME InstallInv,
           \/ TakeSource \/ LoadIndex \/ ScanTree \/ OpenCache \/ WriteCache \/ Match
           \/ Generate \/ LockStatic \/ OpenConfig \/ WriteConfig
    PROVE  InstallInv'
  <1> USE DEF InstallInv, Configuring, Indexed, Generating
  <1>1. at \in Configuring /\ at' \in Configuring \ {"source", "record", "recorded"}
    BY DEF TakeSource, LoadIndex, ScanTree, OpenCache, WriteCache, Match,
           Generate, LockStatic, OpenConfig, WriteConfig, GoTo
  <1>2. UNCHANGED <<arg, saved, done, built, target>> /\ DOMAIN config' = DOMAIN config
    BY DEF TakeSource, LoadIndex, ScanTree, OpenCache, WriteCache, Match,
           Generate, LockStatic, OpenConfig, WriteConfig, disk, result
  <1>3. Directory' = Directory
    BY <1>2, SameDirectory
  <1>4. OrderInv'
    BY <1>1, <1>2 DEF OrderInv
  <1>5. BuildInv'
    BY <1>1, <1>2, <1>4 DEF OrderInv, BuildInv
  <1>6. Directory \in Dirs
    BY <1>1 DEF RunInv, TakeSource, LoadIndex, ScanTree, OpenCache, WriteCache,
                Match, Generate, LockStatic, OpenConfig, WriteConfig
  <1>7. RunInv'
    <2>1. CASE TakeSource \/ LoadIndex \/ ScanTree \/ OpenCache \/ WriteCache
      <3>1. at' \in {"index", "match", "cache", "cacheOpen"}
        BY <2>1 DEF TakeSource, LoadIndex, ScanTree, OpenCache, WriteCache, GoTo
      <3>2. at' # "index" => index' \in Dirs
        BY <1>6, <2>1 DEF RunInv, TakeSource, LoadIndex, ScanTree, OpenCache,
                          WriteCache, GoTo, memory
      <3> QED
        BY <1>2, <1>3, <1>6, <3>1, <3>2 DEF RunInv
    <2>2. CASE Match
      BY <1>2, <1>3, <1>6, <2>2 DEF RunInv, Match, GoTo
    <2>3. CASE Generate
      BY <1>2, <1>3, <1>6, <2>3 DEF RunInv, Generate, GoTo, Asking
    <2>4. CASE LockStatic
      BY <1>2, <1>3, <1>6, <2>4 DEF RunInv, LockStatic, GoTo, Locking
    <2>5. CASE OpenConfig
      BY <1>2, <1>3, <1>6, <2>5 DEF RunInv, OpenConfig, GoTo, memory
    <2>6. CASE WriteConfig
      BY <1>2, <1>3, <1>6, <2>6 DEF RunInv, WriteConfig, GoTo, memory, Planned
    <2> QED
      BY <2>1, <2>2, <2>3, <2>4, <2>5, <2>6
  <1> QED
    BY <1>4, <1>5, <1>7

\* make, and the record of the tree.
LEMMA NextRecords ==
    ASSUME InstallInv, Make \/ Record \/ Finish
    PROVE  InstallInv'
  <1> USE DEF InstallInv, Configuring, Indexed, Generating
  <1>1. CASE Make
    <2>1. /\ at = "make" /\ at' = "record" /\ Directory \in Dirs
          /\ UNCHANGED <<arg, saved, index, done, built, target>>
          /\ config' = [config EXCEPT ![Directory] = OldDefConfig(Directory, config[Directory])]
      BY <1>1 DEF Make, GoTo, memory, result, Dirs
    <2>2. Directory' = Directory
      BY <2>1, SameDirectory
    <2>3. config'[Directory] = OldDefConfig(Directory, Planned(index, Directory))
      BY <2>1 DEF RunInv
    <2>4. RunInv'
      BY <2>1, <2>2, <2>3 DEF RunInv, Configured
    <2>5. OrderInv' /\ BuildInv'
      BY <2>1 DEF OrderInv, BuildInv
    <2> QED
      BY <2>4, <2>5
  <1>2. CASE Record
    <2>1. /\ at = "record" /\ at' = "recorded" /\ Directory \in Dirs
          /\ UNCHANGED <<arg, config, done, built, target>> /\ saved' = Directory
      BY <1>2 DEF Record, GoTo, result, RunInv
    <2>2. Directory' \in Dirs
      BY <2>1 DEF Directory, Source
    <2>3. Configured(saved)'
      BY <2>1 DEF RunInv, Configured
    <2> QED
      BY <2>1, <2>2, <2>3 DEF RunInv, OrderInv, BuildInv
  <1>3. CASE Finish
    <2>1. /\ at = "recorded" /\ at' = "compile"
          /\ UNCHANGED <<saved, config, built, target>> /\ done' = done \cup {"kernel_config"}
      BY <1>3 DEF Finish, Mark, GoTo
    <2>2. done' = {"kernel_config"}
      BY <2>1 DEF OrderInv
    <2>3. saved' \in Dirs /\ Configured(saved)'
      BY <2>1 DEF RunInv, Configured
    <2> QED
      BY <2>1, <2>2, <2>3 DEF RunInv, OrderInv, BuildInv
  <1> QED
    BY <1>1, <1>2, <1>3

\* Compilation and installation.
LEMMA NextBuilds ==
    ASSUME InstallInv,
           Compile \/ CompileDone \/ InstallModules \/ InstallImage \/ InstallDone
    PROVE  InstallInv'
  <1> USE DEF InstallInv, Configuring, Indexed, Generating
  <1>1. /\ UNCHANGED <<saved, config>>
        /\ at' \in {"compiled", "modules", "image", "installed", "off"}
    BY DEF Compile, CompileDone, InstallModules, InstallImage, InstallDone, Mark,
           GoTo, Leave
  <1>2. RunInv'
    BY <1>1 DEF RunInv
  <1>3. done # {}
    BY DEF OrderInv, Compile, CompileDone, InstallModules, InstallImage, InstallDone
  <1>4. saved \in Dirs /\ Configured(saved) /\ Configured(saved)'
    BY <1>1, <1>3 DEF BuildInv, Configured
  <1>5. OrderInv'
    BY DEF OrderInv, Compile, CompileDone, InstallModules, InstallImage, InstallDone,
           Mark, GoTo, Leave, Steps
  <1>6. BuildInv'
    <2>1. CASE Compile
      BY <1>1, <1>4, <2>1 DEF BuildInv, OrderInv, Compile, GoTo
    <2>2. CASE CompileDone
      BY <1>1, <1>4, <2>2 DEF BuildInv, OrderInv, CompileDone, Mark, GoTo
    <2>3. CASE InstallModules
      BY <1>1, <1>4, <2>3 DEF BuildInv, OrderInv, InstallModules, GoTo
    <2>4. CASE InstallImage
      BY <1>1, <1>4, <2>4 DEF BuildInv, OrderInv, InstallImage, GoTo
    <2>5. CASE InstallDone
      BY <1>1, <1>4, <2>5 DEF BuildInv, OrderInv, InstallDone, Mark, GoTo, Leave
    <2> QED
      BY <2>1, <2>2, <2>3, <2>4, <2>5
  <1> QED
    BY <1>2, <1>5, <1>6

\* Starts and ends of runs, and what leaves them alone.
LEMMA NextStops ==
    ASSUME InstallInv,
           \/ Launch \/ RefuseSource \/ LoadFails \/ MakeFails \/ BuildFails
           \/ Kill \/ CalmDown \/ UNCHANGED vars
    PROVE  InstallInv'
  <1> USE DEF InstallInv, Configuring, Indexed, Generating
  <1>1. UNCHANGED <<saved, config, done, built, target>>
    BY DEF Launch, RefuseSource, LoadFails, MakeFails, BuildFails, Kill, CalmDown,
           vars, disk, result
  <1>2. Configured(saved)' <=> Configured(saved)
    BY <1>1 DEF Configured
  <1>3. CASE CalmDown \/ UNCHANGED vars
    <2>1. UNCHANGED <<arg, index, wanted, entries, at>>
      BY <1>3 DEF CalmDown, vars, memory
    <2>2. Directory' = Directory
      BY <1>1, <2>1, SameDirectory
    <2>3. Configured(Directory)' <=> Configured(Directory)
      BY <1>1, <2>2 DEF Configured
    <2> QED
      BY <1>1, <1>2, <2>1, <2>2, <2>3 DEF RunInv, OrderInv, BuildInv
  <1>4. CASE Launch
    <2>1. \/ at' = "source" /\ "kernel_config" \notin done
          \/ at' = "compile" /\ "kernel_config" \in done /\ "kernel_compile" \notin done
          \/ at' = "modules" /\ {"kernel_config", "kernel_compile"} \subseteq done
      BY <1>4 DEF Launch, GoTo
    <2>2. done # Steps
      BY <1>4 DEF Launch
    <2>3. OrderInv'
      BY <1>1, <2>1, <2>2 DEF OrderInv, Steps
    <2>4. RunInv'
      BY <1>1, <2>1 DEF RunInv
    <2> QED
      BY <1>1, <1>2, <2>1, <2>2, <2>3, <2>4 DEF BuildInv
  <1>5. CASE RefuseSource \/ LoadFails \/ MakeFails \/ BuildFails \/ Kill
    <2>1. at' = "off"
      BY <1>5 DEF RefuseSource, LoadFails, MakeFails, BuildFails, Kill, Leave, GoTo
    <2> QED
      BY <1>1, <1>2, <2>1 DEF RunInv, OrderInv, BuildInv
  <1> QED
    BY <1>3, <1>4, <1>5

LEMMA InstallInvariant == Spec => []InstallInv
  <1>1. InstallInv /\ [Next]_vars => InstallInv'
    BY NextPlans, NextRecords, NextBuilds, NextStops DEF Next, Work
  <1> QED
    BY <1>1, InstallInvInit, PTL DEF Spec

\* Modules and image on the target are of one build of a tree that was
\* configured, from one index, for this machine: for all trees, tables and
\* faults, over any number of runs (s08_kernel.py 92, 158, 167, 188).
THEOREM InstalledAsConfigured == Spec => []InstalledIsConfigured
  <1>1. InstallInv => InstalledIsConfigured
    <2> SUFFICES ASSUME InstallInv, "kernel_install" \in done
                 PROVE  InstalledIsConfigured
      BY DEF InstalledIsConfigured
    <2>1. /\ "kernel_compile" \in done /\ done # {}
      BY DEF InstallInv, OrderInv, Steps
    <2>2. /\ target.modules = config[saved] /\ target.image = config[saved]
          /\ Configured(saved)
      BY <2>1 DEF InstallInv, BuildInv
    <2> QED
      BY <2>2 DEF InstalledIsConfigured, Configured, Planned, Locking, Asking
  <1> QED
    BY <1>1, InstallInvariant, PTL

\* What dependency resolution promises: what was asked for, closed under what
\* its members drag in, and nothing more than that takes.
LEMMA ResolvedIsLeast ==
    ASSUME NEW set, NEW pulls \in [set -> SUBSET set],
           NEW asked \in SUBSET set
    PROVE  /\ asked \subseteq Resolved(asked, pulls)
           /\ Closed(Resolved(asked, pulls), pulls)
           /\ \A other \in SUBSET set :
                  asked \subseteq other /\ Closed(other, pulls)
                  => Resolved(asked, pulls) \subseteq other
  BY DEF Resolved, Closed

\* What a file asks for.
AskedFor(file) == {s \in DOMAIN file : file[s] # "n"}

\* A symbol that is asked for stays so, whatever is added and written.
LEMMA AddManyAsks ==
    ASSUME NEW entries0, NEW set, NEW value, value # "n"
    PROVE  AskedFor(entries0) \cup set \subseteq AskedFor(AddMany(entries0, set, value))
  BY DEF AskedFor, AddMany, BuiltIn

LEMMA WrittenAsks ==
    ASSUME NEW entries0, NEW disabled
    PROVE  AskedFor(entries0) \subseteq AskedFor(Written(entries0, disabled))
  BY DEF AskedFor, Written

\* What make is given asks for every driver of the devices found and for
\* everything the drivers drag in, from whatever tree the index is
\* (s08_kernel.py 113-139).
THEOREM DriversAreAsked == Spec => []DriversAsked
  <1>1. InstallInv => DriversAsked
    <2> SUFFICES ASSUME InstallInv, at = "make" PROVE DriversAsked
      BY DEF DriversAsked
    <2> DEFINE found == UNION {ConfigsOf[Directory][m] : m \in Modules[index]}
               file == config[Directory]
    <2>1. /\ index \in Dirs /\ Directory \in Dirs
          /\ wanted = ConfigSymbols(index, Directory)
          /\ file = Planned(index, Directory)
      BY DEF InstallInv, RunInv, Configuring, Indexed, Generating
    <2>2. wanted \subseteq AskedFor(file)
      BY <2>1, AddManyAsks, WrittenAsks, SymbolAssumption
         DEF Planned, Locking, Asking
    <2>3. /\ found \cup AcpiSymbols \in SUBSET Symbols
          /\ Pulls[Directory] \in [Symbols -> SUBSET Symbols]
      BY <2>1, SymbolAssumption
    <2>4. found \subseteq wanted /\ Closed(wanted, Pulls[Directory])
      BY <2>1, <2>3, ResolvedIsLeast DEF ConfigSymbols
    <2> QED
      BY <2>2, <2>4 DEF DriversAsked, AskedFor, Closed
  <1> QED
    BY <1>1, InstallInvariant, PTL

\* What is built in in what make is given, together with all it depends on,
\* is built in in what make leaves.
LEMMA OldDefConfigKeeps ==
    ASSUME NEW dir, NEW file, NEW s \in Symbols,
           \A d \in Resolved({s}, Depends[dir]) : BuiltIn(file, d)
    PROVE  OldDefConfig(dir, file)[s] = "y"
  <1> DEFINE values == {Asked(dir, file, d) : d \in Resolved({s}, Depends[dir])}
  <1>1. \A d \in Resolved({s}, Depends[dir]) : Asked(dir, file, d) = "y"
    BY DEF Asked, BuiltIn
  <1>2. values \subseteq {"y"}
    BY <1>1
  <1>3. OldDefConfig(dir, file)[s] = IF "n" \in values THEN "n"
                                     ELSE IF "m" \in values THEN "m" ELSE "y"
    BY DEF OldDefConfig
  <1> QED
    BY <1>2, <1>3

\* The kernel that is installed has every symbol of the boot path built in
\* whose dependencies are on the boot path or essential, whatever hardware
\* was found (bootpath.py 147-158, generator.py 111-115, s08_kernel.py 138).
THEOREM StaticIsInstalled == Spec => []StaticSurvives
  <1>1. InstalledIsConfigured => StaticSurvives
    <2> SUFFICES ASSUME InstalledIsConfigured, "kernel_install" \in done,
                        NEW s \in Static,
                        \A d \in Resolved({s}, Depends[saved]) :
                            d \in Static \/ (BuiltIn(Base, d) /\ d \notin DisabledSymbols)
                 PROVE  target.image[s] = "y"
      BY DEF StaticSurvives
    <2>1. PICK idx \in Dirs : target.image = OldDefConfig(saved, Planned(idx, saved))
      BY DEF InstalledIsConfigured, Planned, Locking, Asking
    <2>2. \A d : d \in Static \/ BuiltIn(Base, d) => BuiltIn(Planned(idx, saved), d)
      BY AddManyBuildsIn, AddManyKeeps, WrittenKeeps DEF Planned, Locking, Asking
    <2>3. s \in Symbols
      BY SymbolAssumption
    <2> QED
      BY <2>1, <2>2, <2>3, OldDefConfigKeeps
  <1> QED
    BY <1>1, InstalledAsConfigured, PTL
-----------------------------------------------------------------------------
(* Types.                                                                  *)

Entries(file) == DOMAIN file \subseteq Symbols /\ file \in [DOMAIN file -> Values]

LEMMA EntriesAreConfigs ==
    ASSUME NEW file, Entries(file)
    PROVE  file \in Configs
  BY DEF Entries, Configs

LEMMA AddManyEntries ==
    ASSUME NEW entries0, Entries(entries0), NEW set \in SUBSET Symbols,
           NEW value \in Values
    PROVE  Entries(AddMany(entries0, set, value))
  <1> DEFINE file == AddMany(entries0, set, value)
  <1>1. DOMAIN file = DOMAIN entries0 \cup set
    BY DEF AddMany
  <1>2. \A s \in DOMAIN file :
            file[s] = IF s \in set /\ ~BuiltIn(entries0, s) THEN value ELSE entries0[s]
    BY DEF AddMany
  <1>3. ASSUME NEW s \in DOMAIN file PROVE file[s] \in Values
    <2>1. CASE s \in DOMAIN entries0
      <3>1. entries0[s] \in Values
        BY <2>1 DEF Entries
      <3> QED BY <1>2, <3>1
    <2>2. CASE s \notin DOMAIN entries0
      <3>1. file[s] = value
        BY <1>1, <1>2, <2>2 DEF BuiltIn
      <3> QED BY <3>1
    <2> QED BY <2>1, <2>2
  <1>4. file = [s \in DOMAIN file |-> file[s]]
    BY DEF AddMany
  <1> HIDE DEF file
  <1>5. file \in [DOMAIN file -> Values]
    BY <1>3, <1>4
  <1> QED BY <1>1, <1>5 DEF Entries, file

LEMMA WrittenEntries ==
    ASSUME NEW entries0, Entries(entries0), NEW disabled \in SUBSET Symbols
    PROVE  Entries(Written(entries0, disabled))
  <1> DEFINE file == Written(entries0, disabled)
  <1>1. DOMAIN file = DOMAIN entries0 \cup disabled
    BY DEF Written
  <1>2. \A s \in DOMAIN file :
            file[s] = IF s \in DOMAIN entries0 THEN entries0[s] ELSE "n"
    BY DEF Written
  <1>3. file \in [DOMAIN file -> Values]
    BY <1>1, <1>2 DEF Written, Entries, Values
  <1> QED BY <1>1, <1>3 DEF Entries

LEMMA OldDefConfigEntries ==
    ASSUME NEW dir, NEW file
    PROVE  Entries(OldDefConfig(dir, file))
  BY DEF OldDefConfig, Entries, Values

LEMMA ConfigSymbolsType ==
    ASSUME NEW idx \in Dirs, NEW dir \in Dirs
    PROVE  ConfigSymbols(idx, dir) \in SUBSET Symbols
  <1>1. DOMAIN Pulls[dir] = Symbols
    BY SymbolAssumption
  <1> QED BY <1>1 DEF ConfigSymbols, Resolved

LEMMA BaseEntries == Entries(Base)
  BY SymbolAssumption DEF Entries

\* Where the tree is taken from has one.
LEMMA WorksInDirs ==
    ASSUME InstallInv
    PROVE  /\ at \in Configuring \ {"source"} => Directory \in Dirs
           /\ at \in Indexed => index \in Dirs
           /\ at \in {"compile", "compiled", "modules", "image", "installed"} => saved \in Dirs
  BY DEF InstallInv, RunInv, OrderInv, BuildInv

LEMMA NextTypeOK ==
    ASSUME TypeOK, InstallInv, [Next]_vars
    PROVE  TypeOK'
  <1> USE DEF Points, GoTo, Configuring, Indexed
  <1>0. /\ Entries(Base) /\ Entries(entries) /\ Dirs = Trees \cup {Here}
        /\ Absent \in Configs /\ Torn \in Configs
    BY BaseEntries DEF TypeOK, Entries, Configs, Dirs
  <1>a. ASSUME NEW d \in Dirs, NEW file \in Configs
        PROVE  /\ [config EXCEPT ![d] = file] \in [Dirs -> Configs]
               /\ [built EXCEPT ![d] = file] \in [Dirs -> Configs]
    BY <1>a DEF TypeOK
  <1>b. ASSUME Forget
        PROVE  /\ arg' \in Trees \cup {Missing, Unset} /\ index' \in Dirs \cup {Unset}
               /\ wanted' \in SUBSET Symbols /\ Entries(entries')
    BY <1>b, <1>0 DEF Forget
  <1>c. ASSUME UNCHANGED <<saved, cache, config, built, target, done, calm>>,
               arg' \in Trees \cup {Missing, Unset}, index' \in Dirs \cup {Unset},
               wanted' \in SUBSET Symbols, Entries(entries'), at' \in Points
        PROVE  TypeOK'
    BY <1>c DEF TypeOK, Entries
  <1>1. CASE Launch
    <2>1. UNCHANGED <<index, wanted, entries, saved, cache, config, built, target,
                      done, calm>>
      BY <1>1 DEF Launch, memory, disk, result
    <2>2. arg' \in Trees \cup {Missing, Unset} /\ at' \in Points
      BY <1>1 DEF Launch
    <2> QED BY <1>0, <1>c, <2>1, <2>2 DEF TypeOK
  <1>2. CASE RefuseSource \/ LoadFails \/ MakeFails \/ BuildFails \/ Kill
    <2>1. UNCHANGED <<saved, cache, config, built, target, done, calm>>
      BY <1>2 DEF RefuseSource, LoadFails, MakeFails, BuildFails, Kill, disk, result
    <2>2. Forget /\ at' = "off"
      BY <1>2 DEF RefuseSource, LoadFails, MakeFails, BuildFails, Kill, Leave
    <2> QED BY <1>b, <1>c, <2>1, <2>2
  <1>3. CASE TakeSource \/ LoadIndex \/ ScanTree
    <2>1. UNCHANGED <<arg, wanted, entries, saved, cache, config, built, target,
                      done, calm>>
      BY <1>3 DEF TakeSource, LoadIndex, ScanTree, memory, disk, result
    <2>2. index' \in Dirs \cup {Unset} /\ at' \in Points
      BY <1>3, WorksInDirs DEF TypeOK, TakeSource, LoadIndex, ScanTree, memory
    <2> QED BY <1>0, <1>c, <2>1, <2>2 DEF TypeOK
  <1>4. CASE OpenCache \/ WriteCache
    <2>1. UNCHANGED <<arg, index, wanted, entries, saved, config, built, target,
                      done, calm>>
      BY <1>4 DEF OpenCache, WriteCache, memory, result
    <2>2. cache' \in Dirs \cup {Absent, Torn} /\ at' \in Points
      BY <1>4, WorksInDirs DEF OpenCache, WriteCache
    <2> QED BY <2>1, <2>2 DEF TypeOK
  <1>5. CASE Match \/ Generate \/ LockStatic
    <2>1. UNCHANGED <<arg, index, saved, cache, config, built, target, done, calm>>
      BY <1>5 DEF Match, Generate, LockStatic, disk, result
    <2>2. wanted' \in SUBSET Symbols /\ Entries(entries') /\ at' \in Points
      <3>1. CASE Match
        <4>1. index \in Dirs /\ Directory \in Dirs
          BY <3>1, WorksInDirs DEF Match
        <4> QED BY <1>0, <3>1, <4>1, ConfigSymbolsType DEF Match
      <3>2. CASE Generate
        <4>1. wanted \in SUBSET Symbols /\ DriverValue \in Values
          BY SymbolAssumption DEF TypeOK, Values
        <4> QED BY <1>0, <3>2, <4>1, AddManyEntries DEF Generate
      <3>3. CASE LockStatic
        <4>1. wanted \in SUBSET Symbols /\ Static \in SUBSET Symbols /\ "y" \in Values
          BY SymbolAssumption DEF TypeOK, Values
        <4> QED BY <1>0, <3>3, <4>1, AddManyEntries DEF LockStatic
      <3> QED BY <1>5, <3>1, <3>2, <3>3
    <2> QED BY <1>c, <2>1, <2>2 DEF TypeOK
  <1>6. CASE OpenConfig \/ WriteConfig \/ Make
    <2>1. UNCHANGED <<arg, index, wanted, entries, saved, cache, built, target,
                      done, calm>>
      BY <1>6 DEF OpenConfig, WriteConfig, Make, memory, result
    <2>2. Directory \in Dirs /\ at' \in Points
      BY <1>6, WorksInDirs DEF OpenConfig, WriteConfig, Make
    <2>3. config' \in [Dirs -> Configs]
      <3>1. CASE OpenConfig
        BY <1>0, <1>a, <2>2, <3>1 DEF OpenConfig
      <3>2. CASE WriteConfig
        <4>1. Written(entries, DisabledSymbols) \in Configs
          BY <1>0, WrittenEntries, EntriesAreConfigs, SymbolAssumption
        <4> QED BY <1>a, <2>2, <3>2, <4>1 DEF WriteConfig
      <3>3. CASE Make
        <4>1. OldDefConfig(Directory, config[Directory]) \in Configs
          BY OldDefConfigEntries, EntriesAreConfigs
        <4> QED BY <1>a, <2>2, <3>3, <4>1 DEF Make
      <3> QED BY <1>6, <3>1, <3>2, <3>3
    <2> QED BY <2>1, <2>2, <2>3 DEF TypeOK
  <1>7. CASE Record
    <2>1. /\ UNCHANGED <<arg, index, wanted, entries, cache, config, built, target,
                         done, calm>>
          /\ saved' = Directory /\ Directory \in Dirs /\ at' \in Points
      BY <1>7, WorksInDirs DEF Record, memory, result
    <2> QED BY <2>1 DEF TypeOK
  <1>8. CASE Finish \/ CompileDone \/ InstallDone
    <2>1. UNCHANGED <<saved, cache, config, built, target, calm>> /\ at' \in Points
      BY <1>8 DEF Finish, CompileDone, InstallDone, Mark, Leave
    <2>2. done' \subseteq Steps
      BY <1>8 DEF TypeOK, Finish, CompileDone, InstallDone, Mark, Steps
    <2>3. \/ Forget
          \/ UNCHANGED <<arg, index, wanted, entries>>
      BY <1>8 DEF Finish, CompileDone, InstallDone, Leave, memory
    <2> QED BY <1>b, <2>1, <2>2, <2>3 DEF TypeOK, Entries
  <1>9. CASE Compile
    <2>1. /\ UNCHANGED <<arg, index, wanted, entries, saved, cache, config, target,
                         done, calm>>
          /\ built' = [built EXCEPT ![saved] = config[saved]]
          /\ saved \in Dirs /\ at' \in Points
      BY <1>9, WorksInDirs DEF Compile, memory
    <2>2. config[saved] \in Configs
      BY <2>1 DEF TypeOK
    <2>3. built' \in [Dirs -> Configs]
      BY <1>a, <2>1, <2>2
    <2> QED BY <2>1, <2>3 DEF TypeOK
  <1>10. CASE InstallModules \/ InstallImage
    <2>1. /\ UNCHANGED <<arg, index, wanted, entries, saved, cache, config, built,
                         done, calm>>
          /\ saved \in Dirs /\ at' \in Points
      BY <1>10, WorksInDirs DEF InstallModules, InstallImage, memory
    <2>2. built[saved] \in Configs
      BY <2>1 DEF TypeOK
    <2>3. target' \in [modules : Configs, image : Configs]
      BY <1>10, <2>2 DEF TypeOK, InstallModules, InstallImage
    <2> QED BY <2>1, <2>3 DEF TypeOK
  <1>11. CASE CalmDown \/ UNCHANGED vars
    <2>1. /\ UNCHANGED <<arg, index, wanted, entries, saved, cache, config, built,
                         target, done, at>>
          /\ calm' \in BOOLEAN
      BY <1>11 DEF TypeOK, CalmDown, vars, memory, disk, result
    <2> QED BY <2>1 DEF TypeOK
  <1> QED
    BY <1>1, <1>2, <1>3, <1>4, <1>5, <1>6, <1>7, <1>8, <1>9, <1>10, <1>11
       DEF Next, Work

\* Every variable keeps to its values (s08_kernel.py 84-193): the tree on
\* record is one there is, and a .config that is neither absent nor torn
\* gives symbols of the kernel y, m or n.
THEOREM TypeCorrect == Spec => []TypeOK
  <1>1. Init => TypeOK
    <2> SUFFICES ASSUME Init PROVE TypeOK
      OBVIOUS
    <2>1. Absent \in Configs
      BY DEF Configs
    <2>2. {config, built} \subseteq [Dirs -> Configs]
      BY <2>1 DEF Init
    <2>3. target \in [modules : Configs, image : Configs]
      BY <2>1 DEF Init
    <2>4. DOMAIN entries \subseteq Symbols /\ entries \in [DOMAIN entries -> Values]
      BY BaseEntries DEF Init, Entries
    <2> QED
      BY <2>2, <2>3, <2>4 DEF Init, TypeOK, Points, Steps
  <1>2. TypeOK /\ InstallInv /\ [Next]_vars => TypeOK'
    BY NextTypeOK
  <1> QED
    BY <1>1, <1>2, InstallInvariant, PTL DEF Spec
-----------------------------------------------------------------------------
(* Numbers.                                                                *)


\* A set of numbers that is not empty has a least element; a set of bounded
\* numbers a greatest.
LEMMA LeastNumber ==
    ASSUME NEW T \in SUBSET Nat, T # {}
    PROVE  \E x \in T : \A y \in T : x <= y
  <1> DEFINE R == OpToRel(<, Nat)
  <1>1. IsWellFoundedOn(R, Nat)
    BY NatLessThanWellFounded
  <1>2. \A x, y \in Nat : y < x => <<y, x>> \in R
    BY DEF OpToRel
  <1> HIDE DEF R
  <1>3. \E x \in T : \A y \in T : ~ (<<y, x>> \in R)
    BY <1>1, WFMin
  <1>4. PICK x \in T : \A y \in T : ~ (<<y, x>> \in R)
    BY <1>3
  <1>5. \A y \in T : ~(y < x)
    BY <1>2, <1>4
  <1>6. \A y \in T : x <= y
    BY <1>5
  <1> QED
    BY <1>6

LEMMA GreatestNumber ==
    ASSUME NEW n \in Nat, NEW T \in SUBSET (1 .. n), T # {}
    PROVE  \E x \in T : \A y \in T : y <= x
  <1> DEFINE U == {u \in Nat : \E y \in T : u = n - y}
  <1>1. \A y \in T : y \in 1 .. n /\ n - y \in Nat
    OBVIOUS
  <1>2. \A y \in T : n - y \in U
    BY <1>1
  <1>3. \A u \in U : \E y \in T : u = n - y
    OBVIOUS
  <1>0. U \in SUBSET Nat
    OBVIOUS
  <1> HIDE DEF U
  <1>4. PICK u \in U : \A v \in U : u <= v
    <2>1. U \in SUBSET Nat
      BY <1>0
    <2>2. U # {}
      BY <1>2
    <2> QED
      BY <2>1, <2>2, LeastNumber
  <1>5. PICK x \in T : u = n - x
    BY <1>3
  <1>6. \A y \in T : n - x <= n - y
    BY <1>2, <1>4, <1>5
  <1> QED
    BY <1>1, <1>6
-----------------------------------------------------------------------------
(* Dependency resolution.                                                  *)

\* A database gives every symbol an entry, and what an entry pulls are
\* symbols.
LEMMA EntryType ==
    ASSUME ResolveTypeOK, NEW s \in Symbols
    PROVE  /\ db[s].selects \in [Symbols -> Nat]
           /\ db[s].implies \in [Symbols -> Nat]
           /\ db[s].depends \in SUBSET Symbols
           /\ EntryPulls[s] = PullsOf(db[s])
           /\ EntryPulls[s] \subseteq Symbols
  <1>1. db[s] \in [selects : [Symbols -> Nat], implies : [Symbols -> Nat],
                   depends : SUBSET Symbols]
    BY DEF ResolveTypeOK, AllDatabases
  <1>2. EntryPulls[s] = PullsOf(db[s])
    BY DEF EntryPulls
  <1> QED
    BY <1>1, <1>2 DEF PullsOf

\* An entry names a symbol some number of times, and at least once exactly
\* when it pulls it.
LEMMA TimesPulls ==
    ASSUME ResolveTypeOK, NEW s \in Symbols, NEW x \in Symbols
    PROVE  /\ Times(db[s], x) \in Nat
           /\ Times(db[s], x) > 0 <=> x \in EntryPulls[s]
  <1> DEFINE m == db[s].selects[x]
             n == db[s].implies[x]
             d == IF x \in db[s].depends THEN 1 ELSE 0
  <1>1. m \in Nat /\ n \in Nat
    BY EntryType
  <1>2. d \in Nat /\ (d > 0 <=> x \in db[s].depends)
    OBVIOUS
  <1>3. Times(db[s], x) = m + n + d
    BY DEF Times
  <1>4. x \in EntryPulls[s] <=> m > 0 \/ n > 0 \/ x \in db[s].depends
    BY EntryType DEF PullsOf
  <1> HIDE DEF m, n, d
  <1> QED
    BY <1>1, <1>2, <1>3, <1>4

\* Taking a symbol out once leaves every other symbol queued as it was.
LEMMA PoppedType ==
    ASSUME ResolveTypeOK, NEW sym \in Queued
    PROVE  /\ sym \in Symbols
           /\ Popped(sym) \in [Symbols -> Nat]
           /\ \A x \in Symbols : x # sym => Popped(sym)[x] = queue[x]
           /\ Popped(sym)[sym] = queue[sym] - 1
  BY DEF ResolveTypeOK, Popped, Queued

\* What Expand leaves in the queue: what was there, but for the symbol
\* taken out, and what that symbol pulls and is not resolved.
LEMMA ExpandQueues ==
    ASSUME ResolveTypeOK, NEW sym \in Queued, sym \notin resolved,
           resolved' = resolved \cup {sym},
           queue' = [x \in Symbols |->
                        Popped(sym)[x] + (IF x \in resolved' THEN 0
                                          ELSE Times(db[sym], x))]
    PROVE  /\ queue' \in [Symbols -> Nat]
           /\ Queued \subseteq Queued' \cup {sym}
           /\ Queued' \subseteq Queued \cup (EntryPulls[sym] \ resolved')
           /\ EntryPulls[sym] \subseteq Queued' \cup resolved'
  <1>1. sym \in Symbols
    BY PoppedType
  <1>2. ASSUME NEW x \in Symbols
        PROVE  /\ queue'[x] \in Nat
               /\ x \in resolved' => queue'[x] = Popped(sym)[x]
               /\ x \notin resolved' =>
                     queue'[x] = queue[x] + Times(db[sym], x)
    <2>1. Popped(sym)[x] \in Nat
      BY PoppedType
    <2>2. Times(db[sym], x) \in Nat
      BY <1>1, TimesPulls
    <2>3. CASE x \in resolved'
      <3>1. queue'[x] = Popped(sym)[x] + 0
        BY <2>3
      <3> QED
        BY <2>1, <2>3, <3>1
    <2>4. CASE x \notin resolved'
      <3>1. x # sym
        BY <2>4
      <3>2. Popped(sym)[x] = queue[x]
        BY <3>1, PoppedType
      <3>3. queue'[x] = Popped(sym)[x] + Times(db[sym], x)
        BY <2>4
      <3> QED
        BY <2>1, <2>2, <2>4, <3>2, <3>3
    <2> QED
      BY <2>3, <2>4
  <1>3. queue' \in [Symbols -> Nat]
    BY <1>2
  <1>4. ASSUME NEW x \in Queued, x # sym
        PROVE  x \in Queued'
    <2>1. x \in Symbols /\ queue[x] \in Nat /\ queue[x] > 0
      BY DEF Queued, ResolveTypeOK
    <2>2. Popped(sym)[x] = queue[x]
      BY <1>4, <2>1, PoppedType
    <2>3. Times(db[sym], x) \in Nat
      BY <1>1, <2>1, TimesPulls
    <2>4. queue'[x] > 0
      BY <1>2, <2>1, <2>2, <2>3
    <2> QED
      BY <2>1, <2>4 DEF Queued
  <1>5. ASSUME NEW x \in Queued', x \notin Queued
        PROVE  x \in EntryPulls[sym] \ resolved'
    <2>1. x \in Symbols /\ queue'[x] > 0 /\ queue[x] \in Nat /\ ~(queue[x] > 0)
      BY <1>5 DEF Queued, ResolveTypeOK
    <2>2. x # sym
      BY <1>5
    <2>3. Popped(sym)[x] = queue[x]
      BY <2>1, <2>2, PoppedType
    <2>4. x \notin resolved'
      BY <1>2, <2>1, <2>3
    <2>5. Times(db[sym], x) \in Nat /\ Times(db[sym], x) > 0
      BY <1>1, <1>2, <2>1, <2>4, TimesPulls
    <2> QED
      BY <1>1, <2>1, <2>4, <2>5, TimesPulls
  <1>6. ASSUME NEW x \in EntryPulls[sym], x \notin resolved'
        PROVE  x \in Queued'
    <2>1. x \in Symbols
      BY <1>1, EntryType
    <2>2. Times(db[sym], x) \in Nat /\ Times(db[sym], x) > 0
      BY <1>1, <2>1, TimesPulls
    <2>3. queue[x] \in Nat
      BY <2>1 DEF ResolveTypeOK
    <2>4. queue'[x] > 0
      BY <1>2, <1>6, <2>1, <2>2, <2>3
    <2> QED
      BY <2>1, <2>4 DEF Queued
  <1> QED
    BY <1>3, <1>4, <1>5, <1>6

\* Dropping a resolved symbol changes nothing of what is reached.
LEMMA DropReaches ==
    ASSUME ResolveTypeOK, Drop
    PROVE  /\ ResolveTypeOK'
           /\ Reached' = Reached
           /\ EntryPulls' = EntryPulls /\ symbols' = symbols /\ resolved' = resolved
  <1>1. PICK sym \in Queued : /\ sym \in resolved
                              /\ queue' = Popped(sym)
                              /\ UNCHANGED <<db, symbols, resolved>>
    BY DEF Drop
  <1>2. queue' \in [Symbols -> Nat]
    BY <1>1, PoppedType
  <1>3. ResolveTypeOK'
    BY <1>1, <1>2 DEF ResolveTypeOK
  <1>4. \A x \in Symbols : x # sym => (x \in Queued' <=> x \in Queued)
    BY <1>1, PoppedType DEF Queued
  <1>5. Queued \subseteq Symbols /\ Queued' \subseteq Symbols
    BY DEF Queued
  <1>6. Reached' = Reached
    BY <1>1, <1>4, <1>5 DEF Reached
  <1> QED
    BY <1>1, <1>3, <1>6 DEF EntryPulls

\* Of any request and any database nothing is resolved at first.
LEMMA ResolveStart ==
    symbols \in SUBSET Symbols /\ db \in AllDatabases /\ Start => ResolveInv
  <1> SUFFICES ASSUME Start, symbols \in SUBSET Symbols, db \in AllDatabases PROVE ResolveInv
    OBVIOUS
  <1>1. symbols \subseteq Symbols
    OBVIOUS
  <1>2. ResolveTypeOK
    BY DEF Start, ResolveTypeOK
  <1>3. Queued = symbols
    BY <1>1 DEF Start, Queued
  <1>4. Reached = symbols
    BY <1>3 DEF Reached, Start
  <1> QED
    BY <1>2, <1>4 DEF ResolveInv, CoverInv, LeastInv, Start

\* Each turn of the loop keeps the invariant.
LEMMA ResolveNext == ResolveInv /\ [Turn]_resolveVars => ResolveInv'
  <1> SUFFICES ASSUME ResolveInv, [Turn]_resolveVars PROVE ResolveInv'
    OBVIOUS
  <1>0. ResolveTypeOK /\ CoverInv /\ LeastInv
    BY DEF ResolveInv
  <1>1. CASE Drop
    <2>1. /\ ResolveTypeOK' /\ Reached' = Reached
          /\ EntryPulls' = EntryPulls /\ symbols' = symbols /\ resolved' = resolved
      BY <1>0, <1>1, DropReaches
    <2> QED
      BY <1>0, <2>1 DEF ResolveInv, CoverInv, LeastInv, Closed
  <1>2. CASE Expand
    <2>1. PICK sym \in Queued :
            /\ sym \notin resolved
            /\ resolved' = resolved \cup {sym}
            /\ queue' = [x \in Symbols |->
                            Popped(sym)[x] + (IF x \in resolved' THEN 0
                                              ELSE Times(db[sym], x))]
            /\ UNCHANGED <<db, symbols>>
      BY <1>2 DEF Expand
    <2>2. /\ queue' \in [Symbols -> Nat]
          /\ Queued \subseteq Queued' \cup {sym}
          /\ Queued' \subseteq Queued \cup (EntryPulls[sym] \ resolved')
          /\ EntryPulls[sym] \subseteq Queued' \cup resolved'
      BY <1>0, <2>1, ExpandQueues
    <2>3. sym \in Symbols
      BY DEF Queued
    <2>4. EntryPulls' = EntryPulls
      BY <2>1 DEF EntryPulls
    <2>5. ResolveTypeOK'
      BY <1>0, <2>1, <2>2, <2>3 DEF ResolveTypeOK
    <2>6. Reached \subseteq Reached'
      BY <2>1, <2>2 DEF Reached
    <2>7. Reached' \subseteq Reached \cup EntryPulls[sym]
      BY <2>1, <2>2 DEF Reached
    <2>8. CoverInv'
      BY <1>0, <2>1, <2>2, <2>4, <2>6 DEF CoverInv, Reached
    <2>9. LeastInv'
      <3> SUFFICES ASSUME NEW set \in SUBSET Symbols,
                          symbols \subseteq set, Closed(set, EntryPulls)
                   PROVE  Reached' \subseteq set
        BY <2>1, <2>4 DEF LeastInv, Closed
      <3>1. Reached \subseteq set
        BY <1>0 DEF LeastInv
      <3>2. sym \in set
        BY <3>1 DEF Reached
      <3> QED
        BY <2>7, <3>1, <3>2 DEF Closed
    <2> QED
      BY <2>5, <2>8, <2>9 DEF ResolveInv
  <1>3. CASE UNCHANGED resolveVars
    BY <1>0, <1>3 DEF resolveVars, ResolveInv, ResolveTypeOK, CoverInv, LeastInv, Reached,
                      Queued, EntryPulls, Closed
  <1> QED
    BY <1>1, <1>2, <1>3 DEF Turn

\* At the end what is reached is what is resolved.
LEMMA ResolvedLeast == ResolveInv => ReturnsLeast
  <1> SUFFICES ASSUME ResolveInv, Queued = {}
               PROVE  resolved = Resolved(symbols, EntryPulls)
    BY DEF ReturnsLeast, Returned
  <1>0. ResolveTypeOK /\ CoverInv /\ LeastInv
    BY DEF ResolveInv
  <1>1. Reached = resolved
    BY DEF Reached
  <1>2. symbols \subseteq resolved /\ Closed(resolved, EntryPulls)
    BY <1>0, <1>1 DEF CoverInv, Closed
  <1>3. resolved \in SUBSET Symbols
    BY <1>0 DEF ResolveTypeOK
  <1>4. DOMAIN EntryPulls = Symbols
    BY DEF EntryPulls
  <1>5. resolved \subseteq Resolved(symbols, EntryPulls)
    BY <1>0, <1>1, <1>3, <1>4 DEF LeastInv, Resolved
  <1>6. Resolved(symbols, EntryPulls) \subseteq resolved
    BY <1>2, <1>3, <1>4 DEF Resolved
  <1> QED
    BY <1>5, <1>6

-----------------------------------------------------------------------------
(* The shape of what is loaded.                                            *)

EntryRecords == [depends : SUBSET Expressions, selects : [Symbols -> Nat],
                 implies : [Symbols -> Nat]]

\* What a tree's lines are.
LEMMA LineType ==
    ASSUME NEW lines \in Seq(Lines), NEW k \in 1 .. Len(lines)
    PROVE  /\ lines[k].kind = "config" => lines[k].name \in Symbols
           /\ Reads(lines[k]) /\ lines[k].what = "depends" => lines[k].arg \in Expressions
           /\ Reads(lines[k]) /\ lines[k].what \in {"select", "imply"} =>
                 lines[k].arg \in Symbols
  <1>1. lines[k] \in Lines
    OBVIOUS
  <1> QED
    BY <1>1 DEF Lines, Reads

\* The body of an entry is an interval up to the next line that ends it.
LEMMA BodyEnds ==
    ASSUME NEW lines \in Seq(Lines), NEW k \in 1 .. Len(lines)
    PROVE  \E e \in k + 1 .. Len(lines) + 1 :
              /\ Body(lines, k) = k + 1 .. e - 1
              /\ e <= Len(lines) => Outdented(lines[e])
              /\ \A j \in k + 1 .. e - 1 : ~Outdented(lines[j])
  <1> DEFINE ends == {j \in k + 1 .. Len(lines) : Outdented(lines[j])} \cup {Len(lines) + 1}
             e == CHOOSE j \in ends : \A i \in ends : j <= i
  <1>0. Len(lines) \in Nat
    OBVIOUS
  <1>1. ends \in SUBSET Nat /\ ends # {}
    BY <1>0
  <1>2. \E j \in ends : \A i \in ends : j <= i
    <2> HIDE DEF ends
    <2> QED
      BY <1>1, LeastNumber
  <1>3. e \in ends /\ \A i \in ends : e <= i
    <2> HIDE DEF ends
    <2> QED
      BY <1>2
  <1>4. Body(lines, k) = k + 1 .. e - 1
    BY DEF Body
  <1> HIDE DEF e
  <1>5. e \in k + 1 .. Len(lines) + 1
    BY <1>0, <1>3
  <1>6. e <= Len(lines) => Outdented(lines[e])
    BY <1>0, <1>3
  <1>7. \A j \in k + 1 .. e - 1 : ~Outdented(lines[j])
    <2> SUFFICES ASSUME NEW j \in k + 1 .. e - 1, Outdented(lines[j]) PROVE FALSE
      OBVIOUS
    <2>1. j \in ends
      BY <1>0, <1>5
    <2> QED
      BY <1>0, <1>3, <1>5, <2>1
  <1> QED
    BY <1>4, <1>5, <1>6, <1>7

\* A part of an interval has a number of elements, none only if it is empty.
LEMMA PartCounts ==
    ASSUME NEW i \in Int, NEW m \in Int, NEW S \in SUBSET (i .. m)
    PROVE  Cardinality(S) \in Nat /\ (Cardinality(S) > 0 <=> S # {})
  <1>1. IsFiniteSet(i .. m)
    BY FS_Interval
  <1>2. IsFiniteSet(S)
    BY <1>1, FS_Subset
  <1> QED
    BY <1>2, FS_CardinalityType, FS_EmptySet

\* The lines of an entry that give it an attribute lie in its body.
LEMMA GivenWithin ==
    ASSUME NEW lines \in Seq(Lines), NEW k \in 1 .. Len(lines), NEW what
    PROVE  Given(lines, k, what) \subseteq k + 1 .. Len(lines)
  <1>1. PICK e \in k + 1 .. Len(lines) + 1 : Body(lines, k) = k + 1 .. e - 1
    BY BodyEnds
  <1>2. Len(lines) \in Nat
    OBVIOUS
  <1> QED
    BY <1>1, <1>2 DEF Given

\* How often an entry selects, or implies, a symbol.
LEMMA CountedType ==
    ASSUME NEW lines \in Seq(Lines), NEW k \in 1 .. Len(lines), NEW what
    PROVE  /\ Counted(lines, k, what) \in [Symbols -> Nat]
           /\ \A x \in Symbols :
                 Counted(lines, k, what)[x] > 0 <=>
                     \E j \in Given(lines, k, what) : lines[j].arg = x
  <1>1. ASSUME NEW x \in Symbols
        PROVE  /\ Counted(lines, k, what)[x] \in Nat
               /\ Counted(lines, k, what)[x] > 0 <=>
                     \E j \in Given(lines, k, what) : lines[j].arg = x
    <2> DEFINE named == {j \in Given(lines, k, what) : lines[j].arg = x}
    <2>1. Counted(lines, k, what)[x] = Cardinality(named)
      BY DEF Counted
    <2>2. named \in SUBSET (k + 1 .. Len(lines))
      BY GivenWithin
    <2>3. k + 1 \in Int /\ Len(lines) \in Int
      OBVIOUS
    <2>4. named # {} <=> \E j \in Given(lines, k, what) : lines[j].arg = x
      OBVIOUS
    <2> HIDE DEF named
    <2>5. Cardinality(named) \in Nat /\ (Cardinality(named) > 0 <=> named # {})
      BY <2>2, <2>3, PartCounts
    <2> QED
      BY <2>1, <2>4, <2>5
  <1>2. Counted(lines, k, what) = [x \in Symbols |-> Counted(lines, k, what)[x]]
    BY DEF Counted
  <1> QED
    BY <1>1, <1>2

LEMMA EntryShape ==
    ASSUME NEW lines \in Seq(Lines), NEW k \in 1 .. Len(lines)
    PROVE  Entry(lines, k) \in EntryRecords
  <1>1. ASSUME NEW j \in Given(lines, k, "depends") PROVE lines[j].arg \in Expressions
    <2>1. j \in k + 1 .. Len(lines)
      BY GivenWithin
    <2>2. j \in 1 .. Len(lines)
      BY <2>1
    <2>3. Reads(lines[j]) /\ lines[j].what = "depends"
      BY DEF Given
    <2> QED
      BY <2>2, <2>3, LineType
  <1>2. {lines[j].arg : j \in Given(lines, k, "depends")} \in SUBSET Expressions
    BY <1>1
  <1>3. /\ Counted(lines, k, "select") \in [Symbols -> Nat]
        /\ Counted(lines, k, "imply") \in [Symbols -> Nat]
    BY CountedType
  <1> QED
    BY <1>2, <1>3 DEF Entry, EntryRecords

\* The entries of a file are those of its headers, one for each symbol.
LEMMA ParsedFrom ==
    ASSUME NEW lines \in Seq(Lines)
    PROVE  /\ DOMAIN ParsedEntries(lines) = {s \in Symbols : Headers(lines, s) # {}}
           /\ \A s \in DOMAIN ParsedEntries(lines) :
                 \E k \in Headers(lines, s) : ParsedEntries(lines)[s] = Entry(lines, k)
  <1>1. DOMAIN ParsedEntries(lines) = {s \in Symbols : Headers(lines, s) # {}}
    BY DEF ParsedEntries
  <1>2. ASSUME NEW s \in DOMAIN ParsedEntries(lines)
        PROVE  \E k \in Headers(lines, s) : ParsedEntries(lines)[s] = Entry(lines, k)
    <2> DEFINE T == Headers(lines, s)
               k == CHOOSE i \in T : \A j \in T : j <= i
    <2>1. T \in SUBSET (1 .. Len(lines)) /\ T # {}
      BY <1>1, <1>2 DEF Headers
    <2>2. Len(lines) \in Nat
      OBVIOUS
    <2>3. ParsedEntries(lines)[s] = Entry(lines, k)
      BY <1>1, <1>2 DEF ParsedEntries
    <2> HIDE DEF T
    <2>4. \E i \in T : \A j \in T : j <= i
      BY <2>1, <2>2, GreatestNumber
    <2>5. k \in T
      BY <2>4
    <2> HIDE DEF k
    <2> QED
      BY <2>3, <2>5 DEF T
  <1> QED
    BY <1>1, <1>2

\* What is extracted are symbols.
LEMMA ExtractedSymbols ==
    ASSUME NEW depends
    PROVE  DependsSymbols(depends) \subseteq Symbols
  BY DEF DependsSymbols, Extracted, Searched

\* Resolution finds a database in what is parsed.
LEMMA DatabaseType ==
    ASSUME NEW of, \A s \in DOMAIN of \cap Symbols : of[s] \in EntryRecords
    PROVE  Database(of) \in AllDatabases
  <1> DEFINE Records == [selects : [Symbols -> Nat], implies : [Symbols -> Nat],
                        depends : SUBSET Symbols]
             found(s) == IF s \in DOMAIN of THEN [of[s] EXCEPT !.depends = DependsSymbols(@)]
                         ELSE [depends |-> {}, selects |-> NoSymbols, implies |-> NoSymbols]
  <1>1. ASSUME NEW s \in Symbols PROVE found(s) \in Records
    <2>1. CASE s \in DOMAIN of
      <3>1. of[s] \in EntryRecords
        BY <2>1
      <3>2. DependsSymbols(of[s].depends) \in SUBSET Symbols
        BY ExtractedSymbols
      <3>3. /\ of[s] = [depends |-> of[s].depends, selects |-> of[s].selects,
                        implies |-> of[s].implies]
            /\ of[s].selects \in [Symbols -> Nat] /\ of[s].implies \in [Symbols -> Nat]
        BY <3>1 DEF EntryRecords
      <3>4. [of[s] EXCEPT !.depends = DependsSymbols(@)] =
                [depends |-> DependsSymbols(of[s].depends), selects |-> of[s].selects,
                 implies |-> of[s].implies]
        BY <3>3
      <3> QED
        BY <2>1, <3>2, <3>3, <3>4
    <2>2. CASE s \notin DOMAIN of
      BY <2>2 DEF NoSymbols
    <2> QED
      BY <2>1, <2>2
  <1>2. Database(of) = [s \in Symbols |-> found(s)]
    BY DEF Database
  <1>3. AllDatabases = [Symbols -> Records]
    BY DEF AllDatabases
  <1> HIDE DEF Records, found
  <1> QED
    BY <1>1, <1>2, <1>3

-----------------------------------------------------------------------------
(* The walk along the source lines.  What is visited stays within the files*)
(* that source lines reach; a file that is done has led everywhere it leads*)
(* to, and has its symbols among the entries, while one that is open has   *)
(* led as far as its frame says.                                           *)

LoadTypeOK ==
    /\ \A path \in DOMAIN tree : tree[path] \in Seq(Lines)
    /\ phase \in {"load", "resolve"}
    /\ stack \in Seq([file : DOMAIN tree, from : Nat \ {0}])
    /\ phase = "resolve" => stack = <<>>
    /\ visited \in SUBSET DOMAIN tree

Open(path) == \E i \in 1 .. Len(stack) : stack[i].file = path

\* The source lines of a frame that were followed.
Followed(frame) ==
    \A k \in SourceLines(frame.file, 1) : k < frame.from => Leads(frame.file, k) \subseteq visited

WalkInv ==
    /\ {Top} \cap DOMAIN tree \subseteq visited
    /\ \A i \in 1 .. Len(stack) : stack[i].file \in visited /\ Followed(stack[i])
    /\ \A path \in visited : Open(path) \/ Sourced(path) \subseteq visited
    /\ \A set \in SUBSET DOMAIN tree : Reaching(set) => visited \subseteq set

EntriesInv ==
    /\ \A path \in visited, s \in Symbols :
          Headers(tree[path], s) # {} => Open(path) \/ s \in DOMAIN parsed
    /\ \A s \in DOMAIN parsed :
          /\ s \in Symbols
          /\ \E path \in visited : \E k \in Headers(tree[path], s) :
                parsed[s] = Entry(tree[path], k)

DatabaseInv == IF phase = "load" THEN Start
               ELSE tree # NoTree => db = Database(parsed)

LoadInv == LoadTypeOK /\ WalkInv /\ EntriesInv /\ DatabaseInv /\ ResolveInv

\* A source line leads to one file of the tree, or to none.
LEMMA LeadsThere ==
    ASSUME NEW path, NEW k
    PROVE  Leads(path, k) \subseteq DOMAIN tree
  BY DEF Leads, SrcPath

LEMMA LeadsToOne ==
    ASSUME LoadTypeOK, NEW path \in DOMAIN tree, NEW k \in SourceLines(path, 1)
    PROVE  \A p, q \in Leads(path, k) : p = q
  <1> DEFINE dir == Parent(path)
             line == tree[path][k]
             bases == CASE line.base = "srctree" -> <<<<>>>>
                        [] line.base = "src"     -> <<dir>>
                        [] line.base = "plain"   -> <<<<>>, dir>>
                        [] line.base = "other"   -> <<>>
             there == {j \in 1 .. Len(bases) : bases[j] \o line.path \in DOMAIN tree}
  <1>1. Leads(path, k) = {bases[j] \o line.path : j \in {h \in there : \A i \in there : h <= i}}
    BY DEF Leads, SrcPath
  <1>2. line.base \in {"srctree", "src", "plain", "other"}
    <2>1. tree[path] \in Seq(Lines)
      BY DEF LoadTypeOK
    <2>2. line \in Lines /\ line.kind = "source"
      BY <2>1 DEF SourceLines
    <2> HIDE DEF line
    <2> QED
      BY <2>2 DEF Lines
  <1>3. Len(bases) \in Nat
    <2> HIDE DEF line, dir
    <2>1. CASE line.base = "srctree"
      BY <2>1
    <2>2. CASE line.base = "src"
      BY <2>2
    <2>3. CASE line.base = "plain"
      BY <2>3
    <2>4. CASE line.base = "other"
      BY <2>4
    <2> QED
      BY <1>2, <2>1, <2>2, <2>3, <2>4
  <1> HIDE DEF bases, line, dir
  <1>4. \A j \in there : j \in Int
    BY <1>3
  <1> HIDE DEF there
  <1> SUFFICES ASSUME NEW p \in Leads(path, k), NEW q \in Leads(path, k) PROVE p = q
    OBVIOUS
  <1>5. PICK i \in there : p = bases[i] \o line.path /\ \A h \in there : i <= h
    BY <1>1
  <1>6. PICK j \in there : q = bases[j] \o line.path /\ \A h \in there : j <= h
    BY <1>1
  <1>7. i = j
    BY <1>4, <1>5, <1>6
  <1> QED
    BY <1>5, <1>6, <1>7

\* Where the tree stays, so does what its files say.
LEMMA TreeStays ==
    ASSUME tree' = tree
    PROVE  /\ \A path, k : Leads(path, k)' = Leads(path, k)
           /\ \A path, from : SourceLines(path, from)' = SourceLines(path, from)
           /\ \A path : Sourced(path)' = Sourced(path)
           /\ \A set : Reaching(set)' <=> Reaching(set)
  <1>1. \A path, k : Leads(path, k)' = Leads(path, k)
    BY DEF Leads, SrcPath
  <1>2. \A path, from : SourceLines(path, from)' = SourceLines(path, from)
    BY DEF SourceLines
  <1>3. \A path : Sourced(path)' = Sourced(path)
    BY <1>1, <1>2 DEF Sourced
  <1>4. \A set : Reaching(set)' <=> Reaching(set)
    BY <1>3 DEF Reaching
  <1> QED
    BY <1>1, <1>2, <1>3, <1>4

\* Where a file is being parsed there is an innermost one.
LEMMA CurrentType ==
    ASSUME LoadTypeOK, stack # <<>>
    PROVE  /\ Len(stack) \in Nat /\ Len(stack) \in 1 .. Len(stack)
           /\ Current = stack[Len(stack)]
           /\ Current.file \in DOMAIN tree /\ Current.from \in Nat \ {0}
           /\ Current = [file |-> Current.file, from |-> Current.from]
           /\ tree[Current.file] \in Seq(Lines)
  <1>1. Len(stack) \in Nat /\ Len(stack) \in 1 .. Len(stack)
    BY DEF LoadTypeOK
  <1>2. stack[Len(stack)] \in [file : DOMAIN tree, from : Nat \ {0}]
    <2> DEFINE Frames == [file : DOMAIN tree, from : Nat \ {0}]
    <2>1. stack \in Seq(Frames)
      BY DEF LoadTypeOK
    <2> HIDE DEF Frames
    <2>2. stack[Len(stack)] \in Frames
      BY <1>1, <2>1
    <2> QED
      BY <2>2 DEF Frames
  <1> QED
    BY <1>1, <1>2 DEF Current, LoadTypeOK

\* At first nothing is parsed, and no more than the top file is open.
LEMMA LoadStart == LoadInit => LoadInv
  <1> SUFFICES ASSUME LoadInit PROVE LoadInv
    OBVIOUS
  <1>1. parsed = NoEntries /\ Start
    BY DEF LoadInit
  <1>2. CASE /\ db \in Databases /\ symbols \in Requests
             /\ tree = NoTree /\ phase = "resolve" /\ stack = <<>> /\ visited = {}
    <2>1. db \in AllDatabases /\ symbols \in SUBSET Symbols
      BY <1>2, InputAssumption
    <2>2. ResolveInv
      BY <1>1, <2>1, ResolveStart
    <2>3. DOMAIN tree = {} /\ DOMAIN parsed = {}
      BY <1>1, <1>2 DEF NoTree, NoEntries
    <2>4. LoadTypeOK
      BY <1>2, <2>3 DEF LoadTypeOK
    <2>5. WalkInv
      BY <1>2, <2>3 DEF WalkInv
    <2>6. EntriesInv
      BY <1>2, <2>3 DEF EntriesInv
    <2>7. DatabaseInv
      BY <1>2 DEF DatabaseInv
    <2> QED
      BY <2>2, <2>4, <2>5, <2>6, <2>7 DEF LoadInv
  <1>3. CASE /\ \E in \in Inputs : tree = in.tree /\ symbols = in.request
             /\ phase = "load" /\ db = Database(NoEntries)
             /\ visited = {Top} \cap DOMAIN tree
             /\ stack = IF Top \in DOMAIN tree THEN <<Frame(Top)>> ELSE <<>>
    <2>1. PICK in \in Inputs : tree = in.tree /\ symbols = in.request
      BY <1>3
    <2>2. symbols \in SUBSET Symbols /\ \A path \in DOMAIN tree : tree[path] \in Seq(Lines)
      BY <2>1, InputAssumption
    <2>3. DOMAIN NoEntries = {}
      BY DEF NoEntries
    <2>4. db \in AllDatabases
      BY <1>3, <2>3, DatabaseType
    <2>5. ResolveInv
      BY <1>1, <2>2, <2>4, ResolveStart
    <2>6. /\ stack \in Seq([file : DOMAIN tree, from : Nat \ {0}])
          /\ \A i \in 1 .. Len(stack) :
                stack[i].file = Top /\ stack[i].from = 1 /\ Top \in DOMAIN tree
          /\ Top \in DOMAIN tree => 1 \in 1 .. Len(stack)
      <3>1. CASE Top \in DOMAIN tree
        <4>1. stack = <<[file |-> Top, from |-> 1]>>
          BY <1>3, <3>1 DEF Frame
        <4> QED
          BY <3>1, <4>1
      <3>2. CASE Top \notin DOMAIN tree
        BY <1>3, <3>2
      <3> QED
        BY <3>1, <3>2
    <2>7. LoadTypeOK
      BY <1>3, <2>2, <2>6 DEF LoadTypeOK
    <2>8. \A path \in visited : Open(path)
      BY <1>3, <2>6 DEF Open
    <2>9. \A i \in 1 .. Len(stack) : Followed(stack[i])
      BY <2>6 DEF Followed, SourceLines
    <2>10. WalkInv
      BY <1>3, <2>6, <2>8, <2>9 DEF WalkInv, Reaching
    <2>11. EntriesInv
      BY <1>1, <2>3, <2>8 DEF EntriesInv
    <2>12. DatabaseInv
      BY <1>1, <1>3 DEF DatabaseInv
    <2> QED
      BY <2>5, <2>7, <2>10, <2>11, <2>12 DEF LoadInv
  <1> QED
    BY <1>2, <1>3 DEF LoadInit

\* The frame of the innermost file moves past a source line, and the file
\* that the line leads to is opened, unless it was before.
LEMMA FollowStep == LoadInv /\ FollowSource => LoadInv'
  <1> SUFFICES ASSUME LoadInv, FollowSource PROVE LoadInv'
    OBVIOUS
  <1>0. LoadTypeOK /\ WalkInv /\ EntriesInv /\ DatabaseInv /\ ResolveInv
    BY DEF LoadInv
  <1> DEFINE n == Len(stack)
             file == Current.file
             rest(k) == [stack EXCEPT ![n].from = k + 1]
  <1>1. /\ phase = "load" /\ stack # <<>>
        /\ UNCHANGED <<tree, phase, parsed, resolveVars>>
    BY DEF FollowSource
  <1>2. PICK k \in Left :
            /\ \A j \in Left : k <= j
            /\ \/ Leads(file, k) \ visited = {} /\ stack' = rest(k) /\ visited' = visited
               \/ \E path \in Leads(file, k) \ visited :
                     stack' = Append(rest(k), Frame(path)) /\ visited' = visited \cup {path}
    BY DEF FollowSource
  <1>3. /\ n \in Nat /\ n \in 1 .. n /\ Current = stack[n]
        /\ file \in DOMAIN tree /\ Current.from \in Nat \ {0}
        /\ Current = [file |-> file, from |-> Current.from]
        /\ tree[file] \in Seq(Lines)
    BY <1>0, <1>1, CurrentType
  <1>4. /\ k \in Nat /\ k \in SourceLines(file, 1)
        /\ \A j \in SourceLines(file, 1) : j < k + 1 => j < Current.from \/ j = k
    <2>1. /\ k \in SourceLines(file, Current.from)
          /\ \A j \in SourceLines(file, Current.from) : k <= j
      BY <1>2 DEF Left
    <2> HIDE DEF rest, n, file
    <2>2. /\ k \in Nat /\ k \in SourceLines(file, 1)
      BY <1>3, <2>1 DEF SourceLines
    <2>3. ASSUME NEW j \in SourceLines(file, 1), j < k + 1, j >= Current.from PROVE j = k
      <3>1. j \in Nat /\ j \in SourceLines(file, Current.from)
        BY <1>3, <2>3 DEF SourceLines
      <3> QED
        BY <2>1, <2>2, <2>3, <3>1
    <2>4. \A j \in SourceLines(file, 1) : j \in Nat
      BY <1>3 DEF SourceLines
    <2> QED
      BY <1>3, <2>2, <2>3, <2>4
  <1>5. /\ rest(k) \in Seq([file : DOMAIN tree, from : Nat \ {0}])
        /\ Len(rest(k)) = n
        /\ rest(k)[n] = [file |-> file, from |-> k + 1]
        /\ \A i \in 1 .. n : i # n => rest(k)[i] = stack[i]
    BY <1>0, <1>3, <1>4 DEF LoadTypeOK
  <1>6. /\ stack' \in Seq([file : DOMAIN tree, from : Nat \ {0}])
        /\ Len(stack') \in Nat /\ n <= Len(stack')
        /\ \A i \in 1 .. n : stack'[i] = rest(k)[i]
        /\ \A i \in 1 .. Len(stack') : i \notin 1 .. n =>
              /\ stack'[i].file \in visited' /\ stack'[i].from = 1
              /\ i = Len(stack')
        /\ visited \subseteq visited' /\ Leads(file, k) \subseteq visited'
        /\ visited' \subseteq visited \cup Leads(file, k)
        /\ \A path \in visited' \ visited : \E i \in 1 .. Len(stack') : stack'[i].file = path
    <2> HIDE DEF rest, n, file
    <2>1. CASE Leads(file, k) \ visited = {} /\ stack' = rest(k) /\ visited' = visited
      BY <1>3, <1>5, <2>1
    <2>2. CASE \E path \in Leads(file, k) \ visited :
                  stack' = Append(rest(k), Frame(path)) /\ visited' = visited \cup {path}
      <3>1. PICK path \in Leads(file, k) \ visited :
                  stack' = Append(rest(k), Frame(path)) /\ visited' = visited \cup {path}
        BY <2>2
      <3>2. path \in DOMAIN tree /\ \A p \in Leads(file, k) : p = path
        BY <1>0, <1>2, <1>3, <1>4, LeadsThere, LeadsToOne
      <3>3. Frame(path) \in [file : DOMAIN tree, from : Nat \ {0}]
            /\ Frame(path).file = path /\ Frame(path).from = 1
        BY <3>2 DEF Frame
      <3>4. /\ stack' \in Seq([file : DOMAIN tree, from : Nat \ {0}])
            /\ Len(stack') = n + 1 /\ stack'[n + 1] = Frame(path)
            /\ \A i \in 1 .. n : stack'[i] = rest(k)[i]
        BY <1>3, <1>5, <3>1, <3>3
      <3>5. \A i \in 1 .. Len(stack') : i \notin 1 .. n => i = n + 1
        BY <1>3, <3>4
      <3>6. n + 1 \in 1 .. Len(stack')
        BY <1>3, <3>4
      <3> QED
        BY <1>3, <3>1, <3>2, <3>3, <3>4, <3>5, <3>6
    <2> QED
      BY <1>2, <2>1, <2>2
  <1> HIDE DEF rest
  <1>7. \A i \in 1 .. n : stack'[i].file = stack[i].file
    <2>1. \A i \in 1 .. n : stack'[i] = rest(k)[i]
      BY <1>6
    <2>2. rest(k)[n].file = file /\ stack[n].file = file
      BY <1>3, <1>5
    <2>3. \A i \in 1 .. n : i # n => rest(k)[i] = stack[i]
      BY <1>5
    <2> HIDE DEF n, file
    <2> QED
      BY <2>1, <2>2, <2>3
  <1>8. ASSUME NEW path, Open(path) PROVE Open(path)'
    <2>1. PICK i \in 1 .. n : stack[i].file = path
      BY <1>8 DEF Open
    <2>2. i \in 1 .. Len(stack') /\ stack'[i].file = path
      BY <1>3, <1>6, <1>7, <2>1
    <2> QED
      BY <2>2 DEF Open
  <1>9. \A path \in visited' \ visited : Open(path)'
    BY <1>6 DEF Open
  <1>10. /\ \A path, j : Leads(path, j)' = Leads(path, j)
         /\ \A path, from : SourceLines(path, from)' = SourceLines(path, from)
         /\ \A path : Sourced(path)' = Sourced(path)
         /\ \A set : Reaching(set)' <=> Reaching(set)
    BY <1>1, TreeStays
  <1>11. visited' \in SUBSET DOMAIN tree
    BY <1>0, <1>6, LeadsThere DEF LoadTypeOK
  <1>12. LoadTypeOK'
    BY <1>0, <1>1, <1>6, <1>11 DEF LoadTypeOK
  <1>13. WalkInv'
    <2>1. ({Top} \cap DOMAIN tree \subseteq visited)'
      BY <1>0, <1>1, <1>6 DEF WalkInv
    <2>2. ASSUME NEW i \in 1 .. Len(stack')
          PROVE  /\ stack'[i].file \in visited'
                 /\ \A j \in SourceLines(stack'[i].file, 1) :
                       j < stack'[i].from => Leads(stack'[i].file, j) \subseteq visited'
      <3>1. CASE i \in 1 .. n /\ i # n
        <4>1. stack'[i] = stack[i]
          BY <1>5, <1>6, <3>1
        <4> QED
          BY <1>0, <1>6, <3>1, <4>1 DEF WalkInv, Followed
      <3>2. CASE i = n
        <4>1. stack'[i].file = file /\ stack'[i].from = k + 1
          BY <1>3, <1>5, <1>6, <3>2
        <4>2. file \in visited /\ Followed(stack[n])
          BY <1>0, <1>3 DEF WalkInv
        <4>3. \A j \in SourceLines(file, 1) :
                 j < k + 1 => Leads(file, j) \subseteq visited'
          BY <1>3, <1>4, <1>6, <4>2 DEF Followed
        <4> QED
          BY <1>6, <4>1, <4>2, <4>3
      <3>3. CASE i \notin 1 .. n
        BY <1>6, <3>3 DEF SourceLines
      <3> QED
        BY <3>1, <3>2, <3>3
    <2>3. \A i \in 1 .. Len(stack') : stack'[i].file \in visited' /\ Followed(stack[i])'
      BY <1>10, <2>2 DEF Followed
    <2>4. (\A path \in visited : Open(path) \/ Sourced(path) \subseteq visited)'
      BY <1>0, <1>6, <1>8, <1>9, <1>10 DEF WalkInv
    <2>5. ASSUME NEW set \in SUBSET DOMAIN tree, Reaching(set) PROVE visited' \subseteq set
      <3>1. visited \subseteq set
        BY <1>0, <2>5 DEF WalkInv
      <3>2. file \in set
        BY <1>0, <1>3, <3>1 DEF WalkInv
      <3>3. Leads(file, k) \subseteq set
        <4>1. k \in SourceLines(file, 1)
          BY <1>2, <1>4
        <4>2. Leads(file, k) \subseteq Sourced(file)
          BY <4>1 DEF Sourced
        <4>3. Sourced(file) \subseteq set
          BY <2>5, <3>2 DEF Reaching
        <4> QED
          BY <4>2, <4>3
      <3> QED
        BY <1>6, <3>1, <3>3
    <2> QED
      BY <1>1, <1>10, <2>1, <2>3, <2>4, <2>5 DEF WalkInv
  <1>14. EntriesInv'
    BY <1>0, <1>1, <1>6, <1>8, <1>9 DEF EntriesInv
  <1>15. DatabaseInv'
    BY <1>0, <1>1 DEF DatabaseInv, Start, resolveVars
  <1>16. ResolveInv'
    BY <1>0, <1>1, ResolveNext
  <1> QED
    BY <1>12, <1>13, <1>14, <1>15, <1>16 DEF LoadInv

\* A file whose source lines are done is closed, and its symbols are known.
LEMMA ParseStep == LoadInv /\ ParseEntries => LoadInv'
  <1> SUFFICES ASSUME LoadInv, ParseEntries PROVE LoadInv'
    OBVIOUS
  <1>0. LoadTypeOK /\ WalkInv /\ EntriesInv /\ DatabaseInv /\ ResolveInv
    BY DEF LoadInv
  <1> DEFINE n == Len(stack)
             file == Current.file
             new == ParsedEntries(tree[file])
  <1>1. /\ phase = "load" /\ stack # <<>> /\ Left = {}
        /\ parsed' = [s \in DOMAIN parsed \cup DOMAIN new |->
                         IF s \in DOMAIN new THEN new[s] ELSE parsed[s]]
        /\ stack' = SubSeq(stack, 1, n - 1)
        /\ UNCHANGED <<tree, phase, visited, resolveVars>>
    BY DEF ParseEntries
  <1>2. /\ n \in Nat /\ n \in 1 .. n /\ Current = stack[n]
        /\ file \in DOMAIN tree /\ Current.from \in Nat \ {0}
        /\ tree[file] \in Seq(Lines)
    BY <1>0, <1>1, CurrentType
  <1>3. /\ stack' \in Seq([file : DOMAIN tree, from : Nat \ {0}])
        /\ Len(stack') = n - 1
        /\ \A i \in 1 .. n - 1 : stack'[i] = stack[i]
    <2> DEFINE Frames == [file : DOMAIN tree, from : Nat \ {0}]
               cut == SubSeq(stack, 1, n - 1)
    <2>0. stack \in Seq(Frames)
      BY <1>0 DEF LoadTypeOK
    <2>2. stack' = cut
      BY <1>1
    <2> HIDE DEF Frames
    <2>1. \A i \in 1 .. n : stack[i] \in Frames
      BY <2>0
    <2> HIDE DEF n
    <2>3. n - 1 \in Int /\ (1 <= n - 1 => n - 1 - 1 + 1 = n - 1) /\ (~(1 <= n - 1) => n - 1 = 0)
      BY <1>2
    <2>4. \A i \in 1 .. n - 1 : stack[i] \in Frames
      BY <1>2, <2>1
    <2>5. /\ cut \in Seq(Frames)
          /\ Len(cut) = IF 1 <= n - 1 THEN n - 1 - 1 + 1 ELSE 0
          /\ \A i \in 1 .. n - 1 - 1 + 1 : cut[i] = stack[1 + i - 1]
      BY <2>3, <2>4, SubSeqProperties
    <2> HIDE DEF cut
    <2>6. Len(cut) = n - 1 /\ \A i \in 1 .. n - 1 : cut[i] = stack[i]
      <3>1. \A i \in 1 .. n - 1 : 1 + i - 1 = i /\ n - 1 - 1 + 1 = n - 1
        BY <1>2
      <3> QED
        BY <1>2, <2>3, <2>5, <3>1
    <2> QED
      BY <2>2, <2>5, <2>6 DEF Frames
  <1>4. file \in visited
    BY <1>0, <1>2 DEF WalkInv
  <1>5. Sourced(file) \subseteq visited
    <2>1. Followed(stack[n])
      BY <1>0, <1>2 DEF WalkInv
    <2>2. ASSUME NEW k \in SourceLines(file, 1) PROVE k < Current.from
      <3>1. /\ k \in 1 .. Len(tree[file]) /\ Len(tree[file]) \in Nat
            /\ tree[file][k].kind = "source"
        BY <1>2 DEF SourceLines
      <3>2. SourceLines(file, Current.from) = {}
        BY <1>1 DEF Left
      <3> HIDE DEF file
      <3>3. ~(k \in Current.from .. Len(tree[file]))
        BY <3>1, <3>2 DEF SourceLines
      <3> QED
        BY <1>2, <3>1, <3>3
    <2>3. \A k \in SourceLines(file, 1) : Leads(file, k) \subseteq visited
      BY <1>2, <2>1, <2>2 DEF Followed
    <2> QED
      BY <2>3 DEF Sourced
  <1> HIDE DEF file, new
  <1>6. ASSUME NEW path, Open(path), path # file PROVE Open(path)'
    <2>1. PICK i \in 1 .. n : stack[i].file = path
      BY <1>6 DEF Open
    <2>2. i # n
      BY <1>2, <1>6, <2>1 DEF file
    <2>3. i \in 1 .. Len(stack') /\ stack'[i].file = path
      BY <1>2, <1>3, <2>1, <2>2
    <2> QED
      BY <2>3 DEF Open
  <1>7. /\ \A path, j : Leads(path, j)' = Leads(path, j)
        /\ \A path, from : SourceLines(path, from)' = SourceLines(path, from)
        /\ \A path : Sourced(path)' = Sourced(path)
        /\ \A set : Reaching(set)' <=> Reaching(set)
    BY <1>1, TreeStays
  <1>8. LoadTypeOK'
    BY <1>0, <1>1, <1>3 DEF LoadTypeOK
  <1>9. WalkInv'
    <2>1. ASSUME NEW i \in 1 .. Len(stack')
          PROVE  stack'[i].file \in visited /\ Followed(stack[i])'
      <3>1. stack'[i] = stack[i] /\ i \in 1 .. n
        BY <1>2, <1>3
      <3>2. stack[i].file \in visited /\ Followed(stack[i])
        BY <1>0, <3>1 DEF WalkInv
      <3> QED
        BY <1>1, <1>7, <3>1, <3>2 DEF Followed
    <2>2. \A path \in visited : Open(path)' \/ Sourced(path) \subseteq visited
      BY <1>0, <1>5, <1>6 DEF WalkInv
    <2> QED
      BY <1>0, <1>1, <1>7, <2>1, <2>2 DEF WalkInv
  <1>10. /\ DOMAIN new = {s \in Symbols : Headers(tree[file], s) # {}}
         /\ \A s \in DOMAIN new : \E k \in Headers(tree[file], s) : new[s] = Entry(tree[file], k)
    BY <1>2, ParsedFrom DEF new
  <1>11. /\ DOMAIN parsed' = DOMAIN parsed \cup DOMAIN new
         /\ \A s \in DOMAIN new : parsed'[s] = new[s]
         /\ \A s \in DOMAIN parsed \ DOMAIN new : parsed'[s] = parsed[s]
    BY <1>1
  <1>12. EntriesInv'
    <2>1. ASSUME NEW path \in visited, NEW s \in Symbols, Headers(tree[path], s) # {}
          PROVE  Open(path)' \/ s \in DOMAIN parsed'
      BY <1>0, <1>6, <1>10, <1>11, <2>1 DEF EntriesInv
    <2>2. ASSUME NEW s \in DOMAIN parsed'
          PROVE  /\ s \in Symbols
                 /\ \E path \in visited : \E k \in Headers(tree[path], s) :
                       parsed'[s] = Entry(tree[path], k)
      <3>1. CASE s \in DOMAIN new
        BY <1>4, <1>10, <1>11, <3>1
      <3>2. CASE s \in DOMAIN parsed \ DOMAIN new
        BY <1>0, <1>11, <3>2 DEF EntriesInv
      <3> QED
        BY <1>11, <3>1, <3>2
    <2>3. tree' = tree /\ visited' = visited
      BY <1>1
    <2>4. (\A path \in visited, s \in Symbols :
              Headers(tree[path], s) # {} => Open(path) \/ s \in DOMAIN parsed)'
      BY <2>1, <2>3
    <2>5. (\A s \in DOMAIN parsed :
              /\ s \in Symbols
              /\ \E path \in visited : \E k \in Headers(tree[path], s) :
                    parsed[s] = Entry(tree[path], k))'
      BY <2>2, <2>3
    <2> QED
      BY <2>4, <2>5 DEF EntriesInv
  <1>13. DatabaseInv'
    BY <1>0, <1>1 DEF DatabaseInv, Start, resolveVars
  <1>14. ResolveInv'
    BY <1>0, <1>1, ResolveNext
  <1> QED
    BY <1>8, <1>9, <1>12, <1>13, <1>14 DEF LoadInv

\* ResolveStart, of the next state.
LEMMA ResolveBegins ==
    (symbols \in SUBSET Symbols /\ db \in AllDatabases /\ Start)' => ResolveInv'
  BY ResolveStart, PTL

\* When no file is open, resolution starts on what the entries say.
LEMMA LoadedStep == LoadInv /\ Loaded => LoadInv'
  <1> SUFFICES ASSUME LoadInv, Loaded PROVE LoadInv'
    OBVIOUS
  <1>0. LoadTypeOK /\ WalkInv /\ EntriesInv /\ DatabaseInv /\ ResolveInv
    BY DEF LoadInv
  <1>1. /\ phase = "load" /\ stack = <<>> /\ phase' = "resolve" /\ db' = Database(parsed)
        /\ UNCHANGED <<tree, stack, visited, parsed, symbols, resolved, queue>>
    BY DEF Loaded
  <1>2. ASSUME NEW s \in DOMAIN parsed \cap Symbols PROVE parsed[s] \in EntryRecords
    <2>1. PICK path \in visited :
                \E k \in Headers(tree[path], s) : parsed[s] = Entry(tree[path], k)
      BY <1>0 DEF EntriesInv
    <2>2. PICK k \in Headers(tree[path], s) : parsed[s] = Entry(tree[path], k)
      BY <2>1
    <2>3. tree[path] \in Seq(Lines) /\ k \in 1 .. Len(tree[path])
      BY <1>0 DEF LoadTypeOK, Headers
    <2> QED
      BY <2>2, <2>3, EntryShape
  <1>3. db' \in AllDatabases
    BY <1>1, <1>2, DatabaseType
  <1>4. Start /\ symbols \in SUBSET Symbols
    BY <1>0, <1>1 DEF DatabaseInv, ResolveInv, ResolveTypeOK
  <1>5. (symbols \in SUBSET Symbols /\ db \in AllDatabases /\ Start)'
    <2>1. Start'
      BY <1>1, <1>4 DEF Start
    <2> QED
      BY <1>1, <1>3, <1>4, <2>1 DEF AllDatabases
  <1>6. ResolveInv'
    BY <1>5, ResolveBegins
  <1>7. LoadTypeOK'
    BY <1>0, <1>1 DEF LoadTypeOK
  <1>8. /\ \A path, j : Leads(path, j)' = Leads(path, j)
        /\ \A path, from : SourceLines(path, from)' = SourceLines(path, from)
        /\ \A path : Sourced(path)' = Sourced(path)
        /\ \A set : Reaching(set)' <=> Reaching(set)
        /\ \A path : Open(path)' <=> Open(path)
    BY <1>1, TreeStays DEF Open
  <1>9. WalkInv' /\ EntriesInv'
    BY <1>0, <1>1, <1>8 DEF WalkInv, EntriesInv, Followed
  <1>10. DatabaseInv'
    BY <1>1 DEF DatabaseInv
  <1> QED
    BY <1>6, <1>7, <1>9, <1>10 DEF LoadInv

\* A turn of resolution, or no step at all, leaves what is loaded alone.
LEMMA StayStep ==
    ASSUME LoadInv, UNCHANGED <<tree, phase, stack, visited, parsed>>,
           (phase = "resolve" /\ Turn) \/ UNCHANGED resolveVars
    PROVE  LoadInv'
  <1>0. LoadTypeOK /\ WalkInv /\ EntriesInv /\ DatabaseInv /\ ResolveInv
    BY DEF LoadInv
  <1>1. ResolveInv'
    BY <1>0, ResolveNext
  <1>2. LoadTypeOK'
    BY <1>0 DEF LoadTypeOK
  <1>3. /\ \A path, j : Leads(path, j)' = Leads(path, j)
        /\ \A path, from : SourceLines(path, from)' = SourceLines(path, from)
        /\ \A path : Sourced(path)' = Sourced(path)
        /\ \A set : Reaching(set)' <=> Reaching(set)
        /\ \A path : Open(path)' <=> Open(path)
    BY TreeStays DEF Open
  <1>4. WalkInv' /\ EntriesInv'
    BY <1>0, <1>3 DEF WalkInv, EntriesInv, Followed
  <1>5. DatabaseInv'
    <2>1. CASE phase = "resolve" /\ Turn
      <3>1. db' = db
        BY <2>1 DEF Turn, Drop, Expand
      <3> QED
        BY <1>0, <2>1, <3>1 DEF DatabaseInv
    <2>2. CASE UNCHANGED resolveVars
      BY <1>0, <2>2 DEF DatabaseInv, Start, resolveVars
    <2> QED
      BY <2>1, <2>2
  <1> QED
    BY <1>1, <1>2, <1>4, <1>5 DEF LoadInv

LEMMA LoadStep == LoadInv /\ [LoadNext]_loadVars => LoadInv'
  <1> SUFFICES ASSUME LoadInv, [LoadNext]_loadVars PROVE LoadInv'
    OBVIOUS
  <1>1. CASE FollowSource
    BY <1>1, FollowStep
  <1>2. CASE ParseEntries
    BY <1>2, ParseStep
  <1>3. CASE Loaded
    BY <1>3, LoadedStep
  <1>4. CASE Resolve
    BY <1>4, StayStep DEF Resolve
  <1>5. CASE UNCHANGED loadVars
    BY <1>5, StayStep DEF loadVars
  <1> QED
    BY <1>1, <1>2, <1>3, <1>4, <1>5 DEF LoadNext

LEMMA LoadInvariant == LoadSpec => []LoadInv
  BY LoadStart, LoadStep, PTL DEF LoadSpec

\* Whenever the loop has ended, `resolved' is the least closed set over the
\* request: nothing an entry selects, implies or depends on is missing, and
\* nothing is there without a reason (kconfig.py 152-177).
THEOREM ResolvesLeast == LoadSpec => []ReturnsLeast
  <1>1. LoadInv => ReturnsLeast
    BY ResolvedLeast DEF LoadInv
  <1> QED
    BY <1>1, LoadInvariant, PTL

-----------------------------------------------------------------------------
(* What is parsed is what the files say.                                   *)

\* At the end the files visited are those that source lines reach.
LEMMA VisitedFiles == LoadInv /\ phase = "resolve" => visited = Files
  <1> SUFFICES ASSUME LoadInv, phase = "resolve" PROVE visited = Files
    OBVIOUS
  <1>1. LoadTypeOK /\ WalkInv
    BY DEF LoadInv
  <1>2. \A path : ~Open(path)
    <2>1. Len(stack) = 0
      BY <1>1 DEF LoadTypeOK
    <2> QED
      BY <2>1 DEF Open
  <1>3. Reaching(visited)
    BY <1>1, <1>2 DEF WalkInv, Reaching
  <1>4. visited \in SUBSET DOMAIN tree
    BY <1>1 DEF LoadTypeOK
  <1> QED
    BY <1>1, <1>3, <1>4 DEF Files, WalkInv

\* In a file without comments and help texts, an entry reads the attributes
\* up to the next line that is neither an attribute nor text.
LEMMA GivenAttributes ==
    ASSUME NEW lines \in Seq(Lines), NEW k \in 1 .. Len(lines), NEW what,
           \A j \in 1 .. Len(lines) : lines[j].kind \notin {"comment", "help"}
    PROVE  Given(lines, k, what) =
              {i \in k + 1 .. Len(lines) :
                  /\ lines[i].kind = "attribute" /\ lines[i].what = what
                  /\ \A l \in k + 1 .. i : lines[l].kind \notin {"config", "source", "other"}}
  <1> DEFINE within(i) ==
                \A l \in k + 1 .. i : lines[l].kind \notin {"config", "source", "other"}
  <1>1. PICK e \in k + 1 .. Len(lines) + 1 :
            /\ Body(lines, k) = k + 1 .. e - 1
            /\ e <= Len(lines) => Outdented(lines[e])
            /\ \A j \in k + 1 .. e - 1 : ~Outdented(lines[j])
    BY BodyEnds
  <1>2. Len(lines) \in Nat /\ k \in Nat /\ e \in Nat
    OBVIOUS
  <1>3. \A l \in 1 .. Len(lines) :
            Outdented(lines[l]) <=> lines[l].kind \in {"config", "source", "other"}
    BY DEF Outdented
  <1>4. ASSUME NEW i \in k + 1 .. Len(lines) PROVE i \in k + 1 .. e - 1 <=> within(i)
    <2>1. CASE i < e
      BY <1>1, <1>2, <1>3, <2>1
    <2>2. CASE e <= i
      <3>1. e \in k + 1 .. i /\ e \in 1 .. Len(lines)
        BY <1>2, <2>2
      <3>2. lines[e].kind \in {"config", "source", "other"}
        BY <1>1, <1>2, <1>3, <3>1
      <3> QED
        BY <1>2, <2>2, <3>1, <3>2
    <2> QED
      BY <1>2, <2>1, <2>2
  <1>5. \A i \in k + 1 .. Len(lines) : Reads(lines[i]) <=> lines[i].kind = "attribute"
    BY <1>2 DEF Reads
  <1>6. \A i \in k + 1 .. e - 1 : i \in k + 1 .. Len(lines)
    BY <1>2
  <1> HIDE DEF within
  <1>7. \A i : i \in Given(lines, k, what) <=>
            i \in k + 1 .. Len(lines) /\ lines[i].kind = "attribute" /\ lines[i].what = what
            /\ within(i)
    BY <1>1, <1>4, <1>5, <1>6 DEF Given
  <1> QED
    BY <1>7 DEF within

\* What an entry reads of a plain file are the attributes of its definition.
LEMMA EntryReads ==
    ASSUME LoadTypeOK, NEW path \in DOMAIN tree, NEW k \in 1 .. Len(tree[path]),
           \A j \in 1 .. Len(tree[path]) : tree[path][j].kind \notin {"comment", "help"}
    PROVE  LET entry == Entry(tree[path], k)
               d     == <<path, k>>
           IN  /\ entry.depends = Attributes(d, "depends")
               /\ {x \in Symbols : entry.selects[x] > 0} = Attributes(d, "select")
               /\ {x \in Symbols : entry.implies[x] > 0} = Attributes(d, "imply")
  <1> DEFINE lines == tree[path]
             args(what) == {lines[j].arg : j \in Given(lines, k, what)}
  <1>1. lines \in Seq(Lines)
    BY DEF LoadTypeOK
  <1>2. ASSUME NEW what PROVE Attributes(<<path, k>>, what) = args(what)
    BY <1>1, GivenAttributes DEF Attributes
  <1>3. ASSUME NEW what \in {"select", "imply"}
        PROVE  {x \in Symbols : Counted(lines, k, what)[x] > 0} = args(what)
    <2> HIDE DEF lines
    <2>1. ASSUME NEW j \in Given(lines, k, what) PROVE lines[j].arg \in Symbols
      <3>1. j \in k + 1 .. Len(lines) /\ Reads(lines[j]) /\ lines[j].what = what
        BY <1>1, GivenWithin DEF Given, lines
      <3>2. j \in 1 .. Len(lines)
        BY <3>1 DEF lines
      <3> QED
        BY <1>1, <3>1, <3>2, LineType
    <2>2. \A x \in Symbols : Counted(lines, k, what)[x] > 0 <=>
                                 \E j \in Given(lines, k, what) : lines[j].arg = x
      BY <1>1, CountedType DEF lines
    <2> QED
      BY <2>1, <2>2
  <1>4. /\ Entry(lines, k).depends = args("depends")
        /\ Entry(lines, k).selects = Counted(lines, k, "select")
        /\ Entry(lines, k).implies = Counted(lines, k, "imply")
    BY DEF Entry
  <1> HIDE DEF args
  <1> QED
    BY <1>2, <1>3, <1>4

\* Every symbol that a file reached by source lines defines is parsed, with
\* the attributes of one of its definitions (kconfig.py 58-147).
THEOREM EntriesParsed == LoadSpec => []ParsesEntries
  <1>1. LoadInv => ParsesEntries
    <2> SUFFICES ASSUME LoadInv, phase = "resolve", Plain
                 PROVE  /\ DOMAIN parsed = {s \in Symbols : Definitions(s) # {}}
                        /\ \A s \in DOMAIN parsed : \E d \in Definitions(s) :
                              /\ parsed[s].depends = Attributes(d, "depends")
                              /\ {x \in Symbols : parsed[s].selects[x] > 0}
                                     = Attributes(d, "select")
                              /\ {x \in Symbols : parsed[s].implies[x] > 0}
                                     = Attributes(d, "imply")
      BY DEF ParsesEntries
    <2>1. LoadTypeOK /\ EntriesInv
      BY DEF LoadInv
    <2>2. visited = Files /\ \A path : ~Open(path)
      <3>1. Len(stack) = 0
        BY <2>1 DEF LoadTypeOK
      <3> QED
        BY <3>1, VisitedFiles DEF Open
    <2>3. ASSUME NEW path \in visited, NEW s, NEW k \in Headers(tree[path], s)
          PROVE  <<path, k>> \in Definitions(s)
      BY <2>2 DEF Definitions
    <2>4. ASSUME NEW s \in DOMAIN parsed
          PROVE  /\ s \in Symbols
                 /\ \E d \in Definitions(s) :
                       /\ parsed[s].depends = Attributes(d, "depends")
                       /\ {x \in Symbols : parsed[s].selects[x] > 0} = Attributes(d, "select")
                       /\ {x \in Symbols : parsed[s].implies[x] > 0} = Attributes(d, "imply")
      <3>1. PICK path \in visited :
                \E k \in Headers(tree[path], s) : parsed[s] = Entry(tree[path], k)
        BY <2>1 DEF EntriesInv
      <3>2. PICK k \in Headers(tree[path], s) : parsed[s] = Entry(tree[path], k)
        BY <3>1
      <3>3. path \in DOMAIN tree /\ k \in 1 .. Len(tree[path])
        BY <2>1 DEF LoadTypeOK, Headers
      <3>4. \A j \in 1 .. Len(tree[path]) : tree[path][j].kind \notin {"comment", "help"}
        BY <2>2 DEF Plain
      <3>5. /\ parsed[s].depends = Attributes(<<path, k>>, "depends")
            /\ {x \in Symbols : parsed[s].selects[x] > 0} = Attributes(<<path, k>>, "select")
            /\ {x \in Symbols : parsed[s].implies[x] > 0} = Attributes(<<path, k>>, "imply")
        BY <2>1, <3>2, <3>3, <3>4, EntryReads
      <3>6. s \in Symbols
        BY <2>1 DEF EntriesInv
      <3> QED
        BY <2>3, <3>5, <3>6
    <2>5. ASSUME NEW s \in Symbols, Definitions(s) # {} PROVE s \in DOMAIN parsed
      <3>1. PICK path \in Files : Headers(tree[path], s) # {}
        BY <2>5 DEF Definitions
      <3> QED
        BY <2>1, <2>2, <3>1 DEF EntriesInv
    <2>6. ASSUME NEW s \in DOMAIN parsed PROVE Definitions(s) # {}
      BY <2>4
    <2>7. DOMAIN parsed = {s \in Symbols : Definitions(s) # {}}
      BY <2>4, <2>5, <2>6
    <2> QED
      BY <2>4, <2>7
  <1> QED
    BY <1>1, LoadInvariant, PTL

-----------------------------------------------------------------------------
(* What is extracted of a well-formed expression.  Its last token is no    *)
(* negation, and a parenthesis has its counterpart within the expression:  *)
(* what a match strips of it does not reach into what comes after it.      *)

Tokens == Symbols \cup Marks

Found(t, p) == /\ p \in 1 .. Len(t) \ Stripped(t)
               /\ t[p] \in Searched /\ ~NegatedAt(t, p)

Balanced(t) == /\ t[Len(t)] # "!"
               /\ \A i \in 1 .. Len(t) : t[i] = "(" => \E j \in i + 1 .. Len(t) : t[j] = ")"
               /\ \A i \in 1 .. Len(t) : t[i] = ")" => \E j \in 1 .. i - 1 : t[j] = "("

ReadWell(e) == /\ Len(e.tokens) >= 1 /\ Balanced(e.tokens)
               /\ e.free \cap Searched \subseteq Extracted(e.tokens)
               /\ ~Nested(e.tokens) => Extracted(e.tokens) \subseteq e.free

\* t has u at the places after m, and no match goes past m.
Placed(u, t, m) ==
    /\ m + Len(u) <= Len(t)
    /\ \A i \in 1 .. Len(u) : t[m + i] = u[i]
    /\ m # 0 => t[m] # "!"
    /\ \A j \in 1 .. m, k \in 1 .. Len(t) : Opens(t, j) /\ Closes(t, j, k) => k <= m

LEMMA ExtractedFound ==
    ASSUME NEW t \in Seq(Tokens)
    PROVE  /\ \A p : Found(t, p) => t[p] \in Extracted(t)
           /\ \A s \in Extracted(t) : \E p \in 1 .. Len(t) : Found(t, p) /\ t[p] = s
  BY DEF Extracted, Found

\* A match that begins in a balanced part ends in it, before any other
\* match of the part's that begins there.
LEMMA MatchWithin ==
    ASSUME NEW u \in Seq(Tokens), NEW t \in Seq(Tokens), NEW m \in Nat,
           Placed(u, t, m), Balanced(u), NEW i \in 1 .. Len(u), Opens(t, m + i)
    PROVE  /\ Opens(u, i)
           /\ \A k \in 1 .. Len(t) : Closes(t, m + i, k) => k \in m + i .. m + Len(u)
  <1>1. Len(u) \in Nat /\ Len(t) \in Nat /\ m + Len(u) <= Len(t)
    BY DEF Placed
  <1>2. u[i] = "!"
    BY DEF Opens, Placed
  <1>3. i # Len(u)
    BY <1>2 DEF Balanced
  <1>4. i + 1 \in 1 .. Len(u) /\ u[i + 1] = "("
    <2>1. i + 1 \in 1 .. Len(u)
      BY <1>1, <1>3
    <2>2. t[m + (i + 1)] = u[i + 1]
      BY <2>1 DEF Placed
    <2>3. t[m + i + 1] = "(" /\ m + (i + 1) = m + i + 1
      BY DEF Opens
    <2> QED
      BY <2>1, <2>2, <2>3
  <1>5. PICK l \in i + 2 .. Len(u) : u[l] = ")"
    <2>1. PICK l \in i + 1 + 1 .. Len(u) : u[l] = ")"
      BY <1>4 DEF Balanced
    <2> QED
      BY <1>1, <2>1
  <1>6. t[m + l] = ")"
    BY <1>1, <1>5 DEF Placed
  <1>7. ASSUME NEW k \in 1 .. Len(t), Closes(t, m + i, k) PROVE k \in m + i .. m + Len(u)
    <2>1. m + i < k /\ \A h \in m + i .. k - 1 : t[h] # ")"
      BY <1>7 DEF Closes
    <2>2. ~(m + l <= k - 1)
      BY <1>1, <1>5, <1>6, <2>1
    <2> QED
      BY <1>1, <1>5, <2>1, <2>2
  <1> QED
    BY <1>1, <1>2, <1>3, <1>4, <1>7 DEF Opens

\* And so do the matches of the part by itself.
LEMMA MatchPlaced ==
    ASSUME NEW u \in Seq(Tokens), NEW t \in Seq(Tokens), NEW m \in Nat, Placed(u, t, m),
           NEW i \in 1 .. Len(u), NEW k \in 1 .. Len(u)
    PROVE  /\ Opens(u, i) => Opens(t, m + i)
           /\ Closes(u, i, k) <=> Closes(t, m + i, m + k)
  <1>1. Len(u) \in Nat /\ Len(t) \in Nat /\ m + Len(u) <= Len(t)
    BY DEF Placed
  <1>2. \A h \in 1 .. Len(u) : t[m + h] = u[h]
    BY DEF Placed
  <1>3. Opens(u, i) => Opens(t, m + i)
    <2> SUFFICES ASSUME Opens(u, i) PROVE Opens(t, m + i)
      OBVIOUS
    <2>1. i + 1 \in 1 .. Len(u) /\ u[i] = "!" /\ u[i + 1] = "("
      BY <1>1 DEF Opens
    <2>2. t[m + (i + 1)] = "(" /\ t[m + i] = "!" /\ m + (i + 1) = m + i + 1
      BY <1>1, <1>2, <2>1
    <2> QED
      BY <1>1, <2>1, <2>2 DEF Opens
  <1>4. Closes(u, i, k) => Closes(t, m + i, m + k)
    <2> SUFFICES ASSUME Closes(u, i, k) PROVE Closes(t, m + i, m + k)
      OBVIOUS
    <2>1. i < k /\ u[k] = ")" /\ \A l \in i .. k - 1 : u[l] # ")"
      BY DEF Closes
    <2>2. ASSUME NEW l \in m + i .. m + k - 1 PROVE t[l] # ")"
      <3>1. l - m \in i .. k - 1 /\ l - m \in 1 .. Len(u) /\ m + (l - m) = l
        BY <1>1
      <3> QED
        BY <1>2, <2>1, <3>1
    <2> QED
      BY <1>1, <1>2, <2>1, <2>2 DEF Closes
  <1>5. Closes(t, m + i, m + k) => Closes(u, i, k)
    <2> SUFFICES ASSUME Closes(t, m + i, m + k) PROVE Closes(u, i, k)
      OBVIOUS
    <2>1. m + i < m + k /\ t[m + k] = ")" /\ \A l \in m + i .. m + k - 1 : t[l] # ")"
      BY DEF Closes
    <2>2. ASSUME NEW l \in i .. k - 1 PROVE u[l] # ")"
      <3>1. m + l \in m + i .. m + k - 1 /\ l \in 1 .. Len(u)
        BY <1>1
      <3> QED
        BY <1>2, <2>1, <3>1
    <2> QED
      BY <1>1, <1>2, <2>1, <2>2 DEF Closes
  <1> QED
    BY <1>3, <1>4, <1>5

\* In its place a balanced part is read as by itself.
LEMMA PlacedFinds ==
    ASSUME NEW u \in Seq(Tokens), NEW t \in Seq(Tokens), NEW m \in Nat,
           Placed(u, t, m), Balanced(u)
    PROVE  /\ \A p \in 1 .. Len(u) : Found(t, m + p) <=> Found(u, p)
           /\ Nested(u) => Nested(t)
           /\ \A j \in 1 .. m + Len(u), k \in 1 .. Len(t) :
                 Opens(t, j) /\ Closes(t, j, k) => k <= m + Len(u)
  <1>1. Len(u) \in Nat /\ Len(t) \in Nat /\ m + Len(u) <= Len(t)
    BY DEF Placed
  <1>2. \A h \in 1 .. Len(u) : t[m + h] = u[h]
    BY DEF Placed
  <1>3. ASSUME NEW p \in 1 .. Len(u) PROVE m + p \in Stripped(t) <=> p \in Stripped(u)
    <2>1. ASSUME m + p \in Stripped(t) PROVE p \in Stripped(u)
      <3>1. PICK j \in 1 .. m + p, k \in m + p .. Len(t) : Opens(t, j) /\ Closes(t, j, k)
        BY <2>1 DEF Stripped
      <3>2. j \in Nat /\ k \in 1 .. Len(t) /\ j > m
        BY <1>1, <3>1 DEF Placed
      <3>3. j - m \in 1 .. p /\ j - m \in 1 .. Len(u) /\ m + (j - m) = j
        BY <1>1, <3>2
      <3>4. Opens(u, j - m) /\ k \in j .. m + Len(u)
        BY <3>1, <3>2, <3>3, MatchWithin
      <3>5. k - m \in p .. Len(u) /\ k - m \in 1 .. Len(u) /\ m + (k - m) = k
        BY <1>1, <3>2, <3>3, <3>4
      <3>6. Closes(u, j - m, k - m)
        BY <3>1, <3>3, <3>5, MatchPlaced
      <3> QED
        BY <3>3, <3>4, <3>5, <3>6 DEF Stripped
    <2>2. ASSUME p \in Stripped(u) PROVE m + p \in Stripped(t)
      <3>1. PICK j \in 1 .. p, k \in p .. Len(u) : Opens(u, j) /\ Closes(u, j, k)
        BY <2>2 DEF Stripped
      <3>2. j \in 1 .. Len(u) /\ k \in 1 .. Len(u)
        BY <1>1
      <3>3. Opens(t, m + j) /\ Closes(t, m + j, m + k)
        BY <3>1, <3>2, MatchPlaced
      <3>4. m + j \in 1 .. m + p /\ m + k \in m + p .. Len(t) /\ m + p \in 1 .. Len(t)
        BY <1>1
      <3> QED
        BY <3>3, <3>4 DEF Stripped
    <2> QED
      BY <2>1, <2>2
  <1>4. ASSUME NEW p \in 1 .. Len(u) PROVE NegatedAt(t, m + p) <=> NegatedAt(u, p)
    <2>1. CASE p = 1
      <3>1. ~NegatedAt(u, p)
        BY <2>1 DEF NegatedAt
      <3>2. m + p - 1 = m
        BY <2>1
      <3> QED
        BY <2>1, <3>1, <3>2 DEF NegatedAt, Placed
    <2>2. CASE p # 1
      <3>1. p - 1 \in 1 .. Len(u) /\ m + p - 1 = m + (p - 1) /\ p > 1 /\ m + p > 1
        BY <1>1, <2>2
      <3>2. t[m + p - 1] = u[p - 1]
        BY <1>2, <3>1
      <3> QED
        BY <3>1, <3>2 DEF NegatedAt
    <2> QED
      BY <2>1, <2>2
  <1>5. ASSUME NEW p \in 1 .. Len(u) PROVE Found(t, m + p) <=> Found(u, p)
    <2>1. m + p \in 1 .. Len(t) /\ t[m + p] = u[p]
      BY <1>1, <1>2
    <2> QED
      BY <1>3, <1>4, <2>1 DEF Found
  <1>6. ASSUME Nested(u) PROVE Nested(t)
    <2>1. PICK j \in 1 .. Len(u), k \in 1 .. Len(u) :
              /\ Opens(u, j) /\ j + 1 < k /\ u[k] = "("
              /\ \A l \in j .. k : u[l] # ")"
      BY <1>6 DEF Nested
    <2>2. Opens(t, m + j) /\ t[m + k] = "("
      BY <1>2, <2>1, MatchPlaced
    <2>3. ASSUME NEW l \in m + j .. m + k PROVE t[l] # ")"
      <3>1. l - m \in j .. k /\ l - m \in 1 .. Len(u) /\ m + (l - m) = l
        BY <1>1
      <3> QED
        BY <1>2, <2>1, <3>1
    <2>4. m + j \in 1 .. Len(t) /\ m + k \in 1 .. Len(t) /\ m + j + 1 < m + k
      BY <1>1, <2>1
    <2> QED
      BY <2>2, <2>3, <2>4 DEF Nested
  <1>7. ASSUME NEW j \in 1 .. m + Len(u), NEW k \in 1 .. Len(t),
               Opens(t, j), Closes(t, j, k)
        PROVE  k <= m + Len(u)
    <2>1. CASE j \in 1 .. m
      BY <1>1, <1>7, <2>1 DEF Placed
    <2>2. CASE j \notin 1 .. m
      <3>1. j - m \in 1 .. Len(u) /\ m + (j - m) = j
        BY <1>1, <2>2
      <3>2. k \in j .. m + Len(u)
        BY <1>7, <3>1, MatchWithin
      <3> QED
        BY <1>1, <3>2
    <2> QED
      BY <2>1, <2>2
  <1> QED
    BY <1>5, <1>6, <1>7

\* How the parts of a compound expression lie in it.
LEMMA GroupParts ==
    ASSUME NEW u \in Seq(Tokens), NEW t, t = <<"(">> \o u \o <<")">>
    PROVE  /\ t \in Seq(Tokens) /\ Len(t) = Len(u) + 2
           /\ t[1] = "(" /\ t[Len(u) + 2] = ")"
           /\ \A i \in 1 .. Len(u) : t[1 + i] = u[i]
  <1> DEFINE open == <<"(">>
             close == <<")">>
  <1>1. open \in Seq(Tokens) /\ Len(open) = 1 /\ open[1] = "("
    BY DEF Tokens, Marks
  <1>2. close \in Seq(Tokens) /\ Len(close) = 1 /\ close[1] = ")"
    BY DEF Tokens, Marks
  <1> HIDE DEF open, close, Tokens
  <1>3. Len(u) \in Nat
    OBVIOUS
  <1>4. /\ open \o u \in Seq(Tokens) /\ Len(open \o u) = 1 + Len(u)
        /\ \A i \in 1 .. 1 + Len(u) : (open \o u)[i] = IF i <= 1 THEN open[i] ELSE u[i - 1]
    <2>1. /\ open \o u \in Seq(Tokens) /\ Len(open \o u) = Len(open) + Len(u)
          /\ \A i \in 1 .. Len(open) + Len(u) :
                (open \o u)[i] = IF i <= Len(open) THEN open[i] ELSE u[i - Len(open)]
      BY <1>1, ConcatProperties
    <2> QED
      BY <1>1, <2>1
  <1> DEFINE v == open \o u
  <1>5. t = v \o close
    BY DEF open, close
  <1> HIDE DEF v
  <1>6. /\ t \in Seq(Tokens) /\ Len(t) = Len(v) + 1
        /\ \A i \in 1 .. Len(v) + 1 : t[i] = IF i <= Len(v) THEN v[i] ELSE close[i - Len(v)]
    BY <1>2, <1>4, <1>5, ConcatProperties DEF v
  <1>7. Len(v) = 1 + Len(u) /\ v[1] = "(" /\ \A i \in 1 .. Len(u) : v[1 + i] = u[i]
    <2>1. ASSUME NEW i \in 1 .. Len(u) PROVE v[1 + i] = u[i]
      <3>1. 1 + i \in 1 .. 1 + Len(u) /\ ~(1 + i <= 1) /\ 1 + i - 1 = i
        BY <1>3
      <3> QED
        BY <1>4, <3>1 DEF v
    <2> QED
      BY <1>1, <1>3, <1>4, <2>1 DEF v
  <1>8. ASSUME NEW i \in 1 .. Len(u) PROVE t[1 + i] = u[i]
    <2>1. 1 + i \in 1 .. Len(v) + 1 /\ 1 + i <= Len(v)
      BY <1>3, <1>7
    <2> QED
      BY <1>6, <1>7, <2>1
  <1>9. t[1] = "(" /\ t[Len(u) + 2] = ")"
    <2>1. 1 \in 1 .. Len(v) + 1 /\ 1 <= Len(v)
      BY <1>3, <1>7
    <2>2. Len(u) + 2 \in 1 .. Len(v) + 1 /\ ~(Len(u) + 2 <= Len(v))
          /\ Len(u) + 2 - Len(v) = 1
      BY <1>3, <1>7
    <2> QED
      BY <1>2, <1>6, <1>7, <2>1, <2>2
  <1> QED
    BY <1>3, <1>6, <1>7, <1>8, <1>9

LEMMA NegatedParts ==
    ASSUME NEW u \in Seq(Tokens), NEW t, t = <<"!">> \o u
    PROVE  /\ t \in Seq(Tokens) /\ Len(t) = Len(u) + 1 /\ t[1] = "!"
           /\ \A i \in 1 .. Len(u) : t[1 + i] = u[i]
  <1> DEFINE not == <<"!">>
  <1>1. not \in Seq(Tokens) /\ Len(not) = 1 /\ not[1] = "!"
    BY DEF Tokens, Marks
  <1> HIDE DEF Tokens
  <1>2. t = not \o u /\ Len(u) \in Nat
    OBVIOUS
  <1> HIDE DEF not
  <1>3. /\ t \in Seq(Tokens) /\ Len(t) = 1 + Len(u)
        /\ \A i \in 1 .. 1 + Len(u) : t[i] = IF i <= 1 THEN not[i] ELSE u[i - 1]
    BY <1>1, <1>2, ConcatProperties
  <1>4. ASSUME NEW i \in 1 .. Len(u) PROVE t[1 + i] = u[i]
    <2>1. 1 + i \in 1 .. 1 + Len(u) /\ ~(1 + i <= 1) /\ 1 + i - 1 = i
      BY <1>2
    <2> QED
      BY <1>3, <2>1
  <1> QED
    BY <1>1, <1>2, <1>3, <1>4

LEMMA BinaryParts ==
    ASSUME NEW u \in Seq(Tokens), NEW op \in Tokens, NEW v \in Seq(Tokens), NEW t,
           t = u \o <<op>> \o v
    PROVE  /\ t \in Seq(Tokens) /\ Len(t) = Len(u) + 1 + Len(v)
           /\ \A i \in 1 .. Len(u) : t[i] = u[i]
           /\ t[Len(u) + 1] = op
           /\ \A i \in 1 .. Len(v) : t[Len(u) + 1 + i] = v[i]
  <1> DEFINE mid == <<op>>
             w == u \o mid
  <1>1. mid \in Seq(Tokens) /\ Len(mid) = 1 /\ mid[1] = op
    OBVIOUS
  <1>2. t = w \o v /\ Len(u) \in Nat /\ Len(v) \in Nat
    OBVIOUS
  <1> HIDE DEF Tokens, mid
  <1>3. /\ w \in Seq(Tokens) /\ Len(w) = Len(u) + 1
        /\ \A i \in 1 .. Len(u) + 1 : w[i] = IF i <= Len(u) THEN u[i] ELSE mid[i - Len(u)]
    <2>1. /\ w \in Seq(Tokens) /\ Len(w) = Len(u) + Len(mid)
          /\ \A i \in 1 .. Len(u) + Len(mid) :
                w[i] = IF i <= Len(u) THEN u[i] ELSE mid[i - Len(u)]
      BY <1>1, ConcatProperties
    <2> HIDE DEF w
    <2> QED
      BY <1>1, <2>1
  <1> HIDE DEF w
  <1>4. /\ t \in Seq(Tokens) /\ Len(t) = Len(w) + Len(v)
        /\ \A i \in 1 .. Len(w) + Len(v) : t[i] = IF i <= Len(w) THEN w[i] ELSE v[i - Len(w)]
    <2>1. w \in Seq(Tokens)
      BY <1>3
    <2>2. /\ w \o v \in Seq(Tokens) /\ Len(w \o v) = Len(w) + Len(v)
          /\ \A i \in 1 .. Len(w) + Len(v) :
                (w \o v)[i] = IF i <= Len(w) THEN w[i] ELSE v[i - Len(w)]
      BY <2>1, ConcatProperties
    <2> QED
      BY <1>2, <2>2
  <1>5. ASSUME NEW i \in 1 .. Len(u) PROVE t[i] = u[i]
    <2>1. i \in 1 .. Len(u) + 1 /\ i \in 1 .. Len(w) + Len(v) /\ i <= Len(u) /\ i <= Len(w)
      BY <1>2, <1>3
    <2> QED
      BY <1>3, <1>4, <2>1
  <1>6. t[Len(u) + 1] = op
    <2>1. /\ Len(u) + 1 \in 1 .. Len(u) + 1 /\ Len(u) + 1 \in 1 .. Len(w) + Len(v)
          /\ ~(Len(u) + 1 <= Len(u)) /\ Len(u) + 1 <= Len(w) /\ Len(u) + 1 - Len(u) = 1
      BY <1>2, <1>3
    <2> QED
      BY <1>1, <1>3, <1>4, <2>1
  <1>7. ASSUME NEW i \in 1 .. Len(v) PROVE t[Len(u) + 1 + i] = v[i]
    <2>1. /\ Len(u) + 1 + i \in 1 .. Len(w) + Len(v) /\ ~(Len(u) + 1 + i <= Len(w))
          /\ Len(u) + 1 + i - Len(w) = i
      BY <1>2, <1>3
    <2> QED
      BY <1>4, <2>1
  <1> QED
    BY <1>2, <1>3, <1>4, <1>5, <1>6, <1>7

\* Each form of expression is read well if its parts are.
LEMMA SymbolTokens ==
    ASSUME NEW s \in Symbols
    PROVE  s \in Tokens /\ s \notin {"(", ")", "!", "&&", "||"}
  BY SpellingAssumption DEF Tokens, Marks

LEMMA AtomReads ==
    ASSUME NEW s \in Symbols
    PROVE  ReadWell(Atom(s)) /\ Atom(s) \in Expressions
  <1> DEFINE t == <<s>>
  <1>1. s \in Tokens /\ s # "(" /\ s # ")" /\ s # "!"
    BY SymbolTokens
  <1>2. t \in Seq(Tokens) /\ Len(t) = 1 /\ t[1] = s
    BY <1>1
  <1>3. Atom(s).tokens = t /\ Atom(s).free = {s}
    BY DEF Atom, Whole
  <1>4. Atom(s) \in Expressions
    BY <1>2 DEF Atom, Whole, Expressions, Tokens
  <1> HIDE DEF t
  <1>5. Balanced(t)
    BY <1>1, <1>2 DEF Balanced
  <1>6. \A p \in Stripped(t) : FALSE
    BY <1>2 DEF Stripped, Opens
  <1>7. ~NegatedAt(t, 1)
    BY DEF NegatedAt
  <1>8. Extracted(t) = {s} \cap Searched
    BY <1>2, <1>6, <1>7 DEF Extracted
  <1> QED
    BY <1>2, <1>3, <1>4, <1>5, <1>8 DEF ReadWell

LEMMA ComparisonReads ==
    ASSUME NEW s \in Symbols, NEW op \in {"=", "!="}, NEW v \in Tristates
    PROVE  /\ ReadWell(Comparison(s, op, v))
           /\ Comparison(s, op, v) \in Expressions
  <1> DEFINE t == <<s, op, v>>
             Brackets == {"(", ")", "!"}
  <1>1. s \in Tokens \ Brackets /\ op \in Tokens \ Brackets /\ v \in Tokens \ Brackets
    BY SymbolTokens DEF Tokens, Marks, Tristates
  <1>2. op \notin Searched /\ v \notin Searched
    BY SpellingAssumption DEF Searched, Marks, Tristates
  <1>3. t \in Seq(Tokens) /\ Len(t) = 3 /\ t[1] = s /\ t[2] = op /\ t[3] = v
    BY <1>1
  <1>4. Comparison(s, op, v).tokens = t /\ Comparison(s, op, v).free = {s}
    BY DEF Comparison, Whole
  <1>5. Comparison(s, op, v) \in Expressions
    BY <1>3 DEF Comparison, Whole, Expressions, Tokens
  <1> HIDE DEF t
  <1>6. \A i \in 1 .. Len(t) : t[i] \notin Brackets
    BY <1>1, <1>3
  <1>7. Balanced(t)
    BY <1>3, <1>6 DEF Balanced
  <1>8. \A p \in Stripped(t) : FALSE
    BY <1>6 DEF Stripped, Opens
  <1>9. ~NegatedAt(t, 1)
    BY DEF NegatedAt
  <1>10. Extracted(t) = {s} \cap Searched
    BY <1>2, <1>3, <1>8, <1>9 DEF Extracted
  <1> QED
    BY <1>3, <1>4, <1>5, <1>7, <1>10 DEF ReadWell

LEMMA NegatedAtomReads ==
    ASSUME NEW s \in Symbols
    PROVE  ReadWell(Negated(Atom(s))) /\ Negated(Atom(s)) \in Expressions
  <1> DEFINE u == <<s>>
             t == <<"!">> \o u
  <1>1. s \in Tokens /\ s # "(" /\ s # ")" /\ s # "!"
    BY SymbolTokens
  <1>2. u \in Seq(Tokens) /\ Len(u) = 1 /\ u[1] = s
    BY <1>1
  <1>3. Negated(Atom(s)) = [tokens |-> t, rest |-> <<>>, free |-> {}]
    BY DEF Negated, Atom, Whole
  <1> HIDE DEF u
  <1>4. /\ t \in Seq(Tokens) /\ Len(t) = 2 /\ t[1] = "!" /\ t[2] = s
    <2>1. /\ t \in Seq(Tokens) /\ Len(t) = Len(u) + 1 /\ t[1] = "!"
          /\ \A i \in 1 .. Len(u) : t[1 + i] = u[i]
      BY <1>2, NegatedParts
    <2> HIDE DEF t
    <2>2. t[1 + 1] = u[1]
      BY <1>2, <2>1
    <2> QED
      BY <1>2, <2>1, <2>2
  <1> HIDE DEF t
  <1>5. Negated(Atom(s)) \in Expressions
    BY <1>3, <1>4 DEF Expressions, Tokens
  <1>6. Balanced(t)
    <2>1. \A i \in 1 .. Len(t) : t[i] \notin {"(", ")"}
      BY <1>1, <1>4
    <2> QED
      BY <1>1, <1>4, <2>1 DEF Balanced
  <1>7. NegatedAt(t, 2)
    BY <1>4 DEF NegatedAt
  <1>8. "!" \notin Searched
    BY SpellingAssumption DEF Marks, Searched
  <1>9. Extracted(t) = {}
    <2>1. \A q \in 1 .. Len(t) : ~(t[q] \in Searched /\ ~NegatedAt(t, q))
      BY <1>4, <1>7, <1>8
    <2> QED
      BY <2>1 DEF Extracted
  <1>10. Negated(Atom(s)).tokens = t /\ Negated(Atom(s)).free = {}
    BY <1>3
  <1>11. Len(t) >= 1
    BY <1>4
  <1>12. ReadWell(Negated(Atom(s)))
    BY <1>6, <1>9, <1>10, <1>11 DEF ReadWell
  <1> QED
    BY <1>5, <1>12

LEMMA GroupReads ==
    ASSUME NEW e \in Expressions, ReadWell(e)
    PROVE  ReadWell(Group(e)) /\ Group(e) \in Expressions
  <1> DEFINE u == e.tokens
             t == <<"(">> \o u \o <<")">>
             n == Len(u)
  <1>1. u \in Seq(Tokens) /\ n \in Nat /\ n >= 1 /\ Balanced(u)
    BY DEF Expressions, Tokens, ReadWell
  <1>2. Group(e) = [tokens |-> t, rest |-> <<>>, free |-> e.free] /\ e.free \subseteq Symbols
    BY DEF Group, Whole, Expressions
  <1> HIDE DEF u
  <1>3. /\ t \in Seq(Tokens) /\ Len(t) = n + 2 /\ t[1] = "(" /\ t[n + 2] = ")"
        /\ \A i \in 1 .. n : t[1 + i] = u[i]
    BY <1>1, GroupParts
  <1> HIDE DEF t, n
  <1>4. Group(e) \in Expressions
    BY <1>2, <1>3 DEF Expressions, Tokens
  <1>5. Balanced(t)
    <2>1. t[Len(t)] # "!"
      BY <1>3
    <2>2. ASSUME NEW i \in 1 .. Len(t), t[i] = "("
          PROVE  \E j \in i + 1 .. Len(t) : t[j] = ")"
      <3>1. i # n + 2
        BY <1>3, <2>2
      <3>2. n + 2 \in i + 1 .. Len(t)
        BY <1>1, <1>3, <3>1
      <3> QED
        BY <1>3, <3>2
    <2>3. ASSUME NEW i \in 1 .. Len(t), t[i] = ")"
          PROVE  \E j \in 1 .. i - 1 : t[j] = "("
      <3>1. i # 1
        BY <1>3, <2>3
      <3>2. 1 \in 1 .. i - 1
        BY <1>1, <1>3, <3>1
      <3> QED
        BY <1>3, <3>2
    <2> QED
      BY <2>1, <2>2, <2>3 DEF Balanced
  <1>6. Placed(u, t, 1)
    <2>1. ~Opens(t, 1)
      BY <1>3 DEF Opens
    <2> QED
      BY <1>1, <1>3, <2>1 DEF Placed, n
  <1>7. /\ \A p \in 1 .. n : Found(t, 1 + p) <=> Found(u, p)
        /\ Nested(u) => Nested(t)
    BY <1>1, <1>3, <1>6, PlacedFinds DEF n
  <1>8. "(" \notin Searched /\ ")" \notin Searched
    BY SpellingAssumption DEF Marks, Searched
  <1>9. Extracted(t) = Extracted(u)
    <2>1. ASSUME NEW s \in Extracted(t) PROVE s \in Extracted(u)
      <3>1. PICK p \in 1 .. Len(t) : Found(t, p) /\ t[p] = s
        BY <1>3, ExtractedFound
      <3>2. p # 1 /\ p # n + 2
        BY <1>3, <1>8, <3>1 DEF Found
      <3>3. p - 1 \in 1 .. n /\ 1 + (p - 1) = p
        BY <1>1, <1>3, <3>2
      <3>4. Found(u, p - 1) /\ u[p - 1] = s
        BY <1>3, <1>7, <3>1, <3>3
      <3> QED
        BY <1>1, <3>4, ExtractedFound
    <2>2. ASSUME NEW s \in Extracted(u) PROVE s \in Extracted(t)
      <3>1. PICK p \in 1 .. n : Found(u, p) /\ u[p] = s
        BY <1>1, ExtractedFound DEF n
      <3>2. Found(t, 1 + p) /\ t[1 + p] = s
        BY <1>3, <1>7, <3>1
      <3> QED
        BY <1>3, <3>2, ExtractedFound
    <2> QED
      BY <2>1, <2>2
  <1>10. /\ e.free \cap Searched \subseteq Extracted(u)
         /\ ~Nested(u) => Extracted(u) \subseteq e.free
    BY DEF ReadWell, u
  <1>11. Group(e).tokens = t /\ Group(e).free = e.free
    BY <1>2
  <1>12. Len(t) >= 1
    BY <1>1, <1>3
  <1> QED
    BY <1>4, <1>5, <1>7, <1>9, <1>10, <1>11, <1>12 DEF ReadWell

\* A negated group is stripped whole, unless a group is nested in it.
LEMMA NegatedGroupReads ==
    ASSUME NEW e \in Expressions, ReadWell(e)
    PROVE  ReadWell(Negated(Group(e))) /\ Negated(Group(e)) \in Expressions
  <1> DEFINE u == e.tokens
             g == <<"(">> \o u \o <<")">>
             t == <<"!">> \o g
             n == Len(u)
  <1>1. u \in Seq(Tokens) /\ n \in Nat /\ n >= 1 /\ Balanced(u)
    BY DEF Expressions, Tokens, ReadWell
  <1>2. Negated(Group(e)) = [tokens |-> t, rest |-> <<>>, free |-> {}]
    BY DEF Negated, Group, Whole
  <1> HIDE DEF u
  <1>3. /\ g \in Seq(Tokens) /\ Len(g) = n + 2 /\ g[1] = "(" /\ g[n + 2] = ")"
        /\ \A i \in 1 .. n : g[1 + i] = u[i]
    BY <1>1, GroupParts
  <1> HIDE DEF g, n
  <1>4. /\ t \in Seq(Tokens) /\ Len(t) = n + 3 /\ t[1] = "!" /\ t[2] = "(" /\ t[n + 3] = ")"
        /\ \A i \in 1 .. n : t[2 + i] = u[i]
    <2>1. /\ t \in Seq(Tokens) /\ Len(t) = Len(g) + 1 /\ t[1] = "!"
          /\ \A i \in 1 .. Len(g) : t[1 + i] = g[i]
      BY <1>3, NegatedParts
    <2> HIDE DEF t
    <2>2. t[1 + 1] = g[1] /\ t[1 + (n + 2)] = g[n + 2]
      BY <1>1, <1>3, <2>1
    <2>3. ASSUME NEW i \in 1 .. n PROVE t[2 + i] = u[i]
      <3>1. 1 + i \in 1 .. Len(g) /\ 1 + (1 + i) = 2 + i
        BY <1>1, <1>3
      <3> QED
        BY <1>3, <2>1, <3>1
    <2>4. 1 + (n + 2) = n + 3 /\ n + 2 + 1 = n + 3
      BY <1>1
    <2> QED
      BY <1>3, <2>1, <2>2, <2>3, <2>4
  <1> HIDE DEF t
  <1>5. Negated(Group(e)) \in Expressions
    BY <1>2, <1>4 DEF Expressions, Tokens
  <1>6. Balanced(t)
    <2>1. t[Len(t)] # "!"
      BY <1>4
    <2>2. ASSUME NEW i \in 1 .. Len(t), t[i] = "("
          PROVE  \E j \in i + 1 .. Len(t) : t[j] = ")"
      <3>1. i # n + 3
        BY <1>4, <2>2
      <3>2. n + 3 \in i + 1 .. Len(t)
        BY <1>1, <1>4, <3>1
      <3> QED
        BY <1>4, <3>2
    <2>3. ASSUME NEW i \in 1 .. Len(t), t[i] = ")"
          PROVE  \E j \in 1 .. i - 1 : t[j] = "("
      <3>1. i # 1 /\ i # 2
        BY <1>4, <2>3
      <3>2. 2 \in 1 .. i - 1
        BY <1>1, <1>4, <3>1
      <3> QED
        BY <1>4, <3>2
    <2> QED
      BY <2>1, <2>2, <2>3 DEF Balanced
  <1>7. ASSUME ~Nested(t) PROVE Extracted(t) = {}
    <2>1. \A i \in 1 .. n : u[i] \notin {"(", ")"}
      <3> DEFINE T == {i \in 1 .. n : u[i] = "("}
      <3>1. T = {}
        <4> SUFFICES ASSUME T # {} PROVE FALSE
          OBVIOUS
        <4>1. T \in SUBSET Nat
          OBVIOUS
        <4> HIDE DEF T
        <4>2. PICK k \in T : \A i \in T : k <= i
          BY <4>1, LeastNumber
        <4>3. k \in 1 .. n /\ u[k] = "("
          BY DEF T
        <4>4. ASSUME NEW l \in 1 .. k, u[l] = ")" PROVE FALSE
          <5>1. l \in 1 .. n
            BY <1>1, <4>3
          <5>2. PICK j \in 1 .. l - 1 : u[j] = "("
            BY <1>1, <4>4, <5>1 DEF Balanced, n
          <5>3. j \in T /\ j < k
            BY <1>1, <4>3, <5>1, <5>2 DEF T
          <5> QED
            BY <4>2, <4>3, <5>3
        <4>5. ASSUME NEW l \in 1 .. 2 + k PROVE t[l] # ")"
          <5>1. CASE l \in {1, 2}
            BY <1>4, <5>1
          <5>2. CASE l \notin {1, 2}
            <6>1. l - 2 \in 1 .. k /\ l - 2 \in 1 .. n /\ 2 + (l - 2) = l
              BY <1>1, <4>3, <5>2
            <6> QED
              BY <1>4, <4>4, <6>1
          <5> QED
            BY <5>1, <5>2
        <4>6. Opens(t, 1) /\ 1 + 1 < 2 + k /\ t[2 + k] = "(" /\ 2 + k \in 1 .. Len(t)
              /\ 1 \in 1 .. Len(t)
          BY <1>1, <1>4, <4>3 DEF Opens
        <4> QED
          BY <1>7, <4>5, <4>6 DEF Nested
      <3>2. ASSUME NEW i \in 1 .. n, u[i] = ")" PROVE FALSE
        <4>1. PICK j \in 1 .. i - 1 : u[j] = "("
          BY <1>1, <3>2 DEF Balanced, n
        <4>2. j \in T
          BY <1>1, <4>1
        <4> QED
          BY <3>1, <4>2
      <3> QED
        BY <3>1, <3>2
    <2>2. \A l \in 1 .. n + 2 : t[l] # ")"
      <3> SUFFICES ASSUME NEW l \in 1 .. n + 2 PROVE t[l] # ")"
        OBVIOUS
      <3>1. CASE l \in {1, 2}
        BY <1>4, <3>1
      <3>2. CASE l \notin {1, 2}
        <4>1. l - 2 \in 1 .. n /\ 2 + (l - 2) = l
          BY <1>1, <3>2
        <4> QED
          BY <1>4, <2>1, <4>1
      <3> QED
        BY <3>1, <3>2
    <2>3. Opens(t, 1) /\ Closes(t, 1, n + 3)
      BY <1>1, <1>4, <2>2 DEF Opens, Closes
    <2>4. \A p \in 1 .. Len(t) : p \in Stripped(t)
      BY <1>1, <1>4, <2>3 DEF Stripped
    <2> QED
      BY <2>4 DEF Extracted
  <1>8. Len(t) >= 1
    BY <1>1, <1>4
  <1>9. Negated(Group(e)).tokens = t /\ Negated(Group(e)).free = {}
    BY <1>2
  <1> QED
    BY <1>5, <1>6, <1>7, <1>8, <1>9 DEF ReadWell

LEMMA BinaryReads ==
    ASSUME NEW d \in Expressions, ReadWell(d), NEW e \in Expressions, ReadWell(e),
           NEW op \in {"&&", "||"}
    PROVE  ReadWell(Binary(d, op, e)) /\ Binary(d, op, e) \in Expressions
  <1> DEFINE u == d.tokens
             v == e.tokens
             t == u \o <<op>> \o v
             n == Len(u)
             m == n + 1
  <1>1. /\ u \in Seq(Tokens) /\ n \in Nat /\ n >= 1 /\ Balanced(u)
        /\ v \in Seq(Tokens) /\ Len(v) \in Nat /\ Len(v) >= 1 /\ Balanced(v)
    BY DEF Expressions, Tokens, ReadWell
  <1>2. Binary(d, op, e) = [tokens |-> t, rest |-> <<>>, free |-> d.free \cup e.free]
    BY DEF Binary, Whole
  <1>3. op \in Tokens /\ op \notin Searched
    BY SpellingAssumption DEF Tokens, Marks, Searched
  <1>4. d.free \subseteq Symbols /\ e.free \subseteq Symbols
    BY DEF Expressions
  <1> HIDE DEF u, v
  <1>5. /\ t \in Seq(Tokens) /\ Len(t) = m + Len(v)
        /\ \A i \in 1 .. n : t[i] = u[i]
        /\ t[m] = op
        /\ \A i \in 1 .. Len(v) : t[m + i] = v[i]
    BY <1>1, <1>3, BinaryParts
  <1> HIDE DEF t, n
  <1>6. Binary(d, op, e) \in Expressions
    BY <1>2, <1>4, <1>5 DEF Expressions, Tokens
  <1>7. ASSUME NEW p \in 1 .. Len(t), p # m
        PROVE  p \in 1 .. n \/ (p - m \in 1 .. Len(v) /\ m + (p - m) = p)
    BY <1>1, <1>5, <1>7
  <1>8. Balanced(t)
    <2>1. t[Len(t)] # "!"
      BY <1>1, <1>5 DEF Balanced
    <2>2. ASSUME NEW i \in 1 .. Len(t), t[i] = "("
          PROVE  \E j \in i + 1 .. Len(t) : t[j] = ")"
      <3>0. i # m
        BY <1>5, <2>2
      <3>1. CASE i \in 1 .. n
        <4>1. PICK j \in i + 1 .. n : u[j] = ")"
          BY <1>1, <1>5, <2>2, <3>1 DEF Balanced, n
        <4>2. j \in i + 1 .. Len(t) /\ t[j] = ")"
          BY <1>1, <1>5, <3>1, <4>1
        <4> QED
          BY <4>2
      <3>2. CASE i - m \in 1 .. Len(v) /\ m + (i - m) = i
        <4>1. v[i - m] = "("
          BY <1>5, <2>2, <3>2
        <4>2. PICK j \in i - m + 1 .. Len(v) : v[j] = ")"
          BY <1>1, <3>2, <4>1 DEF Balanced
        <4>3. m + j \in i + 1 .. Len(t) /\ j \in 1 .. Len(v)
          BY <1>1, <1>5, <3>2, <4>2
        <4> QED
          BY <1>5, <4>2, <4>3
      <3> QED
        BY <1>7, <3>0, <3>1, <3>2
    <2>3. ASSUME NEW i \in 1 .. Len(t), t[i] = ")"
          PROVE  \E j \in 1 .. i - 1 : t[j] = "("
      <3>0. i # m
        BY <1>5, <2>3
      <3>1. CASE i \in 1 .. n
        <4>1. PICK j \in 1 .. i - 1 : u[j] = "("
          BY <1>1, <1>5, <2>3, <3>1 DEF Balanced, n
        <4>2. t[j] = "("
          BY <1>1, <1>5, <3>1, <4>1
        <4> QED
          BY <4>1, <4>2
      <3>2. CASE i - m \in 1 .. Len(v) /\ m + (i - m) = i
        <4>1. v[i - m] = ")"
          BY <1>5, <2>3, <3>2
        <4>2. PICK j \in 1 .. i - m - 1 : v[j] = "("
          BY <1>1, <3>2, <4>1 DEF Balanced
        <4>3. m + j \in 1 .. i - 1 /\ j \in 1 .. Len(v)
          BY <1>1, <1>5, <3>2, <4>2
        <4> QED
          BY <1>5, <4>2, <4>3
      <3> QED
        BY <1>7, <3>0, <3>1, <3>2
    <2> QED
      BY <2>1, <2>2, <2>3 DEF Balanced
  <1>9. Placed(u, t, 0)
    BY <1>1, <1>5 DEF Placed, n
  <1>10. /\ \A p \in 1 .. n : Found(t, p) <=> Found(u, p)
         /\ Nested(u) => Nested(t)
         /\ \A j \in 1 .. n, k \in 1 .. Len(t) : Opens(t, j) /\ Closes(t, j, k) => k <= n
    <2>1. /\ \A p \in 1 .. Len(u) : Found(t, 0 + p) <=> Found(u, p)
          /\ Nested(u) => Nested(t)
          /\ \A j \in 1 .. 0 + Len(u), k \in 1 .. Len(t) :
                Opens(t, j) /\ Closes(t, j, k) => k <= 0 + Len(u)
      BY <1>1, <1>5, <1>9, PlacedFinds
    <2>2. 0 + Len(u) = n /\ Len(u) = n /\ \A p \in 1 .. n : 0 + p = p
      BY <1>1 DEF n
    <2> QED
      BY <2>1, <2>2
  <1>11. Placed(v, t, m)
    <2>1. ASSUME NEW j \in 1 .. m, NEW k \in 1 .. Len(t), Opens(t, j), Closes(t, j, k)
          PROVE  k <= m
      <3>1. j # m
        BY <1>5, <2>1 DEF Opens
      <3>2. j \in 1 .. n
        BY <1>1, <3>1
      <3>3. k <= n
        BY <1>10, <2>1, <3>2
      <3> QED
        BY <1>1, <3>3
    <2> QED
      BY <1>1, <1>5, <2>1 DEF Placed
  <1>12. /\ \A p \in 1 .. Len(v) : Found(t, m + p) <=> Found(v, p)
         /\ Nested(v) => Nested(t)
    BY <1>1, <1>5, <1>11, PlacedFinds
  <1>13. Extracted(t) = Extracted(u) \cup Extracted(v)
    <2>1. ASSUME NEW s \in Extracted(t) PROVE s \in Extracted(u) \cup Extracted(v)
      <3>1. PICK p \in 1 .. Len(t) : Found(t, p) /\ t[p] = s
        BY <1>5, ExtractedFound
      <3>2. p # m
        BY <1>3, <1>5, <3>1 DEF Found
      <3>3. CASE p \in 1 .. n
        BY <1>1, <1>5, <1>10, <3>1, <3>3, ExtractedFound
      <3>4. CASE p - m \in 1 .. Len(v) /\ m + (p - m) = p
        <4>1. Found(v, p - m) /\ v[p - m] = s
          BY <1>5, <1>12, <3>1, <3>4
        <4> QED
          BY <1>1, <4>1, ExtractedFound
      <3> QED
        BY <1>7, <3>2, <3>3, <3>4
    <2>2. ASSUME NEW s \in Extracted(u) PROVE s \in Extracted(t)
      <3>1. PICK p \in 1 .. n : Found(u, p) /\ u[p] = s
        BY <1>1, <2>2, ExtractedFound DEF n
      <3> QED
        BY <1>5, <1>10, <3>1, ExtractedFound
    <2>3. ASSUME NEW s \in Extracted(v) PROVE s \in Extracted(t)
      <3>1. PICK p \in 1 .. Len(v) : Found(v, p) /\ v[p] = s
        BY <1>1, <2>3, ExtractedFound
      <3>2. Found(t, m + p) /\ t[m + p] = s
        BY <1>5, <1>12, <3>1
      <3> QED
        BY <1>5, <3>2, ExtractedFound
    <2> QED
      BY <2>1, <2>2, <2>3
  <1>14. /\ d.free \cap Searched \subseteq Extracted(u) /\ (~Nested(u) => Extracted(u) \subseteq d.free)
         /\ e.free \cap Searched \subseteq Extracted(v) /\ (~Nested(v) => Extracted(v) \subseteq e.free)
    BY DEF ReadWell, u, v
  <1>15. Binary(d, op, e).tokens = t /\ Binary(d, op, e).free = d.free \cup e.free
    BY <1>2
  <1>16. Len(t) >= 1
    BY <1>1, <1>5
  <1> QED
    BY <1>6, <1>8, <1>10, <1>12, <1>13, <1>14, <1>15, <1>16 DEF ReadWell

\* So every well-formed expression is.
LEMMA WellFormedReads ==
    ASSUME NEW e, WellFormed(e)
    PROVE  ReadWell(e)
  <1> DEFINE set == {d \in Expressions : ReadWell(d)}
  <1>1. FollowsGrammar(set)
    BY AtomReads, ComparisonReads, NegatedAtomReads, GroupReads, NegatedGroupReads,
       BinaryReads DEF FollowsGrammar
  <1> HIDE DEF set
  <1>2. set \in SUBSET Expressions
    BY DEF set
  <1>3. e \in set
    BY <1>1, <1>2 DEF WellFormed
  <1> QED
    BY <1>3 DEF set

\* The grammar's own expressions are well formed, so that there is something
\* to read.
LEMMA GrammarFormed == FollowsGrammar({e \in Expressions : WellFormed(e)})
  <1> DEFINE formed == {e \in Expressions : WellFormed(e)}
  <1>1. ASSUME NEW s \in Symbols PROVE Atom(s) \in formed /\ Negated(Atom(s)) \in formed
    <2>1. Atom(s) \in Expressions /\ Negated(Atom(s)) \in Expressions
      BY AtomReads, NegatedAtomReads
    <2> QED
      BY <2>1 DEF WellFormed, FollowsGrammar
  <1>2. ASSUME NEW s \in Symbols, NEW op \in {"=", "!="}, NEW v \in Tristates
        PROVE  Comparison(s, op, v) \in formed
    <2>1. Comparison(s, op, v) \in Expressions
      BY ComparisonReads
    <2> QED
      BY <2>1 DEF WellFormed, FollowsGrammar
  <1>3. ASSUME NEW e \in formed PROVE Group(e) \in formed /\ Negated(Group(e)) \in formed
    <2>1. Group(e) \in Expressions /\ Negated(Group(e)) \in Expressions
      BY WellFormedReads, GroupReads, NegatedGroupReads
    <2> QED
      BY <2>1 DEF WellFormed, FollowsGrammar
  <1>4. ASSUME NEW d \in formed, NEW e \in formed, NEW op \in {"&&", "||"}
        PROVE  Binary(d, op, e) \in formed
    <2>1. Binary(d, op, e) \in Expressions
      BY WellFormedReads, BinaryReads
    <2> QED
      BY <2>1 DEF WellFormed, FollowsGrammar
  <1> QED
    BY <1>1, <1>2, <1>3, <1>4 DEF FollowsGrammar

\* Every `depends on' text is an expression, or the first line of one: what
\* a help text with these words holds, too.
FormedLines(lines) ==
    \A k \in 1 .. Len(lines) :
        Reads(lines[k]) /\ lines[k].what = "depends" =>
            WellFormed(lines[k].arg) \/ lines[k].arg.rest # <<>>

FormedInv == \A path \in DOMAIN tree : FormedLines(tree[path])

\* What is parsed of formed lines is read well.
LEMMA LoadReads == LoadInv /\ FormedInv => DependsRead
  <1> SUFFICES ASSUME LoadInv, FormedInv, phase = "resolve", tree # NoTree,
                      NEW s \in DOMAIN parsed
               PROVE  LET exprs == parsed[s].depends
                          whole == {e \in exprs : e.rest = <<>>}
                      IN  /\ Free(whole) \cap Searched \subseteq db[s].depends
                          /\ whole = exprs /\ (\A e \in exprs : ~Nested(e.tokens)) =>
                                 db[s].depends \subseteq Free(exprs)
    BY DEF DependsRead
  <1> DEFINE exprs == parsed[s].depends
             whole == {e \in exprs : e.rest = <<>>}
  <1>1. LoadTypeOK /\ EntriesInv /\ db = Database(parsed)
    BY DEF LoadInv, DatabaseInv
  <1>2. PICK path \in visited :
            \E k \in Headers(tree[path], s) : parsed[s] = Entry(tree[path], k)
    BY <1>1 DEF EntriesInv
  <1>3. PICK k \in Headers(tree[path], s) : parsed[s] = Entry(tree[path], k)
    BY <1>2
  <1>4. path \in DOMAIN tree /\ tree[path] \in Seq(Lines) /\ k \in 1 .. Len(tree[path])
    BY <1>1 DEF LoadTypeOK, Headers
  <1>5. ASSUME NEW e \in whole PROVE ReadWell(e)
    <2>1. PICK j \in Given(tree[path], k, "depends") : e = tree[path][j].arg
      BY <1>3 DEF Entry
    <2>2. j \in k + 1 .. Len(tree[path])
      BY <1>4, GivenWithin
    <2>3. j \in 1 .. Len(tree[path]) /\ Reads(tree[path][j]) /\ tree[path][j].what = "depends"
      BY <1>4, <2>2 DEF Given
    <2>4. WellFormed(e)
      BY <1>4, <2>1, <2>3 DEF FormedInv, FormedLines
    <2> QED
      BY <2>4, WellFormedReads
  <1>6. db[s].depends = UNION {Extracted(e.tokens) : e \in exprs}
    <2>1. s \in Symbols /\ parsed[s] \in EntryRecords
      BY <1>1, <1>3, <1>4, EntryShape DEF EntriesInv
    <2>2. db[s] = [parsed[s] EXCEPT !.depends = DependsSymbols(parsed[s].depends)]
      BY <1>1, <2>1 DEF Database
    <2>3. db[s].depends = DependsSymbols(parsed[s].depends)
      BY <2>1, <2>2 DEF EntryRecords
    <2> QED
      BY <2>3 DEF DependsSymbols
  <1>7. whole \subseteq exprs
    OBVIOUS
  <1> HIDE DEF exprs, whole
  <1>8. Free(whole) \cap Searched \subseteq db[s].depends
    <2>1. \A e \in whole : e.free \cap Searched \subseteq Extracted(e.tokens)
      BY <1>5 DEF ReadWell
    <2> QED
      BY <1>6, <1>7, <2>1 DEF Free
  <1>9. ASSUME whole = exprs, \A e \in exprs : ~Nested(e.tokens)
        PROVE  db[s].depends \subseteq Free(exprs)
    <2>1. \A e \in exprs : Extracted(e.tokens) \subseteq e.free
      BY <1>5, <1>9 DEF ReadWell
    <2> QED
      BY <1>6, <2>1 DEF Free
  <1> QED
    BY <1>8, <1>9 DEF exprs, whole

\* If every `depends on' text of the trees that stands on one line is an
\* expression of the grammar, however deep, no symbol outside the negated
\* parts of these is lost whose name the pattern knows; and if all of an
\* entry's do, without nested groups, no other gets in (kconfig.py 25, 37-47,
\* 132).
THEOREM DependsAreRead ==
    ASSUME \A in \in Inputs : \A path \in DOMAIN in.tree : FormedLines(in.tree[path])
    PROVE  LoadSpec => []DependsRead
  <1>1. LoadInit => FormedInv
    <2> SUFFICES ASSUME LoadInit PROVE FormedInv
      OBVIOUS
    <2>1. CASE tree = NoTree
      BY <2>1 DEF FormedInv, NoTree
    <2>2. CASE \E in \in Inputs : tree = in.tree
      BY <2>2 DEF FormedInv
    <2> QED
      BY <2>1, <2>2 DEF LoadInit
  <1>2. FormedInv /\ [LoadNext]_loadVars => FormedInv'
    <2> SUFFICES ASSUME FormedInv, [LoadNext]_loadVars PROVE FormedInv'
      OBVIOUS
    <2>1. tree' = tree
      BY DEF LoadNext, FollowSource, ParseEntries, Loaded, Resolve, loadVars
    <2> QED
      BY <2>1 DEF FormedInv
  <1> QED
    BY <1>1, <1>2, LoadInvariant, LoadReads, PTL DEF LoadSpec
=============================================================================
