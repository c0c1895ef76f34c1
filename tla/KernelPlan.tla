------------------------------ MODULE KernelPlan ------------------------------
(***************************************************************************)
(* What becomes of one machine on the way from HardwareDetectStep          *)
(* (s01_hardware.py) to the .config that KernelConfigStep (s08_kernel.py)  *)
(* writes, with the real tables of generator.py and bootpath.py: detection,*)
(* the saved record, matching, generation and the lock on the boot path.   *)
(*                                                                         *)
(* Dependency resolution, which only adds symbols, is left to              *)
(* KconfigResolve; that the step is run again, to KernelConfig.            *)
(***************************************************************************)
EXTENDS KernelTables, HardwareMatch, HardwareDetect

CONSTANT KeyOrders  \* orders in which directories may list the Makefiles' names

ASSUME MachineAssumption == \A m \in Machines : m.path \in BootPaths

VARIABLES
    symbols,   \* config_symbols
    entries    \* the generator's entries

vars == <<detectVars, symbols, entries>>

Init == DetectInit /\ symbols = {} /\ entries = BaseConfig(FALSE)

DetectStep == Detect /\ UNCHANGED <<symbols, entries>>

\* What the ACPI tables ask for.
AcpiSymbols(hw) ==
    (IF hw.acpi.has_acpi THEN {"ACPI"} ELSE {})
    \cup (IF "HPET" \in hw.acpi.tables THEN {"HPET_TIMER"} ELSE {})
    \cup (IF "APIC" \in hw.acpi.tables THEN {"X86_LOCAL_APIC", "X86_IO_APIC"} ELSE {})
    \cup (IF "MCFG" \in hw.acpi.tables THEN {"PCI_MMCONFIG"} ELSE {})

Aliases(hw) == {PciAlias(s) : s \in hw.pci} \cup {UsbAlias(s) : s \in hw.usb}

\* All but the generator's own state.
Found == <<machine, address, place, got, found, access, traffic, disturbed, treeVars,
           hardware>>

\* The device tree's devices are not looked at.
MatchDevices ==
    /\ at = "match"
    /\ \E order \in KeyOrders :
          symbols' = (UNION {GetConfigs(Module(file.stem), order) :
                                 file \in MatchedFiles(Aliases(hardware))})
                     \cup AcpiSymbols(hardware)
    /\ at' = "generate"
    /\ UNCHANGED <<Found, entries>>

Generate == /\ at = "generate"
            /\ \E value \in {"m", "y"} :
                  entries' = AddMany(BaseConfig(hardware.acpi.has_acpi), symbols, value)
            /\ at' = "lock"
            /\ UNCHANGED <<Found, symbols>>

\* apply_boot_path.
LockPath == /\ at = "lock"
            /\ entries' = AddMany(entries, StaticConfigs(machine.path), "y")
            /\ at' = "write"
            /\ UNCHANGED <<Found, symbols>>

Next == DetectStep \/ MatchDevices \/ Generate \/ LockPath

Spec == Init /\ [][Next]_vars
-----------------------------------------------------------------------------
Value(s) == LET config == Written(entries, Disabled)
            IN  IF s \in DOMAIN config THEN config[s] ELSE "n"
Asked(s) == Value(s) # "n"

\* The kernel's reading of a device table: the entry is for the device.
IsFor(e, d, bus) ==
    \/ bus = "pci" /\ e.macro = "PCI_DEVICE"
       /\ e.vendor = d.vendor /\ e.device = d.device
    \/ bus = "pci" /\ e.macro = "PCI_VDEVICE"
       /\ e.vendor = d.vendor /\ e.device = d.device
    \/ bus = "pci" /\ e.macro = "PCI_DEVICE_CLASS"
       /\ \A f \in e.mask : e.cls[f] = d.cls[f]
    \/ bus = "usb" /\ e.macro = "USB_DEVICE"
       /\ e.vendor = d.vendor /\ e.product = d.product
    \/ bus = "usb" /\ e.macro = "USB_INTERFACE_INFO" /\ e.iface = d.iface
    \/ bus = "usb" /\ e.macro = "USB_DEVICE_AND_INTERFACE_INFO"
       /\ e.vendor = d.vendor /\ e.product = d.product /\ e.iface = d.iface

Present == {<<"pci", d>> : d \in machine.pci} \cup {<<"usb", d>> : d \in machine.usb}
\* The device could be opened, and the kernel did not come in between.
Seen(bus, d) == \/ /\ bus = "pci" /\ access.port /\ Conforming(d)
                   /\ d.slot \notin disturbed
                \/ bus = "usb" /\ d \in access.usb

Interface == {"USB_INTERFACE_INFO", "USB_DEVICE_AND_INTERFACE_INFO"}
\* The driver is an object of its own in the Makefiles, one to a line, and its
\* table is in a file of its name, suffix and hyphens aside, as no other is.
OwnKeys(file) == {k \in DOMAIN ObjConfigs :
                    k = Module(file.stem) \/ <<Module(file.stem), k>> \in SameButHyphens}
Traceable(file) == /\ OwnKeys(file) # {}
                   /\ \A k \in OwnKeys(file) : file.configs \subseteq ObjConfigs[k]

\* Every driver whose table names a device of the machine by its ids or, for
\* PCI, by its class, is asked for: nothing such a table looks at is lost by
\* the scan, by what the state file keeps of a device, or by the patterns
\* (pci.py 111-147, s01_hardware.py 48-53, s08_kernel.py 35-58, 114-120,
\* matchers.py 109-212, 342-372).
DriversFound ==
    at = "write" =>
        \A file \in Files, p \in Present :
            /\ Seen(p[1], p[2]) /\ Traceable(file)
            /\ \E e \in Extracted(file) : e.macro \notin Interface /\ IsFor(e, p[2], p[1])
            => \A s \in file.configs : Asked(s)

\* The pattern says less than the entry: an unknown vendor's name, FF where a
\* number stands, or no class where one is compared.  Every USB device has the
\* interface 0 once it has been saved.
Vague(e) == \/ e.macro = "PCI_VDEVICE" /\ ~KnownVendor(e.name)
            \/ e.macro = "PCI_DEVICE_CLASS" /\ e.cls = ZeroClass
            \/ e.macro \in {"USB_DEVICE", "USB_DEVICE_AND_INTERFACE_INFO"}
               /\ AnyId \in {e.vendor, e.product}
            \/ e.macro \in Interface
               /\ (e.iface = ZeroIface \/ AnyClass \in {e.iface[f] : f \in DOMAIN e.iface})

\* What is asked for on every machine, for the root and by the firmware.
Given == DOMAIN BaseConfig(hardware.acpi.has_acpi) \cup StaticConfigs(machine.path)
         \cup AcpiSymbols(hardware)
\* The symbol of a driver whose table names a device of the machine.
Needed(s) == \E file \in Files, p \in Present :
                /\ s \in file.configs
                /\ \E e \in Extracted(file) : IsFor(e, p[2], p[1])

\* The Makefiles have nothing else than the driver under its file's name.
Unmixed(file) == /\ OwnKeys(file) # {}
                 /\ \A k \in OwnKeys(file) : ObjConfigs[k] \subseteq file.configs
\* Records of slots that the kernel disturbed may say anything.
Misread == {PciAlias(r) : r \in {q \in hardware.pci : q.slot \in disturbed}}
AskedSymbols == {s \in DOMAIN entries : Asked(s)}

\* Every driver asked for is one that a device of the machine needs, unless
\* the table's entry that matched says more than its pattern, or the device
\* was misread, or the driver's file has no name of its own in the Makefiles:
\* no other way leads from a device to a foreign driver, through the patterns,
\* the matching of any alias with any entry, or the lookup (s08_kernel.py
\* 35-58, 114-120, matchers.py 109-212, 342-372).
NothingForeign ==
    at = "write" =>
        \A s \in AskedSymbols \ Given : ~Needed(s) =>
            \E file \in Files, alias \in Aliases(hardware), order \in KeyOrders :
                /\ s \in GetConfigs(Module(file.stem), order)
                /\ \E e \in Extracted(file) :
                      /\ Matches(alias, Pattern(e))
                      /\ Vague(e) \/ alias \in Misread \/ ~Unmixed(file)

\* Matched source files are traced back to their symbols: every driver for a
\* device that was found is asked for, whatever its files are called.
\* README.md 158: `Trace matched source files back to CONFIG_* symbols via
\* Makefile analysis'.  Does not hold: the lookup goes by the name of the
\* file that holds the table, which a driver of several files does not have.
TracedBack ==
    at = "write" =>
        \A file \in MatchedFiles(Aliases(hardware)) : \A s \in file.configs : Asked(s)

\* What the layers of the documented chain need (README.md 165-180 and
\* tests/test_bootpath.py 52-78).
ChainSymbols == [lvm  |-> {"BLK_DEV_DM", "DM_MOD"},
                 luks |-> {"BLK_DEV_DM", "DM_CRYPT", "CRYPTO_AES", "CRYPTO_XTS"},
                 raid |-> {"MD", "MD_RAID1"}]

\* Bus, layers and file system of the root are all built in, in every
\* combination, whatever the hardware asked for and as what (bootpath.py
\* 97-133); and a driver is, for every disk that partitioning may choose where
\* lsblk does not work (s02_partition.py 63).
ChainBuiltIn ==
    at = "write" =>
        LET path == machine.path
            locked == {"BLOCK", "PCI_MSI", FsConfig[path.root_fs]}
                      \cup UNION {ChainSymbols[layer] : layer \in path.layers}
        IN  /\ \A s \in locked : Value(s) = "y"
            /\ path.device \in {"sd", "nvme", "vd", "mmcblk", "hd"} =>
                  \E s \in DeviceConfigs[path.device] \ {"PCI"} : Value(s) = "y"
=============================================================================
