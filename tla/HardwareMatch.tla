---------------------------- MODULE HardwareMatch ----------------------------
(***************************************************************************)
(* From the saved devices to CONFIG symbols: what KernelConfigStep makes   *)
(* of a device in the state file, the device tables found in kernel        *)
(* sources, matching, and the lookup in the Makefiles' obj- lines.         *)
(*                                                                         *)
(* An alias string is a record with one field for each of its labelled     *)
(* parts; the labels are in lower case, the numbers in upper case, so that *)
(* fnmatch compares part with part.  Left out are the parts that no        *)
(* pattern ever fixes (bcdDevice, device subclass and protocol).           *)
(***************************************************************************)
EXTENDS Naturals, Sequences

CONSTANTS
    Files,           \* C files with a MODULE_DEVICE_TABLE
    ObjLines,        \* obj- lines of Makefiles: [config, targets], the names
                     \* without suffix; config "" stands for obj-y
    SameButHyphens,  \* pairs of names that differ in - and _ only
    Prefixes         \* pairs of names one of which begins with the other

AnyId    == "FFFF"      \* pci.py's _PCI_ANY_ID, and the USB ids' default
AnyPciId == "FFFFFFFF"  \* matchers.py's _PCI_ANY_ID
AnyClass == "FF"        \* the default of the USB classes
ZeroClass == [bc |-> "00", sc |-> "00", i |-> "00"]
ZeroIface == [ic |-> "00", isc |-> "00", ip |-> "00"]
AnyIface  == [ic |-> AnyClass, isc |-> AnyClass, ip |-> AnyClass]
-----------------------------------------------------------------------------
(* What the state file has of a device, and its alias.                     *)

\* _rebuild_devices, and the alias of what it returns: the subsystem is not
\* saved, nor is the interface of a USB device.
PciAlias(s) == [bus |-> "pci", v |-> s.vendor, d |-> s.device, sub |-> AnyId,
                bc |-> s.cls.bc, sc |-> s.cls.sc, i |-> s.cls.i]
UsbAlias(s) == [bus |-> "usb", v |-> s.vendor, p |-> s.product, dc |-> s.dev_class,
                ic |-> ZeroIface.ic, isc |-> ZeroIface.isc, ip |-> ZeroIface.ip]
-----------------------------------------------------------------------------
(* The source index.                                                       *)

Wild(value, any) == IF value = any THEN "*" ELSE value

\* Faulty form: the device id is left to a wildcard.
PciPattern_VendorOnly(vendor, device, cls, mask) ==
    [bus |-> "pci", v |-> Wild(vendor, AnyPciId), d |-> "*", sub |-> "*",
     bc |-> "*", sc |-> "*", i |-> "*"]

\* _pci_alias; `mask' is the set of the parts that cls_mask covers.
PciPattern(vendor, device, cls, mask) ==
    LET part(f) == IF cls # ZeroClass /\ f \in mask THEN cls[f] ELSE "*"
    IN  [bus |-> "pci", v |-> Wild(vendor, AnyPciId),
         d |-> Wild(device, AnyPciId), sub |-> "*",
         bc |-> part("bc"), sc |-> part("sc"), i |-> part("i")]

\* _usb_alias.
UsbPattern(vendor, product, iface) ==
    [bus |-> "usb", v |-> Wild(vendor, AnyId), p |-> Wild(product, AnyId),
     dc  |-> "*", ic |-> Wild(iface.ic, AnyClass),
     isc |-> Wild(iface.isc, AnyClass), ip |-> Wild(iface.ip, AnyClass)]

\* _VENDOR_NAMES.
VendorNames ==
    [INTEL |-> "8086", AMD |-> "1022", NVIDIA |-> "10DE", BROADCOM |-> "14E4",
     REALTEK |-> "10EC", MARVELL |-> "11AB", ATHEROS |-> "168C", QUALCOMM |-> "17CB",
     SAMSUNG |-> "144D", SANDISK |-> "15B7", WESTERN_DIGITAL |-> "1B96",
     SEAGATE |-> "1BB1", TOSHIBA |-> "1179", MICRON |-> "1344", REDHAT |-> "1AF4",
     VIRTIO |-> "1AF4", VMWARE |-> "15AD", QEMU |-> "1234", XEN |-> "5853",
     MELLANOX |-> "15B3", CHELSIO |-> "1425", SOLARFLARE |-> "1924",
     NETRONOME |-> "19EE", CAVIUM |-> "177D"]
KnownVendor(name) == name \in DOMAIN VendorNames

Macros == [pci  |-> {"PCI_DEVICE", "PCI_VDEVICE", "PCI_DEVICE_CLASS"},
           usb  |-> {"USB_DEVICE", "USB_INTERFACE_INFO", "USB_DEVICE_AND_INTERFACE_INFO"},
           acpi |-> {"STRING"}, platform |-> {"STRING"}, i2c |-> {"STRING"},
           spi  |-> {"STRING"}, of |-> {"COMPATIBLE"}]

\* What the extractors make of one entry of a device table, in so far as its
\* macro has numbers for arguments.  No device has an alias of another bus
\* than PCI and USB.
Pattern(e) ==
    CASE e.macro = "PCI_DEVICE"  -> PciPattern(e.vendor, e.device, ZeroClass, {})
      [] e.macro = "PCI_VDEVICE" ->
            PciPattern(IF KnownVendor(e.name) THEN VendorNames[e.name] ELSE AnyPciId,
                       e.device, ZeroClass, {})
      [] e.macro = "PCI_DEVICE_CLASS" -> PciPattern(AnyPciId, AnyPciId, e.cls, e.mask)
      [] e.macro = "USB_DEVICE" -> UsbPattern(e.vendor, e.product, AnyIface)
      [] e.macro = "USB_INTERFACE_INFO" -> UsbPattern(AnyId, AnyId, e.iface)
      [] e.macro = "USB_DEVICE_AND_INTERFACE_INFO" ->
            UsbPattern(e.vendor, e.product, e.iface)
      [] e.macro \in {"STRING", "COMPATIBLE"} -> [bus |-> "other", id |-> e.id]

\* What is known of an entry: PCI ids have 16 bits, a class is three numbers,
\* and the kernel means by a vendor's name what the table says.
ASSUME EntryAssumption ==
    \A file \in Files : \A e \in file.entries :
        /\ e.macro \in {"PCI_DEVICE", "PCI_VDEVICE"} =>
              {e.vendor, e.device} \cap {"*", AnyPciId} = {}
        /\ e.macro = "PCI_VDEVICE" /\ KnownVendor(e.name) => e.vendor = VendorNames[e.name]
        /\ e.macro = "PCI_DEVICE_CLASS" =>
              e.mask \subseteq {"bc", "sc", "i"} /\ \A f \in e.mask : e.cls[f] # "*"
        /\ e.macro \in {"USB_DEVICE", "USB_DEVICE_AND_INTERFACE_INFO"} =>
              "*" \notin {e.vendor, e.product}
        /\ e.macro \in {"USB_INTERFACE_INFO", "USB_DEVICE_AND_INTERFACE_INFO"} =>
              e.iface \in [{"ic", "isc", "ip"} -> STRING \ {"*"}]

\* _module_from_path: a stem is written as two parts, so that it can end in
\* one of these.
ModuleSuffixes == {"_main", "_core", "_drv", "_pci", "_base"}
Module(stem) == IF stem[2] \in ModuleSuffixes THEN stem[1] ELSE stem[1] \o stem[2]

\* _scan_c_file: all entries of the kind a bus's extractor looks for, from
\* whatever table of the file, once the file declares a table for that bus.
Extracted(file) == {e \in file.entries :
                        \E bus \in file.tables \cap DOMAIN Macros :
                            e.macro \in Macros[bus]}

\* SourceIndex.match on one entry.
Matches(alias, pattern) == /\ alias.bus = pattern.bus
                           /\ \A f \in DOMAIN alias : pattern[f] \in {"*", alias[f]}

\* The files of the entries that match one of the aliases.
MatchedBy(alias) == {file \in Files : \E e \in Extracted(file) :
                                          Matches(alias, Pattern(e))}
MatchedFiles(aliases) == UNION {MatchedBy(alias) : alias \in aliases}

\* Of an obj- line the first name only is taken.
Named(name) == {l \in ObjLines : l.config # "" /\ l.targets[1] = name}
ObjConfigs == [name \in {l.targets[1] : l \in {k \in ObjLines : k.config # ""}} |->
                  {l.config : l \in Named(name)}]

\* MakefileDB.get_configs: the name, or the same with other hyphens, or the
\* first in the dictionary's order of which one is a prefix of the other.
Key(module, order) ==
    LET same == {k \in DOMAIN ObjConfigs : <<module, k>> \in SameButHyphens}
        near == {i \in 1 .. Len(order) : <<module, order[i]>> \in Prefixes}
    IN  IF module \in DOMAIN ObjConfigs THEN {module}
        ELSE IF same # {} THEN same
        ELSE {order[i] : i \in {j \in near : \A k \in near : j <= k}}

GetConfigs(module, order) == UNION {ObjConfigs[k] : k \in Key(module, order)}
=============================================================================
