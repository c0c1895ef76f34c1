---------------------------- MODULE HardwareDetect ----------------------------
(***************************************************************************)
(* HardwareDetectStep.execute (s01_hardware.py): the scan of the PCI       *)
(* configuration space through the address and the data port, the          *)
(* descriptors of the USB devices, the ACPI tables in physical memory, the *)
(* device tree, a token at a time, and what is saved of all that.          *)
(*                                                                         *)
(* Each port takes a system call of its own (pci.py 95-101), and the       *)
(* kernel reads configuration space through the same two ports.            *)
(***************************************************************************)
EXTENDS FdtParse
LOCAL INSTANCE SequencesExt

CONSTANTS
    Machines,  \* the machines in question
    Slots,     \* the slots that scan() goes through, in its order
    LastFn     \* the last function of a slot: 7 in the code

ASSUME DetectAssumption ==
    /\ LastFn \in Nat /\ Slots \in Seq(STRING) /\ Slots # <<>>
    /\ \A i, j \in 1 .. Len(Slots) : Slots[i] = Slots[j] => i = j

\* Devices are where scan() looks, one in a place, and answer with an id.
ASSUME DeviceAssumption ==
    \A m \in Machines : \A d \in m.pci :
        /\ d.slot \in {Slots[k] : k \in 1 .. Len(Slots)} /\ d.fn \in 0 .. LastFn
        /\ d.vendor # "FFFF"
        /\ d.header \in [multi : BOOLEAN, bridge : BOOLEAN]
        /\ \A x \in m.pci : x.slot = d.slot /\ x.fn = d.fn => x = d

\* Files that can be used have a tree in them.
ASSUME TreeAssumption ==
    \A m \in Machines :
        /\ Len(m.dtbs) \in Nat
        /\ \A f \in Taken(m.dtbs) :
              Len(f.tree) \in Nat \ {0} /\ f.tree \in Trees(Len(f.tree))

VARIABLES
    machine,   \* what is there
    at,        \* control point
    address,   \* the register that the address port selects
    place,     \* slot, as its number in Slots, and function being read
    got,       \* what has been read of that function
    found,     \* devices
    access,    \* what could be opened: /dev/port, device files, /dev/mem
    traffic,   \* accesses of the kernel to come (bound)
    disturbed, \* slots during whose reading the kernel has had one
    offset,    \* of the token of the device tree to be read next
    walk,      \* what the walk over it has collected
    hardware   \* state.config["hardware"]

treeVars == <<offset, walk>>
detectVars == <<machine, at, address, place, got, found, access, traffic,
                disturbed, treeVars, hardware>>

Register(slot, fn, dword) == [slot |-> slot, fn |-> fn, dword |-> dword]
Elsewhere == Register("elsewhere", 0, "id")

NoHardware == [pci |-> {}, usb |-> {}, acpi |-> [has_acpi |-> FALSE, tables |-> {}],
               dt |-> {}]

DetectInit ==
    /\ machine \in Machines
    /\ traffic = machine.traffic
    /\ at = "open" /\ address = Elsewhere
    /\ place = [slot |-> 1, fn |-> 0] /\ got = <<>> /\ found = {}
    /\ access = [port |-> FALSE, usb |-> {}, mem |-> FALSE]
    /\ disturbed = {} /\ hardware = NoHardware
    /\ offset = [node |-> 1, token |-> 1] /\ walk = NoWalk
-----------------------------------------------------------------------------
(* PCIScanner.scan().                                                      *)

\* The fields in the order they are read, each with a _read32 of its own.
Fields == <<"vendor", "device", "cls", "header", "subvendor", "subdevice">>
Dword == [vendor |-> "id", device |-> "id", cls |-> "class", header |-> "header",
          subvendor |-> "subsystem", subdevice |-> "subsystem"]
Field == Fields[Len(got) + 1]

AllOnes == "FFFF"
Garbage == "garbage"

\* What the data port may answer for a field.  The kernel may have selected
\* the same register of any device; of another register's bits only is it
\* looked at whether they are all ones, and the two of the header.
Answers ==
    LET there == {d \in machine.pci : d.slot = address.slot /\ d.fn = address.fn}
        ones(field) == CASE field = "header" -> [multi |-> TRUE, bridge |-> TRUE]
                         [] field = "cls"    -> [bc |-> "FF", sc |-> "FF", i |-> "FF"]
                         [] OTHER            -> AllOnes
        other(field) == CASE field = "header" -> [multi : BOOLEAN, bridge : BOOLEAN]
                          [] field = "cls" -> {[bc |-> Garbage, sc |-> Garbage, i |-> Garbage]}
                          [] OTHER -> {Garbage}
    IN  IF address.slot = Slots[place.slot] /\ address.dword = Dword[Field]
        THEN IF there = {} THEN {ones(Field)} ELSE {d[Field] : d \in there}
        ELSE other(Field) \cup {ones(Field)} \cup {d[Field] : d \in machine.pci}

OpenPort ==
    /\ at = "open"
    /\ \E port \in BOOLEAN : /\ access' = [access EXCEPT !.port = port]
                             /\ at' = IF port THEN "select" ELSE "usb"
    /\ UNCHANGED <<machine, address, place, got, found, traffic, disturbed, treeVars, hardware>>

SelectRegister ==
    /\ at = "select"
    /\ address' = Register(Slots[place.slot], place.fn, Dword[Field])
    /\ at' = "data"
    /\ UNCHANGED <<machine, place, got, found, access, traffic, disturbed, treeVars, hardware>>

\* Between the two system calls; at any other time it does not matter.
KernelAccess ==
    /\ at = "data" /\ traffic > 0
    /\ traffic' = traffic - 1
    /\ address' = Elsewhere
    /\ disturbed' = disturbed \cup {Slots[place.slot]}
    /\ UNCHANGED <<machine, at, place, got, found, access, treeVars, hardware>>

\* On to the next function, or to the next slot.
MoveOn(leave) ==
    LET next == IF leave \/ place.fn = LastFn THEN [slot |-> place.slot + 1, fn |-> 0]
                ELSE [place EXCEPT !.fn = @ + 1]
    IN  /\ got' = <<>>
        /\ IF next.slot > Len(Slots) THEN at' = "usb" /\ UNCHANGED place
           ELSE at' = "select" /\ place' = next
        /\ UNCHANGED <<machine, address, access, traffic, disturbed, treeVars, hardware>>

\* Faulty form: the first missing function ends the slot.
NoFunction_Leaves ==
    /\ at = "data" /\ Field = "vendor"
    /\ AllOnes \in Answers
    /\ MoveOn(TRUE)
    /\ UNCHANGED found

NoFunction ==
    /\ at = "data" /\ Field = "vendor"
    /\ AllOnes \in Answers
    /\ MoveOn(place.fn = 0)
    /\ UNCHANGED found

\* The subsystem of a bridge is not read.
LastRead(value) == Field = "subdevice" \/ (Field = "header" /\ value.bridge)

ReadField ==
    /\ at = "data"
    /\ \E value \in Answers : /\ ~(Field = "vendor" /\ value = AllOnes) /\ ~LastRead(value)
                              /\ got' = Append(got, value)
    /\ at' = "select"
    /\ UNCHANGED <<machine, address, place, found, access, traffic, disturbed, treeVars, hardware>>

\* Faulty form: every device is taken for one with a single function.
SingleFunction_Always(d) == d.fn = 0
SingleFunction(d) == d.fn = 0 /\ ~d.header.multi

FoundDevice ==
    /\ at = "data"
    /\ \E value \in Answers :
          /\ LastRead(value)
          /\ LET read == Append(got, value) \o (IF Field = "header" THEN <<AllOnes, AllOnes>>
                                                ELSE <<>>)
                 d == [slot |-> Slots[place.slot], fn |-> place.fn, vendor |-> read[1],
                       device |-> read[2], cls |-> read[3], header |-> read[4],
                       subvendor |-> read[5], subdevice |-> read[6]]
             IN  found' = found \cup {d} /\ MoveOn(SingleFunction(d))
-----------------------------------------------------------------------------
(* The other three scans.                                                  *)

\* Any of the devices' files may fail to open or to answer.
ScanUsb ==
    /\ at = "usb"
    /\ \E readable \in SUBSET machine.usb : access' = [access EXCEPT !.usb = readable]
    /\ at' = "acpi"
    /\ UNCHANGED <<machine, address, place, got, found, traffic, disturbed, treeVars, hardware>>

\* A buffer of 255 bytes is walked along the descriptors' lengths.
NoInterface == [ic |-> "00", isc |-> "00", ip |-> "00"]
Offset(config, k) == FoldLeft(LAMBDA sum, d : sum + d.length, 0, SubSeq(config, 1, k - 1))
Reached(config, k) == /\ \A j \in 1 .. k : config[j].length >= 2
                      /\ Offset(config, k) + 9 <= 255
FirstInterface(config) ==
    LET hits == {k \in 1 .. Len(config) : config[k].type = "interface" /\ Reached(config, k)}
    IN  IF hits = {} THEN NoInterface
        ELSE config[CHOOSE k \in hits : \A j \in hits : k <= j].iface

\* A device with descriptors has its interface as the first of that type, and
\* the buffer is long enough for it.
ASSUME DescriptorAssumption ==
    \A m \in Machines : \A d \in m.usb :
        /\ Len(d.config) \in Nat
        /\ d.config # <<>> =>
              \E k \in 1 .. Len(d.config) :
                 /\ d.config[k].type = "interface" /\ d.config[k].iface = d.iface
                 /\ Reached(d.config, k)
                 /\ \A j \in 1 .. k - 1 : d.config[j].type # "interface"

\* The root table, XSDT before RSDT: the tables it lists whose header can be
\* mapped; the first RSDP only, which must have its checksum.
RootTable(fw) == IF fw.revision >= 2 /\ fw.xsdt # <<>> THEN fw.xsdt ELSE fw.rsdt
AcpiInfo(fw, mem) ==
    IF mem /\ fw.rsdp = "good"
    THEN [has_acpi |-> TRUE,
          tables |-> {t.sig : t \in {RootTable(fw)[k] : k \in 1 .. Len(RootTable(fw))}} \ {"unmapped"}]
    ELSE NoHardware.acpi

\* An MCFG that ends within its first record: struct.error.
AcpiRaises(fw) == /\ fw.rsdp = "good"
                  /\ \E k \in 1 .. Len(RootTable(fw)) :
                        RootTable(fw)[k].sig = "MCFG" /\ RootTable(fw)[k].length \in 44 .. 51

ScanAcpi ==
    /\ at = "acpi"
    /\ \E mem \in BOOLEAN :
          /\ access' = [access EXCEPT !.mem = mem]
          /\ at' = IF mem /\ AcpiRaises(machine.acpi) THEN "failed" ELSE "tree"
    /\ UNCHANGED <<machine, address, place, got, found, traffic, disturbed, treeVars, hardware>>

\* The first file that is a blob, as far as its header.
OpenTree ==
    /\ at = "tree"
    /\ \/ Taken(machine.dtbs) = {} /\ at' = "save"
       \/ \E f \in Taken(machine.dtbs) : at' = IF HeaderRaises(f) THEN "failed" ELSE "walk"
    /\ UNCHANGED <<machine, address, place, got, found, access, traffic, disturbed, treeVars,
                   hardware>>

\* The loop of parse_fdt, a token at a time.
WalkTree ==
    /\ at = "walk"
    /\ \E f \in Taken(machine.dtbs) :
          LET t == Token(f.tree, offset)
          IN  /\ t.token # "END" /\ ~TokenRaises(f, t)
              /\ walk' = Walked(walk, t, f.tree)
              /\ offset' = After(f.tree, offset)
    /\ UNCHANGED <<machine, at, address, place, got, found, access, traffic, disturbed, hardware>>

LeaveTree ==
    /\ at = "walk"
    /\ \E f \in Taken(machine.dtbs) :
          LET t == Token(f.tree, offset)
          IN  \/ t.token = "END" /\ at' = "save"
              \/ TokenRaises(f, t) /\ at' = "failed"
    /\ UNCHANGED <<machine, address, place, got, found, access, traffic, disturbed, treeVars,
                   hardware>>

\* The saved aliases have what the other saved fields leave out.
SavePci(d) == [slot |-> d.slot, fn |-> d.fn, vendor |-> d.vendor, device |-> d.device,
               cls |-> d.cls, alias |-> <<d.subvendor, d.subdevice>>]
SaveUsb(d) == [vendor |-> d.vendor, product |-> d.product, dev_class |-> d.dev_class,
               alias |-> FirstInterface(d.config)]

\* Saved first, and refused only then.
SaveHardware ==
    /\ at = "save"
    /\ LET hw == [pci |-> {SavePci(d) : d \in found}, usb |-> {SaveUsb(d) : d \in access.usb},
                  acpi |-> AcpiInfo(machine.acpi, access.mem), dt |-> walk.devices]
       IN  /\ hardware' = hw
           /\ at' = IF hw.pci \cup hw.usb = {} /\ hw.dt = {} /\ ~hw.acpi.has_acpi
                    THEN "refused" ELSE "match"
    /\ UNCHANGED <<machine, address, place, got, found, access, traffic, disturbed, treeVars>>

Detect == \/ OpenPort \/ SelectRegister \/ KernelAccess \/ NoFunction \/ ReadField
          \/ FoundDevice \/ ScanUsb \/ ScanAcpi \/ OpenTree \/ WalkTree \/ LeaveTree
          \/ SaveHardware
-----------------------------------------------------------------------------
\* The function can be found by the rules of PCI: function 0 is there, and
\* has the multi-function bit if there are more.
Conforming(d) == \E zero \in machine.pci : /\ zero.slot = d.slot /\ zero.fn = 0
                                           /\ d.fn = 0 \/ zero.header.multi
Saved == at \in {"match", "generate", "lock", "write", "refused"}

\* The kernel's own accesses can spoil only the slot being read meanwhile:
\* of every other slot, exactly the functions that are there are saved, with
\* their own ids and class, and the subsystem of those that have one; and of
\* USB, the devices that could be read, with their first interface (pci.py
\* 95-147, usb.py 144-233, s01_hardware.py 48-52).
ScanExact ==
    Saved =>
        /\ {s \in hardware.pci : s.slot \notin disturbed}
             = {[slot |-> d.slot, fn |-> d.fn, vendor |-> d.vendor, device |-> d.device,
                 cls |-> d.cls, alias |-> IF d.header.bridge THEN <<AllOnes, AllOnes>>
                                          ELSE <<d.subvendor, d.subdevice>>] :
                   d \in {x \in machine.pci : access.port /\ Conforming(x)
                                              /\ x.slot \notin disturbed}}
        /\ \A d \in access.usb :
              [vendor |-> d.vendor, product |-> d.product, dev_class |-> d.dev_class,
               alias |-> IF d.config = <<>> THEN NoInterface ELSE d.iface] \in hardware.usb

\* Every leaf of the device tree that names what it is compatible with is
\* saved under its own path, and nothing is that is not such a node: the
\* properties of a node are its own, however deep the tree; and nothing where
\* there is no tree (dt.py 82-130, 155-170).  Nodes that have children are
\* lost: the first child's beginning clears them.
DtLeavesFound ==
    Saved => hardware.dt = UNION {Leaves(f.tree) : f \in Taken(machine.dtbs)}
=============================================================================
