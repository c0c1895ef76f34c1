----------------------------- MODULE MCKernelPlan -----------------------------
(***************************************************************************)
(* KernelPlan on PCs: a chipset slot whose third function is an AHCI       *)
(* controller, a network card, an NVMe disk, a bus with a function 1 only, *)
(* and on USB a serial adapter, a keyboard, a modem and a WLAN stick.      *)
(* Sets of these with one boot path, and some of them with every boot      *)
(* path; two machines with an access of the kernel during the scan; the    *)
(* firmwares' tables; and boards with every small device tree.             *)
(***************************************************************************)
EXTENDS KernelPlan

Function(slot, fn, multi, bridge, vendor, device, cls) ==
    [slot |-> slot, fn |-> fn, header |-> [multi |-> multi, bridge |-> bridge],
     vendor |-> vendor, device |-> device, cls |-> cls,
     subvendor |-> "1462", subdevice |-> "7B86"]
Class(bc, sc, i) == [bc |-> bc, sc |-> sc, i |-> i]
Iface(ic, isc, ip) == [ic |-> ic, isc |-> isc, ip |-> ip]
Descriptor(type, length, iface) == [type |-> type, length |-> length, iface |-> iface]
\* A composite device has an association before its first interface.
UsbDevice(vendor, product, dev_class, iface) ==
    [vendor |-> vendor, product |-> product, dev_class |-> dev_class, iface |-> iface,
     config |-> <<Descriptor("config", 9, NoInterface)>>
                \o (IF dev_class = "EF" THEN <<Descriptor("association", 8, NoInterface)>> ELSE <<>>)
                \o <<Descriptor("interface", 9, iface), Descriptor("endpoint", 7, NoInterface),
                     Descriptor("interface", 9, Iface("0A", "00", "00"))>>]

Bridge == Function("00:1f", 0, TRUE, TRUE, "8086", "A143", Class("06", "01", "00"))
Ahci   == Function("00:1f", 2, FALSE, FALSE, "8086", "A102", Class("01", "06", "01"))
Igb    == Function("01:00", 0, FALSE, FALSE, "8086", "1521", Class("02", "00", "00"))
Nvme   == Function("02:00", 0, FALSE, FALSE, "144D", "A821", Class("01", "08", "02"))
Bcm    == Function("03:00", 0, FALSE, FALSE, "14E4", "1657", Class("02", "00", "00"))
Stray  == Function("03:00", 1, FALSE, FALSE, "1102", "0007", Class("04", "01", "00"))
Serial   == UsbDevice("0483", "5740", "EF", Iface("02", "02", "01"))
Keyboard == UsbDevice("046D", "C31C", "00", Iface("03", "01", "01"))
Modem    == [UsbDevice("19D2", "1426", "00", Iface("FF", "00", "00")) EXCEPT !.config = <<>>]
Wlan     == UsbDevice("0CF3", "9271", "FF", Iface("FF", "00", "00"))

AllSlots == <<"00:1f", "01:00", "02:00", "03:00">>
AllPci == {Bridge, Ahci, Igb, Nvme, Stray}
AllUsb == {Serial, Keyboard, Modem, Wlan}

\* Firmware.
Table(sig, length) == [sig |-> sig, length |-> length]
Firmware(rsdp, revision, xsdt, rsdt) ==
    [rsdp |-> rsdp, revision |-> revision, xsdt |-> xsdt, rsdt |-> rsdt]
NoFirmware == Firmware("none", 0, <<>>, <<>>)
Hpet == Table("HPET", 56)
Pc   == Firmware("good", 2, <<Hpet, Table("unmapped", 0), Table("MCFG", 60)>>, <<>>)
Firmwares ==
    {Firmware(rsdp, revision, xsdt, <<Table("APIC", 120)>>) :
        rsdp \in {"bad", "good"}, revision \in {0, 2},
        xsdt \in {<<>>} \cup {<<Table("MCFG", length), Hpet>> : length \in {43, 44, 60}}}

NvmeRoot == [root_fs |-> "ext4", device |-> "nvme", layers |-> {"luks"}]
Machine(pci, usb, acpi, dtbs, path, accesses) ==
    [pci |-> pci, usb |-> usb, acpi |-> acpi, dtbs |-> dtbs, path |-> path,
     traffic |-> accesses]

Parts == {Machine(pci, usb, Pc, <<>>, NvmeRoot, 0) :
              pci \in {AllPci, {}} \cup {AllPci \ {d} : d \in AllPci},
              usb \in {{}, AllUsb} \cup {{d} : d \in AllUsb}}
Whole == {Machine({Nvme}, {Keyboard}, Pc, <<>>, path, 0) : path \in BootPaths}
\* The vendor of one network card with the number of the other is a third.
Disturbed == {Machine({Bridge, Ahci, Nvme}, {Wlan}, Pc, <<>>, NvmeRoot, 1),
              Machine({Igb, Bcm}, {}, NoFirmware, <<>>, NvmeRoot, 1)}
Tabled == {Machine({Nvme}, {}, fw, <<>>, NvmeRoot, 0) : fw \in Firmwares \cup {NoFirmware}}
SmallTrees == UNION {Trees(size) : size \in 1 .. 4}
Dtbs == {<<Blob(tree, "whole")>> : tree \in SmallTrees}
        \cup {<<[kind |-> kind], Blob(tree, cut), Blob(<<[depth |-> 1, compatible |-> "listed"]>>, "whole")>> :
                  kind \in {"unreadable", "foreign"}, tree \in Trees(2),
                  cut \in {"whole", "header", "names"}}
        \cup {<<>>}
Boards == {Machine({}, {}, NoFirmware, dtbs, NvmeRoot, 0) : dtbs \in Dtbs}
SmallMachines == Parts \cup Whole \cup Disturbed \cup Tabled \cup Boards

\* Entries of device tables.
PciId(vendor, device) == [macro |-> "PCI_DEVICE", vendor |-> vendor, device |-> device]
PciNamed(name, vendor, device) ==
    [macro |-> "PCI_VDEVICE", name |-> name, vendor |-> vendor, device |-> device]
PciClass(cls, mask) == [macro |-> "PCI_DEVICE_CLASS", cls |-> cls, mask |-> mask]
UsbId(vendor, product) == [macro |-> "USB_DEVICE", vendor |-> vendor, product |-> product]
UsbIface(iface) == [macro |-> "USB_INTERFACE_INFO", iface |-> iface]
UsbBoth(vendor, product, iface) ==
    [macro |-> "USB_DEVICE_AND_INTERFACE_INFO", vendor |-> vendor,
     product |-> product, iface |-> iface]
File(stem, tables, ids, configs) ==
    [stem |-> stem, tables |-> tables, entries |-> ids, configs |-> configs]

\* Drivers, their tables as far as they are written with numbers, and their
\* symbols: igb_main.c, ahci.c, nvme's pci.c, ath9k_htc's hif_usb.c and so on.
\* emu10k1's vendor is not in the table of names.
DriverFiles == {
    File(<<"igb", "_main">>, {"pci"}, {PciNamed("INTEL", "8086", "1521")}, {"IGB"}),
    File(<<"ahci", "">>, {"pci"}, {PciClass(Class("01", "06", "01"), {"bc", "sc", "i"}),
                           PciId("1B4B", "9123")}, {"AHCI"}),
    File(<<"pci", "">>, {"pci"}, {PciId("144D", "A821")}, {"BLK_DEV_NVME"}),
    File(<<"nvmem", "">>, {"pci"}, {PciClass(Class("01", "08", "00"), {"bc", "sc"})}, {"NVMEM"}),
    File(<<"tg3", "">>, {"pci"}, {PciNamed("BROADCOM", "14E4", "1521")}, {"TIGON3"}),
    File(<<"emu10k1", "">>, {"pci"}, {PciNamed("CREATIVE", "1102", "1521")}, {"SND_EMU10K1"}),
    File(<<"hif_usb", "">>, {"usb"}, {UsbId("0CF3", "9271")}, {"ATH9K_HTC"}),
    File(<<"cdc-acm", "">>, {"usb"}, {UsbId("0483", "5740")}, {"USB_ACM"}),
    File(<<"usbkbd", "">>, {"usb"}, {UsbIface(Iface("03", "01", "01"))}, {"USB_KBD"}),
    File(<<"option", "">>, {"usb"}, {UsbBoth("19D2", "1426", Iface("FF", "00", "00"))},
         {"USB_SERIAL_OPTION"}),
    File(<<"gs_usb", "">>, {"usb", "hid"}, {UsbId("0483", "1234"), PciId("144D", "A821")},
         {"CAN_GS_USB"}),
    File(<<"8250_pnp", "">>, {"acpi"}, {[macro |-> "STRING", id |-> "PNP0501"]}, {"SERIAL_8250_PNP"}),
    File(<<"i2c-imx", "">>, {"of"}, {[macro |-> "COMPATIBLE", id |-> "fsl,imx1-i2c"]}, {"I2C_IMX"})}

Line(config, targets) == [config |-> config, targets |-> targets]
Objects == {
    Line("IGB", <<"igb">>), Line("AHCI", <<"ahci", "libahci">>),
    Line("SERIO_PCIPS2", <<"pcips2">>), Line("PCI_STUB", <<"pci_stub">>),
    Line("BLK_DEV_NVME", <<"nvme">>), Line("NVMEM", <<"nvmem">>), Line("TIGON3", <<"tg3">>),
    Line("SND_EMU10K1", <<"emu10k1">>), Line("ATH9K_HTC", <<"ath9k_htc">>),
    Line("USB_ACM", <<"cdc_acm">>), Line("USB_KBD", <<"usbkbd">>),
    Line("USB_SERIAL_OPTION", <<"option">>), Line("CAN_GS_USB", <<"gs_usb">>),
    Line("", <<"tty_io">>)}
Hyphens == {<<"cdc-acm", "cdc_acm">>}
Beginnings == {<<"pci", "pcips2">>, <<"pci", "pci_stub">>}
TwoOrders == {<<"igb", "pcips2", "pci_stub">>, <<"pci_stub", "pcips2", "igb">>}
=============================================================================
