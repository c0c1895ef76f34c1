--------------------------- MODULE MCTargetSettings ---------------------------
(***************************************************************************)
(* TargetSettings on a UEFI laptop with two graphics cards and a BIOS      *)
(* machine, with options that name a zone that is not there, a locale that *)
(* stage 3's locale.gen has in a comment, and a host whose name begins the *)
(* other's.                                                                *)
(***************************************************************************)
EXTENDS TargetSettings

Pci(base, sub, vendor) == [base |-> base, sub |-> sub, vendor |-> vendor]
Laptop == [hardware |-> [pci |-> <<Pci(3, 0, "intel"), Pci(4, 3, "intel"), Pci(3, 2, "nvidia")>>,
                         has_acpi |-> TRUE],
           uefi |-> TRUE, swap |-> TRUE, root_fs |-> "ext4", netLo |-> TRUE]
Server == [hardware |-> [pci |-> <<Pci(3, 0, "matrox"), Pci(2, 0, "intel")>>, has_acpi |-> FALSE],
           uefi |-> FALSE, swap |-> FALSE, root_fs |-> "xfs", netLo |-> FALSE]
TwoMachines == {Laptop, Server}

English == <<"en_US.UTF-8", "UTF-8">>
German  == <<"de_DE.UTF-8", "UTF-8">>
Option(timezone, locale, hostname, iface, dhcp, march, use) ==
    [timezone |-> timezone, locale |-> locale, hostname |-> hostname, iface |-> iface,
     dhcp |-> dhcp, march |-> march, use |-> use]
ThreeOptions == {Option("UTC", English, "gentoo", "eth0", TRUE, "native", {}),
                 Option("Europe/Berlin", German, "gentoo2", "enp1s0", FALSE, "znver3", {"wayland"}),
                 Option("Berlin", German, "local", "eth0", TRUE, "native", {})}
TwoZones == {"UTC", "Europe/Berlin"}
Comments == <<[locale |-> English, comment |-> TRUE]>>
Localhost == <<"localhost">>
Substrings == {<<"gentoo", "gentoo">>, <<"gentoo", "gentoo2">>, <<"gentoo2", "gentoo2">>,
               <<"local", "local">>, <<"local", "localhost">>, <<"local", "gentoo">>,
               <<"local", "gentoo2">>}
=============================================================================
