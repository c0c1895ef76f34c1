------------------------------- MODULE MakeConf -------------------------------
(***************************************************************************)
(* What MakeConfStep (s06_makeconf.py) makes of the saved hardware, the    *)
(* partitions and its options.  Of what the template holds, the parts that *)
(* do not depend on these are left out.                                    *)
(***************************************************************************)
EXTENDS Naturals, Sequences
LOCAL INSTANCE SequencesExt

\* _CLASS_USE, with the class codes 0x0403, 0x0200 and 0x0280 in decimal.
ClassUse == {[key |-> 1027, flags |-> {"alsa"}], [key |-> 512, flags |-> {"networkmanager"}],
             [key |-> 640, flags |-> {"wifi", "networkmanager"}]}

\* _GPU_VENDORS, by the vendors' names.
GpuVendors == [intel |-> "intel", amd |-> "amdgpu radeon", nvidia |-> "nvidia",
               redhat |-> "virgl", vmware |-> "vmware"]

\* The full class, base and subclass, is compared with the base class of the
\* key alone.
FullClass(d) == d.base * 256 + d.sub
ClassFlags(pci) == UNION {c.flags : c \in {k \in ClassUse :
                              \E d \in ToSet(pci) : FullClass(d) = k.key \div 256}}

\* Of several graphics cards the last known one counts.
VideoCards(pci) ==
    LET known == SelectSeq(pci, LAMBDA d : d.base = 3 /\ d.vendor \in DOMAIN GpuVendors)
    IN  IF known = <<>> THEN "fbdev vesa" ELSE GpuVendors[known[Len(known)].vendor]

\* Faulty form: _detect_use_flags's platform is left as it is.
Platform_Default(uefi) == "pc"
Platform(uefi) == IF uefi THEN "efi-64" ELSE "pc"

MakeConf(hw, uefi, march, extra) ==
    [march |-> march,
     use   |-> {"unicode", "udev"} \cup ClassFlags(hw.pci) \cup extra
               \cup (IF hw.has_acpi THEN {"acpi"} ELSE {})
               \cup (IF uefi THEN {"efi"} ELSE {}),
     video_cards   |-> VideoCards(hw.pci),
     grub_platform |-> Platform(uefi)]
=============================================================================
