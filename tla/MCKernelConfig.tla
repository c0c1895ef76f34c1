--------------------------- MODULE MCKernelConfig ---------------------------
(***************************************************************************)
(* A machine with an e1000e network card and a crypto accelerator, an ACPI *)
(* MCFG table, a btrfs root and two kernel trees.  In the old one the      *)
(* network driver stands below a menu that is a bool symbol; in the new    *)
(* one there is a module for the accelerator too, the network driver wants *)
(* PRINTK, and btrfs depends on what the accelerator's driver belongs to.  *)
(***************************************************************************)
EXTENDS KernelConfig, TLC

CONSTANTS old, new

Tables == INSTANCE KernelTables

AllSymbols == {"PRINTK", "USB", "EMBEDDED", "WERROR", "BTRFS_FS", "CRYPTO_LIB",
               "E1000E", "NETDEVICES", "ACPI", "PCI_MMCONFIG"}

TableBase == LET base == Tables!BaseConfig(TRUE)
             IN  [s \in AllSymbols \cap DOMAIN base |-> base[s]]
TableDisabled == AllSymbols \cap Tables!Disabled
TableStatic == AllSymbols \cap Tables!StaticConfigs(
                   [root_fs |-> "btrfs", device |-> "mapper", layers |-> {}])

NoEdges == [s \in AllSymbols |-> {}]

TwoTrees == {old, new}
MatchingModules == (old :> {"e1000e"}) @@ (new :> {"e1000e", "qat"})
                   @@ (Here :> {})
MakefileConfigs == [d \in Dirs |-> [e1000e |-> {"E1000E"}, qat |-> {"CRYPTO_LIB"}]]
PulledSymbols == (old :> [NoEdges EXCEPT !["E1000E"] = {"NETDEVICES"}])
                 @@ (new :> [NoEdges EXCEPT !["E1000E"] = {"PRINTK"},
                                            !["BTRFS_FS"] = {"CRYPTO_LIB"}])
                 @@ (Here :> NoEdges)
DependedSymbols == (old :> [NoEdges EXCEPT !["E1000E"] = {"NETDEVICES"}])
                   @@ (new :> [NoEdges EXCEPT !["BTRFS_FS"] = {"CRYPTO_LIB"}])
                   @@ (Here :> NoEdges)
BoolSymbols == [d \in Dirs |-> {"PRINTK", "EMBEDDED", "WERROR", "NETDEVICES"}]
=============================================================================
