----------------------------- MODULE KernelTables -----------------------------
(***************************************************************************)
(* The tables of kconfig_builder/generator.py and bootpath.py, and what    *)
(* BootPath.static_configs makes of them.  A device path is its kind: the  *)
(* pattern of _DEVICE_CONFIGS that finds it, or "other".                   *)
(***************************************************************************)
EXTENDS ConfigGenerator

\* _ESSENTIAL, by value.
EssentialY == {
    "64BIT", "PRINTK", "BUG", "ELF_CORE", "MULTIUSER", "SYSFS", "PROC_FS",
    "TMPFS", "DEVTMPFS", "DEVTMPFS_MOUNT", "MMU", "SLUB", "BINFMT_ELF",
    "BINFMT_SCRIPT", "EXT4_FS", "EXT4_USE_FOR_EXT2", "VFAT_FS", "FAT_FS",
    "ISO9660_FS", "TMPFS_POSIX_ACL", "NET", "INET", "PCI", "PCIEPORTBUS",
    "PCI_MSI", "USB_SUPPORT", "USB_ANNOUNCE_NEW_DEVICES", "BLOCK",
    "BLK_DEV_BSG", "GENERIC_IRQ_CHIP", "GENERIC_IRQ_PROBE",
    "GENERIC_IRQ_SHOW", "ACPI", "CLKEVT_HPET", "PM", "PM_SLEEP", "SUSPEND",
    "SHMEM", "CRYPTO", "CRYPTO_ALGAPI", "CRYPTO_HASH", "MODULES",
    "MODULE_UNLOAD", "KALLSYMS", "PRINTK_TIME", "EARLY_PRINTK"}
EssentialM == {"IPV6", "USB"}
EssentialN == {"EMBEDDED"}

AcpiOnly == {"ACPI", "CLKEVT_HPET"}

Disabled == {"LOCALVERSION_AUTO", "WERROR"}

\* ConfigGenerator.__init__.
BaseConfig(acpi) ==
    [s \in (EssentialY \cup EssentialM \cup EssentialN)
              \ (IF acpi THEN {} ELSE AcpiOnly) |->
        IF s \in EssentialY THEN "y" ELSE IF s \in EssentialM THEN "m" ELSE "n"]

\* _FS_CONFIG.
FsConfig == [ext2  |-> "EXT2_FS",  ext3 |-> "EXT3_FS", ext4 |-> "EXT4_FS",
             btrfs |-> "BTRFS_FS", xfs  |-> "XFS_FS",  f2fs |-> "F2FS_FS",
             jfs   |-> "JFS_FS",   reiserfs |-> "REISERFS_FS",
             vfat  |-> "VFAT_FS",  fat  |-> "FAT_FS"]

\* _DEVICE_CONFIGS; a path no pattern finds gets nothing.
DeviceConfigs ==
    [nvme   |-> {"BLK_DEV_NVME", "NVME_CORE", "PCI"},
     sd     |-> {"ATA", "ATA_PIIX", "AHCI", "LIBAHCI", "LIBATA", "PCI"},
     hd     |-> {"IDE", "BLK_DEV_IDE", "ATA"},
     vd     |-> {"VIRTIO", "VIRTIO_PCI", "VIRTIO_BLK"},
     mmcblk |-> {"MMC", "MMC_BLOCK", "MMC_SDHCI"},
     xvd    |-> {"XEN_BLKDEV_FRONTEND"},
     mapper |-> {},
     other  |-> {}]

LuksCrypto == {"BLK_DEV_DM", "DM_MOD", "DM_CRYPT", "CRYPTO", "CRYPTO_AES",
               "CRYPTO_XTS", "CRYPTO_CBC", "CRYPTO_SHA256", "CRYPTO_AES_X86_64"}
LvmConfigs == {"BLK_DEV_DM", "DM_MOD", "MD"}
RaidConfigs == {"MD", "BLK_DEV_MD", "MD_RAID0", "MD_RAID1", "MD_RAID10",
                "MD_RAID456"}
AlwaysStatic == {"BLOCK", "BLK_DEV", "PCI_MSI", "GENERIC_IRQ_CHIP",
                 "GENERIC_IRQ_PROBE"}

BootPaths == [root_fs : DOMAIN FsConfig, device : DOMAIN DeviceConfigs,
              layers : SUBSET {"lvm", "luks", "raid"}]

Layer(bp, name, symbols) == IF name \in bp.layers THEN symbols ELSE {}

\* Faulty form: the encrypted root is only looked at without LVM.
StaticConfigs_LvmHidesLuks(bp) ==
    AlwaysStatic \cup {FsConfig[bp.root_fs]} \cup DeviceConfigs[bp.device]
    \cup Layer(bp, "lvm", LvmConfigs)
    \cup (IF "lvm" \in bp.layers THEN {} ELSE Layer(bp, "luks", LuksCrypto))
    \cup Layer(bp, "raid", RaidConfigs)

\* static_configs(), with the default cipher, whose symbol CRYPTO_AES is in
\* the table, and no extra_static: _build_boot_path sets neither.
StaticConfigs(bp) ==
    AlwaysStatic \cup {FsConfig[bp.root_fs]} \cup DeviceConfigs[bp.device]
    \cup Layer(bp, "lvm", LvmConfigs)
    \cup Layer(bp, "luks", LuksCrypto)
    \cup Layer(bp, "raid", RaidConfigs)
=============================================================================
