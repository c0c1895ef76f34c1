----------------------------- MODULE Stage1Plan -----------------------------
(***************************************************************************)
(* The steps main.build_stage1_steps returns, by name and in order, and    *)
(* what each does as far as resumption depends on it.                      *)
(***************************************************************************)
EXTENDS Sequences

Stage1Steps == << "hardware_detect", "disk_select", "format", "mount",
                  "stage3_download", "stage3_extract", "makeconf",
                  "chroot_init", "portage_sync", "timezone", "locale",
                  "kernel_config", "kernel_compile", "kernel_install",
                  "fstab", "hostname", "root_password", "network",
                  "bootloader", "continuation_agent", "unmount" >>

\* wipefs and sgdisk; mkfs.
WipingSteps == {"disk_select", "format"}

\* They write below state.mountpoint or run in a chroot there.  kernel_config
\* and kernel_compile work in --kernel-src, on the live system.
TargetSteps == {"stage3_extract", "makeconf", "chroot_init", "portage_sync",
                "timezone", "locale", "kernel_install", "fstab", "hostname",
                "root_password", "network", "bootloader", "continuation_agent"}

\* Their execute() calls state.set.
StoringSteps == {"hardware_detect", "disk_select", "format", "mount",
                 "stage3_download", "makeconf", "timezone", "locale",
                 "kernel_config", "hostname", "continuation_agent"}

\* A short plan with a step of every kind, for instances of several
\* processes.
ShortSteps == << "disk_select", "mount", "continuation_agent", "unmount" >>
ShortWiping  == {"disk_select"}
ShortTarget  == {"continuation_agent"}
ShortStoring == {"continuation_agent"}
=============================================================================
