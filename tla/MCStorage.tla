------------------------------- MODULE MCStorage -------------------------------
(***************************************************************************)
(* Storage on a machine with two disks.                                    *)
(***************************************************************************)
EXTENDS Storage

CONSTANTS sda, sdb

TwoDisks == <<sda, sdb>>
AnyDisk == {sda, sdb, NoDisk}
=============================================================================
