---------------------------- MODULE MCChrootMounts ----------------------------
(***************************************************************************)
(* ChrootMounts with one installer.                                        *)
(***************************************************************************)
EXTENDS ChrootMounts

CONSTANT first

One == {first}
=============================================================================
