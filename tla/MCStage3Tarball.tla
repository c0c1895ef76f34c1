---------------------------- MODULE MCStage3Tarball ----------------------------
(***************************************************************************)
(* Stage3Tarball with two builds on the mirror.                            *)
(***************************************************************************)
EXTENDS Stage3Tarball

CONSTANTS old, new

TwoBuilds == {old, new}
AnyUrl == {old, new, NoBuild}
=============================================================================
