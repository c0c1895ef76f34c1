---------------------------- MODULE MCStepRunner ----------------------------
(***************************************************************************)
(* Instances of StepRunner: the plan main.py builds for one installer, and *)
(* a short plan with a step of every kind for two installers at once.      *)
(***************************************************************************)
EXTENDS StepRunner, Stage1Plan, TLC

\* Two logins are interchangeable.
Logins == Permutations(Procs)
=============================================================================
