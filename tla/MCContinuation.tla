--------------------------- MODULE MCContinuation ---------------------------
(***************************************************************************)
(* Instances of Continuation: what Stage 1's plan hands over.              *)
(***************************************************************************)
EXTENDS Continuation, Stage1Plan

Handed == {Stage1Steps[i] : i \in 1 .. Len(Stage1Steps)} \ {"unmount"}
=============================================================================
