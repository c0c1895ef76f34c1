--------------------------- MODULE ProgressJournal ---------------------------
(***************************************************************************)
(* What the README promises of the recorded progress: "On re-run,          *)
(* completed steps are skipped and execution resumes from where it         *)
(* stopped."  The steps on record are always an initial piece of the plan; *)
(* a step is recorded after all before it, a stop costs at most the record *)
(* of the step it fell into, and only where state.json itself is lost does *)
(* the record go back to nothing.                                          *)
(***************************************************************************)
EXTENDS Naturals, Sequences

CONSTANTS Plan,   \* the names of the steps, in order
          Lossy   \* state.json may be lost as a whole

VARIABLE done     \* the steps on record

Prefix(k) == {Plan[i] : i \in 1 .. k}

JInit == done = {}

\* The next step of the plan is recorded.
Append1 == \E k \in 1 .. Len(Plan) : done = Prefix(k - 1) /\ done' = Prefix(k)

\* A stop loses the record of the last step.
Slip == \E k \in 1 .. Len(Plan) : done = Prefix(k) /\ done' = Prefix(k - 1)

Lose == Lossy /\ done' = {}

JNext == Append1 \/ Slip \/ Lose

JSpec == JInit /\ [][JNext]_done
=============================================================================
