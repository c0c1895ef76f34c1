--------------------------- MODULE InstallerState ---------------------------
(***************************************************************************)
(* The record installer/state.py keeps of an installation, and the pure    *)
(* part of its methods.  A record is what one state.json holds; a file is  *)
(* a record or one of three things load() cannot read.                     *)
(*                                                                         *)
(* Abstracted: the log, the mountpoint (main.py always overwrites it with  *)
(* the command line's value) and the values in `config', of which only the *)
(* steps whose keys are stored are kept.  `completed' is a list without    *)
(* duplicates (mark_done tests membership) that is only read by            *)
(* membership and length: a set.                                           *)
(***************************************************************************)
CONSTANTS
    NoStep,   \* None in the fields `current' and `failed'
    Absent,   \* there is no state file
    Empty,    \* opened for writing and truncated, nothing written yet
    Torn      \* holds part of a record, or a mixture of two

Phases == {"stage1", "stage1_complete", "stage3", "complete"}

\* Every record over a set of step names.
Record(Names) == [phase     : Phases,
                  completed : SUBSET Names,
                  current   : Names \cup {NoStep},
                  failed    : Names \cup {NoStep},
                  config    : SUBSET Names]

Unreadable == {Absent, Empty, Torn}

StateFile(Names) == Record(Names) \cup Unreadable

\* The dataclass's defaults.
FreshState == [phase |-> "stage1", completed |-> {}, current |-> NoStep,
               failed |-> NoStep, config |-> {}]

Readable(file) == file \notin Unreadable

\* InstallerState.load(): a missing file and one that does not parse both
\* give a fresh state.
LoadState(file) == IF Readable(file) THEN file ELSE FreshState

IsDone(rec, step) == step \in rec.completed

\* Faulty form: the step counts as completed as soon as it starts.
MarkStarted_Completes(rec, step) ==
    [rec EXCEPT !.current = step, !.failed = NoStep, !.completed = @ \cup {step}]

\* Faulty form: the list of completed steps is replaced, not extended.
MarkDone_Replaces(rec, step) ==
    [rec EXCEPT !.completed = {step}, !.current = NoStep]

\* mark_started, set, mark_done and mark_failed up to their save().
MarkStarted(rec, step) == [rec EXCEPT !.current = step, !.failed = NoStep]

SetConfig(rec, step) == [rec EXCEPT !.config = @ \cup {step}]

MarkDone(rec, step) == [rec EXCEPT !.completed = @ \cup {step}, !.current = NoStep]

MarkFailed(rec, step) == [rec EXCEPT !.failed = step, !.current = NoStep]

SetPhase(rec, phase) == [rec EXCEPT !.phase = phase]
=============================================================================
