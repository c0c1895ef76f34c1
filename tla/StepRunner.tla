----------------------------- MODULE StepRunner -----------------------------
(***************************************************************************)
(* The resumable step machine of Stage 1: main.cmd_install, run_all_steps  *)
(* and run_step of tui.py, Step.run of steps/base.py and save() of         *)
(* state.py, run by any number of installer processes against one live     *)
(* state file and one target disk.                                         *)
(*                                                                         *)
(* What a step's body does is abstracted to what resumption depends on:    *)
(* whether it destroys the disk, writes into the mounted target, mounts or *)
(* unmounts it, or stores configuration keys.  A save is not atomic: each  *)
(* of its two write_text calls opens (truncates) and then writes.          *)
(***************************************************************************)
EXTENDS Naturals, Sequences, FiniteSets, InstallerState

CONSTANTS
    Procs,        \* installer processes (a login starts one)
    Plan,         \* names of build_stage1_steps' steps, in order
    MountStep,    \* mounts the target
    UnmountStep,  \* unmounts it
    AgentStep,    \* ends Stage 1: flips the phase
    Wipes,        \* steps that destroy what the target disk holds
    InTarget,     \* steps that write below the mountpoint
    Stores,       \* steps whose execute() calls state.set
    Faults,       \* what may go wrong in this instance
    LivePersists  \* the live medium keeps its files over a reboot

N == Len(Plan)
Steps == {Plan[i] : i \in 1 .. N}
Before(k) == {Plan[i] : i \in 1 .. (k - 1)}
OnDisk == Wipes \cup InTarget

AllFaults == {"kill", "torn", "ctrlc", "steperror", "enospc", "reboot"}

ASSUME PlanAssumption ==
    /\ Plan \in Seq(STRING)
    /\ \A i, j \in 1 .. N : Plan[i] = Plan[j] => i = j
    /\ NoStep \notin Steps
    /\ \A f \in Unreadable : f \notin Record(Steps)

ASSUME KindAssumption ==
    /\ {MountStep, UnmountStep, AgentStep} \cup OnDisk \cup Stores \subseteq Steps
    /\ AgentStep \in InTarget \cap Stores
    /\ Wipes \cap InTarget = {}
    /\ {MountStep, UnmountStep} \cap OnDisk = {}
    /\ MountStep # UnmountStep

ASSUME OrderAssumption ==
    \A i, j \in 1 .. N :
        /\ Plan[i] \in Wipes /\ Plan[j] = MountStep => i < j
        /\ Plan[i] = MountStep /\ Plan[j] \in InTarget => i < j
        /\ Plan[i] \in InTarget /\ Plan[j] = UnmountStep => i < j

ASSUME EnvironmentAssumption ==
    Faults \subseteq AllFaults /\ LivePersists \in BOOLEAN

VARIABLES
    live,     \* /var/lib/anaconda-gentoo/state.json of the live system
    target,   \* the same file of the installed system
    mounted,  \* the target is mounted on the mountpoint
    effects,  \* steps whose results are in place
    calm,     \* nothing goes wrong any more (an environment's choice)
    mem,      \* each process's InstallerState object
    ctl,      \* each process's control point
    at,       \* index of the step its loop is at
    io        \* how far its save() has come

files   == <<live, target>>
system  == <<mounted, effects, calm>>
process == <<mem, ctl, at, io>>
vars    == <<files, system, process>>

\* Control points: not running; head of the loop of run_all_steps; after
\* mark_started; in execute(); execute() over and its keys set; phase
\* flipped; after mark_done; in run_step's KeyboardInterrupt handler.
Ctl == {"off", "next", "started", "work", "ran", "sealed", "marked", "interrupted"}
InStep == {"started", "work", "ran", "sealed", "marked"}

\* A save: about to open, or with the file open, in either place.
Io == {"none", "live", "liveOpen", "target", "targetOpen"}

Step(p) == Plan[at[p]]
Pending(p) == at[p] <= N
Saved(p) == io[p] = "none"
May(f) == f \in Faults /\ ~calm

GoTo(p, c) == ctl' = [ctl EXCEPT ![p] = c]
Off(p) == /\ GoTo(p, "off")
          /\ mem' = [mem EXCEPT ![p] = FreshState]
          /\ at'  = [at EXCEPT ![p] = 1]
          /\ io'  = [io EXCEPT ![p] = "none"]
\* The record changes in memory and save() is entered.
Save(p, rec) == /\ mem' = [mem EXCEPT ![p] = rec]
                /\ io'  = [io EXCEPT ![p] = "live"]

Init == /\ live = Absent
        /\ target = Absent
        /\ mounted = FALSE
        /\ effects = {}
        /\ calm = FALSE
        /\ mem = [p \in Procs |-> FreshState]
        /\ ctl = [p \in Procs |-> "off"]
        /\ at  = [p \in Procs |-> 1]
        /\ io  = [p \in Procs |-> "none"]
-----------------------------------------------------------------------------
(* The loop over the plan.                                                 *)

\* cmd_install: load the live state, then enter run_all_steps.
Launch(p) == /\ ctl[p] = "off"
             /\ mem' = [mem EXCEPT ![p] = LoadState(live)]
             /\ GoTo(p, "next")
             /\ UNCHANGED <<files, system, at, io>>

\* run_step: the step is already done.
SkipStep(p) == /\ ctl[p] = "next" /\ Pending(p)
               /\ IsDone(mem[p], Step(p))
               /\ at' = [at EXCEPT ![p] = @ + 1]
               /\ UNCHANGED <<files, system, mem, ctl, io>>

\* Faulty form: run_step without its is_done test.
StartStep_Unchecked(p) == /\ ctl[p] = "next" /\ Pending(p)
                          /\ Save(p, MarkStarted(mem[p], Step(p)))
                          /\ GoTo(p, "started")
                          /\ UNCHANGED <<files, system, at>>

StartStep(p) == /\ ctl[p] = "next" /\ Pending(p)
                /\ ~IsDone(mem[p], Step(p))
                /\ Save(p, MarkStarted(mem[p], Step(p)))
                /\ GoTo(p, "started")
                /\ UNCHANGED <<files, system, at>>

\* The loop is through and cmd_install returns.
Finish(p) == /\ ctl[p] = "next" /\ ~Pending(p)
             /\ Off(p)
             /\ UNCHANGED <<files, system>>
-----------------------------------------------------------------------------
(* execute(), as far as resumption depends on it.                          *)

\* Results of steps that a step destroys when it starts over: its own, and
\* for a wipe whatever later steps had put on the disk.
Destroyed(s) == {s} \cup (IF s \in Wipes
                          THEN {Plan[j] : j \in {i \in 1 .. N :
                                  Plan[i] \in OnDisk /\ s \in Before(i)}}
                          ELSE {})

\* Faulty form: a disk that is partitioned and formatted anew as it was before
\* without being wiped, so that the old state file is found on it again.
BodyBegins_Unwiped(p) ==
    /\ ctl[p] = "started" /\ Saved(p)
    /\ Step(p) \in Wipes => ~mounted
    /\ effects' = effects \ Destroyed(Step(p))
    /\ mounted' = (Step(p) = MountStep \/ (mounted /\ Step(p) # UnmountStep))
    /\ GoTo(p, "work")
    /\ UNCHANGED <<files, calm, mem, at, io>>

\* Faulty form: MountStep without its _is_mounted test, so that mount fails
\* on what an earlier run mounted.
BodyBegins_MountTwice(p) ==
    /\ ctl[p] = "started" /\ Saved(p)
    /\ Step(p) \in Wipes => ~mounted
    /\ IF Step(p) = MountStep /\ mounted THEN Off(p) /\ UNCHANGED <<files, system>>
       ELSE /\ effects' = effects \ Destroyed(Step(p))
            /\ target' = IF Step(p) \in Wipes THEN Absent ELSE target
            /\ mounted' = (Step(p) = MountStep \/ (mounted /\ Step(p) # UnmountStep))
            /\ GoTo(p, "work")
            /\ UNCHANGED <<live, calm, mem, at, io>>

\* wipefs and mkfs refuse a disk in use, the target state file goes with the
\* disk, and mounting and unmounting do nothing when already done.
BodyBegins(p) == /\ ctl[p] = "started" /\ Saved(p)
                 /\ Step(p) \in Wipes => ~mounted
                 /\ effects' = effects \ Destroyed(Step(p))
                 /\ target' = IF Step(p) \in Wipes THEN Absent ELSE target
                 /\ mounted' = CASE Step(p) = MountStep   -> TRUE
                                 [] Step(p) = UnmountStep -> FALSE
                                 [] OTHER                 -> mounted
                 /\ GoTo(p, "work")
                 /\ UNCHANGED <<live, calm, mem, at, io>>

\* The results are in place, unless they went into the mountpoint's
\* directory of the live system, and state.set has the keys saved.
BodyEnds(p) ==
    /\ ctl[p] = "work" /\ Saved(p)
    /\ effects' = IF Step(p) \in InTarget /\ ~mounted THEN effects
                  ELSE effects \cup {Step(p)}
    /\ GoTo(p, "ran")
    /\ IF Step(p) \in Stores THEN Save(p, SetConfig(mem[p], Step(p)))
                             ELSE UNCHANGED <<mem, io>>
    /\ UNCHANGED <<files, mounted, calm, at>>

\* Faulty form: a misspelt phase.
FlipPhase_Misspelt(p) == /\ ctl[p] = "ran" /\ Saved(p) /\ Step(p) = AgentStep
                         /\ Save(p, SetPhase(mem[p], "stage1-complete"))
                         /\ GoTo(p, "sealed")
                         /\ UNCHANGED <<files, system, at>>

\* The end of ContinuationAgentStep.execute.
FlipPhase(p) == /\ ctl[p] = "ran" /\ Saved(p) /\ Step(p) = AgentStep
                /\ Save(p, SetPhase(mem[p], "stage1_complete"))
                /\ GoTo(p, "sealed")
                /\ UNCHANGED <<files, system, at>>

\* Faulty form: mark_done without its save().
MarkStepDone_Unsaved(p) ==
    /\ ctl[p] \in {"ran", "sealed"} /\ Saved(p)
    /\ Step(p) = AgentStep => ctl[p] = "sealed"
    /\ mem' = [mem EXCEPT ![p] = MarkDone(mem[p], Step(p))]
    /\ GoTo(p, "marked")
    /\ UNCHANGED <<files, system, at, io>>

MarkStepDone(p) == /\ ctl[p] \in {"ran", "sealed"} /\ Saved(p)
                   /\ Step(p) = AgentStep => ctl[p] = "sealed"
                   /\ Save(p, MarkDone(mem[p], Step(p)))
                   /\ GoTo(p, "marked")
                   /\ UNCHANGED <<files, system, at>>

\* run_step returns True and the loop goes on.
StepReturns(p) == /\ ctl[p] = "marked" /\ Saved(p)
                  /\ at' = [at EXCEPT ![p] = @ + 1]
                  /\ GoTo(p, "next")
                  /\ UNCHANGED <<files, system, mem, io>>
-----------------------------------------------------------------------------
(* save(): the live file first, then its mirror in the target.             *)

Advance(p, from, to) == /\ io[p] = from
                        /\ io' = [io EXCEPT ![p] = to]

\* Written at offset 0 of a file that another process may have written since
\* it was truncated: either record, or a mixture, is what remains.
Overwritten(file, rec) == IF file = Empty THEN {rec} ELSE {rec, Torn}

OpenLive(p) == /\ Advance(p, "live", "liveOpen")
               /\ live' = Empty
               /\ UNCHANGED <<target, system, mem, ctl, at>>

WriteLive(p) == /\ Advance(p, "liveOpen", "target")
                /\ live' \in Overwritten(live, mem[p])
                /\ UNCHANGED <<target, system, mem, ctl, at>>

OpenTarget(p) == /\ Advance(p, "target", "targetOpen")
                 /\ mounted
                 /\ target' = Empty
                 /\ UNCHANGED <<live, system, mem, ctl, at>>

\* Nothing is mounted: the copy lands in a directory of the live system.
MissTarget(p) == /\ Advance(p, "target", "none")
                 /\ ~mounted
                 /\ UNCHANGED <<files, system, mem, ctl, at>>

WriteTarget(p) == /\ Advance(p, "targetOpen", "none")
                  /\ target' \in Overwritten(target, mem[p])
                  /\ UNCHANGED <<live, system, mem, ctl, at>>

\* save() swallows an OSError and goes on: of the open, which leaves the
\* file alone, or of the write, which leaves part of a record.
LiveFails(p) == /\ May("enospc")
                /\ \/ Advance(p, "live", "target") /\ UNCHANGED live
                   \/ Advance(p, "liveOpen", "target") /\ live' = Torn
                /\ UNCHANGED <<target, system, mem, ctl, at>>

TargetFails(p) == /\ May("enospc")
                  /\ \/ Advance(p, "target", "none") /\ UNCHANGED target
                     \/ Advance(p, "targetOpen", "none") /\ target' = Torn
                  /\ UNCHANGED <<live, system, mem, ctl, at>>
-----------------------------------------------------------------------------
(* How a run is cut short.                                                 *)

\* A StepError: run_all_steps returns False.  mark_failed is not called.
StepFails(p) == /\ May("steperror")
                /\ ctl[p] \in {"started", "work"} /\ Saved(p)
                /\ Off(p)
                /\ UNCHANGED <<files, system>>

\* The refusal that BodyBegins excludes.
WipeRefused(p) == /\ ctl[p] = "started" /\ Saved(p)
                  /\ Step(p) \in Wipes /\ mounted
                  /\ Off(p)
                  /\ UNCHANGED <<files, system>>

\* Faulty form: a handler that also unmounts the target.
Interrupt_Unmounts(p) == /\ May("ctrlc") /\ ctl[p] \in InStep
                         /\ Save(p, mem[p])
                         /\ GoTo(p, "interrupted")
                         /\ mounted' = FALSE
                         /\ UNCHANGED <<files, effects, calm, at>>

\* Ctrl-C in a step: run_step saves and raises again.
Interrupt(p) == /\ May("ctrlc") /\ ctl[p] \in InStep
                /\ Save(p, mem[p])
                /\ GoTo(p, "interrupted")
                /\ UNCHANGED <<files, system, at>>

Reraise(p) == /\ ctl[p] = "interrupted" /\ Saved(p)
              /\ Off(p)
              /\ UNCHANGED <<files, system>>

\* Killed, or a second Ctrl-C; as "torn" with a state file still empty.
Kill(p) == /\ ctl[p] # "off"
           /\ May(IF Empty \in {live, target} THEN "torn" ELSE "kill")
           /\ Off(p)
           /\ UNCHANGED <<files, system>>

\* The live system comes up again.  Its files are in RAM unless the medium
\* keeps them; nothing is mounted.
Reboot == /\ May("reboot")
          /\ \A p \in Procs : io[p] \notin {"liveOpen", "targetOpen"}
          /\ live' = IF LivePersists THEN live ELSE Absent
          /\ effects' = IF LivePersists THEN effects ELSE effects \cap OnDisk
          /\ mounted' = FALSE
          /\ mem' = [p \in Procs |-> FreshState]
          /\ ctl' = [p \in Procs |-> "off"]
          /\ at'  = [p \in Procs |-> 1]
          /\ io'  = [p \in Procs |-> "none"]
          /\ UNCHANGED <<target, calm>>

\* From here on nothing goes wrong.
CalmDown == /\ ~calm
            /\ calm' = TRUE
            /\ UNCHANGED <<files, mounted, effects, process>>
-----------------------------------------------------------------------------
SaveStep(p) == \/ OpenLive(p) \/ WriteLive(p)
               \/ OpenTarget(p) \/ MissTarget(p) \/ WriteTarget(p)

\* What a process does when nothing disturbs it.
Runs(p) == \/ SkipStep(p) \/ StartStep(p) \/ Finish(p)
           \/ BodyBegins(p) \/ BodyEnds(p) \/ FlipPhase(p)
           \/ MarkStepDone(p) \/ StepReturns(p)
           \/ WipeRefused(p) \/ Reraise(p)
           \/ SaveStep(p)

Disturbed(p) == \/ StepFails(p) \/ Interrupt(p) \/ Kill(p)
                \/ LiveFails(p) \/ TargetFails(p)

Next == \/ \E p \in Procs : Launch(p) \/ Runs(p) \/ Disturbed(p)
        \/ Reboot \/ CalmDown

Spec == Init /\ [][Next]_vars

\* A process that is not cut short gets on, and the user starts it again.
Fairness == \A p \in Procs : WF_vars(Runs(p)) /\ WF_vars(Launch(p))
FairSpec == Spec /\ Fairness
-----------------------------------------------------------------------------
(* Correctness.                                                            *)

TypeOK == /\ live \in StateFile(Steps)
          /\ target \in StateFile(Steps)
          /\ mounted \in BOOLEAN
          /\ effects \subseteq Steps
          /\ calm \in BOOLEAN
          /\ mem \in [Procs -> Record(Steps)]
          /\ ctl \in [Procs -> Ctl]
          /\ at \in [Procs -> 1 .. N + 1]
          /\ io \in [Procs -> Io]
          /\ \A p \in Procs : ctl[p] \in InStep => at[p] <= N

Settled(rec) == rec.completed \ {MountStep, UnmountStep} \subseteq effects

\* A step is on record only with its results in place, in every copy of the
\* record that a run could resume from (the live file, a process's own) and,
\* for what is on the disk, in the copy the installed system will read.
\* What `mount' and `unmount' did is `mounted'.  Code: the order of execute()
\* and mark_done in Step.run, and disk_select running before all else is lost.
RecordedInPlace ==
    /\ \A p \in Procs : Settled(mem[p])
    /\ Settled(LoadState(live))
    /\ LoadState(target).completed \cap OnDisk \subseteq effects

\* A step that writes below the mountpoint finds the target mounted, however
\* the run that got there was resumed.  Code: MountStep is skipped when it is
\* on record, and no later step looks whether anything is mounted.
WritesHitTarget ==
    \A p \in Procs : ctl[p] = "work" /\ Step(p) \in InTarget => mounted

\* When the target's state file says Stage 1 is complete, which lets Stage 3
\* start there, every step before the agent's has its results on the disk.
\* Code: ContinuationAgentStep flips the phase inside execute(), before its
\* own mark_done, and main.cmd_continue looks at nothing but the phase.
BootReady ==
    LoadState(target).phase # "stage1"
      => \A i, j \in 1 .. N : /\ Plan[i] \in OnDisk
                             /\ Plan[j] = AgentStep
                             /\ i < j
                             => Plan[i] \in effects

\* The loop is past a step only when the live state file lists it.  Code:
\* mark_done saves before Step.run returns, and save() swallows OSError.
RecordedBeforeNext ==
    \A p \in Procs : ctl[p] = "next"
                       => Before(at[p]) \subseteq LoadState(live).completed

\* A record lists an initial piece of the plan, and past phase "stage1" every
\* step before the agent's.
InOrder(rec) == \E k \in 1 .. N + 1 : rec.completed = Before(k)
Sealed(rec)  == rec.phase # "stage1"
                => \A k \in 1 .. N : Plan[k] = AgentStep
                                     => Before(k) \subseteq rec.completed
Ordered(rec) == InOrder(rec) /\ Sealed(rec)

\* Whatever the processes do to one another's files, every record that exists
\* is Ordered.  Code: mark_done appends, in plan order, to the list loaded at
\* the start; a file is a whole record or does not parse.
RecordsInOrder == /\ \A p \in Procs : Ordered(mem[p])
                  /\ Ordered(LoadState(live))
                  /\ Ordered(LoadState(target))

NoneRedone == \A p \in Procs : ctl[p] = "started" /\ ctl'[p] = "work"
                               => Step(p) \notin LoadState(live).completed

\* No step is executed that the live state file lists as completed.  Code:
\* run_step and Step.run both test is_done on the record loaded at start.
CompletedSkipped == [][NoneRedone]_vars

\* The progress a stop leaves behind: the record of the running process, and
\* without one what a new process would load.
Recorded == IF \E p \in Procs : ctl[p] # "off"
            THEN mem[CHOOSE p \in Procs : ctl[p] # "off"].completed
            ELSE LoadState(live).completed

Journal == INSTANCE ProgressJournal
             WITH done <- Recorded, Lossy <- Faults \cap {"torn", "reboot"} # {}

\* The recorded progress is a journal (module ProgressJournal).  Code: the
\* save() calls of Step.run against load() at the next start.
KeepsJournal == Journal!JSpec

Installed == LoadState(live).completed = Steps

\* A stop fell between the open and the write of a save to the live file.
RecordCut == live = Empty /\ \A p \in Procs : ctl[p] = "off"

\* Once nothing disturbs the runs any more, re-running completes the
\* installation, unless a save to the live file was ever cut in two, which
\* loses the record while the target stays mounted.  README.md:27-29: "If
\* interrupted at any point, re-running the installer resumes from the last
\* completed step."
Completes == []~RecordCut => (calm ~> Installed)
-----------------------------------------------------------------------------
(* The inductive invariants the proofs rest on.                            *)

\* Where a process is in its loop says what its own record lists.
LoopInv ==
    \A p \in Procs :
        /\ ctl[p] = "off" => at[p] = 1
        /\ ctl[p] = "next" => Before(at[p]) \subseteq mem[p].completed
        /\ ctl[p] \in {"started", "work", "ran", "sealed"}
             => mem[p].completed = Before(at[p])
        /\ ctl[p] = "marked" => mem[p].completed = Before(at[p] + 1)

OrderInv == RecordsInOrder /\ LoopInv

\* How far a save has come says what the files hold.
SaveInv ==
    \A p \in Procs :
        /\ ctl[p] \in {"off", "next", "work"} => io[p] = "none"
        /\ ctl[p] = "off" => mem[p] = FreshState
        /\ ctl[p] = "next" => mem[p] = LoadState(live)
        /\ ctl[p] \notin {"off", "next"} /\ io[p] \in {"none", "target", "targetOpen"}
             => live = mem[p]
        /\ ctl[p] = "started" /\ io[p] = "none" /\ mounted => target = mem[p]
        /\ io[p] = "liveOpen" => live = Empty
        /\ io[p] = "targetOpen" => target = Empty

\* A record of the mounting step is good until no step needs the mount.
Held(rec) == MountStep \in rec.completed => mounted \/ InTarget \subseteq rec.completed

MountInv ==
    /\ \A p \in Procs : Held(mem[p])
    /\ Held(LoadState(live))
    /\ \A p \in Procs : ctl[p] \in {"work", "ran", "sealed"} /\ Step(p) = MountStep
                           => mounted

BodyInv == \A p \in Procs : ctl[p] \in {"ran", "sealed"} => Step(p) \in effects

\* With a save still ahead of it, the live file is what the last save left: the
\* record without the step being marked, or nothing that loads.
BehindInv ==
    \A p \in Procs :
        ctl[p] \notin {"off", "next"} /\ io[p] = "live"
        => \/ live = Empty
           \/ LoadState(live).completed = mem[p].completed
           \/ /\ ctl[p] \in {"marked", "interrupted"}
              /\ \E k \in 1 .. N : /\ mem[p].completed = Before(k + 1)
                                  /\ LoadState(live).completed = Before(k)

\* What one installer keeps true, where no write fails and the live system's
\* files are in RAM.
SoloInv == /\ SaveInv /\ MountInv /\ BodyInv /\ BehindInv
           /\ RecordedInPlace /\ WritesHitTarget
=============================================================================
