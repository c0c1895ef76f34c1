---------------------------- MODULE Continuation ----------------------------
(***************************************************************************)
(* Stage 3, on the installed system: the service that                      *)
(* ContinuationAgentStep left there, the command line of main.py,          *)
(* main.cmd_continue and stage3_agent/agent.py, over the state file that   *)
(* Stage 1 mirrored into the target and that is now the live one.          *)
(*                                                                         *)
(* A save's second write goes below /mnt/gentoo, where nothing reads it on *)
(* this system: it is left out.  What the emerge and init commands do to   *)
(* the system is as external as they are.                                  *)
(***************************************************************************)
EXTENDS Naturals, Sequences, FiniteSets, InstallerState

CONSTANTS
    Stage1Done,   \* steps the state file lists when Stage 1 is over
    UnmountStep,  \* the one after them
    AgentStep,    \* the last one of them
    Manual,       \* the user runs `anaconda-gentoo continue'
    Faults        \* what may go wrong in this instance

Stage3Steps == << "portage_update", "world_update", "cleanup", "disable_agent" >>

AllFaults == {"kill", "torn", "reboot", "emerge", "resume", "disable"}

Names == Stage1Done \cup {UnmountStep, AgentStep}
           \cup {Stage3Steps[i] : i \in 1 .. Len(Stage3Steps)}

ASSUME ContinuationAssumption ==
    /\ AgentStep \in Stage1Done /\ UnmountStep \notin Stage1Done
    /\ \A i \in 1 .. Len(Stage3Steps) :
           Stage3Steps[i] \notin Stage1Done \cup {UnmountStep}
    /\ NoStep \notin Names
    /\ \A f \in Unreadable : f \notin Record(Names)
    /\ Manual \in BOOLEAN /\ Faults \subseteq AllFaults

VARIABLES
    file,     \* /var/lib/anaconda-gentoo/state.json
    init,     \* the init system of the installed stage3
    enabled,  \* the service is in the default runlevel or target
    due,      \* the boot has yet to start the service
    world,    \* what emerge @world has come to
    calm,     \* nothing goes wrong any more (an environment's choice)
    mem, ctl, at, io   \* the process of a continuation, as in StepRunner

system  == <<init, enabled, due, world, calm>>
process == <<mem, ctl, at, io>>
vars    == <<file, system, process>>

\* Control points: not running; state loaded; at the head of a step's block
\* in run_stage3; after mark_started; step's command over; after mark_done;
\* after mark_failed; all blocks passed.
Ctl == {"off", "loaded", "next", "started", "ran", "marked", "failed", "over"}
Io  == {"none", "save", "open"}

Worlds == {"old",       \* no run of emerge @world has ended well
           "skipped",   \* --resume --skipfirst has, without a package
           "updated"}

May(f) == f \in Faults /\ ~calm
Saved  == io = "none"
Step   == Stage3Steps[at]
Pending == at <= Len(Stage3Steps)

Off == ctl' = "off" /\ mem' = FreshState /\ at' = 1 /\ io' = "none"
Save(rec) == mem' = rec /\ io' = "save"

\* Stage 1's last saves into the target: the agent's phase flip, or the start
\* of the unmount step.
HandedOver ==
    {[FreshState EXCEPT !.phase = "stage1_complete", !.config = {AgentStep},
                        !.completed = Stage1Done \ {AgentStep}, !.current = AgentStep],
     [FreshState EXCEPT !.phase = "stage1_complete", !.config = {AgentStep},
                        !.completed = Stage1Done, !.current = UnmountStep]}

Init == /\ file \in HandedOver
        /\ init \in {"systemd", "openrc"}
        /\ enabled = TRUE /\ due = TRUE
        /\ world = "old" /\ calm = FALSE
        /\ mem = FreshState /\ ctl = "off" /\ at = 1 /\ io = "none"
-----------------------------------------------------------------------------
(* The command line.                                                       *)

\* main.main: a subcommand, `install' without any, or argparse's exit 2.
Dispatch(argv) == CASE argv = ""                                  -> "install"
                    [] argv \in {"install", "continue", "status"} -> argv
                    [] OTHER                                      -> "usage"

\* The argument both service templates pass.
ServiceArgv == "--continue"

\* Faulty forms: only the first run is let in; every run is.
Accepted_FirstOnly(phase) == phase = "stage1_complete"
Accepted_Always(phase) == phase \in Phases

\* cmd_continue's test.
Accepted(phase) == phase \in {"stage1_complete", "stage3"}

\* A run that gets as far as loading the state; every other exits at once.
Run(argv) == IF Dispatch(argv) = "continue"
             THEN mem' = LoadState(file) /\ ctl' = "loaded" /\ UNCHANGED <<at, io>>
             ELSE UNCHANGED process

\* The boot starts the service, if the state file is there (systemd's
\* ConditionPathExists).  OpenRC's start() removes it whatever came of the run.
ServiceStarts == /\ due /\ enabled /\ ctl = "off"
                 /\ Run(ServiceArgv)
                 /\ due' = FALSE
                 /\ enabled' = (init = "systemd")
                 /\ UNCHANGED <<file, init, world, calm>>

\* README: "Re-running `anaconda-gentoo continue' resumes manually."
UserContinues == /\ Manual /\ ctl = "off"
                 /\ Run("continue")
                 /\ UNCHANGED <<file, system>>

Refuse == /\ ctl = "loaded" /\ ~Accepted(mem.phase)
          /\ Off
          /\ UNCHANGED <<file, system>>

Accept == /\ ctl = "loaded" /\ Accepted(mem.phase)
          /\ Save(SetPhase(mem, "stage3"))
          /\ ctl' = "next"
          /\ UNCHANGED <<file, system, at>>
-----------------------------------------------------------------------------
(* run_stage3.                                                             *)

SkipStep == /\ ctl = "next" /\ Saved /\ Pending
            /\ IsDone(mem, Step)
            /\ at' = at + 1
            /\ UNCHANGED <<file, system, mem, ctl, io>>

\* Faulty form: a run that does everything again.
StartStep_Unchecked == /\ ctl = "next" /\ Saved /\ Pending
                       /\ Save(MarkStarted(mem, Step))
                       /\ ctl' = "started"
                       /\ UNCHANGED <<file, system, at>>

StartStep == /\ ctl = "next" /\ Saved /\ Pending
             /\ ~IsDone(mem, Step)
             /\ Save(MarkStarted(mem, Step))
             /\ ctl' = "started"
             /\ UNCHANGED <<file, system, at>>

Executes(s) == ctl = "started" /\ Saved /\ Step = s

\* emerge --sync: a failure only warns.
Sync == /\ Executes("portage_update")
        /\ ctl' = "ran"
        /\ UNCHANGED <<file, system, mem, at, io>>

\* emerge @world ends well at once, or for all but the package it failed on.
World == /\ Executes("world_update")
         /\ world' \in {"updated"} \cup (IF May("emerge") THEN {"skipped"} ELSE {})
         /\ ctl' = "ran"
         /\ UNCHANGED <<file, init, enabled, due, calm, mem, at, io>>

\* Faulty form: the step is marked done before the agent gives up.
WorldFails_Marked == /\ May("resume") /\ Executes("world_update")
                     /\ Save(MarkDone(mem, Step))
                     /\ ctl' = "failed"
                     /\ UNCHANGED <<file, system, at>>

\* Both emerge @world and emerge --resume --skipfirst fail.
WorldFails == /\ May("resume") /\ Executes("world_update")
              /\ Save(MarkFailed(mem, Step))
              /\ ctl' = "failed"
              /\ UNCHANGED <<file, system, at>>

\* sys.exit(1) once mark_failed has saved.
GiveUp == /\ ctl = "failed" /\ Saved
          /\ Off
          /\ UNCHANGED <<file, system>>

\* emerge --depclean: its exit status is not looked at.
Cleanup == /\ Executes("cleanup")
           /\ ctl' = "ran"
           /\ UNCHANGED <<file, system, mem, at, io>>

\* systemctl disable or rc-update del, check=False.
DisableAgent == /\ Executes("disable_agent")
                /\ enabled' \in {FALSE} \cup (IF May("disable") THEN {enabled} ELSE {})
                /\ ctl' = "ran"
                /\ UNCHANGED <<file, init, due, world, calm, mem, at, io>>

MarkStepDone == /\ ctl = "ran"
                /\ Save(MarkDone(mem, Step))
                /\ ctl' = "marked"
                /\ UNCHANGED <<file, system, at>>

NextBlock == /\ ctl = "marked" /\ Saved
             /\ ctl' = "next" /\ at' = at + 1
             /\ UNCHANGED <<file, system, mem, io>>

Complete == /\ ctl = "next" /\ Saved /\ ~Pending
            /\ Save(SetPhase(mem, "complete"))
            /\ ctl' = "over"
            /\ UNCHANGED <<file, system, at>>

Exit == /\ ctl = "over" /\ Saved
        /\ Off
        /\ UNCHANGED <<file, system>>

OpenFile == /\ io = "save" /\ io' = "open"
            /\ file' = Empty
            /\ UNCHANGED <<system, mem, ctl, at>>

WriteFile == /\ io = "open" /\ io' = "none"
             /\ file' = mem
             /\ UNCHANGED <<system, mem, ctl, at>>
-----------------------------------------------------------------------------
(* Stops.                                                                  *)

Kill == /\ ctl # "off"
        /\ May(IF file = Empty THEN "torn" ELSE "kill")
        /\ Off
        /\ UNCHANGED <<file, system>>

\* A boot starts the service if it is still enabled.
Reboot == /\ May("reboot") /\ file # Empty
          /\ Off
          /\ due' = enabled
          /\ UNCHANGED <<file, init, enabled, world, calm>>
-----------------------------------------------------------------------------
Runs == \/ Refuse \/ Accept \/ SkipStep \/ StartStep
        \/ Sync \/ World \/ Cleanup \/ DisableAgent
        \/ MarkStepDone \/ NextBlock \/ Complete \/ Exit \/ GiveUp
        \/ OpenFile \/ WriteFile

\* From here on nothing goes wrong.
CalmDown == /\ ~calm
            /\ calm' = TRUE
            /\ UNCHANGED <<file, init, enabled, due, world, process>>

Disturbance == WorldFails \/ Kill \/ Reboot

Next == ServiceStarts \/ UserContinues \/ Runs \/ Disturbance \/ CalmDown

Spec == Init /\ [][Next]_vars

\* The run gets on, the boot starts what is due, and a user who may continue
\* manually does, until the installation is complete.
FairSpec == /\ Spec
            /\ WF_vars(Runs) /\ WF_vars(ServiceStarts) /\ WF_vars(UserContinues)
-----------------------------------------------------------------------------
(* Correctness.                                                            *)

TypeOK == /\ file \in StateFile(Names)
          /\ init \in {"systemd", "openrc"}
          /\ enabled \in BOOLEAN /\ due \in BOOLEAN /\ calm \in BOOLEAN
          /\ world \in Worlds
          /\ mem \in Record(Names) /\ ctl \in Ctl
          /\ at \in 1 .. Len(Stage3Steps) + 1 /\ io \in Io
          /\ ctl \in {"started", "ran", "marked", "failed"} => Pending

\* Nothing that builds on the world update comes without it: neither emerge
\* --depclean, which removes packages, nor a state file that says the
\* installation is complete, which lists every step of Stage 3 as well.  The
\* update may have ended well in an earlier run, if only without a package.
\* Code: the order of run_stage3 (agent.py 49-102), and the exit of the agent
\* before the step is recorded when emerge fails.
NothingBeforeWorld ==
    LET complete == LoadState(file).phase = "complete"
    IN  /\ Executes("cleanup") \/ complete => world # "old"
        /\ complete => \A i \in 1 .. Len(Stage3Steps) : IsDone(file, Stage3Steps[i])

\* The hours of emerge @world are not spent again once the state file lists
\* them.  Code: is_done before each block, on the state loaded at the start.
WorldOnce ==
    [][Executes("world_update") /\ ctl' # "started"
         => ~IsDone(LoadState(file), "world_update")]_vars

Rank(phase) == CASE phase = "stage1" -> 0 [] phase = "stage1_complete" -> 1
                 [] phase = "stage3" -> 2 [] phase = "complete" -> 3

\* The state file's phase never goes back: no save is of a phase behind that of
\* the file it replaces.  Code: cmd_continue turns stage1_complete and stage3,
\* and no other phase, into stage3; run_stage3 saves what it was handed.
PhaseForward ==
    [][io # "save" /\ io' = "save"
         => Rank(LoadState(file).phase) <= Rank(mem'.phase)]_vars

Stage3Names == {Stage3Steps[i] : i \in 1 .. Len(Stage3Steps)}

Recorded == Stage3Names \cap (IF ctl # "off" THEN mem.completed
                                             ELSE LoadState(file).completed)

Journal == INSTANCE ProgressJournal
             WITH Plan <- Stage3Steps, done <- Recorded, Lossy <- "torn" \in Faults

\* Stage 3's progress is a journal too.  Code: as for Stage 1, with run_stage3
\* in the place of Step.run.
KeepsJournal == Journal!JSpec

Finished == LoadState(file).phase = "complete"

\* A stop fell between the open and the write of a save.
RecordCut == file = Empty /\ ctl = "off"

\* Once nothing disturbs the runs any more, re-running `continue' finishes
\* the installation, unless a save was ever cut in two: the phase is lost
\* then, and cmd_continue refuses every run.  README.md:205.
Stage3Completes == []~RecordCut => (calm ~> Finished)

\* Stage 3 starts without the user.  README.md:27: "Phase 3 runs automatically
\* via a systemd or OpenRC one-shot service".  Does not hold.
StartsByItself == <>(LoadState(file).phase # "stage1_complete")

=============================================================================
