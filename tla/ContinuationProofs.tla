--------------------------- MODULE ContinuationProofs ---------------------------
(***************************************************************************)
(* Stage 3 on the installed system, whatever it was handed over, however   *)
(* often it is started, killed, torn or rebooted: nothing is removed and   *)
(* nothing called complete before emerge @world has ended well, and its    *)
(* progress is a journal.                                                  *)
(***************************************************************************)
EXTENDS Continuation, TLAPS

Last3 == Len(Stage3Steps)

\* The steps of Stage 3 before the k-th, and those a record lists.
Before(k) == {Stage3Steps[i] : i \in 1 .. k - 1}
Listed(rec) == Stage3Names \cap rec.completed

\* What every record that is in memory or on disk has to do with the system.
RecordInv(rec) == /\ \E k \in 1 .. Last3 + 1 : Listed(rec) = Before(k)
                  /\ "world_update" \in rec.completed => world # "old"
                  /\ rec.phase = "complete" => Listed(rec) = Stage3Names

\* How far the loop of run_stage3 is.
LoopInv == /\ ctl \in {"started", "ran", "failed"} => Listed(mem) = Before(at)
           /\ ctl = "marked" => Listed(mem) = Before(at + 1)
           /\ ctl = "next" => \E k \in at .. Last3 + 1 : Listed(mem) = Before(k)
           /\ ctl = "ran" /\ Step = "world_update" => world # "old"

\* What the state file has to do with memory.
SaveInv == /\ ctl \in {"off", "loaded"} => at = 1
           /\ ctl \in {"off", "loaded", "ran"} => Saved
           /\ ctl = "loaded" => mem = LoadState(file)
           /\ Saved /\ ctl \notin {"off", "loaded"} => file = mem
           /\ io = "open" => file = Empty
           /\ io = "save" /\ ctl # "marked" => Listed(LoadState(file)) = Listed(mem)
           /\ io = "save" /\ ctl = "marked" => Listed(LoadState(file)) = Before(at)

WorldInv == RecordInv(mem) /\ RecordInv(LoadState(file)) /\ LoopInv /\ SaveInv

-----------------------------------------------------------------------------
(* Lemmas about the four steps and the operations on records.              *)

\* The steps by their places.
LEMMA StepFacts == /\ Last3 = 4
                   /\ Stage3Steps[1] = "portage_update"
                   /\ Stage3Steps[2] = "world_update"
                   /\ Stage3Steps[3] = "cleanup"
                   /\ Stage3Steps[4] = "disable_agent"
                   /\ \A i \in 1 .. 4 : Stage3Steps[i] \in Names \cap Stage3Names
BY DEF Last3, Stage3Steps, Names, Stage3Names

\* What precedes a step grows by that step, which is not in it.
LEMMA BeforeNext == \A k \in 1 .. 4 : /\ Before(k + 1) = Before(k) \cup {Stage3Steps[k]}
                                      /\ Stage3Steps[k] \notin Before(k)
<1> TAKE k \in 1 .. 4
<1>1. 1 .. (k + 1) - 1 = (1 .. k - 1) \cup {k}
  OBVIOUS
<1>2. \A i, j \in 1 .. 4 : Stage3Steps[i] = Stage3Steps[j] => i = j
  BY StepFacts
<1> QED BY <1>1, <1>2 DEF Before

\* Nothing precedes the first step, all of Stage 3 precedes its end, and
\* emerge @world precedes what comes after it.
LEMMA BeforeEnds == /\ Before(1) = {} /\ Before(5) = Stage3Names
                    /\ \A k \in 1 .. 5 : "world_update" \in Before(k) <=> k > 2
<1>1. Before(1) = {} /\ Before(5) = Stage3Names
  BY StepFacts DEF Before, Stage3Names, Last3
<1>2. ASSUME NEW k \in 1 .. 5 PROVE "world_update" \in Before(k) <=> k > 2
  BY StepFacts DEF Before
<1> QED BY <1>1, <1>2

\* A record lists what precedes at most one step.
LEMMA BeforeOnce == \A j, k \in 1 .. 5 : Before(j) = Before(k) => j = k
<1>1. \A i, j \in 1 .. 4 : Stage3Steps[i] = Stage3Steps[j] => i = j
  BY StepFacts
<1>2. ASSUME NEW j \in 1 .. 5, NEW k \in 1 .. 5, j < k PROVE Before(j) # Before(k)
  <2>1. Stage3Steps[j] \in Before(k) /\ Stage3Steps[j] \notin Before(j)
    BY <1>1, <1>2 DEF Before
  <2> QED BY <2>1
<1> QED BY <1>2

\* What loading gives, by the kind of file.
LEMMA LoadCases == /\ FreshState \in Record(Names)
                   /\ \A f \in Unreadable : LoadState(f) = FreshState
                   /\ \A rec \in Record(Names) : LoadState(rec) = rec
                   /\ \A f \in StateFile(Names) : LoadState(f) \in Record(Names)
<1>1. FreshState \in Record(Names)
  BY DEF FreshState, Record, Phases
<1>2. \A rec \in Record(Names) : LoadState(rec) = rec
  BY ContinuationAssumption DEF LoadState, Readable
<1> QED BY <1>1, <1>2 DEF LoadState, Readable, StateFile

\* A fresh record lists nothing and its phase is the first.
LEMMA FreshLists == Listed(FreshState) = {} /\ FreshState.phase = "stage1"
                    /\ FreshState.completed = {}
BY DEF Listed, FreshState

\* What the operations do to what a record lists, and to its phase.
LEMMA Operations ==
    ASSUME NEW rec \in Record(Names), NEW s \in Names
    PROVE  /\ MarkStarted(rec, s) \in Record(Names)
           /\ MarkStarted(rec, s).completed = rec.completed
           /\ MarkStarted(rec, s).phase = rec.phase
           /\ MarkDone(rec, s) \in Record(Names)
           /\ MarkDone(rec, s).completed = rec.completed \cup {s}
           /\ MarkDone(rec, s).phase = rec.phase
           /\ MarkFailed(rec, s) \in Record(Names)
           /\ MarkFailed(rec, s).completed = rec.completed
           /\ MarkFailed(rec, s).phase = rec.phase
           /\ \A ph \in Phases : /\ SetPhase(rec, ph) \in Record(Names)
                                 /\ SetPhase(rec, ph).completed = rec.completed
                                 /\ SetPhase(rec, ph).phase = ph
BY DEF MarkStarted, MarkDone, MarkFailed, SetPhase, Record

\* What Stage 1 hands over is a record, which lists nothing of Stage 3 and
\* whose phase is "stage1_complete".
LEMMA HandedOverFacts ==
    \A rec \in HandedOver : /\ rec \in Record(Names)
                            /\ Stage3Names \cap rec.completed = {}
                            /\ rec.phase = "stage1_complete"
<1>1. HandedOver \subseteq Record(Names)
  <2>1. /\ Stage1Done \subseteq Names /\ AgentStep \in Names /\ UnmountStep \in Names
    BY ContinuationAssumption DEF Names
  <2>2. ASSUME NEW rec \in HandedOver PROVE rec \in Record(Names)
    <3>1. PICK done \in SUBSET Names, step \in Names :
              rec = [phase |-> "stage1_complete", completed |-> done, current |-> step,
                     failed |-> NoStep, config |-> {AgentStep}]
      <4> DEFINE Made(done, step) ==
                     [phase |-> "stage1_complete", completed |-> done, current |-> step,
                      failed |-> NoStep, config |-> {AgentStep}]
      <4>1. rec = Made(Stage1Done \ {AgentStep}, AgentStep) \/ rec = Made(Stage1Done, UnmountStep)
        BY DEF HandedOver, FreshState
      <4> HIDE DEF Made
      <4>2. \E done \in SUBSET Names, step \in Names : rec = Made(done, step)
        BY <2>1, <4>1
      <4> QED BY <4>2 DEF Made
    <3>2. "stage1_complete" \in Phases
      BY DEF Phases
    <3> QED BY <2>1, <3>1, <3>2 DEF Record
  <2> QED BY <2>2
<1>2. \A s \in Stage3Names : s \notin Stage1Done
  BY ContinuationAssumption DEF Stage3Names
<1>3. \A rec \in HandedOver : /\ rec.completed \subseteq Stage1Done
                              /\ rec.phase = "stage1_complete"
  BY DEF HandedOver, FreshState
<1> QED BY <1>1, <1>2, <1>3

\* The service's command line only makes argparse exit.
LEMMA ServiceDoesNothing == ServiceStarts => UNCHANGED <<process, file, world>>
BY DEF ServiceStarts, Run, Dispatch, ServiceArgv

-----------------------------------------------------------------------------
(* Type correctness.                                                       *)

LEMMA InitTypeOK == Init => TypeOK
<1> SUFFICES ASSUME Init PROVE TypeOK
  OBVIOUS
<1>1. HandedOver \subseteq Record(Names)
  BY HandedOverFacts
<1>2. 1 \in 1 .. Len(Stage3Steps) + 1
  BY StepFacts DEF Last3
<1> QED BY <1>1, <1>2, LoadCases DEF Init, TypeOK, StateFile, Worlds, Ctl, Io

LEMMA NextTypeOK == TypeOK /\ [Next]_vars => TypeOK'
<1> SUFFICES ASSUME TypeOK, [Next]_vars PROVE TypeOK'
  OBVIOUS
<1> USE DEF TypeOK, system, process, Pending, Off, Saved, Executes
<1>l. Len(Stage3Steps) = 4 /\ 1 \in 1 .. Len(Stage3Steps) + 1
  BY StepFacts DEF Last3
<1>s. at \in 1 .. 4 => Step \in Names
  BY StepFacts DEF Step
<1>f. /\ Empty \in StateFile(Names) /\ mem \in StateFile(Names)
      /\ FreshState \in Record(Names) /\ LoadState(file) \in Record(Names)
  BY LoadCases DEF StateFile, Unreadable
<1>o. ASSUME Off, UNCHANGED <<file, init, enabled, world, calm>>, due' \in BOOLEAN
      PROVE  TypeOK'
  BY <1>o, <1>l, <1>f DEF Ctl, Io
<1>c. ASSUME UNCHANGED <<file, init, due, calm, at>>, enabled' \in BOOLEAN,
             world' \in Worlds, mem' \in Record(Names),
             ctl' \in Ctl, io' \in Io,
             ctl' \in {"started", "ran", "marked", "failed"} => Pending
      PROVE  TypeOK'
  BY <1>c
<1>1. CASE ServiceStarts
  <2>1. UNCHANGED <<process, file, world>>
    BY <1>1, ServiceDoesNothing
  <2> QED BY <1>1, <2>1 DEF ServiceStarts
<1>2. CASE UserContinues
  BY <1>2, <1>f, <1>c DEF UserContinues, Run, Dispatch, Ctl
<1>3. CASE Refuse \/ GiveUp \/ Exit \/ Kill
  BY <1>3, <1>o DEF Refuse, GiveUp, Exit, Kill
<1>4. CASE Accept
  BY <1>4, <1>c, <1>f, Operations, StepFacts DEF Accept, Save, Phases, Ctl, Io
<1>5. CASE SkipStep
  BY <1>5, <1>l DEF SkipStep
<1>6. CASE StartStep
  BY <1>6, <1>l, <1>s, <1>c, Operations DEF StartStep, Save, Ctl, Io
<1>7. CASE Sync \/ Cleanup
  BY <1>7, <1>c DEF Sync, Cleanup, Ctl
<1>8. CASE World
  <2>1. world' \in Worlds
    BY <1>8 DEF World, Worlds
  <2> QED BY <1>8, <2>1, <1>c DEF World, Ctl
<1>9. CASE DisableAgent
  BY <1>9, <1>c DEF DisableAgent, Ctl
<1>10. CASE MarkStepDone
  BY <1>10, <1>l, <1>s, <1>c, Operations DEF MarkStepDone, Save, Ctl, Io
<1>11. CASE NextBlock
  BY <1>11, <1>l DEF NextBlock, Ctl
<1>12. CASE Complete
  BY <1>12, <1>c, Operations, StepFacts DEF Complete, Save, Phases, Ctl, Io
<1>13. CASE OpenFile \/ WriteFile
  BY <1>13, <1>f DEF OpenFile, WriteFile, Io
<1>14. CASE WorldFails
  BY <1>14, <1>l, <1>s, <1>c, Operations DEF WorldFails, Save, Ctl, Io
<1>15. CASE Reboot
  BY <1>15, <1>o DEF Reboot
<1>16. CASE CalmDown \/ UNCHANGED vars
  BY <1>16 DEF CalmDown, vars
<1> QED BY <1>1, <1>2, <1>3, <1>4, <1>5, <1>6, <1>7, <1>8, <1>9, <1>10, <1>11,
           <1>12, <1>13, <1>14, <1>15, <1>16 DEF Next, Runs, Disturbance

\* Every behaviour has the types TypeOK gives its variables; in particular the
\* loop of run_stage3 is in a step only while one is left.
THEOREM TypeCorrect == Spec => []TypeOK
BY InitTypeOK, NextTypeOK, PTL DEF Spec

-----------------------------------------------------------------------------
(* The records, the loop and the saves.                                    *)

\* A record's invariant survives a change of neither its list nor, unless all
\* is listed, its phase.
LEMMA RecordChanges ==
    ASSUME NEW a, NEW b, RecordInv(a), b.completed = a.completed,
           b.phase = "complete" => a.phase = "complete" \/ Listed(a) = Stage3Names
    PROVE  RecordInv(b)
BY DEF RecordInv, Listed

LEMMA InitWorldInv == Init => WorldInv
<1> SUFFICES ASSUME Init PROVE WorldInv
  OBVIOUS
<1>1. file \in Record(Names) /\ Listed(file) = {} /\ file.phase = "stage1_complete"
      /\ "world_update" \notin file.completed
  BY HandedOverFacts, StepFacts DEF Init, Listed
<1>2. LoadState(file) = file
  BY <1>1, LoadCases
<1>3. RecordInv(file) /\ RecordInv(FreshState)
  BY <1>1, StepFacts, BeforeEnds, FreshLists DEF RecordInv
<1> QED BY <1>2, <1>3 DEF Init, WorldInv, LoopInv, SaveInv, Saved

\* Where the loop finds a step that the record does not list, the record
\* lists exactly what precedes that step.
LEMMA PendingIsNext ==
    ASSUME TypeOK, WorldInv, ctl = "next", Pending, ~IsDone(mem, Step)
    PROVE  Listed(mem) = Before(at)
<1>1. at \in 1 .. 4 /\ Stage3Steps[at] \notin Listed(mem)
  BY StepFacts DEF TypeOK, Pending, Last3, IsDone, Step, Listed
<1>2. PICK k \in at .. 5 : Listed(mem) = Before(k)
  BY StepFacts DEF WorldInv, LoopInv
<1>3. ~(at < k)
  BY <1>1, <1>2 DEF Before
<1> QED BY <1>1, <1>2, <1>3

\* Where it finds one that is listed, so is everything before the next.
LEMMA DoneIsPast ==
    ASSUME TypeOK, WorldInv, ctl = "next", Pending, IsDone(mem, Step)
    PROVE  \E k \in at + 1 .. 5 : Listed(mem) = Before(k)
<1>1. at \in 1 .. 4 /\ Stage3Steps[at] \in Listed(mem)
  BY StepFacts DEF TypeOK, Pending, Last3, IsDone, Step, Listed
<1>2. PICK k \in at .. 5 : Listed(mem) = Before(k)
  BY StepFacts DEF WorldInv, LoopInv
<1>3. k # at
  BY <1>1, <1>2, BeforeNext
<1> QED BY <1>1, <1>2, <1>3

\* Recording the step that is next lists one step more, and what precedes the
\* step after it.
LEMMA DoneLists ==
    ASSUME TypeOK, WorldInv, ctl = "ran"
    PROVE  /\ at \in 1 .. 4
           /\ Listed(MarkDone(mem, Step)) = Before(at + 1)
           /\ RecordInv(MarkDone(mem, Step))
<1>1. at \in 1 .. 4 /\ mem \in Record(Names) /\ Step \in Names \cap Stage3Names
  BY StepFacts DEF TypeOK, Pending, Last3, Step
<1>2. /\ MarkDone(mem, Step).completed = mem.completed \cup {Step}
      /\ MarkDone(mem, Step).phase = mem.phase
  BY <1>1, Operations
<1>3. Listed(mem) = Before(at)
  BY DEF WorldInv, LoopInv
<1>4. Listed(MarkDone(mem, Step)) = Before(at + 1)
  BY <1>1, <1>2, <1>3, BeforeNext DEF Listed, Step
<1>5. "world_update" \in mem.completed \cup {Step} => world # "old"
  BY DEF WorldInv, RecordInv, LoopInv
<1>6. mem.phase = "complete" => Listed(MarkDone(mem, Step)) = Stage3Names
  BY <1>1, <1>2 DEF WorldInv, RecordInv, Listed
<1>7. at + 1 \in 1 .. 5
  BY <1>1
<1> QED BY <1>1, <1>2, <1>4, <1>5, <1>6, <1>7, StepFacts DEF RecordInv

LEMMA NextWorldInv == TypeOK /\ WorldInv /\ [Next]_vars => WorldInv'
<1> SUFFICES ASSUME TypeOK, WorldInv, [Next]_vars PROVE WorldInv'
  OBVIOUS
<1> USE DEF system, process, Saved
<1>t. /\ mem \in Record(Names) /\ file \in StateFile(Names) /\ ctl \in Ctl
      /\ at \in 1 .. 5 /\ io \in Io /\ Last3 = 4
      /\ ctl \in {"started", "ran", "marked", "failed"} => at \in 1 .. 4
  BY StepFacts DEF TypeOK, Pending, Last3
<1>h. RecordInv(mem) /\ RecordInv(LoadState(file)) /\ LoopInv /\ SaveInv
  BY DEF WorldInv
<1>f. RecordInv(FreshState) /\ LoadState(mem) = mem
      /\ LoadState(Empty) = FreshState
  BY <1>t, StepFacts, BeforeEnds, FreshLists, LoadCases DEF RecordInv, Unreadable
<1>w. \A rec : RecordInv(rec) /\ world' = world => RecordInv(rec)'
  BY DEF RecordInv
\* A run ends.
<1>o. ASSUME Off, UNCHANGED <<file, world>> PROVE WorldInv'
  BY <1>o, <1>h, <1>f DEF Off, WorldInv, RecordInv, LoopInv, SaveInv
<1>1. CASE ServiceStarts \/ CalmDown \/ UNCHANGED vars
  <2>1. UNCHANGED <<file, world, mem, ctl, at, io>>
    BY <1>1, ServiceDoesNothing DEF CalmDown, vars
  <2> QED BY <2>1, <1>h DEF WorldInv, RecordInv, LoopInv, SaveInv, Step
<1>2. CASE UserContinues
  <2>1. /\ ctl = "off" /\ ctl' = "loaded" /\ mem' = LoadState(file)
        /\ UNCHANGED <<file, world, at, io>>
    BY <1>2 DEF UserContinues, Run, Dispatch
  <2> QED BY <2>1, <1>h DEF WorldInv, RecordInv, LoopInv, SaveInv
<1>3. CASE Refuse \/ GiveUp \/ Exit \/ Kill \/ Reboot
  BY <1>3, <1>o DEF Refuse, GiveUp, Exit, Kill, Reboot
<1>4. CASE Accept
  <2>1. /\ ctl = "loaded" /\ ctl' = "next" /\ io' = "save" /\ at' = at
        /\ UNCHANGED <<file, world>> /\ mem' = SetPhase(mem, "stage3")
    BY <1>4 DEF Accept, Save
  <2>2. mem'.completed = mem.completed /\ mem'.phase = "stage3"
    <3>1. "stage3" \in Phases
      BY DEF Phases
    <3>2. AgentStep \in Names
      BY ContinuationAssumption DEF Names
    <3> QED BY <2>1, <3>1, <3>2, <1>t, Operations
  <2>3. RecordInv(mem')
    BY <2>2, <1>h, RecordChanges
  <2>4. Listed(mem') = Listed(mem)
    BY <2>2 DEF Listed
  <2>5. at = 1 /\ mem = LoadState(file) /\ \E k \in 1 .. 5 : Listed(mem) = Before(k)
    BY <2>1, <1>h, <1>t DEF SaveInv, RecordInv
  <2>6. LoopInv'
    BY <2>1, <2>4, <2>5, <1>t DEF LoopInv
  <2>7. SaveInv'
    BY <2>1, <2>4, <2>5 DEF SaveInv
  <2> QED BY <2>1, <2>3, <2>6, <2>7, <1>h DEF WorldInv, RecordInv
<1>5. CASE SkipStep
  <2>1. /\ ctl = "next" /\ io = "none" /\ at' = at + 1 /\ Pending /\ IsDone(mem, Step)
        /\ UNCHANGED <<file, world, mem, ctl, io>>
    BY <1>5 DEF SkipStep
  <2>2. \E k \in at + 1 .. 5 : Listed(mem) = Before(k)
    BY <2>1, DoneIsPast
  <2>3. LoopInv'
    BY <2>1, <2>2, <1>t DEF LoopInv
  <2>4. SaveInv'
    BY <2>1, <1>h DEF SaveInv
  <2> QED BY <2>1, <2>3, <2>4, <1>h DEF WorldInv, RecordInv
\* The record changes in neither its list nor its phase, in a step's block.
<1>s. ASSUME ctl' \in {"started", "failed"}, UNCHANGED <<file, world, at>>, io = "none",
             io' = "save", ctl \in {"next", "started"}, Listed(mem) = Before(at),
             mem'.completed = mem.completed, mem'.phase = mem.phase
      PROVE  WorldInv'
  <2>1. RecordInv(mem') /\ Listed(mem') = Listed(mem)
    BY <1>s, <1>h, RecordChanges DEF Listed
  <2>2. LoadState(file) = mem
    BY <1>s, <1>h, <1>f DEF SaveInv
  <2>3. LoopInv'
    BY <1>s, <2>1 DEF LoopInv
  <2>4. SaveInv'
    BY <1>s, <2>1, <2>2 DEF SaveInv
  <2> QED BY <1>s, <2>1, <2>3, <2>4, <1>h DEF WorldInv, RecordInv
<1>6. CASE StartStep
  <2>1. ctl = "next" /\ Pending /\ ~IsDone(mem, Step) /\ mem' = MarkStarted(mem, Step)
    BY <1>6 DEF StartStep, Save
  <2>2. Listed(mem) = Before(at) /\ Step \in Names
    BY <2>1, <1>t, PendingIsNext, StepFacts DEF Pending, Step, Last3
  <2> QED BY <1>6, <2>1, <2>2, <1>s, <1>t, Operations DEF StartStep, Save
<1>7. CASE WorldFails
  <2>1. /\ ctl = "started" /\ mem' = MarkFailed(mem, Step) /\ Step = "world_update"
    BY <1>7 DEF WorldFails, Save, Executes
  <2>2. Listed(mem) = Before(at) /\ Step \in Names
    BY <2>1, <1>h, <1>t, StepFacts DEF LoopInv, Step
  <2> QED BY <1>7, <2>1, <2>2, <1>s, <1>t, Operations DEF WorldFails, Save, Executes
\* A step's command is over.
<1>r. ASSUME ctl = "started", io = "none", ctl' = "ran", UNCHANGED <<file, mem, at, io>>,
             world' # "old" \/ (world' = world /\ Step # "world_update")
      PROVE  WorldInv'
  <2>1. LoopInv'
    BY <1>r, <1>h DEF LoopInv, Step
  <2>2. SaveInv'
    BY <1>r, <1>h DEF SaveInv
  <2>3. RecordInv(mem)' /\ RecordInv(LoadState(file))'
    BY <1>r, <1>h DEF RecordInv
  <2> QED BY <2>1, <2>2, <2>3 DEF WorldInv
<1>8. CASE Sync \/ Cleanup \/ DisableAgent
  BY <1>8, <1>r DEF Sync, Cleanup, DisableAgent, Executes
<1>9. CASE World
  <2>1. world' # "old"
    BY <1>9 DEF World
  <2>2. ctl = "started" /\ io = "none" /\ ctl' = "ran" /\ UNCHANGED <<file, mem, at, io>>
    BY <1>9 DEF World, Executes
  <2> QED BY <2>1, <2>2, <1>r
<1>10. CASE MarkStepDone
  <2>1. /\ ctl = "ran" /\ ctl' = "marked" /\ io' = "save" /\ mem' = MarkDone(mem, Step)
        /\ UNCHANGED <<file, world, at>>
    BY <1>10 DEF MarkStepDone, Save
  <2>2. at \in 1 .. 4 /\ Listed(mem') = Before(at + 1) /\ RecordInv(mem')
    BY <2>1, DoneLists
  <2>3. Listed(LoadState(file)) = Before(at)
    BY <2>1, <1>h, <1>f DEF SaveInv, LoopInv
  <2>4. LoopInv' /\ SaveInv'
    BY <2>1, <2>2, <2>3 DEF LoopInv, SaveInv
  <2> QED BY <2>1, <2>2, <2>4, <1>h DEF WorldInv, RecordInv
<1>11. CASE NextBlock
  <2>1. /\ ctl = "marked" /\ ctl' = "next" /\ at' = at + 1 /\ io = "none"
        /\ UNCHANGED <<file, world, mem, io>>
    BY <1>11 DEF NextBlock
  <2>2. at \in 1 .. 4 /\ Listed(mem) = Before(at + 1)
    BY <2>1, <1>t, <1>h DEF LoopInv
  <2>3. LoopInv'
    BY <2>1, <2>2, <1>t DEF LoopInv
  <2>4. SaveInv'
    BY <2>1, <1>h DEF SaveInv
  <2> QED BY <2>1, <2>3, <2>4, <1>h DEF WorldInv, RecordInv
<1>12. CASE Complete
  <2>1. /\ ctl = "next" /\ io = "none" /\ at = 5 /\ ctl' = "over" /\ io' = "save"
        /\ mem' = SetPhase(mem, "complete") /\ UNCHANGED <<file, world, at>>
    BY <1>12, <1>t DEF Complete, Save, Pending, Last3
  <2>2. mem'.completed = mem.completed /\ mem'.phase = "complete"
    <3>1. "complete" \in Phases
      BY DEF Phases
    <3>2. AgentStep \in Names
      BY ContinuationAssumption DEF Names
    <3> QED BY <2>1, <3>1, <3>2, <1>t, Operations
  <2>3. Listed(mem) = Stage3Names
    BY <2>1, <1>h, <1>t, BeforeEnds DEF LoopInv
  <2>4. RecordInv(mem') /\ Listed(mem') = Listed(mem)
    BY <2>2, <2>3, <1>h, RecordChanges DEF Listed
  <2>5. LoadState(file) = mem
    BY <2>1, <1>h, <1>f DEF SaveInv
  <2>6. LoopInv' /\ SaveInv'
    BY <2>1, <2>4, <2>5 DEF LoopInv, SaveInv
  <2> QED BY <2>1, <2>4, <2>6, <1>h DEF WorldInv, RecordInv
<1>13. CASE OpenFile
  <2>1. /\ io = "save" /\ io' = "open" /\ file' = Empty
        /\ UNCHANGED <<world, mem, ctl, at>>
    BY <1>13 DEF OpenFile
  <2>2. LoopInv'
    BY <2>1, <1>h DEF LoopInv, Step
  <2>3. SaveInv'
    BY <2>1, <1>h DEF SaveInv
  <2> QED BY <2>1, <2>2, <2>3, <1>h, <1>f DEF WorldInv, RecordInv
<1>14. CASE WriteFile
  <2>1. /\ io = "open" /\ io' = "none" /\ file' = mem
        /\ UNCHANGED <<world, mem, ctl, at>>
    BY <1>14 DEF WriteFile
  <2>2. LoopInv'
    BY <2>1, <1>h DEF LoopInv, Step
  <2>3. SaveInv'
    BY <2>1, <1>h DEF SaveInv
  <2> QED BY <2>1, <2>2, <2>3, <1>h, <1>f DEF WorldInv, RecordInv
<1> QED BY <1>1, <1>2, <1>3, <1>4, <1>5, <1>6, <1>7, <1>8, <1>9, <1>10, <1>11,
           <1>12, <1>13, <1>14 DEF Next, Runs, Disturbance

LEMMA Always == Spec => [](TypeOK /\ WorldInv)
BY InitTypeOK, NextTypeOK, InitWorldInv, NextWorldInv, PTL DEF Spec

-----------------------------------------------------------------------------
(* What follows.                                                           *)

\* emerge --depclean never runs, and no state file says the installation is
\* complete, before emerge @world has ended well; such a file lists all four
\* steps (agent.py 49-102).
THEOREM WorldComesFirst == Spec => []NothingBeforeWorld
<1>1. TypeOK /\ WorldInv => NothingBeforeWorld
  <2> SUFFICES ASSUME TypeOK, WorldInv PROVE NothingBeforeWorld
    OBVIOUS
  <2>h. RecordInv(mem) /\ RecordInv(LoadState(file)) /\ LoopInv
    BY DEF WorldInv
  <2>1. ASSUME Executes("cleanup") PROVE world # "old"
    <3>1. ctl = "started" /\ at \in 1 .. 4 /\ Step = "cleanup"
      BY <2>1, StepFacts DEF TypeOK, Executes, Pending, Last3
    <3>2. at = 3
      BY <3>1, StepFacts DEF Step
    <3>3. "world_update" \in Listed(mem)
      BY <3>1, <3>2, <2>h, BeforeEnds DEF LoopInv
    <3> QED BY <3>3, <2>h DEF RecordInv, Listed
  <2>2. ASSUME LoadState(file).phase = "complete"
        PROVE  world # "old" /\ \A i \in 1 .. Len(Stage3Steps) : IsDone(file, Stage3Steps[i])
    <3>1. LoadState(file) = file
      BY <2>2, FreshLists DEF LoadState
    <3>2. Stage3Names \subseteq LoadState(file).completed
      BY <2>2, <2>h DEF RecordInv, Listed
    <3>3. world # "old"
      BY <3>2, <2>h, StepFacts DEF RecordInv
    <3>4. \A i \in 1 .. Len(Stage3Steps) : Stage3Steps[i] \in file.completed
      BY <3>1, <3>2, StepFacts DEF Last3
    <3> QED BY <3>3, <3>4 DEF IsDone
  <2> QED BY <2>1, <2>2 DEF NothingBeforeWorld
<1> QED BY <1>1, Always, PTL

\* A run of emerge @world, however it ends, is of a world that the state file
\* does not list as updated (agent.py 62-83).
THEOREM WorldRunsOnce == Spec => WorldOnce
<1>1. TypeOK /\ WorldInv =>
        (Executes("world_update") => ~IsDone(LoadState(file), "world_update"))
  <2> SUFFICES ASSUME TypeOK, WorldInv, Executes("world_update")
               PROVE  ~IsDone(LoadState(file), "world_update")
    OBVIOUS
  <2>1. ctl = "started" /\ io = "none" /\ at \in 1 .. 4 /\ Step = "world_update"
    BY StepFacts DEF TypeOK, Executes, Saved, Pending, Last3
  <2>2. LoadState(file) = mem
    BY <2>1, LoadCases DEF WorldInv, SaveInv, Saved, TypeOK
  <2>3. Listed(mem) = Before(at)
    BY <2>1 DEF WorldInv, LoopInv
  <2>4. "world_update" \notin Listed(mem)
    BY <2>1, <2>3, BeforeNext DEF Step
  <2> QED BY <2>2, <2>4, StepFacts DEF IsDone, Listed
<1>2. TypeOK /\ WorldInv /\ [Next]_vars
        => [Executes("world_update") /\ ctl' # "started"
              => ~IsDone(LoadState(file), "world_update")]_vars
  BY <1>1
<1> QED BY <1>2, Always, PTL DEF Spec, WorldOnce

\* Whatever a run of continue saves, the phase is not behind that of the file it
\* replaces (main.py 116-126, agent.py 49-102).
THEOREM PhaseKeeps == Spec => PhaseForward
<1>1. TypeOK /\ WorldInv /\ [Next]_vars
        => [io # "save" /\ io' = "save"
              => Rank(LoadState(file).phase) <= Rank(mem'.phase)]_vars
  <2> SUFFICES ASSUME TypeOK, WorldInv, Next, io # "save", io' = "save"
               PROVE  Rank(LoadState(file).phase) <= Rank(mem'.phase)
    OBVIOUS
  <2>r. /\ Rank("stage1") = 0 /\ Rank("stage1_complete") = 1
        /\ Rank("stage3") = 2 /\ Rank("complete") = 3
    BY DEF Rank
  <2>t. mem \in Record(Names) /\ mem.phase \in Phases
    BY DEF TypeOK, Record
  <2>p. \A ph \in Phases : Rank(ph) \in 0 .. 3
    BY <2>r DEF Phases
  <2>1. CASE Accept
    <3>1. mem = LoadState(file) /\ mem.phase \in {"stage1_complete", "stage3"}
      BY <2>1 DEF Accept, Accepted, WorldInv, SaveInv
    <3>2. mem' = SetPhase(mem, "stage3")
      BY <2>1 DEF Accept, Save
    <3>3. mem'.phase = "stage3"
      BY <3>2, <2>t DEF SetPhase, Record
    <3> QED BY <3>1, <3>3, <2>r
  <2>2. CASE StartStep \/ MarkStepDone \/ WorldFails \/ Complete
    <3>1. Saved /\ ctl \notin {"off", "loaded"}
      BY <2>2 DEF StartStep, MarkStepDone, WorldFails, Complete, Executes, WorldInv, SaveInv
    <3>2. LoadState(file) = mem
      BY <3>1, <2>t, LoadCases DEF WorldInv, SaveInv
    <3>3. mem'.phase = mem.phase \/ mem'.phase = "complete"
      <4>1. CASE StartStep
        BY <4>1, <2>t DEF StartStep, Save, MarkStarted, Record
      <4>2. CASE MarkStepDone
        BY <4>2, <2>t DEF MarkStepDone, Save, MarkDone, Record
      <4>3. CASE WorldFails
        BY <4>3, <2>t DEF WorldFails, Save, MarkFailed, Record
      <4>4. CASE Complete
        BY <4>4, <2>t DEF Complete, Save, SetPhase, Record
      <4> QED BY <2>2, <4>1, <4>2, <4>3, <4>4
    <3>4. Rank(mem.phase) \in 0 .. 3
      BY <2>t, <2>p
    <3> QED BY <3>2, <3>3, <3>4, <2>r
  <2>3. ASSUME ~(\/ Accept \/ StartStep \/ MarkStepDone \/ WorldFails \/ Complete)
        PROVE  FALSE
    BY <2>3, ServiceDoesNothing
       DEF Next, Runs, Disturbance, UserContinues, Run, Refuse, SkipStep, Sync, World, Cleanup,
           DisableAgent, NextBlock, Exit, GiveUp, OpenFile, WriteFile, Kill, Reboot,
           CalmDown, process, Off
  <2> QED BY <2>1, <2>2, <2>3
<1> QED BY <1>1, Always, PTL DEF Spec, PhaseForward

-----------------------------------------------------------------------------
(* Stage 3 implements the journal.                                         *)

LEMMA JournalStep ==
    ASSUME TypeOK, WorldInv, [Next]_vars
    PROVE  Journal!JNext \/ Recorded' = Recorded
<1> USE DEF system, process, Saved
<1> DEFINE J == Journal!JNext \/ Recorded' = Recorded
<1>t. /\ mem \in Record(Names) /\ file \in StateFile(Names) /\ ctl \in Ctl
      /\ at \in 1 .. 5 /\ io \in Io /\ Last3 = 4
      /\ ctl \in {"started", "ran", "marked", "failed"} => at \in 1 .. 4
  BY StepFacts DEF TypeOK, Pending, Last3
<1>h. LoopInv /\ SaveInv
  BY DEF WorldInv
<1>r. /\ Recorded = IF ctl # "off" THEN Listed(mem) ELSE Listed(LoadState(file))
      /\ Recorded' = IF ctl' # "off" THEN Listed(mem)' ELSE Listed(LoadState(file'))
  BY DEF Recorded, Listed
<1>f. LoadState(mem) = mem
  BY <1>t, LoadCases
<1>k. \A k \in 1 .. 4 : Journal!Prefix(k - 1) = Before(k) /\ Journal!Prefix(k) = Before(k + 1)
  BY DEF Journal!Prefix, Before
<1>l. Len(Stage3Steps) = 4
  BY StepFacts DEF Last3
\* Memory lists the same as before.
<1>m. ASSUME ctl # "off", ctl' # "off", mem'.completed = mem.completed PROVE J
  BY <1>m, <1>r DEF Listed
\* What memory and the file list when no save is under way, and when one is.
<1>e. ctl = "off" \/ io = "none" => Recorded = Listed(LoadState(file))
  BY <1>r, <1>h, <1>f DEF SaveInv
<1>o. ASSUME Off, UNCHANGED file PROVE Recorded' = Listed(LoadState(file))
  BY <1>o, <1>r DEF Off
<1>1. CASE ServiceStarts \/ CalmDown \/ UNCHANGED vars
  <2>1. UNCHANGED <<file, mem, ctl>>
    BY <1>1, ServiceDoesNothing DEF CalmDown, vars
  <2> QED BY <2>1, <1>r DEF Listed
<1>2. CASE UserContinues
  <2>1. ctl = "off" /\ ctl' = "loaded" /\ mem' = LoadState(file)
    BY <1>2 DEF UserContinues, Run, Dispatch
  <2> QED BY <2>1, <1>r DEF Listed
<1>3. CASE Refuse \/ GiveUp \/ Exit
  <2>1. Off /\ UNCHANGED file /\ io = "none"
    BY <1>3, <1>h DEF Refuse, GiveUp, Exit, SaveInv
  <2> QED BY <2>1, <1>o, <1>e
<1>4. CASE Accept
  <2>1. "stage3" \in Phases /\ AgentStep \in Names
    BY ContinuationAssumption DEF Phases, Names
  <2>2. mem'.completed = mem.completed
    BY <1>4, <2>1, <1>t, Operations DEF Accept, Save
  <2> QED BY <1>4, <2>2, <1>m DEF Accept
<1>5. CASE SkipStep \/ NextBlock \/ Sync \/ World \/ Cleanup \/ DisableAgent
  BY <1>5, <1>m DEF SkipStep, NextBlock, Sync, World, Cleanup, DisableAgent, Executes
<1>6. CASE StartStep \/ WorldFails
  <2>1. at \in 1 .. 4
    BY <1>6, <1>t DEF StartStep, WorldFails, Executes, Pending, Last3
  <2>2. Step \in Names
    BY <2>1, StepFacts DEF Step
  <2>3. mem'.completed = mem.completed /\ ctl # "off" /\ ctl' # "off"
    BY <1>6, <2>2, <1>t, Operations DEF StartStep, WorldFails, Save, Executes
  <2> QED BY <2>3, <1>m
<1>7. CASE Complete
  <2>1. "complete" \in Phases /\ AgentStep \in Names
    BY ContinuationAssumption DEF Phases, Names
  <2>2. mem'.completed = mem.completed
    BY <1>7, <2>1, <1>t, Operations DEF Complete, Save
  <2> QED BY <1>7, <2>2, <1>m DEF Complete
<1>8. CASE MarkStepDone
  <2>1. ctl = "ran" /\ ctl' = "marked" /\ mem' = MarkDone(mem, Step)
    BY <1>8 DEF MarkStepDone, Save
  <2>2. at \in 1 .. 4 /\ Listed(mem)' = Before(at + 1)
    BY <2>1, DoneLists DEF Listed
  <2>3. Recorded = Before(at) /\ Recorded' = Before(at + 1)
    BY <2>1, <2>2, <1>r, <1>h DEF LoopInv
  <2>4. Journal!Append1
    BY <2>2, <2>3, <1>k, <1>l DEF Journal!Append1
  <2> QED BY <2>4 DEF Journal!JNext
<1>9. CASE OpenFile \/ WriteFile
  <2>1. ctl # "off" /\ UNCHANGED <<ctl, mem>>
    BY <1>9, <1>h DEF OpenFile, WriteFile, SaveInv
  <2> QED BY <2>1, <1>m
\* A stop in the middle of anything: the file's list is memory's, or memory's
\* without the step just marked.
<1>s. ASSUME Off, UNCHANGED file, file # Empty PROVE J
  <2>1. Recorded' = Listed(LoadState(file))
    BY <1>s, <1>o
  <2>2. io # "open"
    BY <1>s, <1>h DEF SaveInv
  <2>3. CASE io = "none"
    BY <2>1, <2>3, <1>e
  <2>4. CASE io = "save" /\ ctl # "marked"
    BY <2>1, <2>4, <1>r, <1>h DEF SaveInv
  <2>5. CASE io = "save" /\ ctl = "marked"
    <3>1. at \in 1 .. 4 /\ Recorded = Before(at + 1) /\ Recorded' = Before(at)
      BY <2>1, <2>5, <1>t, <1>r, <1>h DEF SaveInv, LoopInv
    <3>2. Journal!Slip
      BY <3>1, <1>k, <1>l DEF Journal!Slip
    <3> QED BY <3>2 DEF Journal!JNext
  <2> QED BY <2>2, <2>3, <2>4, <2>5, <1>t DEF Io
<1>10. CASE Kill
  <2>1. CASE file = Empty
    <3>1. "torn" \in Faults /\ Recorded' = Listed(LoadState(file))
      BY <1>10, <2>1, <1>o DEF Kill, May
    <3>2. Recorded' = {}
      BY <2>1, <3>1, LoadCases, FreshLists DEF Unreadable
    <3> QED BY <3>1, <3>2 DEF Journal!JNext, Journal!Lose
  <2> QED BY <1>10, <2>1, <1>s DEF Kill
<1>11. CASE Reboot
  BY <1>11, <1>s DEF Reboot
<1> QED BY <1>1, <1>2, <1>3, <1>4, <1>5, <1>6, <1>7, <1>8, <1>9, <1>10, <1>11
        DEF Next, Runs, Disturbance

\* Stage 3's recorded progress is a journal of its four steps: it grows a step
\* at a time, a stop costs at most the last, and all is lost only where a stop
\* may fall between the open and the write of a save.
THEOREM ImplementsJournal == Spec => KeepsJournal
<1>1. Init => Journal!JInit
  <2> SUFFICES ASSUME Init PROVE Recorded = {}
    BY DEF Journal!JInit
  <2>1. ctl = "off" /\ LoadState(file) = file
    BY HandedOverFacts, LoadCases DEF Init
  <2> QED BY <2>1, HandedOverFacts DEF Recorded, Init
<1>2. TypeOK /\ WorldInv /\ [Next]_vars => [Journal!JNext]_Recorded
  BY JournalStep
<1> QED BY <1>1, <1>2, Always, PTL DEF Spec, KeepsJournal, Journal!JSpec
=============================================================================
