-------------------------- MODULE StepRunnerProofs --------------------------
(***************************************************************************)
(* Proofs about StepRunner, for every plan that meets its assumptions.     *)
(***************************************************************************)
EXTENDS StepRunner, TLAPS

-----------------------------------------------------------------------------
(* Lemmas about the plan and the operations on records.                    *)

\* The plan has a length, its names are steps, and so are those before a step.
LEMMA PlanFacts == /\ N \in Nat
                   /\ \A i \in 1 .. N : Plan[i] \in Steps
                   /\ \A k \in 1 .. N + 1 : Before(k) \subseteq Steps
BY PlanAssumption DEF N, Steps, Before

\* Loading a state file always gives a record.
LEMMA LoadGivesRecord ==
    /\ FreshState \in Record(Steps)
    /\ \A file \in StateFile(Steps) : LoadState(file) \in Record(Steps)
BY DEF FreshState, Record, Phases, StateFile, LoadState, Readable

\* Every operation on a record gives a record.
LEMMA OperationsGiveRecords ==
    ASSUME NEW rec \in Record(Steps), NEW s \in Steps
    PROVE  /\ MarkStarted(rec, s) \in Record(Steps)
           /\ SetConfig(rec, s) \in Record(Steps)
           /\ MarkDone(rec, s) \in Record(Steps)
           /\ SetPhase(rec, "stage1_complete") \in Record(Steps)
BY DEF MarkStarted, SetConfig, MarkDone, SetPhase, Record, Phases

-----------------------------------------------------------------------------
(* Type correctness, for any number of processes and any faults.           *)

LEMMA InitTypeOK == Init => TypeOK
<1> SUFFICES ASSUME Init PROVE TypeOK
  OBVIOUS
<1>1. Absent \in StateFile(Steps)
  BY DEF StateFile, Unreadable
<1>2. 1 \in 1 .. N + 1
  BY PlanFacts
<1>3. FreshState \in Record(Steps)
  BY LoadGivesRecord
<1> QED BY <1>1, <1>2, <1>3 DEF Init, TypeOK, Ctl, InStep, Io

LEMMA NextTypeOK == TypeOK /\ [Next]_vars => TypeOK'
<1> SUFFICES ASSUME TypeOK, [Next]_vars PROVE TypeOK'
  OBVIOUS
<1> USE PlanFacts, LoadGivesRecord DEF TypeOK, files, system, GoTo
<1>a. /\ Absent \in StateFile(Steps) /\ Empty \in StateFile(Steps)
      /\ Torn \in StateFile(Steps)
      /\ \A rec \in Record(Steps) : rec \in StateFile(Steps)
  BY DEF StateFile, Unreadable
<1>o. ASSUME NEW p \in Procs, Off(p), UNCHANGED <<files, system>> PROVE TypeOK'
  BY <1>o DEF Off, Ctl, Io, InStep
<1>s. \A p \in Procs : at[p] <= N => Step(p) \in Steps
  BY DEF Step
<1>1. ASSUME NEW p \in Procs, Launch(p) PROVE TypeOK'
  BY <1>1 DEF Launch, Ctl, Io, InStep
<1>2. ASSUME NEW p \in Procs, SkipStep(p) PROVE TypeOK'
  BY <1>2 DEF SkipStep, Pending, Ctl, Io, InStep
<1>3. ASSUME NEW p \in Procs, StartStep(p) PROVE TypeOK'
  <2>1. MarkStarted(mem[p], Step(p)) \in Record(Steps)
    BY <1>3, <1>s, OperationsGiveRecords DEF StartStep, Pending
  <2> QED BY <1>3, <2>1 DEF StartStep, Save, Pending, Ctl, Io, InStep
<1>4. ASSUME NEW p \in Procs, BodyBegins(p) PROVE TypeOK'
  BY <1>4, <1>a DEF BodyBegins, Ctl, Io, InStep, Saved
<1>5. ASSUME NEW p \in Procs, BodyEnds(p) PROVE TypeOK'
  <2>1. Step(p) \in Steps /\ SetConfig(mem[p], Step(p)) \in Record(Steps)
    BY <1>5, <1>s, OperationsGiveRecords DEF BodyEnds, InStep
  <2> QED BY <1>5, <2>1 DEF BodyEnds, Save, Ctl, Io, InStep
<1>6. ASSUME NEW p \in Procs, FlipPhase(p) PROVE TypeOK'
  <2>1. SetPhase(mem[p], "stage1_complete") \in Record(Steps)
    BY <1>6, <1>s, OperationsGiveRecords DEF FlipPhase, InStep
  <2> QED BY <1>6, <2>1 DEF FlipPhase, Save, Ctl, Io, InStep
<1>7. ASSUME NEW p \in Procs, MarkStepDone(p) PROVE TypeOK'
  <2>1. MarkDone(mem[p], Step(p)) \in Record(Steps)
    BY <1>7, <1>s, OperationsGiveRecords DEF MarkStepDone, InStep
  <2> QED BY <1>7, <2>1 DEF MarkStepDone, Save, Ctl, Io, InStep
<1>8. ASSUME NEW p \in Procs, StepReturns(p) PROVE TypeOK'
  BY <1>8 DEF StepReturns, Ctl, Io, InStep
<1>9. ASSUME NEW p \in Procs, SaveStep(p) PROVE TypeOK'
  <2>1. \A f : Overwritten(f, mem[p]) \subseteq StateFile(Steps)
    BY <1>a DEF Overwritten
  <2> QED BY <1>9, <2>1, <1>a
          DEF SaveStep, OpenLive, WriteLive, OpenTarget, MissTarget, WriteTarget,
              Advance, Ctl, Io, InStep
<1>10. ASSUME NEW p \in Procs, Disturbed(p) PROVE TypeOK'
  <2>1. CASE StepFails(p) \/ Kill(p)
    BY <2>1, <1>o DEF StepFails, Kill
  <2>2. CASE Interrupt(p)
    BY <2>2 DEF Interrupt, Save, Ctl, Io, InStep
  <2>3. CASE LiveFails(p) \/ TargetFails(p)
    BY <2>3, <1>a DEF LiveFails, TargetFails, Advance, Ctl, Io, InStep
  <2> QED BY <1>10, <2>1, <2>2, <2>3 DEF Disturbed
<1>11. CASE Reboot
  <2>1. live' \in StateFile(Steps) /\ effects' \subseteq Steps
    BY <1>11, <1>a DEF Reboot
  <2>2. 1 \in 1 .. N + 1
    OBVIOUS
  <2> QED BY <1>11, <2>1, <2>2 DEF Reboot, Ctl, Io, InStep
<1>12. CASE UNCHANGED vars
  BY <1>12 DEF vars, process
<1>13. ASSUME NEW p \in Procs, Finish(p) \/ WipeRefused(p) \/ Reraise(p)
       PROVE TypeOK'
  BY <1>13, <1>o DEF Finish, WipeRefused, Reraise
<1>14. CASE CalmDown
  BY <1>14 DEF CalmDown, process
<1> QED BY <1>1, <1>2, <1>3, <1>4, <1>5, <1>6, <1>7, <1>8, <1>9, <1>10, <1>11,
           <1>12, <1>13, <1>14 DEF Next, Runs

\* Every behaviour has the types TypeOK gives its variables.
THEOREM TypeCorrect == Spec => []TypeOK
BY InitTypeOK, NextTypeOK, PTL DEF Spec

-----------------------------------------------------------------------------
(* Order of the records, for any number of processes and any faults.       *)

\* What loading gives, by the kind of file.
LEMMA LoadCases == /\ \A f \in Unreadable : LoadState(f) = FreshState
                   /\ \A rec \in Record(Steps) : LoadState(rec) = rec
BY PlanAssumption DEF LoadState, Readable

\* The set of the steps before the next index has one step more.
LEMMA BeforeNext == \A k \in 1 .. N : Before(k + 1) = Before(k) \cup {Plan[k]}
<1> TAKE k \in 1 .. N
<1>1. 1 .. (k + 1) - 1 = (1 .. (k - 1)) \cup {k}
  BY PlanFacts
<1> QED BY <1>1 DEF Before

\* A step is not among those before it.
LEMMA NotBefore == \A k \in 1 .. N : Plan[k] \notin Before(k)
BY PlanAssumption, PlanFacts DEF Before

\* A record that lists every step before one that it does not list, lists
\* nothing else.
LEMMA PendingIsNext ==
    ASSUME NEW rec, InOrder(rec), NEW k \in 1 .. N,
           Before(k) \subseteq rec.completed, Plan[k] \notin rec.completed
    PROVE  rec.completed = Before(k)
<1>1. PICK j \in 1 .. N + 1 : rec.completed = Before(j)
  BY DEF InOrder
<1>2. ~(k < j)
  BY <1>1, PlanFacts DEF Before
<1>3. Before(j) \subseteq Before(k)
  BY <1>2, PlanFacts DEF Before
<1> QED BY <1>1, <1>3

\* A fresh record is ordered, and so is a record that differs from an ordered
\* one in neither its phase nor its completed steps.
LEMMA OrderedBasics ==
    /\ Ordered(FreshState)
    /\ \A a, b : Ordered(a) /\ b.phase = a.phase /\ b.completed = a.completed => Ordered(b)
<1>1. Before(1) = {} /\ 1 \in 1 .. N + 1
  BY PlanFacts DEF Before
<1>2. Ordered(FreshState)
  BY <1>1 DEF Ordered, InOrder, Sealed, FreshState
<1>3. ASSUME NEW a, NEW b, Ordered(a), b.phase = a.phase, b.completed = a.completed
      PROVE  Ordered(b)
  BY <1>3 DEF Ordered, InOrder, Sealed
<1> QED BY <1>2, <1>3

\* The operations of a step keep a record ordered, at the step's place.
LEMMA OrderedOperations ==
    ASSUME NEW rec \in Record(Steps), Ordered(rec), NEW k \in 1 .. N,
           rec.completed = Before(k)
    PROVE  /\ Ordered(MarkStarted(rec, Plan[k]))
           /\ MarkStarted(rec, Plan[k]).completed = Before(k)
           /\ Ordered(SetConfig(rec, Plan[k]))
           /\ SetConfig(rec, Plan[k]).completed = Before(k)
           /\ Ordered(MarkDone(rec, Plan[k]))
           /\ MarkDone(rec, Plan[k]).completed = Before(k + 1)
           /\ Plan[k] = AgentStep => Ordered(SetPhase(rec, "stage1_complete"))
           /\ SetPhase(rec, "stage1_complete").completed = Before(k)
<1>1. /\ MarkStarted(rec, Plan[k]).completed = rec.completed
      /\ MarkStarted(rec, Plan[k]).phase = rec.phase
      /\ SetConfig(rec, Plan[k]).completed = rec.completed
      /\ SetConfig(rec, Plan[k]).phase = rec.phase
  BY DEF MarkStarted, SetConfig, Record
<1>2. /\ MarkDone(rec, Plan[k]).completed = rec.completed \cup {Plan[k]}
      /\ MarkDone(rec, Plan[k]).phase = rec.phase
      /\ SetPhase(rec, "stage1_complete").completed = rec.completed
  BY DEF MarkDone, SetPhase, Record
<1>3. MarkDone(rec, Plan[k]).completed = Before(k + 1)
  BY <1>2, BeforeNext
<1>4. Ordered(MarkDone(rec, Plan[k]))
  <2>1. k + 1 \in 1 .. N + 1
    BY PlanFacts
  <2>2. Sealed(MarkDone(rec, Plan[k]))
    BY <1>2 DEF Ordered, Sealed
  <2> QED BY <1>3, <2>1, <2>2 DEF Ordered, InOrder
<1>5. ASSUME Plan[k] = AgentStep
      PROVE  Ordered(SetPhase(rec, "stage1_complete"))
  <2>1. \A j \in 1 .. N : Plan[j] = AgentStep => j = k
    BY <1>5, PlanAssumption
  <2>2. Sealed(SetPhase(rec, "stage1_complete"))
    BY <1>2, <2>1 DEF Sealed
  <2> QED BY <1>2, <2>2 DEF Ordered, InOrder
<1> QED BY <1>1, <1>2, <1>3, <1>4, <1>5, OrderedBasics

LEMMA InitOrderInv == Init => OrderInv
BY OrderedBasics, LoadCases
   DEF Init, OrderInv, RecordsInOrder, LoopInv, Unreadable

LEMMA NextOrderInv == TypeOK /\ OrderInv /\ [Next]_vars => OrderInv'
<1> SUFFICES ASSUME TypeOK, OrderInv, [Next]_vars PROVE OrderInv'
  OBVIOUS
<1> USE DEF files, system, GoTo
<1>t. /\ mem \in [Procs -> Record(Steps)] /\ ctl \in [Procs -> Ctl]
      /\ at \in [Procs -> 1 .. N + 1] /\ io \in [Procs -> Io]
      /\ live \in StateFile(Steps) /\ target \in StateFile(Steps)
      /\ \A p \in Procs : ctl[p] \in InStep => at[p] \in 1 .. N
  BY PlanFacts DEF TypeOK
<1>l. /\ LoadState(Absent) = FreshState /\ LoadState(Empty) = FreshState
      /\ LoadState(Torn) = FreshState
  BY LoadCases DEF Unreadable
\* What a process does to its own record and to the files, in one place.
<1>m. ASSUME NEW p \in Procs, Ordered(mem'[p]),
             \A q \in Procs \ {p} : mem'[q] = mem[q],
             Ordered(LoadState(live')), Ordered(LoadState(target'))
      PROVE  RecordsInOrder'
  BY <1>m DEF OrderInv, RecordsInOrder
<1>n. ASSUME NEW p \in Procs,
             \A q \in Procs \ {p} : mem'[q] = mem[q] /\ ctl'[q] = ctl[q] /\ at'[q] = at[q],
             ctl'[p] = "off" => at'[p] = 1,
             ctl'[p] = "next" => Before(at'[p]) \subseteq mem'[p].completed,
             ctl'[p] \in {"started", "work", "ran", "sealed"}
               => mem'[p].completed = Before(at'[p]),
             ctl'[p] = "marked" => mem'[p].completed = Before(at'[p] + 1)
      PROVE  LoopInv'
  BY <1>n DEF OrderInv, LoopInv
<1>f. /\ Ordered(LoadState(live)) /\ Ordered(LoadState(target))
      /\ \A p \in Procs : Ordered(mem[p])
  BY DEF OrderInv, RecordsInOrder
<1>o. ASSUME NEW p \in Procs, Off(p), UNCHANGED <<files, system>> PROVE OrderInv'
  BY <1>o, <1>t, <1>m, <1>n, <1>f, OrderedBasics DEF Off, OrderInv
<1>s. ASSUME NEW p \in Procs, ctl[p] = "next", at[p] \in 1 .. N,
             Step(p) \notin mem[p].completed
      PROVE  mem[p].completed = Before(at[p])
  BY <1>s, <1>f, PendingIsNext DEF OrderInv, LoopInv, Ordered, Step
<1>1. ASSUME NEW p \in Procs, Launch(p) PROVE OrderInv'
  <2>1. mem'[p] = LoadState(live) /\ ctl'[p] = "next" /\ at' = at
    BY <1>1, <1>t DEF Launch
  <2>2. at[p] = 1 /\ Before(1) = {}
    BY <1>1, PlanFacts DEF Launch, OrderInv, LoopInv, Before
  <2>3. \A q \in Procs \ {p} : mem'[q] = mem[q] /\ ctl'[q] = ctl[q]
    BY <1>1, <1>t DEF Launch
  <2>4. UNCHANGED <<live, target>>
    BY <1>1 DEF Launch
  <2> QED BY <2>1, <2>2, <2>3, <2>4, <1>m, <1>n, <1>f DEF OrderInv
<1>2. ASSUME NEW p \in Procs, SkipStep(p) PROVE OrderInv'
  <2>1. /\ ctl[p] = "next" /\ at[p] \in 1 .. N /\ Plan[at[p]] \in mem[p].completed
        /\ at' = [at EXCEPT ![p] = @ + 1] /\ UNCHANGED <<live, target, mem, ctl>>
    BY <1>2, <1>t, PlanFacts DEF SkipStep, Pending, IsDone, Step
  <2>2. Before(at'[p]) \subseteq mem'[p].completed
    BY <2>1, <1>t, BeforeNext DEF OrderInv, LoopInv
  <2>3. \A q \in Procs \ {p} : at'[q] = at[q]
    BY <2>1, <1>t
  <2> QED BY <2>1, <2>2, <2>3, <1>m, <1>n, <1>f DEF OrderInv
<1>3. ASSUME NEW p \in Procs, StartStep(p) PROVE OrderInv'
  <2>1. /\ ctl[p] = "next" /\ at[p] \in 1 .. N /\ Step(p) \notin mem[p].completed
        /\ mem' = [mem EXCEPT ![p] = MarkStarted(mem[p], Step(p))]
        /\ ctl' = [ctl EXCEPT ![p] = "started"] /\ UNCHANGED <<live, target, at>>
    BY <1>3, <1>t, PlanFacts DEF StartStep, Pending, IsDone, Save
  <2>2. Ordered(mem'[p]) /\ mem'[p].completed = Before(at[p])
    BY <2>1, <1>s, <1>t, <1>f, OrderedOperations DEF Step
  <2> QED BY <2>1, <2>2, <1>t, <1>m, <1>n, <1>f DEF OrderInv
<1>4. ASSUME NEW p \in Procs, BodyBegins(p) PROVE OrderInv'
  <2>1. /\ ctl[p] = "started" /\ ctl' = [ctl EXCEPT ![p] = "work"]
        /\ UNCHANGED <<live, mem, at>> /\ target' \in {Absent, target}
    BY <1>4 DEF BodyBegins
  <2>2. Ordered(LoadState(target'))
    BY <2>1, <1>f, <1>l, OrderedBasics
  <2> QED BY <2>1, <2>2, <1>t, <1>m, <1>n, <1>f DEF OrderInv, LoopInv
<1>5. ASSUME NEW p \in Procs, BodyEnds(p) PROVE OrderInv'
  <2>1. /\ ctl[p] = "work" /\ ctl' = [ctl EXCEPT ![p] = "ran"]
        /\ UNCHANGED <<live, target, at>>
        /\ mem' \in {mem, [mem EXCEPT ![p] = SetConfig(mem[p], Step(p))]}
    BY <1>5 DEF BodyEnds, Save
  <2>2. at[p] \in 1 .. N /\ mem[p].completed = Before(at[p])
    BY <2>1, <1>t DEF InStep, OrderInv, LoopInv
  <2>3. Ordered(mem'[p]) /\ mem'[p].completed = Before(at[p])
    BY <2>1, <2>2, <1>t, <1>f, OrderedOperations DEF Step
  <2> QED BY <2>1, <2>3, <1>t, <1>m, <1>n, <1>f DEF OrderInv
<1>6. ASSUME NEW p \in Procs, FlipPhase(p) PROVE OrderInv'
  <2>1. /\ ctl[p] = "ran" /\ ctl' = [ctl EXCEPT ![p] = "sealed"]
        /\ UNCHANGED <<live, target, at>> /\ Step(p) = AgentStep
        /\ mem' = [mem EXCEPT ![p] = SetPhase(mem[p], "stage1_complete")]
    BY <1>6 DEF FlipPhase, Save
  <2>2. at[p] \in 1 .. N /\ mem[p].completed = Before(at[p])
    BY <2>1, <1>t DEF InStep, OrderInv, LoopInv
  <2>3. Ordered(mem'[p]) /\ mem'[p].completed = Before(at[p])
    BY <2>1, <2>2, <1>t, <1>f, OrderedOperations DEF Step
  <2> QED BY <2>1, <2>3, <1>t, <1>m, <1>n, <1>f DEF OrderInv
<1>7. ASSUME NEW p \in Procs, MarkStepDone(p) PROVE OrderInv'
  <2>1. /\ ctl[p] \in {"ran", "sealed"} /\ ctl' = [ctl EXCEPT ![p] = "marked"]
        /\ UNCHANGED <<live, target, at>>
        /\ mem' = [mem EXCEPT ![p] = MarkDone(mem[p], Step(p))]
    BY <1>7 DEF MarkStepDone, Save
  <2>2. at[p] \in 1 .. N /\ mem[p].completed = Before(at[p])
    BY <2>1, <1>t DEF InStep, OrderInv, LoopInv
  <2>3. Ordered(mem'[p]) /\ mem'[p].completed = Before(at[p] + 1)
    BY <2>1, <2>2, <1>t, <1>f, OrderedOperations DEF Step
  <2> QED BY <2>1, <2>3, <1>t, <1>m, <1>n, <1>f DEF OrderInv
<1>8. ASSUME NEW p \in Procs, StepReturns(p) PROVE OrderInv'
  <2>1. /\ ctl[p] = "marked" /\ ctl' = [ctl EXCEPT ![p] = "next"]
        /\ at' = [at EXCEPT ![p] = @ + 1] /\ UNCHANGED <<live, target, mem>>
    BY <1>8 DEF StepReturns
  <2>2. Before(at'[p]) \subseteq mem'[p].completed
    BY <2>1, <1>t DEF OrderInv, LoopInv
  <2> QED BY <2>1, <2>2, <1>t, <1>m, <1>n, <1>f DEF OrderInv
\* The files change, to what a process holds in memory or to nothing readable.
<1>w. ASSUME NEW p \in Procs, UNCHANGED <<mem, ctl, at>>,
             live' \in Unreadable \cup {live, mem[p]},
             target' \in Unreadable \cup {target, mem[p]}
      PROVE  OrderInv'
  <2>1. Ordered(LoadState(live')) /\ Ordered(LoadState(target'))
    BY <1>w, <1>t, <1>f, LoadCases, OrderedBasics
  <2>2. RecordsInOrder'
    BY <2>1, <1>w, <1>f DEF RecordsInOrder
  <2>3. LoopInv'
    BY <1>w DEF OrderInv, LoopInv
  <2> QED BY <2>2, <2>3 DEF OrderInv
<1>9. ASSUME NEW p \in Procs, SaveStep(p) PROVE OrderInv'
  <2>1. \A f : Overwritten(f, mem[p]) \subseteq Unreadable \cup {mem[p]}
    BY DEF Overwritten, Unreadable
  <2>2. /\ UNCHANGED <<mem, ctl, at>>
        /\ live' \in Unreadable \cup {live, mem[p]}
        /\ target' \in Unreadable \cup {target, mem[p]}
    BY <1>9, <2>1 DEF SaveStep, OpenLive, WriteLive, OpenTarget, MissTarget,
                      WriteTarget, Unreadable
  <2> QED BY <2>2, <1>w
<1>10. ASSUME NEW p \in Procs, Disturbed(p) PROVE OrderInv'
  <2>1. CASE StepFails(p) \/ Kill(p)
    BY <2>1, <1>o DEF StepFails, Kill
  <2>2. CASE Interrupt(p)
    <3>1. /\ mem' = [mem EXCEPT ![p] = mem[p]] /\ UNCHANGED <<live, target, at>>
          /\ ctl' = [ctl EXCEPT ![p] = "interrupted"]
      BY <2>2 DEF Interrupt, Save
    <3> QED BY <3>1, <1>t, <1>m, <1>n, <1>f DEF OrderInv
  <2>3. CASE LiveFails(p) \/ TargetFails(p)
    BY <2>3, <1>w DEF LiveFails, TargetFails, Unreadable
  <2> QED BY <1>10, <2>1, <2>2, <2>3 DEF Disturbed
<1>11. CASE Reboot
  <2>1. /\ live' \in {live, Absent} /\ target' = target
        /\ mem' = [p \in Procs |-> FreshState] /\ ctl' = [p \in Procs |-> "off"]
        /\ at' = [p \in Procs |-> 1]
    BY <1>11 DEF Reboot
  <2>2. RecordsInOrder'
    BY <2>1, <1>f, <1>l, OrderedBasics DEF RecordsInOrder
  <2>3. LoopInv'
    BY <2>1 DEF LoopInv
  <2> QED BY <2>2, <2>3 DEF OrderInv
<1>12. CASE UNCHANGED vars \/ CalmDown
  BY <1>12 DEF vars, process, CalmDown, OrderInv, RecordsInOrder, LoopInv
<1>13. ASSUME NEW p \in Procs, Finish(p) \/ WipeRefused(p) \/ Reraise(p)
       PROVE OrderInv'
  BY <1>13, <1>o DEF Finish, WipeRefused, Reraise
<1> QED BY <1>1, <1>2, <1>3, <1>4, <1>5, <1>6, <1>7, <1>8, <1>9, <1>10, <1>11,
           <1>12, <1>13 DEF Next, Runs

\* Whatever any number of processes, stops, failing writes and reboots do,
\* every record lists an initial piece of the plan.
THEOREM OrderKept == Spec => []RecordsInOrder
<1>1. OrderInv => RecordsInOrder
  BY DEF OrderInv
<1> QED BY <1>1, InitTypeOK, NextTypeOK, InitOrderInv, NextOrderInv, PTL DEF Spec

-----------------------------------------------------------------------------
(* One installer, no failing write, and live files that a reboot loses.    *)

Alone(p) == Procs = {p}
Reliable == "enospc" \notin Faults /\ LivePersists = FALSE

LEMMA InitSoloInv == Init => SoloInv
BY LoadCases
   DEF Init, SoloInv, SaveInv, MountInv, BodyInv, RecordedInPlace, WritesHitTarget,
       BehindInv, Held, Settled, FreshState, Unreadable

\* Save by save: the live file holds the record from WriteLive on.
LEMMA NextSaveInv ==
    ASSUME NEW p, Alone(p), Reliable, TypeOK, SaveInv, [Next]_vars
    PROVE  SaveInv'
<1> USE DEF files, system, GoTo, Alone, Saved
<1>t. /\ mem \in [Procs -> Record(Steps)] /\ ctl \in [Procs -> Ctl]
      /\ at \in [Procs -> 1 .. N + 1] /\ io \in [Procs -> Io]
  BY DEF TypeOK
<1>p. p \in Procs /\ \A q \in Procs : q = p
  OBVIOUS
<1>o. ASSUME Off(p), UNCHANGED <<files, system>> PROVE SaveInv'
  BY <1>o, <1>t, <1>p DEF Off, SaveInv
<1>1. CASE Launch(p)
  BY <1>1, <1>t, <1>p DEF Launch, SaveInv
<1>2. CASE SkipStep(p) \/ StartStep(p)
  BY <1>2, <1>t, <1>p DEF SkipStep, StartStep, Save, SaveInv
<1>3. CASE BodyBegins(p) \/ BodyEnds(p)
  <2>1. CASE BodyBegins(p)
    BY <2>1, <1>t, <1>p DEF BodyBegins, SaveInv
  <2>2. CASE BodyEnds(p)
    BY <2>2, <1>t, <1>p DEF BodyEnds, Save, SaveInv
  <2> QED BY <1>3, <2>1, <2>2
<1>4. CASE FlipPhase(p) \/ MarkStepDone(p)
  BY <1>4, <1>t, <1>p DEF FlipPhase, MarkStepDone, Save, SaveInv
<1>5. CASE StepReturns(p)
  <2>1. LoadState(mem[p]) = mem[p]
    BY <1>t, <1>p, LoadCases
  <2> QED BY <1>5, <2>1, <1>t, <1>p DEF StepReturns, SaveInv
<1>6. CASE OpenLive(p) \/ WriteLive(p)
  BY <1>6, <1>t, <1>p DEF OpenLive, WriteLive, Advance, Overwritten, SaveInv
<1>7. CASE OpenTarget(p) \/ MissTarget(p) \/ WriteTarget(p)
  BY <1>7, <1>t, <1>p
     DEF OpenTarget, MissTarget, WriteTarget, Advance, Overwritten, SaveInv
<1>8. CASE Interrupt(p)
  BY <1>8, <1>t, <1>p DEF Interrupt, Save, SaveInv, InStep
<1>9. CASE StepFails(p) \/ Kill(p) \/ Finish(p) \/ WipeRefused(p) \/ Reraise(p)
  BY <1>9, <1>o DEF StepFails, Kill, Finish, WipeRefused, Reraise
<1>10. CASE Reboot
  BY <1>10, <1>t DEF Reboot, SaveInv
<1>11. CASE UNCHANGED vars \/ CalmDown
  BY <1>11 DEF vars, process, CalmDown, SaveInv
<1>12. ~LiveFails(p) /\ ~TargetFails(p)
  BY DEF Reliable, LiveFails, TargetFails, May
<1> QED BY <1>1, <1>2, <1>3, <1>4, <1>5, <1>6, <1>7, <1>8, <1>9, <1>10, <1>11,
           <1>12, <1>p DEF Next, Runs, Disturbed, SaveStep

\* What the order of the plan says of a step whose body begins: before a step
\* in the target come the mount and no unmount, and all of them come before
\* the unmount.
LEMMA PlaceInPlan ==
    ASSUME NEW k \in 1 .. N
    PROVE  /\ Plan[k] \in InTarget => MountStep \in Before(k)
           /\ Plan[k] = UnmountStep => InTarget \subseteq Before(k)
           /\ Before(k) \cap Destroyed(Plan[k]) = {}
<1>1. ASSUME Plan[k] \in InTarget PROVE MountStep \in Before(k)
  <2>1. PICK i \in 1 .. N : Plan[i] = MountStep
    BY KindAssumption DEF Steps
  <2>2. i < k
    BY <1>1, <2>1, OrderAssumption
  <2> QED BY <2>1, <2>2, PlanFacts DEF Before
<1>2. ASSUME Plan[k] = UnmountStep, NEW s \in InTarget PROVE s \in Before(k)
  <2>1. PICK i \in 1 .. N : Plan[i] = s
    BY KindAssumption DEF Steps, OnDisk
  <2>2. i < k
    BY <1>2, <2>1, OrderAssumption
  <2> QED BY <2>1, <2>2, PlanFacts DEF Before
<1>3. ASSUME NEW i \in 1 .. N, Plan[k] \in Before(i), Plan[i] \in Before(k)
      PROVE  FALSE
  BY <1>3, PlanAssumption, PlanFacts DEF Before
<1> QED BY <1>1, <1>2, <1>3, NotBefore DEF Destroyed

\* The target is mounted whenever a step needs it.
LEMMA NextMountInv ==
    ASSUME NEW p, Alone(p), Reliable, TypeOK, OrderInv, SaveInv, MountInv,
           WritesHitTarget, [Next]_vars
    PROVE  MountInv' /\ WritesHitTarget'
<1> USE DEF files, system, GoTo, Alone, Saved
<1>t. /\ mem \in [Procs -> Record(Steps)] /\ ctl \in [Procs -> Ctl]
      /\ at \in [Procs -> 1 .. N + 1] /\ io \in [Procs -> Io]
      /\ ctl[p] \in InStep => at[p] \in 1 .. N
  BY PlanFacts DEF TypeOK
<1>p. p \in Procs /\ \A q \in Procs : q = p
  OBVIOUS
<1>h. Held(mem[p]) /\ Held(LoadState(live)) /\ Held(FreshState)
  BY <1>p DEF MountInv, Held, FreshState
\* Nothing is mounted or unmounted, and no record lists more.
<1>g. ASSUME mounted' = mounted, UNCHANGED at,
             mem'[p].completed \in {{}, mem[p].completed},
             LoadState(live').completed
               \in {{}, LoadState(live).completed, mem[p].completed},
             ctl'[p] \in {ctl[p], "off", "next", "started", "marked", "interrupted"}
               \/ (ctl[p] \in {"work", "ran"} /\ ctl'[p] \in {"ran", "sealed"})
      PROVE  MountInv' /\ WritesHitTarget'
  <2>1. Held(mem[p])' /\ Held(LoadState(live))'
    BY <1>g, <1>h DEF Held
  <2> QED BY <2>1, <1>g, <1>p DEF MountInv, WritesHitTarget, Step
<1>o. ASSUME Off(p), UNCHANGED <<files, system>>
      PROVE  MountInv' /\ WritesHitTarget'
  <2>1. /\ mem'[p] = FreshState /\ ctl'[p] = "off" /\ live' = live
        /\ mounted' = mounted
    BY <1>o, <1>t, <1>p DEF Off
  <2>2. Held(mem[p])' /\ Held(LoadState(live))'
    BY <2>1, <1>h DEF Held
  <2> QED BY <2>1, <2>2, <1>p DEF MountInv, WritesHitTarget
<1>1. CASE Launch(p)
  <2>1. mem'[p] = LoadState(live) /\ ctl'[p] = "next" /\ UNCHANGED <<live, mounted>>
    BY <1>1, <1>t, <1>p DEF Launch
  <2> QED BY <2>1, <1>h, <1>p DEF MountInv, WritesHitTarget, Held
<1>2. CASE SkipStep(p)
  <2>1. ctl'[p] = "next" /\ UNCHANGED <<mem, live, mounted>>
    BY <1>2, <1>p DEF SkipStep
  <2> QED BY <2>1, <1>h, <1>p DEF MountInv, WritesHitTarget, Held
<1>3. CASE StartStep(p)
  BY <1>3, <1>g, <1>t, <1>p DEF StartStep, Save, MarkStarted, Record
<1>4. CASE BodyBegins(p)
  <2> DEFINE s == Plan[at[p]]
  <2>1. /\ ctl[p] = "started" /\ ctl'[p] = "work" /\ UNCHANGED <<live, mem, at>>
        /\ mounted' = CASE s = MountStep   -> TRUE
                        [] s = UnmountStep -> FALSE
                        [] OTHER           -> mounted
        /\ io[p] = "none"
    BY <1>4, <1>t, <1>p DEF BodyBegins, Step
  <2>2. /\ at[p] \in 1 .. N /\ mem[p].completed = Before(at[p])
        /\ LoadState(live).completed = Before(at[p])
    BY <2>1, <1>t, <1>p, LoadCases DEF InStep, OrderInv, LoopInv, SaveInv
  <2>3. s \in InTarget => mounted'
    <3>1. s \in InTarget => mounted /\ s \notin {MountStep, UnmountStep}
      BY <2>2, <1>h, PlaceInPlan, NotBefore, KindAssumption DEF Held, OnDisk
    <3> QED BY <3>1, <2>1
  <2>4. mounted' = TRUE \/ mounted' = mounted \/ InTarget \subseteq Before(at[p])
    BY <2>1, <2>2, PlaceInPlan
  <2>5. s = MountStep => mounted'
    BY <2>1, KindAssumption
  <2>6. Held(mem[p])' /\ Held(LoadState(live))'
    BY <2>1, <2>2, <2>4, <1>h DEF Held
  <2> QED BY <2>1, <2>3, <2>5, <2>6, <1>p DEF MountInv, WritesHitTarget, Step
<1>5. CASE BodyEnds(p)
  <2>1. mem'[p].completed = mem[p].completed
    BY <1>5, <1>t, <1>p DEF BodyEnds, Save, SetConfig, Record
  <2> QED BY <1>5, <2>1, <1>g, <1>t, <1>p DEF BodyEnds
<1>6. CASE FlipPhase(p)
  BY <1>6, <1>g, <1>t, <1>p DEF FlipPhase, Save, SetPhase, Record
<1>7. CASE MarkStepDone(p)
  <2>1. /\ mem'[p].completed = mem[p].completed \cup {Step(p)}
        /\ ctl[p] \in {"ran", "sealed"} /\ ctl'[p] = "marked"
        /\ UNCHANGED <<live, mounted, at>>
    BY <1>7, <1>t, <1>p DEF MarkStepDone, Save, MarkDone, Record
  <2>2. Step(p) = MountStep => mounted
    BY <2>1, <1>p DEF MountInv
  <2>3. Held(mem[p])' /\ Held(LoadState(live))'
    BY <2>1, <2>2, <1>h DEF Held
  <2> QED BY <2>1, <2>3, <1>p DEF MountInv, WritesHitTarget
<1>8. CASE StepReturns(p)
  <2>1. ctl'[p] = "next" /\ UNCHANGED <<mem, live, mounted>>
    BY <1>8, <1>t, <1>p DEF StepReturns
  <2> QED BY <2>1, <1>h, <1>p DEF MountInv, WritesHitTarget, Held
<1>9. CASE SaveStep(p)
  <2>1. live' \in {live, Empty, mem[p]} /\ UNCHANGED <<mounted, mem, ctl, at>>
    BY <1>9, <1>p DEF SaveStep, OpenLive, WriteLive, OpenTarget, MissTarget,
                      WriteTarget, Advance, Overwritten, SaveInv
  <2>2. LoadState(live').completed \in {{}, LoadState(live).completed, mem[p].completed}
    BY <2>1, <1>t, <1>p, LoadCases DEF FreshState, Unreadable
  <2> QED BY <2>1, <2>2, <1>g
<1>10. CASE Interrupt(p)
  BY <1>10, <1>g, <1>t, <1>p DEF Interrupt, Save
<1>11. CASE StepFails(p) \/ Kill(p) \/ Finish(p) \/ WipeRefused(p) \/ Reraise(p)
  BY <1>11, <1>o DEF StepFails, Kill, Finish, WipeRefused, Reraise
<1>12. CASE Reboot
  <2>1. /\ live' = Absent /\ mem'[p] = FreshState /\ ctl'[p] = "off"
    BY <1>12, <1>p DEF Reboot, Reliable
  <2> QED BY <2>1, <1>p, LoadCases
          DEF MountInv, WritesHitTarget, Held, FreshState, Unreadable
<1>13. CASE UNCHANGED vars \/ CalmDown
  BY <1>13, <1>g DEF vars, process, CalmDown
<1>14. ~LiveFails(p) /\ ~TargetFails(p)
  BY DEF Reliable, LiveFails, TargetFails, May
<1> QED BY <1>1, <1>2, <1>3, <1>4, <1>5, <1>6, <1>7, <1>8, <1>9, <1>10, <1>11,
           <1>12, <1>13, <1>14, <1>p DEF Next, Runs, Disturbed

\* What is on record is in place.
LEMMA NextPlaceInv ==
    ASSUME NEW p, Alone(p), Reliable, TypeOK, OrderInv, SaveInv, MountInv, BodyInv,
           RecordedInPlace, WritesHitTarget, [Next]_vars
    PROVE  BodyInv' /\ RecordedInPlace'
<1> USE DEF files, system, GoTo, Alone, Saved
<1>t. /\ mem \in [Procs -> Record(Steps)] /\ ctl \in [Procs -> Ctl]
      /\ at \in [Procs -> 1 .. N + 1] /\ io \in [Procs -> Io]
      /\ ctl[p] \in InStep => at[p] \in 1 .. N
  BY PlanFacts DEF TypeOK
<1>p. p \in Procs /\ \A q \in Procs : q = p
  OBVIOUS
<1>h. /\ mem[p].completed \ {MountStep, UnmountStep} \subseteq effects
      /\ LoadState(live).completed \ {MountStep, UnmountStep} \subseteq effects
      /\ LoadState(target).completed \cap OnDisk \subseteq effects
      /\ mem[p].completed \cap OnDisk \subseteq effects
  BY <1>p, KindAssumption DEF RecordedInPlace, Settled
\* No result is lost, and nothing comes on record that was not.
<1>g. ASSUME effects \subseteq effects',
             mem'[p].completed
               \in {{}, mem[p].completed, LoadState(live).completed},
             LoadState(live').completed
               \in {{}, LoadState(live).completed, mem[p].completed},
             LoadState(target').completed
               \in {{}, LoadState(target).completed, mem[p].completed}
      PROVE  RecordedInPlace'
  BY <1>g, <1>h, <1>p DEF RecordedInPlace, Settled
<1>o. ASSUME Off(p), UNCHANGED <<files, system>>
      PROVE  BodyInv' /\ RecordedInPlace'
  <2>1. mem'[p].completed = {} /\ ctl'[p] = "off" /\ UNCHANGED <<live, target, effects>>
    BY <1>o, <1>t, <1>p DEF Off, FreshState
  <2> QED BY <2>1, <1>g, <1>p DEF BodyInv
<1>1. CASE Launch(p)
  <2>1. /\ mem'[p] = LoadState(live) /\ ctl'[p] = "next"
        /\ UNCHANGED <<live, target, effects>>
    BY <1>1, <1>t, <1>p DEF Launch
  <2> QED BY <2>1, <1>g, <1>p DEF BodyInv
<1>2. CASE SkipStep(p)
  <2>1. ctl'[p] = "next" /\ UNCHANGED <<mem, live, target, effects>>
    BY <1>2, <1>p DEF SkipStep
  <2> QED BY <2>1, <1>g, <1>p DEF BodyInv
<1>3. CASE StartStep(p)
  <2>1. /\ mem'[p].completed = mem[p].completed /\ ctl'[p] = "started"
        /\ UNCHANGED <<live, target, effects>>
    BY <1>3, <1>t, <1>p DEF StartStep, Save, MarkStarted, Record
  <2> QED BY <2>1, <1>g, <1>p DEF BodyInv
<1>4. CASE BodyBegins(p)
  <2> DEFINE s == Plan[at[p]]
  <2>1. /\ ctl[p] = "started" /\ ctl'[p] = "work" /\ UNCHANGED <<live, mem, at>>
        /\ io[p] = "none" /\ effects' = effects \ Destroyed(s)
        /\ target' = IF s \in Wipes THEN Absent ELSE target
    BY <1>4, <1>t, <1>p DEF BodyBegins, Step
  <2>2. /\ at[p] \in 1 .. N /\ mem[p].completed = Before(at[p])
        /\ LoadState(live).completed = Before(at[p])
    BY <2>1, <1>t, <1>p, LoadCases DEF InStep, OrderInv, LoopInv, SaveInv
  <2>3. Before(at[p]) \ {MountStep, UnmountStep} \subseteq effects'
    BY <2>1, <2>2, <1>h, PlaceInPlan
  <2>4. LoadState(target').completed \cap OnDisk \subseteq effects'
    <3>1. CASE s \in Wipes
      BY <2>1, <3>1, LoadCases DEF Unreadable, FreshState
    <3>2. CASE s \in InTarget
      <4>1. mounted
        BY <2>2, <3>2, <1>p, PlaceInPlan, NotBefore DEF MountInv, Held
      <4>2. target' = mem[p]
        BY <2>1, <3>2, <4>1, <1>p, KindAssumption DEF SaveInv
      <4>3. LoadState(target').completed = Before(at[p])
        BY <4>2, <2>2, <1>t, <1>p, LoadCases
      <4> QED BY <4>3, <2>3, KindAssumption
    <3>3. CASE s \notin OnDisk
      <4>1. Destroyed(s) = {s} /\ target' = target
        BY <2>1, <3>3 DEF Destroyed, OnDisk
      <4> QED BY <4>1, <2>1, <1>h, <3>3
    <3> QED BY <3>1, <3>2, <3>3 DEF OnDisk
  <2> QED BY <2>1, <2>2, <2>3, <2>4, <1>p DEF BodyInv, RecordedInPlace, Settled
<1>5. CASE BodyEnds(p)
  <2>1. /\ mem'[p].completed = mem[p].completed /\ ctl[p] = "work" /\ at' = at
        /\ UNCHANGED <<live, target>>
    BY <1>5, <1>t, <1>p DEF BodyEnds, Save, SetConfig, Record
  <2>2. effects' = effects \cup {Step(p)}
    BY <1>5, <2>1, <1>p DEF BodyEnds, WritesHitTarget
  <2> QED BY <2>1, <2>2, <1>g, <1>p DEF BodyInv, Step
<1>6. CASE FlipPhase(p)
  <2>1. /\ mem'[p].completed = mem[p].completed /\ ctl[p] = "ran"
        /\ UNCHANGED <<live, target, effects, at>>
    BY <1>6, <1>t, <1>p DEF FlipPhase, Save, SetPhase, Record
  <2> QED BY <2>1, <1>g, <1>p DEF BodyInv, Step
<1>7. CASE MarkStepDone(p)
  <2>1. /\ mem'[p].completed = mem[p].completed \cup {Step(p)}
        /\ ctl[p] \in {"ran", "sealed"} /\ ctl'[p] = "marked"
        /\ UNCHANGED <<live, target, effects>>
    BY <1>7, <1>t, <1>p DEF MarkStepDone, Save, MarkDone, Record
  <2>2. Step(p) \in effects
    BY <2>1, <1>p DEF BodyInv
  <2> QED BY <2>1, <2>2, <1>h, <1>p DEF BodyInv, RecordedInPlace, Settled
<1>8. CASE StepReturns(p)
  <2>1. ctl'[p] = "next" /\ UNCHANGED <<mem, live, target, effects>>
    BY <1>8, <1>t, <1>p DEF StepReturns
  <2> QED BY <2>1, <1>g, <1>p DEF BodyInv
<1>9. CASE SaveStep(p)
  <2>1. /\ live' \in {live, Empty, mem[p]} /\ target' \in {target, Empty, mem[p]}
        /\ UNCHANGED <<effects, mem, ctl, at>>
    BY <1>9, <1>p DEF SaveStep, OpenLive, WriteLive, OpenTarget, MissTarget,
                      WriteTarget, Advance, Overwritten, SaveInv
  <2>2. LoadState(Empty).completed = {} /\ LoadState(mem[p]) = mem[p]
    BY <1>t, <1>p, LoadCases DEF FreshState, Unreadable
  <2>3. RecordedInPlace'
    BY <2>1, <2>2, <1>g
  <2> QED BY <2>1, <2>3 DEF BodyInv, Step
<1>10. CASE Interrupt(p)
  <2>1. ctl'[p] = "interrupted" /\ UNCHANGED <<live, target, effects>> /\ mem' = mem
    BY <1>10, <1>t, <1>p DEF Interrupt, Save
  <2> QED BY <2>1, <1>g, <1>p DEF BodyInv
<1>11. CASE StepFails(p) \/ Kill(p) \/ Finish(p) \/ WipeRefused(p) \/ Reraise(p)
  BY <1>11, <1>o DEF StepFails, Kill, Finish, WipeRefused, Reraise
<1>12. CASE Reboot
  <2>1. /\ live' = Absent /\ mem'[p] = FreshState /\ ctl'[p] = "off"
        /\ target' = target /\ effects' = effects \cap OnDisk
    BY <1>12, <1>p DEF Reboot, Reliable
  <2> QED BY <2>1, <1>h, <1>p, LoadCases
          DEF BodyInv, RecordedInPlace, Settled, FreshState, Unreadable
<1>13. CASE UNCHANGED vars \/ CalmDown
  <2>1. RecordedInPlace'
    BY <1>13, <1>g DEF vars, process, CalmDown
  <2> QED BY <1>13, <2>1 DEF vars, process, CalmDown, BodyInv, Step
<1>14. ~LiveFails(p) /\ ~TargetFails(p)
  BY DEF Reliable, LiveFails, TargetFails, May
<1> QED BY <1>1, <1>2, <1>3, <1>4, <1>5, <1>6, <1>7, <1>8, <1>9, <1>10, <1>11,
           <1>12, <1>13, <1>14, <1>p DEF Next, Runs, Disturbed

\* A save that is still ahead is at most one step ahead of the live file.
LEMMA NextBehindInv ==
    ASSUME NEW p, Alone(p), Reliable, TypeOK, OrderInv, SaveInv, BehindInv, [Next]_vars
    PROVE  BehindInv'
<1> USE DEF files, system, GoTo, Alone, Saved
<1>t. /\ mem \in [Procs -> Record(Steps)] /\ ctl \in [Procs -> Ctl]
      /\ at \in [Procs -> 1 .. N + 1] /\ io \in [Procs -> Io]
      /\ ctl[p] \in InStep => at[p] \in 1 .. N
  BY PlanFacts DEF TypeOK
<1>p. p \in Procs /\ \A q \in Procs : q = p
  OBVIOUS
\* In a step whose save is over, the live file lists what memory lists.
<1>e. ctl[p] # "off" /\ io[p] \in {"none", "target", "targetOpen"}
      => LoadState(live).completed = mem[p].completed
  BY <1>t, <1>p, LoadCases DEF SaveInv
<1>0. ASSUME ctl'[p] \in {"off", "next"} \/ io'[p] # "live" PROVE BehindInv'
  BY <1>0, <1>p DEF BehindInv
\* The record changes in what it does not list, and a save begins.
<1>c. ASSUME live' = live, ctl[p] # "off", io[p] = "none",
             mem'[p].completed = mem[p].completed
      PROVE  BehindInv'
  BY <1>c, <1>e, <1>p DEF BehindInv
<1>o. ASSUME Off(p) PROVE BehindInv'
  BY <1>o, <1>t, <1>p, <1>0 DEF Off
<1>1. CASE Launch(p) \/ SkipStep(p) \/ StepReturns(p)
  BY <1>1, <1>t, <1>p, <1>0 DEF Launch, SkipStep, StepReturns
<1>2. CASE StartStep(p)
  BY <1>2, <1>c, <1>t, <1>p DEF StartStep, Save, MarkStarted, Record, SaveInv
<1>3. CASE BodyBegins(p)
  BY <1>3, <1>0, <1>t, <1>p DEF BodyBegins
<1>4. CASE BodyEnds(p)
  <2>1. mem'[p].completed = mem[p].completed
    BY <1>4, <1>t, <1>p DEF BodyEnds, Save, SetConfig, Record
  <2> QED BY <1>4, <2>1, <1>c DEF BodyEnds
<1>5. CASE FlipPhase(p)
  BY <1>5, <1>c, <1>t, <1>p DEF FlipPhase, Save, SetPhase, Record
<1>6. CASE MarkStepDone(p)
  <2>1. /\ mem'[p].completed = mem[p].completed \cup {Plan[at[p]]}
        /\ ctl[p] \in {"ran", "sealed"} /\ ctl'[p] = "marked" /\ io[p] = "none"
        /\ live' = live
    BY <1>6, <1>t, <1>p DEF MarkStepDone, Save, MarkDone, Record, Step
  <2>2. at[p] \in 1 .. N /\ mem[p].completed = Before(at[p])
    BY <2>1, <1>t, <1>p DEF InStep, OrderInv, LoopInv
  <2>3. mem'[p].completed = Before(at[p] + 1) /\ LoadState(live').completed = Before(at[p])
    BY <2>1, <2>2, <1>e, BeforeNext
  <2> QED BY <2>1, <2>2, <2>3, <1>p DEF BehindInv
<1>7. CASE SaveStep(p)
  <2>1. io'[p] # "live"
    BY <1>7, <1>t, <1>p DEF SaveStep, OpenLive, WriteLive, OpenTarget, MissTarget,
                            WriteTarget, Advance
  <2> QED BY <2>1, <1>0
<1>8. CASE Interrupt(p)
  <2>1. /\ ctl[p] \in InStep /\ ctl'[p] = "interrupted" /\ UNCHANGED <<live, mem>>
    BY <1>8, <1>t, <1>p DEF Interrupt, Save
  <2>2. CASE io[p] = "live"
    BY <2>1, <2>2, <1>p DEF BehindInv, InStep
  <2>3. CASE io[p] = "liveOpen"
    BY <2>1, <2>3, <1>p DEF BehindInv, SaveInv
  <2>4. CASE io[p] \in {"none", "target", "targetOpen"}
    BY <2>1, <2>4, <1>e, <1>p DEF BehindInv, InStep
  <2> QED BY <2>2, <2>3, <2>4, <1>t, <1>p DEF Io
<1>9. CASE StepFails(p) \/ Kill(p) \/ Finish(p) \/ WipeRefused(p) \/ Reraise(p)
  BY <1>9, <1>o DEF StepFails, Kill, Finish, WipeRefused, Reraise
<1>10. CASE Reboot
  BY <1>10, <1>0, <1>p DEF Reboot
<1>11. CASE UNCHANGED vars \/ CalmDown
  BY <1>11 DEF vars, process, CalmDown, BehindInv
<1>12. ~LiveFails(p) /\ ~TargetFails(p)
  BY DEF Reliable, LiveFails, TargetFails, May
<1> QED BY <1>1, <1>2, <1>3, <1>4, <1>5, <1>6, <1>7, <1>8, <1>9, <1>10, <1>11,
           <1>12, <1>p DEF Next, Runs, Disturbed

\* With one installer, no failing write and live files that a reboot loses,
\* the invariant SoloInv holds: what is on record is in place, and steps that
\* write into the target find it mounted.
THEOREM SoloSafe == ASSUME NEW p, Alone(p), Reliable
                    PROVE  Spec => []SoloInv
<1>1. Init => TypeOK /\ OrderInv /\ SoloInv
  BY InitTypeOK, InitOrderInv, InitSoloInv
<1>2. TypeOK /\ OrderInv /\ SoloInv /\ [Next]_vars => (TypeOK /\ OrderInv /\ SoloInv)'
  <2> SUFFICES ASSUME TypeOK, OrderInv, SoloInv, [Next]_vars
               PROVE  (TypeOK /\ OrderInv /\ SoloInv)'
    OBVIOUS
  <2>1. TypeOK' /\ OrderInv'
    BY NextTypeOK, NextOrderInv
  <2>2. SaveInv'
    BY NextSaveInv DEF SoloInv
  <2>3. MountInv' /\ WritesHitTarget'
    BY NextMountInv DEF SoloInv
  <2>4. BodyInv' /\ RecordedInPlace'
    BY NextPlaceInv DEF SoloInv
  <2>5. BehindInv'
    BY NextBehindInv DEF SoloInv
  <2> QED BY <2>1, <2>2, <2>3, <2>4, <2>5 DEF SoloInv
<1> QED BY <1>1, <1>2, PTL DEF Spec

\* The same for RecordedInPlace by itself.
THEOREM RecordKeptInPlace == ASSUME NEW p, Alone(p), Reliable
                             PROVE  Spec => []RecordedInPlace
<1>1. SoloInv => RecordedInPlace
  BY DEF SoloInv
<1> QED BY <1>1, SoloSafe, PTL

\* A target whose state file is past phase "stage1" has every result before
\* the agent's on its disk: the file lists those steps (OrderKept), and what
\* it lists of the disk's is in place (SoloSafe).
THEOREM BootReadyKept == ASSUME NEW p, Alone(p), Reliable
                         PROVE  Spec => []BootReady
<1>1. RecordsInOrder /\ SoloInv => BootReady
  <2> SUFFICES ASSUME RecordsInOrder, SoloInv, LoadState(target).phase # "stage1",
                      NEW i \in 1 .. N, NEW j \in 1 .. N,
                      Plan[i] \in OnDisk, Plan[j] = AgentStep, i < j
               PROVE  Plan[i] \in effects
    BY DEF BootReady
  <2>1. Before(j) \subseteq LoadState(target).completed
    BY DEF RecordsInOrder, Ordered, Sealed
  <2>2. Plan[i] \in Before(j)
    BY PlanFacts DEF Before
  <2> QED BY <2>1, <2>2 DEF SoloInv, RecordedInPlace
<1> QED BY <1>1, OrderKept, SoloSafe, PTL

\* A step that works below the mountpoint finds the target's root mounted
\* there, however the runs before it ended (main.py 58-89, s04_mount.py 55-58).
THEOREM WritesReachTarget == ASSUME NEW p, Alone(p), Reliable
                             PROVE  Spec => []WritesHitTarget
<1>1. SoloInv => WritesHitTarget
  BY DEF SoloInv
<1> QED BY <1>1, SoloSafe, PTL

\* The loop never passes a step that the live state file does not list.
THEOREM RecordedFirst == ASSUME NEW p, Alone(p), Reliable
                         PROVE  Spec => []RecordedBeforeNext
<1>1. OrderInv /\ SoloInv => RecordedBeforeNext
  BY DEF OrderInv, LoopInv, SoloInv, SaveInv, RecordedBeforeNext
<1>2. Spec => []OrderInv
  BY InitTypeOK, NextTypeOK, InitOrderInv, NextOrderInv, PTL DEF Spec
<1> QED BY <1>1, <1>2, SoloSafe, PTL

\* The order and the typing, as one invariant of every specification.
LEMMA Always == Spec => [](TypeOK /\ OrderInv)
BY InitTypeOK, NextTypeOK, InitOrderInv, NextOrderInv, PTL DEF Spec

\* No body begins of a step that the live state file lists.
THEOREM SkippedWhenDone == ASSUME NEW p, Alone(p), Reliable
                           PROVE  Spec => CompletedSkipped
<1>1. TypeOK /\ OrderInv /\ SoloInv /\ [Next]_vars => [NoneRedone]_vars
  <2> SUFFICES ASSUME TypeOK, OrderInv, SaveInv, Next,
                      ctl[p] = "started", ctl'[p] = "work"
               PROVE  Step(p) \notin LoadState(live).completed
    BY DEF SoloInv, Alone, NoneRedone
  <2>1. p \in Procs /\ \A q \in Procs : q = p
    BY DEF Alone
  <2>2. /\ ctl \in [Procs -> Ctl] /\ at[p] \in 1 .. N /\ mem[p] \in Record(Steps)
    BY <2>1, PlanFacts DEF TypeOK, InStep
  <2>3. BodyBegins(p)
    BY <2>1, <2>2
       DEF Next, Runs, Disturbed, SaveStep, Launch, SkipStep, StartStep, Finish,
           BodyEnds, FlipPhase, MarkStepDone, StepReturns, WipeRefused, Reraise,
           OpenLive, WriteLive, OpenTarget, MissTarget, WriteTarget, LiveFails,
           TargetFails, StepFails, Interrupt, Kill, Reboot, CalmDown, process,
           GoTo, Off
  <2>4. live = mem[p] /\ mem[p].completed = Before(at[p])
    BY <2>1, <2>3 DEF BodyBegins, Saved, SaveInv, OrderInv, LoopInv
  <2> QED BY <2>2, <2>4, LoadCases, NotBefore DEF Step
<1> QED BY <1>1, Always, SoloSafe, PTL DEF Spec, CompletedSkipped

-----------------------------------------------------------------------------
(* The step machine implements the journal.                                *)

LEMMA JournalStep ==
    ASSUME NEW p, Alone(p), Reliable, TypeOK, OrderInv, SoloInv, [Next]_vars
    PROVE  Journal!JNext \/ Recorded' = Recorded
<1> USE DEF files, system, GoTo, Alone, Saved
<1> DEFINE J == Journal!JNext \/ Recorded' = Recorded
<1>t. /\ mem \in [Procs -> Record(Steps)] /\ ctl \in [Procs -> Ctl]
      /\ at \in [Procs -> 1 .. N + 1] /\ io \in [Procs -> Io]
      /\ ctl[p] \in InStep => at[p] \in 1 .. N
  BY PlanFacts DEF TypeOK
<1>p. p \in Procs /\ \A q \in Procs : q = p
  OBVIOUS
<1>r. /\ Recorded = IF ctl[p] # "off" THEN mem[p].completed
                                      ELSE LoadState(live).completed
      /\ Recorded' = IF ctl'[p] # "off" THEN mem'[p].completed
                                        ELSE LoadState(live').completed
  BY <1>p DEF Recorded
<1>e. ctl[p] # "off" /\ io[p] \in {"none", "target", "targetOpen"}
      => LoadState(live).completed = mem[p].completed
  BY <1>t, <1>p, LoadCases DEF SoloInv, SaveInv
<1>k. \A k \in 1 .. N : Journal!Prefix(k - 1) = Before(k) /\ Journal!Prefix(k) = Before(k + 1)
  BY PlanFacts DEF Journal!Prefix, Before
\* Memory lists the same as before.
<1>m. ASSUME ctl[p] # "off", ctl'[p] # "off", mem'[p].completed = mem[p].completed
      PROVE  J
  BY <1>m, <1>r
\* A process stops whose save is over.
<1>o. ASSUME ctl[p] # "off", io[p] = "none", Off(p), live' = live PROVE J
  BY <1>o, <1>t, <1>p, <1>e, <1>r DEF Off
<1>1. CASE Launch(p)
  <2>1. /\ ctl[p] = "off" /\ ctl'[p] = "next" /\ mem'[p] = LoadState(live)
    BY <1>1, <1>t, <1>p DEF Launch
  <2> QED BY <2>1, <1>r
<1>2. CASE SkipStep(p) \/ StepReturns(p) \/ BodyBegins(p)
  BY <1>2, <1>m, <1>t, <1>p DEF SkipStep, StepReturns, BodyBegins
<1>3. CASE StartStep(p)
  BY <1>3, <1>m, <1>t, <1>p DEF StartStep, Save, MarkStarted, Record
<1>4. CASE BodyEnds(p)
  <2>1. mem'[p].completed = mem[p].completed
    BY <1>4, <1>t, <1>p DEF BodyEnds, Save, SetConfig, Record
  <2> QED BY <1>4, <2>1, <1>m, <1>t, <1>p DEF BodyEnds
<1>5. CASE FlipPhase(p)
  BY <1>5, <1>m, <1>t, <1>p DEF FlipPhase, Save, SetPhase, Record
<1>6. CASE MarkStepDone(p)
  <2>1. /\ mem'[p].completed = mem[p].completed \cup {Plan[at[p]]}
        /\ ctl[p] \in {"ran", "sealed"} /\ ctl'[p] = "marked"
    BY <1>6, <1>t, <1>p DEF MarkStepDone, Save, MarkDone, Record, Step
  <2>2. at[p] \in 1 .. N /\ mem[p].completed = Before(at[p])
    BY <2>1, <1>t, <1>p DEF InStep, OrderInv, LoopInv
  <2>3. Recorded = Before(at[p]) /\ Recorded' = Before(at[p] + 1)
    BY <2>1, <2>2, <1>r, BeforeNext
  <2>4. Journal!Append1
    BY <2>2, <2>3, <1>k DEF Journal!Append1, N
  <2> QED BY <2>4 DEF Journal!JNext
<1>7. CASE SaveStep(p)
  <2>1. ctl[p] # "off" /\ UNCHANGED <<ctl, mem>>
    BY <1>7, <1>t, <1>p DEF SaveStep, OpenLive, WriteLive, OpenTarget, MissTarget,
                            WriteTarget, Advance, SoloInv, SaveInv
  <2> QED BY <2>1, <1>m
<1>8. CASE Interrupt(p)
  BY <1>8, <1>m, <1>t, <1>p DEF Interrupt, Save, InStep
<1>9. CASE StepFails(p) \/ Finish(p) \/ WipeRefused(p) \/ Reraise(p)
  BY <1>9, <1>o, <1>p DEF StepFails, Finish, WipeRefused, Reraise, SoloInv, SaveInv
<1>10. CASE Kill(p)
  <2>1. /\ ctl[p] # "off" /\ ctl'[p] = "off" /\ live' = live
        /\ Empty \in {live, target} => "torn" \in Faults
    BY <1>10, <1>t, <1>p DEF Kill, Off, May
  <2>2. Recorded = mem[p].completed /\ Recorded' = LoadState(live).completed
    BY <2>1, <1>r
  <2>3. CASE live = Empty
    BY <2>1, <2>2, <2>3, LoadCases
       DEF Journal!JNext, Journal!Lose, Unreadable, FreshState
  <2>4. CASE Recorded' = Recorded
    BY <2>4
  <2>5. ASSUME NEW k \in 1 .. N, mem[p].completed = Before(k + 1),
               LoadState(live).completed = Before(k)
        PROVE  J
    BY <2>2, <2>5, <1>k DEF Journal!JNext, Journal!Slip, N
  <2>6. ctl[p] = "next" \/ io[p] # "live" => live = Empty \/ Recorded' = Recorded
    BY <2>1, <2>2, <1>e, <1>t, <1>p DEF SoloInv, SaveInv, Io
  <2>7. io[p] = "live" /\ ctl[p] # "next" =>
           \/ live = Empty \/ Recorded' = Recorded
           \/ \E k \in 1 .. N : /\ mem[p].completed = Before(k + 1)
                               /\ LoadState(live).completed = Before(k)
    BY <2>1, <2>2, <1>p DEF SoloInv, BehindInv
  <2> QED BY <2>3, <2>4, <2>5, <2>6, <2>7
<1>11. CASE Reboot
  <2>1. "reboot" \in Faults /\ live' = Absent /\ ctl'[p] = "off"
    BY <1>11, <1>p DEF Reboot, Reliable, May
  <2>2. Recorded' = {}
    BY <2>1, <1>r, LoadCases DEF Unreadable, FreshState
  <2> QED BY <2>1, <2>2 DEF Journal!JNext, Journal!Lose
<1>12. CASE UNCHANGED vars \/ CalmDown
  BY <1>12, <1>r DEF vars, process, CalmDown
<1>13. ~LiveFails(p) /\ ~TargetFails(p)
  BY DEF Reliable, LiveFails, TargetFails, May
<1> QED BY <1>1, <1>2, <1>3, <1>4, <1>5, <1>6, <1>7, <1>8, <1>9, <1>10, <1>11,
           <1>12, <1>13, <1>p DEF Next, Runs, Disturbed

\* Under the same assumptions the recorded progress is a journal: it grows one
\* step of the plan at a time, a stop costs at most the last step, and all is
\* lost only where a torn write or a reboot may happen.
THEOREM ImplementsJournal == ASSUME NEW p, Alone(p), Reliable
                             PROVE  Spec => KeepsJournal
<1>1. Init => Journal!JInit
  BY LoadCases DEF Init, Journal!JInit, Recorded, Unreadable, FreshState
<1>2. TypeOK /\ OrderInv /\ SoloInv /\ [Next]_vars => [Journal!JNext]_Recorded
  BY JournalStep
<1> QED BY <1>1, <1>2, Always, SoloSafe, PTL DEF Spec, KeepsJournal, Journal!JSpec
=============================================================================
