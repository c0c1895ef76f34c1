--------------------------- MODULE ChrootMountsProofs ---------------------------
(***************************************************************************)
(* One installer at a time: the body of a context finds everything mounted *)
(* and the context takes everything away, wherever earlier runs were cut   *)
(* off and however mounts are looked for.                                  *)
(***************************************************************************)
EXTENDS ChrootMounts, SequenceTheorems, TLAPS

Alone(p) == Procs = {p}

\* Where a loop has got to at each control point.
PlaceInv == \A p \in Procs :
    /\ ctl[p] \in {"mount", "slave", "umount"} => at[p] \in 1 .. L
    /\ ctl[p] = "test" => at[p] \in 1 .. L + 1
    /\ ctl[p] = "utest" => at[p] \in 0 .. L

\* At most one mount on each directory, dev/pts only on a mounted dev.
Single == /\ stack \in [Plain -> 0 .. 1]
          /\ dev \in Seq(0 .. 1) /\ Len(dev) \in 1 .. 2 /\ dev[1] = 0

NoneMounted == \A i \in 1 .. L : ~Mounted(BindMounts[i])

\* What a process knows of what is mounted: what its loop of mount_pseudofs
\* has passed is, what its loop of umount_pseudofs has passed is not, and its
\* last test is still true.
KnowsInv(p) ==
    /\ ctl[p] \in {"mount", "umount"} => (test[p] <=> Mounted(Rel(p)))
    /\ ctl[p] = "slave" => Mounted(Rel(p))
    /\ ctl[p] \in {"test", "mount", "slave"} =>
          \A i \in 1 .. L : i < at[p] => Mounted(BindMounts[i])
    /\ ctl[p] = "body" => \A i \in 1 .. L : Mounted(BindMounts[i])
    /\ ctl[p] \in {"utest", "umount"} =>
          \A i \in 1 .. L : i > at[p] => ~Mounted(BindMounts[i])
    /\ ctl[p] = "left" => NoneMounted

AllKnow == \A p \in Procs : KnowsInv(p)
-----------------------------------------------------------------------------
(* Types.                                                                  *)

LEMMA Entries == /\ L = 5
                 /\ \A i \in 1 .. L : BindMounts[i] \in Plain \cup {"dev", "dev/pts"}
                 /\ BindMounts[1] = "proc" /\ BindMounts[2] = "sys"
                 /\ BindMounts[3] = "dev" /\ BindMounts[4] = "dev/pts"
                 /\ BindMounts[5] = "run"
  <1>1. L = 5
    BY DEF L, BindMounts
  <1>2. /\ BindMounts[1] = "proc" /\ BindMounts[2] = "sys"
        /\ BindMounts[3] = "dev" /\ BindMounts[4] = "dev/pts"
        /\ BindMounts[5] = "run"
    BY DEF BindMounts
  <1>3. \A i \in 1 .. 5 : i = 1 \/ i = 2 \/ i = 3 \/ i = 4 \/ i = 5
    OBVIOUS
  <1> QED
    BY <1>1, <1>2, <1>3 DEF Plain

LEMMA Tested == \A rel : IsMounted(rel) \in BOOLEAN
  BY DEF IsMounted, Mounted

\* What happens to dev where something is mounted or detached.
LEMMA TopOfDev ==
    ASSUME NEW S, NEW d \in Seq(S), Len(d) > 0
    PROVE  Len(d) \in Nat /\ Last(d) = d[Len(d)] /\ Last(d) \in S
  <1>1. Len(d) \in Nat /\ Len(d) \in 1 .. Len(d)
    BY LenProperties
  <1>2. d[Len(d)] \in S
    BY <1>1, ElementOfSeq
  <1> QED
    BY <1>1, <1>2 DEF Last

LEMMA ChangeOnDev ==
    ASSUME NEW S, NEW d \in Seq(S), Len(d) > 0, NEW e \in S,
           NEW new, new = [d EXCEPT ![Len(d)] = e]
    PROVE  /\ new \in Seq(S) /\ Len(new) = Len(d) /\ new[Len(d)] = e
           /\ \A i \in 1 .. Len(d) - 1 : new[i] = d[i]
  <1>1. Len(d) \in Nat /\ Len(d) \in 1 .. Len(d)
    BY LenProperties
  <1>2. /\ new \in Seq(S) /\ Len(new) = Len(d)
        /\ \A j \in 1 .. Len(d) : new[j] = IF j = Len(d) THEN e ELSE d[j]
    BY <1>1, ExceptSeq
  <1>3. new[Len(d)] = e
    BY <1>1, <1>2
  <1>4. ASSUME NEW i \in 1 .. Len(d) - 1 PROVE new[i] = d[i]
    <2>1. i \in 1 .. Len(d) /\ i # Len(d)
      BY <1>1
    <2> QED
      BY <1>2, <2>1
  <1> QED
    BY <1>2, <1>3, <1>4

LEMMA PileOnDev ==
    ASSUME NEW S, NEW d \in Seq(S), Len(d) > 0, NEW e \in S
    PROVE  /\ Append(d, e) \in Seq(S) /\ Len(Append(d, e)) = Len(d) + 1
           /\ Last(Append(d, e)) = e
           /\ \A i \in 1 .. Len(d) : Append(d, e)[i] = d[i]
  BY LenProperties DEF Last

LEMMA TakeFromDev ==
    ASSUME NEW S, NEW d \in Seq(S), Len(d) > 1
    PROVE  /\ Front(d) \in Seq(S) /\ Len(Front(d)) = Len(d) - 1
           /\ \A i \in 1 .. Len(d) - 1 : Front(d)[i] = d[i]
  <1>1. Len(d) \in Nat /\ \A i \in 1 .. Len(d) - 1 : d[i] \in S
    BY LenProperties, ElementOfSeq
  <1> QED
    BY <1>1, SubSeqProperties DEF Front

\* mount(1) and umount(1) keep the stacks within the bound.
LEMMA MountOneTypes ==
    ASSUME TypeOK, NEW rel \in Plain \cup {"dev", "dev/pts"}, Room(rel), MountOne(rel)
    PROVE  /\ stack' \in [Plain -> 0 .. MaxStack]
           /\ dev' \in Seq(0 .. MaxStack) /\ Len(dev') \in 1 .. MaxStack + 1
  <1>1. /\ dev \in Seq(0 .. MaxStack) /\ Len(dev) > 0 /\ Len(dev) <= MaxStack + 1
        /\ MaxStack \in Nat /\ MaxStack > 0 /\ Len(dev) \in Nat
    BY MountsAssumption, LenProperties DEF TypeOK
  <1>2. CASE rel \in Plain
    <2>1. stack[rel] \in 0 .. MaxStack /\ stack[rel] < MaxStack
      BY <1>2 DEF TypeOK, Room, Plain
    <2>2. stack' = [stack EXCEPT ![rel] = @ + 1] /\ dev' = dev
      BY <1>2 DEF MountOne, Plain
    <2>3. stack[rel] + 1 \in 0 .. MaxStack
      BY <1>1, <2>1
    <2> QED
      BY <2>2, <2>3 DEF TypeOK
  <1>3. CASE rel = "dev"
    <2>1. stack' = stack /\ dev' = Append(dev, 1) /\ Len(dev) <= MaxStack
      BY <1>3 DEF MountOne, Room, Plain
    <2>2. dev' \in Seq(0 .. MaxStack) /\ Len(dev') = Len(dev) + 1
      BY <1>1, <2>1, PileOnDev
    <2> QED
      BY <1>1, <2>1, <2>2 DEF TypeOK
  <1>4. CASE rel = "dev/pts"
    <2>1. /\ stack' = stack /\ dev' = [dev EXCEPT ![Len(dev)] = dev[Len(dev)] + 1]
          /\ Last(dev) < MaxStack
      BY <1>4 DEF MountOne, Room, Plain
    <2>2. dev[Len(dev)] \in 0 .. MaxStack /\ dev[Len(dev)] < MaxStack
      BY <1>1, <2>1, TopOfDev
    <2>3. dev[Len(dev)] + 1 \in 0 .. MaxStack
      BY <1>1, <2>2
    <2>4. dev' \in Seq(0 .. MaxStack) /\ Len(dev') = Len(dev)
      BY <1>1, <2>1, <2>3, ChangeOnDev
    <2> QED
      BY <2>1, <2>4 DEF TypeOK
  <1> QED
    BY <1>2, <1>3, <1>4

LEMMA DetachOneTypes ==
    ASSUME TypeOK, NEW rel \in Plain \cup {"dev", "dev/pts"}, Mounted(rel), DetachOne(rel)
    PROVE  /\ stack' \in [Plain -> 0 .. MaxStack]
           /\ dev' \in Seq(0 .. MaxStack) /\ Len(dev') \in 1 .. MaxStack + 1
  <1>1. /\ dev \in Seq(0 .. MaxStack) /\ Len(dev) > 0 /\ Len(dev) <= MaxStack + 1
        /\ MaxStack \in Nat /\ MaxStack > 0 /\ Len(dev) \in Nat
    BY MountsAssumption, LenProperties DEF TypeOK
  <1>2. CASE rel \in Plain
    <2>1. stack[rel] \in 0 .. MaxStack /\ stack[rel] > 0
      BY <1>2 DEF TypeOK, Mounted, Plain
    <2>2. stack' = [stack EXCEPT ![rel] = @ - 1] /\ dev' = dev
      BY <1>2 DEF DetachOne, Plain
    <2>3. stack[rel] - 1 \in 0 .. MaxStack
      BY <1>1, <2>1
    <2> QED
      BY <2>2, <2>3 DEF TypeOK
  <1>3. CASE rel = "dev"
    <2>1. stack' = stack /\ dev' = Front(dev) /\ Len(dev) > 1
      BY <1>3 DEF DetachOne, Mounted, Plain
    <2>2. dev' \in Seq(0 .. MaxStack) /\ Len(dev') = Len(dev) - 1
      BY <1>1, <2>1, TakeFromDev
    <2>3. Len(dev) \in 1 .. MaxStack + 1 /\ stack' \in [Plain -> 0 .. MaxStack]
      BY <2>1 DEF TypeOK
    <2>4. Len(dev') \in 1 .. MaxStack + 1
      BY <1>1, <2>1, <2>2, <2>3
    <2> QED
      BY <2>2, <2>3, <2>4
  <1>4. CASE rel = "dev/pts"
    <2>1. /\ stack' = stack /\ dev' = [dev EXCEPT ![Len(dev)] = dev[Len(dev)] - 1]
          /\ Last(dev) > 0
      BY <1>4 DEF DetachOne, Mounted, Plain
    <2>2. dev[Len(dev)] \in 0 .. MaxStack /\ dev[Len(dev)] > 0
      BY <1>1, <2>1, TopOfDev
    <2>3. dev[Len(dev)] - 1 \in 0 .. MaxStack
      BY <1>1, <2>2
    <2>4. dev' \in Seq(0 .. MaxStack) /\ Len(dev') = Len(dev)
      BY <1>1, <2>1, <2>3, ChangeOnDev
    <2> QED
      BY <2>1, <2>4 DEF TypeOK
  <1> QED
    BY <1>2, <1>3, <1>4

LEMMA InitTypeOK == Init => TypeOK /\ PlaceInv
  <1> SUFFICES ASSUME Init PROVE TypeOK /\ PlaceInv
    OBVIOUS
  <1>1. dev \in Seq(0 .. MaxStack) /\ Len(dev) = 1
    BY MountsAssumption DEF Init
  <1> QED
    BY <1>1, Entries, MountsAssumption DEF Init, TypeOK, PlaceInv, Ctl

\* A process moves to another place in its loops.
LEMMA Moves ==
    ASSUME TypeOK, PlaceInv, NEW p \in Procs, NEW c \in Ctl, NEW i \in 0 .. L + 1,
           c \in {"mount", "slave", "umount"} => i \in 1 .. L,
           c = "test" => i \in 1 .. L + 1,
           c = "utest" => i \in 0 .. L,
           ctl' = [ctl EXCEPT ![p] = c], at' = [at EXCEPT ![p] = i]
    PROVE  ctl' \in [Procs -> Ctl] /\ at' \in [Procs -> 0 .. L + 1] /\ PlaceInv'
  <1>1. ctl' \in [Procs -> Ctl] /\ at' \in [Procs -> 0 .. L + 1]
    BY DEF TypeOK
  <1>2. ctl'[p] = c /\ at'[p] = i
    BY DEF TypeOK
  <1>3. \A q \in Procs \ {p} : ctl'[q] = ctl[q] /\ at'[q] = at[q]
    BY DEF TypeOK
  <1> QED
    BY <1>1, <1>2, <1>3 DEF PlaceInv

\* Each action is such a move.
LEMMA ActsTypes ==
    ASSUME TypeOK, PlaceInv, NEW p \in Procs, Acts(p), tool' = tool
    PROVE  TypeOK' /\ PlaceInv'
  <1> USE Entries DEF GoTo, LoopAt, KeepMounts
  <1>1. /\ ctl[p] \in Ctl /\ at[p] \in 0 .. L + 1
        /\ at = [at EXCEPT ![p] = at[p]] /\ tool \in BOOLEAN
    BY DEF TypeOK
  <1>2. /\ stack' \in [Plain -> 0 .. MaxStack]
        /\ dev' \in Seq(0 .. MaxStack) /\ Len(dev') \in 1 .. MaxStack + 1
    <2>1. CASE Mount(p)
      <3>1. Rel(p) \in Plain \cup {"dev", "dev/pts"}
        BY <2>1 DEF Mount, PlaceInv, Rel
      <3> QED
        BY <2>1, <3>1, MountOneTypes DEF Mount
    <2>2. CASE Umount(p)
      <3>1. Rel(p) \in Plain \cup {"dev", "dev/pts"}
        BY <2>2 DEF Umount, PlaceInv, Rel
      <3> QED
        BY <2>2, <3>1, DetachOneTypes DEF Umount, TypeOK
    <2>3. CASE UmountAll(p)
      BY <2>3, MountsAssumption DEF UmountAll
    <2>4. ASSUME KeepMounts
          PROVE  /\ stack' \in [Plain -> 0 .. MaxStack]
                 /\ dev' \in Seq(0 .. MaxStack) /\ Len(dev') \in 1 .. MaxStack + 1
      BY <2>4 DEF TypeOK
    <2> QED
      BY <2>1, <2>2, <2>3, <2>4
         DEF Acts, Enter, TestMount, Continue, MakeSlave, MountFails, EnterBody,
             LeaveBody, TestUmount, ExitContext, Kill
  <1>3. test' \in [Procs -> BOOLEAN]
    <2>1. test \in [Procs -> BOOLEAN]
      BY DEF TypeOK
    <2>2. CASE TestMount(p) \/ TestUmount(p)
      BY <2>1, <2>2, Tested DEF TestMount, TestUmount
    <2>3. CASE ~(TestMount(p) \/ TestUmount(p))
      <3>1. test' = test
        BY <2>3 DEF Acts, Enter, Continue, Mount, MakeSlave, MountFails, EnterBody,
                    LeaveBody, Umount, ExitContext, UmountAll, Kill
      <3> QED
        BY <2>1, <3>1
    <2> QED
      BY <2>2, <2>3
  <1>4. PICK c \in Ctl, i \in 0 .. L + 1 :
            /\ c \in {"mount", "slave", "umount"} => i \in 1 .. L
            /\ c = "test" => i \in 1 .. L + 1
            /\ c = "utest" => i \in 0 .. L
            /\ ctl' = [ctl EXCEPT ![p] = c] /\ at' = [at EXCEPT ![p] = i]
    <2> USE DEF Ctl
    <2>1. CASE Enter(p) \/ MountFails(p) \/ Kill(p) \/ ExitContext(p)
      BY <2>1 DEF Enter, MountFails, Kill, ExitContext
    <2>2. CASE TestMount(p) \/ EnterBody(p) \/ UmountAll(p) \/ TestUmount(p)
      <3>1. CASE TestMount(p)
        BY <1>1, <3>1 DEF TestMount, PlaceInv
      <3>2. CASE EnterBody(p)
        BY <1>1, <3>2 DEF EnterBody, PlaceInv
      <3>3. CASE UmountAll(p)
        BY <1>1, <3>3 DEF UmountAll, PlaceInv
      <3>4. CASE TestUmount(p)
        BY <1>1, <3>4 DEF TestUmount, PlaceInv
      <3> QED
        BY <2>2, <3>1, <3>2, <3>3, <3>4
    <2>3. CASE Continue(p) \/ MakeSlave(p) \/ Mount(p)
      <3>1. at[p] \in 1 .. L /\ at[p] + 1 \in 1 .. L + 1 /\ at[p] + 1 \in 0 .. L + 1
        BY <2>3 DEF Continue, MakeSlave, Mount, PlaceInv
      <3>2. CASE Continue(p)
        BY <1>1, <3>1, <3>2 DEF Continue
      <3>3. CASE MakeSlave(p)
        BY <1>1, <3>1, <3>3 DEF MakeSlave
      <3>4. CASE Mount(p)
        BY <1>1, <3>1, <3>4 DEF Mount
      <3> QED
        BY <2>3, <3>2, <3>3, <3>4
    <2>4. CASE LeaveBody(p)
      BY <2>4 DEF LeaveBody
    <2>5. CASE Umount(p)
      <3>1. at[p] \in 1 .. L /\ at[p] - 1 \in 0 .. L /\ at[p] - 1 \in 0 .. L + 1
        BY <2>5 DEF Umount, PlaceInv
      <3> QED
        BY <2>5, <3>1 DEF Umount
    <2> QED
      BY <2>1, <2>2, <2>3, <2>4, <2>5 DEF Acts
  <1>5. ctl' \in [Procs -> Ctl] /\ at' \in [Procs -> 0 .. L + 1] /\ PlaceInv'
    BY <1>4, Moves
  <1> QED
    BY <1>1, <1>2, <1>3, <1>5 DEF TypeOK

LEMMA NextTypeOK == TypeOK /\ PlaceInv /\ [Next]_vars => TypeOK' /\ PlaceInv'
  <1> SUFFICES ASSUME TypeOK, PlaceInv, [Next]_vars PROVE TypeOK' /\ PlaceInv'
    OBVIOUS
  <1>1. CASE UNCHANGED vars
    BY <1>1 DEF TypeOK, PlaceInv, vars
  <1> QED
    BY <1>1, ActsTypes DEF Next

\* For any number of installers at once, killed at any point, the loops stay
\* within _BIND_MOUNTS and no umount takes the bare directory away.
THEOREM TypeCorrect == Spec => []TypeOK
  BY InitTypeOK, NextTypeOK, PTL DEF Spec
-----------------------------------------------------------------------------
(* One installer.                                                          *)

LEMMA SingleDev ==
    ASSUME Single
    PROVE  /\ dev \in Seq(0 .. 1) /\ Len(dev) > 0
           /\ (Len(dev) = 1 /\ Last(dev) = 0) \/ (Len(dev) = 2 /\ Last(dev) \in 0 .. 1)
           /\ \A i \in DOMAIN dev : dev[i] > 0 => Len(dev) = 2 /\ Last(dev) > 0
  <1>1. /\ dev \in Seq(0 .. 1) /\ Len(dev) > 0 /\ dev[1] = 0
        /\ Len(dev) = 1 \/ Len(dev) = 2
    BY DEF Single
  <1>2. Last(dev) = dev[Len(dev)] /\ Last(dev) \in 0 .. 1
    BY <1>1, TopOfDev
  <1>3. DOMAIN dev = 1 .. Len(dev)
    BY <1>1, LenProperties
  <1>4. ASSUME NEW i \in DOMAIN dev, dev[i] > 0
        PROVE  Len(dev) = 2 /\ i = 2
    BY <1>1, <1>3, <1>4
  <1> QED
    BY <1>1, <1>2, <1>4

\* What is looked for in /proc/mounts is found where it is mounted only.
LEMMA TestIsRight == ASSUME Single, NEW rel
                     PROVE  IsMounted(rel) <=> Mounted(rel)
  BY SingleDev DEF IsMounted, Mounted, Plain

\* Each directory is mounted or not by its own stack.
LEMMA MountedAt ==
    /\ \A i \in {1, 2, 5} : Mounted(BindMounts[i]) <=> stack[BindMounts[i]] > 0
    /\ Mounted(BindMounts[3]) <=> Len(dev) > 1
    /\ Mounted(BindMounts[4]) <=> Last(dev) > 0
    /\ {BindMounts[i] : i \in {1, 2, 5}} = Plain
    /\ 1 .. L = {1, 2, 3, 4, 5}
    /\ BindMounts[1] # BindMounts[2] /\ BindMounts[2] # BindMounts[5]
    /\ BindMounts[1] # BindMounts[5]
  BY Entries DEF Mounted, Plain

LEMMA MountsOne ==
    ASSUME Single, NEW i \in 1 .. L, ~Mounted(BindMounts[i]),
           i = 4 => Mounted(BindMounts[3]), MountOne(BindMounts[i])
    PROVE  /\ Single' /\ Mounted(BindMounts[i])'
           /\ \A j \in 1 .. L : Mounted(BindMounts[j]) => Mounted(BindMounts[j])'
  <1>1. CASE i \in {1, 2, 5}
    <2>1. BindMounts[i] \in Plain /\ stack \in [Plain -> 0 .. 1] /\ stack[BindMounts[i]] = 0
      BY <1>1, MountedAt DEF Single
    <2>2. stack' = [stack EXCEPT ![BindMounts[i]] = 1] /\ dev' = dev
      BY <2>1 DEF MountOne, Plain
    <2>3. Single'
      BY <2>1, <2>2 DEF Single
    <2>4. \A rel \in Plain : stack[rel] > 0 \/ rel = BindMounts[i] => stack'[rel] > 0
      BY <2>1, <2>2
    <2> QED
      BY <1>1, <2>1, <2>2, <2>3, <2>4, Entries DEF Mounted, Plain
  <1>2. CASE i = 3
    <2>1. stack' = stack /\ dev' = Append(dev, 1)
      BY <1>2, Entries DEF MountOne, Plain
    <2>2. Len(dev) = 1 /\ Last(dev) = 0 /\ dev[1] = 0
      BY <1>2, MountedAt, SingleDev DEF Single
    <2>3. dev' \in Seq(0 .. 1) /\ Len(dev') = 2 /\ Last(dev') = 1 /\ dev'[1] = 0
      <3>1. dev \in Seq(0 .. 1) /\ Len(dev) > 0 /\ 1 \in 0 .. 1
        BY SingleDev
      <3>2. /\ Append(dev, 1) \in Seq(0 .. 1) /\ Len(Append(dev, 1)) = Len(dev) + 1
            /\ Last(Append(dev, 1)) = 1
            /\ \A k \in 1 .. Len(dev) : Append(dev, 1)[k] = dev[k]
        BY <3>1, PileOnDev
      <3> QED
        BY <2>1, <2>2, <3>2
    <2> QED
      BY <1>2, <2>1, <2>3, Entries DEF Single, Mounted, Plain
  <1>3. CASE i = 4
    <2>1. stack' = stack /\ dev' = [dev EXCEPT ![Len(dev)] = dev[Len(dev)] + 1]
      BY <1>3, Entries DEF MountOne, Plain
    <2>2. Len(dev) = 2 /\ Last(dev) = 0 /\ dev[1] = 0
      <3>1. Len(dev) > 1 /\ ~(Last(dev) > 0)
        BY <1>3, MountedAt
      <3> QED
        BY <3>1, SingleDev DEF Single
    <2>3. dev' = [dev EXCEPT ![Len(dev)] = 1]
      <3>1. dev[Len(dev)] = 0
        BY <2>2 DEF Last
      <3> QED
        BY <2>1, <3>1
    <2>4. /\ dev' \in Seq(0 .. 1) /\ Len(dev') = Len(dev) /\ Last(dev') = 1
          /\ \A k \in 1 .. Len(dev) - 1 : dev'[k] = dev[k]
      <3>1. dev \in Seq(0 .. 1) /\ Len(dev) > 0 /\ 1 \in 0 .. 1
        BY SingleDev
      <3>2. dev' \in Seq(0 .. 1) /\ Len(dev') = Len(dev) /\ Last(dev') = 1
        <4>1. dev' \in Seq(0 .. 1) /\ Len(dev') = Len(dev)
          BY <2>3, <3>1, ChangeOnDev
        <4>2. dev'[Len(dev)] = dev'[Len(dev')] /\ Last(dev') = dev'[Len(dev')]
          BY <4>1 DEF Last
        <4> QED
          BY <2>3, <3>1, <4>1, <4>2, ChangeOnDev
      <3>3. ASSUME NEW k \in 1 .. Len(dev) - 1 PROVE dev'[k] = dev[k]
        BY <2>3, <3>1, ChangeOnDev
      <3> QED
        BY <3>2, <3>3
    <2>5. dev'[1] = 0
      BY <2>2, <2>4
    <2> QED
      BY <1>3, <2>1, <2>2, <2>4, <2>5, Entries DEF Single, Mounted, Plain
  <1> QED
    BY <1>1, <1>2, <1>3, MountedAt

LEMMA DetachesOne ==
    ASSUME Single, NEW i \in 1 .. L, Mounted(BindMounts[i]),
           i = 3 => ~Mounted(BindMounts[4]), DetachOne(BindMounts[i])
    PROVE  /\ Single' /\ ~Mounted(BindMounts[i])'
           /\ \A j \in 1 .. L : ~Mounted(BindMounts[j]) => ~Mounted(BindMounts[j])'
  <1>1. CASE i \in {1, 2, 5}
    <2>1. BindMounts[i] \in Plain /\ stack \in [Plain -> 0 .. 1] /\ stack[BindMounts[i]] = 1
      BY <1>1, MountedAt DEF Single
    <2>2. stack' = [stack EXCEPT ![BindMounts[i]] = 0] /\ dev' = dev
      BY <2>1 DEF DetachOne, Plain
    <2>3. Single'
      BY <2>1, <2>2 DEF Single
    <2>4. \A rel \in Plain : ~(stack[rel] > 0) \/ rel = BindMounts[i] => ~(stack'[rel] > 0)
      BY <2>1, <2>2
    <2> QED
      BY <1>1, <2>1, <2>2, <2>3, <2>4, Entries DEF Mounted, Plain
  <1>2. CASE i = 3
    <2>1. stack' = stack /\ dev' = Front(dev)
      BY <1>2, Entries DEF DetachOne, Plain
    <2>2. Len(dev) = 2 /\ Last(dev) = 0 /\ dev[1] = 0
      <3>1. Len(dev) > 1 /\ ~(Last(dev) > 0)
        BY <1>2, MountedAt
      <3> QED
        BY <3>1, SingleDev DEF Single
    <2>3. dev' \in Seq(0 .. 1) /\ Len(dev') = 1 /\ dev'[1] = 0
      <3>1. dev \in Seq(0 .. 1) /\ Len(dev) > 1
        BY <2>2, SingleDev
      <3>2. /\ Front(dev) \in Seq(0 .. 1) /\ Len(Front(dev)) = Len(dev) - 1
            /\ \A k \in 1 .. Len(dev) - 1 : Front(dev)[k] = dev[k]
        BY <3>1, TakeFromDev
      <3> QED
        BY <2>1, <2>2, <3>2
    <2>4. Last(dev') = 0
      BY <2>3 DEF Last
    <2> QED
      BY <1>2, <2>1, <2>3, <2>4, Entries DEF Single, Mounted, Plain
  <1>3. CASE i = 4
    <2>1. stack' = stack /\ dev' = [dev EXCEPT ![Len(dev)] = dev[Len(dev)] - 1]
      BY <1>3, Entries DEF DetachOne, Plain
    <2>2. Len(dev) = 2 /\ Last(dev) = 1 /\ dev[1] = 0
      BY <1>3, MountedAt, SingleDev DEF Single
    <2>3. dev' = [dev EXCEPT ![Len(dev)] = 0]
      <3>1. dev[Len(dev)] = 1
        BY <2>2 DEF Last
      <3> QED
        BY <2>1, <3>1
    <2>4. /\ dev' \in Seq(0 .. 1) /\ Len(dev') = Len(dev) /\ Last(dev') = 0
          /\ \A k \in 1 .. Len(dev) - 1 : dev'[k] = dev[k]
      <3>1. dev \in Seq(0 .. 1) /\ Len(dev) > 0 /\ 0 \in 0 .. 1
        BY SingleDev
      <3>2. dev' \in Seq(0 .. 1) /\ Len(dev') = Len(dev) /\ Last(dev') = 0
        <4>1. dev' \in Seq(0 .. 1) /\ Len(dev') = Len(dev)
          BY <2>3, <3>1, ChangeOnDev
        <4>2. dev'[Len(dev)] = dev'[Len(dev')] /\ Last(dev') = dev'[Len(dev')]
          BY <4>1 DEF Last
        <4> QED
          BY <2>3, <3>1, <4>1, <4>2, ChangeOnDev
      <3>3. ASSUME NEW k \in 1 .. Len(dev) - 1 PROVE dev'[k] = dev[k]
        BY <2>3, <3>1, ChangeOnDev
      <3> QED
        BY <3>2, <3>3
    <2>5. dev'[1] = 0
      BY <2>2, <2>4
    <2> QED
      BY <1>3, <2>1, <2>2, <2>4, <2>5, Entries DEF Single, Mounted, Plain
  <1> QED
    BY <1>1, <1>2, <1>3, MountedAt

\* Two states that differ in no mount.
LEMMA SameMounts == ASSUME KeepMounts, NEW rel
                    PROVE  Mounted(rel)' <=> Mounted(rel)
  BY DEF KeepMounts, Mounted

SoloInv(p) == Single /\ KnowsInv(p)

LEMMA InitSoloInv == ASSUME NEW p, Alone(p) PROVE Init => SoloInv(p)
  <1> SUFFICES ASSUME Init PROVE SoloInv(p)
    OBVIOUS
  <1>1. ctl[p] = "out"
    BY DEF Init, Alone
  <1>2. dev \in Seq(0 .. 1) /\ Len(dev) = 1 /\ dev[1] = 0
    BY DEF Init
  <1> QED
    BY <1>1, <1>2 DEF Init, SoloInv, Single, KnowsInv

\* The steps that change no mount.
LEMMA LooksOnly ==
    ASSUME NEW p \in Procs, TypeOK, PlaceInv, SoloInv(p), KeepMounts,
           \/ Enter(p) \/ TestMount(p) \/ Continue(p) \/ MakeSlave(p)
           \/ MountFails(p) \/ EnterBody(p) \/ LeaveBody(p) \/ TestUmount(p)
           \/ ExitContext(p) \/ Kill(p)
    PROVE  SoloInv(p)'
  <1> USE DEF SoloInv, GoTo, LoopAt
  <1>1. Single' /\ \A rel : Mounted(rel)' <=> Mounted(rel)
    BY SameMounts DEF KeepMounts, Single
  <1>2. /\ \A c : [ctl EXCEPT ![p] = c][p] = c
        /\ \A i : [at EXCEPT ![p] = i][p] = i
        /\ \A t : [test EXCEPT ![p] = t][p] = t
        /\ at[p] \in 0 .. L + 1 /\ L = 5
    BY Entries DEF TypeOK
  <1>3. CASE Enter(p)
    <2>1. ctl'[p] = "test" /\ at'[p] = 1
      BY <1>2, <1>3 DEF Enter
    <2> QED
      BY <1>1, <2>1 DEF KnowsInv
  <1>4. CASE TestMount(p)
    <2>1. /\ ctl[p] = "test" /\ ctl'[p] = "mount" /\ at' = at
          /\ test'[p] = IsMounted(Rel(p)) /\ Rel(p)' = Rel(p)
      BY <1>2, <1>4 DEF TestMount, Rel
    <2>2. test'[p] <=> Mounted(Rel(p))
      BY <2>1, TestIsRight
    <2> QED
      BY <1>1, <2>1, <2>2 DEF KnowsInv
  <1>5. CASE Continue(p) \/ MakeSlave(p)
    <2>1. /\ at[p] \in 1 .. L /\ Mounted(BindMounts[at[p]])
          /\ \A i \in 1 .. L : i < at[p] => Mounted(BindMounts[i])
      BY <1>5 DEF Continue, MakeSlave, PlaceInv, KnowsInv, Rel
    <2>2. ctl'[p] = "test" /\ at'[p] = at[p] + 1
      BY <1>2, <1>5 DEF Continue, MakeSlave
    <2>3. \A i \in 1 .. L : i < at'[p] => Mounted(BindMounts[i])
      BY <1>2, <2>1, <2>2
    <2> QED
      BY <1>1, <2>2, <2>3 DEF KnowsInv
  <1>6. CASE MountFails(p) \/ Kill(p)
    <2>1. ctl'[p] = "out"
      BY <1>2, <1>6 DEF MountFails, Kill
    <2> QED
      BY <1>1, <2>1 DEF KnowsInv
  <1>7. CASE EnterBody(p)
    <2>1. /\ ctl'[p] = "body" /\ at[p] > L
          /\ \A i \in 1 .. L : i < at[p] => Mounted(BindMounts[i])
      BY <1>2, <1>7 DEF EnterBody, KnowsInv
    <2>2. \A i \in 1 .. L : Mounted(BindMounts[i])
      BY <1>2, <2>1
    <2> QED
      BY <1>1, <2>1, <2>2 DEF KnowsInv
  <1>8. CASE LeaveBody(p)
    <2>1. ctl'[p] = "utest" /\ at'[p] = L
      BY <1>2, <1>8 DEF LeaveBody
    <2>2. \A i \in 1 .. L : ~(i > at'[p])
      BY <1>2, <2>1
    <2> QED
      BY <1>1, <2>1, <2>2 DEF KnowsInv
  <1>9. CASE TestUmount(p)
    <2>1. /\ ctl[p] = "utest" /\ ctl'[p] = "umount" /\ at' = at
          /\ test'[p] = IsMounted(Rel(p)) /\ Rel(p)' = Rel(p)
      BY <1>2, <1>9 DEF TestUmount, Rel
    <2>2. test'[p] <=> Mounted(Rel(p))
      BY <2>1, TestIsRight
    <2> QED
      BY <1>1, <2>1, <2>2 DEF KnowsInv
  <1>10. CASE ExitContext(p)
    <2>1. /\ ctl'[p] = "left" /\ at[p] = 0
          /\ \A i \in 1 .. L : i > at[p] => ~Mounted(BindMounts[i])
      BY <1>2, <1>10 DEF ExitContext, KnowsInv
    <2>2. \A i \in 1 .. L : ~Mounted(BindMounts[i])
      BY <1>2, <2>1
    <2> QED
      BY <1>1, <2>1, <2>2 DEF KnowsInv, NoneMounted
  <1> QED
    BY <1>3, <1>4, <1>5, <1>6, <1>7, <1>8, <1>9, <1>10

\* mount(1): what the loop has passed stays mounted, dev before dev/pts.
LEMMA MountKnows ==
    ASSUME NEW p \in Procs, TypeOK, PlaceInv, SoloInv(p), Mount(p)
    PROVE  SoloInv(p)'
  <1>0. PICK k \in 1 .. L : k = at[p]
    BY DEF Mount, PlaceInv
  <1>1. /\ ~Mounted(BindMounts[k]) /\ MountOne(BindMounts[k])
        /\ \A i \in 1 .. L : i < k => Mounted(BindMounts[i])
    BY <1>0 DEF Mount, SoloInv, KnowsInv, Rel
  <1>2. k = 4 => Mounted(BindMounts[3])
    BY <1>1, Entries
  <1>3. /\ Single' /\ Mounted(BindMounts[k])'
        /\ \A i \in 1 .. L : Mounted(BindMounts[i]) => Mounted(BindMounts[i])'
    BY <1>1, <1>2, MountsOne DEF SoloInv
  <1>4. \/ ctl'[p] = "slave" /\ at'[p] = k
        \/ ctl'[p] = "test" /\ at'[p] = k + 1
    BY <1>0 DEF Mount, GoTo, LoopAt, TypeOK
  <1>5. \A i \in 1 .. L : i < k \/ i = k => Mounted(BindMounts[i])'
    BY <1>1, <1>3
  <1>6. \A i \in 1 .. L : i < at'[p] => i < k \/ i = k
    BY <1>1, <1>4, Entries
  <1> QED
    BY <1>0, <1>3, <1>4, <1>5, <1>6 DEF SoloInv, KnowsInv, Rel

\* umount(1): what the loop has passed stays unmounted, dev/pts before dev.
LEMMA UmountKnows ==
    ASSUME NEW p \in Procs, TypeOK, PlaceInv, SoloInv(p), Umount(p)
    PROVE  SoloInv(p)'
  <1>0. PICK k \in 1 .. L : k = at[p]
    BY DEF Umount, PlaceInv
  <1>1. /\ (test[p] <=> Mounted(BindMounts[k]))
        /\ \A i \in 1 .. L : i > k => ~Mounted(BindMounts[i])
    BY <1>0 DEF Umount, SoloInv, KnowsInv, Rel
  <1>2. k = 3 => ~Mounted(BindMounts[4])
    BY <1>1, Entries
  <1>3. /\ Single' /\ ~Mounted(BindMounts[k])'
        /\ \A i \in 1 .. L : ~Mounted(BindMounts[i]) => ~Mounted(BindMounts[i])'
    <2>1. CASE Mounted(BindMounts[k])
      <3>1. DetachOne(BindMounts[k])
        BY <1>0, <1>1, <2>1 DEF Umount, Rel
      <3> QED
        BY <1>1, <1>2, <2>1, <3>1, DetachesOne DEF SoloInv
    <2>2. CASE ~Mounted(BindMounts[k])
      <3>1. KeepMounts
        BY <1>0, <1>1, <2>2 DEF Umount, Rel
      <3>2. Single'
        BY <3>1 DEF KeepMounts, SoloInv, Single
      <3> QED
        BY <2>2, <3>1, <3>2, SameMounts
    <2> QED
      BY <2>1, <2>2
  <1>4. ctl'[p] = "utest" /\ at'[p] = k - 1
    BY <1>0 DEF Umount, GoTo, LoopAt, TypeOK
  <1>5. \A i \in 1 .. L : i > k \/ i = k => ~Mounted(BindMounts[i])'
    BY <1>1, <1>3
  <1>6. \A i \in 1 .. L : i > at'[p] => i > k \/ i = k
    BY <1>1, <1>4, Entries
  <1> QED
    BY <1>3, <1>4, <1>5, <1>6 DEF SoloInv, KnowsInv

\* Nothing mounted is nothing there.
LEMMA BareIsUnmounted == Bare <=> Single /\ NoneMounted
  <1>1. ASSUME Bare
        PROVE  Single /\ NoneMounted
    <2>1. dev \in Seq(0 .. 1) /\ Len(dev) = 1 /\ dev[1] = 0
      BY <1>1 DEF Bare
    <2>2. Last(dev) = 0
      BY <2>1 DEF Last
    <2> QED
      BY <1>1, <2>1, <2>2 DEF Bare, Single, NoneMounted, Mounted
  <1>2. ASSUME Single, NoneMounted
        PROVE  Bare
    <2>1. \A rel \in Plain : ~Mounted(rel)
      BY <1>2, Entries DEF Plain, NoneMounted
    <2>2. stack = [rel \in Plain |-> 0]
      BY <1>2, <2>1 DEF Single, Mounted
    <2>3. ~(Len(dev) > 1)
      BY <1>2, Entries, MountedAt DEF NoneMounted
    <2>4. Len(dev) = 1 /\ dev[1] = 0
      BY <1>2, <2>3, SingleDev DEF Single
    <2>5. dev = <<0>>
      BY <1>2, <2>4, SeqEqual DEF Single
    <2> QED
      BY <2>2, <2>5 DEF Bare
  <1> QED
    BY <1>1, <1>2

LEMMA NextSoloInv ==
    ASSUME NEW p, Alone(p), TypeOK, PlaceInv, SoloInv(p), [Next]_vars
    PROVE  SoloInv(p)'
  <1>1. p \in Procs /\ (Next => Acts(p))
    BY DEF Alone, Next
  <1>2. CASE UNCHANGED vars
    BY <1>2 DEF vars, SoloInv, Single, KnowsInv, NoneMounted, Mounted, Rel
  <1>3. CASE Mount(p)
    BY <1>1, <1>3, MountKnows
  <1>4. CASE Umount(p)
    BY <1>1, <1>4, UmountKnows
  <1>5. CASE UmountAll(p)
    <2>1. Bare' /\ ctl'[p] = "left"
      BY <1>1, <1>5 DEF UmountAll, Bare, GoTo, TypeOK
    <2>2. Single' /\ NoneMounted'
      BY <2>1, BareIsUnmounted, PTL
    <2> QED
      BY <2>1, <2>2 DEF SoloInv, KnowsInv
  <1>6. CASE \/ Enter(p) \/ TestMount(p) \/ Continue(p) \/ MakeSlave(p)
             \/ MountFails(p) \/ EnterBody(p) \/ LeaveBody(p) \/ TestUmount(p)
             \/ ExitContext(p) \/ Kill(p)
    <2>1. KeepMounts
      BY <1>6 DEF Enter, TestMount, Continue, MakeSlave, MountFails, EnterBody,
                  LeaveBody, TestUmount, ExitContext, Kill
    <2> QED
      BY <1>1, <1>6, <2>1, LooksOnly
  <1> QED
    BY <1>1, <1>2, <1>3, <1>4, <1>5, <1>6 DEF Acts

\* The two invariants together.
LEMMA SoloAlways == ASSUME NEW p, Alone(p)
                    PROVE  Spec => []SoloInv(p)
  <1>1. Init => TypeOK /\ PlaceInv /\ SoloInv(p)
    BY InitTypeOK, InitSoloInv
  <1>2. TypeOK /\ PlaceInv /\ SoloInv(p) /\ [Next]_vars
        => (TypeOK /\ PlaceInv /\ SoloInv(p))'
    BY NextTypeOK, NextSoloInv
  <1> QED
    BY <1>1, <1>2, PTL DEF Spec

\* The commands in a chroot find every pseudo file system, wherever earlier
\* contexts were cut off (chroot.py 47-71, 115-117).
THEOREM BodyFindsMounts == ASSUME NEW p, Alone(p)
                           PROVE  Spec => []ChrootIsMounted
  <1>1. SoloInv(p) => ChrootIsMounted
    BY DEF Alone, SoloInv, KnowsInv, ChrootIsMounted
  <1> QED
    BY <1>1, SoloAlways, PTL

\* No directory is mounted over itself (chroot.py 53-54, 59-60).
THEOREM NeverStacked == ASSUME NEW p, Alone(p)
                        PROVE  Spec => []NothingStacked
  <1>1. SoloInv(p) => NothingStacked
    <2> SUFFICES ASSUME Single PROVE NothingStacked
      BY DEF SoloInv
    <2>1. Len(dev) <= 2 /\ dev[1] = 0
      <3>1. dev \in Seq(0 .. 1) /\ (Len(dev) = 1 \/ Len(dev) = 2)
        BY SingleDev
      <3>2. \A n : n = 1 \/ n = 2 => n <= 2
        OBVIOUS
      <3> QED
        BY <3>1, <3>2 DEF Single
    <2>2. DOMAIN dev = 1 .. Len(dev)
      BY LenProperties DEF Single
    <2>3. \A i \in DOMAIN dev : dev[i] \in 0 .. 1
      BY <2>2, ElementOfSeq DEF Single
    <2>4. \A rel \in Plain : stack[rel] <= 1
      BY DEF Single
    <2> QED
      BY <2>1, <2>3, <2>4 DEF NothingStacked
  <1> QED
    BY <1>1, SoloAlways, PTL

\* A context leaves nothing mounted, of its own and of those cut off before
\* (chroot.py 74-82, 116-119).
THEOREM LeavesNothing == ASSUME NEW p, Alone(p)
                         PROVE  Spec => []ContextCleansUp
  <1>1. SoloInv(p) => ContextCleansUp
    BY BareIsUnmounted DEF Alone, SoloInv, KnowsInv, ContextCleansUp
  <1> QED
    BY <1>1, SoloAlways, PTL
=============================================================================
