----------------------------- MODULE ChrootMounts -----------------------------
(***************************************************************************)
(* The pseudo file systems below the target's mountpoint: mount_pseudofs,  *)
(* chroot_context, umount_pseudofs and umount_all of installer/chroot.py,  *)
(* run by installer processes that are killed and started again, each step *)
(* that works in a chroot opening a context of its own.                    *)
(*                                                                         *)
(* Abstracted: what the commands in the chroot do.  dev/pts lies on top of *)
(* dev: a bind mount of /dev brings one along, and detaching dev (umount   *)
(* -l) takes it away.                                                      *)
(***************************************************************************)
EXTENDS Naturals, Sequences, SequencesExt

CONSTANTS
    Procs,     \* installer processes
    MaxStack,  \* bound: mounts over one another on one directory
    Faults     \* what may go wrong in this instance

ASSUME MountsAssumption ==
    /\ Procs # {} /\ MaxStack \in Nat \ {0}
    /\ Faults \subseteq {"kill", "mount", "command"}

BindMounts == <<"proc", "sys", "dev", "dev/pts", "run">>
Plain == {"proc", "sys", "run"}
Slaved == {"sys", "dev"}
L == Len(BindMounts)

VARIABLES
    stack,  \* mounts on proc, sys and run, one over the other
    dev,    \* one entry per /dev on top of another, the bare directory
            \* first: how many devpts lie on its pts
    ctl,    \* each process's control point
    at,     \* index of the entry of _BIND_MOUNTS its loop is at
    test,   \* what its last _is_mounted returned
    tool    \* the live system has mountpoint(1)

vars == <<stack, dev, ctl, at, test, tool>>

\* Not in a context; in the loop of mount_pseudofs before the test and
\* before mount(1), and after it before mount --make-rslave; in the body; in
\* the loop of umount_pseudofs; the context left.
Ctl == {"out", "test", "mount", "slave", "body", "utest", "umount", "left"}

Mounted(rel) == \/ rel \in Plain /\ stack[rel] > 0
                \/ rel = "dev" /\ Len(dev) > 1
                \/ rel = "dev/pts" /\ Last(dev) > 0

\* _is_mounted: mountpoint(1), or a search for the path in /proc/mounts, which
\* also finds it as the beginning of a longer one, and what is mounted over.
IsMounted(rel) ==
    IF tool THEN Mounted(rel)
    ELSE \/ Mounted(rel)
         \/ rel \in {"dev", "dev/pts"} /\ \E i \in DOMAIN dev : dev[i] > 0

\* The effect of one mount(1) and of one umount(1) -l on (stack, dev).
MountOne(rel) ==
    /\ stack' = IF rel \in Plain THEN [stack EXCEPT ![rel] = @ + 1] ELSE stack
    /\ dev' = CASE rel = "dev"     -> Append(dev, 1)
                [] rel = "dev/pts" -> [dev EXCEPT ![Len(dev)] = @ + 1]
                [] OTHER           -> dev

DetachOne(rel) ==
    /\ stack' = IF rel \in Plain THEN [stack EXCEPT ![rel] = @ - 1] ELSE stack
    /\ dev' = CASE rel = "dev"     -> Front(dev)
                [] rel = "dev/pts" -> [dev EXCEPT ![Len(dev)] = @ - 1]
                [] OTHER           -> dev

Room(rel) == \/ rel \in Plain /\ stack[rel] < MaxStack
             \/ rel = "dev" /\ Len(dev) <= MaxStack
             \/ rel = "dev/pts" /\ Last(dev) < MaxStack

Rel(p) == BindMounts[at[p]]
GoTo(p, c) == ctl' = [ctl EXCEPT ![p] = c]
LoopAt(p, i) == at' = [at EXCEPT ![p] = i]
KeepMounts == UNCHANGED <<stack, dev>>

Init == /\ stack = [rel \in Plain |-> 0]
        /\ dev = <<0>>
        /\ ctl = [p \in Procs |-> "out"]
        /\ at = [p \in Procs |-> 1]
        /\ test = [p \in Procs |-> FALSE]
        /\ tool \in BOOLEAN
-----------------------------------------------------------------------------
Enter(p) == /\ ctl[p] \in {"out", "left"}
            /\ GoTo(p, "test") /\ LoopAt(p, 1)
            /\ KeepMounts /\ UNCHANGED test

\* Faulty form: mount(1) is run whatever is mounted.
TestMount_Skipped(p) ==
    /\ ctl[p] = "test" /\ at[p] <= L
    /\ GoTo(p, "mount")
    /\ test' = [test EXCEPT ![p] = FALSE]
    /\ KeepMounts /\ UNCHANGED at

\* _is_mounted is a process of its own, run before mount(1) is.
TestMount(p) == /\ ctl[p] = "test" /\ at[p] <= L
                /\ GoTo(p, "mount")
                /\ test' = [test EXCEPT ![p] = IsMounted(Rel(p))]
                /\ KeepMounts /\ UNCHANGED at

\* Faulty form: what is mounted already takes its successor along.
Continue_SkipsNext(p) ==
    /\ ctl[p] = "mount" /\ test[p]
    /\ GoTo(p, "test") /\ LoopAt(p, at[p] + 2)
    /\ KeepMounts /\ UNCHANGED test

Continue(p) == /\ ctl[p] = "mount" /\ test[p]
               /\ GoTo(p, "test") /\ LoopAt(p, at[p] + 1)
               /\ KeepMounts /\ UNCHANGED test

Mount(p) == /\ ctl[p] = "mount" /\ ~test[p] /\ Room(Rel(p))
            /\ MountOne(Rel(p))
            /\ IF Rel(p) \in Slaved THEN GoTo(p, "slave") /\ UNCHANGED at
                                    ELSE GoTo(p, "test") /\ LoopAt(p, at[p] + 1)
            /\ UNCHANGED test

\* The second mount(1), which changes how the mount propagates.
MakeSlave(p) == /\ ctl[p] = "slave"
                /\ GoTo(p, "test") /\ LoopAt(p, at[p] + 1)
                /\ KeepMounts /\ UNCHANGED test

\* Either mount(1) fails: the error leaves mount_pseudofs, which the context
\* calls before its try.
MountFails(p) == /\ "mount" \in Faults
                 /\ ctl[p] = "slave" \/ (ctl[p] = "mount" /\ ~test[p])
                 /\ GoTo(p, "out") /\ LoopAt(p, 1)
                 /\ KeepMounts /\ UNCHANGED test

EnterBody(p) == /\ ctl[p] = "test" /\ at[p] > L
                /\ GoTo(p, "body")
                /\ KeepMounts /\ UNCHANGED <<at, test>>

\* Faulty form: a failing command leaves the context without its finally.
LeaveBody_NoFinally(p) ==
    /\ ctl[p] = "body"
    /\ \/ GoTo(p, "utest") /\ LoopAt(p, L)
       \/ "command" \in Faults /\ GoTo(p, "left") /\ UNCHANGED at
    /\ KeepMounts /\ UNCHANGED test

\* The body returns, or a command in the chroot fails: finally, either way.
LeaveBody(p) == /\ ctl[p] = "body"
                /\ GoTo(p, "utest") /\ LoopAt(p, L)
                /\ KeepMounts /\ UNCHANGED test

TestUmount(p) == /\ ctl[p] = "utest" /\ at[p] > 0
                 /\ GoTo(p, "umount")
                 /\ test' = [test EXCEPT ![p] = IsMounted(Rel(p))]
                 /\ KeepMounts /\ UNCHANGED at

Umount(p) == /\ ctl[p] = "umount" /\ GoTo(p, "utest") /\ LoopAt(p, at[p] - 1)
             /\ IF test[p] /\ Mounted(Rel(p)) THEN DetachOne(Rel(p)) ELSE KeepMounts
             /\ UNCHANGED test

ExitContext(p) == /\ ctl[p] = "utest" /\ at[p] = 0
                  /\ GoTo(p, "left") /\ LoopAt(p, 1)
                  /\ KeepMounts /\ UNCHANGED test

\* UnmountStep: umount_pseudofs, every mount findmnt lists, the mountpoint.
UmountAll(p) == /\ ctl[p] \in {"out", "left"}
                /\ stack' = [rel \in Plain |-> 0] /\ dev' = <<0>>
                /\ GoTo(p, "left")
                /\ UNCHANGED <<at, test>>

\* The process is killed and the installer started again.
Kill(p) == /\ "kill" \in Faults /\ ctl[p] \notin {"out", "left"}
           /\ GoTo(p, "out") /\ LoopAt(p, 1)
           /\ KeepMounts /\ UNCHANGED test

Acts(p) == \/ Enter(p) \/ TestMount(p) \/ Continue(p)
           \/ Mount(p) \/ MakeSlave(p) \/ MountFails(p)
           \/ EnterBody(p) \/ LeaveBody(p)
           \/ TestUmount(p) \/ Umount(p) \/ ExitContext(p)
           \/ UmountAll(p) \/ Kill(p)

Next == UNCHANGED tool /\ \E p \in Procs : Acts(p)

Spec == Init /\ [][Next]_vars
-----------------------------------------------------------------------------
TypeOK == /\ stack \in [Plain -> 0 .. MaxStack]
          /\ dev \in Seq(0 .. MaxStack) /\ Len(dev) \in 1 .. MaxStack + 1
          /\ ctl \in [Procs -> Ctl]
          /\ at \in [Procs -> 0 .. L + 1]
          /\ test \in [Procs -> BOOLEAN] /\ tool \in BOOLEAN

\* The commands a step runs in the chroot find all of /proc, /sys, /dev,
\* /dev/pts and /run there, whatever an earlier run left mounted when it was
\* cut off, between unmounting dev/pts and dev for example (chroot.py 47-71,
\* 115-117).
ChrootIsMounted ==
    \A p \in Procs : ctl[p] = "body"
                       => \A i \in 1 .. L : Mounted(BindMounts[i])

\* Nothing is mounted over itself, so that one umount each undoes it all.
\* Code: the _is_mounted test before each mount (chroot.py 53-54, 59-60).
NothingStacked ==
    /\ \A rel \in Plain : stack[rel] <= 1
    /\ Len(dev) <= 2 /\ dev[1] = 0 /\ \A i \in DOMAIN dev : dev[i] <= 1

Bare == stack = [rel \in Plain |-> 0] /\ dev = <<0>>

\* After a context's finally nothing is left, of this run or of one that was
\* cut off, even where a command failed (chroot.py 116-119, 74-82).
ContextCleansUp == \A p \in Procs : ctl[p] = "left" => Bare
=============================================================================
