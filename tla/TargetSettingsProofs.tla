------------------------- MODULE TargetSettingsProofs -------------------------
(***************************************************************************)
(* What the settings' steps leave on the target, for any machine, any      *)
(* options of the installers that follow one another, and any files of     *)
(* stage 3: their files say what the state file says.                      *)
(*                                                                         *)
(* Each step has an invariant of its own, what it has made by each of its  *)
(* control points.  To another step's actions, a kill or a start a step is *)
(* Still or Stopped (lemma SeenFrom), so that only its own actions are     *)
(* left for the proof of its own invariant.                                *)
(***************************************************************************)
EXTENDS TargetSettings, TLAPS
LOCAL INSTANCE SequencesExt

WF == INSTANCE WellFoundedInduction

\* Steps, as a set.
StepNames == {"makeconf", "timezone", "locale", "fstab", "hostname", "root_password",
              "network", "bootloader"}

\* The control points of each step.
PointsOf == [makeconf |-> {"makeconf", "set make_conf", "mark makeconf"},
             timezone |-> {"timezone", "localtime", "set timezone", "mark timezone"},
             locale |-> {"locale", "locale-gen", "locale.conf", "set locale", "mark locale"},
             fstab |-> {"fstab", "mark fstab"},
             hostname |-> {"hostname", "hosts", "set hostname", "mark hostname"},
             root_password |-> {"root_password", "mark root_password"},
             network |-> {"network", "net link", "rc-update", "mark network"},
             bootloader |-> {"bootloader", "emerge grub", "grub-install", "grub-mkconfig",
                             "mark bootloader"}]
\* The settings each step saves.
KeysOf == [makeconf |-> {"make_conf"}, timezone |-> {"timezone"}, locale |-> {"locale"},
           fstab |-> {}, hostname |-> {"hostname"}, root_password |-> {}, network |-> {},
           bootloader |-> {}]

\* The installer works on a step that is not on record, and on the boot loader
\* only after make.conf and fstab.
OrderInv == /\ at \in {"off", "end"} \cup UNION {PointsOf[s] : s \in StepNames}
            /\ \A s \in StepNames : at \in PointsOf[s] => s \notin done
            /\ at \in PointsOf["bootloader"] \/ "bootloader" \in done =>
                  "makeconf" \in done /\ "fstab" \in done

\* What each step has made by each of its control points, and from the last on.
MakeConfInv ==
    /\ at = "set make_conf" => files["make.conf"] = <<NewMakeConf>>
    /\ at = "mark makeconf" \/ "makeconf" \in done =>
          conf.make_conf # <<>> /\ files["make.conf"] = conf.make_conf

TimezoneInv ==
    /\ at \in {"localtime", "set timezone"} => files["timezone"] = <<Timezone>>
    /\ at = "set timezone" => files["localtime"] = <<Timezone>>
    /\ at = "mark timezone" \/ "timezone" \in done =>
          /\ conf.timezone # <<>>
          /\ files["timezone"] = conf.timezone /\ files["localtime"] = conf.timezone

\* The locale is on the target, or will not be for the comment that names it.
Made(locale) == OnlyComment(locale) \/ locale \in generated
LocaleInv ==
    /\ IsInjective(files["locale.gen"])
    /\ at = "locale-gen" => Mentioned(Locale)
    /\ at \in {"locale.conf", "set locale"} => Made(Locale)
    /\ at = "set locale" => files["locale.conf"] = <<Locale[1]>>
    /\ at = "mark locale" \/ "locale" \in done =>
          /\ conf.locale # <<>> /\ files["locale.conf"] = <<conf.locale[1][1]>>
          /\ Made(conf.locale[1])

FstabInv ==
    at = "mark fstab" \/ "fstab" \in done =>
        /\ files["fstab"][1].fs = machine.root_fs
        /\ files["fstab"][2].where = IF machine.uefi THEN "/boot/efi" ELSE "/boot"

\* hosts has the name, or a line that it is part of.
Named(host) == Hidden(host) \/ host \in ToSet(files["hosts"])
HostInv ==
    /\ IsInjective(files["hosts"])
    /\ at \in {"hosts", "set hostname"} => files["hostname"] = <<Hostname>>
    /\ at = "set hostname" => Named(Hostname)
    /\ at = "mark hostname" \/ "hostname" \in done =>
          /\ conf.hostname # <<>> /\ files["hostname"] = conf.hostname
          /\ Named(conf.hostname[1])

NetworkInv ==
    /\ at \in {"net link", "rc-update", "mark network"} =>
          files["net"][1].iface = args.iface
    /\ at \in {"rc-update", "mark network"} \/ "network" \in done =>
          (machine.netLo => files["net"][1].iface \in links)

GrubInv ==
    /\ at = "grub-mkconfig" => grub.target = GrubTarget
    /\ at = "mark bootloader" \/ "bootloader" \in done =>
          grub.target = GrubTarget /\ grub.menu

\* The inductive invariant.
SettingsInv == /\ TypeOK /\ OrderInv
               /\ MakeConfInv /\ TimezoneInv /\ LocaleInv /\ FstabInv
               /\ HostInv /\ NetworkInv /\ GrubInv

\* One command, write or entry of a step, or its end without success: nothing
\* of the other steps changes.
Working(s) ==
    /\ at \in PointsOf[s] /\ at' \in PointsOf[s] \cup {"off"}
    /\ UNCHANGED <<machine, done, args>>
    /\ \A f \in FileNames \ StepFiles[s] : files'[f] = files[f]
    /\ \A key \in Configs \ KeysOf[s] : conf'[key] = conf[key]
    /\ \A key \in Configs : conf[key] # <<>> /\ key # "make_conf" => conf'[key] = conf[key]
    /\ s # "locale" => generated' = generated
    /\ s # "network" => links' = links
    /\ s # "bootloader" => grub' = grub
\* The installer starts, or a step gets on record and the next one begins.
Turning ==
    /\ at' = Upcoming(done')
    /\ \/ at = "off" /\ done' = done /\ args' \in Options
       \/ \E s \in StepNames : at = Marking[s] /\ done' = done \cup {s} /\ args' = args
    /\ UNCHANGED <<machine, conf, files, generated, links, grub>>
-----------------------------------------------------------------------------
\* The least-number principle, over sets.
LEMMA LeastNumber ==
    ASSUME NEW T \in SUBSET Nat, T # {}
    PROVE  \E x \in T : \A y \in T : x <= y
  <1> DEFINE R == WF!OpToRel(<, Nat)
  <1>1. WF!IsWellFoundedOn(R, Nat)
    BY WF!NatLessThanWellFounded
  <1>2. \A x, y \in Nat : y < x => <<y, x>> \in R
    BY DEF WF!OpToRel
  <1> HIDE DEF R
  <1>3. \E x \in T : \A y \in T : ~ (<<y, x>> \in R)
    BY <1>1, WF!WFMin
  <1>4. PICK x \in T : \A y \in T : ~ (<<y, x>> \in R)
    BY <1>3
  <1>5. \A y \in T : ~(y < x)
    BY <1>2, <1>4
  <1>6. \A y \in T : x <= y
    BY <1>5
  <1> QED
    BY <1>6

\* PointsOf, one step at a time.
LEMMA Points ==
    /\ PointsOf["makeconf"] = {"makeconf", "set make_conf", "mark makeconf"}
    /\ PointsOf["timezone"] = {"timezone", "localtime", "set timezone", "mark timezone"}
    /\ PointsOf["locale"] = {"locale", "locale-gen", "locale.conf", "set locale", "mark locale"}
    /\ PointsOf["fstab"] = {"fstab", "mark fstab"}
    /\ PointsOf["hostname"] = {"hostname", "hosts", "set hostname", "mark hostname"}
    /\ PointsOf["root_password"] = {"root_password", "mark root_password"}
    /\ PointsOf["network"] = {"network", "net link", "rc-update", "mark network"}
    /\ PointsOf["bootloader"] = {"bootloader", "emerge grub", "grub-install", "grub-mkconfig",
                                 "mark bootloader"}
  BY DEF PointsOf

\* No two steps share a control point.
LEMMA PointsApart ==
    ASSUME NEW s \in StepNames, NEW t \in StepNames, NEW p \in PointsOf[s], p \in PointsOf[t]
    PROVE  s = t
  <1>1. CASE s = "makeconf"
    BY <1>1, Points, ZenonT(60) DEF StepNames
  <1>2. CASE s = "timezone"
    BY <1>2, Points, ZenonT(60) DEF StepNames
  <1>3. CASE s = "locale"
    BY <1>3, Points, ZenonT(60) DEF StepNames
  <1>4. CASE s = "fstab"
    BY <1>4, Points, ZenonT(60) DEF StepNames
  <1>5. CASE s = "hostname"
    BY <1>5, Points, ZenonT(60) DEF StepNames
  <1>6. CASE s = "root_password"
    BY <1>6, Points, ZenonT(60) DEF StepNames
  <1>7. CASE s = "network"
    BY <1>7, Points, ZenonT(60) DEF StepNames
  <1>8. CASE s = "bootloader"
    BY <1>8, Points, ZenonT(60) DEF StepNames
  <1> QED
    BY <1>1, <1>2, <1>3, <1>4, <1>5, <1>6, <1>7, <1>8 DEF StepNames

\* A step begins and ends at control points of its own.
LEMMA OwnPoints ==
    ASSUME NEW s \in StepNames
    PROVE  /\ s \in PointsOf[s] /\ Marking[s] \in PointsOf[s] /\ s # Marking[s]
           /\ "off" \notin PointsOf[s] /\ "end" \notin PointsOf[s]
  <1>1. CASE s = "makeconf"
    BY <1>1, Points DEF Marking
  <1>2. CASE s = "timezone"
    BY <1>2, Points DEF Marking
  <1>3. CASE s = "locale"
    BY <1>3, Points DEF Marking
  <1>4. CASE s = "fstab"
    BY <1>4, Points DEF Marking
  <1>5. CASE s = "hostname"
    BY <1>5, Points DEF Marking
  <1>6. CASE s = "root_password"
    BY <1>6, Points DEF Marking
  <1>7. CASE s = "network"
    BY <1>7, Points DEF Marking
  <1>8. CASE s = "bootloader"
    BY <1>8, Points DEF Marking
  <1> QED
    BY <1>1, <1>2, <1>3, <1>4, <1>5, <1>6, <1>7, <1>8 DEF StepNames

\* The registered steps are these.
LEMMA StepsAre == ToSet(Steps) = StepNames
  BY DEF ToSet, Steps, StepNames

\* What comes next is no step on record, and the boot loader not before
\* make.conf and fstab.
LEMMA UpcomingStep ==
    ASSUME NEW completed
    PROVE  /\ Upcoming(completed) \in {"end"} \cup StepNames
           /\ Upcoming(completed) \notin completed \/ Upcoming(completed) = "end"
           /\ Upcoming(completed) = "bootloader" =>
                 "makeconf" \in completed /\ "fstab" \in completed
  <1> DEFINE left == {k \in 1 .. Len(Steps) : Steps[k] \notin completed}
  <1>1. 1 .. Len(Steps) = {1, 2, 3, 4, 5, 6, 7, 8}
    BY DEF Steps
  <1>2. CASE left = {}
    BY <1>2 DEF Upcoming
  <1>3. CASE left # {}
    <2>1. \E k \in left : \A j \in left : k <= j
      <3>1. left \in SUBSET Nat
        BY <1>1
      <3> QED
        BY <1>3, <3>1, LeastNumber
    <2> DEFINE k == CHOOSE k \in left : \A j \in left : k <= j
    <2>2. k \in left /\ \A j \in left : k <= j
      BY <2>1
    <2>3. Upcoming(completed) = Steps[k]
      BY <1>3 DEF Upcoming
    <2> HIDE DEF k
    <2>4. \A j \in 1 .. Len(Steps) : j < k => Steps[j] \in completed
      BY <1>1, <2>2
    <2>5. Steps[k] \in StepNames
      BY <1>1, <2>2 DEF Steps, StepNames
    <2>6. Steps[k] = "bootloader" => k = 8
      BY <1>1, <2>2 DEF Steps
    <2> QED
      BY <1>1, <2>2, <2>3, <2>4, <2>5, <2>6 DEF Steps
  <1> QED
    BY <1>2, <1>3

\* A setting is nothing or one value.
LEMMA OneSetting ==
    ASSUME TypeOK, NEW key \in Configs, conf[key] # <<>>
    PROVE  conf[key] = <<conf[key][1]>> /\ conf[key][1] \in Recorded[key]
  <1>1. PICK v \in Recorded[key] : conf[key] = <<v>>
    BY DEF TypeOK
  <1> QED
    BY <1>1

\* state.set of what state.get has given keeps what was on record.
LEMMA SetKeeps ==
    ASSUME TypeOK, NEW key \in Configs, NEW option, NEW next, Set(key, Get(key, option), next)
    PROVE  \A k \in Configs : conf[k] # <<>> => conf'[k] = conf[k]
  BY OneSetting DEF Set, Get, TypeOK

\* Each action works on the step it belongs to.
LEMMA MakeConfWorks == TypeOK /\ (WriteMakeConf \/ SetMakeConf) => Working("makeconf")
  BY DEF WriteMakeConf, SetMakeConf, Write, Set, TypeOK, FileNames, Configs, system, Working,
         PointsOf, StepFiles, KeysOf

LEMMA TimezoneWorks ==
    TypeOK /\ (NoSuchZone \/ WriteTimezone \/ CopyLocaltime \/ SetTimezone)
        => Working("timezone")
  <1> SUFFICES ASSUME TypeOK PROVE NoSuchZone \/ WriteTimezone \/ CopyLocaltime \/ SetTimezone
                                       => Working("timezone")
    OBVIOUS
  <1> USE DEF Write, system, Working, PointsOf, StepFiles, KeysOf
  <1>1. NoSuchZone => Working("timezone")
    BY DEF NoSuchZone
  <1>2. WriteTimezone \/ CopyLocaltime => Working("timezone")
    BY DEF WriteTimezone, CopyLocaltime, TypeOK, FileNames
  <1>3. ASSUME SetTimezone PROVE Working("timezone")
    <2>1. \A key \in Configs : conf[key] # <<>> => conf'[key] = conf[key]
      BY <1>3, SetKeeps DEF SetTimezone, Timezone, Configs
    <2>2. DOMAIN conf = Configs
      BY DEF TypeOK
    <2> QED
      BY <1>3, <2>1, <2>2 DEF SetTimezone, Set, Configs
  <1> QED
    BY <1>1, <1>2, <1>3

LEMMA LocaleWorks ==
    TypeOK /\ (EnableLocale \/ LocaleGen \/ WriteLang \/ SetLocale) => Working("locale")
  <1> SUFFICES ASSUME TypeOK PROVE EnableLocale \/ LocaleGen \/ WriteLang \/ SetLocale
                                       => Working("locale")
    OBVIOUS
  <1> USE DEF Write, system, Working, PointsOf, StepFiles, KeysOf
  <1>1. EnableLocale \/ WriteLang => Working("locale")
    BY DEF EnableLocale, WriteLang, TypeOK, FileNames
  <1>2. LocaleGen => Working("locale")
    BY DEF LocaleGen, Fails, Ran
  <1>3. ASSUME SetLocale PROVE Working("locale")
    <2>1. \A key \in Configs : conf[key] # <<>> => conf'[key] = conf[key]
      BY <1>3, SetKeeps DEF SetLocale, Locale, Configs
    <2>2. DOMAIN conf = Configs
      BY DEF TypeOK
    <2> QED
      BY <1>3, <2>1, <2>2 DEF SetLocale, Set, Configs
  <1> QED
    BY <1>1, <1>2, <1>3

LEMMA FstabWorks == TypeOK /\ WriteFstab => Working("fstab")
  BY DEF WriteFstab, Write, system, Working, PointsOf, StepFiles, KeysOf, TypeOK, FileNames

LEMMA HostnameWorks ==
    TypeOK /\ (WriteHostname \/ AddHost \/ SetHostname) => Working("hostname")
  <1> SUFFICES ASSUME TypeOK PROVE WriteHostname \/ AddHost \/ SetHostname
                                       => Working("hostname")
    OBVIOUS
  <1> USE DEF Write, system, Working, PointsOf, StepFiles, KeysOf
  <1>1. WriteHostname \/ AddHost => Working("hostname")
    BY DEF WriteHostname, AddHost, TypeOK, FileNames
  <1>2. ASSUME SetHostname PROVE Working("hostname")
    <2>1. \A key \in Configs : conf[key] # <<>> => conf'[key] = conf[key]
      BY <1>2, SetKeeps DEF SetHostname, Hostname, Configs
    <2>2. DOMAIN conf = Configs
      BY DEF TypeOK
    <2> QED
      BY <1>2, <2>1, <2>2 DEF SetHostname, Set, Configs
  <1> QED
    BY <1>1, <1>2

LEMMA RootPasswordWorks == RootPassword => Working("root_password")
  BY DEF RootPassword, system, Working, PointsOf

LEMMA NetworkWorks == TypeOK /\ (WriteNet \/ LinkNet \/ RcUpdate) => Working("network")
  BY DEF WriteNet, LinkNet, RcUpdate, Write, Ran, system, Working, PointsOf, StepFiles, KeysOf,
         TypeOK, FileNames

LEMMA BootloaderWorks ==
    TypeOK /\ (WriteDefaultGrub \/ EmergeGrub \/ GrubInstall \/ GrubMkconfig)
        => Working("bootloader")
  <1> USE DEF Write, Ran, Fails, system, Working, PointsOf, StepFiles, KeysOf
  <1>1. TypeOK /\ WriteDefaultGrub => Working("bootloader")
    BY DEF WriteDefaultGrub, TypeOK, FileNames
  <1>2. EmergeGrub => Working("bootloader")
    BY DEF EmergeGrub
  <1>3. GrubInstall => Working("bootloader")
    BY DEF GrubInstall
  <1>4. GrubMkconfig => Working("bootloader")
    BY DEF GrubMkconfig
  <1> QED
    BY <1>1, <1>2, <1>3, <1>4

\* A signal stops the step the installer is at.
LEMMA KillWorks == TypeOK /\ OrderInv /\ Kill => \E s \in StepNames : Working(s) /\ at' = "off"
  <1> SUFFICES ASSUME TypeOK, OrderInv, Kill PROVE \E s \in StepNames : Working(s)
    BY DEF Kill
  <1>1. PICK s \in StepNames : at \in PointsOf[s]
    BY DEF OrderInv, Kill
  <1>2. \A f \in FileNames \ StepFiles[s] : files'[f] = files[f]
    <2>1. CASE UNCHANGED files
      BY <2>1
    <2>2. CASE at \in DOMAIN Opened /\ files' = [files EXCEPT ![Opened[at]] = <<>>]
      <3>1. ASSUME NEW t \in StepNames, at \in PointsOf[t], Opened[at] \in StepFiles[t]
            PROVE  Opened[at] \in StepFiles[s]
        BY <1>1, <3>1, PointsApart
      <3>2. Opened[at] \in StepFiles[s]
        <4>1. CASE at = "makeconf"
          <5>1. /\ "makeconf" \in StepNames /\ at \in PointsOf["makeconf"]
                /\ Opened[at] \in StepFiles["makeconf"]
            BY <4>1 DEF Opened, StepFiles, PointsOf, StepNames
          <5> QED
            BY <3>1, <5>1
        <4>2. CASE at = "timezone"
          <5>1. /\ "timezone" \in StepNames /\ at \in PointsOf["timezone"]
                /\ Opened[at] \in StepFiles["timezone"]
            BY <4>2 DEF Opened, StepFiles, PointsOf, StepNames
          <5> QED
            BY <3>1, <5>1
        <4>3. CASE at = "localtime"
          <5>1. /\ "timezone" \in StepNames /\ at \in PointsOf["timezone"]
                /\ Opened[at] \in StepFiles["timezone"]
            BY <4>3 DEF Opened, StepFiles, PointsOf, StepNames
          <5> QED
            BY <3>1, <5>1
        <4>4. CASE at = "fstab"
          <5>1. /\ "fstab" \in StepNames /\ at \in PointsOf["fstab"]
                /\ Opened[at] \in StepFiles["fstab"]
            BY <4>4 DEF Opened, StepFiles, PointsOf, StepNames
          <5> QED
            BY <3>1, <5>1
        <4>5. CASE at = "hostname"
          <5>1. /\ "hostname" \in StepNames /\ at \in PointsOf["hostname"]
                /\ Opened[at] \in StepFiles["hostname"]
            BY <4>5 DEF Opened, StepFiles, PointsOf, StepNames
          <5> QED
            BY <3>1, <5>1
        <4>6. CASE at = "network"
          <5>1. /\ "network" \in StepNames /\ at \in PointsOf["network"]
                /\ Opened[at] \in StepFiles["network"]
            BY <4>6 DEF Opened, StepFiles, PointsOf, StepNames
          <5> QED
            BY <3>1, <5>1
        <4>7. CASE at = "bootloader"
          <5>1. /\ "bootloader" \in StepNames /\ at \in PointsOf["bootloader"]
                /\ Opened[at] \in StepFiles["bootloader"]
            BY <4>7 DEF Opened, StepFiles, PointsOf, StepNames
          <5> QED
            BY <3>1, <5>1
        <4> QED
          BY <2>2, <4>1, <4>2, <4>3, <4>4, <4>5, <4>6, <4>7 DEF Opened
      <3> QED
        BY <2>2, <3>2 DEF TypeOK
    <2>3. CASE at = "locale.conf" /\ files' = [files EXCEPT !["locale.conf"] = <<>>]
      <3>1. at \in PointsOf["locale"]
        BY <2>3 DEF PointsOf
      <3>2. s = "locale"
        BY <1>1, <3>1, PointsApart DEF StepNames
      <3> QED
        BY <2>3, <3>2 DEF TypeOK, StepFiles
    <2> QED
      BY <2>1, <2>2, <2>3 DEF Kill
  <1> QED
    BY <1>1, <1>2 DEF Kill, Working, system

\* To start, or to get a step on record, is to turn to the next one.
LEMMA Turns ==
    (Launch => Turning) /\ (\A s \in StepNames : MarkDone(s) => Turning)
  BY DEF Launch, MarkDone, Turning, system

\* What a step of anything else leaves of step s0: it goes on where it was, or
\* begins, or has got on record.
Still(s0) ==
    /\ machine' = machine
    /\ \A f \in StepFiles[s0] : files'[f] = files[f]
    /\ \A key \in KeysOf[s0] : conf'[key] = conf[key]
    /\ s0 = "locale" => generated' = generated
    /\ s0 = "network" => links' = links
    /\ s0 = "bootloader" => grub' = grub
    /\ s0 \in done' => s0 \in done \/ at = Marking[s0]
    /\ at' \in PointsOf[s0] => at' = s0 \/ (at' = at /\ args' = args)

\* It is cut off.
Stopped(s0) ==
    /\ at' = "off" /\ s0 \notin done'
    /\ machine' = machine
    /\ files'["locale.gen"] = files["locale.gen"] /\ files'["hosts"] = files["hosts"]

\* The actions of a step.
OwnActions(s0) ==
    \/ s0 = "makeconf" /\ (WriteMakeConf \/ SetMakeConf)
    \/ s0 = "timezone" /\ (NoSuchZone \/ WriteTimezone \/ CopyLocaltime \/ SetTimezone)
    \/ s0 = "locale" /\ (EnableLocale \/ LocaleGen \/ WriteLang \/ SetLocale)
    \/ s0 = "fstab" /\ (WriteFstab)
    \/ s0 = "hostname" /\ (WriteHostname \/ AddHost \/ SetHostname)
    \/ s0 = "root_password" /\ (RootPassword)
    \/ s0 = "network" /\ (WriteNet \/ LinkNet \/ RcUpdate)
    \/ s0 = "bootloader" /\ (WriteDefaultGrub \/ EmergeGrub \/ GrubInstall \/ GrubMkconfig)

\* A step is still while another one works,
LEMMA WorkingStill ==
    ASSUME NEW s \in StepNames, NEW s0 \in StepNames, s # s0, Working(s)
    PROVE  Still(s0)
  <1>1. machine' = machine /\ done' = done /\ args' = args
    BY DEF Working
  <1>2. at' \notin PointsOf[s0]
    BY OwnPoints, PointsApart DEF Working
  <1>3. StepFiles[s0] \subseteq FileNames \ StepFiles[s]
    BY DEF StepFiles, FileNames, StepNames
  <1>4. KeysOf[s0] \subseteq Configs \ KeysOf[s]
    BY DEF KeysOf, Configs, StepNames
  <1> QED
    BY <1>1, <1>2, <1>3, <1>4 DEF Working, Still

\* while the installer turns from a step to the next,
LEMMA TurningStill ==
    ASSUME NEW s0 \in StepNames, Turning
    PROVE  Still(s0)
  <1>1. at' \in {"end"} \cup StepNames
    BY UpcomingStep DEF Turning
  <1>2. at' \in PointsOf[s0] => at' = s0
    BY <1>1, OwnPoints, PointsApart
  <1> QED
    BY <1>2 DEF Turning, Still

\* and while nothing happens to the installation.
LEMMA RestStill ==
    ASSUME NEW s0 \in StepNames, CalmDown \/ UNCHANGED vars
    PROVE  Still(s0)
  BY DEF CalmDown, vars, system, Still

\* A signal stops the step it comes in; the others are still.
LEMMA KillStops ==
    ASSUME TypeOK, OrderInv, Kill, NEW s0 \in StepNames
    PROVE  Still(s0) \/ Stopped(s0)
  <1>1. PICK s \in StepNames : Working(s) /\ at' = "off"
    BY KillWorks
  <1>2. CASE s # s0
    BY <1>1, <1>2, WorkingStill
  <1>3. CASE s = s0
    <2>1. s0 \notin done'
      BY <1>1, <1>3 DEF Working, OrderInv
    <2>2. files'["locale.gen"] = files["locale.gen"] /\ files'["hosts"] = files["hosts"]
      BY DEF Kill, TypeOK, Opened, FileNames
    <2> QED
      BY <1>1, <2>1, <2>2 DEF Stopped, Working
  <1> QED
    BY <1>2, <1>3

\* Every step of the system, as step s0 sees it.
LEMMA SeenFrom ==
    ASSUME TypeOK, OrderInv, [Next]_vars, NEW s0 \in StepNames
    PROVE  OwnActions(s0) \/ Still(s0) \/ Stopped(s0)
  <1>0. ASSUME NEW s \in StepNames, Working(s), s # s0
        PROVE  Still(s0)
    BY <1>0, WorkingStill
  <1>1. CASE WriteMakeConf \/ SetMakeConf
    <2>1. "makeconf" \in StepNames /\ Working("makeconf")
      BY <1>1, MakeConfWorks DEF StepNames
    <2> QED
      BY <1>0, <1>1, <2>1 DEF OwnActions
  <1>2. CASE NoSuchZone \/ WriteTimezone \/ CopyLocaltime \/ SetTimezone
    <2>1. "timezone" \in StepNames /\ Working("timezone")
      BY <1>2, TimezoneWorks DEF StepNames
    <2> QED
      BY <1>0, <1>2, <2>1 DEF OwnActions
  <1>3. CASE EnableLocale \/ LocaleGen \/ WriteLang \/ SetLocale
    <2>1. "locale" \in StepNames /\ Working("locale")
      BY <1>3, LocaleWorks DEF StepNames
    <2> QED
      BY <1>0, <1>3, <2>1 DEF OwnActions
  <1>4. CASE WriteFstab
    <2>1. "fstab" \in StepNames /\ Working("fstab")
      BY <1>4, FstabWorks DEF StepNames
    <2> QED
      BY <1>0, <1>4, <2>1 DEF OwnActions
  <1>5. CASE WriteHostname \/ AddHost \/ SetHostname
    <2>1. "hostname" \in StepNames /\ Working("hostname")
      BY <1>5, HostnameWorks DEF StepNames
    <2> QED
      BY <1>0, <1>5, <2>1 DEF OwnActions
  <1>6. CASE RootPassword
    <2>1. "root_password" \in StepNames /\ Working("root_password")
      BY <1>6, RootPasswordWorks DEF StepNames
    <2> QED
      BY <1>0, <1>6, <2>1 DEF OwnActions
  <1>7. CASE WriteNet \/ LinkNet \/ RcUpdate
    <2>1. "network" \in StepNames /\ Working("network")
      BY <1>7, NetworkWorks DEF StepNames
    <2> QED
      BY <1>0, <1>7, <2>1 DEF OwnActions
  <1>8. CASE WriteDefaultGrub \/ EmergeGrub \/ GrubInstall \/ GrubMkconfig
    <2>1. "bootloader" \in StepNames /\ Working("bootloader")
      BY <1>8, BootloaderWorks DEF StepNames
    <2> QED
      BY <1>0, <1>8, <2>1 DEF OwnActions
  <1>9. CASE Launch \/ \E s \in ToSet(Steps) : MarkDone(s)
    BY <1>9, Turns, TurningStill, StepsAre
  <1>10. CASE Kill
    BY <1>10, KillStops
  <1>11. CASE CalmDown \/ UNCHANGED vars
    BY <1>11, RestStill
  <1> QED
    BY <1>1, <1>2, <1>3, <1>4, <1>5, <1>6, <1>7, <1>8, <1>9, <1>10, <1>11 DEF Next, Installer

\* Every step of the system is one within a step of the installation, or turns
\* to the next, or changes nothing of all that.
LEMMA SomeStep ==
    ASSUME TypeOK, OrderInv, [Next]_vars
    PROVE  (\E s \in StepNames : Working(s)) \/ Turning \/ CalmDown \/ UNCHANGED vars
  <1>1. CASE WriteMakeConf \/ SetMakeConf
    BY <1>1, MakeConfWorks DEF StepNames
  <1>2. CASE NoSuchZone \/ WriteTimezone \/ CopyLocaltime \/ SetTimezone
    BY <1>2, TimezoneWorks DEF StepNames
  <1>3. CASE EnableLocale \/ LocaleGen \/ WriteLang \/ SetLocale
    BY <1>3, LocaleWorks DEF StepNames
  <1>4. CASE WriteFstab
    BY <1>4, FstabWorks DEF StepNames
  <1>5. CASE WriteHostname \/ AddHost \/ SetHostname
    BY <1>5, HostnameWorks DEF StepNames
  <1>6. CASE RootPassword
    BY <1>6, RootPasswordWorks DEF StepNames
  <1>7. CASE WriteNet \/ LinkNet \/ RcUpdate
    BY <1>7, NetworkWorks DEF StepNames
  <1>8. CASE WriteDefaultGrub \/ EmergeGrub \/ GrubInstall \/ GrubMkconfig
    BY <1>8, BootloaderWorks DEF StepNames
  <1>9. CASE Launch \/ \E s \in ToSet(Steps) : MarkDone(s)
    BY <1>9, Turns, StepsAre
  <1>10. CASE Kill
    BY <1>10, KillWorks
  <1> QED
    BY <1>1, <1>2, <1>3, <1>4, <1>5, <1>6, <1>7, <1>8, <1>9, <1>10 DEF Next, Installer

\* The order of the steps is kept.
LEMMA OrderNext ==
    ASSUME TypeOK, OrderInv, [Next]_vars
    PROVE  OrderInv'
  <1>1. CASE \E s \in StepNames : Working(s)
    <2>1. PICK s \in StepNames : Working(s)
      BY <1>1
    <2>2. at' \in PointsOf[s] \cup {"off"} /\ at \in PointsOf[s] /\ done' = done
      BY <2>1 DEF Working
    <2>3. ASSUME NEW t \in StepNames, at' \in PointsOf[t]
          PROVE  t = s /\ t \notin done'
      BY <2>2, <2>3, OwnPoints, PointsApart DEF OrderInv
    <2> QED
      BY <2>2, <2>3 DEF OrderInv, StepNames
  <1>2. CASE Turning
    <2>1. at' = Upcoming(done') /\ (at' \in PointsOf["bootloader"] => at' = "bootloader")
      BY <1>2, UpcomingStep, OwnPoints, PointsApart DEF Turning, StepNames
    <2>2. ASSUME NEW t \in StepNames, at' \in PointsOf[t]
          PROVE  t \notin done'
      BY <2>1, <2>2, UpcomingStep, OwnPoints, PointsApart
    <2>3. at' \in {"end"} \cup UNION {PointsOf[s] : s \in StepNames}
      BY <2>1, UpcomingStep, OwnPoints
    <2>4. at' \in PointsOf["bootloader"] => "makeconf" \in done' /\ "fstab" \in done'
      BY <2>1, UpcomingStep
    <2>5. "bootloader" \in done' => "makeconf" \in done' /\ "fstab" \in done'
      <3>1. at = Marking["bootloader"] => at \in PointsOf["bootloader"]
        BY OwnPoints DEF StepNames
      <3>2. done \subseteq done'
        BY <1>2 DEF Turning
      <3>3. "bootloader" \in done' => "bootloader" \in done \/ at = Marking["bootloader"]
        BY <1>2 DEF Turning
      <3> QED
        BY <3>1, <3>2, <3>3 DEF OrderInv
    <2> QED
      BY <2>2, <2>3, <2>4, <2>5 DEF OrderInv
  <1>3. CASE CalmDown \/ UNCHANGED vars
    BY <1>3 DEF CalmDown, vars, OrderInv
  <1> QED
    BY <1>1, <1>2, <1>3, SomeStep
-----------------------------------------------------------------------------
(* make.conf and the time zone.                                            *)

\* make.conf is what the record says.
LEMMA MakeConfNext ==
    ASSUME TypeOK, OrderInv, MakeConfInv, [Next]_vars
    PROVE  MakeConfInv'
  <1>1. CASE WriteMakeConf
    BY <1>1, Points, OwnPoints DEF WriteMakeConf, Write, NewMakeConf, MakeConfInv, OrderInv,
                                   TypeOK, FileNames, StepNames
  <1>2. CASE SetMakeConf
    BY <1>2, Points DEF SetMakeConf, Set, NewMakeConf, MakeConfInv, TypeOK, Configs
  <1>3. CASE Still("makeconf")
    BY <1>3, Points DEF Still, MakeConfInv, NewMakeConf, StepFiles, KeysOf, Marking
  <1>4. CASE Stopped("makeconf")
    BY <1>4 DEF Stopped, MakeConfInv
  <1> QED
    BY <1>1, <1>2, <1>3, <1>4, SeenFrom DEF OwnActions, StepNames

\* So is the zone, in both files.
LEMMA TimezoneNext ==
    ASSUME TypeOK, OrderInv, TimezoneInv, [Next]_vars
    PROVE  TimezoneInv'
  <1>1. CASE NoSuchZone
    BY <1>1, Points DEF NoSuchZone, TimezoneInv, OrderInv, StepNames
  <1>2. CASE WriteTimezone
    BY <1>2, Points DEF WriteTimezone, Write, TimezoneInv, Timezone, Get, OrderInv, TypeOK,
                        FileNames, StepNames
  <1>3. CASE CopyLocaltime
    BY <1>3, Points DEF CopyLocaltime, Write, TimezoneInv, Timezone, Get, OrderInv, TypeOK,
                        FileNames, StepNames
  <1>4. CASE SetTimezone
    BY <1>4, Points DEF SetTimezone, Set, TimezoneInv, Timezone, Get, OrderInv, TypeOK,
                        Configs, StepNames
  <1>5. CASE Still("timezone")
    BY <1>5, Points DEF Still, TimezoneInv, Timezone, Get, StepFiles, KeysOf, Marking
  <1>6. CASE Stopped("timezone")
    BY <1>6 DEF Stopped, TimezoneInv
  <1> QED
    BY <1>1, <1>2, <1>3, <1>4, <1>5, <1>6, SeenFrom DEF OwnActions, StepNames
-----------------------------------------------------------------------------
(* Files that lines are added to.                                          *)

\* A line that is not there yet leaves none twice.
LEMMA AppendOnce ==
    ASSUME NEW S, NEW seq \in Seq(S), NEW x \in S, IsInjective(seq),
           \A k \in 1 .. Len(seq) : seq[k] # x
    PROVE  /\ Append(seq, x) \in Seq(S)
           /\ IsInjective(Append(seq, x))
           /\ \A k \in 1 .. Len(seq) : Append(seq, x)[k] = seq[k]
           /\ Len(Append(seq, x)) = Len(seq) + 1
           /\ Append(seq, x)[Len(seq) + 1] = x
  <1>1. PICK app : app = Append(seq, x)
    OBVIOUS
  <1>2. /\ app \in Seq(S) /\ Len(app) = Len(seq) + 1 /\ Len(seq) \in Nat
        /\ \A k \in 1 .. Len(seq) : app[k] = seq[k]
        /\ app[Len(seq) + 1] = x
        /\ DOMAIN app = 1 .. Len(seq) + 1 /\ DOMAIN seq = 1 .. Len(seq)
    BY <1>1
  <1>3. \A k \in 1 .. Len(seq) + 1 : k \in 1 .. Len(seq) \/ k = Len(seq) + 1
    BY <1>2
  <1>4. IsInjective(app)
    BY <1>2, <1>3 DEF IsInjective
  <1> QED
    BY <1>1, <1>2, <1>4

\* Once a locale is named in locale.gen and the locales are generated, it is
\* there, or a comment had its name.
LEMMA EnableMentions ==
    ASSUME TypeOK, LocaleInv, EnableLocale
    PROVE  /\ IsInjective(files["locale.gen"])'
           /\ Mentioned(Locale)'
           /\ (files["locale.gen"] \in Seq([locale : STRING \X STRING, comment : BOOLEAN]))'
  <1> DEFINE lines == files["locale.gen"]
             line == [locale |-> Locale, comment |-> FALSE]
  <1>1. Locale' = Locale
    BY DEF EnableLocale, Write, Locale, Get
  <1>2. Locale \in STRING \X STRING
    <2>1. conf["locale"] # <<>> => conf["locale"][1] \in Recorded["locale"]
      BY OneSetting DEF Configs
    <2>2. \A o \in Options : o.locale \in STRING \X STRING
      BY OptionAssumption
    <2>3. args \in Options
      BY DEF TypeOK
    <2> QED
      BY <2>1, <2>2, <2>3 DEF Locale, Get, Recorded
  <1>3. lines \in Seq([locale : STRING \X STRING, comment : BOOLEAN]) /\ IsInjective(lines)
    BY DEF TypeOK, LocaleInv
  <1>4. CASE Mentioned(Locale)
    <2>1. files'["locale.gen"] = lines
      BY <1>4 DEF EnableLocale, Write, TypeOK, FileNames
    <2> QED
      BY <1>1, <1>3, <1>4, <2>1 DEF Mentioned
  <1>5. CASE ~Mentioned(Locale)
    <2>1. files'["locale.gen"] = Append(lines, line)
      BY <1>5 DEF EnableLocale, Write, TypeOK, FileNames
    <2>2. line \in [locale : STRING \X STRING, comment : BOOLEAN] /\ line.locale = Locale
      BY <1>2
    <2>3. \A k \in 1 .. Len(lines) : lines[k] # line
      BY <1>5 DEF Mentioned
    <2> DEFINE LineType == [locale : STRING \X STRING, comment : BOOLEAN]
    <2> HIDE DEF lines, line, LineType
    <2>4. /\ Append(lines, line) \in Seq(LineType)
          /\ IsInjective(Append(lines, line))
          /\ Append(lines, line)[Len(lines) + 1] = line
          /\ Len(Append(lines, line)) = Len(lines) + 1 /\ Len(lines) \in Nat
      <3>1. lines \in Seq(LineType) /\ line \in LineType
        BY <1>3, <2>2 DEF LineType
      <3> QED
        BY <1>3, <2>3, <3>1, AppendOnce
    <2>5. Mentioned(Locale)'
      BY <1>1, <2>1, <2>2, <2>4 DEF Mentioned
    <2> QED
      BY <2>1, <2>4, <2>5 DEF LineType
  <1> QED
    BY <1>4, <1>5

\* The locale on record is the one of locale.conf, and generated.
LEMMA LocaleNext ==
    ASSUME TypeOK, OrderInv, LocaleInv, [Next]_vars
    PROVE  LocaleInv'
  <1>1. CASE EnableLocale
    <2>1. "locale" \notin done' /\ at' = "locale-gen"
      BY <1>1, Points DEF EnableLocale, Write, OrderInv, StepNames
    <2> QED
      BY <1>1, <2>1, EnableMentions DEF LocaleInv
  <1>2. CASE LocaleGen
    <2>1. "locale" \notin done'
      BY <1>2, Points DEF LocaleGen, Ran, Fails, OrderInv, StepNames
    <2>2. files' = files /\ conf' = conf /\ args' = args
      BY <1>2 DEF LocaleGen, Ran, Fails
    <2>3. CASE at' = "off"
      BY <2>1, <2>2, <2>3 DEF LocaleInv
    <2>4. CASE at' # "off"
      <3>1. at' = "locale.conf" /\ generated' = generated \cup Enabled /\ at = "locale-gen"
        BY <1>2, <2>4 DEF LocaleGen, Ran, Fails
      <3>2. Made(Locale)'
        BY <2>2, <3>1 DEF LocaleInv, Made, OnlyComment, Mentioned, Enabled, Locale, Get
      <3> QED
        BY <2>1, <2>2, <3>1, <3>2 DEF LocaleInv
    <2> QED
      BY <2>3, <2>4
  <1>3. CASE WriteLang
    <2>1. "locale" \notin done' /\ at' = "set locale" /\ at = "locale.conf"
      BY <1>3, Points DEF WriteLang, Write, OrderInv, StepNames
    <2>2. files'["locale.gen"] = files["locale.gen"] /\ files'["locale.conf"] = <<Locale[1]>>
      BY <1>3 DEF WriteLang, Write, TypeOK, FileNames
    <2>3. Locale' = Locale /\ generated' = generated
      BY <1>3 DEF WriteLang, Write, Locale, Get, system
    <2>4. Made(Locale)' = Made(Locale)
      BY <2>2, <2>3 DEF Made, OnlyComment, Mentioned, Enabled
    <2>5. IsInjective(files["locale.gen"])'
      BY <2>2 DEF LocaleInv
    <2>6. Made(Locale)'
      BY <2>1, <2>4 DEF LocaleInv
    <2>7. (files["locale.conf"] = <<Locale[1]>>)'
      BY <2>2, <2>3
    <2> QED
      BY <2>1, <2>5, <2>6, <2>7 DEF LocaleInv
  <1>4. CASE SetLocale
    <2>1. at' = "mark locale" /\ at = "set locale" /\ files' = files /\ generated' = generated
      BY <1>4 DEF SetLocale, Set, system
    <2>2. conf'["locale"] = <<Locale>>
      BY <1>4 DEF SetLocale, Set, TypeOK, Configs
    <2>3. Made(Locale) /\ files["locale.conf"] = <<Locale[1]>> /\ IsInjective(files["locale.gen"])
      BY <2>1 DEF LocaleInv
    <2>4. conf'["locale"] # <<>> /\ conf'["locale"][1] = Locale
      BY <2>2
    <2>5. Made(conf.locale[1])'
      BY <2>1, <2>3, <2>4 DEF Made, OnlyComment, Mentioned, Enabled
    <2>6. IsInjective(files["locale.gen"])'
      BY <2>1, <2>3
    <2> QED
      BY <2>1, <2>3, <2>4, <2>5, <2>6 DEF LocaleInv
  <1>5. CASE Still("locale")
    <2>1. /\ files'["locale.gen"] = files["locale.gen"]
          /\ files'["locale.conf"] = files["locale.conf"]
          /\ conf'["locale"] = conf["locale"] /\ generated' = generated
      BY <1>5 DEF Still, StepFiles, KeysOf
    <2>2. \A locale : /\ Made(locale)' = Made(locale)
                     /\ Mentioned(locale)' = Mentioned(locale)
      BY <2>1 DEF Made, OnlyComment, Mentioned, Enabled
    <2>3. at' \in PointsOf["locale"] => at' = "locale" \/ (at' = at /\ Locale' = Locale)
      BY <1>5, <2>1 DEF Still, Locale, Get
    <2>4. "locale" \in done' => "locale" \in done \/ at = "mark locale"
      BY <1>5 DEF Still, Marking
    <2> QED
      BY <2>1, <2>2, <2>3, <2>4, Points DEF LocaleInv
  <1>6. CASE Stopped("locale")
    BY <1>6 DEF Stopped, LocaleInv
  <1> QED
    BY <1>1, <1>2, <1>3, <1>4, <1>5, <1>6, SeenFrom DEF OwnActions, StepNames

\* Once hosts has been looked at, the host's own line is there or a line that
\* it is part of.
LEMMA AddHostNames ==
    ASSUME TypeOK, HostInv, AddHost
    PROVE  /\ IsInjective(files["hosts"])' /\ Named(Hostname)'
           /\ (files["hosts"] \in Seq(STRING))'
  <1> DEFINE hosts == files["hosts"]
  <1>1. Hostname' = Hostname
    BY DEF AddHost, Write, Hostname, Get
  <1>2. Hostname \in STRING /\ <<Hostname, Hostname>> \in Within
    <2>1. conf["hostname"] # <<>> => conf["hostname"][1] \in Recorded["hostname"]
      BY OneSetting DEF Configs
    <2>2. args \in Options
      BY DEF TypeOK
    <2> QED
      BY <2>1, <2>2, OptionAssumption DEF Hostname, Get, Recorded
  <1>3. hosts \in Seq(STRING) /\ IsInjective(hosts)
    BY DEF TypeOK, HostInv
  <1>4. CASE \E k \in 1 .. Len(hosts) : <<Hostname, hosts[k]>> \in Within
    <2>1. files'["hosts"] = hosts
      BY <1>4 DEF AddHost, Write, TypeOK, FileNames
    <2>2. Named(Hostname)'
      BY <1>1, <1>4, <2>1 DEF Named, Hidden, ToSet
    <2> QED
      BY <1>3, <2>1, <2>2
  <1>5. CASE ~ \E k \in 1 .. Len(hosts) : <<Hostname, hosts[k]>> \in Within
    <2>1. files'["hosts"] = Append(hosts, Hostname)
      BY <1>5 DEF AddHost, Write, TypeOK, FileNames
    <2>2. \A k \in 1 .. Len(hosts) : hosts[k] # Hostname
      BY <1>2, <1>5
    <2> DEFINE Names == STRING
    <2> HIDE DEF hosts, Names
    <2>3. /\ Append(hosts, Hostname) \in Seq(Names) /\ IsInjective(Append(hosts, Hostname))
          /\ Append(hosts, Hostname)[Len(hosts) + 1] = Hostname
          /\ Len(Append(hosts, Hostname)) = Len(hosts) + 1 /\ Len(hosts) \in Nat
      <3>1. hosts \in Seq(Names) /\ Hostname \in Names
        BY <1>2, <1>3 DEF Names
      <3> QED
        BY <1>3, <2>2, <3>1, AppendOnce
    <2>4. Named(Hostname)'
      BY <1>1, <2>1, <2>3 DEF Named, ToSet
    <2> QED
      BY <2>1, <2>3, <2>4 DEF Names
  <1> QED
    BY <1>4, <1>5

\* The name on record is the one of hostname, and in hosts.
LEMMA HostNext ==
    ASSUME TypeOK, OrderInv, HostInv, [Next]_vars
    PROVE  HostInv'
  <1>1. CASE WriteHostname
    <2>1. "hostname" \notin done' /\ at' = "hosts" /\ Hostname' = Hostname
      BY <1>1, Points DEF WriteHostname, Write, OrderInv, Hostname, Get, StepNames
    <2>2. files'["hosts"] = files["hosts"] /\ files'["hostname"] = <<Hostname>>
      BY <1>1 DEF WriteHostname, Write, TypeOK, FileNames
    <2>3. IsInjective(files["hosts"])'
      BY <2>2 DEF HostInv
    <2> QED
      BY <2>1, <2>2, <2>3 DEF HostInv
  <1>2. CASE AddHost
    <2>1. "hostname" \notin done' /\ at' = "set hostname" /\ Hostname' = Hostname
      BY <1>2, Points DEF AddHost, Write, OrderInv, Hostname, Get, StepNames
    <2>2. files'["hostname"] = <<Hostname>>
      BY <1>2 DEF AddHost, Write, TypeOK, FileNames, HostInv
    <2> QED
      BY <1>2, <2>1, <2>2, AddHostNames DEF HostInv
  <1>3. CASE SetHostname
    <2>1. at' = "mark hostname" /\ at = "set hostname" /\ files' = files
      BY <1>3 DEF SetHostname, Set
    <2>2. conf'["hostname"] = <<Hostname>>
      BY <1>3 DEF SetHostname, Set, TypeOK, Configs
    <2>3. Named(Hostname) /\ files["hostname"] = <<Hostname>> /\ IsInjective(files["hosts"])
      BY <2>1 DEF HostInv
    <2>4. conf'["hostname"] # <<>> /\ conf'["hostname"][1] = Hostname
      BY <2>2
    <2>5. Named(conf.hostname[1])'
      BY <2>1, <2>3, <2>4 DEF Named, Hidden
    <2>6. IsInjective(files["hosts"])'
      BY <2>1, <2>3
    <2> QED
      BY <2>1, <2>2, <2>3, <2>4, <2>5, <2>6 DEF HostInv
  <1>4. CASE Still("hostname")
    <2>1. /\ files'["hosts"] = files["hosts"] /\ files'["hostname"] = files["hostname"]
          /\ conf'["hostname"] = conf["hostname"]
      BY <1>4 DEF Still, StepFiles, KeysOf
    <2>2. \A host : Named(host)' = Named(host)
      BY <2>1 DEF Named, Hidden
    <2>3. at' \in PointsOf["hostname"] => at' = "hostname" \/ (at' = at /\ Hostname' = Hostname)
      BY <1>4, <2>1 DEF Still, Hostname, Get
    <2>4. "hostname" \in done' => "hostname" \in done \/ at = "mark hostname"
      BY <1>4 DEF Still, Marking
    <2> QED
      BY <2>1, <2>2, <2>3, <2>4, Points DEF HostInv
  <1>5. CASE Stopped("hostname")
    BY <1>5 DEF Stopped, HostInv
  <1> QED
    BY <1>1, <1>2, <1>3, <1>4, <1>5, SeenFrom DEF OwnActions, StepNames
-----------------------------------------------------------------------------
(* fstab, the network and the boot loader.                                 *)

\* fstab is for the disk and the firmware.
LEMMA FstabNext ==
    ASSUME TypeOK, OrderInv, FstabInv, [Next]_vars
    PROVE  FstabInv'
  <1>1. CASE WriteFstab
    <2>1. PICK by : files'["fstab"] =
              <<FstabLine("/", machine.root_fs, by),
                IF machine.uefi THEN FstabLine("/boot/efi", "vfat", by)
                ELSE FstabLine("/boot", "ext2", by)>>
              \o (IF machine.swap THEN <<FstabLine("none", "swap", by)>> ELSE <<>>)
      BY <1>1 DEF WriteFstab, Write, TypeOK, FileNames
    <2>2. /\ files'["fstab"][1] = FstabLine("/", machine.root_fs, by)
          /\ files'["fstab"][2] = IF machine.uefi THEN FstabLine("/boot/efi", "vfat", by)
                                  ELSE FstabLine("/boot", "ext2", by)
      BY <2>1
    <2>3. machine' = machine
      BY <1>1 DEF WriteFstab, Write
    <2>4. files'["fstab"][1].fs = machine.root_fs
      BY <2>2 DEF FstabLine
    <2>5. files'["fstab"][2].where = IF machine.uefi THEN "/boot/efi" ELSE "/boot"
      BY <2>2 DEF FstabLine
    <2> QED
      BY <2>3, <2>4, <2>5 DEF FstabInv
  <1>2. CASE Still("fstab")
    BY <1>2, Points DEF Still, FstabInv, StepFiles, Marking
  <1>3. CASE Stopped("fstab")
    BY <1>3 DEF Stopped, FstabInv
  <1> QED
    BY <1>1, <1>2, <1>3, SeenFrom DEF OwnActions, StepNames

\* The interface that net has is the one with a service.
LEMMA NetworkNext ==
    ASSUME TypeOK, OrderInv, NetworkInv, [Next]_vars
    PROVE  NetworkInv'
  <1>1. CASE WriteNet
    BY <1>1, Points DEF WriteNet, Write, NetworkInv, OrderInv, TypeOK, FileNames, StepNames
  <1>2. CASE LinkNet
    BY <1>2, Points DEF LinkNet, Ran, NetworkInv, OrderInv, StepNames
  <1>3. CASE RcUpdate
    BY <1>3, Points DEF RcUpdate, Ran, NetworkInv, OrderInv, StepNames
  <1>4. CASE Still("network")
    BY <1>4, Points DEF Still, NetworkInv, StepFiles, Marking
  <1>5. CASE Stopped("network")
    BY <1>5 DEF Stopped, NetworkInv
  <1> QED
    BY <1>1, <1>2, <1>3, <1>4, <1>5, SeenFrom DEF OwnActions, StepNames

\* The boot loader installed is for the firmware.
LEMMA GrubNext ==
    ASSUME TypeOK, OrderInv, GrubInv, [Next]_vars
    PROVE  GrubInv'
  <1>0. grub = [package |-> grub.package, target |-> grub.target, menu |-> grub.menu]
    BY DEF TypeOK
  <1>1. CASE WriteDefaultGrub
    BY <1>1, Points DEF WriteDefaultGrub, Write, GrubInv, OrderInv, StepNames
  <1>2. CASE EmergeGrub
    BY <1>2, Points DEF EmergeGrub, Ran, Fails, GrubInv, OrderInv, StepNames
  <1>3. CASE GrubInstall
    <2>1. "bootloader" \notin done'
      BY <1>3, Points DEF GrubInstall, Ran, Fails, OrderInv, StepNames
    <2>2. CASE at' = "off"
      BY <2>1, <2>2 DEF GrubInv
    <2>3. CASE at' # "off"
      <3>1. /\ at' = "grub-mkconfig" /\ machine' = machine
            /\ grub' = [grub EXCEPT !.target = GrubTarget]
        BY <1>3, <2>3 DEF GrubInstall, Ran, Fails
      <3>2. grub'.target = GrubTarget /\ GrubTarget' = GrubTarget
        BY <1>0, <3>1 DEF GrubTarget
      <3> QED
        BY <2>1, <3>1, <3>2 DEF GrubInv
    <2> QED
      BY <2>2, <2>3
  <1>4. CASE GrubMkconfig
    <2>1. "bootloader" \notin done'
      BY <1>4, Points DEF GrubMkconfig, Ran, Fails, OrderInv, StepNames
    <2>2. CASE at' = "off"
      BY <2>1, <2>2 DEF GrubInv
    <2>3. CASE at' # "off"
      <3>1. /\ at' = "mark bootloader" /\ at = "grub-mkconfig" /\ machine' = machine
            /\ grub' = [grub EXCEPT !.menu = TRUE]
        BY <1>4, <2>3 DEF GrubMkconfig, Ran, Fails
      <3>2. grub'.target = grub.target /\ grub'.menu /\ GrubTarget' = GrubTarget
        BY <1>0, <3>1 DEF GrubTarget
      <3>3. grub.target = GrubTarget
        BY <3>1 DEF GrubInv
      <3> QED
        BY <3>1, <3>2, <3>3 DEF GrubInv
    <2> QED
      BY <2>2, <2>3
  <1>5. CASE Still("bootloader")
    BY <1>5, Points DEF Still, GrubInv, GrubTarget, Marking
  <1>6. CASE Stopped("bootloader")
    BY <1>6 DEF Stopped, GrubInv
  <1> QED
    BY <1>1, <1>2, <1>3, <1>4, <1>5, <1>6, SeenFrom DEF OwnActions, StepNames
-----------------------------------------------------------------------------
(* Types, and the theorems.                                                *)

\* What changes a setting, a file that lines are added to, and grub.
LEMMA Changes ==
    ASSUME TypeOK, [Next]_vars
    PROVE  /\ conf' = conf \/ SetMakeConf \/ SetTimezone \/ SetLocale \/ SetHostname
           /\ DOMAIN files' = FileNames
           /\ files'["locale.gen"] = files["locale.gen"] \/ EnableLocale
           /\ files'["hosts"] = files["hosts"] \/ AddHost
           /\ grub' = grub \/ EmergeGrub \/ GrubInstall \/ GrubMkconfig
           /\ calm' \in BOOLEAN
  <1>0. /\ DOMAIN files = FileNames /\ "locale.gen" \in FileNames /\ "hosts" \in FileNames
        /\ calm \in BOOLEAN
    BY DEF TypeOK, FileNames
  <1> USE <1>0 DEF Write, Set, Ran, Fails, system
  <1>1. CASE WriteMakeConf \/ SetMakeConf
    BY <1>1 DEF WriteMakeConf, SetMakeConf
  <1>2. CASE NoSuchZone \/ WriteTimezone \/ CopyLocaltime \/ SetTimezone
    BY <1>2 DEF NoSuchZone, WriteTimezone, CopyLocaltime, SetTimezone
  <1>3. CASE EnableLocale \/ LocaleGen \/ WriteLang \/ SetLocale
    BY <1>3 DEF EnableLocale, LocaleGen, WriteLang, SetLocale
  <1>4. CASE WriteFstab
    BY <1>4 DEF WriteFstab
  <1>5. CASE WriteHostname \/ AddHost \/ SetHostname
    BY <1>5 DEF WriteHostname, AddHost, SetHostname
  <1>6. CASE RootPassword
    BY <1>6 DEF RootPassword
  <1>7. CASE WriteNet \/ LinkNet \/ RcUpdate
    BY <1>7 DEF WriteNet, LinkNet, RcUpdate
  <1>8. CASE WriteDefaultGrub \/ EmergeGrub \/ GrubInstall \/ GrubMkconfig
    BY <1>8 DEF WriteDefaultGrub, EmergeGrub, GrubInstall, GrubMkconfig
  <1>9. CASE Launch \/ \E s \in ToSet(Steps) : MarkDone(s)
    BY <1>9 DEF Launch, MarkDone
  <1>10. CASE Kill
    BY <1>10 DEF Kill, Opened, FileNames
  <1>11. CASE CalmDown \/ UNCHANGED vars
    BY <1>11 DEF CalmDown, vars
  <1> QED
    BY <1>1, <1>2, <1>3, <1>4, <1>5, <1>6, <1>7, <1>8, <1>9, <1>10, <1>11 DEF Next, Installer

\* A step that sets a setting sets what may be on record.
LEMMA SetRecorded ==
    ASSUME TypeOK
    PROVE  /\ NewMakeConf \in Recorded["make_conf"] /\ Timezone \in Recorded["timezone"]
           /\ Locale \in Recorded["locale"] /\ Hostname \in Recorded["hostname"]
  <1>1. args \in Options
    BY DEF TypeOK
  <1>2. \A key \in Configs : conf[key] # <<>> => conf[key][1] \in Recorded[key]
    BY OneSetting
  <1>3. NewMakeConf \in Recorded["make_conf"]
    BY <1>1 DEF Recorded, NewMakeConf
  <1>4. Timezone \in Recorded["timezone"]
    BY <1>1, <1>2 DEF Recorded, Timezone, Get, Configs
  <1>5. Locale \in Recorded["locale"]
    BY <1>1, <1>2 DEF Recorded, Locale, Get, Configs
  <1>6. Hostname \in Recorded["hostname"]
    BY <1>1, <1>2 DEF Recorded, Hostname, Get, Configs
  <1> QED
    BY <1>3, <1>4, <1>5, <1>6

\* From its step on make.conf is for the platform that the firmware is of.
LEMMA MakeConfPlatform ==
    ASSUME TypeOK, MakeConfInv, "makeconf" \in done
    PROVE  /\ files["make.conf"] = conf.make_conf
           /\ conf.make_conf[1].grub_platform = GrubTarget
  <1>1. conf["make_conf"] # <<>> /\ files["make.conf"] = conf["make_conf"]
    BY DEF MakeConfInv
  <1>2. conf["make_conf"][1] \in Recorded["make_conf"]
    BY <1>1, OneSetting DEF Configs
  <1>3. PICK o \in Options :
            conf["make_conf"][1] = MakeConf(machine.hardware, machine.uefi, o.march, o.use)
    BY <1>2 DEF Recorded
  <1>4. conf["make_conf"][1].grub_platform = Platform(machine.uefi)
    BY <1>3 DEF MakeConf
  <1> QED
    BY <1>1, <1>4 DEF Platform, GrubTarget

\* No step changes what the machine is, or takes a step off the record.
LEMMA MachineStays ==
    ASSUME TypeOK, OrderInv, [Next]_vars
    PROVE  /\ machine' = machine /\ args' \in Options
           /\ done \subseteq done' /\ done' \subseteq ToSet(Steps)
  <1>1. CASE \E s \in StepNames : Working(s)
    BY <1>1 DEF Working, TypeOK
  <1>2. CASE Turning
    BY <1>2, StepsAre DEF Turning, TypeOK
  <1>3. CASE CalmDown \/ UNCHANGED vars
    BY <1>3 DEF CalmDown, vars, TypeOK
  <1> QED
    BY <1>1, <1>2, <1>3, SomeStep

\* The types, of which what grub is built for needs make.conf's invariant.
LEMMA TypeNext ==
    ASSUME TypeOK, OrderInv, MakeConfInv, LocaleInv, HostInv, [Next]_vars
    PROVE  TypeOK'
  <1>1. /\ machine' = machine /\ machine' \in Machines
        /\ args' \in Options /\ done' \subseteq ToSet(Steps)
    BY MachineStays DEF TypeOK
  <1>2. /\ DOMAIN conf' = Configs
        /\ \A key \in Configs : conf'[key] \in {<<>>} \cup {<<v>> : v \in Recorded[key]}
    <2>1. CASE conf' = conf
      BY <2>1 DEF TypeOK
    <2>2. ASSUME NEW key \in Configs, NEW value \in Recorded[key],
                 conf' = [conf EXCEPT ![key] = <<value>>]
          PROVE  /\ DOMAIN conf' = Configs
                 /\ \A k \in Configs : conf'[k] \in {<<>>} \cup {<<v>> : v \in Recorded[k]}
      BY <2>2 DEF TypeOK
    <2>3. CASE SetMakeConf
      BY <2>2, <2>3, SetRecorded DEF SetMakeConf, Set, Configs
    <2>4. CASE SetTimezone
      BY <2>2, <2>4, SetRecorded DEF SetTimezone, Set, Configs
    <2>5. CASE SetLocale
      BY <2>2, <2>5, SetRecorded DEF SetLocale, Set, Configs
    <2>6. CASE SetHostname
      BY <2>2, <2>6, SetRecorded DEF SetHostname, Set, Configs
    <2> QED
      BY <2>1, <2>3, <2>4, <2>5, <2>6, Changes
  <1>3. Recorded' = Recorded
    BY <1>1 DEF Recorded
  <1>4. DOMAIN files' = FileNames /\ calm' \in BOOLEAN
    BY Changes
  <1>5. (files["locale.gen"] \in Seq([locale : STRING \X STRING, comment : BOOLEAN]))'
    <2>1. CASE EnableLocale
      BY <2>1, EnableMentions
    <2>2. CASE files'["locale.gen"] = files["locale.gen"]
      BY <2>2 DEF TypeOK
    <2> QED
      BY <2>1, <2>2, Changes
  <1>6. (files["hosts"] \in Seq(STRING))'
    <2>1. CASE AddHost
      BY <2>1, AddHostNames
    <2>2. CASE files'["hosts"] = files["hosts"]
      BY <2>2 DEF TypeOK
    <2> QED
      BY <2>1, <2>2, Changes
  <1>7. grub' \in [package : {"none", Platform(machine.uefi)}, target : {"none", GrubTarget},
                   menu : BOOLEAN]
    <2>1. CASE grub' = grub
      BY <2>1 DEF TypeOK
    <2>2. CASE EmergeGrub
      <3>1. "makeconf" \in done
        BY <2>2, Points DEF EmergeGrub, OrderInv
      <3>2. files["make.conf"][1].grub_platform = Platform(machine.uefi)
        BY <3>1, MakeConfPlatform DEF GrubTarget, Platform
      <3> QED
        BY <2>2, <3>2 DEF EmergeGrub, Ran, Fails, system, TypeOK
    <2>3. CASE GrubInstall
      BY <2>3 DEF GrubInstall, Ran, Fails, system, TypeOK
    <2>4. CASE GrubMkconfig
      BY <2>4 DEF GrubMkconfig, Ran, Fails, system, TypeOK
    <2> QED
      BY <2>1, <2>2, <2>3, <2>4, Changes
  <1>8. (grub \in [package : {"none", Platform(machine.uefi)}, target : {"none", GrubTarget},
                   menu : BOOLEAN])'
    BY <1>1, <1>7 DEF GrubTarget
  <1>9. (\A key \in Configs : conf[key] \in {<<>>} \cup {<<v>> : v \in Recorded[key]})'
    BY <1>2, <1>3
  <1> QED
    BY <1>1, <1>2, <1>4, <1>5, <1>6, <1>8, <1>9 DEF TypeOK

\* Before the first start nothing is made.
LEMMA SettingsInit == Init => SettingsInv
  <1> SUFFICES ASSUME Init PROVE SettingsInv
    OBVIOUS
  <1>1. /\ files["locale.gen"] = GenLines /\ files["hosts"] = HostLines
        /\ DOMAIN files = FileNames
    BY DEF Init, FileNames
  <1>2. TypeOK
    BY <1>1, LineAssumption DEF Init, TypeOK
  <1>3. OrderInv
    BY OwnPoints DEF Init, OrderInv, StepNames
  <1>4. MakeConfInv /\ TimezoneInv /\ FstabInv /\ NetworkInv /\ GrubInv
    BY DEF Init, MakeConfInv, TimezoneInv, FstabInv, NetworkInv, GrubInv
  <1>5. LocaleInv /\ HostInv
    BY <1>1, LineAssumption DEF Init, LocaleInv, HostInv
  <1> QED
    BY <1>2, <1>3, <1>4, <1>5 DEF SettingsInv

\* However the installers are started, stopped and started again, they stay in
\* the order of the steps, and what a step has written up to where it is stays
\* as it wrote it.
THEOREM SettingsInvariant == Spec => []SettingsInv
  <1>1. Init => SettingsInv
    BY SettingsInit
  <1>2. SettingsInv /\ [Next]_vars => SettingsInv'
    BY TypeNext, OrderNext, MakeConfNext, TimezoneNext, LocaleNext, FstabNext, HostNext,
       NetworkNext, GrubNext DEF SettingsInv
  <1> QED
    BY <1>1, <1>2, PTL DEF Spec

\* Each variable of the settings' steps has its type.
THEOREM TypeCorrect == Spec => []TypeOK
  <1>1. SettingsInv => TypeOK
    BY DEF SettingsInv
  <1> QED
    BY <1>1, SettingsInvariant, PTL

\* Of whatever options and stage 3 files: once a step is on record, its files
\* say what the record says, each once, and the boot loader is for the firmware
\* that make.conf and fstab are written for (s06 119-147, s07 68-106, s09
\* 41-127, s10 63-137).
THEOREM SettingsHold == Spec => []SettingsAgree
  <1>1. SettingsInv => SettingsAgree
    <2> SUFFICES ASSUME SettingsInv PROVE SettingsAgree
      OBVIOUS
    <2> USE DEF SettingsInv
    <2>1. IsInjective(files["hosts"]) /\ IsInjective(files["locale.gen"])
      BY DEF HostInv, LocaleInv
    <2>2. "makeconf" \in done => files["make.conf"] = conf.make_conf
      BY DEF MakeConfInv
    <2>3. "timezone" \in done =>
              files["timezone"] = conf.timezone /\ files["localtime"] = conf.timezone
      BY DEF TimezoneInv
    <2>4. "locale" \in done => /\ files["locale.conf"] = <<conf.locale[1][1]>>
                               /\ Made(conf.locale[1])
      BY DEF LocaleInv
    <2>5. "hostname" \in done => /\ files["hostname"] = <<conf.hostname[1]>>
                                 /\ Named(conf.hostname[1])
      <3>1. conf["hostname"] # <<>> => conf["hostname"] = <<conf["hostname"][1]>>
        BY OneSetting DEF Configs
      <3> QED
        BY <3>1 DEF HostInv
    <2>6. "network" \in done /\ machine.netLo => files["net"][1].iface \in links
      BY DEF NetworkInv
    <2>7. "bootloader" \in done =>
              /\ grub.menu /\ grub.target = conf.make_conf[1].grub_platform
              /\ (grub.target = "efi-64") <=> (files["fstab"][2].where = "/boot/efi")
              /\ files["fstab"][1].fs = machine.root_fs
      <3> HAVE "bootloader" \in done
      <3>1. "makeconf" \in done /\ "fstab" \in done
        BY DEF OrderInv
      <3>2. grub.target = GrubTarget /\ grub.menu
        BY DEF GrubInv
      <3>3. conf.make_conf[1].grub_platform = GrubTarget
        BY <3>1, MakeConfPlatform
      <3>4. /\ files["fstab"][1].fs = machine.root_fs
            /\ files["fstab"][2].where = IF machine.uefi THEN "/boot/efi" ELSE "/boot"
        BY <3>1 DEF FstabInv
      <3> QED
        BY <3>2, <3>3, <3>4 DEF GrubTarget
    <2> HIDE DEF SettingsInv
    <2> QED
      BY <2>1, <2>2, <2>3, <2>4, <2>5, <2>6, <2>7 DEF SettingsAgree, Made, Named
  <1> QED
    BY <1>1, SettingsInvariant, PTL

\* A setting on record stays whatever options follow, and a step on record has
\* its files left alone (state.get in s07 70, 91, s10 65).
THEOREM SettingsKept == Spec => SettingsStay
  <1> DEFINE Stay ==
               /\ \A key \in Configs \ {"make_conf"} :
                     conf[key] # <<>> => conf'[key] = conf[key]
               /\ \A step \in done :
                     /\ step \in done'
                     /\ \A f \in StepFiles[step] : files'[f] = files[f]
  <1>1. SettingsInv /\ [Next]_vars => [Stay]_vars
    <2> SUFFICES ASSUME SettingsInv, Next PROVE Stay
      OBVIOUS
    <2>1. TypeOK /\ OrderInv
      BY DEF SettingsInv
    <2>2. CASE \E s \in StepNames : Working(s)
      <3>1. PICK s \in StepNames : Working(s)
        BY <2>2
      <3>2. s \notin done
        BY <2>1, <3>1 DEF Working, OrderInv
      <3>3. ASSUME NEW t \in done PROVE StepFiles[t] \subseteq FileNames \ StepFiles[s]
        <4>1. t \in StepNames /\ t # s
          BY <2>1, <3>2, StepsAre DEF TypeOK
        <4> QED
          BY <3>1, <4>1 DEF StepFiles, FileNames, StepNames
      <3> QED
        BY <3>1, <3>3 DEF Working
    <2>3. CASE Turning
      BY <2>3 DEF Turning
    <2>4. CASE CalmDown \/ UNCHANGED vars
      BY <2>4 DEF CalmDown, vars
    <2> QED
      BY <2>1, <2>2, <2>3, <2>4, SomeStep
  <1> QED
    BY <1>1, SettingsInvariant, PTL DEF Spec, SettingsStay
=============================================================================
