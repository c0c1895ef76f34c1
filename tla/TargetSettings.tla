---------------------------- MODULE TargetSettings ----------------------------
(***************************************************************************)
(* The steps that write the new system's own configuration: MakeConfStep   *)
(* (s06), TimezoneStep and LocaleStep (s07), FstabStep and BootloaderStep  *)
(* (s09), HostnameStep, RootPasswordStep and NetworkStep (s10), run by one *)
(* installer after another, each with options of its own, cut off between  *)
(* any two writes or stopped by a failing command.                         *)
(*                                                                         *)
(* A file is the sequence of its lines.  What runs between these steps     *)
(* writes none of these files; saves and mounts are in StepRunner and      *)
(* ChrootMounts.                                                           *)
(***************************************************************************)
EXTENDS MakeConf
LOCAL INSTANCE SequencesExt

CONSTANTS
    Machines,  \* [hardware, uefi, swap, root_fs, netLo]
    Options,   \* what an installer may be started with
    Zones,     \* zones that the target has
    GenLines,  \* the lines of stage 3's locale.gen
    HostLines, \* the lines of stage 3's hosts, by name
    Within     \* <<x, y>>: x is part of the line for y

\* Some option names a zone that is there; a name is part of a line that is
\* nothing else.
ASSUME OptionAssumption ==
    /\ \E o \in Options : o.timezone \in Zones
    /\ \A o \in Options : /\ o.locale \in STRING \X STRING /\ o.hostname \in STRING
                           /\ <<o.hostname, o.hostname>> \in Within

\* Stage 3's files have no line twice.
ASSUME LineAssumption ==
    /\ GenLines \in Seq([locale : STRING \X STRING, comment : BOOLEAN])
    /\ HostLines \in Seq(STRING)
    /\ IsInjective(GenLines) /\ IsInjective(HostLines)

VARIABLES
    machine,   \* hardware, partitions and root_fs in the state file
    conf,      \* the other settings there: <<>> or <<value>>
    done,      \* completed_steps, these steps only
    args,      \* the running installer's options
    at,        \* its control point
    files,     \* the target's configuration files
    generated, \* its locales
    links,     \* its net.* service scripts, by interface
    runlevel,  \* those in the default runlevel
    grub,      \* [package, target, menu]: what grub was built and installed for
    calm       \* no more kills and failures

system == <<generated, links, runlevel, grub>>
vars == <<machine, conf, done, args, at, files, system, calm>>

Steps == <<"makeconf", "timezone", "locale", "fstab", "hostname", "root_password",
           "network", "bootloader">>
Configs == {"make_conf", "timezone", "locale", "hostname"}
FileNames == {"make.conf", "timezone", "localtime", "locale.gen", "locale.conf", "fstab",
              "hostname", "hosts", "net", "default/grub"}

Init == /\ machine \in Machines
        /\ conf = [key \in Configs |-> <<>>]
        /\ done = {} /\ args \in Options /\ at = "off" /\ calm = FALSE
        /\ files = [f \in FileNames |-> CASE f = "locale.gen" -> GenLines
                                          [] f = "hosts" -> HostLines
                                          [] OTHER -> <<>>]
        /\ generated = {} /\ links = {} /\ runlevel = {}
        /\ grub = [package |-> "none", target |-> "none", menu |-> FALSE]
-----------------------------------------------------------------------------
(* Pieces of the steps.                                                    *)

\* The first step not yet done, "end" if all are.
Upcoming(completed) ==
    LET left == {k \in 1 .. Len(Steps) : Steps[k] \notin completed}
    IN  IF left = {} THEN "end" ELSE Steps[CHOOSE k \in left : \A j \in left : k <= j]

\* Faulty form: the option goes before what is on record.
Get_Option(key, option) == option
\* state.get(key, option).
Get(key, option) == IF conf[key] = <<>> THEN option ELSE conf[key][1]

Write(file, lines, next) == /\ files' = [files EXCEPT ![file] = lines]
                            /\ at' = next
                            /\ UNCHANGED <<machine, conf, done, args, system, calm>>
Set(key, value, next) == /\ conf' = [conf EXCEPT ![key] = <<value>>]
                         /\ at' = next
                         /\ UNCHANGED <<machine, done, args, files, system, calm>>
\* A command in the chroot did what it is for, or failed with check=True.
Ran(next) == at' = next /\ UNCHANGED <<machine, conf, done, args, files, calm>>
Fails == ~calm /\ at' = "off" /\ UNCHANGED <<machine, conf, done, args, files, system, calm>>

\* Where execute() is over.
Marking == [makeconf |-> "mark makeconf", timezone |-> "mark timezone",
            locale |-> "mark locale", fstab |-> "mark fstab", hostname |-> "mark hostname",
            root_password |-> "mark root_password", network |-> "mark network",
            bootloader |-> "mark bootloader"]

\* mark_done, and on to the next step.
MarkDone(step) == /\ at = Marking[step]
                  /\ done' = done \cup {step}
                  /\ at' = Upcoming(done')
                  /\ UNCHANGED <<machine, conf, args, files, system, calm>>

Launch == /\ at = "off"
          /\ args' \in {o \in Options : calm => o.timezone \in Zones}
          /\ at' = Upcoming(done)
          /\ UNCHANGED <<machine, conf, done, files, system, calm>>
-----------------------------------------------------------------------------
(* The steps.                                                              *)

NewMakeConf == MakeConf(machine.hardware, machine.uefi, args.march, args.use)
WriteMakeConf == at = "makeconf" /\ Write("make.conf", <<NewMakeConf>>, "set make_conf")
SetMakeConf == at = "set make_conf" /\ Set("make_conf", NewMakeConf, "mark makeconf")

Timezone == Get("timezone", args.timezone)
NoSuchZone == /\ at = "timezone" /\ Timezone \notin Zones
              /\ at' = "off"
              /\ UNCHANGED <<machine, conf, done, args, files, system, calm>>
WriteTimezone == /\ at = "timezone" /\ Timezone \in Zones
                 /\ Write("timezone", <<Timezone>>, "localtime")
CopyLocaltime == at = "localtime" /\ Write("localtime", <<Timezone>>, "set timezone")
SetTimezone == at = "set timezone" /\ Set("timezone", Timezone, "mark timezone")

\* The text is looked for in the whole file, comments included.
Locale == Get("locale", args.locale)
Mentioned(locale) == \E k \in 1 .. Len(files["locale.gen"]) : files["locale.gen"][k].locale = locale
EnableLocale == /\ at = "locale"
                /\ Write("locale.gen",
                         IF Mentioned(Locale) THEN files["locale.gen"]
                         ELSE Append(files["locale.gen"], [locale |-> Locale, comment |-> FALSE]),
                         "locale-gen")
Enabled == {files["locale.gen"][k].locale :
               k \in {j \in 1 .. Len(files["locale.gen"]) : ~files["locale.gen"][j].comment}}
LocaleGen == /\ at = "locale-gen"
             /\ \/ Fails
                \/ /\ generated' = generated \cup Enabled
                   /\ Ran("locale.conf") /\ UNCHANGED <<links, runlevel, grub>>
WriteLang == at = "locale.conf" /\ Write("locale.conf", <<Locale[1]>>, "set locale")
SetLocale == at = "set locale" /\ Set("locale", Locale, "mark locale")

\* A device whose UUID blkid does not find is written in the place of one;
\* here it finds all or none.
FstabLine(where, fs, by) == [where |-> where, fs |-> fs, by |-> by]
WriteFstab ==
    /\ at = "fstab"
    /\ \E by \in {"uuid"} \cup (IF calm THEN {} ELSE {"device"}) :
          Write("fstab",
                <<FstabLine("/", machine.root_fs, by),
                  IF machine.uefi THEN FstabLine("/boot/efi", "vfat", by)
                  ELSE FstabLine("/boot", "ext2", by)>>
                \o (IF machine.swap THEN <<FstabLine("none", "swap", by)>> ELSE <<>>),
                "mark fstab")

Hostname == Get("hostname", args.hostname)
WriteHostname == at = "hostname" /\ Write("hostname", <<Hostname>>, "hosts")
\* Faulty form: the line is written without looking.
AddHost_Always == at = "hosts" /\ Write("hosts", Append(files["hosts"], Hostname), "set hostname")
AddHost == /\ at = "hosts"
           /\ Write("hosts",
                    IF \E k \in 1 .. Len(files["hosts"]) : <<Hostname, files["hosts"][k]>> \in Within
                    THEN files["hosts"] ELSE Append(files["hosts"], Hostname),
                    "set hostname")
SetHostname == at = "set hostname" /\ Set("hostname", Hostname, "mark hostname")

\* No option and no step ever sets a hash: there is only a warning.
RootPassword == /\ at = "root_password"
                /\ at' = "mark root_password"
                /\ UNCHANGED <<machine, conf, done, args, files, system, calm>>

\* Neither the interface nor DHCP is recorded.
WriteNet == at = "network" /\ Write("net", <<[iface |-> args.iface, dhcp |-> args.dhcp]>>, "net link")
LinkNet == /\ at = "net link"
           /\ links' = IF machine.netLo THEN links \cup {args.iface} ELSE links
           /\ Ran("rc-update") /\ UNCHANGED <<generated, runlevel, grub>>
\* check=False; a service without a script is not added.
RcUpdate == /\ at = "rc-update"
            /\ runlevel' \in {runlevel \cup ({args.iface} \cap links)}
                             \cup (IF calm THEN {} ELSE {runlevel})
            /\ Ran("mark network") /\ UNCHANGED <<generated, links, grub>>

WriteDefaultGrub == at = "bootloader" /\ Write("default/grub", <<"header">>, "emerge grub")
EmergeGrub == /\ at = "emerge grub"
              /\ \/ Fails
                 \/ /\ grub' = IF grub.package # "none" THEN grub
                               ELSE [grub EXCEPT !.package = files["make.conf"][1].grub_platform]
                    /\ Ran("grub-install") /\ UNCHANGED <<generated, links, runlevel>>
\* Of a platform the package was not built for nothing can be installed.
GrubTarget == IF machine.uefi THEN "efi-64" ELSE "pc"
GrubInstall == /\ at = "grub-install"
               /\ \/ Fails
                  \/ /\ grub.package # GrubTarget
                     /\ at' = "off"
                     /\ UNCHANGED <<machine, conf, done, args, files, system, calm>>
                  \/ /\ grub.package = GrubTarget
                     /\ grub' = [grub EXCEPT !.target = GrubTarget]
                     /\ Ran("grub-mkconfig") /\ UNCHANGED <<generated, links, runlevel>>
GrubMkconfig == /\ at = "grub-mkconfig"
                /\ \/ Fails
                   \/ /\ grub' = [grub EXCEPT !.menu = TRUE]
                      /\ Ran("mark bootloader") /\ UNCHANGED <<generated, links, runlevel>>
-----------------------------------------------------------------------------
\* A file that is written anew is empty between open() and write().
Opened == [makeconf |-> "make.conf", timezone |-> "timezone", localtime |-> "localtime",
           fstab |-> "fstab", hostname |-> "hostname", network |-> "net",
           bootloader |-> "default/grub"]

Kill == /\ ~calm /\ at \notin {"off", "end"}
        /\ \/ UNCHANGED files
           \/ at \in DOMAIN Opened /\ files' = [files EXCEPT ![Opened[at]] = <<>>]
           \/ at = "locale.conf" /\ files' = [files EXCEPT !["locale.conf"] = <<>>]
        /\ at' = "off"
        /\ UNCHANGED <<machine, conf, done, args, system, calm>>

CalmDown == /\ ~calm /\ calm' = TRUE
            /\ UNCHANGED <<machine, conf, done, args, at, files, system>>

Installer == \/ Launch \/ WriteMakeConf \/ SetMakeConf
             \/ NoSuchZone \/ WriteTimezone \/ CopyLocaltime \/ SetTimezone
             \/ EnableLocale \/ LocaleGen \/ WriteLang \/ SetLocale
             \/ WriteFstab \/ WriteHostname \/ AddHost \/ SetHostname \/ RootPassword
             \/ WriteNet \/ LinkNet \/ RcUpdate
             \/ WriteDefaultGrub \/ EmergeGrub \/ GrubInstall \/ GrubMkconfig
             \/ \E step \in ToSet(Steps) : MarkDone(step)

Next == Installer \/ Kill \/ CalmDown

Spec == Init /\ [][Next]_vars /\ WF_vars(Installer) /\ WF_vars(CalmDown)
-----------------------------------------------------------------------------
\* What may be on record under a key.
Recorded == [make_conf |-> {MakeConf(machine.hardware, machine.uefi, o.march, o.use) :
                               o \in Options},
             timezone  |-> {o.timezone : o \in Options},
             locale    |-> {o.locale : o \in Options},
             hostname  |-> {o.hostname : o \in Options}]

TypeOK == /\ machine \in Machines /\ args \in Options
          /\ DOMAIN conf = Configs
          /\ \A key \in Configs : conf[key] \in {<<>>} \cup {<<v>> : v \in Recorded[key]}
          /\ DOMAIN files = FileNames
          /\ files["locale.gen"] \in Seq([locale : STRING \X STRING, comment : BOOLEAN])
          /\ files["hosts"] \in Seq(STRING)
          /\ done \subseteq ToSet(Steps)
          /\ grub \in [package : {"none", Platform(machine.uefi)},
                      target : {"none", GrubTarget}, menu : BOOLEAN]
          /\ calm \in BOOLEAN

\* A name that is part of another line of hosts is taken to be there, as is a
\* locale that a comment names.
Hidden(host) == \E k \in 1 .. Len(files["hosts"]) :
                    files["hosts"][k] # host /\ <<host, files["hosts"][k]>> \in Within
OnlyComment(locale) == Mentioned(locale) /\ locale \notin Enabled

\* Whatever options earlier runs had and wherever they were cut off: once a
\* step is on record, its files say what the record says, or what the disk
\* and the firmware are, each once; and the boot loader is the one that
\* make.conf and fstab are written for (README.md 192: steps are idempotent;
\* s06 119-147, s07 68-106, s09 41-127, s10 63-137).
SettingsAgree ==
    /\ IsInjective(files["hosts"]) /\ IsInjective(files["locale.gen"])
    /\ "makeconf" \in done => files["make.conf"] = conf.make_conf
    /\ "timezone" \in done => files["timezone"] = conf.timezone /\ files["localtime"] = conf.timezone
    /\ "locale" \in done =>
          LET locale == conf.locale[1]
          IN  /\ files["locale.conf"] = <<locale[1]>>
              /\ OnlyComment(locale) \/ locale \in generated
    /\ "hostname" \in done =>
          LET host == conf.hostname[1]
          IN  /\ files["hostname"] = <<host>>
              /\ Hidden(host) \/ host \in ToSet(files["hosts"])
    /\ "network" \in done /\ machine.netLo => files["net"][1].iface \in links
    /\ "bootloader" \in done =>
          /\ grub.menu /\ grub.target = conf.make_conf[1].grub_platform
          /\ (grub.target = "efi-64") <=> (files["fstab"][2].where = "/boot/efi")
          /\ files["fstab"][1].fs = machine.root_fs

StepFiles == [makeconf |-> {"make.conf"}, timezone |-> {"timezone", "localtime"},
              locale |-> {"locale.gen", "locale.conf"}, fstab |-> {"fstab"},
              hostname |-> {"hostname", "hosts"}, root_password |-> {}, network |-> {"net"},
              bootloader |-> {"default/grub"}]

\* A setting on record stays whatever options follow, and a step on record
\* has its files left alone (state.get in s07 70, 91, s10 65).
SettingsStay ==
    [][/\ \A key \in Configs \ {"make_conf"} : conf[key] # <<>> => conf'[key] = conf[key]
       /\ \A step \in done : /\ step \in done'
                             /\ \A f \in StepFiles[step] : files'[f] = files[f]]_vars

\* When commands no longer fail and an installer is started again with a zone
\* that exists, every setting gets made (README.md 192).
SettingsDone == <>(done = ToSet(Steps))
=============================================================================
