----------------------------- MODULE Stage3Tarball -----------------------------
(***************************************************************************)
(* What Stage3Step and Stage3ExtractStep (s05_stage3.py) do with the       *)
(* tarball, over repeated runs of the installer: which build is taken, the *)
(* file kept in /var/tmp, its verification, the state entries, and the     *)
(* tree tar unpacks onto the target.                                       *)
(*                                                                         *)
(* Abstracted: a URL, the file it is kept in and the build it names are    *)
(* one value; a state.set or mark_done saves in one step (StepRunner has   *)
(* the save in detail).                                                    *)
(***************************************************************************)
CONSTANTS
    Builds,    \* the mirror's stage3 builds
    UrlArgs,   \* values of --stage3-url; NoBuild where it is not given
    NoBuild,
    Faults     \* what may go wrong in this instance

ASSUME TarballAssumption ==
    /\ Builds # {} /\ NoBuild \notin Builds
    /\ UrlArgs \subseteq Builds \cup {NoBuild} /\ UrlArgs # {}
    /\ Faults \subseteq {"kill", "cut", "mirror", "replaced", "deleted"}

VARIABLES
    latest,    \* the build latest-stage3-amd64-openrc.txt names
    file,      \* what _STAGE3_DIR holds of each build
    conf,      \* the state file's stage3_url and stage3_tarball
    done,      \* steps the state file lists
    tree,      \* builds of which the target holds files
    complete,  \* all of the last unpacked build's files are there
    arg,       \* --stage3-url of this run
    url,       \* execute()'s local `url'
    calm,      \* nothing goes wrong any more (an environment's choice)
    at         \* control point

world  == <<latest, calm>>
record == <<conf, done>>
target == <<tree, complete>>
vars   == <<world, file, record, target, arg, url, at>>

Points == {"off", "choose", "fetch", "verify", "setUrl", "setTarball",
           "downloaded", "extract", "tar", "extracted", "over"}

May(f) == f \in Faults /\ ~calm
GoTo(point) == at' = point
Leave == at' = "off" /\ url' = NoBuild

Init == /\ latest \in Builds
        /\ file = [b \in Builds |-> "absent"]
        /\ conf = [stage3_url |-> NoBuild, stage3_tarball |-> NoBuild]
        /\ done = {}
        /\ tree = {} /\ complete = FALSE
        /\ arg \in UrlArgs /\ url = NoBuild
        /\ calm = FALSE /\ at = "off"

Launch == /\ at = "off"
          /\ arg' \in UrlArgs
          /\ \/ "stage3_download" \notin done /\ GoTo("choose")
             \/ "stage3_download" \in done /\ "stage3_extract" \notin done /\ GoTo("extract")
             \/ {"stage3_download", "stage3_extract"} \subseteq done /\ GoTo("over")
          /\ UNCHANGED <<world, file, record, target, url>>

Mark(step, from, to) == /\ at = from /\ GoTo(to)
                        /\ done' = done \cup {step}
                        /\ UNCHANGED <<world, file, conf, target, arg, url>>
-----------------------------------------------------------------------------
(* Stage3Step.                                                             *)

\* The user's build, or the one of an earlier attempt, or the latest.
ChooseUrl == /\ at = "choose" /\ GoTo("fetch")
             /\ url' = IF arg # NoBuild THEN arg
                       ELSE IF conf.stage3_url # NoBuild THEN conf.stage3_url
                       ELSE latest
             /\ UNCHANGED <<world, file, record, target, arg>>

NoLatest == /\ at = "choose" /\ May("mirror")
            /\ arg = NoBuild /\ conf.stage3_url = NoBuild
            /\ Leave
            /\ UNCHANGED <<world, file, record, target, arg>>

\* urlretrieve writes to the file's final name; a mirror that is being
\* updated may serve another file than the one its DIGESTS list.
Download == /\ at = "fetch" /\ file[url] = "absent" /\ GoTo("verify")
            /\ \E got \in {"whole"} \cup (IF May("replaced") THEN {"other"} ELSE {}) :
                   file' = [file EXCEPT ![url] = got]
            /\ UNCHANGED <<world, record, target, arg, url>>

\* The connection or the installer is cut off: what has come stays there.
DownloadCut == /\ at = "fetch" /\ file[url] = "absent" /\ May("cut")
               /\ file' = [file EXCEPT ![url] = "partial"]
               /\ Leave
               /\ UNCHANGED <<world, record, target, arg>>

NoTarball == /\ at = "fetch" /\ file[url] = "absent" /\ May("mirror")
             /\ Leave
             /\ UNCHANGED <<world, file, record, target, arg>>

\* Faulty form: the step returns where it finds the file.
UseCached_Returns == /\ at = "fetch" /\ file[url] # "absent" /\ GoTo("downloaded")
                     /\ UNCHANGED <<world, file, record, target, arg, url>>
UseCached == /\ at = "fetch" /\ file[url] # "absent" /\ GoTo("verify")
             /\ UNCHANGED <<world, file, record, target, arg, url>>

\* No DIGESTS, no line for the file, a match or a mismatch: every exception
\* is caught, the StepError of a mismatch too.
Verify == /\ at = "verify" /\ GoTo("setUrl")
          /\ UNCHANGED <<world, file, record, target, arg, url>>

SetUrl == /\ at = "setUrl" /\ GoTo("setTarball")
          /\ conf' = [conf EXCEPT !.stage3_url = url]
          /\ UNCHANGED <<world, file, done, target, arg, url>>

SetTarball == /\ at = "setTarball" /\ GoTo("downloaded")
              /\ conf' = [conf EXCEPT !.stage3_tarball = url]
              /\ UNCHANGED <<world, file, done, target, arg, url>>

DownloadDone == Mark("stage3_download", "downloaded", "extract")
-----------------------------------------------------------------------------
(* Stage3ExtractStep: it trusts the state file's path.                     *)

Tarball == conf.stage3_tarball

NotFound == /\ at = "extract" /\ (Tarball \in Builds => file[Tarball] = "absent")
            /\ Leave
            /\ UNCHANGED <<world, file, record, target, arg>>

TarBegins == /\ at = "extract" /\ Tarball \in {b \in Builds : file[b] # "absent"}
             /\ GoTo("tar")
             /\ tree' = tree \cup {Tarball} /\ complete' = FALSE
             /\ UNCHANGED <<world, file, record, arg, url>>

TarEnds == /\ at = "tar" /\ file[Tarball] # "partial" /\ GoTo("extracted")
           /\ complete' = TRUE
           /\ UNCHANGED <<world, file, record, tree, arg, url>>

\* Faulty form: tar's exit status is not looked at.
TarFails_Ignored == /\ at = "tar" /\ file[Tarball] = "partial" /\ GoTo("extracted")
                    /\ UNCHANGED <<world, file, record, target, arg, url>>
TarFails == /\ at = "tar" /\ file[Tarball] = "partial"
            /\ Leave
            /\ UNCHANGED <<world, file, record, target, arg>>

ExtractDone == Mark("stage3_extract", "extracted", "over")
-----------------------------------------------------------------------------
Kill == /\ May("kill") /\ at # "off"
        /\ Leave
        /\ UNCHANGED <<world, file, record, target, arg>>

\* The user deletes a file between two runs.
Delete == /\ May("deleted") /\ at = "off"
          /\ \E b \in Builds : file[b] # "absent" /\ file' = [file EXCEPT ![b] = "absent"]
          /\ UNCHANGED <<world, record, target, arg, url, at>>

\* The mirror publishes another build.
MirrorMoves == /\ May("mirror")
               /\ latest' \in Builds \ {latest}
               /\ UNCHANGED <<calm, file, record, target, arg, url, at>>

CalmDown == /\ ~calm /\ calm' = TRUE
            /\ UNCHANGED <<latest, file, record, target, arg, url, at>>

Work == \/ ChooseUrl \/ NoLatest \/ Download \/ DownloadCut \/ NoTarball
        \/ UseCached \/ Verify \/ SetUrl \/ SetTarball \/ DownloadDone
        \/ NotFound \/ TarBegins \/ TarEnds \/ TarFails \/ ExtractDone

Next == Launch \/ Work \/ Kill \/ Delete \/ MirrorMoves \/ CalmDown

Spec == Init /\ [][Next]_vars

\* A running step goes on and the user runs the installer again.
FairSpec == Spec /\ WF_vars(Work) /\ WF_vars(Launch)
-----------------------------------------------------------------------------
TypeOK == /\ latest \in Builds
          /\ file \in [Builds -> {"absent", "partial", "whole", "other"}]
          /\ conf \in [stage3_url : Builds \cup {NoBuild},
                       stage3_tarball : Builds \cup {NoBuild}]
          /\ done \subseteq {"stage3_download", "stage3_extract"}
          /\ tree \subseteq Builds /\ complete \in BOOLEAN
          /\ arg \in UrlArgs /\ url \in Builds \cup {NoBuild}
          /\ calm \in BOOLEAN /\ at \in Points

\* A recorded extraction left all of one build on the target and nothing of
\* another, and it is the build both state entries name: whatever
\* --stage3-url interrupted attempts were given, however the mirror moved on
\* between them, though an incomplete file may be taken for the tarball and
\* tar may have been cut off before (s05_stage3.py 85-105, 113-125).
TargetIsOneBuild ==
    "stage3_extract" \in done =>
        complete /\ tree = {conf.stage3_tarball} /\ tree = {conf.stage3_url}

\* The tarball cannot be unpacked any more: a download was cut off, or the
\* recorded one has been deleted.
Unusable == \/ \E b \in Builds : file[b] = "partial"
            \/ /\ "stage3_download" \in done
               /\ conf.stage3_tarball \in {b \in Builds : file[b] = "absent"}

\* Once nothing goes wrong any more the system gets extracted, unless the
\* tarball ever became unusable, from which no step recovers (README.md
\* 28-29).
GetsExtracted == []~Unusable => (calm ~> at = "over")
=============================================================================
