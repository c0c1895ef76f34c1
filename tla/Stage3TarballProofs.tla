-------------------------- MODULE Stage3TarballProofs --------------------------
(***************************************************************************)
(* A recorded extraction left one whole build on the target, the one both  *)
(* entries name, for any number of builds and of runs, whatever is given,  *)
(* published, cut off or deleted in between.                               *)
(***************************************************************************)
EXTENDS Stage3Tarball, TLAPS

\* Control points of Stage3Step, those at which it has chosen a build, and
\* those of Stage3ExtractStep.
Downloading == {"choose", "fetch", "verify", "setUrl", "setTarball", "downloaded"}
Extracting == {"extract", "tar", "extracted"}

\* The two steps are recorded in their order, each before the next begins.
OrderInv == /\ "stage3_extract" \in done => "stage3_download" \in done
            /\ at \in Downloading => "stage3_download" \notin done
            /\ at \in Extracting =>
                  "stage3_download" \in done /\ "stage3_extract" \notin done
            /\ at = "over" => "stage3_extract" \in done

\* Both entries name the build the step has chosen by the time it is done, and
\* from then on.
EntriesInv == /\ at \in Downloading \ {"choose"} => url \in Builds
              /\ at \in {"setTarball", "downloaded"} => conf.stage3_url = url
              /\ at = "downloaded" => conf.stage3_tarball = url
              /\ "stage3_download" \in done =>
                    conf.stage3_url = conf.stage3_tarball

\* Nothing is unpacked before the download is recorded, nothing but the
\* recorded tarball after it.
TreeInv == /\ "stage3_download" \notin done => tree = {} /\ ~complete
           /\ tree \subseteq {conf.stage3_tarball}
           /\ at \in {"tar", "extracted"} \/ "stage3_extract" \in done =>
                 tree = {conf.stage3_tarball}
           /\ at = "extracted" \/ "stage3_extract" \in done => complete

BuildInv == OrderInv /\ EntriesInv /\ TreeInv
-----------------------------------------------------------------------------
(* Types.                                                                  *)

LEMMA InitTypeOK == Init => TypeOK
  <1> SUFFICES ASSUME Init PROVE TypeOK
    OBVIOUS
  <1>1. file \in [Builds -> {"absent", "partial", "whole", "other"}]
    BY DEF Init
  <1>2. conf \in [stage3_url : Builds \cup {NoBuild},
                  stage3_tarball : Builds \cup {NoBuild}]
    BY DEF Init
  <1> QED
    BY <1>1, <1>2 DEF Init, TypeOK, Points

LEMMA NextTypeOK == TypeOK /\ [Next]_vars => TypeOK'
  <1> SUFFICES ASSUME TypeOK, [Next]_vars PROVE TypeOK'
    OBVIOUS
  <1> USE DEF TypeOK, Points, GoTo, Leave, world, record, target
  <1>1. CASE Launch
    BY <1>1 DEF Launch
  <1>2. CASE ChooseUrl
    <2>1. url' \in Builds
      BY <1>2, TarballAssumption DEF ChooseUrl
    <2> QED
      BY <1>2, <2>1 DEF ChooseUrl
  <1>3. CASE Download
    <2>1. file' \in [Builds -> {"absent", "partial", "whole", "other"}]
      BY <1>3 DEF Download
    <2> QED
      BY <1>3, <2>1 DEF Download
  <1>4. CASE DownloadCut
    BY <1>4 DEF DownloadCut
  <1>5. CASE NoLatest \/ NoTarball \/ UseCached \/ Verify
    BY <1>5 DEF NoLatest, NoTarball, UseCached, Verify
  <1>6. CASE SetUrl \/ SetTarball
    BY <1>6 DEF SetUrl, SetTarball
  <1>7. CASE DownloadDone \/ ExtractDone
    BY <1>7 DEF DownloadDone, ExtractDone, Mark
  <1>8. CASE NotFound \/ TarBegins \/ TarEnds \/ TarFails
    BY <1>8 DEF NotFound, TarBegins, TarEnds, TarFails
  <1>9. CASE Kill \/ MirrorMoves \/ CalmDown
    BY <1>9 DEF Kill, MirrorMoves, CalmDown
  <1>10. CASE Delete
    BY <1>10 DEF Delete
  <1>11. CASE UNCHANGED vars
    BY <1>11 DEF vars
  <1> QED
    BY <1>1, <1>2, <1>3, <1>4, <1>5, <1>6, <1>7, <1>8, <1>9, <1>10, <1>11
       DEF Next, Work

\* The state of the two steps has the types TypeOK gives it, for all builds,
\* arguments and faults.
THEOREM TypeCorrect == Spec => []TypeOK
  BY InitTypeOK, NextTypeOK, PTL DEF Spec
-----------------------------------------------------------------------------
(* One build.                                                              *)

LEMMA InitBuildInv == Init => BuildInv
  BY DEF Init, BuildInv, OrderInv, EntriesInv, TreeInv, Downloading, Extracting

LEMMA NextOrderInv == OrderInv /\ [Next]_vars => OrderInv'
  <1> SUFFICES ASSUME OrderInv, [Next]_vars PROVE OrderInv'
    OBVIOUS
  <1> USE DEF OrderInv, Downloading, Extracting, GoTo, Leave, record
  <1>1. CASE Launch
    BY <1>1 DEF Launch
  <1>2. CASE \/ ChooseUrl \/ NoLatest \/ Download \/ DownloadCut \/ NoTarball
             \/ UseCached \/ Verify \/ SetUrl \/ SetTarball
    BY <1>2 DEF ChooseUrl, NoLatest, Download, DownloadCut, NoTarball, UseCached,
                Verify, SetUrl, SetTarball
  <1>3. CASE NotFound \/ TarBegins \/ TarEnds \/ TarFails
    BY <1>3 DEF NotFound, TarBegins, TarEnds, TarFails
  <1>4. CASE DownloadDone \/ ExtractDone
    BY <1>4 DEF DownloadDone, ExtractDone, Mark
  <1>5. CASE Kill \/ Delete \/ MirrorMoves \/ CalmDown \/ UNCHANGED vars
    BY <1>5 DEF Kill, Delete, MirrorMoves, CalmDown, vars
  <1> QED
    BY <1>1, <1>2, <1>3, <1>4, <1>5 DEF Next, Work

\* The steps that download.
LEMMA NextDownloads ==
    ASSUME TypeOK, BuildInv,
           \/ ChooseUrl \/ NoLatest \/ Download \/ DownloadCut \/ NoTarball
           \/ UseCached \/ Verify \/ SetUrl \/ SetTarball \/ DownloadDone
    PROVE  EntriesInv' /\ TreeInv'
  <1> USE DEF BuildInv, OrderInv, EntriesInv, TreeInv, Downloading, Extracting,
              GoTo, Leave, record, target
  <1>1. "stage3_download" \notin done /\ tree = {} /\ ~complete /\ at \notin Extracting
    BY DEF ChooseUrl, NoLatest, Download, DownloadCut, NoTarball, UseCached, Verify,
           SetUrl, SetTarball, DownloadDone, Mark
  <1>2. CASE ChooseUrl
    <2>1. url' \in Builds
      BY <1>2, TarballAssumption DEF ChooseUrl, TypeOK
    <2> QED
      BY <1>1, <1>2, <2>1 DEF ChooseUrl
  <1>3. CASE NoLatest \/ Download \/ DownloadCut \/ NoTarball \/ UseCached \/ Verify
    BY <1>1, <1>3 DEF NoLatest, Download, DownloadCut, NoTarball, UseCached, Verify
  <1>4. CASE SetUrl
    BY <1>1, <1>4 DEF SetUrl, TypeOK
  <1>5. CASE SetTarball
    BY <1>1, <1>5 DEF SetTarball, TypeOK
  <1>6. CASE DownloadDone
    BY <1>1, <1>6 DEF DownloadDone, Mark
  <1> QED
    BY <1>2, <1>3, <1>4, <1>5, <1>6

\* The steps that unpack, and all others.
LEMMA NextExtracts ==
    ASSUME BuildInv,
           \/ NotFound \/ TarBegins \/ TarEnds \/ TarFails \/ ExtractDone
           \/ Launch \/ Kill \/ Delete \/ MirrorMoves \/ CalmDown \/ UNCHANGED vars
    PROVE  EntriesInv' /\ TreeInv'
  <1> USE DEF BuildInv, OrderInv, EntriesInv, TreeInv, Downloading, Extracting,
              GoTo, Leave, record, target
  <1>1. conf' = conf
    BY DEF NotFound, TarBegins, TarEnds, TarFails, ExtractDone, Mark, Launch, Kill,
           Delete, MirrorMoves, CalmDown, vars
  <1>2. CASE NotFound \/ TarFails \/ Kill \/ Launch
    BY <1>1, <1>2 DEF NotFound, TarFails, Kill, Launch
  <1>3. CASE TarBegins
    BY <1>1, <1>3 DEF TarBegins, Tarball
  <1>4. CASE TarEnds
    BY <1>1, <1>4 DEF TarEnds
  <1>5. CASE ExtractDone
    BY <1>1, <1>5 DEF ExtractDone, Mark
  <1>6. CASE Delete \/ MirrorMoves \/ CalmDown \/ UNCHANGED vars
    BY <1>1, <1>6 DEF Delete, MirrorMoves, CalmDown, vars
  <1> QED
    BY <1>2, <1>3, <1>4, <1>5, <1>6

LEMMA NextBuildInv == TypeOK /\ BuildInv /\ [Next]_vars => BuildInv'
  BY NextOrderInv, NextDownloads, NextExtracts DEF BuildInv, Next, Work

\* A recorded extraction left all of one build on the target and nothing of
\* another, and both entries name it: for any builds on the mirror and any
\* sequence of attempts with any --stage3-url (s05_stage3.py 85-105, 113-125).
THEOREM OneBuildKept == Spec => []TargetIsOneBuild
  <1>1. BuildInv => TargetIsOneBuild
    BY DEF BuildInv, OrderInv, EntriesInv, TreeInv, TargetIsOneBuild
  <1> QED
    BY <1>1, InitTypeOK, NextTypeOK, InitBuildInv, NextBuildInv, PTL DEF Spec
=============================================================================
