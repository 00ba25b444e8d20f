------------------------------ MODULE Updater ------------------------------
(*****************************************************************************)
(* The update check and the in-place update (updater/updater.go,             *)
(* app/update.go, server/update.go): a ticker and the user check for the     *)
(* latest release, an update downloads its binary and its checksums in two   *)
(* steps and renames the binary into place, and a restart hands over to it.  *)
(*                                                                           *)
(* Releases are numbered in the order of their publication, which need not   *)
(* be that of their versions; one is published asset by asset.  Release 1 is *)
(* the one that runs.                                                        *)
(*****************************************************************************)
EXTENDS Integers, Sequences

CONSTANTS UpVersions,  \* the version of each release: [core, pre]
          UpChecks,    \* calls of Check
          UpInstalls   \* bound: updates

-----------------------------------------------------------------------------
(* The order of versions that semver.org defines, which compareSemver is to  *)
(* follow.  An identifier of a prerelease is a number or a word.             *)

UpIdentifiers == [word : {0}, number : Nat] \cup [word : Nat \ {0}, number : {0}]

UpIdentifierBefore(a, b) ==
  IF a.word = 0 THEN b.word # 0 \/ a.number < b.number ELSE a.word < b.word

\* The first identifier that differs decides; of equal ones the shorter is earlier.
UpPrereleaseBefore(a, b) ==
  \E i \in DOMAIN b :
    /\ \A j \in 1..(i - 1) : j \in DOMAIN a /\ a[j] = b[j]
    /\ i \in DOMAIN a => UpIdentifierBefore(a[i], b[i])

UpBefore(v, w) ==
  \/ \E i \in 1..3 : v.core[i] < w.core[i] /\ \A j \in 1..(i - 1) : v.core[j] = w.core[j]
  \/ /\ v.core = w.core /\ v.pre # <<>>
     /\ w.pre = <<>> \/ UpPrereleaseBefore(v.pre, w.pre)

ASSUME UpConstants ==
  /\ UpVersions \in Seq([core : [1..3 -> Nat], pre : Seq(UpIdentifiers)]) /\ UpVersions # <<>>
  /\ UpInstalls \in Nat

-----------------------------------------------------------------------------
VARIABLES
  upLatest, upAssets,     \* GitHub: the latest release and its assets so far
  upRelease, upShown,     \* c.release: [tag, assets]; c.latest
  upCheck, upFetched,     \* where a Check is; what it has fetched
  upInstall, upJob,       \* where the update is; the release it installs
  upInstalls,
  upBinary,               \* the release of the installed binary
  upRestart,              \* where the restart is
  upManager,              \* the service manager's restart: "none", "running", "done", "killed"
  upOld, upNew            \* this process, and its successor

upRemoteVars == <<upLatest, upAssets>>
upCheckVars == <<upCheck, upFetched>>
upInstallVars == <<upInstall, upJob, upInstalls, upBinary>>
upRestartVars == <<upRestart, upManager, upOld, upNew>>
upVars == <<upRemoteVars, upRelease, upShown, upCheckVars, upInstallVars, upRestartVars>>

UpTags == 1..Len(UpVersions)
UpNone == [tag |-> 0, assets |-> {}]
UpRemote == [tag |-> upLatest, assets |-> upAssets]
UpRunning == 1  \* the release that is running

UpInit ==
  /\ upLatest = UpRunning /\ upAssets = {"binary", "sums"}
  /\ upRelease = UpNone /\ upShown = 0
  /\ upCheck = [k \in UpChecks |-> "idle"] /\ upFetched = [k \in UpChecks |-> UpNone]
  /\ upInstall = "idle" /\ upJob = 0 /\ upInstalls = 0
  /\ upBinary = UpRunning
  /\ upRestart = "idle" /\ upManager = "none" /\ upOld = "up" /\ upNew = "none"

-----------------------------------------------------------------------------
(* compareSemver.                                                           *)

UpSign(a, b) == IF a < b THEN -1 ELSE IF a > b THEN 1 ELSE 0

\* compareIdentifier: a number [n] stands before a word [w].
UpCompareIdentifier(a, b) ==
  CASE a.word = 0 /\ b.word = 0 -> UpSign(a.number, b.number)
    [] a.word = 0 /\ b.word # 0 -> -1
    [] a.word # 0 /\ b.word = 0 -> 1
    [] OTHER -> UpSign(a.word, b.word)

\* The first position at which two sequences differ, by a comparison, or 0.
UpFirstDifference(a, b, Compare(_, _)) ==
  LET common == {i \in DOMAIN a \cap DOMAIN b : Compare(a[i], b[i]) # 0} IN
    IF common = {} THEN 0 ELSE CHOOSE i \in common : \A j \in common : i <= j

\* mutant: a release is taken for earlier than its prereleases.
UpReleaseFirst(a, b) ==
  IF a = <<>> THEN -1 ELSE IF b = <<>> THEN 1 ELSE UpSign(Len(a), Len(b))

\* comparePrerelease: none stands after any; the longer of equal ones is later.
UpComparePrerelease(a, b) ==
  LET i == UpFirstDifference(a, b, UpCompareIdentifier) IN
    CASE a = b -> 0
      [] a = <<>> /\ b # <<>> -> 1
      [] b = <<>> /\ a # <<>> -> -1
      [] OTHER -> IF i # 0 THEN UpCompareIdentifier(a[i], b[i]) ELSE UpSign(Len(a), Len(b))

UpCompareSemver(a, b) ==
  LET i == UpFirstDifference(a.core, b.core, UpSign) IN
    IF i # 0 THEN UpSign(a.core[i], b.core[i]) ELSE UpComparePrerelease(a.pre, b.pre)

\* Info.HasUpdate.
UpHasUpdate ==
  upShown # 0 /\ UpCompareSemver(UpVersions[upShown], UpVersions[UpRunning]) > 0

-----------------------------------------------------------------------------
(* GitHub.                                                                  *)

UpPublish ==
  /\ \/ /\ upLatest < Len(UpVersions) /\ upAssets = {"binary", "sums"}
        /\ upLatest' = upLatest + 1 /\ upAssets' = {}
     \/ \E asset \in {"binary", "sums"} \ upAssets :
          upAssets' = upAssets \cup {asset} /\ UNCHANGED upLatest
  /\ UNCHANGED <<upRelease, upShown, upCheckVars, upInstallVars, upRestartVars>>

-----------------------------------------------------------------------------
(* Check, by Start's timer or by the user.                                  *)

UpFetch(k) ==
  /\ upOld = "up" /\ upCheck[k] = "idle"
  /\ \/ /\ upFetched' = [upFetched EXCEPT ![k] = UpRemote]
        /\ upCheck' = [upCheck EXCEPT ![k] = "fetched"]
     \/ upCheck' = [upCheck EXCEPT ![k] = "done"] /\ UNCHANGED upFetched
  /\ UNCHANGED <<upRemoteVars, upRelease, upShown, upInstallVars, upRestartVars>>

UpStore(k) ==
  /\ upOld = "up" /\ upCheck[k] = "fetched"
  /\ upRelease' = upFetched[k] /\ upShown' = upFetched[k].tag
  /\ upCheck' = [upCheck EXCEPT ![k] = "done"]
  /\ UNCHANGED <<upRemoteVars, upFetched, upInstallVars, upRestartVars>>

-----------------------------------------------------------------------------
(* installUpdate, one at a time under updateMu.                             *)

UpEndInstall == upInstall' = "idle" /\ upJob' = 0

\* latestRelease: what is cached, or a fetch that is cached unless another was.
UpResolved(rel) ==
  IF upRelease # UpNone THEN rel = upRelease /\ UNCHANGED upRelease
  ELSE rel = UpRemote /\ upRelease' = rel

\* LatestAsset; a release without the platform's binary, or none, is an error.
UpResolve ==
  /\ upOld = "up" /\ upInstall = "idle" /\ upInstalls < UpInstalls
  /\ upInstalls' = upInstalls + 1
  /\ \/ UNCHANGED <<upRelease, upInstall, upJob>>
     \/ \E rel \in {upRelease, UpRemote} :
          /\ UpResolved(rel)
          /\ IF "binary" \in rel.assets
             THEN upInstall' = "download" /\ upJob' = rel.tag
             ELSE UNCHANGED <<upInstall, upJob>>
  /\ UNCHANGED <<upRemoteVars, upShown, upCheckVars, upBinary, upRestartVars>>

UpDownload ==
  /\ upOld = "up" /\ upInstall = "download"
  /\ upInstall' = "checksums" \/ upInstall' = "failed"
  /\ UNCHANGED <<upRemoteVars, upRelease, upShown, upCheckVars, upJob, upInstalls, upBinary,
                 upRestartVars>>

\* The sums of another release do not match the binary; without sums nothing is verified.
UpMatches(rel) == "sums" \in rel.assets => rel.tag = upJob

\* LatestChecksumsURL resolves the release anew.
UpVerify ==
  /\ upOld = "up" /\ upInstall = "checksums"
  /\ \/ upInstall' = "failed" /\ UNCHANGED upRelease
     \/ \E rel \in {upRelease, UpRemote} :
          /\ UpResolved(rel)
          /\ upInstall' = IF UpMatches(rel) THEN "rename" ELSE "failed"
  /\ UNCHANGED <<upRemoteVars, upShown, upCheckVars, upJob, upInstalls, upBinary, upRestartVars>>

UpRename ==
  /\ upOld = "up" /\ upInstall \in {"rename", "failed"}
  /\ upBinary' = IF upInstall = "rename" THEN upJob ELSE upBinary
  /\ UpEndInstall
  /\ UNCHANGED <<upRemoteVars, upRelease, upShown, upCheckVars, upInstalls, upRestartVars>>

-----------------------------------------------------------------------------
(* unixRestart.                                                             *)

UpRestartBegins ==
  /\ upOld = "up" /\ upRestart = "idle"
  /\ \/ upManager' = "running" /\ upRestart' = "service"
     \/ upRestart' = "failed" /\ UNCHANGED upManager
  /\ UNCHANGED <<upRemoteVars, upRelease, upShown, upCheckVars, upInstallVars, upOld, upNew>>

\* The service manager starts a successor, or there is no such service.
UpManager ==
  /\ upManager = "running"
  /\ \/ upManager' = "done" /\ upNew' = "up" /\ upOld' \in {upOld, "gone"}
     \/ upManager' = "no service" /\ UNCHANGED <<upOld, upNew>>
  /\ UNCHANGED <<upRemoteVars, upRelease, upShown, upCheckVars, upInstallVars, upRestart>>

\* restartService: the command's end, or 3 s, after which it is killed and counts
\* as a take-over; without a service the binary is started anew, which waits a second.
UpRestartService ==
  /\ upOld = "up" /\ upRestart = "service"
  /\ \/ upManager = "done" /\ upRestart' = "exit timer" /\ UNCHANGED <<upManager, upNew, upOld>>
     \/ /\ upManager = "running" /\ upManager' = "killed" /\ upRestart' = "exit timer"
        /\ UNCHANGED <<upNew, upOld>>
     \/ /\ upManager = "no service" /\ UNCHANGED upManager
        /\ \/ upNew' = "sleeping" /\ upOld' = "gone" /\ upRestart' = "done"
           \/ upRestart' = "failed" /\ UNCHANGED <<upNew, upOld>>
  /\ UNCHANGED <<upRemoteVars, upRelease, upShown, upCheckVars, upInstallVars>>

UpExitTimer ==
  /\ upOld = "up" /\ upRestart = "exit timer"
  /\ upOld' = "gone"
  /\ UNCHANGED <<upRemoteVars, upRelease, upShown, upCheckVars, upInstallVars, upRestart, upManager,
                 upNew>>

\* The successor sleeps while the port is held.
UpSuccessorBinds ==
  /\ upNew = "sleeping" /\ upOld = "gone" /\ upNew' = "up"
  /\ UNCHANGED <<upRemoteVars, upRelease, upShown, upCheckVars, upInstallVars, upRestart, upManager,
                 upOld>>

UpNext ==
  \/ UpPublish \/ UpResolve \/ UpDownload \/ UpVerify \/ UpRename
  \/ \E k \in UpChecks : UpFetch(k) \/ UpStore(k)
  \/ UpRestartBegins \/ UpManager \/ UpRestartService \/ UpExitTimer \/ UpSuccessorBinds

UpSpec == UpInit /\ [][UpNext]_upVars

-----------------------------------------------------------------------------
(* Properties.                                                              *)

UpTypeOK ==
  /\ upLatest \in UpTags /\ upRelease.tag \in UpTags \cup {0}
  /\ upBinary \in UpTags /\ upOld \in {"up", "gone"} /\ upNew \in {"none", "sleeping", "up"}

\* An update is offered exactly when the version shown is later than the one that
\* runs, in the order that semver.org defines.
UpOffersLater ==
  UpHasUpdate <=> upShown # 0 /\ UpBefore(UpVersions[UpRunning], UpVersions[upShown])

\* A restart that was not cut off leaves a successor behind.
UpHandedOver == upOld = "gone" /\ upManager # "killed" => upNew # "none"
=============================================================================
