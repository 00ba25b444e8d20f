---------------------------- MODULE ServerRecords ----------------------------
(***************************************************************************)
(* What the server keeps besides its workers: the projections and          *)
(* catalogs of native sessions, the files, their titles and their cache,   *)
(* the user's pins and projects, the watchers and the running status, the  *)
(* OpenCode child, the update and the process itself. Each part is a       *)
(* module of its own and they run side by side without sharing state, so   *)
(* one behaviour is of one part; what the server relies on is stated here  *)
(* for all parts at once.                                                  *)
(***************************************************************************)
EXTENDS ProjectionStore, OpenCodeSupervisor, OpenCodeCatalog, ClaudeCatalog, CodexCatalog,
        SessionCache, SessionLines, SessionTitles, SessionWatch, StatusBoard, Curation, Updater,
        AppRun

VARIABLE part   \* the part a behaviour is of; it never changes

Parts == {"projections", "supervisor", "opencode", "claude", "codex", "cache", "lines", "titles",
          "watch", "status", "curation", "updater", "app"}

recordVars == <<psVars, osVars, caVars, cgVars, cdVars, scVars, slVars, tiVars, waVars, sbVars,
                cuVars, upVars, arVars, part>>

\* Every other part is at rest in one of its initial states.
Init ==
  /\ part \in Parts
  /\ PsInit /\ OsInit /\ CaInit /\ CgInit /\ CdInit /\ ScInit /\ SlInit /\ TiInit /\ WaInit
  /\ SbInit /\ CuInit /\ UpInit /\ ArInit
  /\ part # "cache" => scKind = (CHOOSE kind \in ScKinds : TRUE)
                       /\ scFile[CHOOSE path \in ScPaths : TRUE] # <<>>
  /\ part # "lines" => slLines = SlCreated(SlNoModel, FALSE)
  /\ part # "titles" => ~tiEachTurn
  /\ part # "watch" => waFsnotify /\ waKnown
  /\ part # "status" => sbWatching
  /\ part # "curation" => cuExisting = {}
  /\ part # "app" => ~arHosted

Rest ==
  /\ IF part = "projections" THEN TRUE ELSE UNCHANGED psVars
  /\ IF part = "supervisor" THEN TRUE ELSE UNCHANGED osVars
  /\ IF part = "opencode" THEN TRUE ELSE UNCHANGED caVars
  /\ IF part = "claude" THEN TRUE ELSE UNCHANGED cgVars
  /\ IF part = "codex" THEN TRUE ELSE UNCHANGED cdVars
  /\ IF part = "cache" THEN TRUE ELSE UNCHANGED scVars
  /\ IF part = "lines" THEN TRUE ELSE UNCHANGED slVars
  /\ IF part = "titles" THEN TRUE ELSE UNCHANGED tiVars
  /\ IF part = "watch" THEN TRUE ELSE UNCHANGED waVars
  /\ IF part = "status" THEN TRUE ELSE UNCHANGED sbVars
  /\ IF part = "curation" THEN TRUE ELSE UNCHANGED cuVars
  /\ IF part = "updater" THEN TRUE ELSE UNCHANGED upVars
  /\ IF part = "app" THEN TRUE ELSE UNCHANGED arVars

Next ==
  /\ \/ part = "projections" /\ PsNext
     \/ part = "supervisor" /\ OsNext
     \/ part = "opencode" /\ CaNext
     \/ part = "claude" /\ CgNext
     \/ part = "codex" /\ CdNext
     \/ part = "cache" /\ ScNext
     \/ part = "lines" /\ SlNext
     \/ part = "titles" /\ TiNext
     \/ part = "watch" /\ WaNext
     \/ part = "status" /\ SbNext
     \/ part = "curation" /\ CuNext
     \/ part = "updater" /\ UpNext
     \/ part = "app" /\ ArNext
  /\ Rest /\ UNCHANGED part

Spec == Init /\ [][Next]_recordVars

-----------------------------------------------------------------------------
\* The variables of every part keep their types.
RecordsTypeOK ==
  /\ PsTypeOK /\ OsTypeOK /\ CaTypeOK /\ CgTypeOK /\ CdTypeOK /\ ScTypeOK
  /\ SlTypeOK /\ TiTypeOK /\ WaTypeOK /\ SbTypeOK /\ CuTypeOK /\ UpTypeOK /\ ArTypeOK

\* Once nothing is under way, the catalogs show what the runtimes have and every
\* session that may be titled is: no event, change, failed list or pass that gave
\* way to another is forgotten.
CaughtUp == CaCaughtUp /\ CaNoEventForgotten /\ CgCaughtUp /\ CdSynced /\ TiCoversAll

\* Whatever runs at once, what is read out is exact: an acknowledged local change is
\* in a projection, an answer of the cache is the file's, both folds of a file say
\* the same, a fork has no gap, and no session is both pinned and archived.
RecordsExact ==
  PsLocalKept /\ ScAnswersExact /\ SlFoldsAgree /\ SlQuestionExact /\ SlBranchWhole /\ CuExclusive

\* Those who watch learn the last change: subscribers of the OpenCode child, browsers
\* that show a running status, and readers of a file that is written to.
WatchersTell ==
  OsSubscriberCaughtUp /\ SbDeltasBalance /\ SbIdleFound /\ WaReloadsFollow /\ WaFirstLineTold

\* What was started ends: no child outlives its supervisor, no start goes without an
\* answer, nothing runs after a close, no claim on a title is left, and the process
\* takes down all it started, users first.
NothingLeftBehind ==
  /\ OsNoOrphan /\ OsStartAnswered /\ CaClosedMeansQuiet /\ WaQuietAfterStop /\ TiNoClaimLeft
  /\ ArUsersFirst /\ ArTornDown

\* An update leads to a later release, and a restart to a process that serves.
UpgradesForward == UpOffersLater /\ UpHandedOver

\* Nothing is taken away that is still there or that the user chose: no step prunes a
\* session that exists, drops a local intent, leaves a mixed projection, unpins on
\* its own, overrides a choice or replaces a name the user gave.
LossesAreMeant ==
  [][/\ CaPrunesOnlyDeleted /\ CgPrunesOnlyGone /\ CdIntentKept /\ PsReplacedWhole
     /\ CuPinsKept /\ CuChoiceStands /\ TiManualStands]_recordVars
=============================================================================
