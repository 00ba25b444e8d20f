---------------------------- MODULE ClaudeCatalog ----------------------------
(********************************************************************************)
(* How projections follow the transcripts Claude writes (claude/catalog.go,     *)
(* watcher.go): a watcher debounces file events by path and refreshes one       *)
(* session, or synchronises all of them after a removal; a ticker synchronises  *)
(* too, and a worker refreshes the session it runs.                             *)
(*                                                                              *)
(* A transcript is a version that grows with every line, 0 while there is none; *)
(* its modification time and size change with it.  Catalog.mu makes these calls *)
(* one at a time; the files change meanwhile.                                   *)
(********************************************************************************)
EXTENDS Naturals, FiniteSets

CONSTANTS CgSessions,  \* native ids, each with one possible transcript path
          CgBudget     \* bound: changes of files and calls made by others than the watcher

ASSUME CgConstants == CgBudget \in Nat

VARIABLES
  cgNative,    \* version of the transcript
  cgProj,      \* the projection: its version and whether it is marked fresh
  cgFiles,     \* c.files: fingerprint remembered of a path, and materialized
  cgEvents,    \* file events not handled: changed paths, or CgAll for a removal
  cgMap,       \* the watcher's timers
  cgArmed,     \* those that have not fired
  cgReady,     \* keys in ready
  cgOp,        \* the call that holds c.mu
  cgSpent, cgExcused   \* spent of the budget; history: sessions whose refresh failed

cgWatchVars == <<cgEvents, cgMap, cgArmed, cgReady>>
cgVars == <<cgNative, cgProj, cgFiles, cgWatchVars, cgOp, cgSpent, cgExcused>>

CgAll == "all"
ASSUME CgAllAssumption == CgAll \notin CgSessions

CgNoFile == [stamp |-> 0, materialized |-> FALSE]
CgNoProj == [version |-> 0, fresh |-> FALSE]
CgNoOp == [kind |-> "idle", watcher |-> FALSE, todo |-> {}, initial |-> {}, paths |-> {},
           read |-> {}, now |-> {}, stamp |-> 0, parsed |-> [s \in CgSessions |-> 0],
           complete |-> FALSE, confirmed |-> 0]
CgExisting == {s \in CgSessions : cgNative[s] > 0}
CgProjected == {s \in CgSessions : cgProj[s] # CgNoProj}
CgSpend == cgSpent < CgBudget /\ cgSpent' = cgSpent + 1

CgInit ==
  /\ cgNative = [s \in CgSessions |-> 0] /\ cgProj = [s \in CgSessions |-> CgNoProj]
  /\ cgFiles = [s \in CgSessions |-> CgNoFile]
  /\ cgEvents = {} /\ cgMap = {} /\ cgArmed = {} /\ cgReady = {}
  /\ cgOp = CgNoOp /\ cgSpent = 0 /\ cgExcused = {}

-----------------------------------------------------------------------------
(* Claude's files, and new sessions.                                        *)

CgClaudeWrites(s) ==
  /\ CgSpend
  /\ cgNative' = [cgNative EXCEPT ![s] = cgSpent']
  /\ cgEvents' = cgEvents \cup {s}
  /\ UNCHANGED <<cgProj, cgFiles, cgMap, cgArmed, cgReady, cgOp, cgExcused>>

CgClaudeRemoves(s) ==
  /\ cgNative[s] > 0 /\ CgSpend
  /\ cgNative' = [cgNative EXCEPT ![s] = 0]
  /\ cgEvents' = cgEvents \cup {CgAll}
  /\ UNCHANGED <<cgProj, cgFiles, cgMap, cgArmed, cgReady, cgOp, cgExcused>>

\* A new project directory: everything is synchronised.
CgNewProject ==
  /\ CgSpend
  /\ cgEvents' = cgEvents \cup {CgAll}
  /\ UNCHANGED <<cgNative, cgProj, cgFiles, cgMap, cgArmed, cgReady, cgOp, cgExcused>>

\* CreateSessionProjection: a new id that Claude has not heard of.
CgCreate(s) ==
  /\ cgNative[s] = 0 /\ cgProj[s] = CgNoProj /\ cgFiles[s] = CgNoFile /\ CgSpend
  /\ cgProj' = [cgProj EXCEPT ![s] = [version |-> 0, fresh |-> TRUE]]
  /\ UNCHANGED <<cgNative, cgFiles, cgWatchVars, cgOp, cgExcused>>

-----------------------------------------------------------------------------
(* Watcher.                                                                 *)

\* schedule: a timer of the same key is stopped, a new one armed.
CgFileEvent(key) ==
  /\ key \in cgEvents /\ ~cgOp.watcher
  /\ cgEvents' = cgEvents \ {key}
  /\ cgMap' = cgMap \cup {key} /\ cgArmed' = cgArmed \cup {key}
  /\ UNCHANGED <<cgNative, cgProj, cgFiles, cgReady, cgOp, cgSpent, cgExcused>>

CgTimerFires(key) ==
  /\ key \in cgArmed
  /\ cgArmed' = cgArmed \ {key} /\ cgReady' = cgReady \cup {key}
  /\ UNCHANGED <<cgNative, cgProj, cgFiles, cgEvents, cgMap, cgOp, cgSpent, cgExcused>>

CgBegin(kind, byWatcher, todo) ==
  cgOp' = [CgNoOp EXCEPT !.kind = kind, !.watcher = byWatcher, !.todo = todo]

\* A key is due: everything is synchronised and the pending timers are dropped,
\* or one path is refreshed.
CgDue(key) ==
  /\ key \in cgReady /\ cgOp = CgNoOp
  /\ cgReady' = cgReady \ {key}
  /\ IF key = CgAll
     THEN cgMap' = {} /\ cgArmed' = cgArmed \ (cgMap \ {key}) /\ CgBegin("scan", TRUE, {})
     ELSE cgMap' = cgMap \ {key} /\ UNCHANGED cgArmed /\ CgBegin("refresh", TRUE, {key})
  /\ UNCHANGED <<cgNative, cgProj, cgFiles, cgEvents, cgSpent, cgExcused>>

\* The catalogSyncer's tick, and RefreshNative of a worker.
CgOtherCall ==
  /\ cgOp = CgNoOp /\ CgSpend
  /\ CgBegin("scan", FALSE, {}) \/ \E s \in CgSessions : CgBegin("refresh", FALSE, {s})
  /\ UNCHANGED <<cgNative, cgProj, cgFiles, cgWatchVars, cgExcused>>

-----------------------------------------------------------------------------
(* RefreshPath and RefreshNative.                                           *)

\* Without a transcript there is nothing to do.
CgRefresh(s) ==
  /\ cgOp.kind = "refresh" /\ s \in cgOp.todo
  /\ \/ /\ cgNative[s] > 0
        /\ cgOp' = [cgOp EXCEPT !.kind = "materialize", !.parsed[s] = cgNative[s]]
        /\ UNCHANGED cgExcused
     \/ /\ cgOp' = CgNoOp
        /\ cgExcused' = IF cgNative[s] > 0 /\ cgOp.watcher THEN cgExcused \cup {s} ELSE cgExcused
  /\ UNCHANGED <<cgNative, cgProj, cgFiles, cgWatchVars, cgSpent>>

CgRefreshWrites(s) ==
  /\ cgOp.kind = "materialize" /\ s \in cgOp.todo
  /\ cgProj' = [cgProj EXCEPT ![s] = [version |-> cgOp.parsed[s], fresh |-> FALSE]]
  /\ cgOp' = [cgOp EXCEPT !.kind = "remember"]
  /\ cgExcused' = cgExcused \ {s}
  /\ UNCHANGED <<cgNative, cgFiles, cgWatchVars, cgSpent>>

\* rememberFile looks at the file again: it may be newer than what was parsed.
CgRemember(s) ==
  /\ cgOp.kind = "remember" /\ s \in cgOp.todo
  /\ cgFiles' = IF cgNative[s] = 0 THEN cgFiles
                ELSE [cgFiles EXCEPT ![s] = [stamp |-> cgNative[s], materialized |-> TRUE]]
  /\ cgOp' = CgNoOp
  /\ UNCHANGED <<cgNative, cgProj, cgWatchVars, cgSpent, cgExcused>>

-----------------------------------------------------------------------------
(* Sync.                                                                    *)

CgSyncStep(from, to) == cgOp.kind = from /\ cgOp' = to

\* FindProjections and scanPaths.
CgScan ==
  /\ CgSyncStep("scan", [cgOp EXCEPT !.kind = "stat", !.initial = CgProjected,
                                     !.paths = CgExisting, !.todo = CgExisting, !.complete = TRUE])
  /\ UNCHANGED <<cgNative, cgProj, cgFiles, cgWatchVars, cgSpent, cgExcused>>

\* The context ends a sync between two files.
CgSyncTimesOut ==
  /\ CgSyncStep("stat", CgNoOp) /\ cgOp.todo # {}
  /\ cgExcused' = CgSessions
  /\ UNCHANGED <<cgNative, cgProj, cgFiles, cgWatchVars, cgSpent>>

\* A path whose fingerprint is the remembered one is not parsed again.
CgUnchanged(s) == cgFiles[s].stamp = cgNative[s]

CgStat(s) ==
  /\ cgOp.kind = "stat" /\ s \in cgOp.todo
  /\ cgOp' = IF cgNative[s] = 0 THEN [cgOp EXCEPT !.todo = @ \ {s}, !.complete = FALSE]
             ELSE IF CgUnchanged(s) THEN [cgOp EXCEPT !.todo = @ \ {s}, !.read = @ \cup {s}]
             ELSE [cgOp EXCEPT !.todo = @ \ {s}, !.kind = "parse", !.now = {s},
                               !.stamp = cgNative[s]]
  /\ UNCHANGED <<cgNative, cgProj, cgFiles, cgWatchVars, cgSpent, cgExcused>>

\* ParseTranscript comes after Lstat; a file that cannot be parsed yet makes the
\* scan partial.
CgParse(s) ==
  /\ cgOp.kind = "parse" /\ s \in cgOp.now
  /\ LET parsed == [cgOp EXCEPT !.kind = "stat", !.now = {}, !.stamp = 0] IN
     \/ /\ cgNative[s] > 0
        /\ cgFiles' = [cgFiles EXCEPT ![s] = [stamp |-> cgOp.stamp, materialized |-> FALSE]]
        /\ cgOp' = [parsed EXCEPT !.read = @ \cup {s}, !.parsed[s] = cgNative[s]]
        /\ UNCHANGED cgExcused
     \/ /\ cgOp' = [parsed EXCEPT !.complete = FALSE]
        /\ cgExcused' = cgExcused \cup {s} /\ UNCHANGED cgFiles
  /\ UNCHANGED <<cgNative, cgProj, cgWatchVars, cgSpent>>

CgToWrite ==
  /\ cgOp.todo = {}
  /\ CgSyncStep("stat", [cgOp EXCEPT !.kind = "write", !.todo = cgOp.read])
  /\ UNCHANGED <<cgNative, cgProj, cgFiles, cgWatchVars, cgSpent, cgExcused>>

\* A session is materialized unless that was done for this fingerprint; what was
\* not parsed in this scan is parsed now.
CgWrite(s) ==
  /\ cgOp.kind = "write" /\ s \in cgOp.todo
  /\ \/ /\ cgFiles[s].materialized /\ s \in cgOp.initial
        /\ cgOp' = [cgOp EXCEPT !.todo = @ \ {s}]
        /\ UNCHANGED <<cgProj, cgFiles, cgExcused>>
     \/ /\ ~(cgFiles[s].materialized /\ s \in cgOp.initial)
        /\ \/ /\ cgOp.parsed[s] # 0 \/ cgNative[s] > 0
              /\ cgProj' = [cgProj EXCEPT ![s] =
                   [version |-> IF cgOp.parsed[s] # 0 THEN cgOp.parsed[s] ELSE cgNative[s],
                    fresh |-> FALSE]]
              /\ cgFiles' = [cgFiles EXCEPT ![s].materialized = TRUE]
              /\ cgExcused' = cgExcused \ {s}
              /\ cgOp' = [cgOp EXCEPT !.todo = @ \ {s}]
           \/ /\ cgOp' = [cgOp EXCEPT !.todo = @ \ {s}, !.complete = FALSE]
              /\ cgExcused' = cgExcused \cup {s} /\ UNCHANGED <<cgProj, cgFiles>>
  /\ UNCHANGED <<cgNative, cgWatchVars, cgSpent>>

\* What was not seen is forgotten; only a scan whose paths are still the same prunes.
CgConfirm ==
  /\ cgOp.kind = "write" /\ cgOp.todo = {}
  /\ cgFiles' = [s \in CgSessions |-> IF s \in cgOp.paths THEN cgFiles[s] ELSE CgNoFile]
  /\ IF cgOp.complete /\ CgExisting = cgOp.paths
     THEN cgOp' = [cgOp EXCEPT !.kind = "prune", !.todo = cgOp.initial \ cgOp.paths,
                                    !.confirmed = cgSpent]
          /\ UNCHANGED cgExcused
     ELSE cgOp' = CgNoOp /\ cgExcused' = cgExcused \cup (CgProjected \ CgExisting)
  /\ UNCHANGED <<cgNative, cgProj, cgWatchVars, cgSpent>>

\* A fresh session has no transcript yet and stays.
CgPrune ==
  /\ cgOp.kind = "prune"
  /\ IF cgOp.todo = {} THEN cgOp' = CgNoOp /\ UNCHANGED <<cgProj, cgExcused>>
     ELSE \E s \in cgOp.todo :
            /\ cgOp' = [cgOp EXCEPT !.todo = @ \ {s}]
            /\ cgProj' = IF cgProj[s].fresh THEN cgProj ELSE [cgProj EXCEPT ![s] = CgNoProj]
            /\ cgExcused' = cgExcused \ {s}
  /\ UNCHANGED <<cgNative, cgFiles, cgWatchVars, cgSpent>>

CgNext ==
  \/ \E s \in CgSessions :
       \/ CgClaudeWrites(s) \/ CgClaudeRemoves(s) \/ CgCreate(s)
       \/ CgRefresh(s) \/ CgRefreshWrites(s) \/ CgRemember(s)
       \/ CgStat(s) \/ CgParse(s) \/ CgWrite(s)
  \/ \E key \in CgSessions \cup {CgAll} : CgFileEvent(key) \/ CgTimerFires(key) \/ CgDue(key)
  \/ CgNewProject \/ CgOtherCall \/ CgScan \/ CgSyncTimesOut \/ CgToWrite \/ CgConfirm \/ CgPrune

CgSpec == CgInit /\ [][CgNext]_cgVars

-----------------------------------------------------------------------------
(* Properties.                                                              *)

CgTypeOK ==
  /\ \A s \in CgSessions : cgProj[s].version \in 0..CgBudget /\ cgFiles[s].stamp \in 0..CgBudget
  /\ cgOp.todo \subseteq CgSessions /\ cgArmed \subseteq CgSessions \cup {CgAll}

CgAtRest == cgEvents = {} /\ cgArmed = {} /\ cgReady = {} /\ cgOp = CgNoOp

\* rememberFile stored the fingerprint of a transcript that was not parsed.
CgMisremembered(s) == cgFiles[s].stamp > cgProj[s].version

\* With no event, timer or call under way, a projection is its newest transcript, or
\* a fresh session's, or one whose last refresh has failed; what rememberFile
\* remembers of a transcript that grew under it is CgRecovered's case.
CgCaughtUp ==
  CgAtRest => \A s \in CgSessions \ cgExcused :
                cgProj[s].version = cgNative[s] \/ CgMisremembered(s)

\* docs/architecture/claude-runtime.md:34: the recovery scan covers missed events, and
\* skips only what is unchanged since the last snapshot observed.  VIOLATED.
CgRecovered == CgAtRest => \A s \in CgSessions \ cgExcused : cgProj[s].version = cgNative[s]

\* A projection goes only when its transcript is gone, or was written again after
\* the scan that confirmed it gone; and never a fresh one.
CgPrunesOnlyGone ==
  \A s \in CgSessions :
    cgProj[s] # CgNoProj /\ cgProj'[s] = CgNoProj =>
      ~cgProj[s].fresh /\ (cgNative[s] = 0 \/ cgNative[s] > cgOp.confirmed)
=============================================================================
