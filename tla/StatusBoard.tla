----------------------------- MODULE StatusBoard -----------------------------
(*****************************************************************************)
(* Whether a session is running, as the browsers are told (server/status.go, *)
(* status_watcher.go, status_sweeper.go): computed from three sources that   *)
(* change on their own, compared with lastKnown under a lock, and broadcast  *)
(* after it as a delta, by callers that overlap.                             *)
(*                                                                           *)
(* One session; the sources are its status file, its worker in this process  *)
(* and the recorded modification time of its transcript.                     *)
(*****************************************************************************)
EXTENDS Integers, FiniteSets

CONSTANTS SbCallbacks,  \* goroutines in which workers and handlers report
          SbChanges     \* bound: changes of the sources

ASSUME SbConstants == SbChanges \in Nat /\ IsFiniteSet(SbCallbacks)

VARIABLES
  sbWatching,   \* startSessionStatusWatcher has succeeded
  sbFile,       \* the status file says running, and is not older than its TTL
  sbWorker,     \* Status: "none" without a model, "idle" or "running"
  sbRecent,     \* hasRecentSessionActivity
  sbOwed,       \* reports that have not begun: of the file, a worker, a transcript
  sbKnown,      \* id \in lastKnown
  sbPc, sbNow,  \* where a recompute is; what it has computed
  sbSent,       \* history: deltas "running" broadcast less deltas "idle"
  sbDone,       \* NotifyDone and kick calls less the transitions to idle
  sbCount, sbSwept  \* changes so far; history: a sweep has begun and ended since

sbSourceVars == <<sbFile, sbWorker, sbRecent>>
sbToldVars == <<sbKnown, sbSent, sbDone>>
sbVars == <<sbWatching, sbSourceVars, sbOwed, sbToldVars, sbPc, sbNow, sbCount, sbSwept>>

SbCallers == SbCallbacks \cup {"sweeper", "fileWatcher", "debouncer"}
SbSources == {"file", "worker", "transcript"}

SbInit ==
  /\ sbWatching \in BOOLEAN
  /\ sbFile = FALSE /\ sbWorker = "none" /\ sbRecent = FALSE /\ sbOwed = {}
  /\ sbKnown = FALSE /\ sbSent = 0 /\ sbDone = 0
  /\ sbPc = [r \in SbCallers |-> "idle"] /\ sbNow = [r \in SbCallers |-> FALSE]
  /\ sbCount = 0 /\ sbSwept = "no"

-----------------------------------------------------------------------------
(* The sources.                                                             *)

SbChange(owed) ==
  /\ sbCount < SbChanges /\ sbCount' = sbCount + 1
  /\ sbOwed' = sbOwed \cup owed
  /\ sbSwept' = "no"
  /\ UNCHANGED <<sbWatching, sbToldVars, sbPc, sbNow>>

\* A terminal session writes its status file; its removal is not watched, and no
\* one reports that it is older than its TTL.
SbFileChanges ==
  /\ sbFile' = ~sbFile
  /\ \/ SbChange(IF sbWatching THEN {"file"} ELSE {})
     \/ sbFile /\ SbChange({})
  /\ UNCHANGED <<sbWorker, sbRecent>>

SbWorkerChanges ==
  /\ sbWorker' \in {"idle", "running"} \ {sbWorker}
  /\ SbChange({"worker"})
  /\ UNCHANGED <<sbFile, sbRecent>>

\* recordModTime stores a new time and recomputes; the window ends silently.
SbTranscriptChanges ==
  /\ sbRecent' = ~sbRecent
  /\ SbChange(IF sbRecent THEN {} ELSE {"transcript"})
  /\ UNCHANGED <<sbFile, sbWorker>>

-----------------------------------------------------------------------------
(* recomputeAndBroadcastStatus.                                             *)

SbReporters(source) ==
  CASE source = "file" -> {"fileWatcher"}
    [] source = "worker" -> SbCallbacks
    [] source = "transcript" -> {"debouncer"}

SbBegin(r, source) ==
  /\ source \in sbOwed /\ r \in SbReporters(source) /\ sbPc[r] = "idle"
  /\ sbOwed' = sbOwed \ {source}
  /\ sbPc' = [sbPc EXCEPT ![r] = "file"]
  /\ sbSwept' = "no"
  /\ UNCHANGED <<sbWatching, sbSourceVars, sbToldVars, sbNow, sbCount>>

\* sweepStatusOnce: the sessions that are known to run.
SbSweep ==
  /\ sbPc["sweeper"] = "idle" /\ sbSwept = "no"
  /\ IF sbKnown THEN sbPc' = [sbPc EXCEPT !["sweeper"] = "file"] /\ sbSwept' = "begun"
     ELSE sbSwept' = "ended" /\ UNCHANGED sbPc
  /\ UNCHANGED <<sbWatching, sbSourceVars, sbOwed, sbToldVars, sbNow, sbCount>>

SbComputed(r, now) ==
  /\ sbNow' = [sbNow EXCEPT ![r] = now]
  /\ sbPc' = [sbPc EXCEPT ![r] = "commit"]
SbLooksOn(r, label) == sbPc' = [sbPc EXCEPT ![r] = label] /\ UNCHANGED sbNow

\* computeRunningStatus reads one source after the other; a worker with a model
\* is the authority on its session.
SbReadFile(r) ==
  /\ sbPc[r] = "file"
  /\ IF sbFile THEN SbComputed(r, TRUE) ELSE SbLooksOn(r, "worker")
  /\ UNCHANGED <<sbWatching, sbSourceVars, sbOwed, sbToldVars, sbCount, sbSwept>>
SbReadWorker(r) ==
  /\ sbPc[r] = "worker"
  /\ IF sbWorker = "none" THEN SbLooksOn(r, "activity") ELSE SbComputed(r, sbWorker = "running")
  /\ UNCHANGED <<sbWatching, sbSourceVars, sbOwed, sbToldVars, sbCount, sbSwept>>
SbReadActivity(r) ==
  /\ sbPc[r] = "activity"
  /\ SbComputed(r, sbRecent)
  /\ UNCHANGED <<sbWatching, sbSourceVars, sbOwed, sbToldVars, sbCount, sbSwept>>

SbSweepEnds(r) == sbSwept' = IF r = "sweeper" /\ sbSwept = "begun" THEN "ended" ELSE sbSwept

SbCommit(r) ==
  /\ sbPc[r] = "commit"
  /\ IF sbNow[r] = sbKnown
     THEN sbPc' = [sbPc EXCEPT ![r] = "idle"] /\ SbSweepEnds(r) /\ UNCHANGED <<sbKnown, sbDone>>
     ELSE /\ sbKnown' = sbNow[r]
          /\ sbPc' = [sbPc EXCEPT ![r] = "broadcast"]
          /\ sbSwept' = IF r = "sweeper" THEN sbSwept ELSE "no"
          /\ sbDone' = IF sbNow[r] THEN sbDone ELSE sbDone - 1
  /\ UNCHANGED <<sbWatching, sbSourceVars, sbOwed, sbSent, sbNow, sbCount>>

\* The delta, and at a transition to idle the push and the drainer's kick.
SbBroadcast(r) ==
  /\ sbPc[r] = "broadcast"
  /\ sbSent' = IF sbNow[r] THEN sbSent + 1 ELSE sbSent - 1
  /\ sbDone' = IF sbNow[r] THEN sbDone ELSE sbDone + 1
  /\ sbPc' = [sbPc EXCEPT ![r] = "idle"] /\ SbSweepEnds(r)
  /\ UNCHANGED <<sbWatching, sbSourceVars, sbOwed, sbKnown, sbNow, sbCount>>

SbNext ==
  \/ SbFileChanges \/ SbWorkerChanges \/ SbTranscriptChanges \/ SbSweep
  \/ \E r \in SbCallers :
       \/ \E source \in SbSources : SbBegin(r, source)
       \/ SbReadFile(r) \/ SbReadWorker(r) \/ SbReadActivity(r)
       \/ SbCommit(r) \/ SbBroadcast(r)

SbSpec == SbInit /\ [][SbNext]_sbVars

-----------------------------------------------------------------------------
(* Properties.                                                              *)

SbRunning == sbFile \/ sbWorker = "running" \/ (sbWorker = "none" /\ sbRecent)
SbQuiet == sbOwed = {} /\ sbSwept = "ended" /\ \A r \in SbCallers : sbPc[r] = "idle"
SbPending(now) == Cardinality({r \in SbCallers : sbPc[r] = "broadcast" /\ sbNow[r] = now})

SbTypeOK ==
  /\ sbWorker \in {"none", "idle", "running"} /\ sbOwed \subseteq SbSources
  /\ sbCount \in 0..SbChanges /\ sbSwept \in {"no", "begun", "ended"}

\* However recomputes overlap, what has been broadcast and what is about to be
\* tells the same as lastKnown, and every transition to idle is announced once.
SbDeltasBalance ==
  /\ sbSent + SbPending(TRUE) - SbPending(FALSE) = IF sbKnown THEN 1 ELSE 0
  /\ sbDone + SbPending(FALSE) = 0

\* A session shown as running that no longer runs is found by the next sweep.
SbIdleFound == SbQuiet /\ sbKnown => SbRunning

=============================================================================
