----------------------------- MODULE CodexCatalog -----------------------------
(*******************************************************************************)
(* How projections follow Codex's threads (codex/catalog.go, projection.go,    *)
(* app/runtime.go catalogSyncer): one Sync at a time lists the threads, reads  *)
(* those that changed and prunes what is not listed, while sessions are        *)
(* created, refreshed, archived, unarchived and deleted beside it.             *)
(*                                                                             *)
(* A thread is a version, 1 without turns.  A new thread without turns may not *)
(* be listed yet; a fresh projection records that it was created here.         *)
(*******************************************************************************)
EXTENDS Naturals, FiniteSets

CONSTANTS CdThreads, CdOps,  \* threads; calls of the handlers and workers, each made once
          CdVersions,        \* bound: versions
          CdSyncs            \* bound: syncs

ASSUME CdConstants == CdVersions \in Nat \ {0, 1} /\ CdSyncs \in Nat  \* a fork has turns

VARIABLES
  cdState, cdVersion, cdListed,  \* the thread: "none", "open", "archived", "gone"; listed
  cdProj,                        \* the projection: [version, fresh]
  cdUpdated,                     \* updatedAt of the last listing materialized, 0 for none
  cdSync,                        \* the Sync under way
  cdSyncs, cdClosed,             \* syncs so far; the syncer is closed
  cdPc, cdOp,                    \* where a call is; what it does
  cdHidden, cdOlder,             \* history: was archived or deleted; is older than what was cached
  cdAlone                        \* history: the last Sync overlapped nothing and failed nowhere

cdNativeVars == <<cdState, cdVersion, cdListed>>
cdSyncVars == <<cdUpdated, cdSync, cdSyncs, cdClosed>>
cdOpVars == <<cdPc, cdOp>>
cdHistoryVars == <<cdHidden, cdOlder>>
cdVars == <<cdNativeVars, cdProj, cdSyncVars, cdOpVars, cdHistoryVars, cdAlone>>

CdNoProj == [version |-> 0, fresh |-> FALSE]
CdNoSync == [pc |-> "idle", initial |-> {}, listing |-> [t \in CdThreads |-> 0], todo |-> {},
             now |-> {}, read |-> 0]
CdProjected == {t \in CdThreads : cdProj[t] # CdNoProj}
CdVisible == {t \in CdThreads : cdState[t] = "open" /\ cdListed[t]}
CdKinds == {"start", "fork", "refresh", "archive", "unarchive", "delete"}

CdInit ==
  /\ cdState = [t \in CdThreads |-> "none"] /\ cdVersion = [t \in CdThreads |-> 0]
  /\ cdListed = [t \in CdThreads |-> FALSE]
  /\ cdProj = [t \in CdThreads |-> CdNoProj] /\ cdUpdated = [t \in CdThreads |-> 0]
  /\ cdSync = CdNoSync /\ cdSyncs = 0 /\ cdClosed = FALSE
  /\ cdPc = [o \in CdOps |-> "new"]
  /\ cdOp = [o \in CdOps |-> [kind |-> "none", thread |-> {}, version |-> 0]]
  /\ cdHidden = {} /\ cdOlder = {} /\ cdAlone = FALSE

-----------------------------------------------------------------------------
(* Codex.                                                                   *)

\* A turn of any client; a thread with turns is listed.
CdTurn(t) ==
  /\ cdState[t] = "open" /\ cdVersion[t] < CdVersions
  /\ cdVersion' = [cdVersion EXCEPT ![t] = @ + 1] /\ cdListed' = [cdListed EXCEPT ![t] = TRUE]
  /\ cdAlone' = FALSE
  /\ UNCHANGED <<cdState, cdProj, cdSyncVars, cdOpVars, cdHistoryVars>>

CdIndexed(t) ==
  /\ cdState[t] = "open" /\ ~cdListed[t]
  /\ cdListed' = [cdListed EXCEPT ![t] = TRUE] /\ cdAlone' = FALSE
  /\ UNCHANGED <<cdState, cdVersion, cdProj, cdSyncVars, cdOpVars, cdHistoryVars>>

-----------------------------------------------------------------------------
(* materializeProjection.                                                   *)

\* The marker is kept, set or cleared; a thread with turns has none.
CdFresh(t, mode, version) ==
  version <= 1 /\ (mode = "set" \/ (mode = "preserve" /\ cdProj[t].fresh))

CdMaterialize(t, mode, version) ==
  /\ cdProj' = [cdProj EXCEPT ![t] = [version |-> version, fresh |-> CdFresh(t, mode, version)]]
  /\ cdOlder' = IF version < cdUpdated[t] THEN cdOlder \cup {t} ELSE cdOlder \ {t}

-----------------------------------------------------------------------------
(* StartSession, ForkSession, RefreshThread and RenameSession (and a worker's  *)
(* materialize), ArchiveSession, UnarchiveSession, DeleteSession.              *)

CdGoto(o, label) == cdPc' = [cdPc EXCEPT ![o] = label]

\* The native call and, where one follows, the read; either may fail.  A refresh is of
\* a session the server found.
CdNativeCall(o, kind, t) ==
  LET from == CASE kind \in {"start", "fork"} -> {"none"}
                [] kind \in {"refresh", "archive"} -> {"open"}
                [] kind = "unarchive" -> {"archived"}
                [] kind = "delete" -> {"open", "archived"}
      to == CASE kind = "archive" -> "archived" [] kind = "delete" -> "gone" [] OTHER -> "open" IN
    /\ cdPc[o] = "new" /\ cdState[t] \in from /\ (kind = "refresh" => cdProj[t] # CdNoProj)
    /\ cdState' = [cdState EXCEPT ![t] = to]
    /\ cdVersion' = [cdVersion EXCEPT ![t] = CASE kind = "start" -> 1 [] kind = "fork" -> 2 [] OTHER -> @]
    /\ cdListed' = [cdListed EXCEPT ![t] = IF kind = "start" THEN FALSE ELSE kind = "fork" \/ @]
    /\ cdHidden' = IF kind \in {"archive", "delete"} THEN cdHidden \cup {t} ELSE cdHidden
    /\ cdOp' = [cdOp EXCEPT ![o] = [kind |-> kind, thread |-> {t}, version |-> cdVersion'[t]]]
    /\ CdGoto(o, "write") \/ (kind # "refresh" /\ CdGoto(o, "failed"))
    /\ cdAlone' = FALSE
    /\ UNCHANGED <<cdProj, cdSyncVars, cdOlder>>

\* The projection is found and removed, or written.
CdWriteCall(o, t) ==
  /\ cdPc[o] = "write" /\ t \in cdOp[o].thread
  /\ IF cdOp[o].kind \in {"archive", "delete"}
     THEN cdProj' = [cdProj EXCEPT ![t] = CdNoProj] /\ UNCHANGED cdOlder
     ELSE CdMaterialize(t, IF cdOp[o].kind = "start" THEN "set" ELSE "preserve", cdOp[o].version)
  /\ CdGoto(o, "done")
  /\ cdAlone' = FALSE
  /\ UNCHANGED <<cdNativeVars, cdSyncVars, cdOp, cdHidden>>

-----------------------------------------------------------------------------
(* Sync.                                                                    *)

CdOpsQuiet == \A o \in CdOps : cdPc[o] # "write"
CdEndSync == cdSync' = CdNoSync
CdAt(label) == cdSync.pc = label

\* catalogSyncer: a call while one is under way does nothing.
CdBegin ==
  /\ CdAt("idle") /\ ~cdClosed /\ cdSyncs < CdSyncs
  /\ cdSyncs' = cdSyncs + 1
  /\ cdSync' = [CdNoSync EXCEPT !.pc = "list", !.initial = CdProjected]
  /\ cdAlone' = CdOpsQuiet
  /\ UNCHANGED <<cdNativeVars, cdProj, cdUpdated, cdClosed, cdOpVars, cdHistoryVars>>

CdList ==
  /\ CdAt("list")
  /\ \/ /\ cdSync' = [cdSync EXCEPT !.pc = "threads", !.todo = CdVisible,
                        !.listing = [t \in CdThreads |-> IF t \in CdVisible THEN cdVersion[t] ELSE 0]]
        /\ UNCHANGED cdAlone
     \/ CdEndSync /\ cdAlone' = FALSE
  /\ UNCHANGED <<cdNativeVars, cdProj, cdUpdated, cdSyncs, cdClosed, cdOpVars, cdHistoryVars>>

CdUnchanged(t) ==
  t \in cdSync.initial /\ cdUpdated[t] = cdSync.listing[t] /\ cdProj[t] # CdNoProj /\ ~cdProj[t].fresh

\* ReadThread; one that cannot be read stays listed and is not written.
CdRead(t) ==
  /\ CdAt("threads") /\ t \in cdSync.todo /\ cdSync.now = {}
  /\ LET rest == [cdSync EXCEPT !.todo = @ \ {t}] IN
       IF CdUnchanged(t) THEN cdSync' = rest /\ UNCHANGED cdAlone
       ELSE \/ /\ cdState[t] # "gone"
               /\ cdSync' = [rest EXCEPT !.now = {t}, !.read = cdVersion[t]] /\ UNCHANGED cdAlone
            \/ cdSync' = rest /\ cdAlone' = FALSE
  /\ UNCHANGED <<cdNativeVars, cdProj, cdUpdated, cdSyncs, cdClosed, cdOpVars, cdHistoryVars>>

\* What was listed, not what was read, is remembered.
CdWrite(t) ==
  /\ CdAt("threads") /\ t \in cdSync.now
  /\ cdSync' = [cdSync EXCEPT !.now = {}, !.read = 0]
  /\ \/ /\ CdMaterialize(t, "clear", cdSync.read)
        /\ cdUpdated' = [cdUpdated EXCEPT ![t] = cdSync.listing[t]] /\ UNCHANGED cdAlone
     \/ cdAlone' = FALSE /\ UNCHANGED <<cdProj, cdUpdated, cdOlder>>
  /\ UNCHANGED <<cdNativeVars, cdSyncs, cdClosed, cdOpVars, cdHidden>>

CdToPrune ==
  /\ CdAt("threads") /\ cdSync.todo = {} /\ cdSync.now = {}
  /\ cdSync' = [cdSync EXCEPT !.pc = "prune",
                              !.todo = {t \in cdSync.initial : cdSync.listing[t] = 0}]
  /\ UNCHANGED <<cdNativeVars, cdProj, cdUpdated, cdSyncs, cdClosed, cdOpVars, cdHistoryVars, cdAlone>>

CdPrune(t) ==
  /\ CdAt("prune") /\ t \in cdSync.todo
  /\ cdSync' = [cdSync EXCEPT !.todo = @ \ {t}]
  /\ cdProj' = IF cdProj[t].fresh THEN cdProj ELSE [cdProj EXCEPT ![t] = CdNoProj]
  /\ UNCHANGED <<cdNativeVars, cdUpdated, cdSyncs, cdClosed, cdOpVars, cdHistoryVars, cdAlone>>

CdEnd ==
  /\ CdAt("prune") /\ cdSync.todo = {}
  /\ CdEndSync
  /\ cdUpdated' = [t \in CdThreads |-> IF cdSync.listing[t] = 0 THEN 0 ELSE cdUpdated[t]]
  /\ UNCHANGED <<cdNativeVars, cdProj, cdSyncs, cdClosed, cdOpVars, cdHistoryVars, cdAlone>>

\* close cancels the Sync under way and waits for it.
CdClose ==
  /\ ~cdClosed /\ cdClosed' = TRUE
  /\ UNCHANGED <<cdNativeVars, cdProj, cdUpdated, cdSync, cdSyncs, cdOpVars, cdHistoryVars, cdAlone>>

CdNext ==
  \/ \E t \in CdThreads :
       \/ CdTurn(t) \/ CdIndexed(t) \/ CdRead(t) \/ CdWrite(t) \/ CdPrune(t)
       \/ \E o \in CdOps : CdWriteCall(o, t) \/ \E kind \in CdKinds : CdNativeCall(o, kind, t)
  \/ CdBegin \/ CdList \/ CdToPrune \/ CdEnd \/ CdClose

CdSpec == CdInit /\ [][CdNext]_cdVars

-----------------------------------------------------------------------------
(* Properties.                                                              *)

CdTypeOK ==
  /\ \A t \in CdThreads : cdProj[t].version \in 0..CdVersions /\ cdUpdated[t] \in 0..CdVersions
  /\ cdSync.todo \subseteq CdThreads /\ Cardinality(cdSync.now) <= 1

\* A Sync that overlapped nothing leaves a projection of every listed thread, at its
\* version unless a call wrote an older one after it was cached, and of no other
\* thread but those created here.
CdSynced ==
  CdAt("idle") /\ cdAlone =>
    \A t \in CdThreads :
      /\ t \in CdVisible => cdProj[t].version = cdVersion[t] \/ t \in cdOlder
      /\ t \in CdProjected \ CdVisible => cdProj[t].fresh

\* Until it is used, archived or deleted, a session created here keeps its
\* projection through every listing that does not show it yet.
CdIntentKept ==
  \A t \in CdThreads :
    cdProj[t] # CdNoProj /\ cdProj'[t] = CdNoProj => t \in cdHidden \/ cdVersion[t] > 1
=============================================================================
