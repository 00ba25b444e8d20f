--------------------------- MODULE OpenCodeCatalog ---------------------------
(******************************************************************************)
(* How the projections of OpenCode sessions follow the native sessions        *)
(* (opencode/catalog.go, events.go, lifecycle.go and the catalogSyncer of     *)
(* app/runtime.go): events mark sessions, a debounced flush refreshes them or *)
(* synchronises everything, a ticker and each new server synchronise          *)
(* everything, and the user's lifecycle calls write projections themselves.   *)
(*                                                                            *)
(* A native session is a version that grows; a projection is the version that *)
(* was read.  Catalog reads and writes under its mutex, Service does not.     *)
(******************************************************************************)
EXTENDS Naturals, Sequences, FiniteSets

CONSTANTS CaSessions,  \* native ids
          CaTasks,     \* goroutines: flushes, synchronisations, lifecycle calls
          CaBudget, CaQueueMax  \* bounds: changes, ticks and lost servers; events under way

ASSUME CaConstants == CaBudget \in Nat /\ CaQueueMax \in Nat

VARIABLES
  caNative,    \* version of a session, 0 before it is created
  caDeleted,   \* the sessions that were deleted
  caFile,      \* version in the projection, 0 without one
  caQueue,     \* events on the stream: [deleted, session]
  caServer,    \* "up", "down", or "connected": its stream is, but it is not published
  caSpent,     \* of the budget
  caPending, caFull,      \* CatalogEvents: pending, full
  caTimer,                \* timer: "none", "armed", or "fired" while flush waits for mu
  caOldTimers, caDue,     \* armed timers no longer in the field; flush calls due
  caClose,                \* Close: "open", "waiting", "closed"
  caLock,                 \* holder of Catalog.mu
  caSyncing,              \* catalogSyncer.syncing
  caAt, caJob,            \* where a goroutine is; what it works on
  caExcused               \* history: sessions whose refresh failed, or were written late

caNativeVars == <<caNative, caDeleted, caServer, caSpent>>
caEventVars == <<caPending, caFull, caTimer, caOldTimers, caDue, caClose>>
caTaskVars == <<caLock, caSyncing, caAt, caJob>>
caVars == <<caNativeVars, caFile, caQueue, caEventVars, caTaskVars, caExcused>>

CaNobody == "nobody"
ASSUME CaNobodyAssumption == CaNobody \notin CaTasks

CaExists(s) == caNative[s] > 0 /\ s \notin caDeleted
CaExisting == {s \in CaSessions : CaExists(s)}
CaProjected == {s \in CaSessions : caFile[s] > 0}
CaIdle == [op |-> "none", keys |-> {}, now |-> {}, version |-> 0, initial |-> {}, listed |-> {},
           complete |-> FALSE]
CaTakes(t, op, keys, at) ==
  /\ caAt[t] = "idle"
  /\ caJob' = [caJob EXCEPT ![t] = [CaIdle EXCEPT !.op = op, !.keys = keys]]
  /\ caAt' = [caAt EXCEPT ![t] = at]
CaGoto(t, at) == caAt' = [caAt EXCEPT ![t] = at]
CaIsSync(t) == caJob[t].op \in {"full", "tick", "reconcile"}
CaIsService(t) == caJob[t].op \in {"start", "rename", "delete"}

CaInit ==
  /\ caNative = [s \in CaSessions |-> 0] /\ caDeleted = {}
  /\ caFile = [s \in CaSessions |-> 0] /\ caQueue = <<>>
  /\ caServer = "up" /\ caSpent = 0
  /\ caPending = {} /\ caFull = FALSE /\ caTimer = "none" /\ caOldTimers = 0 /\ caDue = 0
  /\ caClose = "open" /\ caLock = CaNobody /\ caSyncing = FALSE
  /\ caAt = [t \in CaTasks |-> "idle"] /\ caJob = [t \in CaTasks |-> CaIdle]
  /\ caExcused = {}

-----------------------------------------------------------------------------
(* The native side.                                                         *)

CaSpend == caSpent < CaBudget /\ caSpent' = caSpent + 1

CaEmit(s, deleted) ==
  /\ Len(caQueue) < CaQueueMax
  /\ caQueue' = Append(caQueue, [session |-> s, deleted |-> deleted])

CaWrites(s) ==
  /\ caServer # "down" /\ s \notin caDeleted /\ CaSpend
  /\ caNative' = [caNative EXCEPT ![s] = @ + 1]
  /\ CaEmit(s, FALSE)
  /\ UNCHANGED <<caDeleted, caServer>>

CaDeletes(s) ==
  /\ caServer # "down" /\ CaExists(s) /\ CaSpend
  /\ caDeleted' = caDeleted \cup {s}
  /\ CaEmit(s, TRUE)
  /\ UNCHANGED <<caNative, caServer>>

\* An agent's turn, a new native session, a deletion in another client.
CaNativeChange ==
  /\ \E s \in CaSessions : CaWrites(s) \/ CaDeletes(s)
  /\ UNCHANGED <<caFile, caEventVars, caTaskVars, caExcused>>

\* The server goes and takes the events under way with it.
CaServerLost ==
  /\ caServer # "down" /\ CaSpend
  /\ caServer' = "down" /\ caQueue' = <<>>
  /\ UNCHANGED <<caNative, caDeleted, caFile, caEventVars, caTaskVars, caExcused>>

\* The next one: its stream first, then its Reconcile, then it is published.
CaServerStarts(t) ==
  /\ caServer = "down" /\ caServer' = "connected"
  /\ CaTakes(t, "reconcile", {}, "lock")
  /\ UNCHANGED <<caNative, caDeleted, caSpent, caFile, caQueue, caEventVars, caLock, caSyncing,
                 caExcused>>

-----------------------------------------------------------------------------
(* CatalogEvents.                                                           *)

\* mutant: a deletion is noted as a change of the session.
CaNotedAsChange(event) == caPending' = caPending \cup {event.session} /\ UNCHANGED caFull

\* A deletion asks for a full sync, a change for its session.
CaNoted(event) ==
  IF event.deleted THEN caFull' = TRUE /\ UNCHANGED caPending
  ELSE caPending' = caPending \cup {event.session} /\ UNCHANGED caFull

\* HandleEvent: a timer in the field is reset, which arms a fired one again.
CaHandleEvent ==
  /\ caQueue # <<>>
  /\ caQueue' = Tail(caQueue)
  /\ IF caClose # "open" THEN UNCHANGED <<caPending, caFull, caTimer>>
     ELSE CaNoted(Head(caQueue)) /\ caTimer' = "armed"
  /\ UNCHANGED <<caNativeVars, caFile, caOldTimers, caDue, caClose, caTaskVars, caExcused>>

CaTimerFires ==
  /\ \/ caTimer = "armed" /\ caTimer' = "fired" /\ UNCHANGED caOldTimers
     \/ caOldTimers > 0 /\ caOldTimers' = caOldTimers - 1 /\ UNCHANGED caTimer
  /\ caDue' = caDue + 1
  /\ UNCHANGED <<caNativeVars, caFile, caQueue, caPending, caFull, caClose, caTaskVars, caExcused>>

\* flush forgets the timer in the field, fired or not.
CaFlush(t) ==
  /\ caDue > 0
  /\ caDue' = caDue - 1
  /\ IF caClose # "open"
     THEN UNCHANGED <<caPending, caFull, caTimer, caOldTimers, caAt, caJob>>
     ELSE /\ caPending' = {} /\ caFull' = FALSE /\ caTimer' = "none"
          /\ caOldTimers' = IF caTimer = "armed" THEN caOldTimers + 1 ELSE caOldTimers
          /\ IF caFull THEN CaTakes(t, "full", {}, "lock")
             ELSE IF caPending # {} THEN CaTakes(t, "flush", caPending, "lock")
             ELSE UNCHANGED <<caAt, caJob>>
  /\ UNCHANGED <<caNativeVars, caFile, caQueue, caClose, caLock, caSyncing, caExcused>>

\* Close stops the timer in the field and waits for the flushes that have begun.
CaClose ==
  /\ \/ /\ caClose = "open" /\ caClose' = "waiting"
        /\ caTimer' = "none" /\ caPending' = {}
     \/ /\ caClose = "waiting" /\ \A t \in CaTasks : caJob[t].op \notin {"flush", "full"}
        /\ caClose' = "closed" /\ UNCHANGED <<caTimer, caPending>>
  /\ UNCHANGED <<caNativeVars, caFile, caQueue, caFull, caOldTimers, caDue, caTaskVars, caExcused>>

-----------------------------------------------------------------------------
(* catalogSyncer.                                                           *)

\* The ticker's Sync, unless one is running already.
CaTick(t) ==
  /\ ~caSyncing /\ CaSpend
  /\ caSyncing' = TRUE
  /\ CaTakes(t, "tick", {}, "lock")
  /\ UNCHANGED <<caNative, caDeleted, caServer, caFile, caQueue, caEventVars, caLock, caExcused>>

-----------------------------------------------------------------------------
(* Catalog.                                                                 *)

CaAcquire(t) ==
  /\ caAt[t] = "lock" /\ caLock = CaNobody
  /\ caLock' = t
  /\ CaGoto(t, IF CaIsSync(t) THEN "list" ELSE "hydrate")
  /\ UNCHANGED <<caNativeVars, caFile, caQueue, caEventVars, caSyncing, caJob, caExcused>>

\* Whether a call to the server may be answered.
CaAnswers(t) == caServer = "up" \/ (caServer = "connected" /\ caJob[t].op = "reconcile")

\* FindProjections and the first ListSessions; on an error nothing is done.
CaList(t) ==
  /\ caAt[t] = "list"
  /\ \/ /\ CaAnswers(t)
        /\ caJob' = [caJob EXCEPT ![t].initial = CaProjected, ![t].listed = CaExisting,
                                  ![t].keys = CaExisting, ![t].complete = TRUE]
        /\ CaGoto(t, "hydrate") /\ UNCHANGED caExcused
     \/ caExcused' = CaSessions /\ CaGoto(t, "end") /\ UNCHANGED caJob
  /\ UNCHANGED <<caNativeVars, caFile, caQueue, caEventVars, caLock, caSyncing>>

\* hydrateSession reads a session, or fails: a sync goes on, but is not complete,
\* unless its context is over, which ends it as if the list had failed.
CaHydrate(t) ==
  /\ caAt[t] = "hydrate" /\ caJob[t].keys # {}
  /\ \/ \E s \in caJob[t].keys :
          \/ /\ CaAnswers(t) /\ CaExists(s)
             /\ caJob' = [caJob EXCEPT ![t].now = {s}, ![t].version = caNative[s]]
             /\ CaGoto(t, "write") /\ UNCHANGED caExcused
          \/ /\ caJob' = [caJob EXCEPT ![t].keys = @ \ {s}, ![t].complete = FALSE]
             /\ caExcused' = IF CaExists(s) THEN caExcused \cup {s} ELSE caExcused
             /\ IF CaIsService(t) THEN CaGoto(t, "end") ELSE UNCHANGED caAt
     \/ /\ CaIsSync(t)
        /\ caJob' = [caJob EXCEPT ![t].listed = {}, ![t].complete = FALSE]
        /\ caExcused' = CaSessions /\ CaGoto(t, "end")
  /\ UNCHANGED <<caNativeVars, caFile, caQueue, caEventVars, caLock, caSyncing>>

\* Materialize.  A service call may write later than a newer reader did.
CaMaterialize(t, s) ==
  /\ caAt[t] = "write" /\ s \in caJob[t].now
  /\ caFile' = [caFile EXCEPT ![s] = caJob[t].version]
  /\ caJob' = [caJob EXCEPT ![t].keys = @ \ {s}, ![t].now = {}, ![t].version = 0]
  /\ caExcused' = IF CaIsService(t) /\ (s \in caDeleted \/ caJob[t].version < caNative[s])
                  THEN caExcused \cup {s} ELSE caExcused \ {s}
  /\ CaGoto(t, IF CaIsService(t) THEN "end" ELSE "hydrate")
  /\ UNCHANGED <<caNativeVars, caQueue, caEventVars, caLock, caSyncing>>

\* The list is confirmed: the same sessions, or the sync is partial.
CaConfirm(t) ==
  /\ caAt[t] = "hydrate" /\ caJob[t].keys = {}
  /\ \/ /\ CaIsSync(t) /\ caJob[t].complete /\ CaAnswers(t) /\ CaExisting = caJob[t].listed
        /\ CaGoto(t, "prune") /\ UNCHANGED caExcused
     \/ /\ CaIsSync(t) /\ caExcused' = caExcused \cup CaProjected /\ CaGoto(t, "end")
     \/ /\ ~CaIsSync(t) /\ CaGoto(t, "end") /\ UNCHANGED caExcused
  /\ UNCHANGED <<caNativeVars, caFile, caQueue, caEventVars, caLock, caSyncing, caJob>>

\* mutant: what is there now is pruned, not what was there before the list.
CaPruneNow(t) == CaProjected \ caJob[t].listed

\* What had a projection before the list and is not in it.
CaStale(t) == (caJob[t].initial \ caJob[t].listed) \cap CaProjected

CaPrune(t) ==
  /\ caAt[t] = "prune"
  /\ LET stale == CaStale(t) IN
       \/ stale = {} /\ CaGoto(t, "end") /\ UNCHANGED <<caFile, caExcused>>
       \/ \E s \in stale :
            /\ caFile' = [caFile EXCEPT ![s] = 0]
            /\ caExcused' = caExcused \ {s} /\ UNCHANGED caAt
  /\ UNCHANGED <<caNativeVars, caQueue, caEventVars, caLock, caSyncing, caJob>>

\* The call returns; a reconciled server is published, one that failed is killed.
CaEnd(t) ==
  /\ caAt[t] = "end"
  /\ caLock' = IF caLock = t THEN CaNobody ELSE caLock
  /\ caSyncing' = IF caJob[t].op = "tick" THEN FALSE ELSE caSyncing
  /\ caServer' = IF caJob[t].op # "reconcile" \/ caServer = "down" THEN caServer
                 ELSE IF caJob[t].listed = {} /\ ~caJob[t].complete THEN "down" ELSE "up"
  /\ caQueue' = IF caServer' = "down" THEN <<>> ELSE caQueue
  /\ caJob' = [caJob EXCEPT ![t] = CaIdle] /\ CaGoto(t, "idle")
  /\ UNCHANGED <<caNative, caDeleted, caSpent, caFile, caEventVars, caExcused>>

-----------------------------------------------------------------------------
(* Service: the native call, then a projection written without the mutex.    *)

CaServiceWrites(t, s) ==
  /\ caServer = "up" /\ CaWrites(s)
  /\ CaTakes(t, IF CaExists(s) THEN "rename" ELSE "start", {s}, "hydrate")
  /\ UNCHANGED <<caFile, caEventVars, caLock, caSyncing, caExcused>>

CaServiceDeletes(t, s) ==
  /\ caServer = "up" /\ CaDeletes(s)
  /\ CaTakes(t, "delete", {s}, "remove")
  /\ UNCHANGED <<caFile, caEventVars, caLock, caSyncing, caExcused>>

CaServiceRemoves(t) ==
  /\ caAt[t] = "remove"
  /\ caFile' = [s \in CaSessions |-> IF s \in caJob[t].keys THEN 0 ELSE caFile[s]]
  /\ CaGoto(t, "end")
  /\ UNCHANGED <<caNativeVars, caQueue, caEventVars, caLock, caSyncing, caJob, caExcused>>

CaNext ==
  \/ CaNativeChange \/ CaServerLost \/ CaHandleEvent \/ CaTimerFires \/ CaClose
  \/ \E t \in CaTasks :
       \/ CaServerStarts(t) \/ CaFlush(t) \/ CaTick(t) \/ CaAcquire(t) \/ CaList(t) \/ CaHydrate(t)
       \/ CaConfirm(t) \/ CaPrune(t) \/ CaEnd(t) \/ CaServiceRemoves(t)
       \/ \E s \in CaSessions :
            CaMaterialize(t, s) \/ CaServiceWrites(t, s) \/ CaServiceDeletes(t, s)

CaSpec == CaInit /\ [][CaNext]_caVars

-----------------------------------------------------------------------------
(* Properties.                                                              *)

CaTypeOK ==
  /\ caFile \in [CaSessions -> 0..CaBudget] /\ caNative \in [CaSessions -> 0..CaBudget]
  /\ \A s \in CaSessions : caFile[s] <= caNative[s]
  /\ caTimer \in {"none", "armed", "fired"}
  /\ caLock \in CaTasks \cup {CaNobody}

\* An event that was handled has a timer or a flush that will see to it.
CaNoEventForgotten ==
  caClose = "open" /\ (caPending # {} \/ caFull) => caTimer = "armed" \/ caDue > 0

\* When nothing is under way, the projections are the newest of the sessions
\* that exist, except where a refresh has failed or a lifecycle call wrote late.
CaCaughtUp ==
  caServer = "up" /\ caClose = "open" /\ caQueue = <<>> /\ caPending = {} /\ ~caFull
    /\ (\A t \in CaTasks : caAt[t] = "idle") =>
      \A s \in CaSessions \ caExcused : caFile[s] = (IF CaExists(s) THEN caNative[s] ELSE 0)

\* A projection is removed only after its session was deleted: a list that is
\* out of date, partial or unconfirmed never prunes a session that exists.
CaPrunesOnlyDeleted ==
  \A s \in CaSessions : caFile[s] > 0 /\ caFile'[s] = 0 => ~CaExists(s)

\* Once CatalogEvents is closed no flush is running.
CaClosedMeansQuiet == caClose = "closed" => \A t \in CaTasks : caJob[t].op \notin {"flush", "full"}
=============================================================================
