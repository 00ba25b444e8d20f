--------------------------- MODULE WorkerManager ---------------------------
(****************************************************************************)
(* workers.Manager (src/internal/workers/manager.go): one cached ChatWorker *)
(* per session, created on demand and single-flight, evicted when it has    *)
(* failed, reaped when it has been idle, all closed on shutdown.            *)
(*                                                                          *)
(* A Call is a goroutine executing one method of the Manager; a section     *)
(* the code runs under m.mu is one action.  A Proc is a ChatWorker, known   *)
(* here by what ChatWorker.Status() reports and by whether Close() was      *)
(* called on it.  Call slots are reused, workers are not.                   *)
(****************************************************************************)
EXTENDS Naturals, FiniteSets

CONSTANTS Sessions,  \* session ids
          Calls,     \* slots for concurrent method calls
          Procs,     \* worker identities the factory can return
          None       \* Go's nil

ASSUME NoneAssumption == None \notin Sessions \cup Calls \cup Procs
ASSUME CallsAssumption == IsFiniteSet(Calls)

VARIABLES
  workers,       \* m.workers: the published worker of a session
  creating,      \* m.creating: the call whose factory run is in flight
  pendingSends,  \* m.pendingSends
  sendCancels,   \* m.sendCancels: the Sends registered for cancellation
  closed,        \* m.closed
  state,         \* what Status() of a worker reports; "none" before it exists
  owner,         \* the session a worker was spawned for
  shut,          \* workers whose Close() was called
  pc, op, sess,  \* a call's position, method and session
  held,          \* the worker a call has in a local variable
  ctxDone,       \* the context of a Send is cancelled
  targets,       \* the cancel functions an AbortExisting has yet to call
  reaper,        \* "running" or "stopped"
  dead,          \* workers reapOnce removed and has yet to close
  closer,        \* progress of Manager.Close
  closing,       \* workers Close has yet to close
  dropped        \* history: an abort deleted the count of Sends in flight

mgrVars  == <<workers, creating, pendingSends, sendCancels, closed, dropped>>
procVars == <<state, owner, shut>>
callVars == <<pc, op, sess, held, ctxDone, targets>>
downVars == <<reaper, dead, closer, closing>>
vars     == <<mgrVars, procVars, callVars, downVars>>

SendPc == {"reserved", "lookup", "evict", "wait", "factory", "publish",
           "late", "held", "prompt", "await", "finish"}

InFlight(s) == {c \in Calls : op[c] = "send" /\ sess[c] = s /\ pc[c] \in SendPc}

NoWaiters(s) == {}  \* mutant: call.done is never closed
Waiters(s) == {c \in Calls : pc[c] = "wait" /\ sess[c] = s}

\* The locals of a call end with it.
Forget(c) ==
  /\ pc' = [pc EXCEPT ![c] = "idle"]
  /\ op' = [op EXCEPT ![c] = "none"]
  /\ sess' = [sess EXCEPT ![c] = None]
  /\ held' = [held EXCEPT ![c] = None]
  /\ ctxDone' = [ctxDone EXCEPT ![c] = FALSE]

-----------------------------------------------------------------------------
Init ==
  /\ workers = [s \in Sessions |-> None]
  /\ creating = [s \in Sessions |-> None]
  /\ pendingSends = [s \in Sessions |-> 0]
  /\ sendCancels = [s \in Sessions |-> {}]
  /\ closed = FALSE
  /\ dropped = [s \in Sessions |-> FALSE]
  /\ state = [w \in Procs |-> "none"]
  /\ owner = [w \in Procs |-> None]
  /\ shut = {}
  /\ pc = [c \in Calls |-> "idle"]
  /\ op = [c \in Calls |-> "none"]
  /\ sess = [c \in Calls |-> None]
  /\ held = [c \in Calls |-> None]
  /\ ctxDone = [c \in Calls |-> FALSE]
  /\ targets = [c \in Calls |-> {}]
  /\ reaper = "running"
  /\ dead = {}
  /\ closer = "open"
  /\ closing = {}

-----------------------------------------------------------------------------
(* Send: reservation, deferred release, and the checks in between.          *)

\* The first locked section of Send: reserve and register the cancel function.
Send(c, s) ==
  /\ pc[c] = "idle"
  /\ pc' = [pc EXCEPT ![c] = "reserved"]
  /\ op' = [op EXCEPT ![c] = "send"]
  /\ sess' = [sess EXCEPT ![c] = s]
  /\ pendingSends' = [pendingSends EXCEPT ![s] = @ + 1]
  /\ sendCancels' = [sendCancels EXCEPT ![s] = @ \cup {c}]
  /\ UNCHANGED <<workers, creating, closed, dropped, held, ctxDone, targets>>
  /\ UNCHANGED <<procVars, downVars>>

\* sendCtx.Err() before workerFor.
CheckReserved(c) ==
  /\ pc[c] = "reserved"
  /\ pc' = [pc EXCEPT ![c] = IF ctxDone[c] THEN "finish" ELSE "lookup"]
  /\ UNCHANGED <<mgrVars, procVars, op, sess, held, ctxDone, targets, downVars>>

\* The caller of Send gives up: its own context ends.
CallerCancels(c) ==
  /\ op[c] = "send" /\ pc[c] \in SendPc \ {"finish"}
  /\ ctxDone' = [ctxDone EXCEPT ![c] = TRUE]
  /\ UNCHANGED <<mgrVars, procVars, pc, op, sess, held, targets, downVars>>

\* sendCtx.Err() after workerFor: Prompt, or give up.
CheckHeld(c) ==
  /\ pc[c] = "held" /\ op[c] = "send"
  /\ pc' = [pc EXCEPT ![c] = IF ctxDone[c] THEN "finish" ELSE "prompt"]
  /\ UNCHANGED <<mgrVars, procVars, op, sess, held, ctxDone, targets, downVars>>

\* Prompt marks the worker running before the command is acknowledged.
PromptStart(c) ==
  /\ pc[c] = "prompt"
  /\ state' = [state EXCEPT ![held[c]] = "running"]
  /\ pc' = [pc EXCEPT ![c] = "await"]
  /\ UNCHANGED <<mgrVars, owner, shut, op, sess, held, ctxDone, targets, downVars>>

PromptAck(c) ==
  /\ pc[c] = "await"
  /\ pc' = [pc EXCEPT ![c] = "finish"]
  /\ UNCHANGED <<mgrVars, procVars, op, sess, held, ctxDone, targets, downVars>>

\* Prompt fails (rejected, context done, process gone): the worker is in error.
PromptFail(c) ==
  /\ pc[c] = "await"
  /\ state' = [state EXCEPT ![held[c]] = "error"]
  /\ pc' = [pc EXCEPT ![c] = "finish"]
  /\ UNCHANGED <<mgrVars, owner, shut, op, sess, held, ctxDone, targets, downVars>>

\* The count after one Send has returned.
ReleasedBlindly(n) == n - 1                     \* mutant: no lower bound
ReleasedOffByOne(n) == IF n > 1 THEN n - 1 ELSE n  \* mutant: keeps the last one
Released(n) == IF n > 1 THEN n - 1 ELSE 0

\* The deferred function: its decrement works on whatever count it finds.  An
\* abort's cancel function for a Send that has returned does nothing any more.
Finish(c) ==
  LET s == sess[c] IN
  /\ pc[c] = "finish" /\ op[c] = "send"
  /\ pendingSends' = [pendingSends EXCEPT ![s] = Released(@)]
  /\ sendCancels' = [sendCancels EXCEPT ![s] = @ \ {c}]
  /\ dropped' = [dropped EXCEPT ![s] = @ /\ sendCancels[s] # {c}]
  /\ targets' = [a \in Calls |-> targets[a] \ {c}]
  /\ Forget(c)
  /\ UNCHANGED <<workers, creating, closed, procVars, downVars>>

\* The other methods just return.
Return(c) ==
  /\ pc[c] = "finish" /\ op[c] # "send"
  /\ Forget(c)
  /\ UNCHANGED <<mgrVars, procVars, targets, downVars>>

-----------------------------------------------------------------------------
(* workerFor, run by Send and, without a reservation, by the others.        *)

\* EnsureWorker and SetThinkingLevel ("ensure") and SetModel ("model").
Use(c, s, o) ==
  /\ pc[c] = "idle"
  /\ pc' = [pc EXCEPT ![c] = "lookup"]
  /\ op' = [op EXCEPT ![c] = o]
  /\ sess' = [sess EXCEPT ![c] = s]
  /\ UNCHANGED <<mgrVars, procVars, held, ctxDone, targets, downVars>>

LookupClosed(c) ==
  /\ pc[c] = "lookup" /\ closed
  /\ pc' = [pc EXCEPT ![c] = "finish"]
  /\ UNCHANGED <<mgrVars, procVars, op, sess, held, ctxDone, targets, downVars>>

\* A cached worker that has not failed is returned.
LookupHit(c) ==
  LET w == workers[sess[c]] IN
  /\ pc[c] = "lookup" /\ ~closed
  /\ w # None /\ state[w] # "error"
  /\ held' = [held EXCEPT ![c] = w]
  /\ pc' = [pc EXCEPT ![c] = "held"]
  /\ UNCHANGED <<mgrVars, procVars, op, sess, ctxDone, targets, downVars>>

\* A failed one is removed under the lock and closed after it.
LookupEvict(c) ==
  LET w == workers[sess[c]] IN
  /\ pc[c] = "lookup" /\ ~closed
  /\ w # None /\ state[w] = "error"
  /\ workers' = [workers EXCEPT ![sess[c]] = None]
  /\ held' = [held EXCEPT ![c] = w]
  /\ pc' = [pc EXCEPT ![c] = "evict"]
  /\ UNCHANGED <<creating, pendingSends, sendCancels, closed, dropped>>
  /\ UNCHANGED <<procVars, op, sess, ctxDone, targets, downVars>>

EvictForgets(c) ==  \* mutant: the evicted worker is not closed
  /\ pc[c] = "evict"
  /\ held' = [held EXCEPT ![c] = None]
  /\ pc' = [pc EXCEPT ![c] = "lookup"]
  /\ UNCHANGED <<mgrVars, procVars, op, sess, ctxDone, targets, downVars>>

EvictClose(c) ==
  /\ pc[c] = "evict"
  /\ shut' = shut \cup {held[c]}
  /\ held' = [held EXCEPT ![c] = None]
  /\ pc' = [pc EXCEPT ![c] = "lookup"]
  /\ UNCHANGED <<mgrVars, state, owner, op, sess, ctxDone, targets, downVars>>

LookupWait(c) ==
  /\ pc[c] = "lookup" /\ ~closed
  /\ workers[sess[c]] = None /\ creating[sess[c]] # None
  /\ pc' = [pc EXCEPT ![c] = "wait"]
  /\ UNCHANGED <<mgrVars, procVars, op, sess, held, ctxDone, targets, downVars>>

LookupCreateAgain(c) ==  \* mutant: does not look for a creation in flight
  /\ pc[c] = "lookup" /\ ~closed
  /\ workers[sess[c]] = None
  /\ creating' = [creating EXCEPT ![sess[c]] = c]
  /\ pc' = [pc EXCEPT ![c] = "factory"]
  /\ UNCHANGED <<workers, pendingSends, sendCancels, closed, dropped>>
  /\ UNCHANGED <<procVars, op, sess, held, ctxDone, targets, downVars>>

LookupCreate(c) ==
  /\ pc[c] = "lookup" /\ ~closed
  /\ workers[sess[c]] = None /\ creating[sess[c]] = None
  /\ creating' = [creating EXCEPT ![sess[c]] = c]
  /\ pc' = [pc EXCEPT ![c] = "factory"]
  /\ UNCHANGED <<workers, pendingSends, sendCancels, closed, dropped>>
  /\ UNCHANGED <<procVars, op, sess, held, ctxDone, targets, downVars>>

\* m.factory returns a worker no one has seen, or an error.
FactorySpawn(c, w) ==
  /\ pc[c] = "factory" /\ state[w] = "none"
  /\ state' = [state EXCEPT ![w] = "idle"]
  /\ owner' = [owner EXCEPT ![w] = sess[c]]
  /\ held' = [held EXCEPT ![c] = w]
  /\ pc' = [pc EXCEPT ![c] = "publish"]
  /\ UNCHANGED <<mgrVars, shut, op, sess, ctxDone, targets, downVars>>

FactoryFail(c) ==
  /\ pc[c] = "factory"
  /\ pc' = [pc EXCEPT ![c] = "publish"]
  /\ UNCHANGED <<mgrVars, procVars, op, sess, held, ctxDone, targets, downVars>>

\* The worker arrives after Close: waiters fail, and it is closed unlocked.
PublishClosed(c) ==
  LET s == sess[c] IN
  /\ pc[c] = "publish" /\ closed
  /\ creating' = [creating EXCEPT ![s] = None]
  /\ pc' = [d \in Calls |->
             IF d \in Waiters(s) THEN "finish"
             ELSE IF d # c THEN pc[d]
             ELSE IF held[c] = None THEN "finish" ELSE "late"]
  /\ UNCHANGED <<workers, pendingSends, sendCancels, closed, dropped>>
  /\ UNCHANGED <<procVars, op, sess, held, ctxDone, targets, downVars>>

LateClose(c) ==
  /\ pc[c] = "late"
  /\ shut' = shut \cup {held[c]}
  /\ held' = [held EXCEPT ![c] = None]
  /\ pc' = [pc EXCEPT ![c] = "finish"]
  /\ UNCHANGED <<mgrVars, state, owner, op, sess, ctxDone, targets, downVars>>

PublishStuck(c) ==  \* mutant: the creation that failed stays in m.creating
  LET s == sess[c] IN
  /\ pc[c] = "publish" /\ ~closed /\ held[c] = None
  /\ pc' = [d \in Calls |-> IF d \in Waiters(s) \cup {c} THEN "finish" ELSE pc[d]]
  /\ UNCHANGED <<mgrVars, procVars, op, sess, held, ctxDone, targets, downVars>>

PublishFailed(c) ==
  LET s == sess[c] IN
  /\ pc[c] = "publish" /\ ~closed /\ held[c] = None
  /\ creating' = [creating EXCEPT ![s] = None]
  /\ pc' = [d \in Calls |-> IF d \in Waiters(s) \cup {c} THEN "finish" ELSE pc[d]]
  /\ UNCHANGED <<workers, pendingSends, sendCancels, closed, dropped>>
  /\ UNCHANGED <<procVars, op, sess, held, ctxDone, targets, downVars>>

\* Publish, unless a healthy worker is there already: then keep that one.
PublishWorker(c) ==
  LET s == sess[c]
      taken == workers[s] # None /\ state[workers[s]] # "error"
      w == IF taken THEN workers[s] ELSE held[c]
  IN
  /\ pc[c] = "publish" /\ ~closed /\ held[c] # None
  /\ workers' = [workers EXCEPT ![s] = w]
  /\ shut' = IF taken THEN shut \cup {held[c]} ELSE shut
  /\ creating' = [creating EXCEPT ![s] = None]
  /\ held' = [d \in Calls |-> IF d \in Waiters(s) \cup {c} THEN w ELSE held[d]]
  /\ pc' = [d \in Calls |-> IF d \in Waiters(s) \cup {c} THEN "held" ELSE pc[d]]
  /\ UNCHANGED <<pendingSends, sendCancels, closed, dropped>>
  /\ UNCHANGED <<state, owner, op, sess, ctxDone, targets, downVars>>

\* EnsureWorker returns; SetModel may leave the worker's status idle.
UseReturn(c) ==
  /\ pc[c] = "held" /\ op[c] \in {"ensure", "model"}
  /\ \/ state' = state
     \/ op[c] = "model" /\ state' = [state EXCEPT ![held[c]] = "idle"]
  /\ pc' = [pc EXCEPT ![c] = "finish"]
  /\ UNCHANGED <<mgrVars, owner, shut, op, sess, held, ctxDone, targets, downVars>>

-----------------------------------------------------------------------------
(* AbortExisting.                                                           *)

\* Under the lock: note the worker and the cancel functions, and delete the
\* session's count when there is a Send in flight.
Abort(c, s) ==
  /\ pc[c] = "idle"
  /\ held' = [held EXCEPT ![c] = workers[s]]
  /\ targets' = [targets EXCEPT ![c] = sendCancels[s]]
  /\ IF sendCancels[s] = {}
     THEN UNCHANGED <<pendingSends, dropped>>
     ELSE /\ pendingSends' = [pendingSends EXCEPT ![s] = 0]
          /\ dropped' = [dropped EXCEPT ![s] = TRUE]
  /\ pc' = [pc EXCEPT ![c] = "cancel"]
  /\ op' = [op EXCEPT ![c] = "abort"]
  /\ sess' = [sess EXCEPT ![c] = s]
  /\ UNCHANGED <<workers, creating, sendCancels, closed, procVars, ctxDone, downVars>>

CancelOne(c, t) ==
  /\ pc[c] = "cancel" /\ t \in targets[c]
  /\ ctxDone' = [ctxDone EXCEPT ![t] = TRUE]
  /\ targets' = [targets EXCEPT ![c] = @ \ {t}]
  /\ UNCHANGED <<mgrVars, procVars, pc, op, sess, held, downVars>>

CancelledAll(c) ==
  /\ pc[c] = "cancel" /\ targets[c] = {}
  /\ pc' = [pc EXCEPT ![c] = IF held[c] = None THEN "finish" ELSE "abort"]
  /\ UNCHANGED <<mgrVars, procVars, op, sess, held, ctxDone, targets, downVars>>

\* worker.Abort: an acknowledged one leaves the status idle.
AbortReturn(c) ==
  /\ pc[c] = "abort"
  /\ \/ state' = state
     \/ state' = [state EXCEPT ![held[c]] = "idle"]
  /\ pc' = [pc EXCEPT ![c] = "finish"]
  /\ UNCHANGED <<mgrVars, owner, shut, op, sess, held, ctxDone, targets, downVars>>

-----------------------------------------------------------------------------
(* The workers themselves: agent_end, streaming, exit of the process.       *)

RunEnds(w) ==
  /\ state[w] \in {"running", "error"}
  /\ state' = [state EXCEPT ![w] = "idle"]
  /\ UNCHANGED <<mgrVars, owner, shut, callVars, downVars>>

StreamActivity(w) ==
  /\ state[w] = "idle"
  /\ state' = [state EXCEPT ![w] = "running"]
  /\ UNCHANGED <<mgrVars, owner, shut, callVars, downVars>>

Exit(w) ==
  /\ state[w] \in {"idle", "running"}
  /\ state' = [state EXCEPT ![w] = "error"]
  /\ UNCHANGED <<mgrVars, owner, shut, callVars, downVars>>

-----------------------------------------------------------------------------
(* reapOnce and Close.                                                      *)

Published == {workers[s] : s \in Sessions} \ {None}

\* Sessions reapOnce looks at, and those whose worker it must take.
AnyPublished == {s \in Sessions : workers[s] # None}  \* mutant: reservation ignored
Unreserved == {s \in Sessions : workers[s] # None /\ pendingSends[s] = 0}
Failed     == {s \in Unreserved : state[workers[s]] = "error"}
Expirable  == {s \in Unreserved : state[workers[s]] = "idle"}

\* The locked part of reapOnce; which idle workers outlived the TTL is open.
ReapOnce ==
  \E idle \in SUBSET Expirable :
    LET taken == Failed \cup idle IN
    /\ reaper = "running" /\ dead = {} /\ taken # {}
    /\ dead' = {workers[s] : s \in taken}
    /\ workers' = [s \in Sessions |-> IF s \in taken THEN None ELSE workers[s]]
    /\ UNCHANGED <<creating, pendingSends, sendCancels, closed, dropped>>
    /\ UNCHANGED <<procVars, callVars, reaper, closer, closing>>

ReapClose(w) ==
  /\ w \in dead
  /\ shut' = shut \cup {w}
  /\ dead' = dead \ {w}
  /\ UNCHANGED <<mgrVars, state, owner, callVars, reaper, closer, closing>>

\* reapLoop sees reaperStop closed.
ReaperExits ==
  /\ reaper = "running" /\ dead = {} /\ closer # "open"
  /\ reaper' = "stopped"
  /\ UNCHANGED <<mgrVars, procVars, callVars, dead, closer, closing>>

CloseStopsReaper ==
  /\ closer = "open"
  /\ closer' = "stop"
  /\ UNCHANGED <<mgrVars, procVars, callVars, reaper, dead, closing>>

CloseMarks ==
  /\ closer = "stop" /\ reaper = "stopped"
  /\ closed' = TRUE
  /\ closer' = "wait"
  /\ UNCHANGED <<workers, creating, pendingSends, sendCancels, dropped>>
  /\ UNCHANGED <<procVars, callVars, reaper, dead, closing>>

CloseCollectsEarly ==  \* mutant: does not wait for creations in flight
  /\ closer = "wait"
  /\ closing' = Published
  /\ workers' = [s \in Sessions |-> None]
  /\ closer' = "closing"
  /\ UNCHANGED <<creating, pendingSends, sendCancels, closed, dropped>>
  /\ UNCHANGED <<procVars, callVars, reaper, dead>>

\* Every creation that was in flight has closed its done channel.
CloseCollects ==
  /\ closer = "wait" /\ \A s \in Sessions : creating[s] = None
  /\ closing' = Published
  /\ workers' = [s \in Sessions |-> None]
  /\ closer' = "closing"
  /\ UNCHANGED <<creating, pendingSends, sendCancels, closed, dropped>>
  /\ UNCHANGED <<procVars, callVars, reaper, dead>>

CloseWorker(w) ==
  /\ w \in closing
  /\ shut' = shut \cup {w}
  /\ closing' = closing \ {w}
  /\ UNCHANGED <<mgrVars, state, owner, callVars, reaper, dead, closer>>

CloseReturns ==
  /\ closer = "closing" /\ closing = {}
  /\ closer' = "done"
  /\ UNCHANGED <<mgrVars, procVars, callVars, reaper, dead, closing>>

-----------------------------------------------------------------------------
Begin(c) ==
  \E s \in Sessions : Send(c, s) \/ Abort(c, s) \/ \E o \in {"ensure", "model"} : Use(c, s, o)

\* The steps a call in progress takes by itself.
Proceed(c) ==
  \/ CheckReserved(c) \/ CheckHeld(c) \/ PromptStart(c) \/ Finish(c) \/ Return(c)
  \/ LookupClosed(c) \/ LookupHit(c) \/ LookupEvict(c) \/ EvictClose(c)
  \/ LookupWait(c) \/ LookupCreate(c)
  \/ (\E w \in Procs : FactorySpawn(c, w)) \/ FactoryFail(c)
  \/ PublishClosed(c) \/ LateClose(c) \/ PublishFailed(c) \/ PublishWorker(c)
  \/ UseReturn(c)
  \/ (\E t \in Calls : CancelOne(c, t)) \/ CancelledAll(c) \/ AbortReturn(c)

CallNext(c) ==
  Begin(c) \/ Proceed(c) \/ CallerCancels(c) \/ PromptAck(c) \/ PromptFail(c)

ProcNext(w) == RunEnds(w) \/ StreamActivity(w) \/ Exit(w)

Shutdown ==
  \/ ReaperExits \/ CloseMarks \/ CloseCollects \/ CloseReturns
  \/ \E w \in Procs : CloseWorker(w) \/ ReapClose(w)

Next ==
  \/ \E c \in Calls : CallNext(c)
  \/ \E w \in Procs : ProcNext(w)
  \/ ReapOnce \/ CloseStopsReaper \/ Shutdown

Spec == Init /\ [][Next]_vars

\* A goroutine that can run does; a factory, an abort and a model switch return
\* (they run under deadlines); a Prompt returns once its context is done.
Fairness ==
  /\ \A c \in Calls : WF_vars(Proceed(c)) /\ WF_vars(ctxDone[c] /\ PromptFail(c))
  /\ WF_vars(Shutdown)

FairSpec == Spec /\ Fairness

-----------------------------------------------------------------------------
(* Properties.                                                              *)

\* Type invariant: every variable keeps its shape, counts never go below zero.
TypeOK ==
  /\ workers \in [Sessions -> Procs \cup {None}]
  /\ creating \in [Sessions -> Calls \cup {None}]
  /\ pendingSends \in [Sessions -> Nat]
  /\ sendCancels \in [Sessions -> SUBSET Calls]
  /\ closed \in BOOLEAN
  /\ dropped \in [Sessions -> BOOLEAN]
  /\ state \in [Procs -> {"none", "idle", "running", "error"}]
  /\ owner \in [Procs -> Sessions \cup {None}]
  /\ shut \in SUBSET Procs
  /\ pc \in [Calls -> SendPc \cup {"idle", "cancel", "abort"}]
  /\ op \in [Calls -> {"none", "send", "ensure", "model", "abort"}]
  /\ sess \in [Calls -> Sessions \cup {None}]
  /\ held \in [Calls -> Procs \cup {None}]
  /\ ctxDone \in [Calls -> BOOLEAN]
  /\ targets \in [Calls -> SUBSET Calls]
  /\ reaper \in {"running", "stopped"}
  /\ dead \in SUBSET Procs
  /\ closer \in {"open", "stop", "wait", "closing", "done"}
  /\ closing \in SUBSET Procs

\* A reservation is never leaked: a session's count is at most its Sends in
\* flight (a count left behind would report the session running for ever and
\* park its queue), and it is exact as long as no abort hit those Sends.
ReservationsAccounted ==
  \A s \in Sessions :
    /\ sendCancels[s] = InFlight(s)
    /\ pendingSends[s] <= Cardinality(InFlight(s))
    /\ ~dropped[s] => pendingSends[s] = Cardinality(InFlight(s))

\* The reaper never takes the worker an accepted Send is about to prompt, as
\* long as no abort hit the Sends of that session (manager.go:163-167).
ReservedWorkerSpared ==
  \A c \in Calls :
    op[c] = "send" /\ pc[c] \in SendPc /\ held[c] \in dead => dropped[sess[c]]

\* A worker somebody holds only in order to close it.
Doomed(w) ==
  \/ w \in dead \cup closing
  \/ \E c \in Calls : held[c] = w /\ pc[c] \in {"evict", "late"}

\* Spawned, not closed, and not on its way to be.
Live(w) == owner[w] # None /\ w \notin shut /\ ~Doomed(w)

\* Single-flight creation: a session never has two workers in use at a time,
\* whatever Sends, aborts, evictions, reaping and shutdown overlap.
OneWorkerPerSession ==
  \A v, w \in Procs : Live(v) /\ Live(w) /\ owner[v] = owner[w] => v = w

\* No process is forgotten: a worker is published for its session, or in the
\* hands of the call that creates it, or of somebody who will close it.
NoWorkerLeaked ==
  \A w \in Procs : Live(w) =>
    \/ workers[owner[w]] = w
    \/ \E c \in Calls : pc[c] = "publish" /\ held[c] = w

\* Once Close returned, no worker is published or being created, and one still
\* open is about to be closed by the call that evicted it or created it late.
CloseLeavesNothing ==
  closer = "done" =>
    /\ \A s \in Sessions : workers[s] = None /\ creating[s] = None
    /\ \A w \in Procs : owner[w] # None /\ w \notin shut => Doomed(w)

\* What Manager.Status reports for a session.
Status(s) ==
  IF workers[s] = None
  THEN IF pendingSends[s] > 0 THEN "running" ELSE "idle"
  ELSE IF pendingSends[s] > 0 /\ state[workers[s]] = "idle" THEN "running"
  ELSE state[workers[s]]

\* "the session never observably dips to idle mid-send" (manager.go:205-207):
\* no session is idle while a Send that nobody cancelled has yet to return.
NoIdleDipMidSend ==
  \A c \in Calls :
    /\ op[c] = "send" /\ pc[c] \in SendPc \ {"await", "finish"} /\ ~ctxDone[c]
    /\ \A a \in Calls : c \notin targets[a]
    => Status(sess[c]) # "idle"

\* A Send whose context is done returns, whether it waits for a creation, runs
\* the factory, or awaits the agent; so does every call without a Prompt.
CallsReturn ==
  \A c \in Calls :
    pc[c] # "idle" /\ (op[c] = "send" => ctxDone[c]) ~> pc[c] = "idle"

\* Close terminates with calls and a reaper pass in flight.
CloseTerminates == closer = "stop" ~> closer = "done"

=============================================================================
