--------------------------- MODULE OpenCodeWorker ---------------------------
(******************************************************************************)
(* A worker of the OpenCode runtime (opencode/worker.go): callers of its      *)
(* methods, which talk to the shared server over HTTP, and one goroutine that *)
(* receives the events and the availability the supervisor forwards.          *)
(*                                                                            *)
(* ocNative is the session on the server (busy or idle) and ocVersion the     *)
(* number of changes of its transcript; the server is external.               *)
(******************************************************************************)
EXTENDS Naturals, Sequences

CONSTANTS OcCalls,     \* calls of the worker's methods, each made once
          OcOps,       \* the methods they may choose
          OcCap,       \* capacity of the channel of events
          OcMaxEvents  \* bound: changes of the transcript

ASSUME OcOpsAssumption == OcOps \subseteq {"prompt", "abort", "get_state"}
ASSUME OcBoundsAssumption == OcCap \in Nat /\ OcMaxEvents \in Nat

VARIABLES
  ocStatus, ocClosed,       \* w.status.State, w.closed
  ocEvents, ocDropped,      \* w.events; an event found it full
  ocLost,                   \* an Availability with an error waits to be received
  ocRun,                    \* run: running or done
  ocRefreshing, ocAgain,    \* w.refreshing, w.refreshAgain
  ocRead,                   \* the version the refresh has read, 0 for none yet
  ocShown, ocFailed,        \* version of the projection; the last refresh failed
  ocOp, ocPc, ocBusy,       \* calls: method, place, what the server said of the session
  ocStale,                  \* history: GetState set running from an answer out of date
  ocNative, ocVersion,      \* the session on the server
  ocUp                      \* the server runs

ocCallVars == <<ocOp, ocPc, ocBusy>>
ocRefreshVars == <<ocRefreshing, ocAgain, ocRead, ocShown, ocFailed>>
ocServerVars == <<ocNative, ocVersion, ocUp>>
ocFeedVars == <<ocEvents, ocDropped, ocLost>>
ocVars == <<ocStatus, ocClosed, ocRun, ocStale, ocCallVars, ocRefreshVars, ocServerVars, ocFeedVars>>

OcInit ==
  /\ ocStatus = "idle" /\ ocClosed = FALSE
  /\ ocEvents = <<>> /\ ocDropped = FALSE /\ ocLost = FALSE /\ ocRun = "running"
  /\ ocRefreshing = FALSE /\ ocAgain = FALSE /\ ocRead = 0 /\ ocShown = 1 /\ ocFailed = FALSE
  /\ ocOp = [c \in OcCalls |-> "none"] /\ ocPc = [c \in OcCalls |-> "new"]
  /\ ocBusy = [c \in OcCalls |-> FALSE] /\ ocStale = FALSE
  /\ ocNative = "idle" /\ ocVersion = 1 /\ ocUp = TRUE

OcGoto(c, label) == ocPc' = [ocPc EXCEPT ![c] = label]

-----------------------------------------------------------------------------
(* scheduleRefresh and its goroutine.                                       *)

\* mutant: a refresh under way is taken to cover the event.
OcScheduleOnce ==
  /\ ocRefreshing' = (ocRefreshing \/ ~ocClosed)
  /\ ocRead' = IF ocRefreshing THEN ocRead ELSE 0
  /\ UNCHANGED <<ocAgain, ocShown, ocFailed>>

\* One refresh at a time; one that is under way is repeated.
OcSchedule ==
  /\ ocRefreshing' = (ocRefreshing \/ ~ocClosed)
  /\ ocAgain' = (ocAgain \/ (ocRefreshing /\ ~ocClosed))
  /\ ocRead' = IF ocRefreshing THEN ocRead ELSE 0
  /\ UNCHANGED <<ocShown, ocFailed>>

OcRefreshReads ==
  /\ ocRefreshing /\ ocRead = 0 /\ ocUp
  /\ ocRead' = ocVersion
  /\ UNCHANGED <<ocStatus, ocClosed, ocRun, ocStale, ocCallVars, ocRefreshing, ocAgain, ocShown, ocFailed,
                 ocServerVars, ocFeedVars>>

\* It stores what it has read, or fails: its time, the server, the store.
OcRefreshEnds ==
  /\ ocRefreshing
  /\ \/ ocRead # 0 /\ ocShown' = ocRead /\ ocFailed' = FALSE
     \/ ocFailed' = TRUE /\ UNCHANGED ocShown
  /\ ocRefreshing' = (ocAgain /\ ~ocClosed)
  /\ ocAgain' = FALSE
  /\ ocRead' = 0
  /\ UNCHANGED <<ocStatus, ocClosed, ocRun, ocStale, ocCallVars, ocServerVars, ocFeedVars>>

\* finishTurn: only a running worker finishes, whichever turn it runs.
OcFinishTurn ==
  IF ocClosed \/ ocStatus # "running" THEN UNCHANGED <<ocStatus, ocRefreshVars>>
  ELSE ocStatus' = "idle" /\ OcSchedule

\* operationError
OcOperationError ==
  ocStatus' = IF ocClosed \/ ocStatus = "error" THEN ocStatus ELSE "idle"

-----------------------------------------------------------------------------
(* Prompt, Abort, GetState, Close.                                          *)

OcStart(c) ==
  /\ ocPc[c] = "new"
  /\ \E op \in OcOps :
       /\ ocOp' = [ocOp EXCEPT ![c] = op]
       /\ OcGoto(c, IF op # "abort" THEN "ask"
                    ELSE IF ~ocClosed /\ ocStatus = "running" THEN "abort" ELSE "done")
  /\ UNCHANGED <<ocStatus, ocClosed, ocRun, ocStale, ocBusy, ocRefreshVars, ocServerVars, ocFeedVars>>

\* The server's own status comes first.
OcAsk(c) ==
  /\ ocPc[c] = "ask"
  /\ \/ /\ ocUp
        /\ ocBusy' = [ocBusy EXCEPT ![c] = ocNative = "busy"]
        /\ OcGoto(c, "told")
        /\ UNCHANGED ocStatus
     \/ /\ OcGoto(c, "done")
        /\ IF ocOp[c] = "prompt" THEN OcOperationError ELSE UNCHANGED ocStatus
        /\ UNCHANGED ocBusy
  /\ UNCHANGED <<ocOp, ocClosed, ocRun, ocStale, ocRefreshVars, ocServerVars, ocFeedVars>>

OcPromptTold(c) ==
  /\ ocPc[c] = "told" /\ ocOp[c] = "prompt"
  /\ IF ocBusy[c] \/ ocClosed \/ ocStatus # "idle"
     THEN OcGoto(c, "done") /\ UNCHANGED ocStatus
     ELSE OcGoto(c, "send") /\ ocStatus' = "running"
  /\ ocBusy' = [ocBusy EXCEPT ![c] = FALSE]
  /\ UNCHANGED <<ocOp, ocClosed, ocRun, ocStale, ocRefreshVars, ocServerVars, ocFeedVars>>

\* PromptAsync; when it fails the server may have started the turn all the same.
OcSend(c) ==
  /\ ocPc[c] = "send"
  /\ OcGoto(c, "done")
  /\ \E delivered \in BOOLEAN, answered \in BOOLEAN :
       /\ answered => delivered
       /\ delivered => ocUp
       /\ ocNative' = IF delivered THEN "busy" ELSE ocNative
       /\ IF answered THEN UNCHANGED ocStatus ELSE OcOperationError
  /\ UNCHANGED <<ocOp, ocBusy, ocClosed, ocRun, ocStale, ocRefreshVars, ocVersion, ocUp, ocFeedVars>>

\* GetState follows the server both ways.
OcStateTold(c) ==
  /\ ocPc[c] = "told" /\ ocOp[c] = "get_state"
  /\ OcGoto(c, "done")
  /\ IF ocBusy[c]
     THEN /\ ocStatus' = IF ocClosed \/ ocStatus = "error" THEN ocStatus ELSE "running"
          /\ ocStale' = (ocStale \/ (ocStatus = "idle" /\ ~ocClosed))
          /\ UNCHANGED ocRefreshVars
     ELSE OcFinishTurn /\ UNCHANGED ocStale
  /\ ocBusy' = [ocBusy EXCEPT ![c] = FALSE]
  /\ UNCHANGED <<ocOp, ocClosed, ocRun, ocServerVars, ocFeedVars>>

\* mutant: the supervisor waits for no room and drops nothing.
OcForwardAll(event) ==
  /\ ocEvents' = Append(ocEvents, event)
  /\ UNCHANGED ocDropped

\* Supervisor.dispatch never waits: an event that finds the channel full is lost.
OcForward(event) ==
  /\ ocEvents' = IF Len(ocEvents) < OcCap THEN Append(ocEvents, event) ELSE ocEvents
  /\ ocDropped' = (ocDropped \/ Len(ocEvents) >= OcCap)

\* A refused or failed abort (abortError) leaves the turn running.
OcAbort(c) ==
  /\ ocPc[c] = "abort"
  /\ OcGoto(c, "done")
  /\ \/ /\ ocUp
        /\ ocNative' = "idle"
        /\ IF ocNative = "busy" THEN OcForward("idle") ELSE UNCHANGED <<ocEvents, ocDropped>>
        /\ OcFinishTurn
     \/ UNCHANGED <<ocNative, ocStatus, ocRefreshVars, ocEvents, ocDropped>>
  /\ UNCHANGED <<ocOp, ocBusy, ocClosed, ocRun, ocStale, ocVersion, ocUp, ocLost>>

OcClose ==
  /\ ~ocClosed
  /\ ocClosed' = TRUE
  /\ UNCHANGED <<ocStatus, ocRun, ocStale, ocCallVars, ocRefreshVars, ocServerVars, ocFeedVars>>

-----------------------------------------------------------------------------
(* run: events, availability, the end.                                      *)

OcTake(kind) ==
  /\ ocRun = "running"
  /\ ocEvents # <<>> /\ Head(ocEvents) = kind
  /\ ocEvents' = Tail(ocEvents)
  /\ UNCHANGED <<ocClosed, ocRun, ocStale, ocCallVars, ocServerVars, ocDropped, ocLost>>

\* message.updated, message.part.updated, session.updated
OcUpdated == OcTake("updated") /\ OcSchedule /\ UNCHANGED ocStatus

\* session.idle, session.error, session.status
OcIdle == OcTake("idle") /\ OcFinishTurn

\* fatal: the runtime is not available any more.
OcUnavailable ==
  /\ ocRun = "running" /\ ocLost
  /\ ocLost' = FALSE
  /\ ocStatus' = IF ocClosed THEN ocStatus ELSE "error"
  /\ UNCHANGED <<ocClosed, ocRun, ocStale, ocCallVars, ocRefreshVars, ocServerVars, ocEvents, ocDropped>>

OcRunEnds ==
  /\ ocRun = "running" /\ ocClosed
  /\ ocRun' = "done"
  /\ UNCHANGED <<ocStatus, ocClosed, ocStale, ocCallVars, ocRefreshVars, ocServerVars, ocFeedVars>>

-----------------------------------------------------------------------------
(* The server: external.                                                    *)

OcServerWrites ==
  /\ ocUp /\ ocNative = "busy" /\ ocVersion <= OcMaxEvents
  /\ ocVersion' = ocVersion + 1
  /\ OcForward("updated")
  /\ UNCHANGED <<ocStatus, ocClosed, ocRun, ocStale, ocCallVars, ocRefreshVars, ocNative, ocUp, ocLost>>

OcServerTurnEnds ==
  /\ ocUp /\ ocNative = "busy"
  /\ ocNative' = "idle"
  /\ OcForward("idle")
  /\ UNCHANGED <<ocStatus, ocClosed, ocRun, ocStale, ocCallVars, ocRefreshVars, ocVersion, ocUp, ocLost>>

OcServerDies ==
  /\ ocUp
  /\ ocUp' = FALSE /\ ocLost' = TRUE /\ ocNative' = "idle"
  /\ UNCHANGED <<ocStatus, ocClosed, ocRun, ocStale, ocCallVars, ocRefreshVars, ocVersion, ocEvents,
                 ocDropped>>

OcNext ==
  \/ \E c \in OcCalls :
       OcStart(c) \/ OcAsk(c) \/ OcPromptTold(c) \/ OcSend(c) \/ OcStateTold(c) \/ OcAbort(c)
  \/ OcClose
  \/ OcRefreshReads \/ OcRefreshEnds
  \/ OcUpdated \/ OcIdle \/ OcUnavailable \/ OcRunEnds
  \/ OcServerWrites \/ OcServerTurnEnds \/ OcServerDies

OcSpec == OcInit /\ [][OcNext]_ocVars

-----------------------------------------------------------------------------
(* Properties.                                                              *)

\* The variables keep their types; the channel of events its capacity.
OcTypeOK ==
  /\ ocStatus \in {"idle", "running", "error"} /\ ocRun \in {"running", "done"}
  /\ {ocClosed, ocDropped, ocLost, ocRefreshing, ocAgain, ocFailed, ocStale, ocUp} \subseteq BOOLEAN
  /\ Len(ocEvents) <= OcCap
  /\ {ocShown, ocVersion} \subseteq 1..(OcMaxEvents + 1) /\ ocRead \in 0..(OcMaxEvents + 1)
  /\ ocPc \in [OcCalls -> {"new", "ask", "told", "send", "abort", "done"}]
  /\ ocNative \in {"busy", "idle"}

OcHeard == ocEvents = <<>> /\ ~ocDropped /\ ~ocClosed /\ ocUp

\* When the session is idle on the server and every event has been received, the
\* worker is not running, unless GetState said so from an answer out of date.
OcSettles ==
  OcHeard /\ ocNative = "idle" /\ ~ocStale /\ (\A c \in OcCalls : ocPc[c] \in {"new", "done"})
  => ocStatus # "running"

\* Once its events are received and no refresh runs, the projection shows the
\* whole transcript: a refresh that was under way when the last event came is
\* repeated.
OcShowsAll == OcHeard /\ ~ocRefreshing /\ ~ocFailed => ocShown = ocVersion

\* A worker that lost its runtime stays in error, late events and answers or not.
OcErrorIsFinal == ocStatus = "error" => ocStatus' = "error"
=============================================================================
