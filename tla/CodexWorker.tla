----------------------------- MODULE CodexWorker -----------------------------
(*****************************************************************************)
(* A worker of the Codex runtime (codex/worker.go) over its client: methods  *)
(* called by the server, the handler of notifications, the goroutines that   *)
(* read the thread back, and the notifier of status changes.  Answers reach  *)
(* the callers at once while notifications wait in the client's queue, so an *)
(* answer may overtake the notifications sent before it.                     *)
(*                                                                           *)
(* The thread is the set of <<turn, item>> pairs it shows.  What app-server  *)
(* does is external; a thread it reads back may lag behind.                  *)
(*****************************************************************************)
EXTENDS Naturals, Sequences, FiniteSets

CONSTANTS CxCalls,    \* calls of the worker's methods, each made once
          CxOps,      \* the methods they may choose
          CxTurns,    \* turns app-server can start
          CxItems,    \* items a turn can show
          CxMaxNotes  \* bound: notifications besides those of turns

ASSUME CxOpsAssumption == CxOps \subseteq {"prompt", "compact", "set_model", "abort"}
ASSUME CxBoundsAssumption == CxMaxNotes \in Nat

VARIABLES
  cxStatus, cxChannel, cxTold,     \* w.status.State; w.statusCh; what the callback got last
  cxActive, cxCompleted,           \* w.activeTurn; w.completedTurns
  cxThread, cxRev,                 \* w.thread and w.revision
  cxMat,                           \* the projection: its revision and its thread
  cxTimer,                         \* w.materializePending
  cxReads, cxJobs,                 \* threads being read; snapshots on their way to the projection
  cxPreview,                       \* items with a preview
  cxOp, cxPc, cxAnswer, cxSteered, \* calls: method, place, answer, the active turn they saw
  cxTurnOp,                        \* holder of w.turnOpMu
  cxDown, cxReported, cxClosed,    \* client failed; protocolError told of it; w.closed
  cxDoubt,                         \* history: what CxSettles excludes has happened
  svTurn, svUsed, svInbox,         \* app-server: its turn, its turns so far, requests
  svOwed,                          \* turns that have ended, not yet notified
  svItems, svQueue, svSent         \* its thread; the notifications not handled; how many

cxCallVars == <<cxOp, cxPc, cxAnswer, cxSteered, cxTurnOp>>
cxStatVars == <<cxStatus, cxChannel, cxTold>>
cxThreadVars == <<cxThread, cxRev>>
cxProjVars == <<cxMat, cxTimer, cxReads, cxJobs, cxPreview>>
cxEndVars == <<cxDown, cxReported, cxClosed>>
svVars == <<svTurn, svUsed, svInbox, svOwed, svItems, svSent>>
cxVars == <<cxCallVars, cxStatVars, cxThreadVars, cxProjVars, cxEndVars, cxActive, cxCompleted,
            cxDoubt, svVars, svQueue>>

NoTurn == "no turn"
NoCaller == "nobody"

\* The identifier of a turn is neither the absence of one nor a refusal.
ASSUME CxTurnsAssumption == CxTurns \cap {NoTurn, "error"} = {}

CxInit ==
  /\ cxStatus = "idle" /\ cxChannel = "empty" /\ cxTold = "idle"
  /\ cxActive = NoTurn /\ cxCompleted = {}
  /\ cxThread = {} /\ cxRev = 0 /\ cxMat = [rev |-> 0, thread |-> {}]
  /\ cxTimer = FALSE /\ cxReads = {} /\ cxJobs = {}
  /\ cxPreview = {}
  /\ cxOp = [c \in CxCalls |-> "none"] /\ cxPc = [c \in CxCalls |-> "new"]
  /\ cxAnswer = [c \in CxCalls |-> NoTurn] /\ cxSteered = [c \in CxCalls |-> NoTurn]
  /\ cxTurnOp = NoCaller
  /\ cxDown = FALSE /\ cxReported = FALSE /\ cxClosed = FALSE /\ cxDoubt = FALSE
  /\ svTurn = NoTurn /\ svUsed = {} /\ svInbox = {} /\ svOwed = {} /\ svItems = {}
  /\ svQueue = <<>> /\ svSent = 0

\* setStatusLocked: an undelivered transition is replaced by the newest one.
CxSetStatus(state) ==
  /\ cxStatus' = state
  /\ cxChannel' = IF cxClosed THEN cxChannel ELSE state

CxNotifier ==
  /\ cxChannel # "empty"
  /\ cxTold' = cxChannel
  /\ cxChannel' = "empty"
  /\ UNCHANGED <<cxCallVars, cxStatus, cxThreadVars, cxProjVars, cxEndVars, cxActive, cxCompleted,
                 cxDoubt, svVars, svQueue>>

\* protocolError: nothing once the worker is closed.
CxProtocolError ==
  IF cxClosed THEN UNCHANGED <<cxStatus, cxChannel, cxPreview>>
  ELSE CxSetStatus("error") /\ cxPreview' = {}

\* operationError: the client's own failure goes first, then an active turn.
CxOperationError(fallback) ==
  IF cxDown THEN CxProtocolError
  ELSE /\ CxSetStatus(IF cxActive # NoTurn THEN "running" ELSE fallback)
       /\ UNCHANGED cxPreview

-----------------------------------------------------------------------------
(* Prompt, Abort, SetModel and SetThinkingLevel.                             *)

CxGoto(c, label) == cxPc' = [cxPc EXCEPT ![c] = label]

\* The call returns; its locals are gone.
CxReturns(c) ==
  /\ CxGoto(c, "done")
  /\ cxOp' = [cxOp EXCEPT ![c] = "none"]
  /\ cxAnswer' = [cxAnswer EXCEPT ![c] = NoTurn]
  /\ cxSteered' = [cxSteered EXCEPT ![c] = NoTurn]
  /\ cxTurnOp' = IF cxTurnOp = c THEN NoCaller ELSE cxTurnOp

CxPrompt(c, op) ==
  /\ cxPc[c] = "new" /\ op \in CxOps \cap {"prompt", "compact"}
  /\ cxTurnOp = NoCaller
  /\ cxTurnOp' = c
  /\ cxSteered' = [cxSteered EXCEPT ![c] = cxActive]
  /\ cxOp' = [cxOp EXCEPT ![c] = IF cxActive # NoTurn THEN "steer" ELSE op]
  /\ CxSetStatus("running")
  /\ CxGoto(c, "send")
  /\ UNCHANGED <<cxAnswer, cxTold, cxThreadVars, cxProjVars, cxEndVars, cxActive, cxCompleted, cxDoubt,
                 svVars, svQueue>>

\* Abort takes no turnOpMu: it need not wait behind a start not acknowledged.
CxAbort(c) ==
  /\ cxPc[c] = "new" /\ "abort" \in CxOps
  /\ IF cxActive = NoTurn THEN CxReturns(c)
     ELSE /\ CxGoto(c, "send")
          /\ cxOp' = [cxOp EXCEPT ![c] = "abort"]
          /\ cxSteered' = [cxSteered EXCEPT ![c] = cxActive]
          /\ UNCHANGED <<cxAnswer, cxTurnOp>>
  /\ cxPreview' = {}
  /\ UNCHANGED <<cxStatVars, cxThreadVars, cxMat, cxTimer, cxReads, cxJobs,
                 cxEndVars, cxActive, cxCompleted, cxDoubt, svVars, svQueue>>

\* The entry it appends to the projection is local and survives every write.
CxSetModel(c) ==
  /\ cxPc[c] = "new" /\ "set_model" \in CxOps
  /\ cxRev' = cxRev + 1
  /\ CxReturns(c)
  /\ UNCHANGED <<cxStatVars, cxThread, cxProjVars, cxEndVars, cxActive,
                 cxCompleted, cxDoubt, svVars, svQueue>>

Request(c, op, turn) == [call |-> c, op |-> op, turn |-> turn]

CxSend(c) ==
  /\ cxPc[c] = "send"
  /\ IF cxDown THEN CxGoto(c, "failed") /\ UNCHANGED svInbox
     ELSE CxGoto(c, "wait") /\ svInbox' = svInbox \cup {Request(c, cxOp[c], cxSteered[c])}
  /\ UNCHANGED <<cxOp, cxAnswer, cxSteered, cxTurnOp, cxStatVars, cxThreadVars, cxProjVars, cxEndVars,
                 cxActive, cxCompleted, cxDoubt, svTurn, svUsed, svOwed, svItems, svSent, svQueue>>

\* The context of the call, five seconds for an interrupt, or the end of the client.
CxCallFails(c) ==
  /\ cxPc[c] = "wait"
  /\ CxGoto(c, "failed")
  /\ UNCHANGED <<cxOp, cxAnswer, cxSteered, cxTurnOp, cxStatVars, cxThreadVars, cxProjVars, cxEndVars,
                 cxActive, cxCompleted, cxDoubt, svVars, svQueue>>

\* mutant: the acknowledgement of a start is not checked either.
CxSucceedUnchecked(c) ==
  /\ cxPc[c] = "answered"
  /\ cxActive' = IF cxOp[c] \in {"steer", "prompt"} THEN cxAnswer[c] ELSE cxActive
  /\ cxRev' = IF cxOp[c] = "prompt" THEN cxRev + 1 ELSE cxRev
  /\ cxDoubt' = (cxDoubt \/ cxOp[c] = "steer")
  /\ CxReturns(c)
  /\ UNCHANGED <<cxStatVars, cxThread, cxProjVars, cxEndVars, cxCompleted,
                 svVars, svQueue>>

\* A steered turn becomes active unchecked, a started one unless it has completed.
CxSucceed(c) ==
  /\ cxPc[c] = "answered"
  /\ LET turn == cxAnswer[c] IN
       CASE cxOp[c] = "steer" ->
              /\ cxActive' = turn
              /\ cxDoubt' = (cxDoubt \/ turn \in cxCompleted \/ turn # cxActive)
              /\ UNCHANGED cxRev
         [] cxOp[c] = "prompt" /\ turn \notin cxCompleted ->
              /\ cxActive' = turn /\ cxRev' = cxRev + 1
              /\ cxDoubt' = (cxDoubt \/ cxActive \notin {turn, NoTurn})
         [] OTHER -> UNCHANGED <<cxActive, cxRev, cxDoubt>>
  /\ CxReturns(c)
  /\ UNCHANGED <<cxStatVars, cxThread, cxProjVars, cxEndVars, cxCompleted,
                 svVars, svQueue>>

CxFailed(c) ==
  /\ cxPc[c] = "failed"
  /\ CxOperationError(IF cxOp[c] \in {"steer", "abort"} THEN "running" ELSE "idle")
  /\ cxDoubt' = (cxDoubt \/ cxOp[c] \in {"steer", "abort"})
  /\ CxReturns(c)
  /\ UNCHANGED <<cxTold, cxThreadVars, cxMat, cxTimer, cxReads, cxJobs, cxEndVars, cxActive, cxCompleted, svVars, svQueue>>

\* The goroutine that waits for c.done.
CxReportDown ==
  /\ cxDown /\ ~cxReported
  /\ cxReported' = TRUE
  /\ CxProtocolError
  /\ UNCHANGED <<cxCallVars, cxTold, cxThreadVars, cxMat, cxTimer, cxReads, cxJobs, cxDown,
                 cxClosed, cxActive, cxCompleted, cxDoubt, svVars, svQueue>>

-----------------------------------------------------------------------------
(* The way of a thread into the projection.                                 *)

Job(by) == [by |-> by, rev |-> cxRev', thread |-> cxThread']
NoItem == "no item"

\* The handler of notifications is in one materializeRevision at a time.
CxDispatching == \E job \in cxJobs : job.by = "handler"

CxTimerFires ==
  /\ cxTimer
  /\ cxTimer' = FALSE
  /\ UNCHANGED cxThreadVars
  /\ cxJobs' = IF cxClosed THEN cxJobs ELSE cxJobs \cup {Job("timer")}
  /\ UNCHANGED <<cxCallVars, cxStatVars, cxMat, cxReads, cxPreview, cxEndVars, cxActive,
                 cxCompleted, cxDoubt, svVars, svQueue>>

\* materializeRevision holds w.mu from the check to the end of the write.
CxMaterialize(job) ==
  /\ job \in cxJobs
  /\ cxJobs' = cxJobs \ {job}
  /\ cxMat' = IF ~cxClosed /\ cxRev = job.rev /\ cxMat.rev # job.rev
              THEN [rev |-> job.rev, thread |-> job.thread] ELSE cxMat
  /\ UNCHANGED <<cxCallVars, cxStatVars, cxThreadVars, cxTimer, cxReads, cxPreview, cxEndVars, cxActive,
                 cxCompleted, cxDoubt, svVars, svQueue>>

ReadFor(kind, turn, newer, local, rev) ==
  [kind |-> kind, turn |-> turn, newer |-> newer, local |-> local, rev |-> rev,
   answer |-> {}, state |-> "asked"]

\* The process is gone, and what it had not said with it; reads it has not
\* answered can only fail.
SvGone ==
  /\ svTurn' = NoTurn /\ svInbox' = {} /\ svOwed' = {} /\ svItems' = {}
  /\ cxReads' = {r \in cxReads : r.state = "answered"}
        \cup {ReadFor("completed", NoTurn, NoTurn, {}, 0) :
               r \in {r \in cxReads : r.state = "asked" /\ r.kind = "completed"}}
  /\ UNCHANGED <<svUsed, svSent, cxMat, cxTimer, cxJobs, cxPreview>>

\* The handler does nothing for a closed worker: what is queued is as good as gone.
CxClose ==
  /\ ~cxClosed
  /\ cxClosed' = TRUE /\ cxDown' = TRUE
  /\ SvGone
  /\ svQueue' = <<>>
  /\ UNCHANGED <<cxCallVars, cxStatVars, cxThreadVars, cxReported, cxActive, cxCompleted, cxDoubt>>

\* mutant: only the turn that completed is protected.
CxPreservedCompleted(remote, local, turns) ==
  LET kept == turns \cap cxCompleted
  IN {p \in remote : p[1] \notin kept} \cup {p \in local : p[1] \in kept}

\* preserveLocalTurns: the protected turns are the local ones wholesale.
CxPreserved(remote, local, turns) ==
  {p \in remote : p[1] \notin turns \/ ~\E q \in local : q[1] = p[1]} \cup {p \in local : p[1] \in turns}

\* completeTurn: the thread read back counts only if nothing happened since.
CxCompletedRead(read) ==
  /\ read \in cxReads /\ read.kind = "completed" /\ read.state = "answered"
  /\ cxReads' = cxReads \ {read}
  /\ IF cxClosed \/ cxRev # read.rev THEN UNCHANGED <<cxThreadVars, cxJobs>>
     ELSE /\ cxThread' = CxPreserved(read.answer, read.local, {read.turn, read.newer})
          /\ cxRev' = cxRev + 1
          /\ cxJobs' = cxJobs \cup {Job("read")}
  /\ UNCHANGED <<cxCallVars, cxStatVars, cxMat, cxTimer, cxPreview, cxEndVars, cxActive,
                 cxCompleted, cxDoubt, svVars, svQueue>>

\* refreshNotificationThread: it always counts.
CxRefreshRead(read) ==
  /\ read \in cxReads /\ read.kind = "refresh" /\ read.state = "answered"
  /\ cxReads' = cxReads \ {read}
  /\ cxThread' = read.answer
  /\ cxRev' = cxRev + 1
  /\ cxJobs' = cxJobs \cup {Job("read")}
  /\ UNCHANGED <<cxCallVars, cxStatVars, cxMat, cxTimer, cxPreview, cxEndVars, cxActive,
                 cxCompleted, cxDoubt, svVars, svQueue>>

CxReadFails(read) ==
  /\ read \in cxReads
  /\ cxReads' = cxReads \ {read}
  /\ IF read.kind = "completed" THEN CxProtocolError
     ELSE UNCHANGED <<cxStatus, cxChannel, cxPreview>>
  /\ UNCHANGED <<cxCallVars, cxTold, cxThreadVars, cxMat, cxTimer, cxJobs, cxEndVars, cxActive,
                 cxCompleted, cxDoubt, svVars, svQueue>>

-----------------------------------------------------------------------------
(* handleNotification, one action per kind; nothing once the worker is closed. *)

CxTake(kind) ==
  /\ ~CxDispatching /\ ~cxClosed
  /\ svQueue # <<>> /\ Head(svQueue).kind = kind
  /\ svQueue' = Tail(svQueue)
  /\ cxDoubt' = (cxDoubt \/ kind = "error" \/ Head(svQueue).turn = "systemError")
  /\ UNCHANGED <<cxCallVars, cxEndVars, svVars, cxTold, cxMat>>

CxTurnStarted ==
  /\ CxTake("turn/started")
  /\ LET turn == Head(svQueue).turn IN
       /\ cxCompleted' = cxCompleted \ {turn}
       /\ cxActive' = turn
       /\ cxThread' = {p \in cxThread : p[1] # turn}
  /\ cxRev' = cxRev + 1
  /\ CxSetStatus("running")
  /\ UNCHANGED <<cxTimer, cxReads, cxJobs, cxPreview>>

\* upsertItemLocked and applyLiveItem, or applyDelta; then scheduleMaterialize.
CxApplyLive(item) ==
  /\ cxThread' = cxThread \cup {item}
  /\ cxRev' = cxRev + 1
  /\ cxTimer' = TRUE
  /\ UNCHANGED <<cxStatus, cxChannel, cxActive, cxCompleted, cxReads, cxJobs, cxPreview>>

CxLiveItem == CxTake("item/started") /\ CxApplyLive(Head(svQueue).item)

\* The output of a tool, a plan, a reasoning: a placeholder comes first if need be.
CxOutputDelta == CxTake("item/outputDelta") /\ CxApplyLive(Head(svQueue).item)

\* A warning, a compaction, a plan: an item of the local thread only, shown in
\* the active turn unless it names one.
CxNotice ==
  /\ CxTake("warning")
  /\ CxApplyLive(<<cxActive, "notice">>)

CxMessageDelta ==
  /\ CxTake("item/agentMessage/delta")
  /\ cxPreview' = cxPreview \cup {Head(svQueue).item}
  /\ UNCHANGED <<cxStatus, cxChannel, cxActive, cxCompleted, cxThreadVars, cxTimer, cxReads, cxJobs>>

\* applyCompletedItem: the handler writes the item, then its preview is over.
CxItemCompleted ==
  /\ CxTake("item/completed")
  /\ LET item == Head(svQueue).item IN
       /\ cxThread' = cxThread \cup {item}
       /\ cxRev' = cxRev + 1
       /\ cxPreview' = cxPreview \ {item}
       /\ cxJobs' = cxJobs \cup {Job("handler")}
  /\ UNCHANGED <<cxStatus, cxChannel, cxActive, cxCompleted, cxTimer, cxReads>>

\* completeTurn: a late completion leaves a newer turn alone.
CxTurnCompleted ==
  /\ CxTake("turn/completed")
  /\ LET turn == Head(svQueue).turn
         newer == IF cxActive = turn THEN NoTurn ELSE cxActive IN
       /\ cxCompleted' = cxCompleted \cup {turn}
       /\ cxRev' = cxRev + 1
       /\ cxActive' = newer
       /\ IF cxActive = turn THEN CxSetStatus("idle") ELSE UNCHANGED <<cxStatus, cxChannel>>
       /\ cxReads' = cxReads \cup {ReadFor("completed", turn, newer, cxThread, cxRev + 1)}
  /\ UNCHANGED <<cxThread, cxTimer, cxJobs, cxPreview>>

\* thread/status/changed; thread/closed, archived and deleted count as idle.
CxThreadStatus ==
  /\ CxTake("thread/status/changed")
  /\ LET type == Head(svQueue).turn IN
       /\ cxActive' = IF type = "active" THEN cxActive ELSE NoTurn
       /\ CxSetStatus(CASE type = "active" -> "running" [] type = "idle" -> "idle"
                        [] type = "systemError" -> "error")
  /\ UNCHANGED <<cxCompleted, cxThreadVars, cxTimer, cxReads, cxJobs, cxPreview>>

\* thread/started, thread/name/updated, thread/unarchived
CxRenamed ==
  /\ CxTake("thread/name/updated")
  /\ cxReads' = cxReads \cup {ReadFor("refresh", NoTurn, NoTurn, {}, 0)}
  /\ UNCHANGED <<cxStatus, cxChannel, cxActive, cxCompleted, cxThreadVars, cxTimer, cxJobs, cxPreview>>

\* An error that will not be retried.
CxTerminalError ==
  /\ CxTake("error")
  /\ cxActive' = IF cxActive = Head(svQueue).turn THEN NoTurn ELSE cxActive
  /\ CxProtocolError
  /\ UNCHANGED <<cxCompleted, cxThreadVars, cxTimer, cxReads, cxJobs>>

-----------------------------------------------------------------------------
(* app-server: external.  The notification of a turn's end may come late.     *)

Note(kind, turn, item) == [kind |-> kind, turn |-> turn, item |-> item]
SvKeeps == UNCHANGED <<cxOp, cxSteered, cxTurnOp, cxStatVars, cxThreadVars, cxMat, cxTimer, cxJobs,
                       cxPreview, cxEndVars, cxActive, cxCompleted, cxDoubt>>

SvReply(c, answer) ==
  IF cxPc[c] # "wait" THEN UNCHANGED <<cxPc, cxAnswer>>
  ELSE /\ CxGoto(c, IF answer = "error" THEN "failed" ELSE "answered")
       /\ cxAnswer' = [cxAnswer EXCEPT ![c] = answer]

SvServes(request) ==
  /\ request \in svInbox /\ ~cxDown
  /\ svInbox' = svInbox \ {request}
  /\ \/ /\ request.op \in {"prompt", "compact"} /\ svTurn = NoTurn
        /\ svUsed # CxTurns
        /\ LET turn == CHOOSE t \in CxTurns \ svUsed : TRUE IN
             /\ svTurn' = turn /\ svUsed' = svUsed \cup {turn}
             /\ svQueue' = Append(svQueue, Note("turn/started", turn, <<turn, NoItem>>))
             /\ SvReply(request.call, turn)
        /\ UNCHANGED svOwed
     \/ /\ request.op = "steer" /\ svTurn = request.turn
        /\ SvReply(request.call, svTurn)
        /\ UNCHANGED <<svTurn, svUsed, svOwed, svQueue>>
     \/ /\ request.op = "abort" /\ svTurn = request.turn
        /\ svOwed' = svOwed \cup {svTurn}
        /\ svTurn' = NoTurn
        /\ SvReply(request.call, "interrupted")
        /\ UNCHANGED <<svUsed, svQueue>>
     \/ /\ SvReply(request.call, "error")
        /\ UNCHANGED <<svTurn, svUsed, svOwed, svQueue>>
  /\ UNCHANGED <<svItems, svSent, cxReads>> /\ SvKeeps

SvTurnEnds ==
  /\ svTurn # NoTurn /\ ~cxDown
  /\ svOwed' = svOwed \cup {svTurn}
  /\ svTurn' = NoTurn
  /\ UNCHANGED <<svUsed, svInbox, svItems, svSent, svQueue, cxPc, cxAnswer, cxReads>> /\ SvKeeps

SvNotifiesEnd ==
  /\ ~cxDown
  /\ \E turn \in svOwed :
       /\ svOwed' = svOwed \ {turn}
       /\ svQueue' = Append(svQueue, Note("turn/completed", turn, <<turn, NoItem>>))
  /\ UNCHANGED <<svTurn, svUsed, svInbox, svItems, svSent, cxPc, cxAnswer, cxReads>> /\ SvKeeps

SvSpeaks ==
  /\ ~cxDown /\ svSent < CxMaxNotes
  /\ \/ \E item \in CxItems, kind \in {"item/started", "item/outputDelta", "item/agentMessage/delta",
                                          "item/completed"} :
          /\ svTurn # NoTurn
          /\ svQueue' = Append(svQueue, Note(kind, svTurn, <<svTurn, item>>))
          /\ svItems' = IF kind = "item/agentMessage/delta" THEN svItems
                        ELSE svItems \cup {<<svTurn, item>>}
          /\ UNCHANGED svTurn
     \/ /\ \E kind \in {"thread/name/updated", "warning"} :
             svQueue' = Append(svQueue, Note(kind, NoTurn, <<NoTurn, NoItem>>))
        /\ UNCHANGED <<svTurn, svItems>>
     \/ /\ svQueue' = Append(svQueue, Note("thread/status/changed",
                                         IF svTurn = NoTurn THEN "idle" ELSE "active", <<NoTurn, NoItem>>))
        /\ UNCHANGED <<svTurn, svItems>>
     \/ /\ svTurn # NoTurn
        /\ svQueue' \in {Append(svQueue, Note("error", svTurn, <<svTurn, NoItem>>)),
                         Append(svQueue, Note("thread/status/changed", "systemError", <<svTurn, NoItem>>))}
        /\ svTurn' = NoTurn
        /\ UNCHANGED svItems
  /\ svSent' = svSent + 1
  /\ UNCHANGED <<svUsed, svInbox, svOwed, cxPc, cxAnswer, cxReads>> /\ SvKeeps

\* An immediate read may miss items of the turns that were notified.
SvReadsThread(read) ==
  /\ read \in cxReads /\ read.state = "asked" /\ ~cxDown
  /\ \E lag \in SUBSET svItems :
       cxReads' = (cxReads \ {read}) \cup {[read EXCEPT !.state = "answered", !.answer = lag]}
  /\ UNCHANGED <<svVars, svQueue, cxPc, cxAnswer>> /\ SvKeeps

SvDies ==
  /\ ~cxDown
  /\ cxDown' = TRUE
  /\ SvGone
  /\ UNCHANGED svQueue
  /\ UNCHANGED <<cxCallVars, cxStatVars, cxThreadVars, cxReported, cxClosed, cxActive, cxCompleted,
                 cxDoubt>>

CxCallStep(c) ==
  \/ \E op \in CxOps : CxPrompt(c, op)
  \/ CxAbort(c) \/ CxSetModel(c)
  \/ CxSend(c) \/ CxCallFails(c) \/ CxSucceed(c) \/ CxFailed(c)

CxHandler ==
  \/ CxTurnStarted \/ CxLiveItem \/ CxOutputDelta \/ CxNotice \/ CxMessageDelta \/ CxItemCompleted \/ CxTurnCompleted
  \/ CxThreadStatus \/ CxRenamed \/ CxTerminalError

CxReaders ==
  \/ CxTimerFires
  \/ \E job \in cxJobs : CxMaterialize(job)
  \/ \E read \in cxReads : CxCompletedRead(read) \/ CxRefreshRead(read) \/ CxReadFails(read)

CxServer ==
  \/ \E request \in svInbox : SvServes(request)
  \/ SvTurnEnds \/ SvNotifiesEnd \/ SvSpeaks \/ SvDies
  \/ \E read \in cxReads : SvReadsThread(read)

CxNext ==
  \/ \E c \in CxCalls : CxCallStep(c)
  \/ CxNotifier \/ CxClose \/ CxReportDown
  \/ CxHandler \/ CxReaders \/ CxServer

CxSpec == CxInit /\ [][CxNext]_cxVars

-----------------------------------------------------------------------------
(* Properties.                                                              *)

\* The variables keep their types.
CxTypeOK ==
  /\ cxStatus \in {"idle", "running", "error"} /\ cxTold \in {"idle", "running", "error"}
  /\ cxChannel \in {"empty", "idle", "running", "error"}
  /\ cxActive \in CxTurns \cup {NoTurn} /\ cxCompleted \subseteq CxTurns
  /\ cxRev \in Nat /\ cxMat.rev \in 0..cxRev
  /\ {cxTimer, cxDown, cxReported, cxClosed, cxDoubt} \subseteq BOOLEAN
  /\ cxPc \in [CxCalls -> {"new", "send", "wait", "answered", "failed", "done"}]
  /\ cxTurnOp \in CxCalls \cup {NoCaller}
  /\ svTurn \in CxTurns \cup {NoTurn} /\ svSent \in 0..CxMaxNotes

CxQuiet ==
  /\ svTurn = NoTurn /\ svInbox = {} /\ svOwed = {} /\ svQueue = <<>>
  /\ ~CxDispatching /\ ~cxDown
  /\ \A c \in CxCalls : cxPc[c] \in {"new", "done"}

\* When app-server has no turn and everything it sent has been handled, no turn
\* is active and the worker is not running: an acknowledgement that overtakes or
\* follows its turn's completion changes nothing.  Excluded is what the code does
\* not check: an answer to a steer or a start that comes when another turn is
\* active, a steer or interrupt that failed (it leaves "running"), and a turn that
\* ends in an error (the manager evicts the worker).
CxSettles == CxQuiet /\ ~cxDoubt => cxActive = NoTurn /\ cxStatus # "running"

\* The callback has the newest status once the channel is empty.
CxLatestTold == cxChannel = "empty" /\ ~cxClosed => cxTold = cxStatus

\* The projection never goes back to an older revision of the thread.
CxProjectionForward == cxMat'.rev >= cxMat.rev

\* Reading the thread back after a turn has completed loses no item of that turn
\* or of the active one, although the read may lag; excluded is a steer's answer
\* that made another turn active, and what else CxSettles excludes.
CxLiveTurnKept ==
  [][\A read \in cxReads : CxCompletedRead(read) /\ ~cxDoubt =>
       \A p \in cxThread : p[1] \in {read.turn, cxActive} \ {NoTurn} => p \in cxThread']_cxVars
=============================================================================
