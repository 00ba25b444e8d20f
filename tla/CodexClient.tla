----------------------------- MODULE CodexClient -----------------------------
(******************************************************************************)
(* The JSON-RPC client of one `codex app-server` (codex/client.go): callers,  *)
(* the stdout reader, the notification dispatcher, the goroutine that waits   *)
(* for the process, and Close.  A handler may call back into the client: that *)
(* is why notifications leave the reader through a queue.  What the server    *)
(* does with a request is external.                                           *)
(******************************************************************************)
EXTENDS Naturals, Sequences

CONSTANTS CcCalls,     \* calls made from outside
          CcNested,    \* the call the notification handler makes
          CcMaxNotes   \* bound: notifications the server sends

ASSUME CcNestedAssumption == CcNested \notin CcCalls
ASSUME CcNobodyAssumption == "nobody" \notin CcCalls \cup {CcNested}
ASSUME CcMaxNotesAssumption == CcMaxNotes \in Nat

VARIABLES
  ccErr,         \* c.err is set and c.done is closed
  ccPending,     \* c.pending
  ccDoomed,      \* the entries fail() has taken out and still has to answer
  ccBox,         \* the channel of each call
  ccPc,          \* where each call is
  ccReader,      \* consume: reading, waking the dispatcher, eof or done
  ccHand,        \* the entry route has removed and not yet answered
  ccQueue,       \* c.notifyQ
  ccWake,        \* c.notifyWake holds its token
  ccDispatcher,  \* dispatchNotifications: select, drain, handle or done
  ccIn, ccOut,   \* requests the server has not answered; lines not read
  ccOpen,        \* the server's end of stdout
  ccAlive, ccWaited,  \* the process; Cmd.Wait has returned
  ccNotes        \* notifications sent

ccCallVars == <<ccPending, ccDoomed, ccBox, ccPc, ccErr>>
ccReadVars == <<ccReader, ccHand>>
ccNoteVars == <<ccQueue, ccWake, ccDispatcher>>
ccProcVars == <<ccIn, ccOut, ccOpen, ccAlive, ccNotes>>
ccVars == <<ccCallVars, ccReadVars, ccNoteVars, ccProcVars, ccWaited>>

AllCcCalls == CcCalls \cup {CcNested}
CcNobody == [call |-> "nobody", answer |-> "none"]

CcInit ==
  /\ ccErr = FALSE
  /\ ccPending = {} /\ ccDoomed = {}
  /\ ccBox = [c \in AllCcCalls |-> 0]
  /\ ccPc = [c \in AllCcCalls |-> "new"]
  /\ ccReader = "reading" /\ ccHand = CcNobody
  /\ ccQueue = <<>> /\ ccWake = FALSE /\ ccDispatcher = "select"
  /\ ccIn = {} /\ ccOut = <<>>
  /\ ccOpen = TRUE /\ ccAlive = TRUE /\ ccWaited = FALSE
  /\ ccNotes = 0

\* fail: the first error takes every pending call; their answers follow.
CcFail ==
  /\ ccErr' = TRUE
  /\ ccDoomed' = IF ccErr THEN ccDoomed ELSE ccPending
  /\ ccPending' = IF ccErr THEN ccPending ELSE {}

CcSendErrors ==
  /\ ccDoomed # {}
  /\ ccBox' = [c \in AllCcCalls |-> IF c \in ccDoomed THEN ccBox[c] + 1 ELSE ccBox[c]]
  /\ ccDoomed' = {}
  /\ UNCHANGED <<ccPending, ccPc, ccErr, ccReadVars, ccNoteVars, ccProcVars, ccWaited>>

-----------------------------------------------------------------------------
(* Call.                                                                    *)

\* mutant: the error is read before the lock is taken again.
CcRegisterUnchecked(c) ==
  /\ ccPc[c] = "new"
  /\ c = CcNested => ccDispatcher = "handle"
  /\ ccPc' = [ccPc EXCEPT ![c] = "write"]
  /\ ccPending' = ccPending \cup {c}
  /\ UNCHANGED <<ccDoomed, ccBox, ccErr, ccReadVars, ccNoteVars, ccProcVars, ccWaited>>

\* The error is read and the channel entered under one hold of c.mu.
CcRegister(c) ==
  /\ ccPc[c] = "new"
  /\ c = CcNested => ccDispatcher = "handle"
  /\ IF ccErr
     THEN ccPc' = [ccPc EXCEPT ![c] = "failed"] /\ UNCHANGED ccPending
     ELSE ccPc' = [ccPc EXCEPT ![c] = "write"] /\ ccPending' = ccPending \cup {c}
  /\ UNCHANGED <<ccDoomed, ccBox, ccErr, ccReadVars, ccNoteVars, ccProcVars, ccWaited>>

\* A failed write fails the client; the caller removes its entry either way.
CcWrite(c) ==
  /\ ccPc[c] = "write"
  /\ \/ /\ ~ccErr /\ ccAlive
        /\ ccIn' = ccIn \cup {c}
        /\ ccPc' = [ccPc EXCEPT ![c] = "wait"]
        /\ UNCHANGED <<ccPending, ccDoomed, ccErr>>
     \/ /\ ccErr
        /\ ccPc' = [ccPc EXCEPT ![c] = "failed"]
        /\ ccPending' = ccPending \ {c}
        /\ UNCHANGED <<ccIn, ccDoomed, ccErr>>
     \/ /\ ~ccErr /\ ~ccAlive
        /\ ccPc' = [ccPc EXCEPT ![c] = "failed"]
        /\ CcFail
        /\ UNCHANGED ccIn
  /\ UNCHANGED <<ccBox, ccReadVars, ccNoteVars, ccOut, ccOpen, ccAlive, ccNotes, ccWaited>>

\* The select: an answer, c.done, or the context, which drops the entry.
CcReturn(c) ==
  /\ ccPc[c] = "wait"
  /\ \/ /\ ccBox[c] > 0
        /\ ccBox' = [ccBox EXCEPT ![c] = @ - 1]
        /\ ccPc' = [ccPc EXCEPT ![c] = "ok"]
        /\ UNCHANGED ccPending
     \/ /\ ccErr
        /\ ccPc' = [ccPc EXCEPT ![c] = "failed"]
        /\ UNCHANGED <<ccBox, ccPending>>
     \/ /\ ccPc' = [ccPc EXCEPT ![c] = "failed"]
        /\ ccPending' = ccPending \ {c}
        /\ UNCHANGED ccBox
  /\ UNCHANGED <<ccDoomed, ccErr, ccReadVars, ccNoteVars, ccProcVars, ccWaited>>

CcClose ==
  /\ ~ccErr
  /\ CcFail
  /\ UNCHANGED <<ccBox, ccPc, ccReadVars, ccNoteVars, ccProcVars, ccWaited>>

-----------------------------------------------------------------------------
(* The reader: consume and route.                                           *)

CcTake(kind) ==
  /\ ccReader = "reading" /\ ccHand = CcNobody
  /\ ccOut # <<>> /\ Head(ccOut).kind = kind
  /\ ccOut' = Tail(ccOut)
  /\ UNCHANGED <<ccIn, ccOpen, ccAlive, ccNotes, ccWaited>>

\* The entry leaves the map before its channel is sent to.
CcRouteResponse ==
  /\ CcTake("response")
  /\ LET line == Head(ccOut) IN
       /\ ccPending' = ccPending \ {line.call}
       /\ ccHand' = IF line.call \in ccPending THEN [call |-> line.call, answer |-> line.answer]
                    ELSE CcNobody
  /\ UNCHANGED <<ccDoomed, ccBox, ccPc, ccErr, ccReader, ccNoteVars>>

\* A response with neither result nor error fails the client.
CcAnswer ==
  /\ ccHand # CcNobody
  /\ ccHand' = CcNobody
  /\ IF ccHand.answer = "malformed"
     THEN CcFail /\ ccReader' = "done" /\ UNCHANGED ccBox
     ELSE /\ ccBox' = [ccBox EXCEPT ![ccHand.call] = @ + 1]
          /\ UNCHANGED <<ccPending, ccDoomed, ccErr, ccReader>>
  /\ UNCHANGED <<ccPc, ccNoteVars, ccProcVars, ccWaited>>

\* The reader itself answers the server's requests; its write can fail too.
CcAnswerServer ==
  /\ CcTake("request")
  /\ IF ccErr \/ ~ccAlive
     THEN CcFail /\ ccReader' = "done"
     ELSE UNCHANGED <<ccPending, ccDoomed, ccErr, ccReader>>
  /\ UNCHANGED <<ccBox, ccPc, ccHand, ccNoteVars>>

CcEnqueue ==
  /\ CcTake("notification")
  /\ ccQueue' = Append(ccQueue, Head(ccOut).call)
  /\ ccReader' = "waking"
  /\ UNCHANGED <<ccCallVars, ccHand, ccWake, ccDispatcher>>

CcWakeUp ==
  /\ ccReader = "waking"
  /\ ccReader' = "reading"
  /\ ccWake' = TRUE
  /\ UNCHANGED <<ccCallVars, ccHand, ccQueue, ccDispatcher, ccProcVars, ccWaited>>

\* A line that is no JSON, or a read error once Wait has closed the pipe.
CcReaderFails ==
  /\ ccReader = "reading" /\ ccHand = CcNobody
  /\ ccWaited \/ (ccOut # <<>> /\ Head(ccOut).kind = "garbage")
  /\ ccReader' = "done"
  /\ CcFail
  /\ UNCHANGED <<ccBox, ccPc, ccHand, ccNoteVars, ccProcVars, ccWaited>>

CcEof ==
  /\ ccReader = "reading" /\ ccHand = CcNobody
  /\ ccOut = <<>> /\ ~ccOpen
  /\ ccReader' = "eof"
  /\ UNCHANGED <<ccCallVars, ccHand, ccNoteVars, ccProcVars, ccWaited>>

\* 50 ms later; the wait for the process usually was faster.
CcEofTimer ==
  /\ ccReader = "eof"
  /\ ccReader' = "done"
  /\ CcFail
  /\ UNCHANGED <<ccBox, ccPc, ccHand, ccNoteVars, ccProcVars, ccWaited>>

CcWaitReturns ==
  /\ ~ccAlive /\ ~ccWaited
  /\ ccWaited' = TRUE
  /\ CcFail
  /\ UNCHANGED <<ccBox, ccPc, ccReadVars, ccNoteVars, ccProcVars>>

-----------------------------------------------------------------------------
(* dispatchNotifications.                                                   *)

CcWoken ==
  /\ ccDispatcher = "select" /\ ccWake
  /\ ccWake' = FALSE
  /\ ccDispatcher' = "drain"
  /\ UNCHANGED <<ccCallVars, ccReadVars, ccQueue, ccProcVars, ccWaited>>

CcDrain ==
  /\ ccDispatcher = "drain"
  /\ ccQueue' = IF ccQueue = <<>> THEN ccQueue ELSE Tail(ccQueue)
  /\ ccDispatcher' = IF ccQueue = <<>> THEN "select" ELSE "handle"
  /\ UNCHANGED <<ccCallVars, ccReadVars, ccWake, ccProcVars, ccWaited>>

CcHandled ==
  /\ ccDispatcher = "handle"
  /\ ccPc[CcNested] \in {"new", "ok", "failed"}
  /\ ccDispatcher' = "drain"
  /\ UNCHANGED <<ccCallVars, ccReadVars, ccQueue, ccWake, ccProcVars, ccWaited>>

CcDispatcherStops ==
  /\ ccDispatcher = "select" /\ ccErr
  /\ ccDispatcher' = "done"
  /\ UNCHANGED <<ccCallVars, ccReadVars, ccQueue, ccWake, ccProcVars, ccWaited>>

-----------------------------------------------------------------------------
(* The server: external.  It answers in any order, and may say anything.     *)

CcLine(kind, call, answer) == [kind |-> kind, call |-> call, answer |-> answer]

CcServes ==
  /\ ccAlive /\ ccOpen
  /\ \E c \in ccIn, answer \in {"result", "malformed"} :
       /\ ccOut' = Append(ccOut, CcLine("response", c, answer))
       /\ ccIn' = ccIn \ {c}
  /\ UNCHANGED <<ccCallVars, ccReadVars, ccNoteVars, ccOpen, ccAlive, ccNotes, ccWaited>>

CcSpeaks ==
  /\ ccAlive /\ ccOpen /\ ccNotes < CcMaxNotes
  /\ \E kind \in {"notification", "request", "garbage"} :
       ccOut' = Append(ccOut, CcLine(kind, ccNotes, "none"))
  /\ ccNotes' = ccNotes + 1
  /\ UNCHANGED <<ccCallVars, ccReadVars, ccNoteVars, ccIn, ccOpen, ccAlive, ccWaited>>

\* It closes stdout, or dies (killed by Close, or not).
CcHangsUp ==
  /\ ccAlive
  /\ ccAlive' \in BOOLEAN
  /\ ccOpen' = FALSE
  /\ ccOpen \/ ~ccAlive'
  /\ UNCHANGED <<ccCallVars, ccReadVars, ccNoteVars, ccIn, ccOut, ccNotes, ccWaited>>

CcNext ==
  \/ \E c \in AllCcCalls : CcRegister(c) \/ CcWrite(c) \/ CcReturn(c)
  \/ CcClose \/ CcSendErrors
  \/ CcRouteResponse \/ CcAnswer \/ CcAnswerServer \/ CcEnqueue \/ CcWakeUp
  \/ CcReaderFails \/ CcEof \/ CcEofTimer \/ CcWaitReturns
  \/ CcWoken \/ CcDrain \/ CcHandled \/ CcDispatcherStops
  \/ CcServes \/ CcSpeaks \/ CcHangsUp

CcSpec == CcInit /\ [][CcNext]_ccVars

-----------------------------------------------------------------------------
(* Properties.                                                              *)

\* The variables keep their types.
CcTypeOK ==
  /\ {ccErr, ccWake, ccOpen, ccAlive, ccWaited} \subseteq BOOLEAN
  /\ ccPending \cup ccDoomed \cup ccIn \subseteq AllCcCalls
  /\ ccBox \in [AllCcCalls -> Nat]
  /\ ccPc \in [AllCcCalls -> {"new", "write", "wait", "ok", "failed"}]
  /\ ccReader \in {"reading", "waking", "eof", "done"}
  /\ ccDispatcher \in {"select", "drain", "handle", "done"}
  /\ ccNotes \in 0..CcMaxNotes

\* A channel of capacity 1 never gets two answers, which would block the reader
\* or fail for good; no call enters the map once fail has emptied it, and a
\* reader that has stopped has failed the client: every call gets an answer.
CcCallsAnswered ==
  /\ \A c \in AllCcCalls :
       LET owed == IF c \in ccPending \cup ccDoomed \/ ccHand.call = c THEN 1 ELSE 0
       IN ccBox[c] + owed <= 1
  /\ ccErr => ccPending = {}
  /\ ccReader = "done" => ccErr

\* A queued notification has a dispatcher on its way to it: no wake-up is lost.
CcNotesDispatched ==
  ccQueue # <<>> => ccErr \/ ccWake \/ ccReader = "waking" \/ ccDispatcher \in {"drain", "handle"}
=============================================================================
