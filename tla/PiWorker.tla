------------------------------ MODULE PiWorker ------------------------------
(*****************************************************************************)
(* A worker of the Pi runtime (rpc/worker.go): goroutines that call `pi      *)
(* --mode rpc` over its standard input, the goroutine that reads its output, *)
(* and the one that waits for the process.  Responses carry the id of their  *)
(* call; everything else pi writes is an event of the run.                   *)
(*                                                                           *)
(* The status is the worker's State; PiRecent stands for stream activity     *)
(* less than streamActivityWindow ago.  Texts are the number of their        *)
(* deltas.  The process itself (what pi does with a command) is external.    *)
(*****************************************************************************)
EXTENDS Naturals, Sequences, FiniteSets

CONSTANTS PiCalls,     \* calls of the worker's methods, each made once
          PiBoot,      \* the switch_session call of NewPiWorkerWithStatusEvents
          PiOps,       \* methods the calls may choose
          PiMaxLines   \* bound: event lines pi writes in all

ASSUME PiBootAssumption == PiBoot \notin PiCalls
ASSUME PiOpsAssumption ==
  PiOps \subseteq {"prompt", "set_model", "set_thinking", "abort", "get_state", "get_commands"}

VARIABLES
  piStatus, piExitCode,  \* w.status.State, and whether it has an ExitCode
  piRecent,              \* hasRecentStreamActivityLocked
  piPending, piBox,      \* w.pending; the channel of each call
  piOp, piPc,            \* what a call does and where it is
  piCommands,            \* w.commandsCached
  piIn, piOut,           \* the pipes to and from pi
  piAlive, piTurn,       \* the process; the run inside it
  piReader, piWaiter,    \* consume and wait: running or done
  piClosing,             \* w.closing
  piDraft, piShown,      \* the preview accumulator; what streamSink got last
  piSaid,                \* history: deltas of the current message
  piAsk,                 \* one extension UI request: its way through pendingExtensionUI
  piLines                \* event lines written

piProcVars == <<piIn, piOut, piAlive, piTurn, piLines>>
piCallVars == <<piPending, piBox, piOp, piPc, piCommands>>
piViewVars == <<piDraft, piShown, piSaid, piAsk>>
piStatVars == <<piStatus, piExitCode, piRecent>>
piLoopVars == <<piReader, piWaiter, piClosing>>
piVars == <<piProcVars, piCallVars, piViewVars, piStatVars, piLoopVars>>

AllPiCalls == PiCalls \cup {PiBoot}
PiNoCall == "event"

PiInit ==
  /\ piStatus = "idle" /\ piExitCode = FALSE /\ piRecent = FALSE
  /\ piPending = {}
  /\ piBox = [c \in AllPiCalls |-> "empty"]
  /\ piOp = [c \in AllPiCalls |-> IF c = PiBoot THEN "switch_session" ELSE "none"]
  /\ piPc = [c \in AllPiCalls |-> IF c = PiBoot THEN "register" ELSE "new"]
  /\ piCommands = FALSE
  /\ piIn = <<>> /\ piOut = <<>>
  /\ piAlive = TRUE /\ piTurn = FALSE
  /\ piReader = "running" /\ piWaiter = "running" /\ piClosing = FALSE
  /\ piDraft = 0 /\ piShown = <<0, TRUE>> /\ piSaid = 0
  /\ piAsk = "none"
  /\ piLines = 0

PiGoto(c, label) == piPc' = [piPc EXCEPT ![c] = label]

\* What Status reports: recent stream activity shows an idle worker as running.
PiDisplayed == IF piStatus = "idle" /\ piRecent THEN "running" ELSE piStatus

-----------------------------------------------------------------------------
(* Calls.                                                                   *)

\* The manager hands the worker out once its constructor has returned.
PiStart(c, op) ==
  /\ c \in PiCalls /\ piPc[c] = "new" /\ piPc[PiBoot] = "ok"
  /\ op \in PiOps
  /\ piOp' = [piOp EXCEPT ![c] = op]
  /\ PiGoto(c, IF op = "get_commands" /\ piCommands THEN "ok" ELSE "register")
  /\ piStatus' = IF op = "prompt" THEN "running" ELSE piStatus
  /\ piExitCode' = (piExitCode /\ op # "prompt")
  /\ UNCHANGED <<piProcVars, piPending, piBox, piCommands, piRecent, piViewVars, piLoopVars>>

PiRegister(c) ==
  /\ piPc[c] = "register"
  /\ piPending' = piPending \cup {c}
  /\ PiGoto(c, "write")
  /\ UNCHANGED <<piProcVars, piBox, piOp, piCommands, piViewVars, piStatVars, piLoopVars>>

\* A write fails once the process is gone or Close has closed stdin.
PiWrite(c) ==
  /\ piPc[c] = "write"
  /\ IF piAlive /\ ~piClosing
     THEN /\ piIn' = Append(piIn, c)
          /\ PiGoto(c, "wait")
          /\ UNCHANGED piPending
     ELSE /\ piPending' = piPending \ {c}
          /\ PiGoto(c, "failed")
          /\ UNCHANGED piIn
  /\ UNCHANGED <<piOut, piAlive, piTurn, piLines, piBox, piOp, piCommands, piViewVars,
                 piStatVars, piLoopVars>>

\* The select of sendAndAwait; the context may win although an answer is there.
PiReceive(c) ==
  /\ piPc[c] = "wait" /\ piBox[c] # "empty"
  /\ PiGoto(c, IF piBox[c] = "ok" THEN "answered" ELSE "failed")
  /\ piBox' = [piBox EXCEPT ![c] = "empty"]
  /\ UNCHANGED <<piProcVars, piPending, piOp, piCommands, piViewVars, piStatVars, piLoopVars>>

PiTimeout(c) ==
  /\ piPc[c] = "wait"
  /\ piPending' = piPending \ {c}
  /\ PiGoto(c, "failed")
  /\ UNCHANGED <<piProcVars, piBox, piOp, piCommands, piViewVars, piStatVars, piLoopVars>>

\* SetModel replaces the status, Abort clears it and the stream activity.
PiSucceed(c) ==
  /\ piPc[c] = "answered"
  /\ piStatus' = IF piOp[c] \in {"set_model", "abort"} THEN "idle" ELSE piStatus
  /\ piExitCode' = (piExitCode /\ piOp[c] # "set_model")
  /\ piRecent' = (piRecent /\ piOp[c] # "abort")
  /\ piCommands' = (piCommands \/ piOp[c] = "get_commands")
  /\ PiGoto(c, "ok")
  /\ UNCHANGED <<piProcVars, piPending, piBox, piOp, piViewVars, piLoopVars>>

\* Prompt reports its failure as the worker's; a failed boot closes the worker.
PiFail(c) ==
  /\ piPc[c] = "failed"
  /\ piStatus' = IF piOp[c] = "prompt" THEN "error" ELSE piStatus
  /\ piExitCode' = (piExitCode /\ piOp[c] # "prompt")
  /\ piClosing' = (piClosing \/ c = PiBoot)
  /\ piAsk' = IF c = PiBoot THEN "gone" ELSE piAsk
  /\ PiGoto(c, "error")
  /\ UNCHANGED <<piProcVars, piPending, piBox, piOp, piCommands, piRecent, piDraft, piShown,
                 piSaid, piReader, piWaiter>>

PiClose ==
  /\ piPc[PiBoot] = "ok" /\ ~piClosing
  /\ piClosing' = TRUE
  /\ piAsk' = "gone"
  /\ UNCHANGED <<piProcVars, piCallVars, piDraft, piShown, piSaid, piStatVars, piReader, piWaiter>>

\* RespondExtensionUI holds w.mu from the lookup to the removal.
PiRespond ==
  /\ piAsk \in {"pending", "due"}
  /\ piAsk' = IF piAsk = "due" THEN "gone"
              ELSE IF piAlive /\ ~piClosing THEN "answered" ELSE piAsk
  /\ piAsk' # piAsk
  /\ UNCHANGED <<piProcVars, piCallVars, piDraft, piShown, piSaid, piStatVars, piLoopVars>>

PiAskExpires ==
  /\ piAsk = "pending"
  /\ piAsk' = "due"
  /\ UNCHANGED <<piProcVars, piCallVars, piDraft, piShown, piSaid, piStatVars, piLoopVars>>

PiWindowPasses ==
  /\ piRecent
  /\ piRecent' = FALSE
  /\ UNCHANGED <<piProcVars, piCallVars, piViewVars, piStatus, piExitCode, piLoopVars>>

-----------------------------------------------------------------------------
(* The process: external.                                                   *)

PiLine(kind) == [kind |-> kind, call |-> PiNoCall, answer |-> "none"]
PiAnswer(c, answer) == [kind |-> "response", call |-> c, answer |-> answer]

\* It reads commands in order.  An abort is answered when the run is over.
PiHandles ==
  /\ piAlive /\ piIn # <<>>
  /\ LET c == Head(piIn) IN
     \E answer \in {"ok", "fail"} :
       /\ piOut' = IF piOp[c] = "abort" /\ piTurn
                   THEN piOut \o <<PiLine("agent_end"), PiAnswer(c, answer)>>
                   ELSE Append(piOut, PiAnswer(c, answer))
       /\ piTurn' = CASE piOp[c] = "prompt" -> (piTurn \/ answer = "ok")
                      [] piOp[c] = "abort" -> FALSE
                      [] OTHER -> piTurn
  /\ piIn' = Tail(piIn)
  /\ UNCHANGED <<piAlive, piLines, piCallVars, piViewVars, piStatVars, piLoopVars>>

PiSpeaks ==
  /\ piAlive /\ piTurn /\ piLines < PiMaxLines
  /\ \E kind \in {"message_update", "message_end", "extension_ui_request"} :
       piOut' = Append(piOut, PiLine(kind))
  /\ piLines' = piLines + 1
  /\ UNCHANGED <<piIn, piAlive, piTurn, piCallVars, piViewVars, piStatVars, piLoopVars>>

PiRunEnds ==
  /\ piAlive /\ piTurn
  /\ piTurn' = FALSE
  /\ piOut' = Append(piOut, PiLine("agent_end"))
  /\ UNCHANGED <<piIn, piAlive, piLines, piCallVars, piViewVars, piStatVars, piLoopVars>>

\* A crash, or the kill of Close.
PiDies ==
  /\ piAlive
  /\ piAlive' = FALSE /\ piTurn' = FALSE /\ piIn' = <<>>
  /\ UNCHANGED <<piOut, piLines, piCallVars, piViewVars, piStatVars, piLoopVars>>

-----------------------------------------------------------------------------
(* handleRPCLine, one action per kind of line.                              *)

PiTake(kind) ==
  /\ piReader = "running" /\ piOut # <<>> /\ Head(piOut).kind = kind
  /\ piOut' = Tail(piOut)
  /\ UNCHANGED <<piIn, piAlive, piTurn, piLines, piLoopVars>>

\* The answer to a call that gave up finds no channel.
PiReadResponse ==
  /\ PiTake("response")
  /\ LET line == Head(piOut) IN
       /\ piPending' = piPending \ {line.call}
       /\ piBox' = IF line.call \in piPending THEN [piBox EXCEPT ![line.call] = line.answer] ELSE piBox
  /\ UNCHANGED <<piOp, piPc, piCommands, piViewVars, piStatVars>>

\* A preview that is not final may be throttled; the next one carries it all.
PiReadUpdate ==
  /\ PiTake("message_update")
  /\ piDraft' = piDraft + 1
  /\ piSaid' = IF piDraft = 0 THEN 1 ELSE piSaid + 1
  /\ piShown' \in {piShown, <<piDraft + 1, FALSE>>}
  /\ piRecent' = TRUE
  /\ UNCHANGED <<piCallVars, piAsk, piStatus, piExitCode>>

\* completeStreamPreview
PiCompletePreview ==
  /\ piShown' = IF piDraft = 0 THEN piShown ELSE <<piDraft, TRUE>>
  /\ piDraft' = 0
  /\ UNCHANGED piSaid

PiReadMessageEnd ==
  /\ PiTake("message_end")
  /\ piRecent' = TRUE
  /\ PiCompletePreview
  /\ UNCHANGED <<piCallVars, piAsk, piStatus, piExitCode>>

PiReadAgentEnd ==
  /\ PiTake("agent_end")
  /\ PiCompletePreview
  /\ piStatus' = "idle" /\ piExitCode' = FALSE /\ piRecent' = FALSE
  /\ UNCHANGED <<piCallVars, piAsk>>

PiReadAsk ==
  /\ PiTake("extension_ui_request")
  /\ piAsk' = IF piAsk = "none" THEN "pending" ELSE piAsk
  /\ UNCHANGED <<piCallVars, piDraft, piShown, piSaid, piStatVars>>

\* setError: the first error stays, an exit code is added, every call is answered.
PiSetError(withCode) ==
  /\ piStatus' = "error"
  /\ piExitCode' = (withCode \/ (piStatus = "error" /\ piExitCode))
  /\ piPending' = {}
  /\ piBox' = [c \in AllPiCalls |-> IF c \in piPending THEN "fail" ELSE piBox[c]]
  /\ piAsk' = "gone"
  /\ UNCHANGED <<piProcVars, piOp, piPc, piCommands, piRecent, piDraft, piShown, piSaid, piClosing>>

\* End of the output; Cmd.Wait may have closed the pipe with lines unread.
PiReadFails ==
  /\ piReader = "running"
  /\ (~piAlive /\ piOut = <<>>) \/ piWaiter = "done"
  /\ piReader' = "done"
  /\ PiSetError(FALSE)
  /\ UNCHANGED piWaiter

PiWaitReturns ==
  /\ piWaiter = "running" /\ ~piAlive
  /\ piWaiter' = "done"
  /\ PiSetError(TRUE)
  /\ UNCHANGED piReader

PiCallStep(c) ==
  \/ \E op \in PiOps : PiStart(c, op)
  \/ PiRegister(c) \/ PiWrite(c)
  \/ PiReceive(c) \/ PiTimeout(c)
  \/ PiSucceed(c) \/ PiFail(c)

PiReaderStep ==
  \/ PiReadResponse \/ PiReadUpdate \/ PiReadMessageEnd
  \/ PiReadAgentEnd \/ PiReadAsk \/ PiReadFails

PiProcess == PiHandles \/ PiSpeaks \/ PiRunEnds \/ PiDies

PiNext ==
  \/ \E c \in AllPiCalls : PiCallStep(c)
  \/ PiClose \/ PiRespond \/ PiAskExpires \/ PiWindowPasses
  \/ PiProcess \/ PiReaderStep \/ PiWaitReturns

PiSpec == PiInit /\ [][PiNext]_piVars

-----------------------------------------------------------------------------
(* Properties.                                                              *)

\* The variables keep their types.
PiTypeOK ==
  /\ piStatus \in {"idle", "running", "error"}
  /\ {piExitCode, piRecent, piCommands, piAlive, piTurn, piClosing} \subseteq BOOLEAN
  /\ piPending \subseteq AllPiCalls
  /\ piBox \in [AllPiCalls -> {"empty", "ok", "fail"}]
  /\ piPc \in [AllPiCalls -> {"new", "register", "write", "wait", "answered", "failed", "ok", "error"}]
  /\ piReader \in {"running", "done"} /\ piWaiter \in {"running", "done"}
  /\ piShown \in Nat \X BOOLEAN /\ piDraft \in Nat
  /\ piAsk \in {"none", "pending", "due", "answered", "gone"}

\* A call gets one answer at most, so that no send on its channel blocks the
\* reader or, under w.mu, everybody; and when both goroutines are done no call
\* waits for an answer that cannot come any more.
PiCallsAnswered ==
  /\ \A c \in piPending : piBox[c] = "empty"
  /\ piReader = "done" /\ piWaiter = "done" =>
       \A c \in AllPiCalls : piPc[c] = "wait" => piBox[c] # "empty"

\* When the run is over, everything pi wrote has been handled and no call is
\* under way, a live worker is not reported as running: the queue can go on.
PiSettles ==
  /\ ~piTurn /\ piIn = <<>> /\ piOut = <<>> /\ piAlive
  /\ \A c \in AllPiCalls : piPc[c] \in {"new", "ok", "error"}
  => PiDisplayed # "running"

\* Deltas the throttle held back are in the final preview of their message.
PiPreviewComplete == piDraft = 0 => piShown = <<piSaid, TRUE>>
=============================================================================
