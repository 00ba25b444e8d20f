---------------------------- MODULE ClaudeWorker ----------------------------
(****************************************************************************)
(* A worker of the Claude runtime (claude/worker.go): callers of Prompt and *)
(* Abort, the reader of the `claude` process, the goroutines that wait for  *)
(* the transcript to converge on a finished turn, and the wait for the      *)
(* process.  The process itself is external; a record that breaks the       *)
(* protocol is a garbage line, whatever is wrong with it.                   *)
(****************************************************************************)
EXTENDS Naturals, Sequences

CONSTANTS ClPrompts, ClAborts,  \* calls, each made once
          ClMaxExtra            \* bound: records besides init and the result of a turn

ASSUME ClConstants == ClPrompts \cap ClAborts = {} /\ "nobody" \notin ClPrompts

VARIABLES
  clStatus,             \* w.status.State
  clFatal, clClosing,   \* w.fatal, w.closing; w.ctx is done with the first of them
  clReady,              \* w.initialized
  clInitBox,            \* initResult and initOnce: unset, ok, failed, or taken
  clSeq,                \* w.turnSeq
  clMessage,            \* w.messageID is set
  clConverging,         \* w.converging
  clWriter,             \* holder of w.writeMu
  clPc,                 \* where each call is
  clFirst,              \* prompts that wait for the initialization
  clControls, clBox,    \* w.controls; the channel of each Abort
  clSeen,               \* history: the turn each Abort was accepted for
  clConvergers,         \* turns whose convergence is being awaited
  clReader, clWaiter,   \* consume and waitProcess: running or done
  clIn, clOut,          \* frames written to stdin, ever; records not read
  clRead, clTurn,       \* the process: frames it has read; its turn, 0 for none
  clAlive, clInited, clExtra

clCallVars == <<clPc, clFirst, clBox, clSeen, clWriter>>
clStateVars == <<clStatus, clFatal, clClosing, clReady, clInitBox, clSeq, clMessage, clConverging,
                 clControls, clConvergers>>
clProcVars == <<clIn, clOut, clRead, clTurn, clAlive, clInited, clExtra>>
clVars == <<clCallVars, clStateVars, clProcVars, clReader, clWaiter>>

ClCalls == ClPrompts \cup ClAborts
ClFree == "nobody"

ClInit ==
  /\ clStatus = "idle" /\ clFatal = FALSE /\ clClosing = FALSE
  /\ clReady = FALSE /\ clInitBox = "unset"
  /\ clSeq = 0 /\ clMessage = FALSE /\ clConverging = FALSE
  /\ clWriter = ClFree /\ clPc = [c \in ClCalls |-> "new"] /\ clFirst = {}
  /\ clControls = {} /\ clBox = [a \in ClAborts |-> 0] /\ clSeen = [a \in ClAborts |-> 0]
  /\ clConvergers = {}
  /\ clReader = "running" /\ clWaiter = "running"
  /\ clIn = <<>> /\ clOut = <<>> /\ clRead = 0 /\ clTurn = 0
  /\ clAlive = TRUE /\ clInited = FALSE /\ clExtra = 0

ClGoto(c, label) == clPc' = [clPc EXCEPT ![c] = label]

\* failPendingLocked
ClFailPending ==
  /\ clControls' = {}
  /\ clBox' = [a \in ClAborts |-> IF a \in clControls THEN clBox[a] + 1 ELSE clBox[a]]

\* protocolError: the first one is final, and none counts once Close has begun.
ClProtocolError ==
  IF clFatal \/ clClosing
  THEN UNCHANGED <<clFatal, clStatus, clControls, clBox, clInitBox>>
  ELSE /\ clFatal' = TRUE /\ clStatus' = "error"
       /\ ClFailPending
       /\ clInitBox' = IF clInitBox = "unset" THEN "failed" ELSE clInitBox

ClStopped == clFatal \/ clClosing

-----------------------------------------------------------------------------
(* Prompt.                                                                  *)

\* mutant: frames are written without w.writeMu.
ClStdinUnguarded == TRUE

\* w.writeMu
ClStdinFree == clWriter = ClFree

\* It owns stdin before the turn is published as running.
ClOwnStdin(p) ==
  /\ clPc[p] = "new" /\ ClStdinFree
  /\ clWriter' = p
  /\ ClGoto(p, "owner")
  /\ UNCHANGED <<clFirst, clBox, clSeen, clStateVars, clProcVars, clReader, clWaiter>>

ClReject(p) ==
  /\ clPc[p] = "owner"
  /\ ClStopped \/ clStatus = "running"
  /\ clWriter' = ClFree
  /\ ClGoto(p, "rejected")
  /\ UNCHANGED <<clFirst, clBox, clSeen, clStateVars, clProcVars, clReader, clWaiter>>

ClAccept(p) ==
  /\ clPc[p] = "owner"
  /\ ~ClStopped /\ clStatus # "running"
  /\ clSeq' = clSeq + 1
  /\ clMessage' = FALSE /\ clConverging' = FALSE
  /\ clStatus' = "running"
  /\ clFirst' = IF clReady THEN clFirst ELSE clFirst \cup {p}
  /\ ClGoto(p, "write")
  /\ UNCHANGED <<clWriter, clBox, clSeen, clFatal, clClosing, clReady, clInitBox, clControls,
                 clConvergers, clProcVars, clReader, clWaiter>>

\* The write fails once the process has gone or Close has closed stdin.
ClWriteFrame(p) ==
  /\ clPc[p] = "write"
  /\ clWriter' = ClFree
  /\ IF clAlive /\ ~clClosing
     THEN /\ clIn' = Append(clIn, <<"user", clSeq>>)
          /\ ClGoto(p, IF p \in clFirst THEN "await" ELSE "ok")
          /\ UNCHANGED <<clFatal, clStatus, clControls, clBox, clInitBox>>
     ELSE /\ ClGoto(p, "failed")
          /\ ClProtocolError
          /\ UNCHANGED clIn
  /\ UNCHANGED <<clFirst, clSeen, clClosing, clReady, clSeq, clMessage, clConverging, clConvergers,
                 clOut, clRead, clTurn, clAlive, clInited, clExtra, clReader, clWaiter>>

\* The first prompt waits for the init record, its context, or the worker's end.
ClAwaitInit(p) ==
  /\ clPc[p] = "await"
  /\ \/ /\ clInitBox \in {"ok", "failed"}
        /\ clInitBox' = "taken"
        /\ ClGoto(p, IF clInitBox = "ok" THEN "ok" ELSE "failed")
     \/ ClGoto(p, "failed") /\ UNCHANGED clInitBox
  /\ UNCHANGED <<clFirst, clBox, clSeen, clWriter, clStatus, clFatal, clClosing, clReady, clSeq,
                 clMessage, clConverging, clControls, clConvergers, clProcVars, clReader, clWaiter>>

\* Kill, then protocolError.
ClKill == clAlive' = FALSE /\ clTurn' = 0

ClInitTimeout(p) ==
  /\ clPc[p] = "await"
  /\ ClGoto(p, "failed")
  /\ ClKill /\ ClProtocolError
  /\ UNCHANGED <<clFirst, clSeen, clWriter, clClosing, clReady, clSeq, clMessage, clConverging,
                 clConvergers, clIn, clOut, clRead, clInited, clExtra, clReader, clWaiter>>

-----------------------------------------------------------------------------
(* Abort and Close.                                                         *)

ClAbort(a) ==
  /\ clPc[a] = "new"
  /\ IF clStatus # "running" \/ ClStopped
     THEN ClGoto(a, "ok") /\ UNCHANGED <<clControls, clSeen>>
     ELSE /\ ClGoto(a, "write")
          /\ clControls' = clControls \cup {a}
          /\ clSeen' = [clSeen EXCEPT ![a] = clSeq]
  /\ UNCHANGED <<clFirst, clBox, clWriter, clStatus, clFatal, clClosing, clReady, clInitBox, clSeq,
                 clMessage, clConverging, clConvergers, clProcVars, clReader, clWaiter>>

\* writeLine takes w.writeMu for the frame.
ClWriteInterrupt(a) ==
  /\ clPc[a] = "write" /\ ClStdinFree
  /\ IF clAlive /\ ~clClosing
     THEN /\ clIn' = Append(clIn, <<"interrupt", a>>)
          /\ ClGoto(a, "wait")
          /\ UNCHANGED <<clFatal, clStatus, clControls, clBox, clInitBox>>
     ELSE /\ ClGoto(a, "drop")
          /\ UNCHANGED <<clIn, clFatal, clStatus, clControls, clBox, clInitBox>>
  /\ UNCHANGED <<clFirst, clSeen, clWriter, clClosing, clReady, clSeq, clMessage, clConverging,
                 clConvergers, clOut, clRead, clTurn, clAlive, clInited, clExtra, clReader, clWaiter>>

\* The select: the response, or the end of the worker.
ClInterrupted(a) ==
  /\ clPc[a] = "wait"
  /\ \/ clBox[a] > 0 /\ clBox' = [clBox EXCEPT ![a] = @ - 1]
     \/ ClStopped /\ UNCHANGED clBox
  /\ ClGoto(a, "ok")
  /\ UNCHANGED <<clFirst, clSeen, clWriter, clStateVars, clProcVars, clReader, clWaiter>>

\* removeControl first, then (after a timeout) Kill, then protocolError.
ClInterruptTimeout(a) ==
  /\ clPc[a] = "wait"
  /\ ClGoto(a, "kill")
  /\ clControls' = clControls \ {a}
  /\ UNCHANGED <<clFirst, clBox, clSeen, clWriter, clStatus, clFatal, clClosing, clReady, clInitBox,
                 clSeq, clMessage, clConverging, clConvergers, clProcVars, clReader, clWaiter>>

ClInterruptDropped(a) ==
  /\ clPc[a] = "drop"
  /\ ClGoto(a, "fail")
  /\ clControls' = clControls \ {a}
  /\ UNCHANGED <<clFirst, clBox, clSeen, clWriter, clStatus, clFatal, clClosing, clReady, clInitBox,
                 clSeq, clMessage, clConverging, clConvergers, clProcVars, clReader, clWaiter>>

ClInterruptFails(a) ==
  /\ clPc[a] \in {"kill", "fail"}
  /\ IF clPc[a] = "kill" THEN ClKill ELSE UNCHANGED <<clAlive, clTurn>>
  /\ ClProtocolError
  /\ ClGoto(a, "failed")
  /\ UNCHANGED <<clFirst, clSeen, clWriter, clClosing, clReady, clSeq, clMessage, clConverging,
                 clConvergers, clIn, clOut, clRead, clInited, clExtra, clReader, clWaiter>>

ClClose ==
  /\ ~clClosing
  /\ clClosing' = TRUE
  /\ ClFailPending
  /\ ClKill
  /\ UNCHANGED <<clPc, clFirst, clSeen, clWriter, clStatus, clFatal, clReady, clInitBox, clSeq,
                 clMessage, clConverging, clConvergers, clIn, clOut, clRead, clInited, clExtra,
                 clReader, clWaiter>>

-----------------------------------------------------------------------------
(* handleLine, one action per record; a record out of place is fatal.         *)

ClTake(kind) ==
  /\ clReader = "running" /\ clOut # <<>> /\ Head(clOut)[1] = kind
  /\ clOut' = Tail(clOut)
  /\ UNCHANGED <<clPc, clFirst, clSeen, clWriter, clClosing, clSeq, clIn, clRead, clInited, clExtra,
                 clWaiter>>

\* requireActiveTurn
ClInTurn == clReady /\ clStatus = "running"

\* The record is refused: protocolError, Kill, and the reader stops.
ClRefuse ==
  /\ clReader' = "done"
  /\ ClProtocolError /\ ClKill
  /\ UNCHANGED <<clReady, clMessage, clConverging, clConvergers>>

ClHandleInit ==
  /\ ClTake("init")
  /\ IF clStatus # "running" THEN ClRefuse
     ELSE /\ clReady' = TRUE
          /\ clInitBox' = IF clInitBox = "unset" THEN "ok" ELSE clInitBox
          /\ UNCHANGED <<clReader, clStatus, clFatal, clControls, clBox, clMessage, clConverging,
                         clConvergers, clAlive, clTurn>>

\* A stream event, an assistant record or an error of the turn.
ClHandleMessage ==
  /\ ClTake("message")
  /\ IF ~ClInTurn THEN ClRefuse
     ELSE /\ clMessage' = TRUE
          /\ UNCHANGED <<clReader, clReady, clInitBox, clStatus, clFatal, clControls, clBox,
                         clConverging, clConvergers, clAlive, clTurn>>

\* The first result of a turn starts its convergence; success needs a message.
ClHandleResult ==
  /\ ClTake("result")
  /\ IF ~ClInTurn \/ (~clConverging /\ Head(clOut)[2] = "success" /\ ~clMessage) THEN ClRefuse
     ELSE /\ clConverging' = TRUE
          /\ clConvergers' = IF clConverging THEN clConvergers ELSE clConvergers \cup {clSeq}
          /\ UNCHANGED <<clReader, clReady, clInitBox, clStatus, clFatal, clControls, clBox,
                         clMessage, clAlive, clTurn>>

ClHandleControl ==
  /\ ClTake("control")
  /\ LET a == Head(clOut)[2] IN
       /\ clControls' = clControls \ {a}
       /\ clBox' = IF a \in clControls THEN [clBox EXCEPT ![a] = @ + 1] ELSE clBox
  /\ UNCHANGED <<clReader, clReady, clInitBox, clStatus, clFatal, clMessage, clConverging,
                 clConvergers, clAlive, clTurn>>

ClHandleGarbage == ClTake("garbage") /\ ClRefuse

\* The end of stdout by itself is no error; the wait reports the exit.
ClReaderEnds ==
  /\ clReader = "running" /\ clOut = <<>> /\ ~clAlive
  /\ clReader' = "done"
  /\ UNCHANGED <<clCallVars, clStateVars, clProcVars, clWaiter>>

ClWaitProcess ==
  /\ clWaiter = "running" /\ ~clAlive
  /\ clWaiter' = "done"
  /\ ClProtocolError
  /\ UNCHANGED <<clPc, clFirst, clSeen, clWriter, clClosing, clReady, clSeq, clMessage, clConverging,
                 clConvergers, clProcVars, clReader>>

\* mutant: only the turn is compared.
ClFinishTurnFatal(turn) ==
  clStatus' = IF clClosing \/ turn # clSeq THEN clStatus ELSE "idle"

\* finishTurn
ClFinishTurn(turn) ==
  clStatus' = IF ClStopped \/ turn # clSeq THEN clStatus ELSE "idle"

\* The transcript shows the turn, or the wait for it has timed out.
ClConverge(turn) ==
  /\ turn \in clConvergers
  /\ clConvergers' = clConvergers \ {turn}
  /\ ClFinishTurn(turn)
  /\ UNCHANGED <<clCallVars, clFatal, clClosing, clReady, clInitBox, clSeq, clMessage, clConverging,
                 clControls, clProcVars, clReader, clWaiter>>

-----------------------------------------------------------------------------
(* The process: external.  It reads frames in order.                         *)

ClServes ==
  /\ clAlive /\ clRead < Len(clIn)
  /\ clRead' = clRead + 1
  /\ LET frame == clIn[clRead + 1] IN
       IF frame[1] = "user"
       THEN /\ clTurn' = frame[2]
            /\ clOut' = IF clInited THEN clOut ELSE Append(clOut, <<"init", "">>)
            /\ clInited' = TRUE
       ELSE /\ clOut' = IF clTurn = 0 THEN Append(clOut, <<"control", frame[2]>>)
                        ELSE clOut \o <<<<"control", frame[2]>>, <<"result", "error">>>>
            /\ clTurn' = 0
            /\ UNCHANGED clInited
  /\ UNCHANGED <<clCallVars, clStateVars, clIn, clAlive, clExtra, clReader, clWaiter>>

ClSpeaks ==
  /\ clAlive /\ clTurn # 0 /\ clExtra < ClMaxExtra
  /\ \E kind \in {"message", "garbage", "result"} : clOut' = Append(clOut, <<kind, "error">>)
  /\ clExtra' = clExtra + 1
  /\ UNCHANGED <<clCallVars, clStateVars, clIn, clRead, clTurn, clAlive, clInited, clReader, clWaiter>>

ClTurnEnds ==
  /\ clAlive /\ clTurn # 0
  /\ \E outcome \in {"success", "error"} : clOut' = Append(clOut, <<"result", outcome>>)
  /\ clTurn' = 0
  /\ UNCHANGED <<clCallVars, clStateVars, clIn, clRead, clAlive, clInited, clExtra, clReader, clWaiter>>

ClDies ==
  /\ clAlive
  /\ ClKill
  /\ UNCHANGED <<clCallVars, clStateVars, clIn, clOut, clRead, clInited, clExtra, clReader, clWaiter>>

ClNext ==
  \/ \E p \in ClPrompts :
       ClOwnStdin(p) \/ ClReject(p) \/ ClAccept(p) \/ ClWriteFrame(p) \/ ClAwaitInit(p) \/ ClInitTimeout(p)
  \/ \E a \in ClAborts :
       \/ ClAbort(a) \/ ClWriteInterrupt(a) \/ ClInterrupted(a)
       \/ ClInterruptTimeout(a) \/ ClInterruptDropped(a) \/ ClInterruptFails(a)
  \/ ClClose
  \/ ClHandleInit \/ ClHandleMessage \/ ClHandleResult \/ ClHandleControl \/ ClHandleGarbage
  \/ ClReaderEnds \/ ClWaitProcess
  \/ \E turn \in clConvergers : ClConverge(turn)
  \/ ClServes \/ ClSpeaks \/ ClTurnEnds \/ ClDies

ClSpec == ClInit /\ [][ClNext]_clVars

-----------------------------------------------------------------------------
(* Properties.                                                              *)

\* The variables keep their types.
ClTypeOK ==
  /\ clStatus \in {"idle", "running", "error"}
  /\ {clFatal, clClosing, clReady, clMessage, clConverging, clAlive, clInited} \subseteq BOOLEAN
  /\ clInitBox \in {"unset", "ok", "failed", "taken"}
  /\ clSeq \in Nat /\ clConvergers \subseteq 1..clSeq
  /\ clWriter \in ClPrompts \cup {ClFree}
  /\ clControls \subseteq ClAborts /\ clBox \in [ClAborts -> Nat]
  /\ clPc \in [ClCalls -> {"new", "owner", "rejected", "write", "await", "wait", "drop", "kill",
                           "fail", "ok", "failed"}]
  /\ clReader \in {"running", "done"} /\ clWaiter \in {"running", "done"}

\* An Abort gets one answer at most, so that no send under w.mu blocks; none is
\* left in the map when the worker has ended.
ClCallsAnswered ==
  /\ \A a \in ClAborts : clBox[a] + (IF a \in clControls THEN 1 ELSE 0) <= 1
  /\ ClStopped => clControls = {}

\* When the process has handled every frame and everything it said has been
\* handled, the worker is not running: a new prompt is accepted.
ClSettles ==
  /\ clAlive /\ clTurn = 0 /\ clRead = Len(clIn) /\ clOut = <<>> /\ clConvergers = {}
  /\ ~ClStopped /\ \A c \in ClCalls : clPc[c] \in {"new", "ok", "rejected", "failed"}
  => clStatus # "running"

\* A worker that has failed stays failed, whatever its turn still does.
ClFatalIsFinal == clFatal => clFatal' /\ clStatus' = "error"

\* An interrupt accepted for a turn is written after the turn's own prompt.
ClInterruptAfterPrompt ==
  \A i \in 1..Len(clIn) : clIn[i][1] = "interrupt" =>
    \E j \in 1..(i - 1) : clIn[j] = <<"user", clSeen[clIn[i][2]]>>
=============================================================================
