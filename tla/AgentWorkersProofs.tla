------------------------- MODULE AgentWorkersProofs -------------------------
(****************************************************************************)
(* What holds of AgentWorkers for every number of calls, turns and frames,  *)
(* proved.  First, what a worker shows and whom it interrupts: CxInv ties   *)
(* every read of a Codex thread to the revision it was asked at, ClInv      *)
(* every interrupt to the prompt it is meant for; a step of one runtime     *)
(* leaves the variables of the others alone.                                *)
(*                                                                          *)
(* Then, that the calls of a worker are answered, its turns settle and what *)
(* it shows becomes the newest.                                             *)
(*                                                                          *)
(* For each runtime an invariant says where the answer of each call is, and *)
(* what a worker that shows a run, or something out of date, waits for: a   *)
(* line in a pipe, an event in a channel, an answer.  Once nothing is on    *)
(* its way any more, none of these is left.  For Codex, CcCallInv says in   *)
(* which one place an answer is, CxEndInv that the end of a turn which is   *)
(* or may become active is still to be handled, CxLeadInv that the turn of  *)
(* app-server is the active one once the queue is handled, and CxRunInv     *)
(* what a running worker waits for.                                         *)
(****************************************************************************)
EXTENDS AgentWorkers, TLAPS

-----------------------------------------------------------------------------
(* Codex.                                                                   *)

CxRecord(read) ==
  [kind |-> read.kind, turn |-> read.turn, newer |-> read.newer, local |-> read.local,
   rev |-> read.rev, answer |-> read.answer, state |-> read.state]

\* A thread read back for a completed turn tells what the worker showed at its
\* revision; at that revision no other turn has become active since.
CxReadInv(read) ==
  /\ read = CxRecord(read)
  /\ read.kind = "completed" =>
       /\ cxRev > 0 /\ read.rev \in 0..cxRev
       /\ read.rev = cxRev =>
            read.local = cxThread /\ (cxDoubt \/ cxActive \in {read.newer, NoTurn})

CxInv ==
  /\ cxRev \in Nat /\ cxDoubt \in BOOLEAN
  /\ cxMat.rev \in 0..cxRev
  /\ \A read \in cxReads : CxReadInv(read)

\* The revision stays: nothing that it stands for changes.
CxStill ==
  /\ UNCHANGED <<cxRev, cxThread, cxMat>> /\ cxReads' \subseteq cxReads
  /\ cxDoubt' \in BOOLEAN /\ (cxDoubt => cxDoubt')
  /\ cxDoubt' \/ cxActive' \in {cxActive, NoTurn}

LEMMA StillKeeps == CxInv /\ CxStill => CxInv'
  BY DEF CxInv, CxStill, CxReadInv, CxRecord

\* The revision grows: no read that is under way will count.
CxBump ==
  /\ cxRev' = cxRev + 1 /\ UNCHANGED cxMat /\ cxReads' \subseteq cxReads
  /\ cxDoubt' \in BOOLEAN

LEMMA BumpKeeps == CxInv /\ CxBump => CxInv'
  BY DEF CxInv, CxBump, CxReadInv, CxRecord

LEMMA CxCallSteps == CxInv /\ (\E c \in CxCalls : CxCallStep(c)) => CxInv'
<1> SUFFICES ASSUME CxInv, NEW c \in CxCalls, CxCallStep(c) PROVE CxStill \/ CxBump
  BY StillKeeps, BumpKeeps
<1> USE DEF CxInv, CxStill, CxBump, cxThreadVars, cxProjVars, cxEndVars, svVars, cxStatVars
<1>1. ASSUME NEW op \in CxOps, CxPrompt(c, op) PROVE CxStill
  BY <1>1 DEF CxPrompt
<1>2. CASE CxAbort(c)
  BY <1>2 DEF CxAbort
<1>3. CASE CxSetModel(c)
  BY <1>3 DEF CxSetModel
<1>4. CASE CxSend(c)
  BY <1>4 DEF CxSend
<1>5. CASE CxCallFails(c)
  BY <1>5 DEF CxCallFails
<1>6. CASE CxSucceed(c)
  <2>1. CASE cxOp[c] = "steer"
    BY <1>6, <2>1 DEF CxSucceed
  <2>2. CASE cxOp[c] = "prompt" /\ cxAnswer[c] \notin cxCompleted
    BY <1>6, <2>2 DEF CxSucceed
  <2>3. CASE cxOp[c] # "steer" /\ ~(cxOp[c] = "prompt" /\ cxAnswer[c] \notin cxCompleted)
    BY <1>6, <2>3 DEF CxSucceed
  <2>4. QED
    BY <2>1, <2>2, <2>3
<1>7. CASE CxFailed(c)
  BY <1>7 DEF CxFailed
<1>8. QED
  BY <1>1, <1>2, <1>3, <1>4, <1>5, <1>6, <1>7 DEF CxCallStep

LEMMA CxHandlerSteps == CxInv /\ CxHandler => CxInv'
<1> SUFFICES ASSUME CxInv, CxHandler PROVE CxInv'
  OBVIOUS
<1>0. cxDoubt \in BOOLEAN /\ cxRev \in Nat
  BY DEF CxInv
<1>1. ASSUME NEW kind, CxTake(kind) PROVE cxDoubt' \in BOOLEAN /\ (cxDoubt => cxDoubt') /\ UNCHANGED cxMat
  BY <1>0, <1>1 DEF CxTake
<1>2. CASE CxTurnStarted
  <2>1. CxBump
    BY <1>1, <1>2 DEF CxTurnStarted, CxBump
  <2>2. QED
    BY <2>1, BumpKeeps
<1>3. CASE CxLiveItem \/ CxOutputDelta \/ CxNotice
  <2>1. CxBump
    BY <1>1, <1>3 DEF CxLiveItem, CxOutputDelta, CxNotice, CxApplyLive, CxBump
  <2>2. QED
    BY <2>1, BumpKeeps
<1>4. CASE CxMessageDelta
  <2>1. CxStill
    BY <1>1, <1>4 DEF CxMessageDelta, CxStill, cxThreadVars
  <2>2. QED
    BY <2>1, StillKeeps
<1>5. CASE CxItemCompleted
  <2>1. CxBump
    BY <1>1, <1>5 DEF CxItemCompleted, CxBump
  <2>2. QED
    BY <2>1, BumpKeeps
<1>6. CASE CxTurnCompleted
  <2>1. PICK turn, newer, new :
          /\ new = ReadFor("completed", turn, newer, cxThread, cxRev + 1)
          /\ cxRev' = cxRev + 1 /\ cxThread' = cxThread /\ cxActive' = newer
          /\ cxReads' = cxReads \cup {new}
    BY <1>6 DEF CxTurnCompleted
  <2>2. cxDoubt' \in BOOLEAN /\ UNCHANGED cxMat
    BY <1>1, <1>6 DEF CxTurnCompleted
  <2>3. CxReadInv(new)'
    BY <1>0, <2>1 DEF CxReadInv, CxRecord, ReadFor
  <2>4. ASSUME NEW read \in cxReads PROVE CxReadInv(read)'
    BY <2>1, <2>4 DEF CxInv, CxReadInv, CxRecord
  <2>5. QED
    BY <1>0, <2>1, <2>2, <2>3, <2>4 DEF CxInv
<1>7. CASE CxThreadStatus
  <2>1. CxStill
    BY <1>1, <1>7 DEF CxThreadStatus, CxStill, cxThreadVars
  <2>2. QED
    BY <2>1, StillKeeps
<1>8. CASE CxRenamed
  <2> DEFINE new == ReadFor("refresh", NoTurn, NoTurn, {}, 0)
  <2>1. /\ UNCHANGED <<cxRev, cxThread, cxActive>> /\ cxReads' = cxReads \cup {new}
    BY <1>8 DEF CxRenamed, cxThreadVars
  <2>2. cxDoubt' \in BOOLEAN /\ (cxDoubt => cxDoubt') /\ UNCHANGED cxMat
    BY <1>1, <1>8 DEF CxRenamed
  <2>3. CxReadInv(new)'
    BY DEF CxReadInv, CxRecord, ReadFor
  <2>4. ASSUME NEW read \in cxReads PROVE CxReadInv(read)'
    BY <2>1, <2>2, <2>4 DEF CxInv, CxReadInv, CxRecord
  <2>5. QED
    BY <1>0, <2>1, <2>2, <2>3, <2>4 DEF CxInv
<1>9. CASE CxTerminalError
  <2>1. CxStill
    BY <1>1, <1>9 DEF CxTerminalError, CxStill, cxThreadVars
  <2>2. QED
    BY <2>1, StillKeeps
<1>10. QED
  BY <1>2, <1>3, <1>4, <1>5, <1>6, <1>7, <1>8, <1>9 DEF CxHandler

LEMMA CxReaderSteps == CxInv /\ CxReaders => CxInv'
<1> SUFFICES ASSUME CxInv, CxReaders PROVE CxInv'
  OBVIOUS
<1>1. CASE CxTimerFires
  <2>1. CxStill
    BY <1>1 DEF CxTimerFires, CxStill, CxInv, cxThreadVars
  <2>2. QED
    BY <2>1, StillKeeps
<1>2. ASSUME NEW job \in cxJobs, CxMaterialize(job) PROVE CxInv'
  <2>1. cxMat'.rev \in {cxMat.rev, cxRev}
    BY <1>2 DEF CxMaterialize
  <2>2. UNCHANGED <<cxRev, cxThread, cxReads, cxActive, cxDoubt>>
    BY <1>2 DEF CxMaterialize, cxThreadVars
  <2>3. QED
    BY <2>1, <2>2 DEF CxInv, CxReadInv, CxRecord
<1>3. ASSUME NEW read \in cxReads, CxCompletedRead(read) PROVE CxInv'
  <2>1. CxStill \/ CxBump
    BY <1>3 DEF CxCompletedRead, CxStill, CxBump, CxInv, cxThreadVars
  <2>2. QED
    BY <2>1, StillKeeps, BumpKeeps
<1>4. ASSUME NEW read \in cxReads, CxRefreshRead(read) PROVE CxInv'
  <2>1. CxBump
    BY <1>4 DEF CxRefreshRead, CxBump, CxInv
  <2>2. QED
    BY <2>1, BumpKeeps
<1>5. ASSUME NEW read \in cxReads, CxReadFails(read) PROVE CxInv'
  <2>1. CxStill
    BY <1>5 DEF CxReadFails, CxStill, CxInv, cxThreadVars
  <2>2. QED
    BY <2>1, StillKeeps
<1>6. QED
  BY <1>1, <1>2, <1>3, <1>4, <1>5 DEF CxReaders

LEMMA GoneKeeps ==
  ASSUME CxInv, SvGone, UNCHANGED <<cxThreadVars, cxActive, cxDoubt>>
  PROVE  CxInv'
<1>1. ASSUME NEW read \in cxReads' PROVE CxReadInv(read)'
  <2>1. CASE read \in cxReads
    BY <2>1 DEF CxInv, CxReadInv, CxRecord, SvGone, cxThreadVars
  <2>2. CASE read \notin cxReads
    <3>1. /\ read = ReadFor("completed", NoTurn, NoTurn, {}, 0)
          /\ \E r \in cxReads : r.kind = "completed"
      BY <1>1, <2>2 DEF SvGone
    <3>2. cxRev > 0 /\ cxRev \in Nat
      BY <3>1 DEF CxInv, CxReadInv
    <3>3. QED
      BY <3>1, <3>2 DEF CxReadInv, CxRecord, ReadFor, cxThreadVars
  <2>3. QED
    BY <2>1, <2>2
<1>2. QED
  BY <1>1 DEF CxInv, SvGone, cxThreadVars

LEMMA CxServerSteps == CxInv /\ CxServer => CxInv'
<1> SUFFICES ASSUME CxInv, CxServer PROVE CxInv'
  OBVIOUS
<1>1. CASE (\E request \in svInbox : SvServes(request)) \/ SvTurnEnds \/ SvNotifiesEnd \/ SvSpeaks
  <2>1. CxStill
    BY <1>1 DEF SvServes, SvTurnEnds, SvNotifiesEnd, SvSpeaks, SvKeeps, CxStill, CxInv, cxThreadVars
  <2>2. QED
    BY <2>1, StillKeeps
<1>2. CASE SvDies
  BY <1>2, GoneKeeps DEF SvDies
<1>3. ASSUME NEW read \in cxReads, SvReadsThread(read) PROVE CxInv'
  <2>1. PICK lag : cxReads' = (cxReads \ {read})
                      \cup {[read EXCEPT !.state = "answered", !.answer = lag]}
    BY <1>3 DEF SvReadsThread
  <2>2. UNCHANGED <<cxRev, cxThread, cxMat, cxActive, cxDoubt>>
    BY <1>3 DEF SvReadsThread, SvKeeps, cxThreadVars
  <2>3. CxReadInv([read EXCEPT !.state = "answered", !.answer = lag])'
    <3>1. CxReadInv(read)
      BY DEF CxInv
    <3>2. PICK kind, turn, newer, local, rev, answer, state :
            read = [kind |-> kind, turn |-> turn, newer |-> newer, local |-> local,
                    rev |-> rev, answer |-> answer, state |-> state]
      BY <3>1 DEF CxReadInv, CxRecord
    <3>3. [read EXCEPT !.state = "answered", !.answer = lag] =
            [kind |-> kind, turn |-> turn, newer |-> newer, local |-> local,
             rev |-> rev, answer |-> lag, state |-> "answered"]
      <4>1. PICK asked : asked = [read EXCEPT !.state = "answered"]
        OBVIOUS
      <4>2. asked = [kind |-> kind, turn |-> turn, newer |-> newer, local |-> local,
                     rev |-> rev, answer |-> answer, state |-> "answered"]
        BY <3>2, <4>1, SMT
      <4>3. [read EXCEPT !.state = "answered", !.answer = lag] = [asked EXCEPT !.answer = lag]
        BY <4>1, SMT
      <4>4. [asked EXCEPT !.answer = lag] =
              [kind |-> kind, turn |-> turn, newer |-> newer, local |-> local,
               rev |-> rev, answer |-> lag, state |-> "answered"]
        BY <4>2, SMT
      <4>5. QED
        BY <4>3, <4>4
    <3>4. QED
      BY <2>2, <3>1, <3>2, <3>3 DEF CxReadInv, CxRecord
  <2>4. ASSUME NEW other \in cxReads PROVE CxReadInv(other)'
    BY <2>2, <2>4 DEF CxInv, CxReadInv, CxRecord
  <2>5. QED
    BY <2>1, <2>2, <2>3, <2>4 DEF CxInv
<1>4. QED
  BY <1>1, <1>2, <1>3 DEF CxServer

LEMMA CxKeeps == CxInv /\ [CxNext]_cxVars => CxInv'
<1> SUFFICES ASSUME CxInv, [CxNext]_cxVars PROVE CxInv'
  OBVIOUS
<1>1. CASE CxNotifier \/ CxReportDown
  <2>1. CxStill
    BY <1>1 DEF CxNotifier, CxReportDown, CxStill, CxInv, cxThreadVars, cxProjVars
  <2>2. QED
    BY <2>1, StillKeeps
<1>2. CASE CxClose
  BY <1>2, GoneKeeps DEF CxClose
<1>3. CASE UNCHANGED cxVars
  <2>1. CxStill
    BY <1>3 DEF cxVars, CxStill, CxInv, cxThreadVars, cxProjVars
  <2>2. QED
    BY <2>1, StillKeeps
<1>4. QED
  BY <1>1, <1>2, <1>3, CxCallSteps, CxHandlerSteps, CxReaderSteps, CxServerSteps DEF CxNext

LEMMA CxStarts == CxInit => CxInv
<1> SUFFICES ASSUME CxInit PROVE CxInv
  OBVIOUS
<1>1. cxRev = 0 /\ cxDoubt = FALSE /\ cxMat.rev = 0 /\ cxReads = {}
  BY DEF CxInit
<1>2. cxMat.rev \in 0..cxRev
  BY <1>1
<1>3. cxDoubt \in BOOLEAN
  BY <1>1
<1>4. \A read \in cxReads : CxReadInv(read)
  BY <1>1
<1>5. QED
  BY <1>1, <1>2, <1>3, <1>4 DEF CxInv

LEMMA CxLiveKept ==
  ASSUME CxInv, NEW read \in cxReads, CxCompletedRead(read), ~cxDoubt,
         NEW p \in cxThread, p[1] \in {read.turn, cxActive} \ {NoTurn}
  PROVE  p \in cxThread'
<1>1. read.kind = "completed" /\ cxDoubt = FALSE
  BY DEF CxCompletedRead, CxInv
<1>2. CASE cxClosed \/ cxRev # read.rev
  BY <1>2 DEF CxCompletedRead, cxThreadVars
<1>3. CASE ~cxClosed /\ cxRev = read.rev
  <2>1. read.local = cxThread /\ cxActive \in {read.newer, NoTurn}
    BY <1>1, <1>3 DEF CxInv, CxReadInv
  <2>2. cxThread' = CxPreserved(read.answer, read.local, {read.turn, read.newer})
    BY <1>3 DEF CxCompletedRead
  <2>3. QED
    BY <2>1, <2>2 DEF CxPreserved
<1>4. QED
  BY <1>2, <1>3

\* Only a materialized snapshot moves the projection.
LEMMA OnlyMaterialize == CxNext => UNCHANGED cxMat \/ \E job \in cxJobs : CxMaterialize(job)
<1> SUFFICES ASSUME CxNext, ~(\E job \in cxJobs : CxMaterialize(job)) PROVE UNCHANGED cxMat
  OBVIOUS
<1>1. ASSUME NEW c \in CxCalls, CxCallStep(c) PROVE UNCHANGED cxMat
  BY <1>1 DEF CxCallStep, CxPrompt, CxAbort, CxSetModel, CxSend, CxCallFails, CxSucceed, CxFailed,
       cxProjVars
<1>2. CASE CxNotifier \/ CxClose \/ CxReportDown
  BY <1>2 DEF CxNotifier, CxClose, CxReportDown, SvGone, cxProjVars
<1>3. CASE CxHandler
  BY <1>3 DEF CxHandler, CxTurnStarted, CxLiveItem, CxOutputDelta, CxNotice, CxMessageDelta,
       CxItemCompleted, CxTurnCompleted, CxThreadStatus, CxRenamed, CxTerminalError, CxTake
<1>4. CASE CxReaders
  BY <1>4 DEF CxReaders, CxTimerFires, CxCompletedRead, CxRefreshRead, CxReadFails
<1>5. CASE CxServer
  BY <1>5 DEF CxServer, SvServes, SvTurnEnds, SvNotifiesEnd, SvSpeaks, SvDies, SvReadsThread,
       SvKeeps, SvGone
<1>6. QED
  BY <1>1, <1>2, <1>3, <1>4, <1>5 DEF CxNext

LEMMA CxForward == CxInv /\ [CxNext]_cxVars => CxProjectionForward
<1> SUFFICES ASSUME CxInv, [CxNext]_cxVars PROVE cxMat'.rev >= cxMat.rev
  BY DEF CxProjectionForward
<1>1. cxRev \in Nat /\ cxMat.rev \in 0..cxRev
  BY DEF CxInv
<1>2. CASE UNCHANGED cxMat
  BY <1>1, <1>2
<1>3. ASSUME NEW job \in cxJobs, CxMaterialize(job) PROVE cxMat'.rev >= cxMat.rev
  BY <1>1, <1>3 DEF CxMaterialize
<1>4. CASE UNCHANGED cxVars
  BY <1>2, <1>4 DEF cxVars, cxProjVars
<1>5. QED
  BY <1>2, <1>3, <1>4, OnlyMaterialize

-----------------------------------------------------------------------------
(* Claude.                                                                  *)

ClHasFrame(turn) == \E j \in 1..Len(clIn) : clIn[j] = <<"user", turn>>
ClWriting == \E p \in ClPrompts : clPc[p] = "write"
ClDeaf == ~clAlive \/ clClosing

\* The prompt of a turn is on stdin, about to be written, or will never be.
ClUnderWay(turn) == ClHasFrame(turn) \/ (ClWriting /\ turn = clSeq) \/ ClDeaf

ClPlaces == {"owner", "rejected", "await", "wait", "drop", "kill", "fail", "ok", "failed"}
ClLabels == ClPlaces \cup {"new", "write"}

ClFrames == ({"user"} \X Nat) \cup ({"interrupt"} \X ClAborts)

ClInv ==
  /\ clPc \in [ClCalls -> ClLabels] /\ clSeen \in [ClAborts -> Nat] /\ clSeq \in Nat
  /\ clIn \in Seq(ClFrames)
  /\ {clAlive, clClosing, clFatal} \subseteq BOOLEAN
  /\ \A p \in ClPrompts : clPc[p] \in {"owner", "write"} => clWriter = p
  /\ clStatus = "running" => ClUnderWay(clSeq)
  /\ \A a \in ClAborts : clPc[a] = "write" => ClUnderWay(clSeen[a])
  /\ \A a \in ClAborts : clPc[a] = "new" => \A i \in 1..Len(clIn) : clIn[i] # <<"interrupt", a>>
  /\ ClInterruptAfterPrompt
  /\ clFatal => clStatus = "error"

\* What a step is that leaves frames, turns and, but for one call that does not
\* write, the places of the calls alone.
ClApart ==
  /\ UNCHANGED <<clSeen, clSeq, clIn>>
  /\ {clAlive', clClosing', clFatal'} \subseteq BOOLEAN /\ (ClDeaf => ClDeaf')
  /\ clStatus' = "running" => clStatus = "running"
  /\ clFatal => clFatal'
  /\ clFatal' => clStatus' = "error"

ClMoves(c) ==
  clPc[c] # "write" /\ \E label \in ClPlaces : clPc' = [clPc EXCEPT ![c] = label]

ClHeld == \A p \in ClPrompts : clPc[p] \in {"owner", "write"} => clWriter = p

LEMMA ClQuietKeeps == ClInv /\ ClApart /\ UNCHANGED <<clPc, clWriter>> => ClInv'
  BY DEF ClInv, ClApart, ClUnderWay, ClHasFrame, ClWriting, ClDeaf, ClInterruptAfterPrompt

LEMMA ClMovedKeeps ==
  ASSUME ClInv, ClApart, ClHeld', NEW c \in ClCalls, ClMoves(c) PROVE ClInv'
<1>1. /\ clPc' \in [ClCalls -> ClLabels]
      /\ \A d \in ClCalls : clPc'[d] \in {"new", "write"} => clPc'[d] = clPc[d]
      /\ \A d \in ClCalls : clPc[d] = "write" => clPc'[d] = "write"
  <2>1. PICK label \in ClPlaces : clPc' = [clPc EXCEPT ![c] = label]
    BY DEF ClMoves
  <2>2. label \in ClLabels \ {"new", "write"} /\ clPc[c] # "write"
    BY DEF ClPlaces, ClLabels, ClMoves
  <2>3. QED
    BY <2>1, <2>2 DEF ClInv
<1>2. ClPrompts \subseteq ClCalls /\ ClAborts \subseteq ClCalls
  BY DEF ClCalls
<1>3. ASSUME NEW turn, ClUnderWay(turn) PROVE ClUnderWay(turn)'
  BY <1>1, <1>2, <1>3 DEF ClApart, ClUnderWay, ClHasFrame, ClWriting
<1>4. (clStatus = "running" => ClUnderWay(clSeq))'
  BY <1>3 DEF ClInv, ClApart
<1>5. (\A a \in ClAborts : clPc[a] = "write" => ClUnderWay(clSeen[a]))'
  BY <1>1, <1>2, <1>3 DEF ClInv, ClApart
<1>6. (\A a \in ClAborts : clPc[a] = "new" => \A i \in 1..Len(clIn) : clIn[i] # <<"interrupt", a>>)'
  BY <1>1, <1>2 DEF ClInv, ClApart
<1>7. ClInterruptAfterPrompt'
  BY DEF ClInv, ClApart, ClInterruptAfterPrompt
<1>8. QED
  BY <1>1, <1>4, <1>5, <1>6, <1>7 DEF ClInv, ClApart, ClHeld

\* A protocol error can only make the worker fail.
LEMMA ClErrorEffect ==
  ASSUME ClInv, ClProtocolError
  PROVE  /\ clFatal' \in BOOLEAN /\ (clFatal => clFatal') /\ (clFatal' => clStatus' = "error")
         /\ clStatus' = "running" => clStatus = "running"
  BY DEF ClInv, ClProtocolError

LEMMA ClPromptSteps ==
  ASSUME ClInv, NEW p \in ClPrompts,
         ClOwnStdin(p) \/ ClReject(p) \/ ClAwaitInit(p) \/ ClInitTimeout(p)
  PROVE  ClInv' /\ (clFatal => clFatal')
<1>1. ClHeld /\ p \in ClCalls /\ clPc \in [ClCalls -> ClLabels] /\ ClPrompts \subseteq ClCalls
  BY DEF ClInv, ClHeld, ClCalls
<1>2. ClFree \notin ClPrompts
  BY ClConstants DEF ClFree
<1>3. ClMoves(p) /\ ClHeld'
  <2>1. CASE ClOwnStdin(p)
    <3>1. ClMoves(p)
      BY <2>1 DEF ClOwnStdin, ClGoto, ClMoves, ClPlaces
    <3>2. ClHeld'
      BY <1>1, <1>2, <2>1 DEF ClOwnStdin, ClStdinFree, ClGoto, ClHeld
    <3>3. QED
      BY <3>1, <3>2
  <2>2. CASE ClReject(p)
    <3>1. ClMoves(p)
      BY <2>2 DEF ClReject, ClGoto, ClMoves, ClPlaces
    <3>2. ClHeld'
      BY <1>1, <1>2, <2>2 DEF ClReject, ClGoto, ClHeld
    <3>3. QED
      BY <3>1, <3>2
  <2>3. CASE ClAwaitInit(p)
    <3>1. ClMoves(p)
      BY <2>3 DEF ClAwaitInit, ClGoto, ClMoves, ClPlaces
    <3>2. ClHeld'
      BY <1>1, <1>2, <2>3 DEF ClAwaitInit, ClGoto, ClHeld
    <3>3. QED
      BY <3>1, <3>2
  <2>4. CASE ClInitTimeout(p)
    <3>1. ClMoves(p)
      BY <2>4 DEF ClInitTimeout, ClGoto, ClMoves, ClPlaces
    <3>2. ClHeld'
      BY <1>1, <1>2, <2>4 DEF ClInitTimeout, ClGoto, ClHeld
    <3>3. QED
      BY <3>1, <3>2
  <2>5. QED
    BY <2>1, <2>2, <2>3, <2>4
<1>4. ClApart
  <2>1. CASE ClOwnStdin(p) \/ ClReject(p) \/ ClAwaitInit(p)
    BY <2>1 DEF ClOwnStdin, ClReject, ClAwaitInit, ClInv, ClApart, ClDeaf, clStateVars, clProcVars
  <2>2. CASE ClInitTimeout(p)
    BY <2>2, ClErrorEffect DEF ClInitTimeout, ClKill, ClInv, ClApart, ClDeaf
  <2>3. QED
    BY <2>1, <2>2
<1>5. QED
  BY <1>1, <1>3, <1>4, ClMovedKeeps DEF ClApart

LEMMA ClAbortSteps ==
  ASSUME ClInv, NEW a \in ClAborts,
         ClInterrupted(a) \/ ClInterruptTimeout(a) \/ ClInterruptDropped(a) \/ ClInterruptFails(a)
  PROVE  ClInv' /\ (clFatal => clFatal')
<1>1. /\ ClHeld /\ a \in ClCalls /\ clPc \in [ClCalls -> ClLabels] /\ ClPrompts \subseteq ClCalls
      /\ a \notin ClPrompts
  BY ClConstants DEF ClInv, ClHeld, ClCalls
<1>2. ClMoves(a) /\ ClHeld'
  <2>1. CASE ClInterrupted(a)
    <3>1. ClMoves(a)
      BY <2>1 DEF ClInterrupted, ClGoto, ClMoves, ClPlaces
    <3>2. ClHeld'
      BY <1>1, <2>1 DEF ClInterrupted, ClGoto, ClHeld
    <3>3. QED
      BY <3>1, <3>2
  <2>2. CASE ClInterruptTimeout(a)
    <3>1. ClMoves(a)
      BY <2>2 DEF ClInterruptTimeout, ClGoto, ClMoves, ClPlaces
    <3>2. ClHeld'
      BY <1>1, <2>2 DEF ClInterruptTimeout, ClGoto, ClHeld
    <3>3. QED
      BY <3>1, <3>2
  <2>3. CASE ClInterruptDropped(a)
    <3>1. ClMoves(a)
      BY <2>3 DEF ClInterruptDropped, ClGoto, ClMoves, ClPlaces
    <3>2. ClHeld'
      BY <1>1, <2>3 DEF ClInterruptDropped, ClGoto, ClHeld
    <3>3. QED
      BY <3>1, <3>2
  <2>4. CASE ClInterruptFails(a)
    <3>1. ClMoves(a)
      BY <2>4 DEF ClInterruptFails, ClGoto, ClMoves, ClPlaces
    <3>2. ClHeld'
      BY <1>1, <2>4 DEF ClInterruptFails, ClGoto, ClHeld
    <3>3. QED
      BY <3>1, <3>2
  <2>5. QED
    BY <2>1, <2>2, <2>3, <2>4
<1>3. ClApart
  <2>1. CASE ClInterrupted(a) \/ ClInterruptTimeout(a) \/ ClInterruptDropped(a)
    BY <2>1 DEF ClInterrupted, ClInterruptTimeout, ClInterruptDropped, ClInv, ClApart, ClDeaf,
         clStateVars, clProcVars
  <2>2. CASE ClInterruptFails(a)
    BY <2>2, ClErrorEffect DEF ClInterruptFails, ClKill, ClInv, ClApart, ClDeaf
  <2>3. QED
    BY <2>1, <2>2
<1>4. QED
  BY <1>1, <1>2, <1>3, ClMovedKeeps DEF ClApart

LEMMA ClOtherSteps ==
  ASSUME ClInv,
         \/ ClClose \/ ClReaderEnds \/ ClWaitProcess \/ ClServes \/ ClSpeaks \/ ClTurnEnds \/ ClDies
         \/ ClHandleInit \/ ClHandleMessage \/ ClHandleResult \/ ClHandleControl \/ ClHandleGarbage
         \/ \E turn \in clConvergers : ClConverge(turn)
         \/ UNCHANGED clVars
  PROVE  ClInv' /\ (clFatal => clFatal')
<1>1. UNCHANGED <<clPc, clWriter>>
  BY DEF ClClose, ClReaderEnds, ClWaitProcess, ClServes, ClSpeaks, ClTurnEnds, ClDies,
       ClHandleInit, ClHandleMessage, ClHandleResult, ClHandleControl, ClHandleGarbage, ClTake,
       ClConverge, clVars, clCallVars
<1>2. ClApart
  <2>1. CASE ClClose
    BY <2>1 DEF ClClose, ClKill, ClInv, ClApart, ClDeaf
  <2>2. CASE ClReaderEnds \/ ClServes \/ ClSpeaks \/ ClTurnEnds \/ UNCHANGED clVars
    <3>1. UNCHANGED <<clSeen, clSeq, clIn, clAlive, clClosing, clFatal, clStatus>>
      <4>1. CASE ClReaderEnds \/ UNCHANGED clVars
        BY <4>1 DEF ClReaderEnds, clVars, clCallVars, clStateVars, clProcVars
      <4>2. CASE ClServes
        BY <4>2 DEF ClServes, clCallVars, clStateVars
      <4>3. CASE ClSpeaks
        BY <4>3 DEF ClSpeaks, clCallVars, clStateVars
      <4>4. CASE ClTurnEnds
        BY <4>4 DEF ClTurnEnds, clCallVars, clStateVars
      <4>5. QED
        BY <2>2, <4>1, <4>2, <4>3, <4>4
    <3>2. QED
      BY <3>1 DEF ClInv, ClApart, ClDeaf
  <2>3. CASE ClDies
    BY <2>3 DEF ClDies, ClKill, clCallVars, clStateVars, ClInv, ClApart, ClDeaf
  <2>4. CASE ClWaitProcess
    BY <2>4, ClErrorEffect DEF ClWaitProcess, clProcVars, ClInv, ClApart, ClDeaf
  <2>5. CASE ClHandleControl
    BY <2>5 DEF ClHandleControl, ClTake, ClInv, ClApart, ClDeaf
  <2>6. CASE \E turn \in clConvergers : ClConverge(turn)
    BY <2>6 DEF ClConverge, ClFinishTurn, ClStopped, clCallVars, clProcVars, ClInv, ClApart, ClDeaf
  <2>7. ASSUME NEW kind, ClTake(kind), ClRefuse PROVE ClApart
    BY <2>7, ClErrorEffect DEF ClTake, ClRefuse, ClKill, ClInv, ClApart, ClDeaf
  <2>8. CASE ClHandleInit
    BY <2>7, <2>8 DEF ClHandleInit, ClTake, ClInv, ClApart, ClDeaf
  <2>9. CASE ClHandleMessage
    BY <2>7, <2>9 DEF ClHandleMessage, ClTake, ClInv, ClApart, ClDeaf
  <2>10. CASE ClHandleResult
    BY <2>7, <2>10 DEF ClHandleResult, ClTake, ClInv, ClApart, ClDeaf
  <2>11. CASE ClHandleGarbage
    BY <2>7, <2>11 DEF ClHandleGarbage
  <2>12. QED
    BY <2>1, <2>2, <2>3, <2>4, <2>5, <2>6, <2>8, <2>9, <2>10, <2>11
<1>3. QED
  BY <1>1, <1>2, ClQuietKeeps DEF ClApart

\* The worker that owns stdin is alone in writing.
LEMMA ClAlone ==
  ASSUME ClInv, NEW p \in ClPrompts, clPc[p] \in {"owner", "write"}, NEW q \in ClPrompts,
         clPc[q] = "write"
  PROVE  q = p
  BY DEF ClInv

LEMMA ClAcceptKeeps ==
  ASSUME ClInv, NEW p \in ClPrompts, ClAccept(p) PROVE ClInv' /\ (clFatal => clFatal')
<1>1. /\ clPc[p] = "owner" /\ clPc' = [clPc EXCEPT ![p] = "write"] /\ clSeq' = clSeq + 1
      /\ clStatus' = "running" /\ ~clFatal
      /\ UNCHANGED <<clWriter, clSeen, clFatal, clClosing, clIn, clAlive>>
  BY DEF ClAccept, ClGoto, ClStopped, clProcVars
<1>2. p \in ClCalls /\ ClPrompts \subseteq ClCalls /\ ClAborts \subseteq ClCalls /\ p \notin ClAborts
  BY ClConstants DEF ClCalls
<1>3. /\ clPc' \in [ClCalls -> ClLabels] /\ clPc'[p] = "write"
      /\ \A c \in ClCalls \ {p} : clPc'[c] = clPc[c]
  BY <1>1, <1>2 DEF ClInv, ClLabels
<1>4. ~ClWriting
  BY <1>1, ClAlone DEF ClWriting
<1>5. ASSUME NEW turn, ClUnderWay(turn) PROVE ClUnderWay(turn)'
  BY <1>1, <1>4, <1>5 DEF ClUnderWay, ClHasFrame, ClDeaf
<1>6. ClUnderWay(clSeq)'
  BY <1>3 DEF ClUnderWay, ClWriting
<1>7. (\A q \in ClPrompts : clPc[q] \in {"owner", "write"} => clWriter = q)'
  BY <1>1, <1>2, <1>3 DEF ClInv
<1>8. (\A a \in ClAborts : clPc[a] = "write" => ClUnderWay(clSeen[a]))'
  BY <1>1, <1>2, <1>3, <1>5 DEF ClInv
<1>9. (\A a \in ClAborts : clPc[a] = "new" => \A i \in 1..Len(clIn) : clIn[i] # <<"interrupt", a>>)'
  BY <1>1, <1>2, <1>3 DEF ClInv
<1>10. ClInterruptAfterPrompt'
  BY <1>1 DEF ClInv, ClInterruptAfterPrompt
<1>11. clSeq' \in Nat
  BY <1>1 DEF ClInv
<1>12. QED
  BY <1>1, <1>3, <1>6, <1>7, <1>8, <1>9, <1>10, <1>11 DEF ClInv

\* A frame at the end of stdin leaves the earlier ones where they were.
LEMMA ClAppended ==
  ASSUME ClInv, NEW frame \in ClFrames, clIn' = Append(clIn, frame)
  PROVE  /\ clIn' \in Seq(ClFrames) /\ Len(clIn) \in Nat /\ Len(clIn') = Len(clIn) + 1
         /\ clIn'[Len(clIn')] = frame
         /\ \A i \in 1..Len(clIn) : clIn'[i] = clIn[i]
         /\ \A turn : ClHasFrame(turn) => ClHasFrame(turn)'
<1>1. /\ clIn' \in Seq(ClFrames) /\ Len(clIn) \in Nat /\ Len(clIn') = Len(clIn) + 1
      /\ clIn'[Len(clIn')] = frame
      /\ \A i \in 1..Len(clIn) : clIn'[i] = clIn[i]
  BY DEF ClInv
<1>2. 1..Len(clIn) \subseteq 1..Len(clIn')
  BY <1>1
<1>3. QED
  BY <1>1, <1>2 DEF ClHasFrame

LEMMA ClWriteFrameKeeps ==
  ASSUME ClInv, NEW p \in ClPrompts, ClWriteFrame(p) PROVE ClInv' /\ (clFatal => clFatal')
<1>1. /\ clPc[p] = "write" /\ UNCHANGED <<clSeen, clClosing, clSeq, clAlive>>
      /\ \E label \in {"await", "ok", "failed"} : clPc' = [clPc EXCEPT ![p] = label]
  BY DEF ClWriteFrame, ClGoto
<1>2. p \in ClCalls /\ ClPrompts \subseteq ClCalls /\ ClAborts \subseteq ClCalls /\ p \notin ClAborts
  BY ClConstants DEF ClCalls
<1>3. /\ clPc' \in [ClCalls -> ClLabels] /\ clPc'[p] \notin {"new", "owner", "write"}
      /\ \A c \in ClCalls \ {p} : clPc'[c] = clPc[c]
  BY <1>1, <1>2 DEF ClInv, ClLabels, ClPlaces
<1>4. (\A q \in ClPrompts : clPc[q] \in {"owner", "write"} => clWriter = q)'
  BY <1>1, <1>2, <1>3 DEF ClInv
<1>5. /\ clFatal' \in BOOLEAN /\ (clFatal => clFatal') /\ (clFatal' => clStatus' = "error")
      /\ clStatus' = "running" => clStatus = "running"
  <2>1. CASE ClProtocolError
    BY <2>1, ClErrorEffect
  <2>2. CASE UNCHANGED <<clFatal, clStatus>>
    BY <2>2 DEF ClInv
  <2>3. QED
    BY <2>1, <2>2 DEF ClWriteFrame
<1>6. CASE ClDeaf
  <2>1. clIn' = clIn /\ ClDeaf'
    BY <1>1, <1>6 DEF ClWriteFrame, ClDeaf
  <2>2. \A turn : ClUnderWay(turn)'
    BY <2>1 DEF ClUnderWay
  <2>3. (\A a \in ClAborts : clPc[a] = "new" => \A i \in 1..Len(clIn) : clIn[i] # <<"interrupt", a>>)'
    BY <1>2, <1>3, <2>1 DEF ClInv
  <2>4. ClInterruptAfterPrompt'
    BY <1>1, <2>1 DEF ClInv, ClInterruptAfterPrompt
  <2>5. QED
    BY <1>1, <1>3, <1>4, <1>5, <2>1, <2>2, <2>3, <2>4 DEF ClInv
<1>7. CASE ~ClDeaf
  <2> DEFINE frame == <<"user", clSeq>>
  <2>1. frame \in ClFrames /\ clIn' = Append(clIn, frame)
    BY <1>7 DEF ClWriteFrame, ClDeaf, ClFrames, ClInv
  <2>2. /\ clIn' \in Seq(ClFrames) /\ Len(clIn) \in Nat /\ Len(clIn') = Len(clIn) + 1
        /\ clIn'[Len(clIn')] = frame
        /\ \A i \in 1..Len(clIn) : clIn'[i] = clIn[i]
        /\ \A turn : ClHasFrame(turn) => ClHasFrame(turn)'
    BY <2>1, ClAppended
  <2>3. ClHasFrame(clSeq)'
    BY <1>1, <2>2 DEF ClHasFrame
  <2>4. ASSUME NEW turn, ClUnderWay(turn) PROVE ClUnderWay(turn)'
    BY <1>1, <1>7, <2>2, <2>3, <2>4 DEF ClUnderWay
  <2>5. (clStatus = "running" => ClUnderWay(clSeq))'
    BY <2>3 DEF ClUnderWay
  <2>6. (\A a \in ClAborts : clPc[a] = "write" => ClUnderWay(clSeen[a]))'
    BY <1>1, <1>2, <1>3, <2>4 DEF ClInv
  <2>7. (\A a \in ClAborts : clPc[a] = "new" => \A i \in 1..Len(clIn) : clIn[i] # <<"interrupt", a>>)'
    <3>1. ASSUME NEW a \in ClAborts, clPc'[a] = "new", NEW i \in 1..Len(clIn')
          PROVE  clIn'[i] # <<"interrupt", a>>
      <4>1. clPc[a] = "new"
        BY <1>2, <1>3, <3>1
      <4>2. CASE i = Len(clIn')
        BY <2>2, <4>2
      <4>3. CASE i \in 1..Len(clIn)
        BY <2>2, <4>1, <4>3 DEF ClInv
      <4>4. QED
        BY <2>2, <4>2, <4>3
    <3>2. QED
      BY <3>1
  <2>8. ClInterruptAfterPrompt'
    <3>1. ASSUME NEW i \in 1..Len(clIn'), clIn'[i][1] = "interrupt"
          PROVE  \E j \in 1..(i - 1) : clIn'[j] = <<"user", clSeen'[clIn'[i][2]]>>
      <4>1. i # Len(clIn')
        BY <2>2, <3>1
      <4>2. i \in 1..Len(clIn) /\ clIn'[i] = clIn[i]
        BY <2>2, <4>1
      <4>3. PICK j \in 1..(i - 1) : clIn[j] = <<"user", clSeen[clIn[i][2]]>>
        BY <3>1, <4>2 DEF ClInv, ClInterruptAfterPrompt
      <4>4. clIn'[j] = clIn[j]
        BY <2>2, <4>2
      <4>5. QED
        BY <1>1, <4>2, <4>3, <4>4
    <3>2. QED
      BY <3>1 DEF ClInterruptAfterPrompt
  <2>9. QED
    BY <1>1, <1>3, <1>4, <1>5, <2>2, <2>5, <2>6, <2>7, <2>8 DEF ClInv
<1>8. QED
  BY <1>5, <1>6, <1>7

LEMMA ClAbortKeeps ==
  ASSUME ClInv, NEW a \in ClAborts, ClAbort(a) PROVE ClInv' /\ (clFatal => clFatal')
<1>1. /\ clPc[a] = "new"
      /\ UNCHANGED <<clWriter, clStatus, clFatal, clClosing, clSeq, clIn, clAlive>>
  BY DEF ClAbort, clProcVars
<1>2. a \in ClCalls /\ ClPrompts \subseteq ClCalls /\ ClAborts \subseteq ClCalls /\ a \notin ClPrompts
  BY ClConstants DEF ClCalls
<1>3. /\ clPc' \in [ClCalls -> ClLabels] /\ clPc'[a] \in {"ok", "write"}
      /\ \A c \in ClCalls \ {a} : clPc'[c] = clPc[c]
  BY <1>1, <1>2 DEF ClAbort, ClGoto, ClInv, ClLabels, ClPlaces
<1>4. /\ clSeen' \in [ClAborts -> Nat]
      /\ \A b \in ClAborts \ {a} : clSeen'[b] = clSeen[b]
      /\ clPc'[a] = "write" => clStatus = "running" /\ clSeen'[a] = clSeq
  BY <1>2 DEF ClAbort, ClGoto, ClInv
<1>5. ASSUME NEW turn, ClUnderWay(turn) PROVE ClUnderWay(turn)'
  BY <1>1, <1>2, <1>3, <1>5 DEF ClUnderWay, ClHasFrame, ClWriting, ClDeaf
<1>6. (\A p \in ClPrompts : clPc[p] \in {"owner", "write"} => clWriter = p)'
  BY <1>1, <1>2, <1>3 DEF ClInv
<1>7. (clStatus = "running" => ClUnderWay(clSeq))'
  BY <1>1, <1>5 DEF ClInv
<1>8. (\A b \in ClAborts : clPc[b] = "write" => ClUnderWay(clSeen[b]))'
  <2>1. ASSUME NEW b \in ClAborts, clPc'[b] = "write" PROVE ClUnderWay(clSeen[b])'
    <3>1. CASE b = a
      <4>1. ClUnderWay(clSeq)'
        BY <1>1, <1>4, <1>7, <2>1, <3>1
      <4>2. QED
        BY <1>1, <1>4, <2>1, <3>1, <4>1 DEF ClUnderWay, ClHasFrame
    <3>2. CASE b # a
      <4>1. ClUnderWay(clSeen[b])
        BY <1>2, <1>3, <2>1, <3>2 DEF ClInv
      <4>2. clSeen'[b] = clSeen[b]
        BY <1>4, <3>2
      <4>3. QED
        BY <1>5, <4>1, <4>2
    <3>3. QED
      BY <3>1, <3>2
  <2>2. QED
    BY <2>1
<1>9. (\A b \in ClAborts : clPc[b] = "new" => \A i \in 1..Len(clIn) : clIn[i] # <<"interrupt", b>>)'
  BY <1>1, <1>2, <1>3 DEF ClInv
<1>10. ClInterruptAfterPrompt'
  <2>1. ASSUME NEW i \in 1..Len(clIn), clIn[i][1] = "interrupt"
        PROVE  clSeen'[clIn[i][2]] = clSeen[clIn[i][2]]
    <3>1. PICK b \in ClAborts : clIn[i] = <<"interrupt", b>>
      BY <2>1 DEF ClInv, ClFrames
    <3>2. b # a
      BY <1>1, <3>1 DEF ClInv
    <3>3. QED
      BY <1>4, <3>1, <3>2
  <2>2. QED
    BY <1>1, <2>1 DEF ClInv, ClInterruptAfterPrompt
<1>11. QED
  BY <1>1, <1>3, <1>4, <1>6, <1>7, <1>8, <1>9, <1>10 DEF ClInv

LEMMA ClWriteInterruptKeeps ==
  ASSUME ClInv, NEW a \in ClAborts, ClWriteInterrupt(a) PROVE ClInv' /\ (clFatal => clFatal')
<1>1. /\ clPc[a] = "write" /\ clWriter = ClFree
      /\ UNCHANGED <<clSeen, clWriter, clStatus, clFatal, clClosing, clSeq, clAlive>>
      /\ \E label \in {"wait", "drop"} : clPc' = [clPc EXCEPT ![a] = label]
  BY DEF ClWriteInterrupt, ClStdinFree, ClGoto
<1>2. a \in ClCalls /\ ClPrompts \subseteq ClCalls /\ ClAborts \subseteq ClCalls /\ a \notin ClPrompts
  BY ClConstants DEF ClCalls
<1>3. /\ clPc' \in [ClCalls -> ClLabels] /\ clPc'[a] \notin {"new", "write"}
      /\ \A c \in ClCalls \ {a} : clPc'[c] = clPc[c]
  BY <1>1, <1>2 DEF ClInv, ClLabels, ClPlaces
<1>4. ~ClWriting /\ ~ClWriting'
  <2>1. ~ClWriting
    BY <1>1, ClConstants DEF ClInv, ClWriting, ClFree
  <2>2. QED
    BY <1>2, <1>3, <2>1 DEF ClWriting
<1>5. (\A p \in ClPrompts : clPc[p] \in {"owner", "write"} => clWriter = p)'
  BY <1>1, <1>2, <1>3 DEF ClInv
<1>6. CASE ClDeaf
  <2>1. clIn' = clIn /\ ClDeaf'
    BY <1>1, <1>6 DEF ClWriteInterrupt, ClDeaf
  <2>2. \A turn : ClUnderWay(turn)'
    BY <2>1 DEF ClUnderWay
  <2>3. (\A b \in ClAborts : clPc[b] = "new" => \A i \in 1..Len(clIn) : clIn[i] # <<"interrupt", b>>)'
    BY <1>2, <1>3, <2>1 DEF ClInv
  <2>4. ClInterruptAfterPrompt'
    BY <1>1, <2>1 DEF ClInv, ClInterruptAfterPrompt
  <2>5. QED
    BY <1>1, <1>3, <1>5, <2>1, <2>2, <2>3, <2>4 DEF ClInv
<1>7. CASE ~ClDeaf
  <2> DEFINE frame == <<"interrupt", a>>
  <2>1. frame \in ClFrames /\ clIn' = Append(clIn, frame)
    BY <1>7 DEF ClWriteInterrupt, ClDeaf, ClFrames
  <2>2. /\ clIn' \in Seq(ClFrames) /\ Len(clIn) \in Nat /\ Len(clIn') = Len(clIn) + 1
        /\ clIn'[Len(clIn')] = frame
        /\ \A i \in 1..Len(clIn) : clIn'[i] = clIn[i]
        /\ \A turn : ClHasFrame(turn) => ClHasFrame(turn)'
    BY <2>1, ClAppended
  <2>3. ASSUME NEW turn, ClUnderWay(turn) PROVE ClHasFrame(turn)
    BY <1>4, <1>7, <2>3 DEF ClUnderWay
  <2>4. ASSUME NEW turn, ClUnderWay(turn) PROVE ClUnderWay(turn)'
    BY <2>2, <2>3, <2>4 DEF ClUnderWay
  <2>5. (clStatus = "running" => ClUnderWay(clSeq))'
    BY <1>1, <2>4 DEF ClInv
  <2>6. (\A b \in ClAborts : clPc[b] = "write" => ClUnderWay(clSeen[b]))'
    BY <1>1, <1>2, <1>3, <2>4 DEF ClInv
  <2>7. (\A b \in ClAborts : clPc[b] = "new" => \A i \in 1..Len(clIn) : clIn[i] # <<"interrupt", b>>)'
    <3>1. ASSUME NEW b \in ClAborts, clPc'[b] = "new", NEW i \in 1..Len(clIn')
          PROVE  clIn'[i] # <<"interrupt", b>>
      <4>1. clPc[b] = "new" /\ b # a
        BY <1>2, <1>3, <3>1
      <4>2. CASE i = Len(clIn')
        BY <2>2, <4>1, <4>2
      <4>3. CASE i \in 1..Len(clIn)
        BY <2>2, <4>1, <4>3 DEF ClInv
      <4>4. QED
        BY <2>2, <4>2, <4>3
    <3>2. QED
      BY <3>1
  <2>8. ClInterruptAfterPrompt'
    <3>1. ASSUME NEW i \in 1..Len(clIn'), clIn'[i][1] = "interrupt"
          PROVE  \E j \in 1..(i - 1) : clIn'[j] = <<"user", clSeen'[clIn'[i][2]]>>
      <4>1. CASE i = Len(clIn')
        <5>1. ClHasFrame(clSeen[a])
          BY <1>1, <2>3 DEF ClInv
        <5>2. PICK j \in 1..Len(clIn) : clIn[j] = <<"user", clSeen[a]>>
          BY <5>1 DEF ClHasFrame
        <5>3. clIn'[j] = <<"user", clSeen[a]>> /\ j \in 1..(i - 1)
          BY <2>2, <4>1, <5>2
        <5>4. clIn'[i][2] = a
          BY <2>2, <4>1
        <5>5. QED
          BY <1>1, <5>3, <5>4
      <4>2. CASE i \in 1..Len(clIn)
        <5>1. clIn'[i] = clIn[i]
          BY <2>2, <4>2
        <5>2. PICK j \in 1..(i - 1) : clIn[j] = <<"user", clSeen[clIn[i][2]]>>
          BY <3>1, <4>2, <5>1 DEF ClInv, ClInterruptAfterPrompt
        <5>3. clIn'[j] = clIn[j]
          BY <2>2, <4>2
        <5>4. QED
          BY <1>1, <5>1, <5>2, <5>3
      <4>3. QED
        BY <2>2, <4>1, <4>2
    <3>2. QED
      BY <3>1 DEF ClInterruptAfterPrompt
  <2>9. QED
    BY <1>1, <1>3, <1>5, <2>2, <2>5, <2>6, <2>7, <2>8 DEF ClInv
<1>8. QED
  BY <1>1, <1>6, <1>7

LEMMA ClStarts == ClInit => ClInv
<1> SUFFICES ASSUME ClInit PROVE ClInv
  OBVIOUS
<1>1. clIn = <<>> /\ Len(clIn) = 0 /\ clIn \in Seq(ClFrames)
  BY DEF ClInit
<1>2. 1..Len(clIn) = {}
  BY <1>1
<1>3. ClInterruptAfterPrompt
  BY <1>2 DEF ClInterruptAfterPrompt
<1>4. /\ clPc = [c \in ClCalls |-> "new"] /\ clSeen = [a \in ClAborts |-> 0] /\ clSeq = 0
      /\ clStatus = "idle" /\ clFatal = FALSE /\ clClosing = FALSE /\ clAlive = TRUE
  BY DEF ClInit
<1>5. clPc \in [ClCalls -> ClLabels] /\ \A c \in ClCalls : clPc[c] = "new"
  BY <1>4 DEF ClLabels
<1>6. ClPrompts \subseteq ClCalls /\ ClAborts \subseteq ClCalls
  BY DEF ClCalls
<1>7. QED
  BY <1>1, <1>2, <1>3, <1>4, <1>5, <1>6 DEF ClInv

LEMMA ClKeeps ==
  ASSUME ClInv, [ClNext]_clVars PROVE ClInv' /\ (clFatal => clFatal')
<1>1. ASSUME NEW p \in ClPrompts,
             \/ ClOwnStdin(p) \/ ClReject(p) \/ ClAccept(p) \/ ClWriteFrame(p)
             \/ ClAwaitInit(p) \/ ClInitTimeout(p)
      PROVE  ClInv' /\ (clFatal => clFatal')
  BY <1>1, ClPromptSteps, ClAcceptKeeps, ClWriteFrameKeeps
<1>2. ASSUME NEW a \in ClAborts,
             \/ ClAbort(a) \/ ClWriteInterrupt(a) \/ ClInterrupted(a)
             \/ ClInterruptTimeout(a) \/ ClInterruptDropped(a) \/ ClInterruptFails(a)
      PROVE  ClInv' /\ (clFatal => clFatal')
  BY <1>2, ClAbortSteps, ClAbortKeeps, ClWriteInterruptKeeps
<1>3. QED
  BY <1>1, <1>2, ClOtherSteps DEF ClNext

\* A fatal error is the last word on a worker.
LEMMA ClForward ==
  ASSUME ClInv, [ClNext]_clVars PROVE ClFatalIsFinal
  BY ClKeeps DEF ClInv, ClFatalIsFinal

-----------------------------------------------------------------------------
(* OpenCode: no step leaves the error state, whatever the state it is taken in. *)

LEMMA OcFails == [OcNext]_ocVars => OcErrorIsFinal
<1> SUFFICES ASSUME [OcNext]_ocVars, ocStatus = "error" PROVE ocStatus' = "error"
  BY DEF OcErrorIsFinal
<1>1. ASSUME NEW c \in OcCalls,
             OcStart(c) \/ OcAsk(c) \/ OcPromptTold(c) \/ OcSend(c) \/ OcStateTold(c) \/ OcAbort(c)
      PROVE  ocStatus' = "error"
  BY <1>1 DEF OcStart, OcAsk, OcPromptTold, OcSend, OcStateTold, OcAbort, OcOperationError, OcFinishTurn
<1>2. CASE OcClose \/ OcRefreshReads \/ OcRefreshEnds \/ UNCHANGED ocVars
  BY <1>2 DEF OcClose, OcRefreshReads, OcRefreshEnds, ocVars
<1>3. CASE OcUpdated \/ OcIdle \/ OcUnavailable \/ OcRunEnds
  BY <1>3 DEF OcUpdated, OcIdle, OcUnavailable, OcRunEnds, OcFinishTurn
<1>4. CASE OcServerWrites \/ OcServerTurnEnds \/ OcServerDies
  BY <1>4 DEF OcServerWrites, OcServerTurnEnds, OcServerDies
<1>5. QED
  BY <1>1, <1>2, <1>3, <1>4 DEF OcNext

-----------------------------------------------------------------------------
(* The worker of a session, whichever runtime it has. *)

WorkersInv == CxInv /\ ClInv

LEMMA WorkersStep ==
  [Next]_workerVars => [CxNext]_cxVars /\ [ClNext]_clVars /\ [OcNext]_ocVars
  BY DEF Next, workerVars

\* The invariants of the Codex and the Claude worker hold in every reachable state.
THEOREM WorkersInvariance == Spec => []WorkersInv
<1>1. Init => WorkersInv
  BY CxStarts, ClStarts DEF Init, WorkersInv
<1>2. WorkersInv /\ [Next]_workerVars => WorkersInv'
  BY WorkersStep, CxKeeps, ClKeeps DEF WorkersInv
<1>3. QED
  BY <1>1, <1>2, PTL DEF Spec

\* A worker of Claude or OpenCode that has failed stays in error, and the revision
\* of a Codex projection that is written never decreases, whatever late answers,
\* timers, convergences and refreshes still arrive.
THEOREM WorkersNeverBack == Spec => NeverBack
<1>1. WorkersInv /\ [Next]_workerVars => ClFatalIsFinal /\ OcErrorIsFinal /\ CxProjectionForward
  BY WorkersStep, ClForward, OcFails, CxForward DEF WorkersInv
<1>2. QED
  BY <1>1, WorkersInvariance, PTL DEF Spec, NeverBack

\* The thread that is read back when a turn of Codex has completed, however late,
\* loses no item of that turn or of the active one.
THEOREM LiveTurnKept == Spec => CxLiveTurnKept
<1>1. WorkersInv /\ [Next]_workerVars =>
        [\A read \in cxReads : CxCompletedRead(read) /\ ~cxDoubt =>
           \A p \in cxThread : p[1] \in {read.turn, cxActive} \ {NoTurn} => p \in cxThread']_cxVars
  BY CxLiveKept DEF WorkersInv
<1>2. QED
  BY <1>1, WorkersInvariance, PTL DEF Spec, CxLiveTurnKept

\* The frame of an interrupt follows that of the prompt it was accepted for on the
\* stdin of claude, for every number of callers.
THEOREM InterruptAfterPrompt == Spec => []ClInterruptAfterPrompt
<1>1. WorkersInv => ClInterruptAfterPrompt
  BY DEF WorkersInv, ClInv
<1>2. QED
  BY <1>1, WorkersInvariance, PTL

-----------------------------------------------------------------------------
(* The client of Codex.                                                     *)

CcLines ==
  [kind : {"response"}, call : AllCcCalls, answer : {"result", "malformed"}]
    \cup [kind : {"notification", "request", "garbage"}, call : Nat, answer : {"none"}]

CcShape ==
  /\ CcTypeOK
  /\ ccOut \in Seq(CcLines)
  /\ ccHand # CcNobody => ccHand.call \in AllCcCalls

\* The answer of a call is owed in one place at most, or is in its channel.
CcOwed(c) == c \in ccPending \/ c \in ccDoomed \/ ccHand.call = c

CcCallInv ==
  /\ \A c \in AllCcCalls :
       /\ ccBox[c] <= 1 /\ (CcOwed(c) => ccBox[c] = 0)
       /\ ~(c \in ccPending /\ c \in ccDoomed)
       /\ ccHand.call = c => c \notin ccPending /\ c \notin ccDoomed
       /\ ccPc[c] = "new" => ~CcOwed(c) /\ ccBox[c] = 0
  /\ ccErr => ccPending = {}
  /\ ccReader = "done" => ccErr

LEMMA CcTaken ==
  ASSUME CcShape, NEW kind, CcTake(kind)
  PROVE  /\ Head(ccOut) \in CcLines /\ Head(ccOut).kind = kind /\ ccOut' \in Seq(CcLines)
         /\ kind = "response" => Head(ccOut).call \in AllCcCalls
  BY DEF CcTake, CcShape, CcLines

LEMMA CcShapeKeeps == CcShape /\ [CcNext]_ccVars => CcShape'
<1> SUFFICES ASSUME CcShape, [CcNext]_ccVars PROVE CcShape'
  OBVIOUS
<1> USE DEF ccCallVars, ccReadVars, ccNoteVars, ccProcVars
<1>t. CcTypeOK
  BY DEF CcShape
<1>1. CASE \E c \in AllCcCalls : CcRegister(c) \/ CcWrite(c) \/ CcReturn(c)
  <2>1. PICK c \in AllCcCalls : CcRegister(c) \/ CcWrite(c) \/ CcReturn(c)
    BY <1>1
  <2>2. UNCHANGED <<ccReadVars, ccNoteVars, ccOut, ccOpen, ccAlive, ccNotes, ccWaited>>
    BY <2>1 DEF CcRegister, CcWrite, CcReturn
  <2>3. ccPending' \cup ccDoomed' \cup ccIn' \subseteq AllCcCalls /\ ccErr' \in BOOLEAN
    BY <1>t, <2>1 DEF CcTypeOK, CcRegister, CcWrite, CcReturn, CcFail
  <2>4. ccPc' \in [AllCcCalls -> {"new", "write", "wait", "ok", "failed"}]
    BY <1>t, <2>1 DEF CcTypeOK, CcRegister, CcWrite, CcReturn
  <2>5. ccBox' \in [AllCcCalls -> Nat]
    <3>1. ccBox \in [AllCcCalls -> Nat]
      BY <1>t DEF CcTypeOK
    <3>2. ccBox' = ccBox \/ (ccBox[c] > 0 /\ ccBox' = [ccBox EXCEPT ![c] = @ - 1])
      BY <2>1 DEF CcRegister, CcWrite, CcReturn
    <3>3. QED
      BY <3>1, <3>2
  <2>6. QED
    BY <1>t, <2>2, <2>3, <2>4, <2>5 DEF CcShape, CcTypeOK, CcNobody
<1>2. CASE CcClose \/ CcReaderFails \/ CcEofTimer \/ CcWaitReturns
  <2>1. CcFail /\ UNCHANGED <<ccBox, ccPc, ccHand, ccNoteVars, ccProcVars>>
    BY <1>2 DEF CcClose, CcReaderFails, CcEofTimer, CcWaitReturns
  <2>2. ccReader' \in {ccReader, "done"} /\ ccWaited' \in {ccWaited, TRUE}
    BY <1>2 DEF CcClose, CcReaderFails, CcEofTimer, CcWaitReturns
  <2>3. QED
    BY <1>t, <2>1, <2>2 DEF CcShape, CcTypeOK, CcFail, CcNobody
<1>3. CASE CcSendErrors
  BY <1>t, <1>3 DEF CcShape, CcTypeOK, CcSendErrors, CcNobody
<1>4. CASE CcRouteResponse
  <2>1. CcTake("response")
    BY <1>4 DEF CcRouteResponse
  <2>2. ccOut' \in Seq(CcLines) /\ Head(ccOut).call \in AllCcCalls
    BY <2>1, CcTaken
  <2>3. CcTypeOK'
    BY <1>t, <1>4, <2>1 DEF CcTypeOK, CcRouteResponse, CcTake
  <2>4. ccHand' # CcNobody => ccHand'.call \in AllCcCalls
    BY <1>4, <2>2 DEF CcRouteResponse, CcNobody
  <2>5. QED
    BY <2>2, <2>3, <2>4 DEF CcShape, CcNobody
<1>5. CASE CcAnswer
  <2>1. ccHand # CcNobody /\ ccHand' = CcNobody /\ UNCHANGED <<ccPc, ccNoteVars, ccProcVars, ccWaited>>
    BY <1>5 DEF CcAnswer
  <2>2. ccHand.call \in AllCcCalls
    BY <2>1 DEF CcShape
  <2>3. CASE ccHand.answer = "malformed"
    <3>1. CcFail /\ ccReader' = "done" /\ UNCHANGED ccBox
      BY <1>5, <2>3 DEF CcAnswer
    <3>2. QED
      BY <1>t, <2>1, <3>1 DEF CcShape, CcTypeOK, CcFail, CcNobody
  <2>4. CASE ccHand.answer # "malformed"
    <3>1. ccBox' = [ccBox EXCEPT ![ccHand.call] = @ + 1] /\ UNCHANGED <<ccPending, ccDoomed, ccErr, ccReader>>
      BY <1>5, <2>4 DEF CcAnswer
    <3>2. ccBox' \in [AllCcCalls -> Nat]
      BY <1>t, <2>2, <3>1 DEF CcTypeOK
    <3>3. QED
      BY <1>t, <2>1, <3>1, <3>2 DEF CcShape, CcTypeOK, CcNobody
  <2>5. QED
    BY <2>3, <2>4
<1>6. CASE CcAnswerServer
  <2>1. CcTake("request") /\ UNCHANGED <<ccBox, ccPc, ccHand, ccNoteVars>>
    BY <1>6 DEF CcAnswerServer
  <2>2. ccOut' \in Seq(CcLines)
    BY <2>1, CcTaken
  <2>3. CcTypeOK'
    BY <1>t, <1>6, <2>1 DEF CcTypeOK, CcAnswerServer, CcTake, CcFail
  <2>4. QED
    BY <2>1, <2>2, <2>3 DEF CcShape, CcNobody
<1>7. CASE CcEnqueue
  <2>1. CcTake("notification") /\ UNCHANGED <<ccCallVars, ccHand, ccWake, ccDispatcher>>
    BY <1>7 DEF CcEnqueue
  <2>2. ccOut' \in Seq(CcLines)
    BY <2>1, CcTaken
  <2>3. CcTypeOK'
    BY <1>t, <1>7, <2>1 DEF CcTypeOK, CcEnqueue, CcTake
  <2>4. QED
    BY <2>1, <2>2, <2>3 DEF CcShape, CcNobody
<1>8. CASE CcWakeUp \/ CcEof \/ CcWoken \/ CcDrain \/ CcHandled \/ CcDispatcherStops
  <2>1. UNCHANGED <<ccCallVars, ccHand, ccProcVars, ccWaited>>
    BY <1>8 DEF CcWakeUp, CcEof, CcWoken, CcDrain, CcHandled, CcDispatcherStops
  <2>2. /\ ccReader' \in {ccReader, "reading", "eof"} /\ ccWake' \in {ccWake, TRUE, FALSE}
        /\ ccDispatcher' \in {ccDispatcher, "drain", "select", "handle", "done"}
    BY <1>8 DEF CcWakeUp, CcEof, CcWoken, CcDrain, CcHandled, CcDispatcherStops
  <2>3. QED
    BY <1>t, <2>1, <2>2 DEF CcShape, CcTypeOK, CcNobody
<1>9. CASE CcServes
  <2>1. PICK c \in ccIn, answer \in {"result", "malformed"} :
          ccOut' = Append(ccOut, CcLine("response", c, answer)) /\ ccIn' = ccIn \ {c}
    BY <1>9 DEF CcServes
  <2>2. CcLine("response", c, answer) \in CcLines
    BY <1>t, <2>1 DEF CcLine, CcLines, CcTypeOK
  <2>3. ccOut' \in Seq(CcLines)
    BY <2>1, <2>2 DEF CcShape
  <2>4. UNCHANGED <<ccCallVars, ccReadVars, ccNoteVars, ccOpen, ccAlive, ccNotes, ccWaited>>
    BY <1>9 DEF CcServes
  <2>5. QED
    BY <1>t, <2>1, <2>3, <2>4 DEF CcShape, CcTypeOK, CcNobody
<1>10. CASE CcSpeaks
  <2>1. PICK kind \in {"notification", "request", "garbage"} :
          ccOut' = Append(ccOut, CcLine(kind, ccNotes, "none"))
    BY <1>10 DEF CcSpeaks
  <2>2. CcLine(kind, ccNotes, "none") \in CcLines
    BY <1>t, CcMaxNotesAssumption, <2>1 DEF CcLine, CcLines, CcTypeOK
  <2>3. ccOut' \in Seq(CcLines)
    BY <2>1, <2>2 DEF CcShape
  <2>4. UNCHANGED <<ccCallVars, ccReadVars, ccNoteVars, ccIn, ccOpen, ccAlive, ccWaited>>
        /\ ccNotes' \in 0..CcMaxNotes
    BY <1>t, <1>10, CcMaxNotesAssumption DEF CcSpeaks, CcTypeOK
  <2>5. QED
    BY <1>t, <2>3, <2>4 DEF CcShape, CcTypeOK, CcNobody
<1>11. CASE CcHangsUp
  BY <1>t, <1>11 DEF CcShape, CcTypeOK, CcHangsUp, CcNobody
<1>12. CASE UNCHANGED ccVars
  BY <1>t, <1>12 DEF CcShape, CcTypeOK, ccVars, CcNobody
<1>13. QED
  BY <1>1, <1>2, <1>3, <1>4, <1>5, <1>6, <1>7, <1>8, <1>9, <1>10, <1>11, <1>12 DEF CcNext

LEMMA CcCallKeeps == CcShape /\ CcCallInv /\ [CcNext]_ccVars => CcCallInv'
<1> SUFFICES ASSUME CcShape, CcCallInv, [CcNext]_ccVars PROVE CcCallInv'
  OBVIOUS
<1> USE DEF ccCallVars, ccReadVars, ccNoteVars, ccProcVars
<1>t. /\ ccBox \in [AllCcCalls -> Nat] /\ ccPending \subseteq AllCcCalls /\ ccDoomed \subseteq AllCcCalls
      /\ ccPc \in [AllCcCalls -> {"new", "write", "wait", "ok", "failed"}]
      /\ ccErr \in BOOLEAN
  BY DEF CcShape, CcTypeOK
<1>h. CcNobody.call \notin AllCcCalls /\ (ccHand # CcNobody => ccHand.call \in AllCcCalls)
  BY CcNobodyAssumption DEF CcNobody, AllCcCalls, CcShape
<1>0. CASE UNCHANGED <<ccCallVars, ccHand>> /\ ccReader' # "done"
  BY <1>0 DEF CcCallInv, CcOwed
<1>1. CASE CcFail /\ UNCHANGED <<ccBox, ccPc, ccHand>>
  BY <1>t, <1>1 DEF CcCallInv, CcOwed, CcFail
<1>2. ASSUME NEW c \in AllCcCalls, CcRegister(c) PROVE CcCallInv'
  <2>1. UNCHANGED <<ccDoomed, ccBox, ccErr, ccReader, ccHand>> /\ ccPc[c] = "new"
    BY <1>2 DEF CcRegister
  <2>2. CASE ccErr
    BY <1>t, <1>2, <2>1, <2>2 DEF CcCallInv, CcOwed, CcRegister
  <2>3. CASE ~ccErr
    BY <1>t, <1>2, <2>1, <2>3 DEF CcCallInv, CcOwed, CcRegister
  <2>4. QED
    BY <2>2, <2>3
<1>3. ASSUME NEW c \in AllCcCalls, CcWrite(c) PROVE CcCallInv'
  <2>1. UNCHANGED <<ccBox, ccReader, ccHand>> /\ ccPc[c] = "write"
        /\ \E label \in {"wait", "failed"} : ccPc' = [ccPc EXCEPT ![c] = label]
    BY <1>3 DEF CcWrite
  <2>2. CASE CcFail
    BY <1>t, <2>1, <2>2 DEF CcCallInv, CcOwed, CcFail
  <2>3. CASE ~CcFail
    <3>1. UNCHANGED <<ccDoomed, ccErr>> /\ ccPending' \subseteq ccPending
      BY <1>3, <2>3 DEF CcWrite
    <3>2. QED
      BY <1>t, <2>1, <3>1 DEF CcCallInv, CcOwed
  <2>4. QED
    BY <2>2, <2>3
<1>4. ASSUME NEW c \in AllCcCalls, CcReturn(c) PROVE CcCallInv'
  <2>1. UNCHANGED <<ccDoomed, ccErr, ccReader, ccHand>> /\ ccPc[c] = "wait" /\ ccPending' \subseteq ccPending
        /\ \E label \in {"ok", "failed"} : ccPc' = [ccPc EXCEPT ![c] = label]
    BY <1>4 DEF CcReturn
  <2>2. ccBox' = ccBox \/ (ccBox[c] > 0 /\ ccBox' = [ccBox EXCEPT ![c] = @ - 1])
    BY <1>4 DEF CcReturn
  <2>3. \A d \in AllCcCalls : ccBox'[d] = ccBox[d] \/ (d = c /\ ccBox[d] > 0 /\ ccBox'[d] = ccBox[d] - 1)
    BY <1>t, <2>2
  <2>4. QED
    BY <1>t, <2>1, <2>3 DEF CcCallInv, CcOwed
<1>5. CASE CcSendErrors
  BY <1>t, <1>5 DEF CcCallInv, CcOwed, CcSendErrors
<1>6. CASE CcRouteResponse
  <2>1. CcTake("response") /\ UNCHANGED <<ccDoomed, ccBox, ccPc, ccErr, ccReader>> /\ ccHand = CcNobody
    BY <1>6 DEF CcRouteResponse, CcTake
  <2> DEFINE line == Head(ccOut)
  <2>2. /\ ccPending' = ccPending \ {line.call}
        /\ ccHand' = IF line.call \in ccPending THEN [call |-> line.call, answer |-> line.answer] ELSE CcNobody
    BY <1>6 DEF CcRouteResponse
  <2>3. ccHand'.call = IF line.call \in ccPending THEN line.call ELSE CcNobody.call
    BY <2>2
  <2> HIDE DEF line
  <2>4. QED
    BY <1>t, <1>h, <2>1, <2>2, <2>3 DEF CcCallInv, CcOwed
<1>7. CASE CcAnswer
  <2>1. ccHand # CcNobody /\ ccHand' = CcNobody /\ UNCHANGED ccPc
    BY <1>7 DEF CcAnswer
  <2>2. CASE ccHand.answer = "malformed"
    <3>1. CcFail /\ ccReader' = "done" /\ UNCHANGED ccBox
      BY <1>7, <2>2 DEF CcAnswer
    <3>2. QED
      BY <1>t, <1>h, <2>1, <3>1 DEF CcCallInv, CcOwed, CcFail
  <2>3. CASE ccHand.answer # "malformed"
    <3>1. ccBox' = [ccBox EXCEPT ![ccHand.call] = @ + 1] /\ UNCHANGED <<ccPending, ccDoomed, ccErr, ccReader>>
      BY <1>7, <2>3 DEF CcAnswer
    <3>2. \A c \in AllCcCalls : ccBox'[c] = IF c = ccHand.call THEN ccBox[c] + 1 ELSE ccBox[c]
      BY <1>t, <3>1
    <3>3. QED
      BY <1>t, <1>h, <2>1, <3>1, <3>2 DEF CcCallInv, CcOwed
  <2>4. QED
    BY <2>2, <2>3
<1>8. CASE CcAnswerServer
  <2>1. UNCHANGED <<ccBox, ccPc, ccHand>> /\ ccReader = "reading"
    BY <1>8 DEF CcAnswerServer, CcTake
  <2>2. CcFail \/ UNCHANGED <<ccPending, ccDoomed, ccErr, ccReader>>
    BY <1>8 DEF CcAnswerServer
  <2>3. QED
    BY <1>0, <1>1, <2>1, <2>2
<1>9. CASE CcClose \/ CcReaderFails \/ CcEofTimer \/ CcWaitReturns
  BY <1>1, <1>9 DEF CcClose, CcReaderFails, CcEofTimer, CcWaitReturns
<1>10. CASE CcEnqueue \/ CcWakeUp \/ CcEof
  BY <1>0, <1>10 DEF CcEnqueue, CcWakeUp, CcEof
<1>11. CASE UNCHANGED <<ccCallVars, ccReadVars>>
  BY <1>11 DEF CcCallInv, CcOwed
<1>12. CASE CcWoken \/ CcDrain \/ CcHandled \/ CcDispatcherStops \/ CcServes \/ CcSpeaks \/ CcHangsUp
  BY <1>11, <1>12 DEF CcWoken, CcDrain, CcHandled, CcDispatcherStops, CcServes, CcSpeaks, CcHangsUp
<1>13. CASE UNCHANGED ccVars
  BY <1>11, <1>13 DEF ccVars
<1>14. QED
  BY <1>2, <1>3, <1>4, <1>5, <1>6, <1>7, <1>8, <1>9, <1>10, <1>12, <1>13 DEF CcNext

LEMMA CcNotesKeep == CcNotesDispatched /\ [CcNext]_ccVars => CcNotesDispatched'
<1> SUFFICES ASSUME CcNotesDispatched, [CcNext]_ccVars PROVE CcNotesDispatched'
  OBVIOUS
<1> USE DEF ccCallVars, ccReadVars, ccNoteVars, ccProcVars, CcNotesDispatched
<1>1. ASSUME NEW c \in AllCcCalls, CcRegister(c) \/ CcWrite(c) \/ CcReturn(c) PROVE CcNotesDispatched'
  BY <1>1 DEF CcRegister, CcWrite, CcReturn, CcFail
<1>2. CASE CcClose \/ CcSendErrors \/ CcReaderFails \/ CcEof \/ CcEofTimer \/ CcWaitReturns
  BY <1>2 DEF CcClose, CcSendErrors, CcReaderFails, CcEof, CcEofTimer, CcWaitReturns, CcFail
<1>3. CASE CcRouteResponse \/ CcAnswerServer \/ CcEnqueue \/ CcWakeUp
  BY <1>3 DEF CcRouteResponse, CcAnswerServer, CcEnqueue, CcWakeUp, CcTake, CcFail
<1>4. CASE CcAnswer
  BY <1>4 DEF CcAnswer, CcFail
<1>5. CASE CcWoken \/ CcDrain \/ CcHandled \/ CcDispatcherStops \/ CcServes \/ CcSpeaks \/ CcHangsUp
  BY <1>5 DEF CcWoken, CcDrain, CcHandled, CcDispatcherStops, CcServes, CcSpeaks, CcHangsUp
<1>6. CASE UNCHANGED ccVars
  BY <1>6 DEF ccVars
<1>7. QED
  BY <1>1, <1>2, <1>3, <1>4, <1>5, <1>6 DEF CcNext

CcInv == CcShape /\ CcCallInv /\ CcNotesDispatched

LEMMA CcStarts == CcInit => CcInv
<1> SUFFICES ASSUME CcInit PROVE CcInv
  OBVIOUS
<1>1. CcShape
  <2>1. ccBox \in [AllCcCalls -> Nat] /\ ccPc \in [AllCcCalls -> {"new", "write", "wait", "ok", "failed"}]
    BY DEF CcInit
  <2>2. ccNotes \in 0..CcMaxNotes
    BY CcMaxNotesAssumption DEF CcInit
  <2>3. ccOut \in Seq(CcLines)
    BY DEF CcInit
  <2>4. CcTypeOK
    BY <2>1, <2>2 DEF CcInit, CcTypeOK
  <2>5. QED
    BY <2>3, <2>4 DEF CcInit, CcShape
<1>2. CcCallInv
  BY CcNobodyAssumption DEF CcInit, CcCallInv, CcOwed, CcNobody, AllCcCalls
<1>3. CcNotesDispatched
  BY DEF CcInit, CcNotesDispatched
<1>4. QED
  BY <1>1, <1>2, <1>3 DEF CcInv

LEMMA CcKeeps == CcInv /\ [CcNext]_ccVars => CcInv'
  BY CcShapeKeeps, CcCallKeeps, CcNotesKeep DEF CcInv

LEMMA CcHolds == CcInv => CcTypeOK /\ CcCallsAnswered /\ CcNotesDispatched
<1> SUFFICES ASSUME CcInv PROVE CcTypeOK /\ CcCallsAnswered /\ CcNotesDispatched
  OBVIOUS
<1>1. CcTypeOK /\ CcNotesDispatched
  BY DEF CcInv, CcShape
<1>2. CcCallsAnswered
  BY <1>1 DEF CcInv, CcCallInv, CcOwed, CcCallsAnswered, CcTypeOK
<1>3. QED
  BY <1>1, <1>2

-----------------------------------------------------------------------------
(* The worker of Codex.                                                     *)

CxNoteKinds ==
  {"turn/started", "turn/completed", "error", "item/started", "item/outputDelta", "item/agentMessage/delta",
   "item/completed", "thread/name/updated", "warning", "thread/status/changed"}
CxNotes ==
  [kind : CxNoteKinds, turn : CxTurns \cup {NoTurn, "idle", "active", "systemError"},
   item : (CxTurns \cup {NoTurn}) \X (CxItems \cup {NoItem})]
CxTurnKinds == {"turn/started", "turn/completed", "error"}

\* Notes that tell of a turn name one, notes of the thread's status a status.
CxNoteFits(note) ==
  /\ note.kind \in CxTurnKinds => note.turn \in CxTurns
  /\ note.kind = "thread/status/changed" => note.turn \in {"idle", "active", "systemError"}
CxQueueShape ==
  /\ svQueue \in Seq(CxNotes)
  /\ \A i \in 1..Len(svQueue) : CxNoteFits(svQueue[i])

\* A turn that is owed an end is over, and app-server has used it.
CxTurnShape ==
  /\ svOwed \subseteq svUsed /\ svUsed \subseteq CxTurns
  /\ svTurn \in svUsed \cup {NoTurn} /\ svTurn \notin svOwed

\* A request is that of its call, as long as the call waits; an answer that makes
\* a turn active names one.
CxCallShape ==
  /\ cxPc \in [CxCalls -> {"new", "send", "wait", "answered", "failed", "done"}]
  /\ cxOp \in [CxCalls -> {"none", "prompt", "compact", "steer", "abort"}]
  /\ cxAnswer \in [CxCalls -> CxTurns \cup {NoTurn, "error", "interrupted"}]
  /\ cxSteered \in [CxCalls -> CxTurns \cup {NoTurn}]
  /\ \A c \in CxCalls : cxOp[c] \in {"steer", "abort"} => cxSteered[c] \in CxTurns
  /\ \A r \in svInbox : /\ r.call \in CxCalls /\ cxPc[r.call] \notin {"new", "send"}
                        /\ cxPc[r.call] = "wait" => r.op = cxOp[r.call]
                        /\ r.op \in {"steer", "abort"} => r.turn \in CxTurns
  /\ \A c \in CxCalls : cxPc[c] = "answered" /\ cxOp[c] \in {"steer", "prompt"} => cxAnswer[c] \in CxTurns

CxShape == CxTypeOK /\ CxQueueShape /\ CxTurnShape /\ CxCallShape

LEMMA CxTakenQueue ==
  ASSUME CxQueueShape, svQueue # <<>>, svQueue' = Tail(svQueue)
  PROVE  /\ Len(svQueue) \in Nat /\ Len(svQueue) > 0 /\ Len(svQueue') = Len(svQueue) - 1
         /\ \A i \in 1..Len(svQueue') : svQueue'[i] = svQueue[i + 1]
         /\ Head(svQueue) = svQueue[1] /\ CxQueueShape'
<1>1. svQueue \in Seq(CxNotes) /\ svQueue # <<>>
  BY DEF CxQueueShape
<1>2. /\ Len(svQueue) \in Nat /\ Len(svQueue) > 0 /\ Len(svQueue') = Len(svQueue) - 1
      /\ \A i \in 1..Len(svQueue') : svQueue'[i] = svQueue[i + 1]
      /\ Head(svQueue) = svQueue[1] /\ svQueue' \in Seq(CxNotes)
  BY <1>1
<1>3. \A i \in 1..Len(svQueue') : i + 1 \in 1..Len(svQueue)
  BY <1>2
<1>4. QED
  BY <1>2, <1>3 DEF CxQueueShape

LEMMA CxSentQueue ==
  ASSUME CxQueueShape, NEW note, note \in CxNotes, CxNoteFits(note),
         svQueue' = Append(svQueue, note)
  PROVE  /\ Len(svQueue) \in Nat /\ Len(svQueue') = Len(svQueue) + 1
         /\ \A i \in 1..Len(svQueue) : svQueue'[i] = svQueue[i]
         /\ svQueue'[Len(svQueue) + 1] = note /\ CxQueueShape'
<1>1. svQueue \in Seq(CxNotes)
  BY DEF CxQueueShape
<1>2. /\ Len(svQueue) \in Nat /\ Len(svQueue') = Len(svQueue) + 1
      /\ \A i \in 1..Len(svQueue) : svQueue'[i] = svQueue[i]
      /\ svQueue'[Len(svQueue) + 1] = note /\ svQueue' \in Seq(CxNotes)
  BY <1>1
<1>3. \A i \in 1..Len(svQueue') : i \in 1..Len(svQueue) \/ i = Len(svQueue) + 1
  BY <1>2
<1>4. QED
  BY <1>2, <1>3 DEF CxQueueShape

\* What an action of app-server puts on the queue.
CxPuts(note) ==
  /\ note \in CxNotes /\ CxNoteFits(note)
  /\ svQueue' = Append(svQueue, note)

LEMMA CxNoteTyped ==
  ASSUME NEW kind \in CxNoteKinds, NEW turn \in CxTurns \cup {NoTurn, "idle", "active", "systemError"},
         NEW t \in CxTurns \cup {NoTurn}, NEW i \in CxItems \cup {NoItem}
  PROVE  /\ Note(kind, turn, <<t, i>>) \in CxNotes
         /\ Note(kind, turn, <<t, i>>).kind = kind /\ Note(kind, turn, <<t, i>>).turn = turn
<1>1. <<t, i>> \in (CxTurns \cup {NoTurn}) \X (CxItems \cup {NoItem})
  OBVIOUS
<1>2. QED
  BY <1>1 DEF Note, CxNotes

\* The turn app-server starts next is one it has not used.
LEMMA CxNextTurn ==
  ASSUME CxTurnShape, svUsed # CxTurns
  PROVE  (CHOOSE t \in CxTurns \ svUsed : TRUE) \in CxTurns \ svUsed
BY DEF CxTurnShape

\* What a step does to app-server and its queue: nothing, the handler takes a note,
\* or app-server does one of five things.
CxQuietStep == UNCHANGED <<svQueue, svTurn, svOwed, svUsed>>
CxTakes == svQueue # <<>> /\ svQueue' = Tail(svQueue) /\ UNCHANGED <<svTurn, svOwed, svUsed>>
CxTurnBegins ==
  \E turn \in CxTurns \ svUsed :
    /\ svTurn = NoTurn /\ svTurn' = turn /\ svUsed' = svUsed \cup {turn} /\ svOwed' = svOwed
    /\ CxPuts(Note("turn/started", turn, <<turn, NoItem>>))
CxTurnEnds ==
  /\ svTurn # NoTurn /\ svTurn' = NoTurn /\ svOwed' = svOwed \cup {svTurn}
  /\ UNCHANGED <<svUsed, svQueue>>
CxEndNotified ==
  \E turn \in svOwed :
    /\ svOwed' = svOwed \ {turn} /\ UNCHANGED <<svTurn, svUsed>>
    /\ CxPuts(Note("turn/completed", turn, <<turn, NoItem>>))
CxSaid ==
  \E note \in CxNotes :
    /\ note.kind \notin CxTurnKinds
    /\ note.kind = "thread/status/changed" => note.turn = IF svTurn = NoTurn THEN "idle" ELSE "active"
    /\ CxPuts(note) /\ UNCHANGED <<svTurn, svUsed, svOwed>>
CxErred ==
  \E note \in CxNotes :
    /\ note.kind = "error" \/ (note.kind = "thread/status/changed" /\ note.turn = "systemError")
    /\ svTurn # NoTurn /\ svTurn' = NoTurn /\ CxPuts(note) /\ UNCHANGED <<svUsed, svOwed>>
CxGone == cxDown' = TRUE /\ svTurn' = NoTurn /\ svOwed' = {} /\ svUsed' = svUsed /\ svQueue' \in {svQueue, <<>>}
CxServerEffect == CxQuietStep \/ CxTurnBegins \/ CxTurnEnds \/ CxEndNotified \/ CxSaid \/ CxErred
CxEffect == CxServerEffect \/ (CxHandler /\ CxTakes) \/ CxGone

LEMMA CxServes ==
  ASSUME CxShape, NEW request \in svInbox, SvServes(request)
  PROVE  CxQuietStep \/ CxTurnBegins \/ CxTurnEnds
<1>1. CASE /\ request.op \in {"prompt", "compact"} /\ svTurn = NoTurn
           /\ svUsed # CxTurns
           /\ LET turn == CHOOSE t \in CxTurns \ svUsed : TRUE IN
                /\ svTurn' = turn /\ svUsed' = svUsed \cup {turn}
                /\ svQueue' = Append(svQueue, Note("turn/started", turn, <<turn, NoItem>>))
                /\ SvReply(request.call, turn)
           /\ UNCHANGED svOwed
  <2> DEFINE turn == CHOOSE t \in CxTurns \ svUsed : TRUE
  <2>1. turn \in CxTurns \ svUsed
    BY <1>1, CxNextTurn DEF CxShape
  <2>2. /\ svTurn' = turn /\ svUsed' = svUsed \cup {turn} /\ svOwed' = svOwed /\ svTurn = NoTurn
        /\ svQueue' = Append(svQueue, Note("turn/started", turn, <<turn, NoItem>>))
    BY <1>1
  <2> HIDE DEF turn
  <2>3. CxPuts(Note("turn/started", turn, <<turn, NoItem>>))
    <3>1. turn \in CxTurns
      BY <2>1
    <3>2. /\ Note("turn/started", turn, <<turn, NoItem>>) \in CxNotes
          /\ Note("turn/started", turn, <<turn, NoItem>>).turn = turn
          /\ Note("turn/started", turn, <<turn, NoItem>>).kind = "turn/started"
      BY <3>1, CxNoteTyped DEF CxNoteKinds
    <3>3. QED
      BY <2>2, <3>1, <3>2 DEF CxPuts, CxNoteFits
  <2>4. QED
    BY <2>1, <2>2, <2>3 DEF CxTurnBegins
<1>2. CASE UNCHANGED <<svTurn, svUsed, svOwed, svQueue>>
  BY <1>2 DEF CxQuietStep
<1>3. CASE /\ request.op = "abort" /\ svTurn = request.turn
           /\ svOwed' = svOwed \cup {svTurn}
           /\ svTurn' = NoTurn
           /\ SvReply(request.call, "interrupted")
           /\ UNCHANGED <<svUsed, svQueue>>
  <2>1. svTurn # NoTurn
    BY <1>3, CxTurnsAssumption DEF CxShape, CxCallShape, NoTurn
  <2>2. QED
    BY <1>3, <2>1 DEF CxTurnEnds
<1>4. QED
  BY <1>1, <1>2, <1>3 DEF SvServes

LEMMA CxHandlerTakes == CxHandler => CxTakes /\ ~cxClosed /\ UNCHANGED <<cxCallVars, cxEndVars, svVars, cxTold, cxMat>>
BY DEF CxHandler, CxTurnStarted, CxLiveItem, CxOutputDelta, CxNotice, CxMessageDelta, CxItemCompleted,
  CxTurnCompleted, CxThreadStatus, CxRenamed, CxTerminalError, CxTake, CxTakes, svVars

LEMMA CxSpoken ==
  ASSUME CxShape, SvSpeaks
  PROVE  CxSaid \/ CxErred
<1>1. svTurn \in CxTurns \cup {NoTurn}
  BY DEF CxShape, CxTypeOK
<1>2. UNCHANGED <<svUsed, svOwed>>
  BY DEF SvSpeaks
<1>3. CASE \E item \in CxItems, kind \in {"item/started", "item/outputDelta", "item/agentMessage/delta",
                                          "item/completed"} :
             svTurn # NoTurn /\ svQueue' = Append(svQueue, Note(kind, svTurn, <<svTurn, item>>)) /\ UNCHANGED svTurn
  <2>1. PICK item \in CxItems, kind \in {"item/started", "item/outputDelta", "item/agentMessage/delta",
                                         "item/completed"} :
             svTurn # NoTurn /\ svQueue' = Append(svQueue, Note(kind, svTurn, <<svTurn, item>>)) /\ UNCHANGED svTurn
    BY <1>3
  <2>2. kind \in CxNoteKinds /\ svTurn \in CxTurns /\ item \in CxItems \cup {NoItem}
    BY <1>1, <2>1 DEF CxNoteKinds
  <2> DEFINE note == Note(kind, svTurn, <<svTurn, item>>)
  <2>3. note \in CxNotes /\ note.kind = kind /\ note.turn = svTurn
    BY <2>2, CxNoteTyped
  <2>4. svQueue' = Append(svQueue, note)
    BY <2>1
  <2> HIDE DEF note
  <2>5. CxPuts(note) /\ note.kind \notin CxTurnKinds /\ note.kind # "thread/status/changed"
    BY <2>1, <2>2, <2>3, <2>4 DEF CxPuts, CxNoteFits, CxTurnKinds
  <2>6. QED
    BY <1>2, <2>1, <2>3, <2>5 DEF CxSaid
<1>4. CASE \E kind \in {"thread/name/updated", "warning"} :
             svQueue' = Append(svQueue, Note(kind, NoTurn, <<NoTurn, NoItem>>)) /\ UNCHANGED svTurn
  <2>1. PICK kind \in {"thread/name/updated", "warning"} :
             svQueue' = Append(svQueue, Note(kind, NoTurn, <<NoTurn, NoItem>>)) /\ UNCHANGED svTurn
    BY <1>4
  <2>2. kind \in CxNoteKinds
    BY <2>1 DEF CxNoteKinds
  <2> DEFINE note == Note(kind, NoTurn, <<NoTurn, NoItem>>)
  <2>3. note \in CxNotes /\ note.kind = kind /\ note.turn = NoTurn
    BY <2>2, CxNoteTyped
  <2>4. svQueue' = Append(svQueue, note)
    BY <2>1
  <2> HIDE DEF note
  <2>5. CxPuts(note) /\ note.kind \notin CxTurnKinds /\ note.kind # "thread/status/changed"
    BY <2>1, <2>3, <2>4 DEF CxPuts, CxNoteFits, CxTurnKinds
  <2>6. QED
    BY <1>2, <2>1, <2>3, <2>5 DEF CxSaid
<1>5. CASE svQueue' = Append(svQueue, Note("thread/status/changed", IF svTurn = NoTurn THEN "idle" ELSE "active",
                                           <<NoTurn, NoItem>>))
           /\ UNCHANGED svTurn
  <2> DEFINE type == IF svTurn = NoTurn THEN "idle" ELSE "active"
             note == Note("thread/status/changed", type, <<NoTurn, NoItem>>)
  <2>1. type \in {"idle", "active"}
    OBVIOUS
  <2>2. svQueue' = Append(svQueue, note)
    BY <1>5
  <2>3. type = IF svTurn = NoTurn THEN "idle" ELSE "active"
    OBVIOUS
  <2> HIDE DEF type
  <2>4. note \in CxNotes /\ note.kind = "thread/status/changed" /\ note.turn = type
    BY <2>1, CxNoteTyped DEF CxNoteKinds
  <2> HIDE DEF note
  <2>5. CxPuts(note) /\ note.kind \notin CxTurnKinds
    BY <2>1, <2>2, <2>4 DEF CxPuts, CxNoteFits, CxTurnKinds
  <2>6. QED
    BY <1>2, <1>5, <2>3, <2>4, <2>5 DEF CxSaid
<1>6. CASE /\ svTurn # NoTurn
           /\ svQueue' \in {Append(svQueue, Note("error", svTurn, <<svTurn, NoItem>>)),
                            Append(svQueue, Note("thread/status/changed", "systemError", <<svTurn, NoItem>>))}
           /\ svTurn' = NoTurn
  <2>1. svTurn \in CxTurns
    BY <1>1, <1>6
  <2>2. CASE svQueue' = Append(svQueue, Note("error", svTurn, <<svTurn, NoItem>>))
    <3> DEFINE note == Note("error", svTurn, <<svTurn, NoItem>>)
    <3>1. note \in CxNotes /\ note.kind = "error" /\ note.turn = svTurn
      BY <2>1, CxNoteTyped DEF CxNoteKinds
    <3>2. svQueue' = Append(svQueue, note)
      BY <2>2
    <3> HIDE DEF note
    <3>3. CxPuts(note)
      BY <2>1, <3>1, <3>2 DEF CxPuts, CxNoteFits
    <3>4. QED
      BY <1>2, <1>6, <3>1, <3>3 DEF CxErred
  <2>3. CASE svQueue' = Append(svQueue, Note("thread/status/changed", "systemError", <<svTurn, NoItem>>))
    <3> DEFINE note == Note("thread/status/changed", "systemError", <<svTurn, NoItem>>)
    <3>1. note \in CxNotes /\ note.kind = "thread/status/changed" /\ note.turn = "systemError"
      BY <2>1, CxNoteTyped DEF CxNoteKinds
    <3>2. svQueue' = Append(svQueue, note)
      BY <2>3
    <3> HIDE DEF note
    <3>3. CxPuts(note)
      BY <3>1, <3>2 DEF CxPuts, CxNoteFits, CxTurnKinds
    <3>4. QED
      BY <1>2, <1>6, <3>1, <3>3 DEF CxErred
  <2>4. QED
    BY <1>6, <2>2, <2>3
<1>7. QED
  BY <1>3, <1>4, <1>5, <1>6 DEF SvSpeaks

LEMMA CxStepEffect == CxShape /\ [CxNext]_cxVars => CxEffect
<1> SUFFICES ASSUME CxShape, [CxNext]_cxVars PROVE CxEffect
  OBVIOUS
<1>1. CASE (\E c \in CxCalls : CxCallStep(c)) \/ CxNotifier \/ CxReportDown
  <2>1. CASE CxNotifier \/ CxReportDown
    BY <2>1 DEF CxNotifier, CxReportDown, CxEffect, CxServerEffect, CxQuietStep, svVars
  <2>2. ASSUME NEW c \in CxCalls, CxCallStep(c) PROVE CxQuietStep
    BY <2>2 DEF CxCallStep, CxPrompt, CxAbort, CxSetModel, CxSend, CxCallFails, CxSucceed, CxFailed, CxQuietStep, svVars
  <2>3. QED
    BY <1>1, <2>1, <2>2 DEF CxEffect, CxServerEffect
<1>2. CASE CxClose \/ SvDies
  BY <1>2 DEF CxClose, SvDies, SvGone, CxGone, CxEffect, CxServerEffect
<1>3. CASE CxHandler
  BY <1>3, CxHandlerTakes DEF CxEffect, CxServerEffect
<1>4. CASE CxReaders
  BY <1>4 DEF CxReaders, CxTimerFires, CxMaterialize, CxCompletedRead, CxRefreshRead, CxReadFails, CxQuietStep,
    svVars, CxEffect, CxServerEffect
<1>5. CASE CxServer
  <2>1. CASE \E request \in svInbox : SvServes(request)
    BY <2>1, CxServes DEF CxEffect, CxServerEffect
  <2>2. CASE SvTurnEnds
    BY <2>2 DEF SvTurnEnds, CxTurnEnds, CxEffect, CxServerEffect
  <2>3. CASE SvNotifiesEnd
    <3>1. PICK turn \in svOwed : /\ svOwed' = svOwed \ {turn}
                                 /\ svQueue' = Append(svQueue, Note("turn/completed", turn, <<turn, NoItem>>))
      BY <2>3 DEF SvNotifiesEnd
    <3>2. turn \in CxTurns
      BY <3>1 DEF CxShape, CxTurnShape
    <3>3. /\ Note("turn/completed", turn, <<turn, NoItem>>) \in CxNotes
          /\ Note("turn/completed", turn, <<turn, NoItem>>).turn = turn
          /\ Note("turn/completed", turn, <<turn, NoItem>>).kind = "turn/completed"
      BY <3>2, CxNoteTyped DEF CxNoteKinds
    <3>4. CxPuts(Note("turn/completed", turn, <<turn, NoItem>>))
      BY <3>1, <3>2, <3>3 DEF CxPuts, CxNoteFits
    <3>5. UNCHANGED <<svTurn, svUsed>>
      BY <2>3 DEF SvNotifiesEnd
    <3>6. QED
      BY <3>1, <3>4, <3>5 DEF CxEndNotified, CxEffect, CxServerEffect
  <2>4. CASE SvSpeaks
    BY <2>4, CxSpoken DEF CxEffect, CxServerEffect
  <2>5. CASE SvDies
    BY <1>2, <2>5
  <2>6. CASE \E read \in cxReads : SvReadsThread(read)
    BY <2>6 DEF SvReadsThread, CxQuietStep, svVars, CxEffect, CxServerEffect
  <2>7. QED
    BY <1>5, <2>1, <2>2, <2>3, <2>4, <2>5, <2>6 DEF CxServer
<1>6. CASE UNCHANGED cxVars
  BY <1>6 DEF cxVars, svVars, CxQuietStep, CxEffect, CxServerEffect
<1>7. QED
  BY <1>1, <1>2, <1>3, <1>4, <1>5, <1>6 DEF CxNext

LEMMA CxPutShape ==
  ASSUME CxQueueShape, NEW note, CxPuts(note)
  PROVE  CxQueueShape'
BY CxSentQueue DEF CxPuts, CxNoteFits

LEMMA CxQueueKeeps == CxShape /\ [CxNext]_cxVars => CxQueueShape' /\ CxTurnShape'
<1> SUFFICES ASSUME CxShape, CxEffect PROVE CxQueueShape' /\ CxTurnShape'
  BY CxStepEffect
<1>0. CxQueueShape /\ CxTurnShape
  BY DEF CxShape
<1>1. ASSUME svQueue' = svQueue PROVE CxQueueShape'
  BY <1>0, <1>1 DEF CxQueueShape
<1>2. CASE CxQuietStep
  BY <1>0, <1>1, <1>2 DEF CxQuietStep, CxTurnShape
<1>3. CASE CxTakes
  BY <1>0, <1>3, CxTakenQueue DEF CxTakes, CxTurnShape
<1>4. CASE CxTurnBegins
  BY <1>0, <1>4, CxPutShape DEF CxTurnBegins, CxTurnShape
<1>5. CASE CxTurnEnds
  BY <1>0, <1>1, <1>5, CxTurnsAssumption DEF CxTurnEnds, CxTurnShape, NoTurn
<1>6. CASE CxEndNotified
  BY <1>0, <1>6, CxPutShape DEF CxEndNotified, CxTurnShape
<1>7. CASE CxSaid
  BY <1>0, <1>7, CxPutShape DEF CxSaid, CxTurnShape
<1>8. CASE CxErred
  BY <1>0, <1>8, CxPutShape, CxTurnsAssumption DEF CxErred, CxTurnShape, NoTurn
<1>9. CASE CxGone
  <2>1. CxTurnShape'
    BY <1>0, <1>9 DEF CxGone, CxTurnShape
  <2>2. CASE svQueue' = <<>>
    <3>1. Len(svQueue') = 0 /\ svQueue' \in Seq(CxNotes)
      BY <2>2
    <3>2. QED
      BY <2>1, <3>1 DEF CxQueueShape
  <2>3. QED
    BY <1>1, <1>9, <2>1, <2>2 DEF CxGone
<1>10. QED
  BY <1>2, <1>3, <1>4, <1>5, <1>6, <1>7, <1>8, <1>9 DEF CxEffect, CxServerEffect

LEMMA CxCallKeeps == CxShape /\ [CxNext]_cxVars => CxCallShape'
<1> SUFFICES ASSUME CxShape, [CxNext]_cxVars PROVE CxCallShape'
  OBVIOUS
<1>0. CxCallShape /\ cxActive \in CxTurns \cup {NoTurn} /\ svTurn \in CxTurns \cup {NoTurn}
  BY DEF CxShape, CxTypeOK
<1>1. ASSUME UNCHANGED <<cxPc, cxOp, cxAnswer, cxSteered>>, svInbox' \subseteq svInbox PROVE CxCallShape'
  BY <1>0, <1>1 DEF CxCallShape
<1>2. ASSUME NEW c \in CxCalls, CxReturns(c), svInbox' = svInbox PROVE CxCallShape'
  BY <1>0, <1>2 DEF CxReturns, CxGoto, CxCallShape
<1>3. ASSUME NEW c \in CxCalls, CxCallStep(c) PROVE CxCallShape'
  <2>1. CASE \E op \in CxOps : CxPrompt(c, op)
    <3>1. PICK op \in CxOps \cap {"prompt", "compact"} : CxPrompt(c, op)
      BY <2>1 DEF CxPrompt
    <3>2. /\ cxPc[c] = "new" /\ cxPc' = [cxPc EXCEPT ![c] = "send"] /\ cxAnswer' = cxAnswer /\ svInbox' = svInbox
          /\ cxSteered' = [cxSteered EXCEPT ![c] = cxActive]
          /\ cxOp' = [cxOp EXCEPT ![c] = IF cxActive # NoTurn THEN "steer" ELSE op]
      BY <3>1 DEF CxPrompt, CxGoto, svVars
    <3>3. QED
      BY <1>0, <3>1, <3>2 DEF CxCallShape
  <2>2. CASE CxAbort(c)
    <3>1. CASE cxActive = NoTurn
      BY <1>2, <2>2, <3>1 DEF CxAbort, svVars
    <3>2. CASE cxActive # NoTurn
      <4>1. /\ cxPc[c] = "new" /\ cxPc' = [cxPc EXCEPT ![c] = "send"] /\ cxAnswer' = cxAnswer /\ svInbox' = svInbox
            /\ cxSteered' = [cxSteered EXCEPT ![c] = cxActive] /\ cxOp' = [cxOp EXCEPT ![c] = "abort"]
        BY <2>2, <3>2 DEF CxAbort, CxGoto, svVars
      <4>2. QED
        BY <1>0, <3>2, <4>1 DEF CxCallShape
    <3>3. QED
      BY <3>1, <3>2
  <2>3. CASE CxSetModel(c) \/ CxSucceed(c) \/ CxFailed(c)
    BY <1>2, <2>3 DEF CxSetModel, CxSucceed, CxFailed, svVars
  <2>4. CASE CxSend(c)
    <3>1. cxPc[c] = "send" /\ UNCHANGED <<cxOp, cxAnswer, cxSteered>>
      BY <2>4 DEF CxSend
    <3>2. CASE cxDown
      <4>1. cxPc' = [cxPc EXCEPT ![c] = "failed"] /\ svInbox' = svInbox
        BY <2>4, <3>2 DEF CxSend, CxGoto
      <4>2. QED
        BY <1>0, <3>1, <4>1 DEF CxCallShape
    <3>3. CASE ~cxDown
      <4>1. cxPc' = [cxPc EXCEPT ![c] = "wait"]
            /\ svInbox' = svInbox \cup {[call |-> c, op |-> cxOp[c], turn |-> cxSteered[c]]}
        BY <2>4, <3>3 DEF CxSend, CxGoto, Request
      <4>2. QED
        BY <1>0, <3>1, <4>1 DEF CxCallShape
    <3>4. QED
      BY <3>2, <3>3
  <2>5. CASE CxCallFails(c)
    <3>1. cxPc[c] = "wait" /\ cxPc' = [cxPc EXCEPT ![c] = "failed"]
          /\ UNCHANGED <<cxOp, cxAnswer, cxSteered, svInbox>>
      BY <2>5 DEF CxCallFails, CxGoto, svVars
    <3>2. QED
      BY <1>0, <3>1 DEF CxCallShape
  <2>6. QED
    BY <1>3, <2>1, <2>2, <2>3, <2>4, <2>5 DEF CxCallStep
<1>4. CASE CxNotifier \/ CxReportDown
  BY <1>1, <1>4 DEF CxNotifier, CxReportDown, cxCallVars, svVars
<1>5. CASE CxClose \/ SvDies
  BY <1>1, <1>5 DEF CxClose, SvDies, SvGone, cxCallVars
<1>6. CASE CxHandler
  BY <1>1, <1>6, CxHandlerTakes DEF cxCallVars, svVars
<1>7. CASE CxReaders
  BY <1>1, <1>7 DEF CxReaders, CxTimerFires, CxMaterialize, CxCompletedRead, CxRefreshRead, CxReadFails, cxCallVars,
    svVars
<1>8. ASSUME NEW request \in svInbox, SvServes(request) PROVE CxCallShape'
  <2>1. svInbox' = svInbox \ {request} /\ UNCHANGED <<cxOp, cxSteered>>
    BY <1>8 DEF SvServes, SvKeeps
  <2> DEFINE c == request.call
  <2>2. c \in CxCalls /\ (cxPc[c] = "wait" => request.op = cxOp[c])
        /\ (request.op \in {"steer", "abort"} => request.turn \in CxTurns)
    BY <1>0 DEF CxCallShape
  <2>3. ASSUME NEW answer \in CxTurns \cup {"error", "interrupted"}, SvReply(c, answer),
               request.op \in {"steer", "prompt"} => answer \in CxTurns \cup {"error"}
        PROVE  CxCallShape'
    <3> HIDE DEF c
    <3>1. CASE cxPc[c] # "wait"
      BY <1>1, <2>1, <2>3, <3>1 DEF SvReply
    <3>2. CASE cxPc[c] = "wait"
      <4>1. /\ cxPc' = [cxPc EXCEPT ![c] = IF answer = "error" THEN "failed" ELSE "answered"]
            /\ cxAnswer' = [cxAnswer EXCEPT ![c] = answer]
        BY <2>3, <3>2 DEF SvReply, CxGoto
      <4>2. QED
        BY <1>0, <2>1, <2>2, <2>3, <3>2, <4>1 DEF CxCallShape
    <3>3. QED
      BY <3>1, <3>2
  <2>4. CASE \/ request.op \in {"prompt", "compact"} /\ svUsed # CxTurns
                /\ SvReply(c, CHOOSE t \in CxTurns \ svUsed : TRUE)
             \/ request.op = "steer" /\ svTurn = request.turn /\ SvReply(c, svTurn)
             \/ request.op = "abort" /\ SvReply(c, "interrupted")
             \/ SvReply(c, "error")
    <3>1. CASE request.op \in {"prompt", "compact"} /\ svUsed # CxTurns
               /\ SvReply(c, CHOOSE t \in CxTurns \ svUsed : TRUE)
      <4> DEFINE turn == CHOOSE t \in CxTurns \ svUsed : TRUE
      <4>1. turn \in CxTurns
        BY <3>1, CxNextTurn DEF CxShape
      <4>2. SvReply(c, turn)
        BY <3>1
      <4> HIDE DEF turn, c
      <4>3. QED
        BY <2>3, <4>1, <4>2
    <3>2. CASE request.op = "steer" /\ svTurn = request.turn /\ SvReply(c, svTurn)
      <4>1. svTurn \in CxTurns
        BY <2>2, <3>2
      <4> HIDE DEF c
      <4>2. QED
        BY <2>3, <3>2, <4>1
    <3>3. CASE request.op = "abort" /\ SvReply(c, "interrupted")
      BY <2>3, <3>3
    <3>4. CASE SvReply(c, "error")
      BY <2>3, <3>4
    <3>5. QED
      BY <2>4, <3>1, <3>2, <3>3, <3>4
  <2>5. QED
    BY <1>8, <2>4 DEF SvServes
<1>9. CASE SvTurnEnds \/ SvNotifiesEnd \/ SvSpeaks \/ \E read \in cxReads : SvReadsThread(read)
  BY <1>1, <1>9 DEF SvTurnEnds, SvNotifiesEnd, SvSpeaks, SvReadsThread, SvKeeps, svVars
<1>10. CASE UNCHANGED cxVars
  BY <1>1, <1>10 DEF cxVars, cxCallVars, svVars
<1>11. QED
  BY <1>3, <1>4, <1>5, <1>6, <1>7, <1>8, <1>9, <1>10 DEF CxNext, CxServer

\* The parts of CxTypeOK a step touches apart.
CxStatusTyped ==
  /\ cxStatus \in {"idle", "running", "error"} /\ cxTold \in {"idle", "running", "error"}
  /\ cxChannel \in {"empty", "idle", "running", "error"}
CxActiveTyped == cxActive \in CxTurns \cup {NoTurn} /\ cxCompleted \subseteq CxTurns
CxRevTyped == cxRev \in Nat /\ cxMat.rev \in Nat /\ cxMat.rev <= cxRev
CxFlagsTyped ==
  /\ cxTimer \in BOOLEAN /\ cxDown \in BOOLEAN /\ cxReported \in BOOLEAN /\ cxClosed \in BOOLEAN /\ cxDoubt \in BOOLEAN
CxOpTyped == cxTurnOp \in CxCalls \cup {NoCaller} /\ svSent \in 0..CxMaxNotes

LEMMA CxHeadTyped ==
  ASSUME CxShape, NEW kind \in CxTurnKinds, CxTake(kind)
  PROVE  Head(svQueue).turn \in CxTurns
<1>1. svQueue # <<>> /\ Head(svQueue).kind = kind /\ svQueue' = Tail(svQueue) /\ CxQueueShape
  BY DEF CxTake, CxShape
<1>2. Head(svQueue) = svQueue[1] /\ 1 \in 1..Len(svQueue)
  BY <1>1, CxTakenQueue
<1>3. QED
  BY <1>1, <1>2 DEF CxQueueShape, CxNoteFits

LEMMA CxStatusKeeps == CxShape /\ [CxNext]_cxVars => CxStatusTyped'
<1> SUFFICES ASSUME CxShape, [CxNext]_cxVars PROVE CxStatusTyped'
  OBVIOUS
<1> USE DEF cxStatVars
<1>0. CxStatusTyped
  BY DEF CxShape, CxTypeOK, CxStatusTyped
<1>1. ASSUME UNCHANGED cxStatVars PROVE CxStatusTyped'
  BY <1>0, <1>1 DEF CxStatusTyped
<1>2. ASSUME NEW state \in {"idle", "running", "error"}, CxSetStatus(state), cxTold' = cxTold PROVE CxStatusTyped'
  BY <1>0, <1>2 DEF CxStatusTyped, CxSetStatus
<1>3. ASSUME CxProtocolError, cxTold' = cxTold PROVE CxStatusTyped'
  BY <1>1, <1>2, <1>3 DEF CxProtocolError
<1>4. ASSUME NEW c \in CxCalls, CxCallStep(c) PROVE CxStatusTyped'
  <2>1. CASE \E op \in CxOps : CxPrompt(c, op)
    BY <1>2, <2>1 DEF CxPrompt
  <2>2. CASE CxFailed(c)
    <3>1. cxTold' = cxTold
      BY <2>2 DEF CxFailed
    <3>2. CASE cxDown
      BY <1>3, <2>2, <3>1, <3>2 DEF CxFailed, CxOperationError
    <3>3. CASE ~cxDown
      <4>1. \E state \in {"idle", "running"} : CxSetStatus(state)
        BY <2>2, <3>3 DEF CxFailed, CxOperationError
      <4>2. QED
        BY <1>2, <3>1, <4>1
    <3>4. QED
      BY <3>2, <3>3
  <2>3. CASE CxAbort(c) \/ CxSetModel(c) \/ CxSend(c) \/ CxCallFails(c) \/ CxSucceed(c)
    BY <1>1, <2>3 DEF CxAbort, CxSetModel, CxSend, CxCallFails, CxSucceed
  <2>4. QED
    BY <1>4, <2>1, <2>2, <2>3 DEF CxCallStep
<1>5. CASE CxNotifier
  BY <1>0, <1>5 DEF CxNotifier, CxStatusTyped
<1>6. CASE CxReportDown
  BY <1>3, <1>6 DEF CxReportDown
<1>7. CASE CxClose \/ CxServer
  BY <1>1, <1>7 DEF CxClose, CxServer, SvServes, SvTurnEnds, SvNotifiesEnd, SvSpeaks, SvDies, SvReadsThread, SvKeeps
<1>8. CASE CxReaders
  <2>1. CASE CxTimerFires
    BY <1>1, <2>1 DEF CxTimerFires
  <2>2. ASSUME NEW job \in cxJobs, CxMaterialize(job) PROVE CxStatusTyped'
    BY <1>1, <2>2 DEF CxMaterialize
  <2>3. ASSUME NEW read \in cxReads, CxCompletedRead(read) \/ CxRefreshRead(read) \/ CxReadFails(read)
        PROVE  CxStatusTyped'
    <3>1. CASE CxCompletedRead(read) \/ CxRefreshRead(read)
      BY <1>1, <3>1 DEF CxCompletedRead, CxRefreshRead
    <3>2. CASE CxReadFails(read)
      BY <1>1, <1>3, <3>2 DEF CxReadFails
    <3>3. QED
      BY <2>3, <3>1, <3>2
  <2>4. QED
    BY <1>8, <2>1, <2>2, <2>3 DEF CxReaders
<1>9. CASE CxHandler
  <2>1. cxTold' = cxTold
    BY <1>9, CxHandlerTakes
  <2>2. CASE CxTurnStarted
    BY <1>2, <2>1, <2>2 DEF CxTurnStarted
  <2>3. CASE CxLiveItem \/ CxOutputDelta \/ CxNotice
    BY <1>1, <2>1, <2>3 DEF CxLiveItem, CxOutputDelta, CxNotice, CxApplyLive
  <2>4. CASE CxMessageDelta \/ CxItemCompleted \/ CxRenamed
    BY <1>1, <2>1, <2>4 DEF CxMessageDelta, CxItemCompleted, CxRenamed
  <2>5. CASE CxTurnCompleted
    BY <1>1, <1>2, <2>1, <2>5 DEF CxTurnCompleted
  <2>6. CASE CxThreadStatus
    <3> DEFINE state == CASE Head(svQueue).turn = "active" -> "running" [] Head(svQueue).turn = "idle" -> "idle"
                          [] Head(svQueue).turn = "systemError" -> "error"
    <3>0. CxSetStatus(state)
      BY <2>6 DEF CxThreadStatus
    <3>1. Head(svQueue).turn \in {"active", "idle", "systemError"}
      <4>1. svQueue # <<>> /\ svQueue' = Tail(svQueue) /\ Head(svQueue).kind = "thread/status/changed"
        BY <2>6 DEF CxThreadStatus, CxTake
      <4>2. Head(svQueue) = svQueue[1] /\ 1 \in 1..Len(svQueue)
        BY <4>1, CxTakenQueue DEF CxShape
      <4>3. QED
        BY <4>1, <4>2 DEF CxShape, CxQueueShape, CxNoteFits
    <3>2. state \in {"idle", "running", "error"}
      BY <3>1
    <3> HIDE DEF state
    <3>3. QED
      BY <1>2, <2>1, <3>0, <3>2
  <2>7. CASE CxTerminalError
    BY <1>3, <2>1, <2>7 DEF CxTerminalError
  <2>8. QED
    BY <1>9, <2>2, <2>3, <2>4, <2>5, <2>6, <2>7 DEF CxHandler
<1>10. CASE UNCHANGED cxVars
  BY <1>1, <1>10 DEF cxVars
<1>11. QED
  BY <1>4, <1>5, <1>6, <1>7, <1>8, <1>9, <1>10 DEF CxNext

LEMMA CxActiveKeeps == CxShape /\ [CxNext]_cxVars => CxActiveTyped'
<1> SUFFICES ASSUME CxShape, [CxNext]_cxVars PROVE CxActiveTyped'
  OBVIOUS
<1>0. CxActiveTyped
  BY DEF CxShape, CxTypeOK, CxActiveTyped
<1>1. ASSUME cxActive' \in {cxActive, NoTurn}, cxCompleted' = cxCompleted PROVE CxActiveTyped'
  BY <1>0, <1>1 DEF CxActiveTyped
<1>2. ASSUME NEW c \in CxCalls, CxCallStep(c) PROVE CxActiveTyped'
  <2>1. CASE CxSucceed(c)
    <3>1. cxCompleted' = cxCompleted
      BY <2>1 DEF CxSucceed
    <3>2. cxActive' = cxActive \/ (cxActive' = cxAnswer[c] /\ cxPc[c] = "answered" /\ cxOp[c] \in {"steer", "prompt"})
      BY <2>1 DEF CxSucceed
    <3>3. QED
      BY <1>0, <3>1, <3>2 DEF CxActiveTyped, CxShape, CxCallShape
  <2>2. CASE (\E op \in CxOps : CxPrompt(c, op)) \/ CxAbort(c) \/ CxSetModel(c) \/ CxSend(c) \/ CxCallFails(c)
             \/ CxFailed(c)
    BY <1>1, <2>2 DEF CxPrompt, CxAbort, CxSetModel, CxSend, CxCallFails, CxFailed
  <2>3. QED
    BY <1>2, <2>1, <2>2 DEF CxCallStep
<1>3. CASE CxNotifier \/ CxReportDown \/ CxClose \/ CxServer \/ CxReaders
  BY <1>1, <1>3 DEF CxNotifier, CxReportDown, CxClose, CxServer, SvServes, SvTurnEnds, SvNotifiesEnd, SvSpeaks, SvDies,
    SvReadsThread, SvKeeps, CxReaders, CxTimerFires, CxMaterialize, CxCompletedRead, CxRefreshRead, CxReadFails
<1>4. CASE CxHandler
  <2>1. CASE CxTurnStarted
    BY <1>0, <2>1, CxHeadTyped DEF CxTurnStarted, CxTurnKinds, CxActiveTyped
  <2>2. CASE CxTurnCompleted
    BY <1>0, <2>2, CxHeadTyped DEF CxTurnCompleted, CxTurnKinds, CxActiveTyped
  <2>3. CASE CxLiveItem \/ CxOutputDelta \/ CxNotice \/ CxMessageDelta \/ CxItemCompleted \/ CxRenamed
    BY <1>1, <2>3 DEF CxLiveItem, CxOutputDelta, CxNotice, CxApplyLive, CxMessageDelta, CxItemCompleted, CxRenamed
  <2>4. CASE CxThreadStatus \/ CxTerminalError
    BY <1>1, <2>4 DEF CxThreadStatus, CxTerminalError
  <2>5. QED
    BY <1>4, <2>1, <2>2, <2>3, <2>4 DEF CxHandler
<1>5. CASE UNCHANGED cxVars
  BY <1>1, <1>5 DEF cxVars
<1>6. QED
  BY <1>2, <1>3, <1>4, <1>5 DEF CxNext

LEMMA CxRevKeeps == CxShape /\ [CxNext]_cxVars => CxRevTyped'
<1> SUFFICES ASSUME CxShape, [CxNext]_cxVars PROVE CxRevTyped'
  OBVIOUS
<1> USE DEF cxThreadVars
<1>0. CxRevTyped
  BY DEF CxShape, CxTypeOK, CxRevTyped
<1>1. ASSUME cxRev' \in {cxRev, cxRev + 1}, cxMat' = cxMat PROVE CxRevTyped'
  BY <1>0, <1>1 DEF CxRevTyped
<1>2. ASSUME NEW c \in CxCalls, CxCallStep(c) PROVE CxRevTyped'
  BY <1>1, <1>2 DEF CxCallStep, CxPrompt, CxAbort, CxSetModel, CxSend, CxCallFails, CxSucceed, CxFailed, cxProjVars
<1>3. CASE CxNotifier \/ CxReportDown \/ CxClose \/ CxServer
  BY <1>1, <1>3 DEF CxNotifier, CxReportDown, CxClose, CxServer, SvServes, SvTurnEnds, SvNotifiesEnd, SvSpeaks, SvDies,
    SvReadsThread, SvKeeps, SvGone, cxProjVars
<1>4. CASE CxReaders
  <2>1. CASE CxTimerFires
    BY <1>1, <2>1 DEF CxTimerFires
  <2>2. ASSUME NEW job \in cxJobs, CxMaterialize(job) PROVE CxRevTyped'
    <3>1. cxRev' = cxRev
      BY <2>2 DEF CxMaterialize
    <3>2. CASE cxMat' = cxMat
      BY <1>1, <3>1, <3>2
    <3>3. CASE cxRev = job.rev /\ cxMat' = [rev |-> job.rev, thread |-> job.thread]
      <4>1. cxMat'.rev = cxRev
        BY <3>3
      <4>2. QED
        BY <1>0, <3>1, <4>1 DEF CxRevTyped
    <3>4. QED
      BY <2>2, <3>2, <3>3 DEF CxMaterialize
  <2>3. ASSUME NEW read \in cxReads, CxCompletedRead(read) \/ CxRefreshRead(read) \/ CxReadFails(read)
        PROVE  CxRevTyped'
    BY <1>1, <2>3 DEF CxCompletedRead, CxRefreshRead, CxReadFails
  <2>4. QED
    BY <1>4, <2>1, <2>2, <2>3 DEF CxReaders
<1>5. CASE CxHandler
  <2>1. cxMat' = cxMat
    BY <1>5, CxHandlerTakes
  <2>2. cxRev' \in {cxRev, cxRev + 1}
    BY <1>5 DEF CxHandler, CxTurnStarted, CxLiveItem, CxOutputDelta, CxNotice, CxApplyLive, CxMessageDelta,
      CxItemCompleted, CxTurnCompleted, CxThreadStatus, CxRenamed, CxTerminalError
  <2>3. QED
    BY <1>1, <2>1, <2>2
<1>6. CASE UNCHANGED cxVars
  BY <1>1, <1>6 DEF cxVars, cxProjVars
<1>7. QED
  BY <1>2, <1>3, <1>4, <1>5, <1>6 DEF CxNext

LEMMA CxFlagsKeep == CxShape /\ [CxNext]_cxVars => CxFlagsTyped'
<1> SUFFICES ASSUME CxShape, [CxNext]_cxVars PROVE CxFlagsTyped'
  OBVIOUS
<1> USE DEF cxEndVars, cxProjVars
<1>0. CxFlagsTyped
  BY DEF CxShape, CxTypeOK, CxFlagsTyped
<1>1. ASSUME cxTimer' \in BOOLEAN, cxDoubt' \in BOOLEAN, UNCHANGED cxEndVars PROVE CxFlagsTyped'
  BY <1>0, <1>1 DEF CxFlagsTyped
<1>2. cxTimer \in BOOLEAN /\ cxDoubt \in BOOLEAN
  BY <1>0 DEF CxFlagsTyped
<1>3. ASSUME NEW c \in CxCalls, CxCallStep(c) PROVE CxFlagsTyped'
  <2>1. CASE (\E op \in CxOps : CxPrompt(c, op)) \/ CxAbort(c) \/ CxSetModel(c) \/ CxSend(c) \/ CxCallFails(c)
    BY <1>1, <1>2, <2>1 DEF CxPrompt, CxAbort, CxSetModel, CxSend, CxCallFails
  <2>2. CASE CxSucceed(c)
    <3>1. cxDoubt' \in BOOLEAN
      BY <1>2, <2>2 DEF CxSucceed
    <3>2. QED
      BY <1>1, <1>2, <2>2, <3>1 DEF CxSucceed
  <2>3. CASE CxFailed(c)
    BY <1>1, <1>2, <2>3 DEF CxFailed
  <2>4. QED
    BY <1>3, <2>1, <2>2, <2>3 DEF CxCallStep
<1>4. CASE CxNotifier \/ CxServer \/ CxReportDown \/ CxClose
  <2>1. CASE CxNotifier
    BY <1>1, <1>2, <2>1 DEF CxNotifier
  <2>2. CASE CxReportDown \/ CxClose \/ SvDies
    BY <1>0, <2>2 DEF CxReportDown, CxClose, SvDies, SvGone, CxFlagsTyped
  <2>3. CASE CxServer /\ ~SvDies
    BY <1>1, <1>2, <2>3 DEF CxServer, SvServes, SvTurnEnds, SvNotifiesEnd, SvSpeaks, SvReadsThread, SvKeeps
  <2>4. QED
    BY <1>4, <2>1, <2>2, <2>3
<1>5. CASE CxReaders
  BY <1>1, <1>2, <1>5 DEF CxReaders, CxTimerFires, CxMaterialize, CxCompletedRead, CxRefreshRead, CxReadFails
<1>6. CASE CxHandler
  <2>1. UNCHANGED cxEndVars
    BY <1>6, CxHandlerTakes
  <2>2. cxDoubt' \in BOOLEAN
    BY <1>2, <1>6 DEF CxHandler, CxTurnStarted, CxLiveItem, CxOutputDelta, CxNotice, CxMessageDelta,
      CxItemCompleted, CxTurnCompleted, CxThreadStatus, CxRenamed, CxTerminalError, CxTake
  <2>3. cxTimer' \in {cxTimer, TRUE}
    BY <1>6 DEF CxHandler, CxTurnStarted, CxLiveItem, CxOutputDelta, CxNotice, CxApplyLive, CxMessageDelta,
      CxItemCompleted, CxTurnCompleted, CxThreadStatus, CxRenamed, CxTerminalError
  <2>4. QED
    BY <1>1, <1>2, <2>1, <2>2, <2>3
<1>7. CASE UNCHANGED cxVars
  BY <1>1, <1>2, <1>7 DEF cxVars
<1>8. QED
  BY <1>3, <1>4, <1>5, <1>6, <1>7 DEF CxNext

LEMMA CxOpKeeps == CxShape /\ [CxNext]_cxVars => CxOpTyped'
<1> SUFFICES ASSUME CxShape, [CxNext]_cxVars PROVE CxOpTyped'
  OBVIOUS
<1> USE DEF cxCallVars, svVars
<1>0. CxOpTyped /\ CxMaxNotes \in Nat
  BY CxBoundsAssumption DEF CxShape, CxTypeOK, CxOpTyped
<1>1. ASSUME cxTurnOp' \in CxCalls \cup {NoCaller, cxTurnOp}, svSent' = svSent PROVE CxOpTyped'
  BY <1>0, <1>1 DEF CxOpTyped
<1>2. ASSUME NEW c \in CxCalls, CxCallStep(c) PROVE CxOpTyped'
  <2>1. svSent' = svSent
    BY <1>2 DEF CxCallStep, CxPrompt, CxAbort, CxSetModel, CxSend, CxCallFails, CxSucceed, CxFailed
  <2>2. cxTurnOp' \in CxCalls \cup {NoCaller, cxTurnOp}
    BY <1>2 DEF CxCallStep, CxPrompt, CxAbort, CxSetModel, CxSend, CxCallFails, CxSucceed, CxFailed, CxReturns
  <2>3. QED
    BY <1>1, <2>1, <2>2
<1>3. CASE CxNotifier \/ CxReportDown \/ CxClose \/ CxReaders
  BY <1>1, <1>3 DEF CxNotifier, CxReportDown, CxClose, SvGone, CxReaders, CxTimerFires, CxMaterialize, CxCompletedRead,
    CxRefreshRead, CxReadFails
<1>4. CASE CxHandler
  BY <1>1, <1>4, CxHandlerTakes
<1>5. CASE CxServer
  <2>1. CASE SvSpeaks
    <3>1. svSent < CxMaxNotes /\ svSent' = svSent + 1 /\ cxTurnOp' = cxTurnOp
      BY <2>1 DEF SvSpeaks, SvKeeps
    <3>2. QED
      BY <1>0, <3>1 DEF CxOpTyped
  <2>2. CASE CxServer /\ ~SvSpeaks
    BY <1>1, <2>2 DEF CxServer, SvServes, SvTurnEnds, SvNotifiesEnd, SvDies, SvGone, SvReadsThread, SvKeeps
  <2>3. QED
    BY <1>5, <2>1, <2>2
<1>6. CASE UNCHANGED cxVars
  BY <1>1, <1>6 DEF cxVars
<1>7. QED
  BY <1>2, <1>3, <1>4, <1>5, <1>6 DEF CxNext

LEMMA CxShapeKeeps == CxShape /\ [CxNext]_cxVars => CxShape'
<1> SUFFICES ASSUME CxShape, [CxNext]_cxVars PROVE CxShape'
  OBVIOUS
<1>1. CxQueueShape' /\ CxTurnShape' /\ CxCallShape'
  BY CxQueueKeeps, CxCallKeeps
<1>2. CxStatusTyped' /\ CxActiveTyped' /\ CxRevTyped' /\ CxFlagsTyped' /\ CxOpTyped'
  BY CxStatusKeeps, CxActiveKeeps, CxRevKeeps, CxFlagsKeep, CxOpKeeps
<1>3. svTurn' \in CxTurns \cup {NoTurn}
  BY <1>1 DEF CxTurnShape
<1>4. cxMat'.rev \in 0..cxRev'
  BY <1>2 DEF CxRevTyped
<1>5. CxTypeOK'
  BY <1>1, <1>2, <1>3, <1>4 DEF CxTypeOK, CxStatusTyped, CxActiveTyped, CxRevTyped, CxFlagsTyped, CxOpTyped, CxCallShape
<1>6. QED
  BY <1>1, <1>5 DEF CxShape

\* Nothing has happened that the code does not check, and app-server runs.
CxSure == ~cxDoubt /\ ~cxDown

CxOver(note, turn) ==
  (note.kind = "turn/completed" /\ note.turn = turn) \/ note.kind = "error" \/ note.turn = "systemError"
CxOwes(turn) == svTurn = turn \/ turn \in svOwed

\* The end of the turn is still to be handled, after the first n notes.
CxEndsAfter(turn, n) ==
  CxOwes(turn) \/ \E k \in (n + 1)..Len(svQueue) : CxOver(svQueue[k], turn)

CxEndInv ==
  CxSure =>
    /\ \A i \in 1..Len(svQueue) : svQueue[i].kind = "turn/started" => CxEndsAfter(svQueue[i].turn, i)
    /\ cxActive # NoTurn => CxEndsAfter(cxActive, 0)
    /\ \A c \in CxCalls : cxPc[c] = "answered" /\ cxOp[c] = "prompt" =>
         cxAnswer[c] \in cxCompleted \/ CxEndsAfter(cxAnswer[c], 0)

\* The same once the step is done.
CxEndsNext(turn, n) ==
  svTurn' = turn \/ turn \in svOwed' \/ \E k \in (n + 1)..Len(svQueue') : CxOver(svQueue'[k], turn)

LEMMA CxSureBefore == CxShape /\ [CxNext]_cxVars /\ CxSure' => CxSure
<1> SUFFICES ASSUME CxShape, [CxNext]_cxVars, CxSure' PROVE CxSure
  OBVIOUS
<1>0. cxDoubt \in BOOLEAN /\ cxDown \in BOOLEAN
  BY DEF CxShape, CxTypeOK
<1>1. cxDown => cxDown'
  BY DEF CxNext, CxCallStep, CxPrompt, CxAbort, CxSetModel, CxSend, CxCallFails, CxSucceed, CxFailed, CxNotifier,
    CxReportDown, CxClose, CxServer, SvServes, SvTurnEnds, SvNotifiesEnd, SvSpeaks, SvDies, SvReadsThread, SvKeeps,
    CxReaders, CxTimerFires, CxMaterialize, CxCompletedRead, CxRefreshRead, CxReadFails, CxHandler, CxTurnStarted,
    CxLiveItem, CxOutputDelta, CxNotice, CxMessageDelta, CxItemCompleted, CxTurnCompleted, CxThreadStatus, CxRenamed,
    CxTerminalError, CxTake, cxEndVars, cxVars
<1>2. cxDoubt => cxDoubt'
  BY DEF CxNext, CxCallStep, CxPrompt, CxAbort, CxSetModel, CxSend, CxCallFails, CxSucceed, CxFailed, CxNotifier,
    CxReportDown, CxClose, CxServer, SvServes, SvTurnEnds, SvNotifiesEnd, SvSpeaks, SvDies, SvReadsThread, SvKeeps,
    CxReaders, CxTimerFires, CxMaterialize, CxCompletedRead, CxRefreshRead, CxReadFails, CxHandler, CxTurnStarted,
    CxLiveItem, CxOutputDelta, CxNotice, CxMessageDelta, CxItemCompleted, CxTurnCompleted, CxThreadStatus, CxRenamed,
    CxTerminalError, CxTake, cxVars
<1>3. QED
  BY <1>1, <1>2 DEF CxSure

LEMMA CxHeadSure ==
  ASSUME CxShape, CxHandler, CxSure'
  PROVE  /\ CxTakes /\ svQueue[1].kind # "error" /\ svQueue[1].turn # "systemError"
         /\ Len(svQueue) \in Nat /\ Len(svQueue) > 0 /\ Head(svQueue) = svQueue[1]
<1>1. \E kind : CxTake(kind)
  BY DEF CxHandler, CxTurnStarted, CxLiveItem, CxOutputDelta, CxNotice, CxMessageDelta, CxItemCompleted,
    CxTurnCompleted, CxThreadStatus, CxRenamed, CxTerminalError
<1>2. svQueue # <<>> /\ svQueue' = Tail(svQueue) /\ Head(svQueue).kind # "error" /\ Head(svQueue).turn # "systemError"
  BY <1>1 DEF CxTake, CxSure
<1>3. Head(svQueue) = svQueue[1] /\ Len(svQueue) \in Nat /\ Len(svQueue) > 0
  BY <1>2, CxTakenQueue DEF CxShape
<1>4. QED
  BY <1>2, <1>3, CxHandlerTakes

LEMMA CxPutGrows ==
  ASSUME CxShape, CxServerEffect
  PROVE  \/ svQueue' = svQueue
         \/ \E note \in CxNotes : /\ Len(svQueue) \in Nat /\ Len(svQueue') = Len(svQueue) + 1
                                  /\ \A i \in 1..Len(svQueue) : svQueue'[i] = svQueue[i]
                                  /\ svQueue'[Len(svQueue) + 1] = note /\ CxNoteFits(note) /\ CxPuts(note)
<1>1. ASSUME NEW note, CxPuts(note)
      PROVE  /\ note \in CxNotes /\ Len(svQueue) \in Nat /\ Len(svQueue') = Len(svQueue) + 1
             /\ \A i \in 1..Len(svQueue) : svQueue'[i] = svQueue[i]
             /\ svQueue'[Len(svQueue) + 1] = note /\ CxNoteFits(note)
  BY <1>1, CxSentQueue DEF CxPuts, CxShape
<1>2. svQueue' = svQueue \/ \E note : CxPuts(note)
  BY DEF CxServerEffect, CxQuietStep, CxTurnBegins, CxTurnEnds, CxEndNotified, CxSaid, CxErred
<1>3. QED
  BY <1>1, <1>2

LEMMA CxEndsStill ==
  ASSUME CxShape, CxServerEffect, NEW turn \in CxTurns, NEW n \in Nat, n <= Len(svQueue), CxEndsAfter(turn, n)
  PROVE  CxEndsNext(turn, n)
<1>0. Len(svQueue) \in Nat
  BY DEF CxShape, CxQueueShape
<1>1. CASE \E k \in (n + 1)..Len(svQueue) : CxOver(svQueue[k], turn)
  <2>1. PICK k \in (n + 1)..Len(svQueue) : CxOver(svQueue[k], turn)
    BY <1>1
  <2>2. svQueue'[k] = svQueue[k] /\ k \in (n + 1)..Len(svQueue')
    BY <1>0, <2>1, CxPutGrows
  <2>3. CxOver(svQueue'[k], turn)
    BY <2>1, <2>2
  <2>4. QED
    BY <2>2, <2>3 DEF CxEndsAfter, CxEndsNext, CxOwes
<1>2. ASSUME CxOwes(turn)' PROVE CxEndsNext(turn, n)
  BY <1>2 DEF CxEndsAfter, CxEndsNext, CxOwes
<1>3. ASSUME NEW note, CxPuts(note), CxOver(note, turn) PROVE CxEndsNext(turn, n)
  <2>1. Len(svQueue') = Len(svQueue) + 1 /\ svQueue'[Len(svQueue) + 1] = note
    BY <1>3, CxSentQueue DEF CxPuts, CxShape
  <2>2. Len(svQueue) + 1 \in (n + 1)..Len(svQueue')
    BY <1>0, <2>1
  <2>3. QED
    BY <1>3, <2>1, <2>2 DEF CxEndsAfter, CxEndsNext, CxOwes
<1>4. CASE CxOwes(turn)
  <2>1. turn # NoTurn
    BY CxTurnsAssumption DEF NoTurn
  <2>2. CASE CxQuietStep \/ CxTurnBegins \/ CxTurnEnds \/ CxSaid
    <3>1. CxOwes(turn)'
      BY <1>4, <2>1, <2>2 DEF CxQuietStep, CxTurnBegins, CxTurnEnds, CxSaid, CxOwes
    <3>2. QED
      BY <1>2, <3>1
  <2>3. CASE CxEndNotified
    <3>1. PICK other \in svOwed :
            /\ svOwed' = svOwed \ {other} /\ UNCHANGED <<svTurn, svUsed>>
            /\ CxPuts(Note("turn/completed", other, <<other, NoItem>>))
      BY <2>3 DEF CxEndNotified
    <3>2. CASE other = turn
      <4>1. CxOver(Note("turn/completed", other, <<other, NoItem>>), turn)
        BY <3>2 DEF CxOver, Note
      <4>2. QED
        BY <1>3, <3>1, <4>1
    <3>3. CASE other # turn
      BY <1>2, <1>4, <3>1, <3>3 DEF CxOwes
    <3>4. QED
      BY <3>2, <3>3
  <2>4. CASE CxErred
    <3>1. PICK note \in CxNotes :
            /\ note.kind = "error" \/ (note.kind = "thread/status/changed" /\ note.turn = "systemError")
            /\ CxPuts(note)
      BY <2>4 DEF CxErred
    <3>2. QED
      BY <1>3, <3>1 DEF CxOver
  <2>5. QED
    BY <2>2, <2>3, <2>4 DEF CxServerEffect
<1>5. QED
  BY <1>1, <1>4 DEF CxEndsAfter, CxEndsNext, CxOwes

LEMMA CxEndsTaken ==
  ASSUME CxShape, CxTakes, NEW turn, NEW n \in Nat, CxEndsAfter(turn, n + 1)
  PROVE  CxEndsNext(turn, n)
<1>1. /\ Len(svQueue) \in Nat /\ Len(svQueue') = Len(svQueue) - 1
      /\ \A i \in 1..Len(svQueue') : svQueue'[i] = svQueue[i + 1]
  BY CxTakenQueue DEF CxTakes, CxShape
<1>2. CASE CxOwes(turn)
  BY <1>2 DEF CxTakes, CxEndsAfter, CxEndsNext, CxOwes
<1>3. CASE \E k \in ((n + 1) + 1)..Len(svQueue) : CxOver(svQueue[k], turn)
  <2>1. PICK k \in ((n + 1) + 1)..Len(svQueue) : CxOver(svQueue[k], turn)
    BY <1>3
  <2>2. k - 1 \in (n + 1)..Len(svQueue') /\ k - 1 \in 1..Len(svQueue') /\ (k - 1) + 1 = k
    BY <1>1, <2>1
  <2>3. CxOver(svQueue'[k - 1], turn)
    BY <1>1, <2>1, <2>2
  <2>4. QED
    BY <2>2, <2>3 DEF CxEndsAfter, CxEndsNext, CxOwes
<1>4. QED
  BY <1>2, <1>3 DEF CxEndsAfter, CxEndsNext, CxOwes

LEMMA CxEndsLater ==
  ASSUME CxShape, CxTakes, NEW turn, CxEndsAfter(turn, 0), ~CxOver(svQueue[1], turn)
  PROVE  CxEndsNext(turn, 0)
<1>1. Len(svQueue) \in Nat
  BY DEF CxShape, CxQueueShape
<1>2. CxEndsAfter(turn, 0 + 1)
  <2>1. CASE CxOwes(turn)
    BY <2>1 DEF CxEndsAfter, CxEndsNext, CxOwes
  <2>2. ASSUME NEW k \in (0 + 1)..Len(svQueue), CxOver(svQueue[k], turn) PROVE CxEndsAfter(turn, 0 + 1)
    <3>1. k # 1
      BY <2>2
    <3>2. k \in ((0 + 1) + 1)..Len(svQueue)
      BY <1>1, <3>1
    <3>3. QED
      BY <2>2, <3>2 DEF CxEndsAfter, CxEndsNext, CxOwes
  <2>3. QED
    BY <2>1, <2>2 DEF CxEndsAfter, CxEndsNext, CxOwes
<1>3. QED
  BY <1>2, CxEndsTaken

\* What makes a turn active without the handler: the answer to a start.
CxAcknowledged(c) ==
  /\ cxPc[c] = "answered" /\ cxOp[c] = "prompt" /\ cxAnswer[c] \notin cxCompleted
  /\ cxActive \in {cxAnswer[c], NoTurn} /\ cxActive' = cxAnswer[c]

LEMMA CxActiveStill ==
  ASSUME CxShape, [CxNext]_cxVars, ~CxHandler, CxSure'
  PROVE  /\ cxCompleted' = cxCompleted
         /\ cxActive' = cxActive \/ \E c \in CxCalls : CxAcknowledged(c)
<1>1. CASE (\E c \in CxCalls : CxCallStep(c))
  <2>1. PICK c \in CxCalls : CxCallStep(c)
    BY <1>1
  <2>2. CASE CxSucceed(c)
    <3>1. cxCompleted' = cxCompleted /\ cxPc[c] = "answered"
      BY <2>2 DEF CxSucceed
    <3>2. CASE cxOp[c] = "steer"
      BY <2>2, <3>1, <3>2 DEF CxSucceed, CxSure
    <3>3. CASE cxOp[c] = "prompt" /\ cxAnswer[c] \notin cxCompleted
      <4>1. cxActive' = cxAnswer[c] /\ cxActive \in {cxAnswer[c], NoTurn}
        BY <2>2, <3>3 DEF CxSucceed, CxSure
      <4>2. QED
        BY <3>1, <3>3, <4>1 DEF CxAcknowledged
    <3>4. CASE cxOp[c] # "steer" /\ ~(cxOp[c] = "prompt" /\ cxAnswer[c] \notin cxCompleted)
      BY <2>2, <3>1, <3>4 DEF CxSucceed
    <3>5. QED
      BY <3>2, <3>3, <3>4
  <2>3. CASE ~CxSucceed(c)
    BY <2>1, <2>3 DEF CxCallStep, CxPrompt, CxAbort, CxSetModel, CxSend, CxCallFails, CxFailed
  <2>4. QED
    BY <2>2, <2>3
<1>2. CASE CxNotifier \/ CxReportDown \/ CxClose \/ CxServer \/ CxReaders
  BY <1>2 DEF CxNotifier, CxReportDown, CxClose, CxServer, SvServes, SvTurnEnds, SvNotifiesEnd, SvSpeaks, SvDies,
    SvReadsThread, SvKeeps, CxReaders, CxTimerFires, CxMaterialize, CxCompletedRead, CxRefreshRead, CxReadFails
<1>3. CASE UNCHANGED cxVars
  BY <1>3 DEF cxVars
<1>4. QED
  BY <1>1, <1>2, <1>3 DEF CxNext

\* A start that has its answer had it before, or gets it with its turn.
LEMMA CxAnswered ==
  ASSUME CxShape, [CxNext]_cxVars, NEW c \in CxCalls, cxPc'[c] = "answered", cxOp'[c] = "prompt"
  PROVE  \/ cxPc[c] = "answered" /\ cxOp[c] = "prompt" /\ cxAnswer'[c] = cxAnswer[c]
         \/ svTurn' = cxAnswer'[c]
<1>0. CxCallShape
  BY DEF CxShape
<1>1. ASSUME UNCHANGED <<cxPc, cxOp, cxAnswer>>
      PROVE  cxPc[c] = "answered" /\ cxOp[c] = "prompt" /\ cxAnswer'[c] = cxAnswer[c]
  BY <1>1
<1>2. ASSUME NEW d \in CxCalls, CxCallStep(d)
      PROVE  cxPc[c] = "answered" /\ cxOp[c] = "prompt" /\ cxAnswer'[c] = cxAnswer[c]
  <2>1. \E label \in {"send", "wait", "failed", "done"} : cxPc' = [cxPc EXCEPT ![d] = label]
    BY <1>2 DEF CxCallStep, CxPrompt, CxAbort, CxSetModel, CxSend, CxCallFails, CxSucceed, CxFailed, CxReturns, CxGoto
  <2>2. c # d /\ cxPc[c] = "answered"
    BY <1>0, <2>1 DEF CxCallShape
  <2>3. /\ cxOp' = cxOp \/ \E op : cxOp' = [cxOp EXCEPT ![d] = op]
        /\ cxAnswer' = cxAnswer \/ \E answer : cxAnswer' = [cxAnswer EXCEPT ![d] = answer]
    BY <1>2 DEF CxCallStep, CxPrompt, CxAbort, CxSetModel, CxSend, CxCallFails, CxSucceed, CxFailed, CxReturns
  <2>4. QED
    BY <1>0, <2>2, <2>3 DEF CxCallShape
<1>3. CASE CxNotifier \/ CxReportDown \/ CxClose \/ CxReaders
  BY <1>1, <1>3 DEF CxNotifier, CxReportDown, CxClose, CxReaders, CxTimerFires, CxMaterialize, CxCompletedRead,
    CxRefreshRead, CxReadFails, cxCallVars
<1>4. CASE CxHandler
  BY <1>1, <1>4, CxHandlerTakes DEF cxCallVars
<1>5. ASSUME NEW request \in svInbox, SvServes(request)
      PROVE  \/ cxPc[c] = "answered" /\ cxOp[c] = "prompt" /\ cxAnswer'[c] = cxAnswer[c]
             \/ svTurn' = cxAnswer'[c]
  <2>1. cxOp' = cxOp
    BY <1>5 DEF SvServes, SvKeeps
  <2>2. CASE ~(c = request.call /\ cxPc[c] = "wait")
    <3>1. \E answer : SvReply(request.call, answer)
      BY <1>5 DEF SvServes
    <3>2. cxPc'[c] = cxPc[c] /\ cxAnswer'[c] = cxAnswer[c]
      BY <1>0, <2>2, <3>1 DEF SvReply, CxGoto, CxCallShape
    <3>3. QED
      BY <2>1, <3>2
  <2>3. CASE c = request.call /\ cxPc[c] = "wait"
    <3>1. request.op = "prompt"
      BY <1>0, <2>1, <2>3 DEF CxCallShape
    <3>2. ASSUME NEW answer, SvReply(c, answer)
          PROVE  cxPc' = [cxPc EXCEPT ![c] = IF answer = "error" THEN "failed" ELSE "answered"]
                 /\ cxAnswer' = [cxAnswer EXCEPT ![c] = answer]
      BY <2>3, <3>2 DEF SvReply, CxGoto
    <3>3. CASE SvReply(c, "error")
      BY <1>0, <3>2, <3>3 DEF CxCallShape
    <3>4. CASE SvReply(c, CHOOSE t \in CxTurns \ svUsed : TRUE) /\ svTurn' = CHOOSE t \in CxTurns \ svUsed : TRUE
      <4> DEFINE turn == CHOOSE t \in CxTurns \ svUsed : TRUE
      <4>1. SvReply(c, turn) /\ svTurn' = turn
        BY <3>4
      <4> HIDE DEF turn
      <4>2. QED
        BY <1>0, <3>2, <4>1 DEF CxCallShape
    <3>5. QED
      BY <1>5, <2>3, <3>1, <3>3, <3>4 DEF SvServes
  <2>4. QED
    BY <2>2, <2>3
<1>6. CASE SvTurnEnds \/ SvNotifiesEnd \/ SvSpeaks \/ SvDies \/ \E read \in cxReads : SvReadsThread(read)
  BY <1>1, <1>6 DEF SvTurnEnds, SvNotifiesEnd, SvSpeaks, SvDies, SvGone, SvReadsThread, SvKeeps, cxCallVars
<1>7. CASE UNCHANGED cxVars
  BY <1>1, <1>7 DEF cxVars, cxCallVars
<1>8. QED
  BY <1>2, <1>3, <1>4, <1>5, <1>6, <1>7 DEF CxNext, CxServer

LEMMA CxEndPrimed ==
  ASSUME \A i \in 1..Len(svQueue') : svQueue'[i].kind = "turn/started" => CxEndsNext(svQueue'[i].turn, i),
         cxActive' # NoTurn => CxEndsNext(cxActive', 0),
         \A c \in CxCalls : cxPc'[c] = "answered" /\ cxOp'[c] = "prompt" =>
           cxAnswer'[c] \in cxCompleted' \/ CxEndsNext(cxAnswer'[c], 0)
  PROVE  CxEndInv'
BY DEF CxEndInv, CxEndsAfter, CxEndsNext, CxOwes

LEMMA CxEndKeeps == CxShape /\ CxEndInv /\ [CxNext]_cxVars => CxEndInv'
<1> SUFFICES ASSUME CxShape, CxEndInv, [CxNext]_cxVars, CxSure' PROVE CxEndInv'
  BY DEF CxEndInv
<1>0. /\ CxSure /\ CxShape' /\ Len(svQueue) \in Nat /\ Len(svQueue') \in Nat
      /\ cxActive \in CxTurns \cup {NoTurn} /\ cxActive' \in CxTurns \cup {NoTurn}
  <2>1. CxSure /\ CxShape'
    BY CxSureBefore, CxShapeKeeps
  <2>2. Len(svQueue) \in Nat
    BY DEF CxShape, CxQueueShape
  <2>3. Len(svQueue') \in Nat
    BY <2>1 DEF CxShape, CxQueueShape
  <2>4. QED
    BY <2>1, <2>2, <2>3 DEF CxShape, CxTypeOK
<1>a. \A i \in 1..Len(svQueue) : svQueue[i].kind = "turn/started" =>
        svQueue[i].turn \in CxTurns /\ CxEndsAfter(svQueue[i].turn, i)
  BY <1>0 DEF CxEndInv, CxShape, CxQueueShape, CxNoteFits, CxTurnKinds
<1>b. cxActive # NoTurn => CxEndsAfter(cxActive, 0)
  BY <1>0 DEF CxEndInv
<1>c. \A c \in CxCalls : cxPc[c] = "answered" /\ cxOp[c] = "prompt" =>
        cxAnswer[c] \in CxTurns /\ (cxAnswer[c] \in cxCompleted \/ CxEndsAfter(cxAnswer[c], 0))
  BY <1>0 DEF CxEndInv, CxShape, CxCallShape
<1> DEFINE Started == \A i \in 1..Len(svQueue') : svQueue'[i].kind = "turn/started" => CxEndsNext(svQueue'[i].turn, i)
           Active == cxActive' # NoTurn => CxEndsNext(cxActive', 0)
           Answers == \A c \in CxCalls : cxPc'[c] = "answered" /\ cxOp'[c] = "prompt" =>
                        cxAnswer'[c] \in cxCompleted' \/ CxEndsNext(cxAnswer'[c], 0)
<1>1. CASE ~CxHandler
  <2>0. CxServerEffect
    BY <1>1, CxStepEffect DEF CxEffect, CxGone, CxSure
  <2>e. ASSUME NEW turn \in CxTurns, CxEndsAfter(turn, 0) PROVE CxEndsNext(turn, 0)
    BY <1>0, <2>0, <2>e, CxEndsStill
  <2>1. ASSUME NEW i \in 1..Len(svQueue'), svQueue'[i].kind = "turn/started"
        PROVE  svTurn' = svQueue'[i].turn \/ CxEndsNext(svQueue'[i].turn, i)
    <3>1. CASE i \in 1..Len(svQueue) /\ svQueue'[i] = svQueue[i]
      <4>1. svQueue[i].turn \in CxTurns /\ CxEndsAfter(svQueue[i].turn, i) /\ i \in Nat /\ i <= Len(svQueue)
        BY <1>0, <1>a, <2>1, <3>1
      <4> DEFINE turn == svQueue[i].turn
      <4>2. turn \in CxTurns /\ CxEndsAfter(turn, i)
        BY <4>1
      <4>3. turn = svQueue'[i].turn
        BY <3>1
      <4> HIDE DEF turn
      <4>4. CxEndsNext(turn, i)
        BY <2>0, <4>1, <4>2, CxEndsStill
      <4>5. QED
        BY <4>3, <4>4 DEF CxEndsAfter, CxEndsNext, CxOwes
    <3>2. CASE ~(i \in 1..Len(svQueue) /\ svQueue'[i] = svQueue[i])
      <4>1. PICK note \in CxNotes : /\ Len(svQueue') = Len(svQueue) + 1
                                    /\ \A j \in 1..Len(svQueue) : svQueue'[j] = svQueue[j]
                                    /\ svQueue'[Len(svQueue) + 1] = note
        BY <2>0, <3>2, CxPutGrows
      <4>2. svQueue'[i] = note /\ note.kind = "turn/started" /\ i = Len(svQueue) + 1
        BY <1>0, <2>1, <3>2, <4>1
      <4>3. ASSUME NEW other, CxPuts(other) PROVE other = note
        BY <4>1, <4>3, CxSentQueue DEF CxPuts, CxShape
      <4>4. ASSUME svQueue' = svQueue PROVE FALSE
        BY <1>0, <4>1, <4>4
      <4>5. CxTurnBegins
        <5>1. ~CxQuietStep /\ ~CxTurnEnds
          BY <4>4 DEF CxQuietStep, CxTurnEnds
        <5>2. ~CxEndNotified
          <6>1. ASSUME NEW turn, CxPuts(Note("turn/completed", turn, <<turn, NoItem>>)) PROVE FALSE
            <7>1. Note("turn/completed", turn, <<turn, NoItem>>) = note
              BY <4>3, <6>1
            <7>2. QED
              BY <4>2, <7>1 DEF Note
          <6>2. QED
            BY <6>1 DEF CxEndNotified
        <5>3. ~CxSaid
          BY <4>2, <4>3 DEF CxSaid, CxTurnKinds
        <5>4. ~CxErred
          BY <4>2, <4>3 DEF CxErred
        <5>5. QED
          BY <2>0, <5>1, <5>2, <5>3, <5>4 DEF CxServerEffect
      <4>6. svTurn' = note.turn
        <5>1. PICK turn \in CxTurns \ svUsed :
                svTurn' = turn /\ CxPuts(Note("turn/started", turn, <<turn, NoItem>>))
          BY <4>5 DEF CxTurnBegins
        <5>2. Note("turn/started", turn, <<turn, NoItem>>) = note
          BY <4>3, <5>1
        <5>3. QED
          BY <5>1, <5>2 DEF Note
      <4>7. QED
        BY <4>2, <4>6 DEF CxOwes
    <3>3. QED
      BY <3>1, <3>2
  <2>2. Started
    BY <2>1 DEF CxEndsNext
  <2>3. Active
    <3>1. CASE cxActive' = cxActive
      BY <1>0, <1>b, <2>e, <3>1
    <3>2. ASSUME NEW c \in CxCalls, CxAcknowledged(c) PROVE Active
      <4>1. cxActive' = cxAnswer[c] /\ cxAnswer[c] \in CxTurns /\ CxEndsAfter(cxAnswer[c], 0)
        BY <1>c, <3>2 DEF CxAcknowledged
      <4>2. CxEndsNext(cxActive', 0)
        BY <2>e, <4>1
      <4>3. QED
        BY <4>2
    <3>3. QED
      BY <1>0, <1>1, <3>1, <3>2, CxActiveStill
  <2>4. Answers
    <3>1. ASSUME NEW c \in CxCalls, cxPc'[c] = "answered", cxOp'[c] = "prompt"
          PROVE  cxAnswer'[c] \in cxCompleted' \/ CxEndsNext(cxAnswer'[c], 0)
      <4>1. CASE cxPc[c] = "answered" /\ cxOp[c] = "prompt" /\ cxAnswer'[c] = cxAnswer[c]
        <5>1. cxAnswer[c] \in CxTurns /\ (cxAnswer[c] \in cxCompleted \/ CxEndsAfter(cxAnswer[c], 0))
          BY <1>c, <4>1
        <5>2. cxCompleted' = cxCompleted
          BY <1>0, <1>1, CxActiveStill
        <5>3. CxEndsAfter(cxAnswer[c], 0) => CxEndsNext(cxAnswer'[c], 0)
          BY <2>e, <4>1, <5>1
        <5>4. QED
          BY <4>1, <5>1, <5>2, <5>3
      <4>2. CASE svTurn' = cxAnswer'[c]
        BY <4>2 DEF CxEndsAfter, CxEndsNext, CxOwes
      <4>3. QED
        BY <3>1, <4>1, <4>2, CxAnswered
    <3>2. QED
      BY <3>1
  <2>5. QED
    BY <2>2, <2>3, <2>4, CxEndPrimed
<1>2. CASE CxHandler
  <2>0. /\ CxTakes /\ svQueue[1].kind # "error" /\ svQueue[1].turn # "systemError" /\ Head(svQueue) = svQueue[1]
        /\ Len(svQueue) > 0
    BY <1>2, CxHeadSure
  <2>1. Len(svQueue') = Len(svQueue) - 1 /\ \A i \in 1..Len(svQueue') : svQueue'[i] = svQueue[i + 1]
    BY <2>0, CxTakenQueue DEF CxTakes, CxShape
  <2>2. Started
    <3>1. ASSUME NEW i \in 1..Len(svQueue'), svQueue'[i].kind = "turn/started"
          PROVE  CxEndsNext(svQueue'[i].turn, i)
      <4>1. i + 1 \in 1..Len(svQueue) /\ svQueue'[i] = svQueue[i + 1] /\ i \in Nat
        BY <1>0, <2>1
      <4> DEFINE turn == svQueue[i + 1].turn
      <4>2. CxEndsAfter(turn, i + 1) /\ turn = svQueue'[i].turn
        BY <1>a, <3>1, <4>1
      <4> HIDE DEF turn
      <4>3. CxEndsNext(turn, i)
        BY <2>0, <4>1, <4>2, CxEndsTaken
      <4>4. QED
        BY <4>2, <4>3 DEF CxEndsAfter, CxEndsNext, CxOwes
    <3>2. QED
      BY <3>1
  <2>3. ASSUME NEW turn, svQueue[1].kind = "turn/started", turn = svQueue[1].turn PROVE CxEndsNext(turn, 0)
    <3>1. CxEndsAfter(turn, 0 + 1)
      BY <1>0, <1>a, <2>0, <2>3
    <3>2. QED
      BY <2>0, <3>1, CxEndsTaken
  <2>4. ASSUME NEW turn, CxEndsAfter(turn, 0), ~(svQueue[1].kind = "turn/completed" /\ turn = svQueue[1].turn)
        PROVE  CxEndsNext(turn, 0)
    BY <2>0, <2>4, CxEndsLater DEF CxOver
  <2>5. UNCHANGED <<cxPc, cxOp, cxAnswer>>
    BY <1>2, CxHandlerTakes DEF cxCallVars
  <2>6. CASE CxTurnStarted
    <3>1. svQueue[1].kind = "turn/started" /\ cxActive' = svQueue[1].turn
          /\ cxCompleted' = cxCompleted \ {svQueue[1].turn}
      BY <2>0, <2>6 DEF CxTurnStarted, CxTake
    <3>2. Active
      BY <2>3, <3>1
    <3>3. ASSUME NEW turn, turn \in cxCompleted \/ CxEndsAfter(turn, 0)
          PROVE  turn \in cxCompleted' \/ CxEndsNext(turn, 0)
      BY <2>3, <2>4, <3>1, <3>3
    <3>4. Answers
      BY <1>c, <2>5, <3>3
    <3>5. QED
      BY <2>2, <3>2, <3>4, CxEndPrimed
  <2>7. CASE CxTurnCompleted
    <3>1. svQueue[1].kind = "turn/completed" /\ cxCompleted' = cxCompleted \cup {svQueue[1].turn}
          /\ cxActive' = IF cxActive = svQueue[1].turn THEN NoTurn ELSE cxActive
      BY <2>0, <2>7 DEF CxTurnCompleted, CxTake
    <3>2. Active
      BY <1>b, <2>4, <3>1
    <3>3. ASSUME NEW turn, turn \in cxCompleted \/ CxEndsAfter(turn, 0)
          PROVE  turn \in cxCompleted' \/ CxEndsNext(turn, 0)
      BY <2>4, <3>1, <3>3
    <3>4. Answers
      BY <1>c, <2>5, <3>3
    <3>5. QED
      BY <2>2, <3>2, <3>4, CxEndPrimed
  <2>8. CASE CxHandler /\ ~CxTurnStarted /\ ~CxTurnCompleted
    <3>1. svQueue[1].kind # "turn/completed" /\ cxCompleted' = cxCompleted /\ cxActive' \in {cxActive, NoTurn}
      BY <2>0, <2>8 DEF CxHandler, CxLiveItem, CxOutputDelta, CxNotice, CxApplyLive, CxMessageDelta, CxItemCompleted,
        CxRenamed, CxThreadStatus, CxTerminalError, CxTake
    <3>2. Active
      BY <1>b, <2>4, <3>1
    <3>3. ASSUME NEW turn, turn \in cxCompleted \/ CxEndsAfter(turn, 0)
          PROVE  turn \in cxCompleted' \/ CxEndsNext(turn, 0)
      BY <2>4, <3>1, <3>3
    <3>4. Answers
      BY <1>c, <2>5, <3>3
    <3>5. QED
      BY <2>2, <3>2, <3>4, CxEndPrimed
  <2>9. QED
    BY <1>2, <2>6, <2>7, <2>8
<1>3. QED
  BY <1>1, <1>2

\* What ends the lead of a turn: another one, its completion, a thread that is idle.
CxBreaks(note, turn) ==
  \/ note.kind \in {"turn/started", "error"}
  \/ note.kind = "thread/status/changed" /\ note.turn # "active"
  \/ note.kind = "turn/completed" /\ note.turn = turn

\* The turn is the active one once the first n notes have been handled.
CxLeads(turn, n) ==
  \/ cxActive = turn /\ \A k \in 1..n : ~CxBreaks(svQueue[k], turn)
  \/ \E j \in 1..n : /\ svQueue[j].kind = "turn/started" /\ svQueue[j].turn = turn
                     /\ \A k \in (j + 1)..n : ~CxBreaks(svQueue[k], turn)
CxLeadsNext(turn, n) ==
  \/ cxActive' = turn /\ \A k \in 1..n : ~CxBreaks(svQueue'[k], turn)
  \/ \E j \in 1..n : /\ svQueue'[j].kind = "turn/started" /\ svQueue'[j].turn = turn
                     /\ \A k \in (j + 1)..n : ~CxBreaks(svQueue'[k], turn)

\* The turn of app-server will be the active one; where a note says that a turn
\* runs, one is active.
CxLeadInv ==
  CxSure =>
    /\ svTurn # NoTurn => CxLeads(svTurn, Len(svQueue))
    /\ \A i \in 1..Len(svQueue) : svQueue[i].kind = "thread/status/changed" /\ svQueue[i].turn = "active" =>
         \E turn \in CxTurns : CxLeads(turn, i - 1)

LEMMA CxLeadsStill ==
  ASSUME CxShape, [CxNext]_cxVars, ~CxHandler, CxServerEffect, CxSure', NEW turn \in CxTurns, NEW n \in Nat,
         n <= Len(svQueue), CxLeads(turn, n)
  PROVE  CxLeadsNext(turn, n)
<1>z. turn # NoTurn
  BY CxTurnsAssumption DEF NoTurn
<1>0. Len(svQueue) \in Nat /\ turn # NoTurn
  BY <1>z DEF CxShape, CxQueueShape
<1>1. \A k \in 1..n : svQueue'[k] = svQueue[k]
  <2>1. \A k \in 1..n : k \in 1..Len(svQueue)
    BY <1>0
  <2>2. QED
    BY <2>1, CxPutGrows
<1>2. cxActive = turn => cxActive' = turn
  BY <1>0, CxActiveStill DEF CxAcknowledged
<1>3. CASE cxActive = turn /\ \A k \in 1..n : ~CxBreaks(svQueue[k], turn)
  BY <1>1, <1>2, <1>3 DEF CxLeadsNext
<1>4. ASSUME NEW j \in 1..n, svQueue[j].kind = "turn/started", svQueue[j].turn = turn,
             \A k \in (j + 1)..n : ~CxBreaks(svQueue[k], turn)
      PROVE  CxLeadsNext(turn, n)
  <2>1. \A k \in (j + 1)..n : k \in 1..n
    OBVIOUS
  <2>2. QED
    BY <1>1, <1>4, <2>1 DEF CxLeadsNext
<1>5. QED
  BY <1>3, <1>4 DEF CxLeads

LEMMA CxLeadsPut ==
  ASSUME NEW turn, NEW n \in Nat, CxLeadsNext(turn, n), ~CxBreaks(svQueue'[n + 1], turn)
  PROVE  CxLeadsNext(turn, n + 1)
<1>1. ASSUME NEW m \in Nat, \A k \in m..n : ~CxBreaks(svQueue'[k], turn)
      PROVE  \A k \in m..(n + 1) : ~CxBreaks(svQueue'[k], turn)
  <2>1. \A k \in m..(n + 1) : k \in m..n \/ k = n + 1
    BY <1>1
  <2>2. QED
    BY <1>1, <2>1
<1>2. CASE cxActive' = turn /\ \A k \in 1..n : ~CxBreaks(svQueue'[k], turn)
  BY <1>1, <1>2 DEF CxLeadsNext
<1>3. ASSUME NEW j \in 1..n, svQueue'[j].kind = "turn/started", svQueue'[j].turn = turn,
             \A k \in (j + 1)..n : ~CxBreaks(svQueue'[k], turn)
      PROVE  CxLeadsNext(turn, n + 1)
  <2>1. j \in 1..(n + 1) /\ j + 1 \in Nat
    OBVIOUS
  <2>2. QED
    BY <1>1, <1>3, <2>1 DEF CxLeadsNext
<1>4. QED
  BY <1>2, <1>3 DEF CxLeadsNext

LEMMA CxHeadLeads ==
  ASSUME CxShape, CxHandler, CxSure', NEW turn \in CxTurns
  PROVE  /\ svQueue[1].kind = "turn/started" /\ svQueue[1].turn = turn => cxActive' = turn
         /\ cxActive = turn /\ ~CxBreaks(svQueue[1], turn) => cxActive' = turn
<1>0. Head(svQueue) = svQueue[1] /\ svQueue[1].kind # "error"
  BY CxHeadSure
<1>1. CASE CxTurnStarted
  BY <1>0, <1>1 DEF CxTurnStarted, CxTake, CxBreaks
<1>2. CASE CxTurnCompleted
  BY <1>0, <1>2 DEF CxTurnCompleted, CxTake, CxBreaks
<1>3. CASE CxThreadStatus
  BY <1>0, <1>3 DEF CxThreadStatus, CxTake, CxBreaks
<1>4. CASE CxLiveItem \/ CxOutputDelta \/ CxNotice \/ CxMessageDelta \/ CxItemCompleted \/ CxRenamed \/ CxTerminalError
  BY <1>0, <1>4 DEF CxLiveItem, CxOutputDelta, CxNotice, CxApplyLive, CxMessageDelta, CxItemCompleted,
    CxRenamed, CxTerminalError, CxTake
<1>5. QED
  BY <1>1, <1>2, <1>3, <1>4 DEF CxHandler

LEMMA CxLeadsTaken ==
  ASSUME CxShape, CxHandler, CxSure', NEW turn \in CxTurns, NEW n \in Nat, n + 1 <= Len(svQueue),
         CxLeads(turn, n + 1)
  PROVE  CxLeadsNext(turn, n)
<1>0. /\ Len(svQueue) \in Nat /\ Len(svQueue') = Len(svQueue) - 1
      /\ \A i \in 1..Len(svQueue') : svQueue'[i] = svQueue[i + 1]
  BY CxHeadSure, CxTakenQueue DEF CxTakes, CxShape
<1>1. ASSUME NEW m \in Nat, m >= 1, \A k \in (m + 1)..(n + 1) : ~CxBreaks(svQueue[k], turn)
      PROVE  \A k \in m..n : ~CxBreaks(svQueue'[k], turn)
  <2>1. \A k \in m..n : k + 1 \in (m + 1)..(n + 1) /\ k \in 1..Len(svQueue')
    BY <1>0, <1>1
  <2>2. QED
    BY <1>0, <1>1, <2>1
<1>2. CASE cxActive = turn /\ \A k \in 1..(n + 1) : ~CxBreaks(svQueue[k], turn)
  <2>1. 1 \in 1..(n + 1) /\ \A k \in (1 + 1)..(n + 1) : k \in 1..(n + 1)
    OBVIOUS
  <2>2. cxActive' = turn
    BY <1>2, <2>1, CxHeadLeads
  <2>3. \A k \in 1..n : ~CxBreaks(svQueue'[k], turn)
    <3>1. \A k \in (1 + 1)..(n + 1) : ~CxBreaks(svQueue[k], turn)
      BY <1>2, <2>1
    <3>2. 1 \in Nat /\ 1 >= 1
      OBVIOUS
    <3>3. QED
      BY <1>1, <3>1, <3>2
  <2>4. QED
    BY <2>2, <2>3 DEF CxLeadsNext
<1>3. ASSUME NEW j \in 1..(n + 1), svQueue[j].kind = "turn/started", svQueue[j].turn = turn,
             \A k \in (j + 1)..(n + 1) : ~CxBreaks(svQueue[k], turn)
      PROVE  CxLeadsNext(turn, n)
  <2>1. CASE j = 1
    <3>1. cxActive' = turn
      BY <1>3, <2>1, CxHeadLeads
    <3>2. \A k \in 1..n : ~CxBreaks(svQueue'[k], turn)
      <4>1. \A k \in (1 + 1)..(n + 1) : ~CxBreaks(svQueue[k], turn)
        BY <1>3, <2>1
      <4>2. 1 \in Nat /\ 1 >= 1
        OBVIOUS
      <4>3. QED
        BY <1>1, <4>1, <4>2
    <3>3. QED
      BY <3>1, <3>2 DEF CxLeadsNext
  <2>2. CASE j # 1
    <3>1. j - 1 \in 1..n /\ j - 1 \in 1..Len(svQueue') /\ (j - 1) + 1 = j /\ j \in Nat /\ j >= 1
      BY <1>0, <2>2
    <3>2. svQueue'[j - 1] = svQueue[j]
      BY <1>0, <3>1
    <3>3. \A k \in j..n : ~CxBreaks(svQueue'[k], turn)
      BY <1>1, <1>3, <3>1
    <3>4. QED
      BY <1>3, <3>1, <3>2, <3>3 DEF CxLeadsNext
  <2>3. QED
    BY <2>1, <2>2
<1>4. QED
  BY <1>2, <1>3 DEF CxLeads

LEMMA CxLeadPrimed ==
  ASSUME svTurn' # NoTurn => CxLeadsNext(svTurn', Len(svQueue')),
         \A i \in 1..Len(svQueue') : svQueue'[i].kind = "thread/status/changed" /\ svQueue'[i].turn = "active" =>
           \E turn \in CxTurns : CxLeadsNext(turn, i - 1)
  PROVE  CxLeadInv'
BY DEF CxLeadInv, CxLeads, CxLeadsNext

LEMMA CxLeadKeeps == CxShape /\ CxLeadInv /\ [CxNext]_cxVars => CxLeadInv'
<1> SUFFICES ASSUME CxShape, CxLeadInv, [CxNext]_cxVars, CxSure' PROVE CxLeadInv'
  BY DEF CxLeadInv
<1>0. CxSure /\ Len(svQueue) \in Nat /\ svTurn \in CxTurns \cup {NoTurn} /\ svTurn \notin svOwed
  BY CxSureBefore DEF CxShape, CxTypeOK, CxQueueShape, CxTurnShape
<1>a. svTurn # NoTurn => CxLeads(svTurn, Len(svQueue))
  BY <1>0 DEF CxLeadInv
<1>b. \A i \in 1..Len(svQueue) : svQueue[i].kind = "thread/status/changed" /\ svQueue[i].turn = "active" =>
        \E turn \in CxTurns : CxLeads(turn, i - 1)
  BY <1>0 DEF CxLeadInv
<1> DEFINE Turn == svTurn' # NoTurn => CxLeadsNext(svTurn', Len(svQueue'))
           Tells(i) == svQueue'[i].kind = "thread/status/changed" /\ svQueue'[i].turn = "active" =>
                         \E turn \in CxTurns : CxLeadsNext(turn, i - 1)
           Notes == \A i \in 1..Len(svQueue') : Tells(i)
<1>1. CASE ~CxHandler
  <2>0. CxServerEffect
    BY <1>1, CxStepEffect DEF CxEffect, CxGone, CxSure
  <2>a. svTurn # NoTurn => CxLeadsNext(svTurn, Len(svQueue))
    BY <1>0, <1>1, <1>a, <2>0, CxLeadsStill
  <2>b. \A i \in 1..Len(svQueue) : svQueue'[i] = svQueue[i] => Tells(i)
    <3>1. ASSUME NEW i \in 1..Len(svQueue), NEW turn \in CxTurns, CxLeads(turn, i - 1) PROVE CxLeadsNext(turn, i - 1)
      <4>1. i - 1 \in Nat /\ i - 1 <= Len(svQueue)
        BY <1>0
      <4>2. QED
        BY <1>1, <2>0, <3>1, <4>1, CxLeadsStill
    <3>2. QED
      BY <1>b, <3>1
  <2>c. ASSUME NEW note, CxPuts(note), Tells(Len(svQueue) + 1)
        PROVE  Notes
    <3>1. /\ Len(svQueue') = Len(svQueue) + 1 /\ \A i \in 1..Len(svQueue) : svQueue'[i] = svQueue[i]
      BY <2>c, CxSentQueue DEF CxPuts, CxShape
    <3>2. \A i \in 1..Len(svQueue') : i \in 1..Len(svQueue) \/ i = Len(svQueue) + 1
      BY <1>0, <3>1
    <3> HIDE DEF Tells
    <3>3. QED
      BY <2>b, <2>c, <3>1, <3>2
  <2>d. ASSUME NEW note, CxPuts(note)
        PROVE  Len(svQueue') = Len(svQueue) + 1 /\ svQueue'[Len(svQueue) + 1] = note
    BY <2>d, CxSentQueue DEF CxPuts, CxShape
  <2>1. CASE CxQuietStep \/ CxTurnEnds
    <3>1. svQueue' = svQueue /\ svTurn' \in {svTurn, NoTurn}
      BY <2>1 DEF CxQuietStep, CxTurnEnds
    <3>2. Turn
      BY <2>a, <3>1
    <3> HIDE DEF Tells
    <3>3. Notes
      BY <2>b, <3>1
    <3>4. QED
      BY <3>2, <3>3, CxLeadPrimed DEF Tells
  <2>2. CASE CxTurnBegins
    <3>1. PICK turn \in CxTurns : svTurn' = turn /\ CxPuts(Note("turn/started", turn, <<turn, NoItem>>))
      BY <2>2 DEF CxTurnBegins
    <3>2. Len(svQueue') = Len(svQueue) + 1 /\ svQueue'[Len(svQueue) + 1].kind = "turn/started"
          /\ svQueue'[Len(svQueue) + 1].turn = turn
      BY <2>d, <3>1 DEF Note
    <3>3. Len(svQueue) + 1 \in 1..Len(svQueue') /\ (Len(svQueue) + 1) + 1 > Len(svQueue')
      BY <1>0, <3>2
    <3>4. Turn
      <4>1. \A k \in ((Len(svQueue) + 1) + 1)..Len(svQueue') : FALSE
        BY <1>0, <3>2
      <4>2. QED
        BY <3>1, <3>2, <3>3, <4>1 DEF CxLeadsNext
    <3>5. Notes
      BY <2>c, <3>1, <3>2
    <3>6. QED
      BY <3>4, <3>5, CxLeadPrimed
  <2>3. CASE CxEndNotified
    <3>1. PICK turn \in svOwed : CxPuts(Note("turn/completed", turn, <<turn, NoItem>>)) /\ svTurn' = svTurn
      BY <2>3 DEF CxEndNotified
    <3>2. Len(svQueue') = Len(svQueue) + 1 /\ svQueue'[Len(svQueue) + 1].kind = "turn/completed"
          /\ svQueue'[Len(svQueue) + 1].turn = turn
      BY <2>d, <3>1 DEF Note
    <3>3. ~CxBreaks(svQueue'[Len(svQueue) + 1], svTurn)
      BY <1>0, <3>1, <3>2 DEF CxBreaks
    <3>4. Turn
      BY <1>0, <2>a, <3>1, <3>2, <3>3, CxLeadsPut
    <3>5. Notes
      BY <2>c, <3>1, <3>2
    <3>6. QED
      BY <3>4, <3>5, CxLeadPrimed
  <2>4. CASE CxSaid
    <3>1. PICK note \in CxNotes :
            /\ note.kind \notin CxTurnKinds
            /\ note.kind = "thread/status/changed" => note.turn = IF svTurn = NoTurn THEN "idle" ELSE "active"
            /\ CxPuts(note) /\ svTurn' = svTurn
      BY <2>4 DEF CxSaid
    <3>2. Len(svQueue') = Len(svQueue) + 1 /\ svQueue'[Len(svQueue) + 1] = note
      BY <2>d, <3>1
    <3>3. svTurn # NoTurn => ~CxBreaks(svQueue'[Len(svQueue) + 1], svTurn)
      BY <3>1, <3>2 DEF CxBreaks, CxTurnKinds
    <3>4. Turn
      BY <1>0, <2>a, <3>1, <3>2, <3>3, CxLeadsPut
    <3>5. note.kind = "thread/status/changed" /\ note.turn = "active" => svTurn # NoTurn
      BY <3>1
    <3>6. Tells(Len(svQueue) + 1)
      <4>1. (Len(svQueue) + 1) - 1 = Len(svQueue)
        BY <1>0
      <4>2. QED
        BY <1>0, <2>a, <3>2, <3>5, <4>1
    <3>7. Notes
      BY <2>c, <3>1, <3>6
    <3>8. QED
      BY <3>4, <3>7, CxLeadPrimed
  <2>5. CASE CxErred
    <3>1. PICK note \in CxNotes :
            /\ note.kind = "error" \/ (note.kind = "thread/status/changed" /\ note.turn = "systemError")
            /\ CxPuts(note) /\ svTurn' = NoTurn
      BY <2>5 DEF CxErred
    <3>2. svQueue'[Len(svQueue) + 1] = note
      BY <2>d, <3>1
    <3>3. Notes
      BY <2>c, <3>1, <3>2
    <3>4. QED
      BY <3>1, <3>3, CxLeadPrimed
  <2>6. QED
    BY <2>0, <2>1, <2>2, <2>3, <2>4, <2>5 DEF CxServerEffect
<1>2. CASE CxHandler
  <2>0. /\ CxTakes /\ Len(svQueue) > 0 /\ Len(svQueue') = Len(svQueue) - 1 /\ svTurn' = svTurn
        /\ \A i \in 1..Len(svQueue') : svQueue'[i] = svQueue[i + 1]
    BY <1>2, CxHeadSure, CxTakenQueue DEF CxTakes, CxShape
  <2>1. Len(svQueue') \in Nat /\ Len(svQueue') + 1 = Len(svQueue)
    BY <1>0, <2>0
  <2>2. Turn
    <3>1. svTurn # NoTurn => CxLeads(svTurn, Len(svQueue') + 1)
      BY <1>a, <2>1
    <3> DEFINE n == Len(svQueue')
    <3>2. n \in Nat /\ n + 1 <= Len(svQueue) /\ (svTurn # NoTurn => CxLeads(svTurn, n + 1))
      BY <1>0, <2>1, <3>1
    <3> HIDE DEF n
    <3>3. svTurn # NoTurn => CxLeadsNext(svTurn, n)
      BY <1>0, <1>2, <3>2, CxLeadsTaken
    <3>4. QED
      BY <2>0, <3>3 DEF n
  <2>3. ASSUME NEW i \in 1..Len(svQueue') PROVE Tells(i)
    <3>1. i + 1 \in 1..Len(svQueue) /\ svQueue'[i] = svQueue[i + 1] /\ i - 1 \in Nat /\ (i + 1) - 1 = (i - 1) + 1
          /\ (i - 1) + 1 <= Len(svQueue)
      BY <1>0, <2>0, <2>1
    <3>2. ASSUME NEW turn \in CxTurns, CxLeads(turn, (i + 1) - 1) PROVE CxLeadsNext(turn, i - 1)
      BY <1>2, <3>1, <3>2, CxLeadsTaken
    <3>3. QED
      BY <1>b, <3>1, <3>2
  <2>4. QED
    BY <2>2, <2>3, CxLeadPrimed
<1>3. QED
  BY <1>1, <1>2

\* What a running worker waits for: its active turn, a turn that is starting, or the
\* answer to a start.
CxStarting(c) == cxPc[c] \in {"send", "wait", "failed"} /\ cxOp[c] \in {"prompt", "compact"}
CxRunInv ==
  CxSure /\ cxStatus = "running" =>
    \/ cxActive # NoTurn
    \/ \E i \in 1..Len(svQueue) : svQueue[i].kind = "turn/started"
    \/ \E c \in CxCalls : CxStarting(c)

\* While the channel is empty the callback has the status; else the channel has.
CxToldInv == ~cxClosed => cxStatus = IF cxChannel = "empty" THEN cxTold ELSE cxChannel

LEMMA CxToldKeeps == CxShape /\ CxToldInv /\ [CxNext]_cxVars => CxToldInv'
<1> SUFFICES ASSUME CxShape, CxToldInv, [CxNext]_cxVars PROVE CxToldInv'
  OBVIOUS
<1> USE DEF cxStatVars, cxEndVars
<1>0. cxStatus \in {"idle", "running", "error"} /\ cxChannel \in {"empty", "idle", "running", "error"}
      /\ cxClosed \in BOOLEAN /\ cxStatus' \in {"idle", "running", "error"}
  BY CxShapeKeeps DEF CxShape, CxTypeOK
<1>1. ASSUME UNCHANGED cxStatVars, cxClosed => cxClosed' PROVE CxToldInv'
  BY <1>0, <1>1 DEF CxToldInv
<1>2. ASSUME NEW state, CxSetStatus(state), cxClosed' = cxClosed PROVE CxToldInv'
  BY <1>0, <1>2 DEF CxToldInv, CxSetStatus
<1>3. ASSUME CxProtocolError, cxTold' = cxTold, cxClosed' = cxClosed PROVE CxToldInv'
  BY <1>1, <1>2, <1>3 DEF CxProtocolError
<1>4. ASSUME NEW c \in CxCalls, CxCallStep(c) PROVE CxToldInv'
  <2>1. CASE \E op \in CxOps : CxPrompt(c, op)
    BY <1>2, <2>1 DEF CxPrompt
  <2>2. CASE CxFailed(c)
    <3>1. cxTold' = cxTold /\ cxClosed' = cxClosed
      BY <2>2 DEF CxFailed
    <3>2. CxProtocolError \/ \E state : CxSetStatus(state)
      BY <2>2 DEF CxFailed, CxOperationError
    <3>3. QED
      BY <1>2, <1>3, <3>1, <3>2
  <2>3. CASE CxAbort(c) \/ CxSetModel(c) \/ CxSend(c) \/ CxCallFails(c) \/ CxSucceed(c)
    BY <1>1, <2>3 DEF CxAbort, CxSetModel, CxSend, CxCallFails, CxSucceed
  <2>4. QED
    BY <1>4, <2>1, <2>2, <2>3 DEF CxCallStep
<1>5. CASE CxNotifier
  BY <1>0, <1>5 DEF CxNotifier, CxToldInv
<1>6. CASE CxReportDown
  BY <1>3, <1>6 DEF CxReportDown
<1>7. CASE CxClose \/ CxServer
  BY <1>1, <1>7 DEF CxClose, CxServer, SvServes, SvTurnEnds, SvNotifiesEnd, SvSpeaks, SvDies, SvReadsThread, SvKeeps
<1>8. CASE CxReaders
  <2>1. CASE CxTimerFires \/ \E job \in cxJobs : CxMaterialize(job)
    BY <1>1, <2>1 DEF CxTimerFires, CxMaterialize
  <2>2. ASSUME NEW read \in cxReads, CxCompletedRead(read) \/ CxRefreshRead(read) PROVE CxToldInv'
    BY <1>1, <2>2 DEF CxCompletedRead, CxRefreshRead
  <2>3. ASSUME NEW read \in cxReads, CxReadFails(read) PROVE CxToldInv'
    BY <1>1, <1>3, <2>3 DEF CxReadFails
  <2>4. QED
    BY <1>8, <2>1, <2>2, <2>3 DEF CxReaders
<1>9. CASE CxHandler
  <2>1. cxTold' = cxTold /\ cxClosed' = cxClosed
    BY <1>9, CxHandlerTakes
  <2>2. UNCHANGED <<cxStatus, cxChannel>> \/ CxProtocolError \/ \E state : CxSetStatus(state)
    BY <1>9 DEF CxHandler, CxTurnStarted, CxLiveItem, CxOutputDelta, CxNotice, CxApplyLive, CxMessageDelta,
      CxItemCompleted, CxTurnCompleted, CxThreadStatus, CxRenamed, CxTerminalError
  <2>3. QED
    BY <1>1, <1>2, <1>3, <2>1, <2>2
<1>10. CASE UNCHANGED cxVars
  BY <1>1, <1>10 DEF cxVars
<1>11. QED
  BY <1>4, <1>5, <1>6, <1>7, <1>8, <1>9, <1>10 DEF CxNext

LEMMA CxRunKeeps == CxShape /\ CxLeadInv /\ CxRunInv /\ [CxNext]_cxVars => CxRunInv'
<1> SUFFICES ASSUME CxShape, CxLeadInv, CxRunInv, [CxNext]_cxVars, CxSure', cxStatus' = "running" PROVE CxRunInv'
  BY DEF CxRunInv
<1>z. NoTurn \notin CxTurns
  BY CxTurnsAssumption DEF NoTurn
<1>0. CxSure /\ Len(svQueue) \in Nat /\ CxCallShape /\ CxQueueShape /\ NoTurn \notin CxTurns
  BY <1>z, CxSureBefore DEF CxShape, CxQueueShape
<1>a. cxStatus = "running" =>
        \/ cxActive # NoTurn
        \/ \E i \in 1..Len(svQueue) : svQueue[i].kind = "turn/started"
        \/ \E c \in CxCalls : CxStarting(c)
  BY <1>0 DEF CxRunInv
<1> DEFINE Begins == \E i \in 1..Len(svQueue) : svQueue[i].kind = "turn/started"
           Starts == \E c \in CxCalls : CxStarting(c)
<1>1. ASSUME cxActive' # NoTurn PROVE CxRunInv'
  BY <1>1 DEF CxRunInv
<1>2. CASE ~CxHandler
  <2>0. CxServerEffect
    BY <1>2, CxStepEffect DEF CxEffect, CxGone, CxSure
  <2>1. cxActive # NoTurn => cxActive' # NoTurn
    BY <1>0, <1>2, CxActiveStill DEF CxAcknowledged, CxCallShape
  <2>2. Begins => Begins'
    <3>1. ASSUME NEW i \in 1..Len(svQueue), svQueue[i].kind = "turn/started"
          PROVE  i \in 1..Len(svQueue') /\ svQueue'[i].kind = "turn/started"
      BY <1>0, <2>0, <3>1, CxPutGrows
    <3>2. QED
      BY <3>1
  <2>3. ASSUME cxStatus = "running", Starts => Starts' \/ Begins' \/ cxActive' # NoTurn PROVE CxRunInv'
    BY <1>a, <2>1, <2>2, <2>3 DEF CxRunInv
  <2>4. ASSUME NEW c \in CxCalls, CxCallStep(c) PROVE CxRunInv'
    <3>0. ASSUME \E label : cxPc' = [cxPc EXCEPT ![c] = label], cxOp' = cxOp \/ \E op : cxOp' = [cxOp EXCEPT ![c] = op],
                 NEW d \in CxCalls, d # c, CxStarting(d)
          PROVE  CxStarting(d)'
      BY <1>0, <3>0 DEF CxCallShape, CxStarting
    <3>1. CASE \E op \in CxOps : CxPrompt(c, op)
      <4>1. PICK op \in {"prompt", "compact"} :
              /\ cxPc' = [cxPc EXCEPT ![c] = "send"] /\ cxActive' = cxActive
              /\ cxOp' = [cxOp EXCEPT ![c] = IF cxActive # NoTurn THEN "steer" ELSE op]
        BY <3>1 DEF CxPrompt, CxGoto
      <4>2. cxActive = NoTurn => CxStarting(c)'
        BY <1>0, <4>1 DEF CxCallShape, CxStarting
      <4>3. QED
        BY <2>1, <4>2 DEF CxRunInv
    <3>2. CASE CxAbort(c) \/ CxSetModel(c) \/ CxSucceed(c)
      <4>1. /\ cxPc[c] \in {"new", "answered"} /\ cxStatus' = cxStatus
            /\ \E label : cxPc' = [cxPc EXCEPT ![c] = label]
            /\ cxOp' = cxOp \/ \E op : cxOp' = [cxOp EXCEPT ![c] = op]
        BY <3>2 DEF CxAbort, CxSetModel, CxSucceed, CxReturns, CxGoto, cxStatVars
      <4>2. ~CxStarting(c)
        BY <4>1 DEF CxStarting
      <4>3. Starts => Starts'
        BY <3>0, <4>1, <4>2
      <4>4. QED
        BY <2>3, <4>1, <4>3
    <3>3. CASE CxSend(c) \/ CxCallFails(c)
      <4>1. cxStatus' = cxStatus /\ cxOp' = cxOp /\ \E label \in {"wait", "failed"} : cxPc' = [cxPc EXCEPT ![c] = label]
        BY <3>3 DEF CxSend, CxCallFails, CxGoto, cxStatVars
      <4>2. CxStarting(c) => CxStarting(c)'
        BY <1>0, <4>1 DEF CxCallShape, CxStarting
      <4>3. Starts => Starts'
        BY <3>0, <4>1, <4>2
      <4>4. QED
        BY <2>3, <4>1, <4>3
    <3>4. CASE CxFailed(c)
      <4>1. cxOp[c] \notin {"steer", "abort"} /\ cxActive' = cxActive
        BY <3>4 DEF CxFailed, CxSure
      <4>2. CxSetStatus(IF cxActive # NoTurn THEN "running" ELSE "idle")
        BY <1>0, <3>4, <4>1 DEF CxFailed, CxOperationError, CxSure
      <4>3. cxActive # NoTurn
        BY <4>2 DEF CxSetStatus
      <4>4. QED
        BY <1>1, <4>1, <4>3
    <3>5. QED
      BY <2>4, <3>1, <3>2, <3>3, <3>4 DEF CxCallStep
  <2>5. ASSUME UNCHANGED <<cxPc, cxOp>>, cxStatus = "running" PROVE CxRunInv'
    BY <2>3, <2>5 DEF CxStarting
  <2>6. CASE CxNotifier \/ CxReportDown \/ CxClose \/ CxReaders
    <3>1. UNCHANGED <<cxPc, cxOp>>
      BY <2>6 DEF CxNotifier, CxReportDown, CxClose, CxReaders, CxTimerFires, CxMaterialize, CxCompletedRead,
        CxRefreshRead, CxReadFails, cxCallVars
    <3>2. cxStatus' = cxStatus \/ CxProtocolError
      BY <2>6 DEF CxNotifier, CxReportDown, CxClose, CxReaders, CxTimerFires, CxMaterialize, CxCompletedRead,
        CxRefreshRead, CxReadFails, cxStatVars
    <3>3. cxStatus = "running"
      BY <3>2 DEF CxProtocolError, CxSetStatus
    <3>4. QED
      BY <2>5, <3>1, <3>3
  <2>7. ASSUME NEW request \in svInbox, SvServes(request) PROVE CxRunInv'
    <3>0. cxStatus' = cxStatus /\ cxOp' = cxOp
      BY <2>7 DEF SvServes, SvKeeps, cxStatVars
    <3> DEFINE c == request.call
    <3>1. c \in CxCalls /\ (cxPc[c] = "wait" => request.op = cxOp[c])
      BY <1>0 DEF CxCallShape
    <3> HIDE DEF c
    <3>2. ASSUME NEW answer, SvReply(c, answer), answer = "error" \/ cxOp[c] \notin {"prompt", "compact"} \/ cxPc[c] # "wait"
          PROVE  Starts => Starts'
      <4>1. CASE cxPc[c] # "wait"
        BY <3>0, <3>2, <4>1 DEF SvReply, CxStarting
      <4>2. CASE cxPc[c] = "wait"
        <5>1. cxPc' = [cxPc EXCEPT ![c] = IF answer = "error" THEN "failed" ELSE "answered"]
          BY <3>2, <4>2 DEF SvReply, CxGoto
        <5>2. ASSUME NEW d \in CxCalls, CxStarting(d) PROVE CxStarting(d)'
          <6>1. CASE d # c
            BY <1>0, <3>0, <5>1, <5>2, <6>1 DEF CxStarting, CxCallShape
          <6>2. CASE d = c
            BY <1>0, <3>0, <3>1, <3>2, <4>2, <5>1, <5>2, <6>2 DEF CxStarting, CxCallShape
          <6>3. QED
            BY <6>1, <6>2
        <5>3. QED
          BY <5>2
      <4>3. QED
        BY <4>1, <4>2
    <3>3. CASE CxTurnBegins
      <4>1. PICK turn \in CxTurns : CxPuts(Note("turn/started", turn, <<turn, NoItem>>))
        BY <3>3 DEF CxTurnBegins
      <4>2. Len(svQueue') = Len(svQueue) + 1 /\ svQueue'[Len(svQueue) + 1].kind = "turn/started"
        BY <1>0, <4>1, CxSentQueue DEF CxPuts, Note
      <4>3. Len(svQueue) + 1 \in 1..Len(svQueue')
        BY <1>0, <4>2
      <4>4. QED
        BY <4>2, <4>3 DEF CxRunInv
    <3>4. CASE \E answer : /\ SvReply(c, answer)
                           /\ answer = "error" \/ request.op \notin {"prompt", "compact"}
      <4>1. Starts => Starts'
        BY <3>1, <3>2, <3>4
      <4>2. QED
        BY <2>3, <3>0, <4>1
    <3>6. CASE /\ request.op \in {"prompt", "compact"} /\ svTurn = NoTurn
               /\ svUsed # CxTurns /\ svTurn' = CHOOSE t \in CxTurns \ svUsed : TRUE
      <4> DEFINE turn == CHOOSE t \in CxTurns \ svUsed : TRUE
      <4>1. turn \in CxTurns /\ svTurn' = turn
        BY <3>6, CxNextTurn DEF CxShape
      <4> HIDE DEF turn
      <4>2. svTurn' # svTurn /\ svTurn' # NoTurn
        BY <1>0, <3>6, <4>1
      <4>3. CxTurnBegins
        BY <2>7, <4>2, CxServes DEF CxQuietStep, CxTurnEnds
      <4>4. QED
        BY <3>3, <4>3
    <3>7. \/ /\ request.op \in {"prompt", "compact"} /\ svTurn = NoTurn
             /\ svUsed # CxTurns /\ svTurn' = CHOOSE t \in CxTurns \ svUsed : TRUE
          \/ \E answer : /\ SvReply(c, answer)
                         /\ answer = "error" \/ request.op \notin {"prompt", "compact"}
      BY <2>7 DEF SvServes, c
    <3>8. QED
      BY <3>4, <3>6, <3>7
  <2>8. CASE SvTurnEnds \/ SvNotifiesEnd \/ SvSpeaks \/ \E read \in cxReads : SvReadsThread(read)
    BY <2>5, <2>8 DEF SvTurnEnds, SvNotifiesEnd, SvSpeaks, SvReadsThread, SvKeeps, cxStatVars
  <2>9. CASE SvDies
    BY <2>9 DEF SvDies, CxSure
  <2>10. CASE UNCHANGED cxVars
    BY <2>5, <2>10 DEF cxVars, cxCallVars, cxStatVars
  <2>11. QED
    BY <1>2, <2>4, <2>6, <2>7, <2>8, <2>9, <2>10 DEF CxNext, CxServer
<1>3. CASE CxHandler
  <2>0. /\ CxTakes /\ svQueue[1].kind # "error" /\ svQueue[1].turn # "systemError" /\ Head(svQueue) = svQueue[1]
        /\ Len(svQueue) > 0 /\ 1 \in 1..Len(svQueue)
    BY <1>0, <1>3, CxHeadSure
  <2>1. Len(svQueue') = Len(svQueue) - 1 /\ \A i \in 1..Len(svQueue') : svQueue'[i] = svQueue[i + 1]
    BY <1>0, <2>0, CxTakenQueue DEF CxTakes
  <2>2. UNCHANGED <<cxPc, cxOp>>
    BY <1>3, CxHandlerTakes DEF cxCallVars
  <2>3. ASSUME svQueue[1].kind # "turn/started", Begins PROVE Begins'
    <3>1. PICK i \in 1..Len(svQueue) : svQueue[i].kind = "turn/started"
      BY <2>3
    <3>2. i # 1
      BY <2>3, <3>1
    <3>3. i - 1 \in 1..Len(svQueue') /\ (i - 1) + 1 = i
      BY <1>0, <2>1, <3>2
    <3>4. QED
      BY <2>1, <3>1, <3>3
  <2>4. Starts => Starts'
    BY <2>2 DEF CxStarting
  <2>5. ASSUME cxStatus' = cxStatus, cxActive' = cxActive, svQueue[1].kind # "turn/started" PROVE CxRunInv'
    BY <1>a, <2>3, <2>4, <2>5 DEF CxRunInv
  <2>6. CASE CxTurnStarted
    <3>1. cxActive' = svQueue[1].turn /\ svQueue[1].kind = "turn/started"
      BY <2>0, <2>6 DEF CxTurnStarted, CxTake
    <3>2. svQueue[1].turn \in CxTurns
      BY <1>0, <2>0, <3>1 DEF CxQueueShape, CxNoteFits, CxTurnKinds
    <3>3. QED
      BY <1>0, <1>1, <3>1, <3>2
  <2>7. CASE CxTurnCompleted
    <3>1. svQueue[1].kind = "turn/completed"
      BY <2>0, <2>7 DEF CxTurnCompleted, CxTake
    <3>2. cxActive # svQueue[1].turn /\ cxStatus' = cxStatus /\ cxActive' = cxActive
      BY <2>0, <2>7 DEF CxTurnCompleted, CxSetStatus
    <3>3. QED
      BY <2>5, <3>1, <3>2
  <2>8. CASE CxThreadStatus
    <3>1. svQueue[1].kind = "thread/status/changed"
      BY <2>0, <2>8 DEF CxThreadStatus, CxTake
    <3>2. svQueue[1].turn \in {"idle", "active", "systemError"}
      BY <1>0, <2>0, <3>1 DEF CxQueueShape, CxNoteFits
    <3>3. svQueue[1].turn = "active"
      BY <2>0, <2>8, <3>2 DEF CxThreadStatus, CxSetStatus
    <3>4. PICK turn \in CxTurns : CxLeads(turn, 1 - 1)
      BY <1>0, <2>0, <3>1, <3>3 DEF CxLeadInv
    <3>5. cxActive = turn
      BY <3>4 DEF CxLeads
    <3>6. cxActive' = cxActive
      BY <2>0, <2>8, <3>3 DEF CxThreadStatus
    <3>7. QED
      BY <1>0, <1>1, <3>5, <3>6
  <2>9. CASE CxTerminalError
    BY <2>0, <2>9 DEF CxTerminalError, CxTake
  <2>10. CASE CxLiveItem \/ CxOutputDelta \/ CxNotice \/ CxMessageDelta \/ CxItemCompleted \/ CxRenamed
    <3>1. cxStatus' = cxStatus /\ cxActive' = cxActive
      BY <2>10 DEF CxLiveItem, CxOutputDelta, CxNotice, CxApplyLive, CxMessageDelta, CxItemCompleted, CxRenamed
    <3>2. svQueue[1].kind # "turn/started"
      BY <2>0, <2>10 DEF CxLiveItem, CxOutputDelta, CxNotice, CxMessageDelta, CxItemCompleted, CxRenamed, CxTake
    <3>3. QED
      BY <2>5, <3>1, <3>2
  <2>11. QED
    BY <1>3, <2>6, <2>7, <2>8, <2>9, <2>10 DEF CxHandler
<1>4. QED
  BY <1>2, <1>3

CxMore == CxShape /\ CxEndInv /\ CxLeadInv /\ CxRunInv /\ CxToldInv

LEMMA CxMoreStarts == CxInit => CxMore
<1> SUFFICES ASSUME CxInit PROVE CxMore
  OBVIOUS
<1>1. svQueue = <<>> /\ svQueue \in Seq(CxNotes) /\ Len(svQueue) = 0
  BY DEF CxInit
<1>2. CxQueueShape /\ CxTurnShape
  <2>1. CxQueueShape
    BY <1>1 DEF CxQueueShape
  <2>2. CxTurnShape
    BY DEF CxInit, CxTurnShape
  <2>3. QED
    BY <2>1, <2>2
<1>3. CxCallShape
  BY DEF CxInit, CxCallShape
<1>4. CxTypeOK
  <2>1. cxMat.rev = 0 /\ cxRev = 0 /\ svSent = 0 /\ CxMaxNotes \in Nat
    BY CxBoundsAssumption DEF CxInit
  <2>2. cxMat.rev \in 0..cxRev /\ svSent \in 0..CxMaxNotes /\ cxRev \in Nat
    BY <2>1
  <2>3. /\ cxStatus \in {"idle", "running", "error"} /\ cxTold \in {"idle", "running", "error"}
        /\ cxChannel \in {"empty", "idle", "running", "error"}
    BY DEF CxInit
  <2>4. {cxTimer, cxDown, cxReported, cxClosed, cxDoubt} \subseteq BOOLEAN
    BY DEF CxInit
  <2>5. /\ cxActive \in CxTurns \cup {NoTurn} /\ cxCompleted \subseteq CxTurns /\ svTurn \in CxTurns \cup {NoTurn}
        /\ cxTurnOp \in CxCalls \cup {NoCaller}
    BY DEF CxInit
  <2>6. QED
    BY <1>3, <2>2, <2>3, <2>4, <2>5 DEF CxTypeOK, CxCallShape
<1>5. CxEndInv
  BY <1>1 DEF CxInit, CxEndInv
<1>6. CxLeadInv /\ CxRunInv /\ CxToldInv
  BY <1>1 DEF CxInit, CxLeadInv, CxRunInv, CxToldInv
<1>7. QED
  BY <1>2, <1>3, <1>4, <1>5, <1>6 DEF CxMore, CxShape

LEMMA CxMoreKeeps == CxMore /\ [CxNext]_cxVars => CxMore'
BY CxShapeKeeps, CxEndKeeps, CxLeadKeeps, CxRunKeeps, CxToldKeeps DEF CxMore

LEMMA CxHolds == CxMore => CxTypeOK /\ CxSettles /\ CxLatestTold
<1> SUFFICES ASSUME CxMore PROVE CxTypeOK /\ CxSettles /\ CxLatestTold
  OBVIOUS
<1>1. CxTypeOK
  BY DEF CxMore, CxShape
<1>2. CxLatestTold
  BY DEF CxMore, CxToldInv, CxLatestTold
<1>3. ASSUME CxQuiet, ~cxDoubt PROVE cxActive = NoTurn /\ cxStatus # "running"
  <2>1. CxSure /\ svTurn = NoTurn /\ svOwed = {} /\ Len(svQueue) = 0
    BY <1>3 DEF CxQuiet, CxSure
  <2>2. ~CxEndsAfter(cxActive, 0) \/ cxActive = NoTurn
    BY <2>1 DEF CxEndsAfter, CxOwes
  <2>3. cxActive = NoTurn
    BY <2>1, <2>2 DEF CxMore, CxEndInv
  <2>4. \A c \in CxCalls : ~CxStarting(c)
    BY <1>3 DEF CxQuiet, CxStarting
  <2>5. QED
    BY <2>1, <2>3, <2>4 DEF CxMore, CxRunInv
<1>4. QED
  BY <1>1, <1>2, <1>3 DEF CxSettles

-----------------------------------------------------------------------------
(* Pi: PiShape types the pipes; PiCallInv says where the answer of each call   *)
(* is; PiPreviewInv what the throttle holds back; PiRunInv why a live worker    *)
(* shows a run, be it that its end is behind other lines.                       *)

PiNotices == {"message_update", "message_end", "extension_ui_request", "agent_end"}
PiRecords ==
  [kind : {"response"}, call : AllPiCalls, answer : {"ok", "fail"}]
    \cup [kind : PiNotices, call : {PiNoCall}, answer : {"none"}]
PiBegun == {c \in AllPiCalls : piPc[c] \notin {"new", "register", "write"}}

\* What is in the pipes belongs to calls that have been written.
PiShape ==
  /\ PiTypeOK
  /\ piSaid \in Nat
  /\ DOMAIN piOp = AllPiCalls
  /\ piIn \in Seq(PiBegun)
  /\ piOut \in Seq(PiRecords)
  /\ \A i \in 1..Len(piOut) : piOut[i].kind = "response" => piOut[i].call \in PiBegun

\* A step of one call.
PiMoves(c) ==
  /\ c \in AllPiCalls
  /\ \E label \in {"register", "write", "wait", "answered", "failed", "ok", "error"} :
       /\ piPc' = [piPc EXCEPT ![c] = label]
       /\ label \in {"register", "write"} => c \notin PiBegun

LEMMA PiBegunGrows ==
  ASSUME NEW c, PiTypeOK, PiMoves(c)
  PROVE  PiBegun \subseteq PiBegun'
         /\ piPc' \in [AllPiCalls -> {"new", "register", "write", "wait", "answered", "failed", "ok", "error"}]
  BY DEF PiBegun, PiTypeOK, PiMoves

LEMMA SeqGrows ==
  ASSUME NEW S, NEW T, S \subseteq T, NEW s \in Seq(S) PROVE s \in Seq(T)
  OBVIOUS

LEMMA PiCallShape ==
  ASSUME PiShape, NEW c \in AllPiCalls, PiCallStep(c) PROVE PiShape'
<1> USE DEF piProcVars, piCallVars, piViewVars, piStatVars, piLoopVars, PiGoto
<1>t. PiTypeOK
  BY DEF PiShape
<1>1. PiMoves(c)
  BY <1>t DEF PiCallStep, PiStart, PiRegister, PiWrite, PiReceive, PiTimeout, PiSucceed, PiFail, PiMoves,
    PiBegun, PiTypeOK
<1>2. PiBegun \subseteq PiBegun'
      /\ piPc' \in [AllPiCalls -> {"new", "register", "write", "wait", "answered", "failed", "ok", "error"}]
  BY <1>1, <1>t, PiBegunGrows
<1>3. piOut' = piOut /\ piSaid' = piSaid /\ DOMAIN piOp' = DOMAIN piOp
  BY DEF PiCallStep, PiStart, PiRegister, PiWrite, PiReceive, PiTimeout, PiSucceed, PiFail
<1>4. piIn' = piIn \/ (piIn' = Append(piIn, c) /\ c \in PiBegun')
  BY <1>t DEF PiCallStep, PiStart, PiRegister, PiWrite, PiReceive, PiTimeout, PiSucceed, PiFail, PiTypeOK, PiBegun
<1>5. piIn' \in Seq(PiBegun')
  <2>1. piIn \in Seq(PiBegun')
    BY <1>2, SeqGrows DEF PiShape
  <2>2. QED
    BY <1>2, <1>4, <2>1
<1>6. /\ {piAlive, piTurn} \subseteq BOOLEAN /\ UNCHANGED <<piAlive, piTurn, piReader, piWaiter, piShown, piDraft>>
  BY <1>t DEF PiCallStep, PiStart, PiRegister, PiWrite, PiReceive, PiTimeout, PiSucceed, PiFail, PiTypeOK
<1>7. /\ piStatus' \in {"idle", "running", "error"}
      /\ piExitCode' \in BOOLEAN /\ piRecent' \in BOOLEAN /\ piCommands' \in BOOLEAN /\ piClosing' \in BOOLEAN
      /\ piAsk' \in {"none", "pending", "due", "answered", "gone"}
  BY <1>t DEF PiCallStep, PiStart, PiRegister, PiWrite, PiReceive, PiTimeout, PiSucceed, PiFail, PiTypeOK
<1>8. piPending' \subseteq AllPiCalls
  BY <1>t DEF PiCallStep, PiStart, PiRegister, PiWrite, PiReceive, PiTimeout, PiSucceed, PiFail, PiTypeOK
<1>9. piBox' \in [AllPiCalls -> {"empty", "ok", "fail"}]
  BY <1>t DEF PiCallStep, PiStart, PiRegister, PiWrite, PiReceive, PiTimeout, PiSucceed, PiFail, PiTypeOK
<1>10. PiTypeOK'
  BY <1>t, <1>2, <1>6, <1>7, <1>8, <1>9 DEF PiTypeOK
<1>11. QED
  BY <1>2, <1>3, <1>5, <1>10 DEF PiShape

\* The pipes and the process; the calls stand still.
LEMMA PiProcessShape ==
  ASSUME PiShape, PiProcess PROVE PiShape'
<1> USE DEF piProcVars, piCallVars, piViewVars, piStatVars, piLoopVars
<1>t. PiTypeOK /\ UNCHANGED <<piCallVars, piViewVars, piStatVars, piLoopVars>>
  BY DEF PiShape, PiProcess, PiHandles, PiSpeaks, PiRunEnds, PiDies
<1>1. PiBegun' = PiBegun
  BY <1>t DEF PiBegun
<1>2. piAlive' \in BOOLEAN /\ piTurn' \in BOOLEAN
  <2>1. CASE PiHandles
    BY <1>t, <2>1 DEF PiHandles, PiTypeOK
  <2>2. CASE ~PiHandles
    BY <1>t, <2>2 DEF PiProcess, PiSpeaks, PiRunEnds, PiDies, PiTypeOK
  <2>3. QED
    BY <2>1, <2>2
<1>3. PiTypeOK'
  BY <1>t, <1>2 DEF PiTypeOK
<1>4. PiLine("agent_end") \in PiRecords /\ PiLine("agent_end").kind # "response"
  BY DEF PiLine, PiRecords, PiNotices
<1>5. CASE PiHandles
  <2>1. PICK answer \in {"ok", "fail"} :
          piOut' \in {piOut \o <<PiLine("agent_end"), PiAnswer(Head(piIn), answer)>>,
                      Append(piOut, PiAnswer(Head(piIn), answer))}
    BY <1>5 DEF PiHandles
  <2>2. piIn # <<>> /\ piIn' = Tail(piIn) /\ piIn \in Seq(PiBegun) /\ piOut \in Seq(PiRecords)
    BY <1>5 DEF PiHandles, PiShape
  <2>3. Head(piIn) \in PiBegun /\ piIn' \in Seq(PiBegun) /\ PiBegun \subseteq AllPiCalls
    BY <2>2 DEF PiBegun
  <2> DEFINE reply == PiAnswer(Head(piIn), answer)
  <2>4. reply \in PiRecords /\ reply.call \in PiBegun
    BY <2>3 DEF PiAnswer, PiRecords
  <2> HIDE DEF reply
  <2>5. CASE piOut' = Append(piOut, reply)
    <3>1. piOut' \in Seq(PiRecords) /\ Len(piOut') = Len(piOut) + 1 /\ piOut'[Len(piOut) + 1] = reply
          /\ \A i \in 1..Len(piOut) : piOut'[i] = piOut[i]
      BY <2>2, <2>4, <2>5
    <3>2. \A i \in 1..Len(piOut') : piOut'[i].kind = "response" => piOut'[i].call \in PiBegun'
      BY <1>1, <2>2, <2>4, <3>1 DEF PiShape
    <3>3. QED
      BY <1>t, <1>1, <1>3, <2>3, <3>1, <3>2 DEF PiShape
  <2>6. CASE piOut' = piOut \o <<PiLine("agent_end"), reply>>
    <3>1. piOut' \in Seq(PiRecords) /\ Len(piOut') = Len(piOut) + 2 /\ piOut'[Len(piOut) + 2] = reply
          /\ piOut'[Len(piOut) + 1] = PiLine("agent_end")
          /\ \A i \in 1..Len(piOut) : piOut'[i] = piOut[i]
      BY <1>4, <2>2, <2>4, <2>6
    <3>2. \A i \in 1..Len(piOut') : piOut'[i].kind = "response" => piOut'[i].call \in PiBegun'
      BY <1>1, <1>4, <2>2, <2>4, <3>1 DEF PiShape
    <3>3. QED
      BY <1>t, <1>1, <1>3, <2>3, <3>1, <3>2 DEF PiShape
  <2>7. QED
    BY <2>1, <2>5, <2>6 DEF reply
<1>6. CASE PiSpeaks \/ PiRunEnds
  <2>1. PICK kind \in PiNotices : piOut' = Append(piOut, PiLine(kind))
    BY <1>6 DEF PiSpeaks, PiRunEnds, PiNotices
  <2>2. piIn' = piIn /\ piOut \in Seq(PiRecords)
    BY <1>6 DEF PiSpeaks, PiRunEnds, PiShape
  <2>3. PiLine(kind) \in PiRecords /\ PiLine(kind).kind # "response"
    BY DEF PiLine, PiRecords, PiNotices
  <2>4. piOut' \in Seq(PiRecords) /\ Len(piOut') = Len(piOut) + 1
        /\ piOut'[Len(piOut) + 1].kind # "response"
        /\ \A i \in 1..Len(piOut) : piOut'[i] = piOut[i]
    BY <2>1, <2>2, <2>3
  <2>5. \A i \in 1..Len(piOut') : piOut'[i].kind = "response" => piOut'[i].call \in PiBegun'
    BY <1>1, <2>2, <2>4 DEF PiShape
  <2>6. QED
    BY <1>t, <1>1, <1>3, <2>2, <2>4, <2>5 DEF PiShape
<1>7. CASE PiDies
  BY <1>t, <1>1, <1>3, <1>7 DEF PiDies, PiShape
<1>8. QED
  BY <1>5, <1>6, <1>7 DEF PiProcess

\* The reader takes one line.
LEMMA PiTakeShape ==
  ASSUME PiShape, NEW kind, PiTake(kind), UNCHANGED <<piPc, piOp>>
  PROVE  /\ Head(piOut) = piOut[1] /\ Head(piOut) \in PiRecords /\ Head(piOut).kind = kind
         /\ kind = "response" => Head(piOut).call \in AllPiCalls /\ Head(piOut).answer \in {"ok", "fail"}
         /\ piOut' \in Seq(PiRecords) /\ piIn' \in Seq(PiBegun') /\ DOMAIN piOp' = AllPiCalls
         /\ Len(piOut') = Len(piOut) - 1 /\ Len(piOut) > 0
         /\ \A i \in 1..Len(piOut') : piOut'[i] = piOut[i + 1]
         /\ \A i \in 1..Len(piOut') : piOut'[i].kind = "response" => piOut'[i].call \in PiBegun'
<1>1. piOut # <<>> /\ piOut \in Seq(PiRecords) /\ piOut' = Tail(piOut) /\ Head(piOut).kind = kind
  BY DEF PiTake, PiShape
<1>2. piIn' = piIn /\ PiBegun' = PiBegun
  BY DEF PiTake, PiBegun
<1>3. Head(piOut) = piOut[1] /\ Head(piOut) \in PiRecords
  BY <1>1
<1>4. piOut' \in Seq(PiRecords) /\ Len(piOut') = Len(piOut) - 1 /\ Len(piOut) > 0
      /\ \A i \in 1..Len(piOut') : piOut'[i] = piOut[i + 1]
  BY <1>1
<1>5. kind = "response" => Head(piOut).call \in AllPiCalls /\ Head(piOut).answer \in {"ok", "fail"}
  BY <1>1, <1>3 DEF PiRecords, PiNotices
<1>6. \A i \in 1..Len(piOut') : piOut'[i].kind = "response" => piOut'[i].call \in PiBegun'
  BY <1>1, <1>2, <1>4 DEF PiShape
<1>7. QED
  BY <1>1, <1>2, <1>3, <1>4, <1>5, <1>6 DEF PiShape

LEMMA PiReaderShape ==
  ASSUME PiShape, PiReaderStep \/ PiWaitReturns \/ PiClose \/ PiRespond \/ PiAskExpires \/ PiWindowPasses
  PROVE  PiShape'
<1> USE DEF piProcVars, piCallVars, piViewVars, piStatVars, piLoopVars
<1>t. PiTypeOK
  BY DEF PiShape
<1>1. CASE PiReadResponse
  <2>1. PiTake("response") /\ UNCHANGED <<piPc, piOp>>
    BY <1>1 DEF PiReadResponse
  <2>2. PiTypeOK'
    BY <1>1, <1>t, <2>1, PiTakeShape DEF PiReadResponse, PiTypeOK, PiTake
  <2>3. QED
    BY <1>1, <2>1, <2>2, PiTakeShape DEF PiShape, PiReadResponse
<1>2. CASE PiReadUpdate
  <2>1. PiTake("message_update") /\ UNCHANGED <<piPc, piOp>>
    BY <1>2 DEF PiReadUpdate
  <2>2. PiTypeOK'
    <3>0. piDraft \in Nat /\ piShown \in Nat \X BOOLEAN
      BY <1>t DEF PiTypeOK
    <3>1. <<piDraft + 1, FALSE>> \in Nat \X BOOLEAN
      <4>1. ASSUME NEW n \in Nat PROVE <<n, FALSE>> \in Nat \X BOOLEAN
        BY Zenon
      <4>2. piDraft + 1 \in Nat
        BY <3>0
      <4>3. QED
        BY <4>1, <4>2
    <3>2. piShown' \in Nat \X BOOLEAN /\ piDraft' \in Nat
      BY <1>2, <3>0, <3>1 DEF PiReadUpdate
    <3>3. /\ piRecent'
          /\ UNCHANGED <<piAlive, piTurn, piClosing, piCallVars, piReader, piWaiter, piAsk, piStatus, piExitCode>>
      BY <1>2, <2>1 DEF PiReadUpdate, PiTake
    <3>4. QED
      BY <1>t, <3>2, <3>3 DEF PiTypeOK
  <2>3. piSaid' \in Nat
    BY <1>2, <1>t DEF PiReadUpdate, PiShape
  <2>4. QED
    BY <2>1, <2>2, <2>3, PiTakeShape DEF PiShape
<1>3. CASE PiReadMessageEnd \/ PiReadAgentEnd
  <2>1. PICK kind : PiTake(kind) /\ UNCHANGED <<piPc, piOp>>
    BY <1>3 DEF PiReadMessageEnd, PiReadAgentEnd
  <2>2. PiTypeOK'
    <3>1. piShown' \in Nat \X BOOLEAN /\ piDraft' \in Nat
      <4>1. PiCompletePreview
        BY <1>3 DEF PiReadMessageEnd, PiReadAgentEnd
      <4>2. piShown \in Nat \X BOOLEAN /\ piDraft \in Nat
        BY <1>t DEF PiTypeOK
      <4>3. <<piDraft, TRUE>> \in Nat \X BOOLEAN
        BY <4>2
      <4>4. QED
        BY <4>1, <4>2, <4>3 DEF PiCompletePreview
    <3>2. /\ piStatus' \in {"idle", piStatus} /\ piExitCode' \in {piExitCode, FALSE} /\ piRecent' \in BOOLEAN
          /\ UNCHANGED <<piAlive, piTurn, piClosing, piCallVars, piReader, piWaiter, piAsk>>
      BY <1>3, <2>1 DEF PiReadMessageEnd, PiReadAgentEnd, PiTake
    <3>3. QED
      BY <1>t, <3>1, <3>2 DEF PiTypeOK
  <2>3. piSaid' \in Nat
    BY <1>3, <1>t DEF PiReadMessageEnd, PiReadAgentEnd, PiCompletePreview, PiShape
  <2>4. QED
    BY <2>1, <2>2, <2>3, PiTakeShape DEF PiShape
<1>4. CASE PiReadAsk
  <2>1. PiTake("extension_ui_request") /\ UNCHANGED <<piPc, piOp>>
    BY <1>4 DEF PiReadAsk
  <2>2. PiTypeOK'
    <3>1. /\ piAsk' \in {piAsk, "pending"}
          /\ UNCHANGED <<piAlive, piTurn, piClosing, piCallVars, piReader, piWaiter, piShown, piDraft, piStatVars>>
      BY <1>4, <2>1 DEF PiReadAsk, PiTake
    <3>2. QED
      BY <1>t, <3>1 DEF PiTypeOK
  <2>3. QED
    BY <1>4, <2>1, <2>2, PiTakeShape DEF PiShape, PiReadAsk
<1>5. CASE PiReadFails \/ PiWaitReturns
  <2>1. PICK withCode \in BOOLEAN : PiSetError(withCode)
    BY <1>5 DEF PiReadFails, PiWaitReturns
  <2>2. UNCHANGED <<piPc, piIn, piOut, piOp, piSaid>>
    BY <2>1 DEF PiSetError
  <2>3. piReader' \in {"running", "done"} /\ piWaiter' \in {"running", "done"}
    BY <1>5, <1>t DEF PiReadFails, PiWaitReturns, PiTypeOK
  <2>4. PiTypeOK'
    BY <1>t, <2>1, <2>3 DEF PiSetError, PiTypeOK
  <2>5. QED
    BY <2>2, <2>4 DEF PiShape, PiBegun
<1>6. CASE PiClose \/ PiRespond \/ PiAskExpires \/ PiWindowPasses
  <2>1. UNCHANGED <<piPc, piIn, piOut, piOp, piSaid>>
    BY <1>6 DEF PiClose, PiRespond, PiAskExpires, PiWindowPasses
  <2>2. PiTypeOK'
    BY <1>6, <1>t DEF PiClose, PiRespond, PiAskExpires, PiWindowPasses, PiTypeOK
  <2>3. QED
    BY <2>1, <2>2 DEF PiShape, PiBegun
<1>7. QED
  BY <1>1, <1>2, <1>3, <1>4, <1>5, <1>6 DEF PiReaderStep

LEMMA PiShapeKeeps == PiShape /\ [PiNext]_piVars => PiShape'
<1> SUFFICES ASSUME PiShape, [PiNext]_piVars PROVE PiShape'
  OBVIOUS
<1>1. CASE UNCHANGED piVars
  BY <1>1 DEF piVars, piProcVars, piCallVars, piViewVars, piStatVars, piLoopVars, PiShape, PiTypeOK, PiBegun
<1>2. CASE PiNext
  BY <1>2, PiCallShape, PiProcessShape, PiReaderShape DEF PiNext
<1>3. QED
  BY <1>1, <1>2

\* A call that is being made stands in the map or has its answer, never both.
PiCallInv ==
  /\ \A c \in AllPiCalls :
       /\ piPc[c] \in {"new", "register"} => c \notin piPending /\ piBox[c] = "empty"
       /\ c \in piPending => piBox[c] = "empty"
       /\ piPc[c] \in {"write", "wait"} => c \in piPending \/ piBox[c] # "empty"
       /\ piPc[c] = "write" => piBox[c] # "ok"
  /\ piReader = "done" \/ piWaiter = "done" => ~piAlive
  /\ piReader = "done" /\ piWaiter = "done" =>
       \A c \in AllPiCalls : piPc[c] = "wait" => c \notin piPending

LEMMA PiCallKeeps == PiShape /\ PiCallInv /\ [PiNext]_piVars => PiCallInv'
<1> SUFFICES ASSUME PiShape, PiCallInv, [PiNext]_piVars PROVE PiCallInv'
  OBVIOUS
<1> USE DEF piProcVars, piCallVars, piViewVars, piStatVars, piLoopVars
<1>t. /\ piPending \subseteq AllPiCalls /\ piBox \in [AllPiCalls -> {"empty", "ok", "fail"}]
      /\ piPc \in [AllPiCalls -> {"new", "register", "write", "wait", "answered", "failed", "ok", "error"}]
      /\ piAlive \in BOOLEAN
  BY DEF PiShape, PiTypeOK
<1>1. CASE UNCHANGED <<piPending, piBox, piPc, piReader, piWaiter>> /\ (~piAlive => ~piAlive')
  BY <1>1 DEF PiCallInv
<1>2. ASSUME NEW c \in AllPiCalls, PiCallStep(c) PROVE PiCallInv'
  <2>0. UNCHANGED <<piAlive, piReader, piWaiter>>
    BY <1>2 DEF PiCallStep, PiStart, PiRegister, PiWrite, PiReceive, PiTimeout, PiSucceed, PiFail
  <2>1. CASE \E op \in PiOps : PiStart(c, op)
    BY <1>t, <2>0, <2>1 DEF PiCallInv, PiStart, PiGoto
  <2>2. CASE PiRegister(c)
    BY <1>t, <2>0, <2>2 DEF PiCallInv, PiRegister, PiGoto
  <2>3. CASE PiWrite(c)
    BY <1>t, <2>0, <2>3 DEF PiCallInv, PiWrite, PiGoto
  <2>4. CASE PiReceive(c)
    BY <1>t, <2>0, <2>4 DEF PiCallInv, PiReceive, PiGoto
  <2>5. CASE PiTimeout(c)
    BY <1>t, <2>0, <2>5 DEF PiCallInv, PiTimeout, PiGoto
  <2>6. CASE PiSucceed(c) \/ PiFail(c)
    <3>1. UNCHANGED <<piPending, piBox>>
          /\ \E label \in {"ok", "error"} : piPc' = [piPc EXCEPT ![c] = label]
      BY <2>6 DEF PiSucceed, PiFail, PiGoto
    <3>2. QED
      BY <1>t, <2>0, <3>1 DEF PiCallInv
  <2>7. QED
    BY <1>2, <2>1, <2>2, <2>3, <2>4, <2>5, <2>6 DEF PiCallStep
<1>3. CASE PiReadResponse
  <2>1. PiTake("response") /\ UNCHANGED <<piPc, piOp, piAlive, piReader, piWaiter>>
    BY <1>3 DEF PiReadResponse, PiTake
  <2> DEFINE line == Head(piOut)
  <2>2. line.call \in AllPiCalls /\ line.answer \in {"ok", "fail"} /\ piPc[line.call] # "write"
    BY <2>1, PiTakeShape DEF PiShape, PiBegun
  <2>3. /\ piPending' = piPending \ {line.call}
        /\ piBox' = IF line.call \in piPending THEN [piBox EXCEPT ![line.call] = line.answer] ELSE piBox
    BY <1>3 DEF PiReadResponse
  <2> HIDE DEF line
  <2>4. QED
    BY <1>t, <2>1, <2>2, <2>3 DEF PiCallInv
<1>4. CASE PiReadFails \/ PiWaitReturns
  <2>1. PICK withCode \in BOOLEAN : PiSetError(withCode)
    BY <1>4 DEF PiReadFails, PiWaitReturns
  <2>2. UNCHANGED <<piPc, piAlive>> /\ ~piAlive
    BY <1>4, <2>1 DEF PiSetError, PiReadFails, PiWaitReturns, PiCallInv
  <2>3. piPending' = {} /\ piBox' = [c \in AllPiCalls |-> IF c \in piPending THEN "fail" ELSE piBox[c]]
    BY <2>1 DEF PiSetError
  <2>4. QED
    BY <1>t, <2>2, <2>3 DEF PiCallInv
<1>5. CASE PiClose \/ PiRespond \/ PiAskExpires \/ PiWindowPasses
  BY <1>1, <1>5 DEF PiClose, PiRespond, PiAskExpires, PiWindowPasses
<1>6. CASE PiProcess
  BY <1>1, <1>6 DEF PiProcess, PiHandles, PiSpeaks, PiRunEnds, PiDies
<1>7. CASE PiReadUpdate \/ PiReadMessageEnd \/ PiReadAgentEnd \/ PiReadAsk
  BY <1>1, <1>7 DEF PiReadUpdate, PiReadMessageEnd, PiReadAgentEnd, PiReadAsk, PiTake
<1>8. CASE UNCHANGED piVars
  BY <1>1, <1>8 DEF piVars
<1>9. QED
  BY <1>2, <1>3, <1>4, <1>5, <1>6, <1>7, <1>8 DEF PiNext, PiReaderStep

\* What the throttle has held back is what the accumulator has.
PiPreviewInv == PiPreviewComplete /\ (piDraft > 0 => piSaid = piDraft)

LEMMA PiPreviewKeeps == PiShape /\ PiPreviewInv /\ [PiNext]_piVars => PiPreviewInv'
<1> SUFFICES ASSUME PiShape, PiPreviewInv, [PiNext]_piVars PROVE PiPreviewInv'
  OBVIOUS
<1> USE DEF piProcVars, piCallVars, piViewVars, piStatVars, piLoopVars
<1>t. piDraft \in Nat /\ piSaid \in Nat
  BY DEF PiShape, PiTypeOK
<1>1. CASE UNCHANGED <<piDraft, piShown, piSaid>>
  BY <1>1 DEF PiPreviewInv, PiPreviewComplete
<1>2. CASE PiReadUpdate
  <2>1. piDraft' = piDraft + 1 /\ piSaid' = IF piDraft = 0 THEN 1 ELSE piSaid + 1
    BY <1>2 DEF PiReadUpdate
  <2>2. piDraft > 0 => piSaid = piDraft
    BY DEF PiPreviewInv
  <2>3. piDraft' # 0 /\ piSaid' = piDraft'
    BY <1>t, <2>1, <2>2
  <2>4. QED
    BY <2>3 DEF PiPreviewInv, PiPreviewComplete
<1>3. CASE PiReadMessageEnd \/ PiReadAgentEnd
  <2>1. PiCompletePreview
    BY <1>3 DEF PiReadMessageEnd, PiReadAgentEnd
  <2>2. piDraft' = 0 /\ piSaid' = piSaid /\ piShown' = IF piDraft = 0 THEN piShown ELSE <<piDraft, TRUE>>
    BY <2>1 DEF PiCompletePreview
  <2>3. CASE piDraft = 0
    BY <2>2, <2>3 DEF PiPreviewInv, PiPreviewComplete
  <2>4. CASE piDraft > 0
    <3>1. piSaid = piDraft
      BY <2>4 DEF PiPreviewInv
    <3>2. piShown' = <<piSaid', TRUE>>
      <4>1. piDraft # 0
        BY <1>t, <2>4
      <4>2. QED
        BY <2>2, <3>1, <4>1, Zenon
    <3>3. ~(piDraft' > 0)
      BY <2>2
    <3>4. QED
      BY <3>2, <3>3 DEF PiPreviewInv, PiPreviewComplete
  <2>5. QED
    BY <1>t, <2>3, <2>4
<1>4. ASSUME NEW c \in AllPiCalls, PiCallStep(c) PROVE PiPreviewInv'
  BY <1>1, <1>4 DEF PiCallStep, PiStart, PiRegister, PiWrite, PiReceive, PiTimeout, PiSucceed, PiFail
<1>5. CASE PiClose \/ PiRespond \/ PiAskExpires \/ PiWindowPasses \/ PiProcess
  BY <1>1, <1>5 DEF PiClose, PiRespond, PiAskExpires, PiWindowPasses, PiProcess, PiHandles, PiSpeaks,
    PiRunEnds, PiDies
<1>6. CASE PiReadResponse \/ PiReadAsk \/ PiReadFails \/ PiWaitReturns
  BY <1>1, <1>6 DEF PiReadResponse, PiReadAsk, PiReadFails, PiWaitReturns, PiSetError
<1>7. CASE UNCHANGED piVars
  BY <1>1, <1>7 DEF piVars
<1>8. QED
  BY <1>2, <1>3, <1>4, <1>5, <1>6, <1>7 DEF PiNext, PiReaderStep

\* Behind position i pi has written that its run is over.
PiEndsAfter(i) == \E j \in (i + 1)..Len(piOut) : piOut[j].kind = "agent_end"

\* Lines that are written while a run is on.
PiBusyLine(line) ==
  \/ line.kind \in {"message_update", "message_end"}
  \/ line.kind = "response" /\ line.answer = "ok" /\ piOp[line.call] = "prompt"

\* A prompt that pi has not accepted.
PiPrompting(c) ==
  /\ piOp[c] = "prompt"
  /\ piPc[c] \in {"register", "write", "failed"} \/ (piPc[c] = "wait" /\ piBox[c] # "ok")

\* What makes a live worker show a run: the run, its end on the way, a prompt.
PiRunInv == piAlive =>
  /\ \A i \in 1..Len(piOut) : PiBusyLine(piOut[i]) => piTurn \/ PiEndsAfter(i)
  /\ piRecent => piTurn \/ PiEndsAfter(0)
  /\ piStatus = "running" => piTurn \/ PiEndsAfter(0) \/ \E c \in AllPiCalls : PiPrompting(c)

LEMMA PiCallRuns ==
  ASSUME PiShape, PiCallInv, PiRunInv, NEW c \in AllPiCalls, PiCallStep(c) PROVE PiRunInv'
<1> USE DEF piProcVars, piCallVars, piViewVars, piStatVars, piLoopVars
<1>t. /\ piBox \in [AllPiCalls -> {"empty", "ok", "fail"}] /\ DOMAIN piOp = AllPiCalls
      /\ piPc \in [AllPiCalls -> {"new", "register", "write", "wait", "answered", "failed", "ok", "error"}]
      /\ piRecent \in BOOLEAN
  BY DEF PiShape, PiTypeOK
<1>0. UNCHANGED <<piAlive, piTurn, piOut>>
  BY DEF PiCallStep, PiStart, PiRegister, PiWrite, PiReceive, PiTimeout, PiSucceed, PiFail
<1>1. \A i : PiEndsAfter(i)' <=> PiEndsAfter(i)
  BY <1>0 DEF PiEndsAfter
<1>2. piRecent' => piRecent
  BY <1>t DEF PiCallStep, PiStart, PiRegister, PiWrite, PiReceive, PiTimeout, PiSucceed, PiFail
<1>3. \A d \in PiBegun : piOp'[d] = piOp[d]
  BY <1>t DEF PiCallStep, PiStart, PiRegister, PiWrite, PiReceive, PiTimeout, PiSucceed, PiFail, PiBegun
<1>4. \A i \in 1..Len(piOut) : PiBusyLine(piOut[i])' => PiBusyLine(piOut[i])
  BY <1>0, <1>3 DEF PiBusyLine, PiShape
<1>5. piStatus' = "running" => piStatus = "running" \/ PiPrompting(c)'
  BY <1>t DEF PiCallStep, PiStart, PiRegister, PiWrite, PiReceive, PiTimeout, PiSucceed, PiFail,
    PiPrompting, PiGoto
<1>w. piPc[c] = "write" => piBox[c] # "ok"
  BY DEF PiCallInv
<1>6. piStatus' = "running" /\ PiPrompting(c) => PiPrompting(c)'
  BY <1>t, <1>w DEF PiCallStep, PiStart, PiRegister, PiWrite, PiReceive, PiTimeout, PiSucceed, PiFail,
    PiPrompting, PiGoto
<1>7. ASSUME NEW d \in AllPiCalls, d # c, PiPrompting(d) PROVE PiPrompting(d)'
  BY <1>t, <1>7 DEF PiCallStep, PiStart, PiRegister, PiWrite, PiReceive, PiTimeout, PiSucceed, PiFail,
    PiPrompting, PiGoto
<1>8. QED
  BY <1>0, <1>1, <1>2, <1>4, <1>5, <1>6, <1>7 DEF PiRunInv

LEMMA PiProcessRuns ==
  ASSUME PiShape, PiRunInv, PiProcess PROVE PiRunInv'
<1> USE DEF piProcVars, piCallVars, piViewVars, piStatVars, piLoopVars
<1>t. UNCHANGED <<piCallVars, piViewVars, piStatVars, piLoopVars>> /\ piOut \in Seq(PiRecords)
      /\ piTurn \in BOOLEAN
  BY DEF PiProcess, PiHandles, PiSpeaks, PiRunEnds, PiDies, PiShape, PiTypeOK
<1>1. /\ \A line : PiBusyLine(line)' <=> PiBusyLine(line)
      /\ \A c : PiPrompting(c)' <=> PiPrompting(c)
  BY <1>t DEF PiBusyLine, PiPrompting
<1>2. ASSUME piAlive' PROVE piAlive
  BY <1>2 DEF PiProcess, PiHandles, PiSpeaks, PiRunEnds, PiDies
<1>3. ASSUME \* lines are added, of which those behind an end are no lines of a run
             piAlive', Len(piOut') \in Nat, Len(piOut') >= Len(piOut),
             \A i \in 1..Len(piOut) : piOut'[i] = piOut[i],
             piTurn => piTurn' \/ \E j \in (Len(piOut) + 1)..Len(piOut') : piOut'[j].kind = "agent_end",
             \A i \in (Len(piOut) + 1)..Len(piOut') : PiBusyLine(piOut'[i]) => piTurn'
      PROVE  PiRunInv'
  <2>0. Len(piOut) \in Nat
    BY <1>t
  <2>1. \A i \in 0..Len(piOut) : PiEndsAfter(i) => PiEndsAfter(i)'
    BY <1>3, <2>0 DEF PiEndsAfter
  <2>2. \A i \in 0..Len(piOut) : piTurn => piTurn' \/ PiEndsAfter(i)'
    BY <1>3, <2>0 DEF PiEndsAfter
  <2>3. \A i \in 1..Len(piOut') : PiBusyLine(piOut'[i]) => piTurn' \/ PiEndsAfter(i)'
    <3> SUFFICES ASSUME NEW i \in 1..Len(piOut'), PiBusyLine(piOut'[i]) PROVE piTurn' \/ PiEndsAfter(i)'
      OBVIOUS
    <3>1. CASE i \in 1..Len(piOut)
      BY <1>2, <1>3, <2>0, <2>1, <2>2, <3>1 DEF PiRunInv
    <3>2. CASE i \in (Len(piOut) + 1)..Len(piOut')
      BY <1>3, <3>2
    <3>3. QED
      BY <1>3, <2>0, <3>1, <3>2
  <2>4. PiEndsAfter(0) => PiEndsAfter(0)'
    BY <2>0, <2>1
  <2>5. piTurn => piTurn' \/ PiEndsAfter(0)'
    BY <2>0, <2>2
  <2>6. (piRecent => piTurn \/ PiEndsAfter(0)) /\
        (piStatus = "running" => piTurn \/ PiEndsAfter(0) \/ \E c \in AllPiCalls : PiPrompting(c))
    BY <1>2, <1>3 DEF PiRunInv
  <2>7. (piRecent => piTurn \/ PiEndsAfter(0))'
    BY <1>t, <2>4, <2>5, <2>6
  <2>8. (piStatus = "running" => piTurn \/ PiEndsAfter(0) \/ \E c \in AllPiCalls : PiPrompting(c))'
    BY <1>t, <1>1, <2>4, <2>5, <2>6
  <2>9. (\A i \in 1..Len(piOut) : PiBusyLine(piOut[i]) => piTurn \/ PiEndsAfter(i))'
    BY <1>t, <2>3 DEF PiBusyLine
  <2>10. QED
    BY <2>7, <2>8, <2>9 DEF PiRunInv
<1>4. CASE PiDies
  BY <1>4 DEF PiDies, PiRunInv
<1>5. CASE PiSpeaks
  <2>1. PICK kind : piOut' = Append(piOut, PiLine(kind)) /\ piTurn' /\ piAlive'
    BY <1>5 DEF PiSpeaks
  <2>2. Len(piOut') = Len(piOut) + 1 /\ \A i \in 1..Len(piOut) : piOut'[i] = piOut[i]
    BY <1>t, <2>1
  <2>3. QED
    BY <1>3, <1>t, <2>1, <2>2
<1>6. CASE PiRunEnds
  <2>1. piOut' = Append(piOut, PiLine("agent_end")) /\ ~piTurn'
    BY <1>6 DEF PiRunEnds
  <2>2. Len(piOut') = Len(piOut) + 1 /\ (\A i \in 1..Len(piOut) : piOut'[i] = piOut[i])
        /\ piOut'[Len(piOut) + 1] = PiLine("agent_end") /\ Len(piOut) \in Nat
    BY <1>t, <2>1
  <2>3. PiLine("agent_end").kind = "agent_end" /\ ~PiBusyLine(PiLine("agent_end"))
    BY DEF PiLine, PiBusyLine
  <2>4. ASSUME piAlive' PROVE PiRunInv'
    <3>1. \A i \in (Len(piOut) + 1)..Len(piOut') : i = Len(piOut) + 1
      BY <2>2
    <3>2. QED
      BY <1>3, <2>2, <2>3, <2>4, <3>1
  <2>5. QED
    BY <2>4 DEF PiRunInv
<1>7. CASE PiHandles
  <2> DEFINE c == Head(piIn)
  <2>1. PICK answer \in {"ok", "fail"} :
          /\ piOut' = IF piOp[c] = "abort" /\ piTurn
                      THEN piOut \o <<PiLine("agent_end"), PiAnswer(c, answer)>>
                      ELSE Append(piOut, PiAnswer(c, answer))
          /\ piTurn' = CASE piOp[c] = "prompt" -> (piTurn \/ answer = "ok")
                         [] piOp[c] = "abort" -> FALSE
                         [] OTHER -> piTurn
    BY <1>7 DEF PiHandles
  <2> DEFINE reply == PiAnswer(c, answer)
  <2>2. PiBusyLine(reply) => piTurn' /\ piOp[c] = "prompt"
    BY <2>1 DEF PiBusyLine, PiAnswer
  <2>3. piAlive'
    BY <1>7 DEF PiHandles
  <2> HIDE DEF reply
  <2>4. CASE piOp[c] = "abort" /\ piTurn
    <3>1. piOut' = piOut \o <<PiLine("agent_end"), reply>> /\ ~PiBusyLine(reply)
      BY <2>1, <2>2, <2>4 DEF reply
    <3>2. Len(piOut') = Len(piOut) + 2 /\ (\A i \in 1..Len(piOut) : piOut'[i] = piOut[i])
          /\ piOut'[Len(piOut) + 1] = PiLine("agent_end") /\ Len(piOut) \in Nat
          /\ piOut'[Len(piOut) + 2] = reply
      BY <1>t, <3>1
    <3>3. PiLine("agent_end").kind = "agent_end" /\ ~PiBusyLine(PiLine("agent_end"))
      BY DEF PiLine, PiBusyLine
    <3>4. \A i \in (Len(piOut) + 1)..Len(piOut') : i \in {Len(piOut) + 1, Len(piOut) + 2}
      BY <3>2
    <3>5. \A i \in (Len(piOut) + 1)..Len(piOut') : ~PiBusyLine(piOut'[i])
      BY <3>1, <3>2, <3>3, <3>4
    <3>6. Len(piOut') >= Len(piOut) /\ Len(piOut) + 1 \in (Len(piOut) + 1)..Len(piOut') /\ Len(piOut') \in Nat
      BY <3>2
    <3>7. \E j \in (Len(piOut) + 1)..Len(piOut') : piOut'[j].kind = "agent_end"
      BY <3>2, <3>3, <3>6
    <3>8. QED
      BY <1>3, <2>3, <3>2, <3>5, <3>6, <3>7
  <2>5. CASE ~(piOp[c] = "abort" /\ piTurn)
    <3>1. piOut' = Append(piOut, reply) /\ (piTurn => piTurn')
      BY <1>t, <2>1, <2>5 DEF reply
    <3>2. Len(piOut') = Len(piOut) + 1 /\ (\A i \in 1..Len(piOut) : piOut'[i] = piOut[i])
          /\ piOut'[Len(piOut) + 1] = reply /\ Len(piOut) \in Nat
      BY <1>t, <3>1
    <3>3. \A i \in (Len(piOut) + 1)..Len(piOut') : i = Len(piOut) + 1
      BY <3>2
    <3>4. \A i \in (Len(piOut) + 1)..Len(piOut') : PiBusyLine(piOut'[i]) => piTurn'
      BY <2>2, <3>2, <3>3
    <3>5. QED
      BY <1>3, <2>3, <3>1, <3>2, <3>4
  <2>6. QED
    BY <2>4, <2>5
<1>8. QED
  BY <1>4, <1>5, <1>6, <1>7 DEF PiProcess

LEMMA PiReaderRuns ==
  ASSUME PiShape, PiRunInv,
         PiReaderStep \/ PiWaitReturns \/ PiClose \/ PiRespond \/ PiAskExpires \/ PiWindowPasses
  PROVE  PiRunInv'
<1> USE DEF piProcVars, piCallVars, piViewVars, piStatVars, piLoopVars
<1>t. /\ piOut \in Seq(PiRecords) /\ UNCHANGED <<piAlive, piTurn, piPc, piOp>>
      /\ piBox \in [AllPiCalls -> {"empty", "ok", "fail"}]
  BY DEF PiReaderStep, PiReadResponse, PiReadUpdate, PiReadMessageEnd, PiReadAgentEnd, PiReadAsk, PiReadFails,
    PiWaitReturns, PiClose, PiRespond, PiAskExpires, PiWindowPasses, PiTake, PiSetError, PiShape, PiTypeOK
<1>1. ASSUME NEW kind, PiTake(kind), piAlive
      PROVE  /\ \A i \in 1..Len(piOut') : PiBusyLine(piOut'[i]) => piTurn \/ PiEndsAfter(i)'
             /\ kind # "agent_end" /\ PiEndsAfter(0) => PiEndsAfter(0)'
             /\ PiBusyLine(Head(piOut)) => piTurn \/ PiEndsAfter(0)'
  <2>1. /\ Head(piOut) = piOut[1] /\ Head(piOut).kind = kind /\ Len(piOut) \in Nat
        /\ Len(piOut') = Len(piOut) - 1 /\ Len(piOut) > 0
        /\ \A i \in 1..Len(piOut') : piOut'[i] = piOut[i + 1]
    BY <1>t, <1>1, PiTakeShape
  <2>2. ASSUME NEW i \in 0..Len(piOut'), PiEndsAfter(i + 1) PROVE PiEndsAfter(i)'
    <3>1. PICK j \in (i + 2)..Len(piOut) : piOut[j].kind = "agent_end"
      BY <2>1, <2>2 DEF PiEndsAfter
    <3>2. j - 1 \in (i + 1)..Len(piOut') /\ j - 1 \in 1..Len(piOut') /\ piOut'[j - 1] = piOut[(j - 1) + 1]
          /\ (j - 1) + 1 = j
      BY <2>1, <2>2, <3>1
    <3>3. QED
      BY <3>1, <3>2 DEF PiEndsAfter
  <2>3. kind # "agent_end" /\ PiEndsAfter(0) => PiEndsAfter(1)
    BY <2>1 DEF PiEndsAfter
  <2>4. \A i \in 1..Len(piOut) : PiBusyLine(piOut[i]) => piTurn \/ PiEndsAfter(i)
    BY <1>1 DEF PiRunInv
  <2>5. \A i \in 1..Len(piOut') : PiBusyLine(piOut'[i]) => piTurn \/ PiEndsAfter(i)'
    <3> SUFFICES ASSUME NEW i \in 1..Len(piOut'), PiBusyLine(piOut'[i]), ~piTurn PROVE PiEndsAfter(i)'
      OBVIOUS
    <3>1. i + 1 \in 1..Len(piOut) /\ i \in 0..Len(piOut') /\ piOut'[i] = piOut[i + 1]
      BY <2>1
    <3>2. PiEndsAfter(i + 1)
      BY <2>4, <3>1
    <3>3. QED
      BY <2>2, <3>1, <3>2
  <2>6. PiEndsAfter(1) => PiEndsAfter(0)'
    BY <2>1, <2>2
  <2>7. PiBusyLine(Head(piOut)) => piTurn \/ PiEndsAfter(1)
    BY <2>1, <2>4
  <2>8. QED
    BY <2>3, <2>5, <2>6, <2>7
<1>2. ASSUME NEW kind, PiTake(kind), piAlive
      PROVE  (\A i \in 1..Len(piOut) : PiBusyLine(piOut[i]) => piTurn \/ PiEndsAfter(i))'
  BY <1>t, <1>1, <1>2 DEF PiBusyLine
<1>3. piAlive => /\ piRecent => piTurn \/ PiEndsAfter(0)
                 /\ piStatus = "running" => piTurn \/ PiEndsAfter(0) \/ \E c \in AllPiCalls : PiPrompting(c)
  BY DEF PiRunInv
<1>4. SUFFICES ASSUME piAlive PROVE PiRunInv'
  BY <1>t DEF PiRunInv
<1>5. CASE PiReadResponse
  <2>1. PiTake("response") /\ UNCHANGED <<piRecent, piStatus>>
    BY <1>5 DEF PiReadResponse
  <2> DEFINE line == Head(piOut)
  <2>2. line.call \in AllPiCalls /\ line.kind = "response"
    BY <1>t, <2>1, PiTakeShape
  <2>3. piBox' = IF line.call \in piPending THEN [piBox EXCEPT ![line.call] = line.answer] ELSE piBox
    BY <1>5 DEF PiReadResponse
  <2>4. \A c \in AllPiCalls : piBox'[c] = "ok" /\ piBox[c] # "ok" => line.call = c /\ line.answer = "ok"
    <3> HIDE DEF line
    <3>1. QED
      BY <1>t, <2>2, <2>3
  <2>5. \A c \in AllPiCalls : PiPrompting(c) => PiPrompting(c)' \/ PiBusyLine(line)
    <3> SUFFICES ASSUME NEW c \in AllPiCalls, PiPrompting(c) PROVE PiPrompting(c)' \/ PiBusyLine(line)
      OBVIOUS
    <3>1. CASE piBox'[c] = "ok" /\ piBox[c] # "ok"
      <4>1. CASE piPc[c] = "wait"
        BY <2>2, <2>4, <3>1, <4>1 DEF PiPrompting, PiBusyLine
      <4>2. CASE piPc[c] # "wait"
        BY <1>t, <4>2 DEF PiPrompting
      <4>3. QED
        BY <4>1, <4>2
    <3>2. CASE ~(piBox'[c] = "ok" /\ piBox[c] # "ok")
      BY <1>t, <3>2 DEF PiPrompting
    <3>3. QED
      BY <3>1, <3>2
  <2>6. QED
    <3>1. (piRecent => piTurn \/ PiEndsAfter(0))'
      BY <1>t, <1>1, <1>3, <1>4, <2>1
    <3>2. (piStatus = "running" => piTurn \/ PiEndsAfter(0) \/ \E c \in AllPiCalls : PiPrompting(c))'
      BY <1>t, <1>1, <1>3, <1>4, <2>1, <2>5
    <3>3. (\A i \in 1..Len(piOut) : PiBusyLine(piOut[i]) => piTurn \/ PiEndsAfter(i))'
      BY <1>2, <1>4, <2>1
    <3>4. QED
      BY <3>1, <3>2, <3>3 DEF PiRunInv
<1>6. CASE PiReadUpdate \/ PiReadMessageEnd
  <2>1. PICK kind \in {"message_update", "message_end"} : PiTake(kind)
    BY <1>6 DEF PiReadUpdate, PiReadMessageEnd
  <2>2. UNCHANGED <<piStatus, piBox>>
    BY <1>6 DEF PiReadUpdate, PiReadMessageEnd
  <2>3. Head(piOut).kind = kind
    BY <2>1 DEF PiTake
  <2>4. PiBusyLine(Head(piOut)) /\ kind # "agent_end"
    BY <2>3 DEF PiBusyLine
  <2>5. (piTurn \/ PiEndsAfter(0))'
    BY <1>t, <1>1, <1>4, <2>1, <2>4
  <2>6. (\A i \in 1..Len(piOut) : PiBusyLine(piOut[i]) => piTurn \/ PiEndsAfter(i))'
    BY <1>2, <1>4, <2>1
  <2>7. QED
    BY <2>5, <2>6 DEF PiRunInv
<1>7. CASE PiReadAgentEnd
  <2>1. PiTake("agent_end") /\ piStatus' = "idle" /\ piRecent' = FALSE
    BY <1>7 DEF PiReadAgentEnd
  <2>2. (\A i \in 1..Len(piOut) : PiBusyLine(piOut[i]) => piTurn \/ PiEndsAfter(i))'
    BY <1>2, <1>4, <2>1
  <2>3. QED
    BY <2>1, <2>2 DEF PiRunInv
<1>8. CASE PiReadAsk
  <2>1. PiTake("extension_ui_request") /\ UNCHANGED <<piStatus, piRecent, piBox>>
    BY <1>8 DEF PiReadAsk
  <2>2. (\A i \in 1..Len(piOut) : PiBusyLine(piOut[i]) => piTurn \/ PiEndsAfter(i))'
    BY <1>2, <1>4, <2>1
  <2>3. PiEndsAfter(0) => PiEndsAfter(0)'
    BY <1>1, <1>4, <2>1
  <2>4. \A c : PiPrompting(c)' <=> PiPrompting(c)
    BY <1>t, <2>1 DEF PiPrompting
  <2>5. (piRecent => piTurn \/ PiEndsAfter(0))'
    BY <1>t, <1>3, <1>4, <2>1, <2>3
  <2>6. (piStatus = "running" => piTurn \/ PiEndsAfter(0) \/ \E c \in AllPiCalls : PiPrompting(c))'
    BY <1>t, <1>3, <1>4, <2>1, <2>3, <2>4
  <2>7. QED
    BY <2>2, <2>5, <2>6 DEF PiRunInv
<1>9. CASE PiReadFails \/ PiWaitReturns
  <2>1. UNCHANGED <<piOut, piRecent>> /\ piStatus' = "error"
    BY <1>9 DEF PiReadFails, PiWaitReturns, PiSetError
  <2>2. QED
    BY <1>t, <1>4, <2>1 DEF PiRunInv, PiBusyLine, PiEndsAfter
<1>10. CASE PiClose \/ PiRespond \/ PiAskExpires \/ PiWindowPasses
  <2>1. UNCHANGED <<piOut, piStatus, piBox>> /\ (piRecent' => piRecent)
    BY <1>10 DEF PiClose, PiRespond, PiAskExpires, PiWindowPasses
  <2>2. QED
    BY <1>t, <1>4, <2>1 DEF PiRunInv, PiBusyLine, PiEndsAfter, PiPrompting
<1>11. QED
  BY <1>5, <1>6, <1>7, <1>8, <1>9, <1>10 DEF PiReaderStep

PiInv == PiShape /\ PiCallInv /\ PiPreviewInv /\ PiRunInv

LEMMA PiStarts == PiInit => PiInv
<1> SUFFICES ASSUME PiInit PROVE PiInv
  OBVIOUS
<1>0. PiBoot \in AllPiCalls /\ piDraft = 0 /\ piShown = <<0, TRUE>> /\ piSaid = 0 /\ piOut = <<>> /\ Len(piOut) = 0
  BY DEF PiInit, AllPiCalls
<1>1. /\ piPc \in [AllPiCalls -> {"new", "register", "write", "wait", "answered", "failed", "ok", "error"}]
      /\ piBox \in [AllPiCalls -> {"empty", "ok", "fail"}]
      /\ DOMAIN piOp = AllPiCalls
  BY DEF PiInit
<1>2. piShown \in Nat \X BOOLEAN /\ piDraft \in Nat
  <2>1. <<0, TRUE>> \in Nat \X BOOLEAN
    OBVIOUS
  <2>2. QED
    BY <1>0, <2>1
<1>3. PiTypeOK
  BY <1>1, <1>2 DEF PiInit, PiTypeOK
<1>4. piIn = <<>> /\ <<>> \in Seq(PiBegun) /\ <<>> \in Seq(PiRecords)
  BY DEF PiInit
<1>5. PiShape
  BY <1>0, <1>1, <1>3, <1>4 DEF PiShape
<1>6. PiCallInv
  BY DEF PiInit, PiCallInv
<1>7. PiPreviewInv
  BY <1>0 DEF PiPreviewInv, PiPreviewComplete
<1>8. piRecent = FALSE /\ piStatus = "idle"
  BY DEF PiInit
<1>9. PiRunInv
  BY <1>0, <1>8 DEF PiRunInv
<1>10. QED
  BY <1>5, <1>6, <1>7, <1>9 DEF PiInv

LEMMA PiKeeps == PiInv /\ [PiNext]_piVars => PiInv'
<1> SUFFICES ASSUME PiInv, [PiNext]_piVars PROVE PiInv'
  OBVIOUS
<1>1. PiShape /\ PiCallInv /\ PiPreviewInv /\ PiRunInv
  BY DEF PiInv
<1>4. PiRunInv'
  <2>1. CASE UNCHANGED piVars
    BY <1>1, <2>1 DEF piVars, piProcVars, piCallVars, piViewVars, piStatVars, piLoopVars, PiRunInv, PiBusyLine,
      PiEndsAfter, PiPrompting
  <2>2. CASE PiNext
    BY <1>1, <2>2, PiCallRuns, PiProcessRuns, PiReaderRuns DEF PiNext
  <2>3. QED
    BY <2>1, <2>2
<1>5. QED
  BY <1>1, <1>4, PiShapeKeeps, PiCallKeeps, PiPreviewKeeps DEF PiInv

LEMMA PiHolds == PiInv => PiTypeOK /\ PiCallsAnswered /\ PiSettles /\ PiPreviewComplete
<1> SUFFICES ASSUME PiInv PROVE PiTypeOK /\ PiCallsAnswered /\ PiSettles /\ PiPreviewComplete
  OBVIOUS
<1>1. PiTypeOK /\ PiPreviewComplete
  BY DEF PiInv, PiShape, PiPreviewInv
<1>2. PiCallsAnswered
  BY <1>1 DEF PiInv, PiCallInv, PiCallsAnswered, PiTypeOK
<1>3. PiSettles
  BY <1>1 DEF PiInv, PiRunInv, PiSettles, PiDisplayed, PiEndsAfter, PiPrompting
<1>4. QED
  BY <1>1, <1>2, <1>3

-----------------------------------------------------------------------------
(* Claude.                                                                  *)

\* With ClInv, the types; turns are numbered from one.
ClShape ==
  /\ clStatus \in {"idle", "running", "error"}
  /\ clReady \in BOOLEAN /\ clMessage \in BOOLEAN /\ clConverging \in BOOLEAN /\ clInited \in BOOLEAN
  /\ clInitBox \in {"unset", "ok", "failed", "taken"}
  /\ clConvergers \subseteq 1..clSeq
  /\ clWriter \in ClPrompts \cup {ClFree}
  /\ clControls \subseteq ClAborts /\ clBox \in [ClAborts -> Nat]
  /\ clReader \in {"running", "done"} /\ clWaiter \in {"running", "done"}
  /\ clStatus = "running" \/ ClWriting => clSeq > 0
  /\ clRead \in 0..Len(clIn) /\ clTurn \in Nat
  /\ \A i \in 1..Len(clIn) : clIn[i][1] = "user" => clIn[i][2] > 0

LEMMA ClShapeTyped == ClInv /\ ClShape => ClTypeOK
  BY DEF ClInv, ClShape, ClTypeOK, ClLabels, ClPlaces

\* What protocolError and failPendingLocked may change.
LEMMA ClErrorShape ==
  ASSUME ClShape, ClProtocolError \/ UNCHANGED <<clFatal, clStatus, clControls, clBox, clInitBox>>
  PROVE  /\ clStatus' \in {clStatus, "error"}
         /\ clControls' \subseteq ClAborts /\ clBox' \in [ClAborts -> Nat]
         /\ clInitBox' \in {"unset", "ok", "failed", "taken"}
<1>1. CASE ClProtocolError /\ ~clFatal /\ ~clClosing
  BY <1>1 DEF ClShape, ClProtocolError, ClFailPending
<1>2. CASE UNCHANGED <<clFatal, clStatus, clControls, clBox, clInitBox>>
  BY <1>2 DEF ClShape
<1>3. QED
  BY <1>1, <1>2 DEF ClProtocolError

\* A step that writes no frame, starts no turn and reads none.
ClShapeSame ==
  /\ UNCHANGED <<clSeq, clIn, clRead, clInited>> /\ clTurn' \in {clTurn, 0}
  /\ clStatus' = "running" => clStatus = "running"
  /\ clPc' = clPc \/ \E c \in ClCalls : ClMoves(c)

LEMMA ClShapeSameKeeps ==
  ASSUME ClInv, ClShape, ClShapeSame,
         clStatus' \in {"idle", "running", "error"},
         clReady' \in BOOLEAN, clMessage' \in BOOLEAN, clConverging' \in BOOLEAN,
         clInitBox' \in {"unset", "ok", "failed", "taken"},
         clConvergers' \subseteq 1..clSeq, clWriter' \in ClPrompts \cup {ClFree},
         clControls' \subseteq ClAborts, clBox' \in [ClAborts -> Nat],
         clReader' \in {"running", "done"}, clWaiter' \in {"running", "done"}
  PROVE  ClShape'
<1>1. ClWriting' => ClWriting
  BY DEF ClShapeSame, ClMoves, ClPlaces, ClWriting, ClInv, ClCalls
<1>2. QED
  BY <1>1 DEF ClShape, ClShapeSame

LEMMA ClPromptShape ==
  ASSUME ClInv, ClShape, NEW p \in ClPrompts,
         ClOwnStdin(p) \/ ClReject(p) \/ ClAwaitInit(p) \/ ClInitTimeout(p)
  PROVE  ClShape'
<1> USE DEF clCallVars, clStateVars, clProcVars
<1>1. p \in ClCalls
  BY DEF ClCalls
<1>2. clPc[p] # "write" /\ \E label \in ClPlaces : clPc' = [clPc EXCEPT ![p] = label]
  BY DEF ClOwnStdin, ClReject, ClAwaitInit, ClInitTimeout, ClGoto, ClPlaces
<1>3. /\ UNCHANGED <<clSeq, clIn, clRead, clInited, clReady, clMessage, clConverging, clConvergers, clReader, clWaiter>>
      /\ clTurn' \in {clTurn, 0} /\ clWriter' \in {clWriter, p, ClFree}
  BY DEF ClOwnStdin, ClReject, ClAwaitInit, ClInitTimeout, ClKill
<1>4. \/ ClProtocolError
      \/ UNCHANGED <<clFatal, clStatus, clControls, clBox, clInitBox>>
      \/ UNCHANGED <<clFatal, clStatus, clControls, clBox>> /\ clInitBox' = "taken"
  BY DEF ClOwnStdin, ClReject, ClAwaitInit, ClInitTimeout
<1>5. /\ clStatus' \in {clStatus, "error"}
      /\ clControls' \subseteq ClAborts /\ clBox' \in [ClAborts -> Nat]
      /\ clInitBox' \in {"unset", "ok", "failed", "taken"}
  BY <1>4, ClErrorShape DEF ClShape
<1>6. ClShapeSame
  BY <1>1, <1>2, <1>3, <1>5 DEF ClShapeSame, ClMoves
<1>7. clStatus' \in {"idle", "running", "error"} /\ clWriter' \in ClPrompts \cup {ClFree}
  BY <1>3, <1>5 DEF ClShape
<1>8. clReady' \in BOOLEAN /\ clMessage' \in BOOLEAN /\ clConverging' \in BOOLEAN /\ clConvergers' \subseteq 1..clSeq
      /\ clReader' \in {"running", "done"} /\ clWaiter' \in {"running", "done"}
  BY <1>3 DEF ClShape
<1>9. QED
  BY <1>5, <1>6, <1>7, <1>8, ClShapeSameKeeps

LEMMA ClAcceptShape ==
  ASSUME ClInv, ClShape, NEW p \in ClPrompts, ClAccept(p) PROVE ClShape'
<1> USE DEF clCallVars, clStateVars, clProcVars
<1>1. clSeq \in Nat /\ clSeq' = clSeq + 1
  BY DEF ClAccept, ClInv
<1>2. clConvergers' \subseteq 1..clSeq'
  BY <1>1 DEF ClAccept, ClShape
<1>3. UNCHANGED <<clWriter, clBox, clFatal, clClosing, clReady, clInitBox, clControls, clProcVars, clReader, clWaiter>>
      /\ clMessage' = FALSE /\ clConverging' = FALSE /\ clStatus' = "running"
  BY DEF ClAccept
<1>4. clSeq' > 0
  BY <1>1
<1>5. /\ clStatus' \in {"idle", "running", "error"}
      /\ clMessage' \in BOOLEAN /\ clConverging' \in BOOLEAN
  BY <1>3
<1>6. UNCHANGED <<clIn, clRead, clTurn, clInited>>
  BY <1>3
<1>7. QED
  BY <1>2, <1>3, <1>4, <1>5, <1>6 DEF ClShape

LEMMA ClAbortShape ==
  ASSUME ClInv, ClShape, NEW a \in ClAborts,
         ClAbort(a) \/ ClInterrupted(a) \/ ClInterruptTimeout(a) \/ ClInterruptDropped(a) \/ ClInterruptFails(a)
  PROVE  ClShape'
<1> USE DEF clCallVars, clStateVars, clProcVars
<1>1. a \in ClCalls /\ a \notin ClPrompts /\ clPc \in [ClCalls -> ClLabels]
  BY ClConstants DEF ClCalls, ClInv
<1>2. \E label \in ClLabels : clPc' = [clPc EXCEPT ![a] = label]
  BY DEF ClAbort, ClInterrupted, ClInterruptTimeout, ClInterruptDropped, ClInterruptFails, ClGoto, ClPlaces, ClLabels
<1>3. ClWriting' => ClWriting
  BY <1>1, <1>2 DEF ClWriting, ClCalls
<1>4. /\ UNCHANGED <<clSeq, clIn, clRead, clInited, clReady, clMessage, clConverging, clConvergers, clReader, clWaiter,
                     clWriter>>
      /\ clTurn' \in {clTurn, 0}
  BY DEF ClAbort, ClInterrupted, ClInterruptTimeout, ClInterruptDropped, ClInterruptFails, ClKill
<1>5. /\ clStatus' \in {clStatus, "error"} /\ clControls' \subseteq ClAborts
      /\ clInitBox' \in {"unset", "ok", "failed", "taken"}
      /\ clBox' \in [ClAborts -> Nat]
  <2>1. CASE ClAbort(a) \/ ClInterruptTimeout(a) \/ ClInterruptDropped(a)
    BY <2>1 DEF ClAbort, ClInterruptTimeout, ClInterruptDropped, ClShape
  <2>2. CASE ClInterrupted(a)
    <3>1. clBox' = clBox \/ (clBox[a] > 0 /\ clBox' = [clBox EXCEPT ![a] = @ - 1])
      BY <2>2 DEF ClInterrupted
    <3>2. clBox \in [ClAborts -> Nat]
      BY DEF ClShape
    <3>3. clBox' \in [ClAborts -> Nat]
      BY <3>1, <3>2
    <3>4. QED
      BY <2>2, <3>3 DEF ClInterrupted, ClShape
  <2>3. CASE ClInterruptFails(a)
    BY <2>3, ClErrorShape DEF ClInterruptFails
  <2>4. QED
    BY <2>1, <2>2, <2>3
<1>6. QED
  BY <1>3, <1>4, <1>5 DEF ClShape

\* A frame is added to stdin.
LEMMA ClFrameShape ==
  ASSUME ClInv, ClShape,
         \/ \E p \in ClPrompts : ClWriteFrame(p)
         \/ \E a \in ClAborts : ClWriteInterrupt(a)
  PROVE  ClShape'
<1> USE DEF clCallVars, clStateVars, clProcVars
<1>1. PICK c, frame :
        /\ c \in ClCalls
        /\ clIn' = clIn \/ clIn' = Append(clIn, frame)
        /\ frame[1] = "user" => clPc[c] = "write" /\ c \in ClPrompts /\ frame[2] = clSeq
        /\ \E label \in ClPlaces : clPc' = [clPc EXCEPT ![c] = label]
        /\ clWriter' \in {clWriter, ClFree}
        /\ ClProtocolError \/ UNCHANGED <<clFatal, clStatus, clControls, clBox, clInitBox>>
        /\ UNCHANGED <<clFirst, clSeen, clClosing, clReady, clSeq, clMessage, clConverging, clConvergers,
                       clOut, clRead, clTurn, clAlive, clInited, clExtra, clReader, clWaiter>>
  <2>1. CASE \E p \in ClPrompts : ClWriteFrame(p)
    <3>1. PICK p \in ClPrompts : ClWriteFrame(p)
      BY <2>1
    <3>2. p \in ClCalls /\ <<"user", clSeq>>[2] = clSeq
      BY DEF ClCalls
    <3>3. \E label \in ClPlaces : clPc' = [clPc EXCEPT ![p] = label]
      BY <3>1 DEF ClWriteFrame, ClGoto, ClPlaces
    <3>4. QED
      BY <3>1, <3>2, <3>3 DEF ClWriteFrame
  <2>2. CASE \E a \in ClAborts : ClWriteInterrupt(a)
    <3>1. PICK a \in ClAborts : ClWriteInterrupt(a)
      BY <2>2
    <3>2. a \in ClCalls /\ <<"interrupt", a>>[1] # "user"
      BY DEF ClCalls
    <3>3. \E label \in ClPlaces : clPc' = [clPc EXCEPT ![a] = label]
      BY <3>1 DEF ClWriteInterrupt, ClGoto, ClPlaces
    <3>4. QED
      BY <3>1, <3>2, <3>3 DEF ClWriteInterrupt
  <2>3. QED
    BY <2>1, <2>2
<1>2. /\ clStatus' \in {clStatus, "error"} /\ clControls' \subseteq ClAborts
      /\ clBox' \in [ClAborts -> Nat] /\ clInitBox' \in {"unset", "ok", "failed", "taken"}
  BY <1>1, ClErrorShape
<1>3. ClWriting' => ClWriting
  BY <1>1 DEF ClWriting, ClInv, ClCalls, ClPlaces
<1>4. frame[1] = "user" => frame[2] > 0
  BY <1>1 DEF ClWriting, ClShape
<1>5. clRead' \in 0..Len(clIn') /\ \A i \in 1..Len(clIn') : clIn'[i][1] = "user" => clIn'[i][2] > 0
  <2>1. CASE clIn' = clIn
    BY <1>1, <2>1 DEF ClShape
  <2>2. CASE clIn' = Append(clIn, frame)
    <3>1. clIn \in Seq(ClFrames) /\ clRead \in 0..Len(clIn)
      BY DEF ClInv, ClShape
    <3>2. Len(clIn') = Len(clIn) + 1 /\ clIn'[Len(clIn) + 1] = frame /\ Len(clIn) \in Nat
          /\ \A i \in 1..Len(clIn) : clIn'[i] = clIn[i]
      BY <2>2, <3>1
    <3>3. QED
      BY <1>1, <1>4, <3>1, <3>2 DEF ClShape
  <2>3. QED
    BY <1>1, <2>1, <2>2
<1>6. clStatus' \in {"idle", "running", "error"} /\ clWriter' \in ClPrompts \cup {ClFree}
  BY <1>1, <1>2 DEF ClShape
<1>7. clStatus' = "running" \/ ClWriting' => clSeq' > 0
  BY <1>1, <1>2, <1>3 DEF ClShape
<1>8. QED
  BY <1>1, <1>2, <1>5, <1>6, <1>7 DEF ClShape

LEMMA ClReaderShape ==
  ASSUME ClInv, ClShape,
         \/ ClHandleInit \/ ClHandleMessage \/ ClHandleResult \/ ClHandleControl \/ ClHandleGarbage
  PROVE  ClShape'
<1> USE DEF clCallVars, clStateVars, clProcVars
<1>1. /\ UNCHANGED <<clPc, clSeq, clIn, clRead, clInited, clWriter, clWaiter>> /\ clTurn' \in {clTurn, 0}
      /\ clReader' \in {clReader, "done"} /\ clReady' \in {clReady, TRUE} /\ clMessage' \in {clMessage, TRUE}
      /\ clConverging' \in {clConverging, TRUE}
      /\ clConvergers' = clConvergers \/ (clConvergers' = clConvergers \cup {clSeq} /\ clStatus = "running")
  BY DEF ClHandleInit, ClHandleMessage, ClHandleResult, ClHandleControl, ClHandleGarbage, ClTake, ClRefuse,
    ClKill, ClInTurn
<1>2. clConvergers' \subseteq 1..clSeq
  <2>1. clSeq \in Nat /\ clConvergers \subseteq 1..clSeq /\ (clStatus = "running" => clSeq > 0)
    BY DEF ClShape, ClInv
  <2>2. clStatus = "running" => clSeq \in 1..clSeq
    BY <2>1
  <2>3. clConvergers' = clConvergers \/ (clConvergers' = clConvergers \cup {clSeq} /\ clStatus = "running")
    BY <1>1
  <2>4. QED
    BY <2>1, <2>2, <2>3
<1>3. /\ clStatus' \in {clStatus, "error"}
      /\ clControls' \subseteq ClAborts /\ clBox' \in [ClAborts -> Nat]
      /\ clInitBox' \in {"unset", "ok", "failed", "taken"}
  <2>1. CASE ClHandleControl
    <3> DEFINE a == Head(clOut)[2]
    <3>1. /\ clControls' = clControls \ {a} /\ UNCHANGED <<clStatus, clInitBox>>
          /\ clBox' = IF a \in clControls THEN [clBox EXCEPT ![a] = @ + 1] ELSE clBox
      BY <2>1 DEF ClHandleControl
    <3>2. clControls \subseteq ClAborts /\ clBox \in [ClAborts -> Nat]
      BY DEF ClShape
    <3> HIDE DEF a
    <3>3. clBox' \in [ClAborts -> Nat]
      BY <3>1, <3>2
    <3>4. QED
      BY <3>1, <3>2, <3>3 DEF ClShape
  <2>2. CASE ClProtocolError \/ UNCHANGED <<clFatal, clStatus, clControls, clBox, clInitBox>>
    BY <2>2, ClErrorShape
  <2>3. CASE ClHandleInit /\ ~ClRefuse
    BY <2>3 DEF ClHandleInit, ClShape
  <2>4. QED
    BY <2>1, <2>2, <2>3 DEF ClHandleInit, ClHandleMessage, ClHandleResult, ClHandleGarbage, ClRefuse
<1>4. ClShapeSame
  BY <1>1, <1>3 DEF ClShapeSame
<1>5. clStatus' \in {"idle", "running", "error"} /\ clWriter' \in ClPrompts \cup {ClFree}
  BY <1>1, <1>3 DEF ClShape
<1>6. clReady' \in BOOLEAN /\ clMessage' \in BOOLEAN /\ clConverging' \in BOOLEAN
      /\ clReader' \in {"running", "done"} /\ clWaiter' \in {"running", "done"}
  BY <1>1 DEF ClShape
<1>7. QED
  BY <1>2, <1>3, <1>4, <1>5, <1>6, ClShapeSameKeeps

LEMMA ClProcessShape ==
  ASSUME ClInv, ClShape,
         \/ ClClose \/ ClReaderEnds \/ ClWaitProcess \/ (\E turn \in clConvergers : ClConverge(turn))
         \/ ClServes \/ ClSpeaks \/ ClTurnEnds \/ ClDies
  PROVE  ClShape'
<1> USE DEF clCallVars, clStateVars, clProcVars
<1>1. CASE ClServes
  <2> DEFINE frame == clIn[clRead + 1]
  <2>1. /\ clRead' = clRead + 1 /\ clRead < Len(clIn)
        /\ UNCHANGED <<clCallVars, clStateVars, clIn, clReader, clWaiter>>
        /\ clInited' \in {clInited, TRUE} /\ clTurn' = IF frame[1] = "user" THEN frame[2] ELSE 0
    BY <1>1 DEF ClServes
  <2>2. Len(clIn) \in Nat /\ clIn \in Seq(ClFrames) /\ clRead \in 0..Len(clIn)
    BY DEF ClInv, ClShape
  <2>3. clRead' \in 0..Len(clIn') /\ frame \in ClFrames
    BY <2>1, <2>2
  <2>4. clTurn' \in Nat
    BY <2>1, <2>3 DEF ClFrames
  <2> HIDE DEF frame
  <2>5. ClWriting' = ClWriting
    BY <2>1 DEF ClWriting
  <2>6. clInited' \in BOOLEAN
    BY <2>1 DEF ClShape
  <2>7. QED
    BY <2>1, <2>3, <2>4, <2>5, <2>6 DEF ClShape
<1>2. CASE ~ClServes
  <2>1. /\ UNCHANGED <<clPc, clSeq, clIn, clRead, clInited, clWriter, clReady, clMessage, clConverging>>
        /\ clTurn' \in {clTurn, 0} /\ clConvergers' \subseteq clConvergers
        /\ clReader' \in {clReader, "done"} /\ clWaiter' \in {clWaiter, "done"}
    BY <1>2 DEF ClClose, ClReaderEnds, ClWaitProcess, ClConverge, ClSpeaks, ClTurnEnds, ClDies, ClKill
  <2>2. /\ clStatus' \in {clStatus, "error", "idle"}
        /\ clControls' \subseteq ClAborts /\ clBox' \in [ClAborts -> Nat]
        /\ clInitBox' \in {"unset", "ok", "failed", "taken"}
    <3>1. CASE ClWaitProcess
      BY <3>1, ClErrorShape DEF ClWaitProcess
    <3>2. CASE ClClose
      BY <3>2 DEF ClClose, ClFailPending, ClShape
    <3>3. CASE \E turn \in clConvergers : ClConverge(turn)
      BY <3>3 DEF ClConverge, ClFinishTurn, ClShape
    <3>4. CASE ClReaderEnds \/ ClSpeaks \/ ClTurnEnds \/ ClDies
      BY <3>4 DEF ClReaderEnds, ClSpeaks, ClTurnEnds, ClDies, ClShape
    <3>5. QED
      BY <1>2, <3>1, <3>2, <3>3, <3>4
  <2>3. ClShapeSame
    BY <2>1, <2>2 DEF ClShapeSame
  <2>4. clStatus' \in {"idle", "running", "error"} /\ clWriter' \in ClPrompts \cup {ClFree}
        /\ clConvergers' \subseteq 1..clSeq
    BY <2>1, <2>2 DEF ClShape
  <2>5. clReady' \in BOOLEAN /\ clMessage' \in BOOLEAN /\ clConverging' \in BOOLEAN
        /\ clReader' \in {"running", "done"} /\ clWaiter' \in {"running", "done"}
    BY <2>1 DEF ClShape
  <2>6. QED
    BY <2>2, <2>3, <2>4, <2>5, ClShapeSameKeeps
<1>3. QED
  BY <1>1, <1>2

LEMMA ClShapeKeeps == ClInv /\ ClShape /\ [ClNext]_clVars => ClShape'
<1> SUFFICES ASSUME ClInv, ClShape, [ClNext]_clVars PROVE ClShape'
  OBVIOUS
<1>1. CASE UNCHANGED clVars
  BY <1>1 DEF clVars, clCallVars, clStateVars, clProcVars, ClShape, ClWriting
<1>2. ASSUME NEW p \in ClPrompts,
             \/ ClOwnStdin(p) \/ ClReject(p) \/ ClAccept(p) \/ ClWriteFrame(p)
             \/ ClAwaitInit(p) \/ ClInitTimeout(p)
      PROVE  ClShape'
  BY <1>2, ClPromptShape, ClAcceptShape, ClFrameShape
<1>3. ASSUME NEW a \in ClAborts,
             \/ ClAbort(a) \/ ClWriteInterrupt(a) \/ ClInterrupted(a)
             \/ ClInterruptTimeout(a) \/ ClInterruptDropped(a) \/ ClInterruptFails(a)
      PROVE  ClShape'
  BY <1>3, ClAbortShape, ClFrameShape
<1>4. QED
  BY <1>1, <1>2, <1>3, ClReaderShape, ClProcessShape DEF ClNext

\* An answer is owed to an Abort in one place at most.
ClCallInv ==
  /\ \A a \in ClAborts :
       /\ clBox[a] <= 1 /\ (a \in clControls => clBox[a] = 0)
       /\ clPc[a] = "new" => a \notin clControls /\ clBox[a] = 0
  /\ ClStopped => clControls = {}

LEMMA ClErrorCalls ==
  ASSUME ClInv, ClShape, ClCallInv, ClProtocolError, UNCHANGED <<clClosing, clSeq>>,
         \A a \in ClAborts : clPc'[a] = "new" => clPc[a] = "new"
  PROVE  ClCallInv'
<1>1. CASE ClStopped
  BY <1>1 DEF ClCallInv, ClProtocolError, ClStopped
<1>2. CASE ~ClStopped
  BY <1>2 DEF ClCallInv, ClProtocolError, ClStopped, ClFailPending, ClShape
<1>3. QED
  BY <1>1, <1>2

LEMMA ClCallKeeps == ClInv /\ ClShape /\ ClCallInv /\ [ClNext]_clVars => ClCallInv'
<1> SUFFICES ASSUME ClInv, ClShape, ClCallInv, [ClNext]_clVars PROVE ClCallInv'
  OBVIOUS
<1> USE DEF clCallVars, clStateVars, clProcVars
<1>t. clControls \subseteq ClAborts /\ clBox \in [ClAborts -> Nat] /\ clPc \in [ClCalls -> ClLabels]
      /\ ClAborts \subseteq ClCalls
  BY DEF ClShape, ClInv, ClCalls
<1>1. ASSUME UNCHANGED <<clFatal, clClosing, clControls, clBox>>,
             \A a \in ClAborts : clPc'[a] = "new" => clPc[a] = "new"
      PROVE  ClCallInv'
  BY <1>1 DEF ClCallInv, ClStopped
<1>2. ASSUME NEW p \in ClPrompts,
             \/ ClOwnStdin(p) \/ ClReject(p) \/ ClAccept(p) \/ ClWriteFrame(p)
             \/ ClAwaitInit(p) \/ ClInitTimeout(p)
      PROVE  ClCallInv'
  <2>1. \E label \in ClPlaces \cup {"write"} : clPc' = [clPc EXCEPT ![p] = label]
    BY <1>2 DEF ClOwnStdin, ClReject, ClAccept, ClWriteFrame, ClAwaitInit, ClInitTimeout, ClGoto, ClPlaces
  <2>2. \A a \in ClAborts : clPc'[a] = "new" => clPc[a] = "new"
    BY <1>t, <2>1 DEF ClPlaces
  <2>3. UNCHANGED clClosing
        /\ (ClProtocolError \/ UNCHANGED <<clFatal, clControls, clBox>>)
    BY <1>2 DEF ClOwnStdin, ClReject, ClAccept, ClWriteFrame, ClAwaitInit, ClInitTimeout
  <2>4. CASE ClProtocolError /\ clSeq' = clSeq
    BY <2>2, <2>3, <2>4, ClErrorCalls
  <2>5. CASE ClProtocolError /\ clSeq' # clSeq
    BY <1>1, <1>2, <2>2, <2>5 DEF ClOwnStdin, ClReject, ClAccept, ClWriteFrame, ClAwaitInit, ClInitTimeout
  <2>6. QED
    BY <1>1, <2>2, <2>3, <2>4, <2>5
<1>3. ASSUME NEW a \in ClAborts, ClAbort(a) PROVE ClCallInv'
  BY <1>t, <1>3 DEF ClCallInv, ClAbort, ClGoto, ClStopped
<1>4. ASSUME NEW a \in ClAborts, ClWriteInterrupt(a) \/ ClInterruptTimeout(a) \/ ClInterruptDropped(a)
      PROVE  ClCallInv'
  <2>1. /\ UNCHANGED <<clFatal, clClosing, clBox>> /\ clControls' \subseteq clControls
        /\ \E label \in ClPlaces : clPc' = [clPc EXCEPT ![a] = label]
    BY <1>4 DEF ClWriteInterrupt, ClInterruptTimeout, ClInterruptDropped, ClGoto, ClPlaces
  <2>2. QED
    BY <1>t, <2>1 DEF ClCallInv, ClStopped, ClPlaces
<1>5. ASSUME NEW a \in ClAborts, ClInterrupted(a) PROVE ClCallInv'
  <2>1. UNCHANGED <<clFatal, clClosing, clControls>> /\ clPc' = [clPc EXCEPT ![a] = "ok"]
        /\ (clBox' = clBox \/ (clBox[a] > 0 /\ clBox' = [clBox EXCEPT ![a] = @ - 1]))
    BY <1>5 DEF ClInterrupted, ClGoto
  <2>2. \A b \in ClAborts : clBox'[b] = clBox[b] \/ (b = a /\ clBox[b] > 0 /\ clBox'[b] = clBox[b] - 1)
    BY <1>t, <2>1
  <2>3. \A b \in ClAborts : clPc'[b] = "new" => b # a /\ clPc[b] = "new"
    BY <1>t, <2>1
  <2>4. QED
    BY <1>t, <2>1, <2>2, <2>3 DEF ClCallInv, ClStopped
<1>6. ASSUME NEW a \in ClAborts, ClInterruptFails(a) PROVE ClCallInv'
  <2>1. ClProtocolError /\ UNCHANGED <<clClosing, clSeq>> /\ clPc' = [clPc EXCEPT ![a] = "failed"]
    BY <1>6 DEF ClInterruptFails, ClGoto
  <2>2. \A b \in ClAborts : clPc'[b] = "new" => clPc[b] = "new"
    BY <1>t, <2>1
  <2>3. QED
    BY <2>1, <2>2, ClErrorCalls
<1>7. CASE ClClose
  BY <1>t, <1>7 DEF ClCallInv, ClClose, ClFailPending, ClStopped
<1>8. CASE ClHandleControl
  <2> DEFINE a == Head(clOut)[2]
  <2>1. /\ clControls' = clControls \ {a} /\ UNCHANGED <<clFatal, clClosing, clPc>>
        /\ clBox' = IF a \in clControls THEN [clBox EXCEPT ![a] = @ + 1] ELSE clBox
    BY <1>8 DEF ClHandleControl, ClTake
  <2> HIDE DEF a
  <2>2. \A b \in ClAborts : clBox'[b] = IF b = a /\ a \in clControls THEN clBox[b] + 1 ELSE clBox[b]
    BY <1>t, <2>1
  <2>3. QED
    BY <1>t, <2>1, <2>2 DEF ClCallInv, ClStopped
<1>9. CASE ClHandleInit \/ ClHandleMessage \/ ClHandleResult \/ ClHandleGarbage \/ ClWaitProcess
  <2>1. UNCHANGED <<clPc, clClosing, clSeq>>
    BY <1>9 DEF ClHandleInit, ClHandleMessage, ClHandleResult, ClHandleGarbage, ClWaitProcess, ClTake
  <2>2. ClProtocolError \/ UNCHANGED <<clFatal, clControls, clBox>>
    BY <1>9 DEF ClHandleInit, ClHandleMessage, ClHandleResult, ClHandleGarbage, ClWaitProcess, ClRefuse
  <2>3. QED
    BY <1>1, <2>1, <2>2, ClErrorCalls
<1>10. CASE \/ ClReaderEnds \/ (\E turn \in clConvergers : ClConverge(turn))
            \/ ClServes \/ ClSpeaks \/ ClTurnEnds \/ ClDies \/ UNCHANGED clVars
  BY <1>1, <1>10 DEF ClReaderEnds, ClConverge, ClServes, ClSpeaks, ClTurnEnds, ClDies, clVars
<1>11. QED
  BY <1>2, <1>3, <1>4, <1>5, <1>6, <1>7, <1>8, <1>9, <1>10 DEF ClNext

ClRecords ==
  ({"init", "message", "garbage", "result"} \X {"", "success", "error"}) \cup ({"control"} \X ClAborts)

LEMMA ClOutKeeps ==
  ClInv /\ ClShape /\ clOut \in Seq(ClRecords) /\ [ClNext]_clVars => clOut' \in Seq(ClRecords)
<1> SUFFICES ASSUME ClInv, ClShape, clOut \in Seq(ClRecords), [ClNext]_clVars PROVE clOut' \in Seq(ClRecords)
  OBVIOUS
<1> USE DEF clCallVars, clStateVars, clProcVars
<1>0. /\ <<"init", "">> \in ClRecords /\ <<"result", "error">> \in ClRecords /\ <<"result", "success">> \in ClRecords
      /\ <<"message", "error">> \in ClRecords /\ <<"garbage", "error">> \in ClRecords
      /\ \A a \in ClAborts : <<"control", a>> \in ClRecords
  BY DEF ClRecords
<1>1. CASE ClServes
  <2> DEFINE frame == clIn[clRead + 1]
  <2>1. clRead < Len(clIn)
    BY <1>1 DEF ClServes
  <2>2. frame \in ClFrames
    BY <2>1 DEF ClInv, ClShape
  <2>3. frame[1] # "user" => frame[2] \in ClAborts
    BY <2>2 DEF ClFrames
  <2>4. \/ clOut' = clOut \/ clOut' = Append(clOut, <<"init", "">>)
        \/ frame[1] # "user" /\ clOut' \in {Append(clOut, <<"control", frame[2]>>),
                                            clOut \o <<<<"control", frame[2]>>, <<"result", "error">>>>}
    BY <1>1 DEF ClServes
  <2> HIDE DEF frame
  <2>5. ASSUME NEW r \in ClRecords, NEW s \in ClRecords
        PROVE  Append(clOut, r) \in Seq(ClRecords) /\ clOut \o <<r, s>> \in Seq(ClRecords)
    OBVIOUS
  <2>6. QED
    BY <1>0, <2>3, <2>4, <2>5
<1>2. CASE ClSpeaks \/ ClTurnEnds
  <2>1. \E r \in {<<"message", "error">>, <<"garbage", "error">>, <<"result", "error">>, <<"result", "success">>} :
          clOut' = Append(clOut, r)
    BY <1>2 DEF ClSpeaks, ClTurnEnds
  <2>2. \E r \in ClRecords : clOut' = Append(clOut, r)
    BY <1>0, <2>1
  <2>3. QED
    BY <2>2
<1>3. CASE \E kind : ClTake(kind)
  <2>1. clOut # <<>> /\ clOut' = Tail(clOut)
    BY <1>3 DEF ClTake
  <2>2. QED
    BY <2>1
<1>4. CASE ClHandleInit \/ ClHandleMessage \/ ClHandleResult \/ ClHandleControl \/ ClHandleGarbage
  BY <1>3, <1>4 DEF ClHandleInit, ClHandleMessage, ClHandleResult, ClHandleControl, ClHandleGarbage
<1>5. ASSUME NEW p \in ClPrompts,
             \/ ClOwnStdin(p) \/ ClReject(p) \/ ClAccept(p) \/ ClWriteFrame(p)
             \/ ClAwaitInit(p) \/ ClInitTimeout(p)
      PROVE  clOut' = clOut
  BY <1>5 DEF ClOwnStdin, ClReject, ClAccept, ClWriteFrame, ClAwaitInit, ClInitTimeout
<1>6. ASSUME NEW a \in ClAborts,
             \/ ClAbort(a) \/ ClWriteInterrupt(a) \/ ClInterrupted(a)
             \/ ClInterruptTimeout(a) \/ ClInterruptDropped(a) \/ ClInterruptFails(a)
      PROVE  clOut' = clOut
  BY <1>6 DEF ClAbort, ClWriteInterrupt, ClInterrupted, ClInterruptTimeout, ClInterruptDropped, ClInterruptFails
<1>7. CASE ClClose \/ ClReaderEnds \/ ClWaitProcess \/ (\E turn \in clConvergers : ClConverge(turn)) \/ ClDies
            \/ UNCHANGED clVars
  BY <1>7 DEF ClClose, ClReaderEnds, ClWaitProcess, ClConverge, ClDies, clVars
<1>8. QED
  BY <1>1, <1>2, <1>4, <1>5, <1>6, <1>7 DEF ClNext

\* What a turn that the worker shows waits for: its prompt to be written or read, the
\* process, its result, its convergence.
ClUnread == \E i \in (clRead + 1)..Len(clIn) : clIn[i][1] = "user"
ClResultSaid == \E i \in 1..Len(clOut) : clOut[i][1] = "result"
ClAwaited == ClWriting \/ ClUnread \/ clTurn # 0 \/ ClResultSaid \/ clSeq \in clConvergers

ClRunInv ==
  clStatus = "running" /\ ~ClStopped =>
    /\ clConverging => clSeq \in clConvergers
    /\ clAlive => ClAwaited

\* A worker that fails shows no run.
LEMMA ClErrorRuns == ClInv /\ ClProtocolError /\ UNCHANGED clClosing => ClStopped'
  BY DEF ClInv, ClProtocolError, ClStopped

LEMMA ClCallsRun ==
  ASSUME ClInv, ClShape, ClRunInv,
         \/ \E p \in ClPrompts :
              ClOwnStdin(p) \/ ClReject(p) \/ ClAccept(p) \/ ClWriteFrame(p) \/ ClAwaitInit(p) \/ ClInitTimeout(p)
         \/ \E a \in ClAborts :
              \/ ClAbort(a) \/ ClWriteInterrupt(a) \/ ClInterrupted(a)
              \/ ClInterruptTimeout(a) \/ ClInterruptDropped(a) \/ ClInterruptFails(a)
  PROVE  ClRunInv'
<1> USE DEF clCallVars, clStateVars, clProcVars
<1>t. clPc \in [ClCalls -> ClLabels] /\ ClPrompts \subseteq ClCalls /\ ClAborts \subseteq ClCalls
      /\ ClAborts \cap ClPrompts = {}
  BY ClConstants DEF ClInv, ClCalls
<1>1. ASSUME NEW p \in ClPrompts, ClAccept(p) PROVE ClRunInv'
  <2>1. clPc' = [clPc EXCEPT ![p] = "write"] /\ clConverging' = FALSE
    BY <1>1 DEF ClAccept, ClGoto
  <2>2. ClWriting'
    BY <1>t, <2>1 DEF ClWriting
  <2>3. QED
    BY <2>1, <2>2 DEF ClRunInv, ClAwaited
<1>2. ASSUME NEW p \in ClPrompts, ClWriteFrame(p) PROVE ClRunInv'
  <2>1. CASE clAlive /\ ~clClosing
    <3>1. clIn' = Append(clIn, <<"user", clSeq>>)
          /\ UNCHANGED <<clFatal, clClosing, clStatus, clConverging, clConvergers, clSeq, clRead>>
      BY <1>2, <2>1 DEF ClWriteFrame
    <3>2. clIn \in Seq(ClFrames) /\ clRead \in 0..Len(clIn)
      BY DEF ClInv, ClShape
    <3>3. Len(clIn') = Len(clIn) + 1 /\ clIn'[Len(clIn) + 1] = <<"user", clSeq>>
          /\ Len(clIn) + 1 \in (clRead + 1)..(Len(clIn) + 1)
      BY <3>1, <3>2
    <3>4. ClUnread'
      BY <3>1, <3>3 DEF ClUnread
    <3>5. QED
      BY <3>1, <3>4 DEF ClRunInv, ClAwaited, ClStopped
  <2>2. CASE ~(clAlive /\ ~clClosing)
    BY <1>2, <2>2, ClErrorRuns DEF ClWriteFrame, ClRunInv
  <2>3. QED
    BY <2>1, <2>2
<1>3. ASSUME UNCHANGED <<clStatus, clFatal, clClosing, clSeq, clConverging, clConvergers, clAlive, clTurn, clRead, clOut>>,
             clIn' = clIn \/ \E a \in ClAborts : clIn' = Append(clIn, <<"interrupt", a>>),
             ClWriting' = ClWriting
      PROVE  ClRunInv'
  <2>1. clIn \in Seq(ClFrames) /\ clRead \in 0..Len(clIn)
    BY DEF ClInv, ClShape
  <2>2. \A i \in 1..Len(clIn) : clIn'[i] = clIn[i]
    BY <1>3, <2>1
  <2>3. Len(clIn') \in Nat /\ Len(clIn') >= Len(clIn) /\ Len(clIn) \in Nat
    BY <1>3, <2>1
  <2>4. ClUnread => ClUnread'
    BY <1>3, <2>1, <2>2, <2>3 DEF ClUnread
  <2>5. ClResultSaid' = ClResultSaid
    BY <1>3 DEF ClResultSaid
  <2>6. QED
    BY <1>3, <2>4, <2>5 DEF ClRunInv, ClAwaited, ClStopped
<1>4. ASSUME NEW p \in ClPrompts, ClOwnStdin(p) \/ ClReject(p) \/ ClAwaitInit(p) PROVE ClRunInv'
  <2>1. /\ UNCHANGED <<clStatus, clFatal, clClosing, clSeq, clConverging, clConvergers, clProcVars>>
        /\ clPc[p] # "write" /\ \E label \in ClPlaces : clPc' = [clPc EXCEPT ![p] = label]
    BY <1>4 DEF ClOwnStdin, ClReject, ClAwaitInit, ClGoto, ClPlaces
  <2>2. ClWriting' = ClWriting
    BY <1>t, <2>1 DEF ClWriting, ClPlaces
  <2>3. QED
    BY <1>3, <2>1, <2>2
<1>5. ASSUME NEW a \in ClAborts,
             ClAbort(a) \/ ClWriteInterrupt(a) \/ ClInterrupted(a) \/ ClInterruptTimeout(a) \/ ClInterruptDropped(a)
      PROVE  ClRunInv'
  <2>1. /\ UNCHANGED <<clStatus, clFatal, clClosing, clSeq, clConverging, clConvergers, clAlive, clTurn, clRead, clOut>>
        /\ clIn' = clIn \/ clIn' = Append(clIn, <<"interrupt", a>>)
        /\ \E label \in ClLabels : clPc' = [clPc EXCEPT ![a] = label]
    BY <1>5 DEF ClAbort, ClWriteInterrupt, ClInterrupted, ClInterruptTimeout, ClInterruptDropped, ClGoto, ClLabels,
      ClPlaces
  <2>2. ClWriting' = ClWriting
    BY <1>t, <2>1 DEF ClWriting
  <2>3. QED
    BY <1>3, <2>1, <2>2
<1>6. ASSUME NEW c \in ClCalls, ClInitTimeout(c) \/ ClInterruptFails(c) PROVE ClRunInv'
  BY <1>6, ClErrorRuns DEF ClInitTimeout, ClInterruptFails, ClRunInv
<1>7. QED
  BY <1>t, <1>1, <1>2, <1>4, <1>5, <1>6

LEMMA ClReaderRuns ==
  ASSUME ClInv, ClShape, clOut \in Seq(ClRecords), ClRunInv,
         \/ ClHandleInit \/ ClHandleMessage \/ ClHandleResult \/ ClHandleControl \/ ClHandleGarbage
  PROVE  ClRunInv'
<1> USE DEF clCallVars, clStateVars, clProcVars
<1>1. CASE ClRefuse
  BY <1>1, ClErrorRuns DEF ClHandleInit, ClHandleMessage, ClHandleResult, ClHandleControl, ClHandleGarbage,
    ClTake, ClRefuse, ClRunInv
<1>2. CASE ~ClRefuse /\ ~ClHandleResult
  <2>1. PICK kind \in {"init", "message", "control"} : ClTake(kind)
    BY <1>2 DEF ClHandleInit, ClHandleMessage, ClHandleControl, ClHandleGarbage
  <2>2. UNCHANGED <<clPc, clClosing, clFatal, clStatus, clConverging, clConvergers, clSeq, clAlive, clTurn, clIn, clRead>>
    BY <1>2 DEF ClHandleInit, ClHandleMessage, ClHandleControl, ClHandleGarbage, ClTake
  <2>3. Head(clOut) = clOut[1] /\ clOut[1][1] # "result" /\ Len(clOut) > 0 /\ Len(clOut) \in Nat
        /\ Len(clOut') = Len(clOut) - 1 /\ \A i \in 1..Len(clOut') : clOut'[i] = clOut[i + 1]
    BY <2>1 DEF ClTake
  <2>4. ASSUME ClResultSaid PROVE ClResultSaid'
    <3>1. PICK i \in 1..Len(clOut) : clOut[i][1] = "result"
      BY <2>4 DEF ClResultSaid
    <3>2. i - 1 \in 1..Len(clOut') /\ clOut'[i - 1] = clOut[(i - 1) + 1] /\ (i - 1) + 1 = i
      BY <2>3, <3>1
    <3>3. QED
      BY <3>1, <3>2 DEF ClResultSaid
  <2>5. ClWriting' = ClWriting /\ ClUnread' = ClUnread
    BY <2>2 DEF ClWriting, ClUnread
  <2>6. QED
    BY <2>2, <2>4, <2>5 DEF ClRunInv, ClAwaited, ClStopped
<1>3. CASE ~ClRefuse /\ ClHandleResult
  <2>1. /\ clConvergers' = IF clConverging THEN clConvergers ELSE clConvergers \cup {clSeq}
        /\ UNCHANGED <<clStatus, clFatal, clClosing, clSeq>>
    BY <1>3 DEF ClHandleResult, ClTake
  <2>2. clStatus' = "running" /\ ~ClStopped' => clSeq' \in clConvergers'
    BY <2>1 DEF ClRunInv, ClStopped
  <2>3. QED
    BY <2>2 DEF ClRunInv, ClAwaited
<1>4. QED
  BY <1>1, <1>2, <1>3

LEMMA ClProcessRuns ==
  ASSUME ClInv, ClShape, clOut \in Seq(ClRecords), ClRunInv,
         \/ ClClose \/ ClReaderEnds \/ ClWaitProcess \/ (\E turn \in clConvergers : ClConverge(turn))
         \/ ClServes \/ ClSpeaks \/ ClTurnEnds \/ ClDies
  PROVE  ClRunInv'
<1> USE DEF clCallVars, clStateVars, clProcVars
<1>1. CASE ClClose
  BY <1>1 DEF ClClose, ClRunInv, ClStopped
<1>2. CASE ClWaitProcess
  BY <1>2, ClErrorRuns DEF ClWaitProcess, ClRunInv
<1>3. CASE ClDies
  BY <1>3 DEF ClDies, ClKill, ClRunInv, ClStopped
<1>4. CASE ClReaderEnds
  BY <1>4 DEF ClReaderEnds, ClRunInv, ClAwaited, ClWriting, ClUnread, ClResultSaid, ClStopped
<1>5. ASSUME NEW turn \in clConvergers, ClConverge(turn) PROVE ClRunInv'
  <2>1. /\ clConvergers' = clConvergers \ {turn} /\ clStatus' = IF ClStopped \/ turn # clSeq THEN clStatus ELSE "idle"
        /\ UNCHANGED <<clPc, clFatal, clClosing, clSeq, clConverging, clProcVars>>
    BY <1>5 DEF ClConverge, ClFinishTurn
  <2>2. CASE turn = clSeq
    BY <2>1, <2>2 DEF ClRunInv, ClStopped
  <2>3. CASE turn # clSeq
    <3>1. ClWriting' = ClWriting /\ ClUnread' = ClUnread /\ ClResultSaid' = ClResultSaid
      BY <2>1 DEF ClWriting, ClUnread, ClResultSaid
    <3>2. QED
      BY <2>1, <2>3, <3>1 DEF ClRunInv, ClAwaited, ClStopped
  <2>4. QED
    BY <2>2, <2>3
<1>6. ASSUME NEW more, clOut' = clOut \o more, more \in Seq(ClRecords),
             UNCHANGED <<clPc, clStatus, clFatal, clClosing, clSeq, clConverging, clConvergers, clIn, clAlive>>
      PROVE  /\ ClWriting' = ClWriting
             /\ ClResultSaid => ClResultSaid'
             /\ (\E i \in 1..Len(more) : more[i][1] = "result") => ClResultSaid'
             /\ (ClAwaited => ClAwaited') => ClRunInv'
  <2>1. /\ Len(clOut') = Len(clOut) + Len(more) /\ Len(clOut) \in Nat /\ Len(more) \in Nat
        /\ \A i \in 1..Len(clOut) : clOut'[i] = clOut[i]
        /\ \A i \in 1..Len(more) : clOut'[Len(clOut) + i] = more[i]
    BY <1>6
  <2>2. ClResultSaid => ClResultSaid'
    BY <2>1 DEF ClResultSaid
  <2>3. ASSUME NEW i \in 1..Len(more), more[i][1] = "result" PROVE ClResultSaid'
    <3>1. Len(clOut) + i \in 1..Len(clOut')
      BY <2>1
    <3>2. QED
      BY <2>1, <2>3, <3>1 DEF ClResultSaid
  <2>4. ClWriting' = ClWriting
    BY <1>6 DEF ClWriting
  <2>5. (ClAwaited => ClAwaited') => ClRunInv'
    BY <1>6 DEF ClRunInv, ClStopped
  <2>6. QED
    BY <2>2, <2>3, <2>4, <2>5
<1>7. CASE ClSpeaks \/ ClTurnEnds
  <2>1. PICK r \in ClRecords :
          clOut' = Append(clOut, r) /\ (clTurn' = clTurn \/ (clTurn' = 0 /\ r[1] = "result"))
    <3>1. CASE ClSpeaks
      <4>1. PICK kind \in {"message", "garbage", "result"} : clOut' = Append(clOut, <<kind, "error">>)
        BY <3>1 DEF ClSpeaks
      <4>2. <<kind, "error">> \in ClRecords
        BY DEF ClRecords
      <4>3. clTurn' = clTurn
        BY <3>1 DEF ClSpeaks
      <4>4. QED
        BY <4>1, <4>2, <4>3
    <3>2. CASE ClTurnEnds
      <4>1. PICK outcome \in {"success", "error"} : clOut' = Append(clOut, <<"result", outcome>>)
        BY <3>2 DEF ClTurnEnds
      <4>2. <<"result", outcome>> \in ClRecords /\ <<"result", outcome>>[1] = "result"
        BY DEF ClRecords
      <4>3. clTurn' = 0
        BY <3>2 DEF ClTurnEnds
      <4>4. QED
        BY <4>1, <4>2, <4>3
    <3>3. QED
      BY <1>7, <3>1, <3>2
  <2>2. clOut' = clOut \o <<r>> /\ <<r>> \in Seq(ClRecords) /\ 1 \in 1..Len(<<r>>) /\ <<r>>[1] = r
    BY <2>1
  <2>3. UNCHANGED <<clPc, clStatus, clFatal, clClosing, clSeq, clConverging, clConvergers, clIn, clAlive, clRead>>
    BY <1>7 DEF ClSpeaks, ClTurnEnds
  <2>4. /\ ClWriting' = ClWriting
        /\ ClResultSaid => ClResultSaid'
        /\ r[1] = "result" => ClResultSaid'
        /\ (ClAwaited => ClAwaited') => ClRunInv'
    BY <1>6, <2>2, <2>3
  <2>5. ClUnread' = ClUnread
    BY <2>3 DEF ClUnread
  <2>6. QED
    BY <2>1, <2>3, <2>4, <2>5 DEF ClAwaited
<1>8. CASE ClServes
  <2> DEFINE frame == clIn[clRead + 1]
  <2>1. clRead < Len(clIn) /\ clRead' = clRead + 1 /\ clRead \in 0..Len(clIn) /\ clIn \in Seq(ClFrames)
        /\ UNCHANGED <<clPc, clStatus, clFatal, clClosing, clSeq, clConverging, clConvergers, clIn, clAlive>>
    BY <1>8 DEF ClServes, ClShape, ClInv
  <2>2. frame \in ClFrames /\ (frame[1] = "user" => frame[2] > 0) /\ Len(clIn) \in Nat
    BY <2>1 DEF ClShape
  <2>3. ClUnread => ClUnread' \/ frame[1] = "user"
    <3> SUFFICES ASSUME ClUnread, frame[1] # "user" PROVE ClUnread'
      OBVIOUS
    <3>1. PICK i \in (clRead + 1)..Len(clIn) : clIn[i][1] = "user"
      BY DEF ClUnread
    <3>2. i # clRead + 1
      BY <3>1
    <3>3. i \in (clRead' + 1)..Len(clIn')
      BY <2>1, <2>2, <3>1, <3>2
    <3>4. QED
      BY <2>1, <3>1, <3>3 DEF ClUnread
  <2>4. CASE frame[1] = "user"
    <3>1. clTurn' = frame[2]
      BY <1>8, <2>4 DEF ClServes
    <3>2. clTurn' # 0
      BY <2>2, <2>4, <3>1
    <3>3. QED
      BY <2>1, <3>2 DEF ClRunInv, ClAwaited, ClStopped
  <2>5. CASE frame[1] # "user"
    <3> DEFINE reply == <<"control", frame[2]>>
    <3>1. reply \in ClRecords /\ <<"result", "error">> \in ClRecords
      BY <2>2, <2>5 DEF ClRecords, ClFrames
    <3>0. \/ clOut' = Append(clOut, reply) /\ clTurn = 0
          \/ clOut' = clOut \o <<reply, <<"result", "error">>>>
      BY <1>8, <2>5 DEF ClServes
    <3> HIDE DEF reply, frame
    <3>2. \/ clOut' = clOut \o <<reply>> /\ clTurn = 0
          \/ clOut' = clOut \o <<reply, <<"result", "error">>>>
      <4>1. Append(clOut, reply) = clOut \o <<reply>>
        BY <3>1
      <4>2. QED
        BY <3>0, <4>1, Zenon
    <3>3. CASE clOut' = clOut \o <<reply>> /\ clTurn = 0
      <4>1. <<reply>> \in Seq(ClRecords)
        BY <3>1
      <4>2. (ClResultSaid => ClResultSaid') /\ ClWriting' = ClWriting /\ ((ClAwaited => ClAwaited') => ClRunInv')
        BY <1>6, <2>1, <3>3, <4>1
      <4>3. QED
        BY <2>1, <2>3, <2>5, <3>3, <4>2 DEF ClAwaited
    <3>4. CASE clOut' = clOut \o <<reply, <<"result", "error">>>>
      <4> DEFINE more == <<reply, <<"result", "error">>>>
      <4>1. more \in Seq(ClRecords) /\ 2 \in 1..Len(more) /\ more[2] = <<"result", "error">>
        BY <3>1
      <4>2. \E i \in 1..Len(more) : more[i][1] = "result"
        BY <4>1
      <4> HIDE DEF more
      <4>3. ClResultSaid' /\ ((ClAwaited => ClAwaited') => ClRunInv')
        BY <1>6, <2>1, <3>4, <4>1, <4>2 DEF more
      <4>4. QED
        BY <4>3 DEF ClAwaited
    <3>5. QED
      BY <3>2, <3>3, <3>4
  <2>6. QED
    BY <2>4, <2>5
<1>9. QED
  BY <1>1, <1>2, <1>3, <1>4, <1>5, <1>7, <1>8

ClMore == ClShape /\ clOut \in Seq(ClRecords) /\ ClCallInv /\ ClRunInv

LEMMA ClMoreStarts == ClInit => ClMore
<1> SUFFICES ASSUME ClInit PROVE ClMore
  OBVIOUS
<1>1. clBox \in [ClAborts -> Nat] /\ ~ClWriting /\ Len(clIn) = 0
  BY DEF ClInit, ClWriting, ClCalls
<1>2. ClShape
  <2>1. clConvergers \subseteq 1..clSeq /\ clRead \in 0..Len(clIn) /\ clTurn \in Nat
    BY <1>1 DEF ClInit
  <2>2. ~(clStatus = "running" \/ ClWriting)
    BY <1>1 DEF ClInit
  <2>3. \A i \in 1..Len(clIn) : clIn[i][1] = "user" => clIn[i][2] > 0
    BY <1>1
  <2>4. QED
    BY <1>1, <2>1, <2>2, <2>3 DEF ClInit, ClShape
<1>3. ClCallInv
  BY DEF ClInit, ClCallInv
<1>4. clOut \in Seq(ClRecords) /\ ClRunInv
  BY DEF ClInit, ClRunInv
<1>5. QED
  BY <1>2, <1>3, <1>4 DEF ClMore

LEMMA ClMoreKeeps == ClInv /\ ClMore /\ [ClNext]_clVars => ClMore'
<1> SUFFICES ASSUME ClInv, ClMore, [ClNext]_clVars PROVE ClMore'
  OBVIOUS
<1>1. ClShape /\ clOut \in Seq(ClRecords) /\ ClCallInv /\ ClRunInv
  BY DEF ClMore
<1>2. ClRunInv'
  <2>1. CASE UNCHANGED clVars
    BY <1>1, <2>1 DEF clVars, clCallVars, clStateVars, clProcVars, ClRunInv, ClAwaited, ClWriting, ClUnread,
      ClResultSaid, ClStopped
  <2>2. CASE ClNext
    BY <1>1, <2>2, ClCallsRun, ClReaderRuns, ClProcessRuns DEF ClNext
  <2>3. QED
    BY <2>1, <2>2
<1>3. QED
  BY <1>1, <1>2, ClShapeKeeps, ClOutKeeps, ClCallKeeps DEF ClMore

LEMMA ClHolds == ClInv /\ ClMore => ClTypeOK /\ ClCallsAnswered /\ ClSettles
<1> SUFFICES ASSUME ClInv, ClMore PROVE ClTypeOK /\ ClCallsAnswered /\ ClSettles
  OBVIOUS
<1>1. ClTypeOK
  BY ClShapeTyped DEF ClMore
<1>2. ClCallsAnswered
  BY <1>1 DEF ClMore, ClCallInv, ClCallsAnswered, ClTypeOK
<1>3. ClSettles
  <2>1. SUFFICES ASSUME clAlive, clTurn = 0, clRead = Len(clIn), clOut = <<>>, clConvergers = {}, ~ClStopped,
                        \A c \in ClCalls : clPc[c] \in {"new", "ok", "rejected", "failed"},
                        clStatus = "running"
                 PROVE  FALSE
    BY DEF ClSettles
  <2>2. ClAwaited
    BY <2>1 DEF ClMore, ClRunInv
  <2>3. clIn \in Seq(ClFrames)
    BY DEF ClInv
  <2>4. Len(clIn) \in Nat /\ Len(clOut) = 0
    BY <2>1, <2>3
  <2>5. ~ClUnread /\ ~ClResultSaid
    BY <2>1, <2>4 DEF ClUnread, ClResultSaid
  <2>6. ~ClWriting
    BY <2>1 DEF ClWriting, ClCalls
  <2>7. QED
    BY <2>1, <2>2, <2>5, <2>6 DEF ClAwaited
<1>4. QED
  BY <1>1, <1>2, <1>3

-----------------------------------------------------------------------------
(* OpenCode.                                                                *)

OcKinds == {"updated", "idle"}
OcShape == OcTypeOK /\ ocEvents \in Seq(OcKinds)
OcWaits(event) == \E i \in 1..Len(ocEvents) : ocEvents[i] = event

\* What is on the channel after the supervisor has forwarded an event.
LEMMA OcForwarded ==
  ASSUME OcShape, NEW event \in OcKinds, OcForward(event)
  PROVE  /\ ocEvents' \in Seq(OcKinds) /\ Len(ocEvents') <= OcCap /\ ocDropped' \in BOOLEAN
         /\ ~ocDropped' => ~ocDropped /\ OcWaits(event)'
         /\ \A kind : OcWaits(kind) => OcWaits(kind)'
<1>1. ocEvents \in Seq(OcKinds) /\ Len(ocEvents) \in Nat /\ Len(ocEvents) <= OcCap /\ OcCap \in Nat
      /\ ocDropped \in BOOLEAN
  BY OcBoundsAssumption DEF OcShape, OcTypeOK
<1>2. CASE Len(ocEvents) < OcCap
  <2>1. /\ ocEvents' = Append(ocEvents, event) /\ ocDropped' = ocDropped
    BY <1>1, <1>2 DEF OcForward
  <2>2. /\ ocEvents' \in Seq(OcKinds) /\ Len(ocEvents') = Len(ocEvents) + 1
        /\ ocEvents'[Len(ocEvents) + 1] = event /\ \A i \in 1..Len(ocEvents) : ocEvents'[i] = ocEvents[i]
    BY <1>1, <2>1
  <2>3. OcWaits(event)'
    BY <1>1, <2>2 DEF OcWaits
  <2>4. \A kind : OcWaits(kind) => OcWaits(kind)'
    BY <1>1, <2>2 DEF OcWaits
  <2>5. QED
    BY <1>1, <1>2, <2>1, <2>2, <2>3, <2>4
<1>3. CASE ~(Len(ocEvents) < OcCap)
  <2>1. Len(ocEvents) >= OcCap
    BY <1>1, <1>3
  <2>2. ocEvents' = ocEvents /\ ocDropped' = TRUE
    BY <1>3, <2>1 DEF OcForward
  <2>3. \A kind : OcWaits(kind) => OcWaits(kind)'
    BY <2>2 DEF OcWaits
  <2>4. QED
    BY <1>1, <2>2, <2>3
<1>4. QED
  BY <1>2, <1>3

LEMMA OcTaken ==
  ASSUME OcShape, NEW kind, OcTake(kind)
  PROVE  /\ ocEvents' \in Seq(OcKinds) /\ Len(ocEvents') <= OcCap
         /\ \A other : other # kind /\ OcWaits(other) => OcWaits(other)'
<1>1. ocEvents \in Seq(OcKinds) /\ ocEvents # <<>> /\ Head(ocEvents) = kind /\ ocEvents' = Tail(ocEvents)
      /\ Len(ocEvents) <= OcCap /\ OcCap \in Nat
  BY OcBoundsAssumption DEF OcShape, OcTypeOK, OcTake
<1>2. /\ ocEvents' \in Seq(OcKinds) /\ Len(ocEvents') = Len(ocEvents) - 1 /\ ocEvents[1] = kind
      /\ Len(ocEvents) \in Nat /\ \A i \in 1..Len(ocEvents') : ocEvents'[i] = ocEvents[i + 1]
  BY <1>1
<1>3. ASSUME NEW other, other # kind, OcWaits(other) PROVE OcWaits(other)'
  <2>1. PICK i \in 1..Len(ocEvents) : ocEvents[i] = other
    BY <1>3 DEF OcWaits
  <2>2. i - 1 \in 1..Len(ocEvents') /\ (i - 1) + 1 = i
    BY <1>2, <1>3, <2>1
  <2>3. QED
    BY <1>2, <2>1, <2>2 DEF OcWaits
<1>4. QED
  BY <1>1, <1>2, <1>3

LEMMA OcShapeKeeps == OcShape /\ [OcNext]_ocVars => OcShape'
<1> SUFFICES ASSUME OcShape, [OcNext]_ocVars PROVE OcShape'
  OBVIOUS
<1> USE DEF ocCallVars, ocRefreshVars, ocServerVars, ocFeedVars
<1>t. OcTypeOK
  BY DEF OcShape
<1> DEFINE StatusTyped ==
        /\ ocStatus' \in {"idle", "running", "error"} /\ ocRun' \in {"running", "done"}
        /\ ocClosed' \in BOOLEAN /\ ocLost' \in BOOLEAN /\ ocStale' \in BOOLEAN /\ ocUp' \in BOOLEAN
        /\ ocNative' \in {"busy", "idle"}
<1>1. StatusTyped
  <2>0. /\ ocStatus \in {"idle", "running", "error"} /\ ocRun \in {"running", "done"}
        /\ ocClosed \in BOOLEAN /\ ocLost \in BOOLEAN /\ ocStale \in BOOLEAN /\ ocUp \in BOOLEAN
        /\ ocNative \in {"busy", "idle"}
    BY <1>t DEF OcTypeOK
  <2>1. ASSUME NEW c \in OcCalls,
               OcStart(c) \/ OcAsk(c) \/ OcPromptTold(c) \/ OcSend(c) \/ OcStateTold(c) \/ OcAbort(c)
        PROVE  StatusTyped
    <3>1. CASE OcStart(c) \/ OcAsk(c) \/ OcPromptTold(c)
      BY <2>0, <3>1 DEF OcStart, OcAsk, OcPromptTold, OcOperationError
    <3>2. CASE OcSend(c)
      BY <2>0, <3>2 DEF OcSend, OcOperationError
    <3>3. CASE OcStateTold(c)
      BY <2>0, <3>3 DEF OcStateTold, OcFinishTurn
    <3>4. CASE OcAbort(c)
      BY <2>0, <3>4 DEF OcAbort, OcFinishTurn
    <3>5. QED
      BY <2>1, <3>1, <3>2, <3>3, <3>4
  <2>2. CASE OcClose \/ OcRefreshReads \/ OcRefreshEnds \/ OcUnavailable \/ OcRunEnds
    BY <2>0, <2>2 DEF OcClose, OcRefreshReads, OcRefreshEnds, OcUnavailable, OcRunEnds
  <2>3. CASE OcUpdated \/ OcIdle
    BY <2>0, <2>3 DEF OcUpdated, OcIdle, OcTake, OcFinishTurn
  <2>4. CASE OcServerWrites \/ OcServerTurnEnds \/ OcServerDies
    BY <2>0, <2>4 DEF OcServerWrites, OcServerTurnEnds, OcServerDies
  <2>5. CASE UNCHANGED ocVars
    BY <2>0, <2>5 DEF ocVars
  <2>6. QED
    BY <2>1, <2>2, <2>3, <2>4, <2>5 DEF OcNext
<1>2. ocPc' \in [OcCalls -> {"new", "ask", "told", "send", "abort", "done"}]
  <2>1. ocPc \in [OcCalls -> {"new", "ask", "told", "send", "abort", "done"}]
    BY <1>t DEF OcTypeOK
  <2>2. ASSUME NEW c \in OcCalls,
               OcStart(c) \/ OcAsk(c) \/ OcPromptTold(c) \/ OcSend(c) \/ OcStateTold(c) \/ OcAbort(c)
        PROVE  \E label \in {"ask", "told", "send", "abort", "done"} : ocPc' = [ocPc EXCEPT ![c] = label]
    BY <2>2 DEF OcStart, OcAsk, OcPromptTold, OcSend, OcStateTold, OcAbort, OcGoto
  <2>3. CASE ~\E c \in OcCalls :
               OcStart(c) \/ OcAsk(c) \/ OcPromptTold(c) \/ OcSend(c) \/ OcStateTold(c) \/ OcAbort(c)
    <3>1. ocPc' = ocPc
      BY <2>3 DEF OcNext, OcClose, OcRefreshReads, OcRefreshEnds, OcUpdated, OcIdle, OcUnavailable, OcRunEnds,
        OcTake, OcServerWrites, OcServerTurnEnds, OcServerDies, ocVars
    <3>2. QED
      BY <2>1, <3>1
  <2>4. QED
    BY <2>1, <2>2, <2>3
<1> DEFINE RefreshTyped ==
        /\ ocRefreshing' \in BOOLEAN /\ ocAgain' \in BOOLEAN /\ ocFailed' \in BOOLEAN
        /\ ocShown' \in 1..(OcMaxEvents + 1) /\ ocVersion' \in 1..(OcMaxEvents + 1)
        /\ ocRead' \in 0..(OcMaxEvents + 1)
<1>3. RefreshTyped
  <2>0. /\ ocRefreshing \in BOOLEAN /\ ocAgain \in BOOLEAN /\ ocFailed \in BOOLEAN /\ ocClosed \in BOOLEAN
        /\ ocShown \in 1..(OcMaxEvents + 1) /\ ocVersion \in 1..(OcMaxEvents + 1)
        /\ ocRead \in 0..(OcMaxEvents + 1) /\ OcMaxEvents \in Nat
    BY <1>t, OcBoundsAssumption DEF OcTypeOK
  <2>1. ASSUME OcSchedule \/ UNCHANGED ocRefreshVars, ocVersion' = ocVersion PROVE RefreshTyped
    <3>1. CASE OcSchedule
      <4>1. ocRefreshing' \in BOOLEAN /\ ocAgain' \in BOOLEAN
        BY <2>0, <3>1 DEF OcSchedule
      <4>2. UNCHANGED <<ocShown, ocFailed>> /\ ocRead' \in {ocRead, 0}
        BY <3>1 DEF OcSchedule
      <4>3. QED
        BY <2>0, <2>1, <4>1, <4>2
    <3>2. CASE UNCHANGED ocRefreshVars
      BY <2>0, <2>1, <3>2
    <3>3. QED
      BY <2>1, <3>1, <3>2
  <2>2. ASSUME NEW c \in OcCalls,
               OcStart(c) \/ OcAsk(c) \/ OcPromptTold(c) \/ OcSend(c) \/ OcStateTold(c) \/ OcAbort(c)
        PROVE  (OcSchedule \/ UNCHANGED ocRefreshVars) /\ ocVersion' = ocVersion
    BY <2>2 DEF OcStart, OcAsk, OcPromptTold, OcSend, OcStateTold, OcAbort, OcFinishTurn
  <2>3. CASE OcClose \/ OcUpdated \/ OcIdle \/ OcUnavailable \/ OcRunEnds \/ OcServerTurnEnds \/ OcServerDies
    BY <2>1, <2>3 DEF OcClose, OcUpdated, OcIdle, OcUnavailable, OcRunEnds, OcTake, OcFinishTurn,
      OcServerTurnEnds, OcServerDies
  <2>4. CASE OcServerWrites
    BY <2>0, <2>4 DEF OcServerWrites
  <2>5. CASE OcRefreshReads
    BY <2>0, <2>5 DEF OcRefreshReads
  <2>6. CASE OcRefreshEnds
    <3>1. ocRefreshing' \in BOOLEAN /\ ocAgain' \in BOOLEAN /\ ocFailed' \in BOOLEAN
      BY <2>0, <2>6 DEF OcRefreshEnds
    <3>2. ocShown' = ocShown \/ (ocRead # 0 /\ ocShown' = ocRead)
      BY <2>6 DEF OcRefreshEnds
    <3>3. ocRead' = 0 /\ ocVersion' = ocVersion
      BY <2>6 DEF OcRefreshEnds
    <3>4. ocShown' \in 1..(OcMaxEvents + 1)
      BY <2>0, <3>2
    <3>5. QED
      BY <2>0, <3>1, <3>3, <3>4
  <2>7. CASE UNCHANGED ocVars
    BY <2>1, <2>7 DEF ocVars
  <2>8. QED
    BY <2>1, <2>2, <2>3, <2>4, <2>5, <2>6, <2>7 DEF OcNext
<1> DEFINE EventsTyped ==
        /\ ocEvents' \in Seq(OcKinds) /\ Len(ocEvents') <= OcCap /\ ocDropped' \in BOOLEAN
<1>4. EventsTyped
  <2>0. ocEvents \in Seq(OcKinds) /\ Len(ocEvents) <= OcCap /\ ocDropped \in BOOLEAN
    BY <1>t DEF OcTypeOK, OcShape
  <2>1. ASSUME UNCHANGED <<ocEvents, ocDropped>> PROVE EventsTyped
    BY <2>0, <2>1
  <2>2. ASSUME NEW event \in OcKinds, OcForward(event) PROVE EventsTyped
    BY <2>2, OcForwarded
  <2>3. ASSUME NEW kind, OcTake(kind) PROVE EventsTyped
    BY <2>0, <2>3, OcTaken DEF OcTake
  <2>4. ASSUME NEW c \in OcCalls,
               OcStart(c) \/ OcAsk(c) \/ OcPromptTold(c) \/ OcSend(c) \/ OcStateTold(c) \/ OcAbort(c)
        PROVE  UNCHANGED <<ocEvents, ocDropped>> \/ OcForward("idle")
    BY <2>4 DEF OcStart, OcAsk, OcPromptTold, OcSend, OcStateTold, OcAbort
  <2>5. CASE OcClose \/ OcRefreshReads \/ OcRefreshEnds \/ OcUnavailable \/ OcRunEnds \/ OcServerDies
             \/ UNCHANGED ocVars
    BY <2>1, <2>5 DEF OcClose, OcRefreshReads, OcRefreshEnds, OcUnavailable, OcRunEnds, OcServerDies, ocVars
  <2>6. CASE OcUpdated \/ OcIdle
    BY <2>3, <2>6 DEF OcUpdated, OcIdle
  <2>7. CASE OcServerWrites \/ OcServerTurnEnds
    BY <2>2, <2>7 DEF OcServerWrites, OcServerTurnEnds, OcKinds
  <2>8. QED
    BY <2>1, <2>2, <2>4, <2>5, <2>6, <2>7 DEF OcNext, OcKinds
<1>5. QED
  BY <1>1, <1>2, <1>3, <1>4 DEF OcShape, OcTypeOK

\* While nothing was lost, a refresh that read an older transcript is repeated or an
\* event for it still waits; so is a projection that shows an older one.
OcFreshInv ==
  ~ocDropped /\ ~ocClosed =>
    /\ ocRefreshing => ocAgain \/ ocRead = 0 \/ ocRead = ocVersion \/ OcWaits("updated")
    /\ ~ocRefreshing => ocFailed \/ ocShown = ocVersion \/ OcWaits("updated")

\* What a running worker waits for: its turn on the server, the event that ends
\* it, or the answer to the prompt.
OcRunInv ==
  ~ocDropped /\ ~ocClosed /\ ~ocStale /\ ocUp /\ ocStatus = "running" =>
    ocNative = "busy" \/ OcWaits("idle") \/ \E c \in OcCalls : ocPc[c] = "send"

OcInv == OcShape /\ OcFreshInv /\ OcRunInv

LEMMA OcFreshKeeps == OcShape /\ OcFreshInv /\ [OcNext]_ocVars => OcFreshInv'
<1> SUFFICES ASSUME OcShape, OcFreshInv, [OcNext]_ocVars PROVE OcFreshInv'
  OBVIOUS
<1> USE DEF ocCallVars, ocRefreshVars, ocServerVars, ocFeedVars
<1>0. /\ ocRefreshing \in BOOLEAN /\ ocAgain \in BOOLEAN /\ ocFailed \in BOOLEAN /\ ocClosed \in BOOLEAN
      /\ ocDropped \in BOOLEAN
  BY DEF OcShape, OcTypeOK
<1> DEFINE Kept == OcWaits("updated") => OcWaits("updated")'
           Steady == ocVersion' = ocVersion /\ (~ocDropped' /\ ~ocClosed' => ~ocDropped /\ ~ocClosed)
<1>1. ASSUME UNCHANGED ocEvents PROVE Kept
  BY <1>1 DEF OcWaits
<1>2. ASSUME Steady, Kept, OcSchedule \/ UNCHANGED ocRefreshVars PROVE OcFreshInv'
  <2>1. CASE OcSchedule
    BY <1>0, <1>2, <2>1 DEF OcSchedule, OcFreshInv
  <2>2. CASE UNCHANGED ocRefreshVars
    BY <1>0, <1>2, <2>2 DEF OcFreshInv
  <2>3. QED
    BY <1>2, <2>1, <2>2
<1>3. ASSUME NEW c \in OcCalls,
             OcStart(c) \/ OcAsk(c) \/ OcPromptTold(c) \/ OcSend(c) \/ OcStateTold(c) \/ OcAbort(c)
      PROVE  OcFreshInv'
  <2>1. OcSchedule \/ UNCHANGED ocRefreshVars
    BY <1>3 DEF OcStart, OcAsk, OcPromptTold, OcSend, OcStateTold, OcAbort, OcFinishTurn
  <2>2. UNCHANGED <<ocVersion, ocClosed>>
    BY <1>3 DEF OcStart, OcAsk, OcPromptTold, OcSend, OcStateTold, OcAbort, OcFinishTurn
  <2>3. UNCHANGED <<ocEvents, ocDropped>> \/ OcForward("idle")
    BY <1>3 DEF OcStart, OcAsk, OcPromptTold, OcSend, OcStateTold, OcAbort
  <2>4. Kept /\ (~ocDropped' => ~ocDropped)
    <3>1. CASE UNCHANGED <<ocEvents, ocDropped>>
      BY <1>1, <3>1
    <3>2. CASE OcForward("idle")
      BY <3>2, OcForwarded DEF OcKinds
    <3>3. QED
      BY <2>3, <3>1, <3>2
  <2>5. QED
    BY <1>2, <2>1, <2>2, <2>4
<1>4. CASE OcClose \/ OcUnavailable \/ OcRunEnds \/ OcServerDies \/ UNCHANGED ocVars
  <2>1. Steady /\ UNCHANGED ocEvents /\ UNCHANGED ocRefreshVars
    BY <1>0, <1>4 DEF OcClose, OcUnavailable, OcRunEnds, OcServerDies, ocVars
  <2>2. QED
    BY <1>1, <1>2, <2>1
<1>5. CASE OcRefreshReads
  BY <1>0, <1>1, <1>5 DEF OcRefreshReads, OcFreshInv
<1>6. CASE OcRefreshEnds
  <2>1. Kept /\ Steady
    BY <1>1, <1>6 DEF OcRefreshEnds
  <2>2. ocRead' = 0 /\ ocRefreshing /\ ocRefreshing' = (ocAgain /\ ~ocClosed) /\ ocClosed' = ocClosed
        /\ ocDropped' = ocDropped
    BY <1>6 DEF OcRefreshEnds
  <2>3. ocFailed' = TRUE \/ (ocRead # 0 /\ ocShown' = ocRead)
    BY <1>6 DEF OcRefreshEnds
  <2>4. QED
    BY <1>0, <2>1, <2>2, <2>3 DEF OcFreshInv
<1>7. CASE OcUpdated
  BY <1>0, <1>7 DEF OcUpdated, OcTake, OcSchedule, OcFreshInv
<1>8. CASE OcIdle
  <2>1. Kept
    BY <1>8, OcTaken DEF OcIdle
  <2>2. Steady
    BY <1>8 DEF OcIdle, OcTake
  <2>3. OcSchedule \/ UNCHANGED ocRefreshVars
    BY <1>8 DEF OcIdle, OcFinishTurn
  <2>4. QED
    BY <1>2, <2>1, <2>2, <2>3
<1>9. CASE OcServerWrites
  <2>1. (~ocDropped' => ~ocDropped /\ OcWaits("updated")')
    BY <1>9, OcForwarded DEF OcServerWrites, OcKinds
  <2>2. QED
    BY <2>1 DEF OcFreshInv
<1>10. CASE OcServerTurnEnds
  <2>1. Kept /\ (~ocDropped' => ~ocDropped)
    BY <1>10, OcForwarded DEF OcServerTurnEnds, OcKinds
  <2>2. UNCHANGED ocRefreshVars /\ UNCHANGED <<ocVersion, ocClosed>>
    BY <1>10 DEF OcServerTurnEnds
  <2>3. QED
    BY <1>2, <2>1, <2>2
<1>11. QED
  BY <1>3, <1>4, <1>5, <1>6, <1>7, <1>8, <1>9, <1>10 DEF OcNext

LEMMA OcRunKeeps == OcShape /\ OcRunInv /\ [OcNext]_ocVars => OcRunInv'
<1> SUFFICES ASSUME OcShape, OcRunInv, [OcNext]_ocVars PROVE OcRunInv'
  OBVIOUS
<1> USE DEF ocCallVars, ocRefreshVars, ocServerVars, ocFeedVars
<1>0. /\ ocStatus \in {"idle", "running", "error"} /\ ocClosed \in BOOLEAN /\ ocDropped \in BOOLEAN
      /\ ocStale \in BOOLEAN /\ ocUp \in BOOLEAN /\ ocNative \in {"busy", "idle"}
      /\ ocPc \in [OcCalls -> {"new", "ask", "told", "send", "abort", "done"}]
  BY DEF OcShape, OcTypeOK
<1> DEFINE Sending == \E c \in OcCalls : ocPc[c] = "send"
           Kept == (OcWaits("idle") => OcWaits("idle")')
           Loud == (~ocDropped' /\ ~ocClosed' /\ ~ocStale' /\ ocUp' => ~ocDropped /\ ~ocClosed /\ ~ocStale /\ ocUp)
<1>1. ASSUME UNCHANGED ocEvents PROVE Kept
  BY <1>1 DEF OcWaits
<1>2. ASSUME Loud, Kept, ocNative' = ocNative \/ ocNative' = "busy",
             ocStatus' = "running" => ocStatus = "running", Sending => Sending'
      PROVE  OcRunInv'
  BY <1>0, <1>2 DEF OcRunInv
<1>3. ASSUME NEW c \in OcCalls,
             OcStart(c) \/ OcAsk(c) \/ OcPromptTold(c) \/ OcSend(c) \/ OcStateTold(c) \/ OcAbort(c)
      PROVE  OcRunInv'
  <2>1. CASE OcStart(c)
    <3>1. Loud /\ UNCHANGED <<ocEvents, ocNative, ocStatus>>
      BY <2>1 DEF OcStart
    <3>2. ocPc[c] = "new" /\ \E label : ocPc' = [ocPc EXCEPT ![c] = label]
      BY <2>1 DEF OcStart, OcGoto
    <3>3. Sending => Sending'
      BY <1>0, <3>2
    <3>4. QED
      BY <1>1, <1>2, <3>1, <3>3
  <2>2. CASE OcAsk(c)
    <3>1. Loud /\ UNCHANGED <<ocEvents, ocNative>> /\ (ocStatus' = "running" => ocStatus = "running")
      BY <2>2 DEF OcAsk, OcOperationError
    <3>2. ocPc[c] = "ask" /\ \E label : ocPc' = [ocPc EXCEPT ![c] = label]
      BY <2>2 DEF OcAsk, OcGoto
    <3>3. Sending => Sending'
      BY <1>0, <3>2
    <3>4. QED
      BY <1>1, <1>2, <3>1, <3>3
  <2>3. CASE OcPromptTold(c)
    <3>1. Loud /\ UNCHANGED <<ocEvents, ocNative>> /\ ocPc[c] = "told"
      BY <2>3 DEF OcPromptTold
    <3>2. CASE ocPc' = [ocPc EXCEPT ![c] = "send"]
      <4>1. ocPc'[c] = "send"
        BY <1>0, <3>2
      <4>2. QED
        BY <1>3, <4>1 DEF OcRunInv
    <3>3. CASE ocPc' = [ocPc EXCEPT ![c] = "done"] /\ ocStatus' = ocStatus
      <4>1. Sending => Sending'
        BY <1>0, <3>1, <3>3
      <4>2. QED
        BY <1>1, <1>2, <3>1, <3>3, <4>1
    <3>4. QED
      BY <2>3, <3>2, <3>3 DEF OcPromptTold, OcGoto
  <2>4. CASE OcSend(c)
    <3>1. Loud /\ UNCHANGED <<ocEvents, ocClosed, ocDropped, ocStale, ocUp>>
      BY <2>4 DEF OcSend
    <3>2. ocNative' = "busy" \/ (ocNative' = ocNative /\ OcOperationError)
      BY <2>4 DEF OcSend
    <3>3. CASE ocNative' = "busy"
      BY <3>3 DEF OcRunInv
    <3>4. CASE ocNative' = ocNative /\ OcOperationError
      <4>1. ocStatus' = "running" => ocClosed
        BY <1>0, <3>4 DEF OcOperationError
      <4>2. QED
        BY <3>1, <4>1 DEF OcRunInv
    <3>5. QED
      BY <3>2, <3>3, <3>4
  <2>5. CASE OcStateTold(c)
    <3>1. Loud /\ UNCHANGED <<ocEvents, ocNative, ocClosed>> /\ ocPc[c] = "told"
          /\ ocPc' = [ocPc EXCEPT ![c] = "done"]
      BY <1>0, <2>5 DEF OcStateTold, OcFinishTurn, OcGoto
    <3>2. Sending => Sending'
      BY <1>0, <3>1
    <3>3. CASE ocBusy[c]
      <4>1. ocStale' = (ocStale \/ (ocStatus = "idle" /\ ~ocClosed))
            /\ ocStatus' = IF ocClosed \/ ocStatus = "error" THEN ocStatus ELSE "running"
        BY <2>5, <3>3 DEF OcStateTold
      <4>2. ~ocStale' /\ ~ocClosed' /\ ocStatus' = "running" => ocStatus = "running"
        BY <1>0, <3>1, <4>1
      <4>3. QED
        BY <1>1, <1>2, <3>1, <3>2, <4>2 DEF OcRunInv
    <3>4. CASE ~ocBusy[c]
      <4>1. OcFinishTurn
        BY <2>5, <3>4 DEF OcStateTold
      <4>2. ocStatus' = "running" => ocStatus = "running"
        BY <4>1 DEF OcFinishTurn
      <4>3. QED
        BY <1>1, <1>2, <3>1, <3>2, <4>2
    <3>5. QED
      BY <3>3, <3>4
  <2>6. CASE OcAbort(c)
    <3>1. ocPc[c] = "abort" /\ ocPc' = [ocPc EXCEPT ![c] = "done"] /\ UNCHANGED <<ocClosed, ocStale, ocUp>>
      BY <2>6 DEF OcAbort, OcGoto
    <3>2. Sending => Sending'
      BY <1>0, <3>1
    <3>3. CASE OcFinishTurn
      <4>1. ocStatus' = "running" => ocClosed
        BY <3>3 DEF OcFinishTurn
      <4>2. QED
        BY <3>1, <4>1 DEF OcRunInv
    <3>4. CASE UNCHANGED <<ocNative, ocStatus, ocRefreshVars, ocEvents, ocDropped>>
      <4>1. Loud
        BY <3>1, <3>4
      <4>2. QED
        BY <1>1, <1>2, <3>2, <3>4, <4>1
    <3>5. QED
      BY <2>6, <3>3, <3>4 DEF OcAbort
  <2>7. QED
    BY <1>3, <2>1, <2>2, <2>3, <2>4, <2>5, <2>6
<1>4. ASSUME ocPc' = ocPc PROVE Sending => Sending'
  BY <1>4
<1>5. CASE OcClose \/ OcRefreshReads \/ OcRefreshEnds \/ OcUnavailable \/ OcRunEnds \/ UNCHANGED ocVars
  <2>1. Loud /\ UNCHANGED <<ocEvents, ocNative, ocPc>> /\ (ocStatus' = "running" => ocStatus = "running")
    BY <1>0, <1>5 DEF OcClose, OcRefreshReads, OcRefreshEnds, OcUnavailable, OcRunEnds, ocVars
  <2>2. QED
    BY <1>1, <1>2, <1>4, <2>1
<1>6. CASE OcUpdated
  <2>1. Loud /\ UNCHANGED <<ocStatus, ocNative, ocPc>>
    BY <1>6 DEF OcUpdated, OcTake
  <2>2. Kept
    BY <1>6, OcTaken DEF OcUpdated
  <2>3. QED
    BY <1>2, <1>4, <2>1, <2>2
<1>7. CASE OcIdle
  <2>1. ocClosed' = ocClosed
    BY <1>7 DEF OcIdle, OcTake
  <2>2. ocStatus' = "running" => ocClosed
    BY <1>7 DEF OcIdle, OcFinishTurn
  <2>3. QED
    BY <2>1, <2>2 DEF OcRunInv
<1>8. CASE OcServerWrites
  <2>1. UNCHANGED <<ocStatus, ocNative, ocPc, ocClosed, ocStale, ocUp>> /\ ocNative = "busy"
    BY <1>8 DEF OcServerWrites
  <2>2. QED
    BY <2>1 DEF OcRunInv
<1>9. CASE OcServerTurnEnds
  <2>1. ~ocDropped' => OcWaits("idle")'
    BY <1>9, OcForwarded DEF OcServerTurnEnds, OcKinds
  <2>2. QED
    BY <2>1 DEF OcRunInv
<1>10. CASE OcServerDies
  BY <1>10 DEF OcServerDies, OcRunInv
<1>11. QED
  BY <1>3, <1>5, <1>6, <1>7, <1>8, <1>9, <1>10 DEF OcNext

LEMMA OcStarts == OcInit => OcInv
<1> SUFFICES ASSUME OcInit PROVE OcInv
  OBVIOUS
<1>1. ocEvents = <<>> /\ ocEvents \in Seq(OcKinds) /\ Len(ocEvents) = 0
  BY DEF OcInit
<1>2. OcTypeOK
  <2>1. ocPc \in [OcCalls -> {"new", "ask", "told", "send", "abort", "done"}]
    BY DEF OcInit
  <2>2. Len(ocEvents) <= OcCap /\ {ocShown, ocVersion} \subseteq 1..(OcMaxEvents + 1)
        /\ ocRead \in 0..(OcMaxEvents + 1)
    BY <1>1, OcBoundsAssumption DEF OcInit
  <2>3. QED
    BY <2>1, <2>2 DEF OcInit, OcTypeOK
<1>3. OcFreshInv /\ OcRunInv
  BY DEF OcInit, OcFreshInv, OcRunInv
<1>4. QED
  BY <1>1, <1>2, <1>3 DEF OcInv, OcShape

LEMMA OcKeeps == OcInv /\ [OcNext]_ocVars => OcInv'
BY OcShapeKeeps, OcFreshKeeps, OcRunKeeps DEF OcInv

LEMMA OcHolds == OcInv => OcTypeOK /\ OcSettles /\ OcShowsAll
<1> SUFFICES ASSUME OcInv PROVE OcTypeOK /\ OcSettles /\ OcShowsAll
  OBVIOUS
<1>1. OcTypeOK
  BY DEF OcInv, OcShape
<1>2. ASSUME ocEvents = <<>>, NEW event PROVE ~OcWaits(event)
  <2>1. Len(ocEvents) = 0
    BY <1>2
  <2>2. QED
    BY <2>1 DEF OcWaits
<1>3. OcSettles
  <2>1. ocNative = "idle" => ocNative # "busy"
    OBVIOUS
  <2>2. (\A c \in OcCalls : ocPc[c] \in {"new", "done"}) => ~\E c \in OcCalls : ocPc[c] = "send"
    OBVIOUS
  <2>3. QED
    BY <1>2, <2>1, <2>2 DEF OcInv, OcRunInv, OcSettles, OcHeard
<1>4. OcShowsAll
  BY <1>2 DEF OcInv, OcFreshInv, OcShowsAll, OcHeard
<1>5. QED
  BY <1>1, <1>3, <1>4

-----------------------------------------------------------------------------
(* The worker of a session, whichever runtime it has.                       *)

CallsInv == PiInv /\ CcInv /\ CxMore /\ ClInv /\ ClMore /\ OcInv

LEMMA CallsStep ==
  [Next]_workerVars =>
    [PiNext]_piVars /\ [CcNext]_ccVars /\ [CxNext]_cxVars /\ [ClNext]_clVars /\ [OcNext]_ocVars
  BY DEF Next, workerVars

\* In every reachable state the invariants of all the runtimes hold: the answer of a
\* call is in one place, and a worker that shows a run or something out of date has
\* what it waits for on its way.
THEOREM CallsInvariance == Spec => []CallsInv
<1>1. Init => CallsInv
  BY PiStarts, CcStarts, CxMoreStarts, ClStarts, ClMoreStarts, OcStarts DEF Init, CallsInv
<1>2. CallsInv /\ [Next]_workerVars => CallsInv'
  BY CallsStep, PiKeeps, CcKeeps, CxMoreKeeps, ClKeeps, ClMoreKeeps, OcKeeps DEF CallsInv
<1>3. QED
  BY <1>1, <1>2, PTL DEF Spec

\* The variables of the worker keep their types and its queues their capacity,
\* whichever runtime the session has.
THEOREM WorkersTyped == Spec => []WorkersTypeOK
<1>1. Init => runtime \in Runtimes
  BY DEF Init
<1>2. runtime \in Runtimes /\ [Next]_workerVars => (runtime \in Runtimes)'
  BY DEF Next, workerVars
<1>3. CallsInv /\ runtime \in Runtimes => WorkersTypeOK
  <2>1. CallsInv => PiTypeOK /\ CcTypeOK /\ CxTypeOK /\ ClTypeOK /\ OcTypeOK
    BY PiHolds, CcHolds, CxHolds, ClHolds, OcHolds DEF CallsInv
  <2>2. QED
    BY <2>1 DEF Runtimes, WorkersTypeOK
<1>4. QED
  BY <1>1, <1>2, <1>3, CallsInvariance, PTL DEF Spec

\* A call of a Pi, Codex or Claude worker is answered once at most, and none waits
\* for a worker that has ended, however its answer, its timeout, the end of its
\* context and the failure of the worker interleave.
THEOREM CallsAreAnswered == Spec => []CallsAnswered
<1>1. CallsInv => CallsAnswered
  BY PiHolds, CcHolds, ClHolds DEF CallsInv, CallsAnswered
<1>2. QED
  BY <1>1, CallsInvariance, PTL

\* When a turn is over and all that was said about it has been handled, no worker
\* claims to run, whichever of an acknowledgement and the notifications of its turn
\* comes first.
THEOREM TurnsAreSettled == Spec => []TurnsSettle
<1>1. CallsInv => TurnsSettle
  BY PiHolds, CxHolds, ClHolds, OcHolds DEF CallsInv, TurnsSettle
<1>2. QED
  BY <1>1, CallsInvariance, PTL

\* Once nothing is on its way, previews, notifications, status and projection are
\* the newest: no throttle, wake-up, overwritten channel or coalesced refresh loses
\* the last one.
THEOREM NewestIsShown == Spec => []ShownIsNewest
<1>1. CallsInv => ShownIsNewest
  BY PiHolds, CcHolds, CxHolds, OcHolds DEF CallsInv, ShownIsNewest
<1>2. QED
  BY <1>1, CallsInvariance, PTL
=============================================================================
