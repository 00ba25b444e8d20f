------------------------ MODULE SessionCreateProofs ------------------------
(****************************************************************************)
(* What holds of SessionCreate for every number of keys, requests, failed   *)
(* statements and crashes, proved.  The row of a key is claimed by the one  *)
(* request whose INSERT took effect, and its dispatch by the one whose      *)
(* UPDATE did: IInv says that there is at most one of each, and what native *)
(* effect each state of the row stands for.                                 *)
(****************************************************************************)
EXTENDS SessionCreate, TLAPS

Creating == {"start", "started", "failed"}
Dispatching == {"won", "send", "sent", "unsure"}
Settled == {"marked", "begin", "won", "beaten", "send", "sent", "unsure", "waitPrompt", "respond"}

\* The row before and after it exists.
RowInv ==
  \A k \in Keys :
    /\ createState[k] = "missing" <=> fingerprint[k] = None
    /\ createState[k] = "missing" <=> promptState[k] = "missing"
    /\ createState[k] = "missing" => threads[k] = 0
    /\ createState[k] # "created" =>
         promptState[k] \in {"missing", "not_requested", "pending"}

\* Where a request stands determines its locals; what it remembers of the row
\* stays true.
RequestInv ==
  \A r \in Requests :
    /\ pc[r] # "idle" => key[r] \in Keys /\ body[r] \in Payloads
    /\ pc[r] \in {"idle", "get", "insert"} =>
         r \notin owners /\ rc[r] = "missing" /\ rp[r] = "missing"
    /\ pc[r] \in Creating => r \in owners
    /\ pc[r] \in Settled => createState[key[r]] = "created"
    /\ rc[r] = "created" => createState[key[r]] = "created"
    /\ rp[r] = "accepted" => promptState[key[r]] = "accepted"

\* One request owns the creation of a key, and before its call nothing started.
OwnerInv ==
  /\ \A r \in Requests :
       /\ r \in owners => createState[key[r]] # "missing" /\ fingerprint[key[r]] = body[r]
       /\ r \in owners /\ pc[r] \in {"inserted", "start"} =>
            createState[key[r]] = "creating" /\ threads[key[r]] = 0
       /\ pc[r] = "started" => threads[key[r]] = 1
  /\ \A q, r \in Requests : q \in owners /\ r \in owners /\ key[q] = key[r] => q = r

\* One request dispatches the prompt of a key, and before its call none was sent.
DispatchInv ==
  /\ \A r \in Requests :
       /\ pc[r] \in Dispatching => promptState[key[r]] = "dispatching"
       /\ pc[r] \in {"won", "send"} => prompts[key[r]] = 0
       /\ pc[r] = "sent" => prompts[key[r]] = 1
  /\ \A q, r \in Requests :
       pc[q] \in Dispatching /\ pc[r] \in Dispatching /\ key[q] = key[r] => q = r

\* A creation or a dispatch in progress has the request that will settle it.
RowInHands ==
  faults = 0 =>
    \A k \in Keys :
      /\ createState[k] = "creating" =>
           \E r \in owners : key[r] = k /\ pc[r] \in Creating \cup {"inserted"}
      /\ promptState[k] = "dispatching" =>
           \E r \in Requests : key[r] = k /\ pc[r] \in Dispatching

IInv ==
  /\ TypeOK /\ RowInv /\ RequestInv /\ OwnerInv /\ DispatchInv
  /\ AtMostOnce /\ RowTruthful /\ AnswersTruthful

-----------------------------------------------------------------------------
\* Every step keeps the type invariant.
LEMMA TypeStep ==
  ASSUME TypeOK, RequestInv, Next PROVE TypeOK'
<1> USE PayloadAssumption, BoundsAssumption
    DEF TypeOK, Labels, CreateStates, PromptStates, rowVars, codexVars, reqVars, RequestInv
<1>1. ASSUME NEW r \in Requests, NEW k \in Keys, NEW b \in Payloads, Begin(r, k, b)
      PROVE  TypeOK'
  BY <1>1 DEF Begin, Goto, NoFault
<1>2. ASSUME NEW r \in Requests, Lookup(r) PROVE TypeOK'
  BY <1>2 DEF Lookup, Answer, Goto, NoFault
<1>3. ASSUME NEW r \in Requests, Insert(r) PROVE TypeOK'
  BY <1>3 DEF Insert, Goto, NoFault
<1>4. ASSUME NEW r \in Requests, ReadClaim(r) PROVE TypeOK'
  BY <1>4 DEF ReadClaim, Answer, Read, Goto, NoFault
<1>5. ASSUME NEW r \in Requests, StartThread(r) PROVE TypeOK'
  BY <1>5 DEF StartThread, Goto, NoFault
<1>6. ASSUME NEW r \in Requests, StartFails(r) PROVE TypeOK'
  BY <1>6 DEF StartFails, Goto, NoFault
<1>7. ASSUME NEW r \in Requests, MarkCreateUnknown(r) PROVE TypeOK'
  BY <1>7 DEF MarkCreateUnknown, Answer, Goto, NoFault
<1>8. ASSUME NEW r \in Requests, MarkCreated(r) PROVE TypeOK'
  BY <1>8 DEF MarkCreated, Answer, Goto, NoFault
<1>9. ASSUME NEW r \in Requests, WaitForMapping(r) PROVE TypeOK'
  BY <1>9 DEF WaitForMapping, Read, Goto, NoFault
<1>10. ASSUME NEW r \in Requests, WaitTimesOut(r) PROVE TypeOK'
  BY <1>10 DEF WaitTimesOut, Answer, Goto, NoFault
<1>11. ASSUME NEW r \in Requests, Route(r) PROVE TypeOK'
  BY <1>11 DEF Route, Answer, Goto, NoFault
<1>12. ASSUME NEW r \in Requests, BeginPromptDispatch(r) PROVE TypeOK'
  BY <1>12 DEF BeginPromptDispatch, Goto, NoFault
<1>13. ASSUME NEW r \in Requests, ReadDispatch(r) PROVE TypeOK'
  BY <1>13 DEF ReadDispatch, Read, Goto, NoFault
<1>14. ASSUME NEW r \in Requests, DeliverPrompt(r) PROVE TypeOK'
  BY <1>14 DEF DeliverPrompt, Goto, NoFault
<1>15. ASSUME NEW r \in Requests, SendFails(r) PROVE TypeOK'
  BY <1>15 DEF SendFails, Goto, NoFault
<1>16. ASSUME NEW r \in Requests, MarkPromptAccepted(r) PROVE TypeOK'
  BY <1>16 DEF MarkPromptAccepted, MarkPrompt, Answer, Goto, NoFault
<1>17. ASSUME NEW r \in Requests, MarkPromptUnknown(r) PROVE TypeOK'
  BY <1>17 DEF MarkPromptUnknown, MarkPrompt, Answer, Goto, NoFault
<1>18. ASSUME NEW r \in Requests, WaitForPromptResolution(r) PROVE TypeOK'
  BY <1>18 DEF WaitForPromptResolution, Read, Goto, NoFault
<1>19. ASSUME NEW r \in Requests, Respond(r) PROVE TypeOK'
  BY <1>19 DEF Respond, Answer, Goto, NoFault
<1>20. ASSUME NEW r \in Requests, StatementFails(r) PROVE TypeOK'
  BY <1>20 DEF StatementFails, Answer, Goto, Fault
<1>21. ASSUME Restart PROVE TypeOK'
  BY <1>21 DEF Restart, RecoverInterrupted
<1>22. ASSUME NEW r \in Requests, ReadMapping(r)
       PROVE  TypeOK'
  BY <1>22 DEF ReadMapping, Read, Goto, NoFault
<1> HIDE DEF TypeOK, Labels, CreateStates, PromptStates, rowVars, codexVars, reqVars, RequestInv
<1>23. QED
  BY <1>1, <1>2, <1>3, <1>4, <1>5, <1>6, <1>7, <1>8, <1>9, <1>10, <1>11, <1>12, <1>13,
     <1>14, <1>15, <1>16, <1>17, <1>18, <1>19, <1>20, <1>21, <1>22
     DEF Next, Proceed

\* Every step keeps what the row and the requests say of each other.
LEMMA RowStep ==
  ASSUME TypeOK, RowInv, RequestInv, OwnerInv, DispatchInv, Next
  PROVE  RowInv' /\ RequestInv'
<1> USE PayloadAssumption DEF TypeOK, Labels, CreateStates, PromptStates, rowVars, codexVars, reqVars, RowInv, RequestInv, Creating, Settled, Dispatching, OwnerInv, DispatchInv
<1>1. ASSUME NEW r \in Requests, NEW k \in Keys, NEW b \in Payloads, Begin(r, k, b)
      PROVE  RowInv' /\ RequestInv'
  BY <1>1 DEF Begin, Goto, NoFault
<1>2. ASSUME NEW r \in Requests, Lookup(r) PROVE RowInv' /\ RequestInv'
  BY <1>2 DEF Lookup, Answer, Goto, NoFault
<1>3. ASSUME NEW r \in Requests, Insert(r) PROVE RowInv' /\ RequestInv'
  BY <1>3 DEF Insert, Goto, NoFault
<1>4. ASSUME NEW r \in Requests, ReadClaim(r) PROVE RowInv' /\ RequestInv'
  BY <1>4 DEF ReadClaim, Answer, Read, Goto, NoFault
<1>5. ASSUME NEW r \in Requests, StartThread(r) PROVE RowInv' /\ RequestInv'
  BY <1>5 DEF StartThread, Goto, NoFault
<1>6. ASSUME NEW r \in Requests, StartFails(r) PROVE RowInv' /\ RequestInv'
  BY <1>6 DEF StartFails, Goto, NoFault
<1>7. ASSUME NEW r \in Requests, MarkCreateUnknown(r) PROVE RowInv' /\ RequestInv'
  BY <1>7 DEF MarkCreateUnknown, Answer, Goto, NoFault
<1>8. ASSUME NEW r \in Requests, MarkCreated(r) PROVE RowInv' /\ RequestInv'
  BY <1>8 DEF MarkCreated, Answer, Goto, NoFault
<1>9. ASSUME NEW r \in Requests, WaitForMapping(r) PROVE RowInv' /\ RequestInv'
  BY <1>9 DEF WaitForMapping, Read, Goto, NoFault
<1>10. ASSUME NEW r \in Requests, WaitTimesOut(r) PROVE RowInv' /\ RequestInv'
  BY <1>10 DEF WaitTimesOut, Answer, Goto, NoFault
<1>11. ASSUME NEW r \in Requests, Route(r) PROVE RowInv' /\ RequestInv'
  BY <1>11 DEF Route, Answer, Goto, NoFault
<1>12. ASSUME NEW r \in Requests, BeginPromptDispatch(r) PROVE RowInv' /\ RequestInv'
  BY <1>12 DEF BeginPromptDispatch, Goto, NoFault
<1>13. ASSUME NEW r \in Requests, ReadDispatch(r) PROVE RowInv' /\ RequestInv'
  BY <1>13 DEF ReadDispatch, Read, Goto, NoFault
<1>14. ASSUME NEW r \in Requests, DeliverPrompt(r) PROVE RowInv' /\ RequestInv'
  BY <1>14 DEF DeliverPrompt, Goto, NoFault
<1>15. ASSUME NEW r \in Requests, SendFails(r) PROVE RowInv' /\ RequestInv'
  BY <1>15 DEF SendFails, Goto, NoFault
<1>16. ASSUME NEW r \in Requests, MarkPromptAccepted(r) PROVE RowInv' /\ RequestInv'
  <2>1. pc[r] = "sent" /\ key[r] \in Keys
    BY <1>16 DEF MarkPromptAccepted, MarkPrompt
  <2>2. CASE createState[key[r]] = "created" /\ promptState[key[r]] = "dispatching"
    <3>1. RowInv'
      BY <1>16, <2>1, <2>2 DEF MarkPromptAccepted, MarkPrompt, Goto, NoFault
    <3>2. RequestInv'
      BY <1>16, <2>1, <2>2 DEF MarkPromptAccepted, MarkPrompt, Goto, NoFault
    <3>. QED  BY <3>1, <3>2
  <2>3. CASE ~(createState[key[r]] = "created" /\ promptState[key[r]] = "dispatching")
    <3>1. RowInv'
      BY <1>16, <2>1, <2>3 DEF MarkPromptAccepted, MarkPrompt, Answer, Goto, NoFault
    <3>2. RequestInv'
      BY <1>16, <2>1, <2>3 DEF MarkPromptAccepted, MarkPrompt, Answer, Goto, NoFault
    <3>. QED  BY <3>1, <3>2
  <2>. QED  BY <2>2, <2>3
<1>17. ASSUME NEW r \in Requests, MarkPromptUnknown(r) PROVE RowInv' /\ RequestInv'
  <2>1. pc[r] = "unsure" /\ key[r] \in Keys
    BY <1>17 DEF MarkPromptUnknown, MarkPrompt
  <2>2. CASE createState[key[r]] = "created" /\ promptState[key[r]] = "dispatching"
    <3>1. RowInv'
      BY <1>17, <2>1, <2>2 DEF MarkPromptUnknown, MarkPrompt, Goto, NoFault
    <3>2. RequestInv'
      BY <1>17, <2>1, <2>2 DEF MarkPromptUnknown, MarkPrompt, Goto, NoFault
    <3>. QED  BY <3>1, <3>2
  <2>3. CASE ~(createState[key[r]] = "created" /\ promptState[key[r]] = "dispatching")
    <3>1. RowInv'
      BY <1>17, <2>1, <2>3 DEF MarkPromptUnknown, MarkPrompt, Answer, Goto, NoFault
    <3>2. RequestInv'
      BY <1>17, <2>1, <2>3 DEF MarkPromptUnknown, MarkPrompt, Answer, Goto, NoFault
    <3>. QED  BY <3>1, <3>2
  <2>. QED  BY <2>2, <2>3
<1>18. ASSUME NEW r \in Requests, WaitForPromptResolution(r)
       PROVE  RowInv' /\ RequestInv'
  BY <1>18 DEF WaitForPromptResolution, Read, Goto, NoFault
<1>19. ASSUME NEW r \in Requests, Respond(r) PROVE RowInv' /\ RequestInv'
  BY <1>19 DEF Respond, Answer, Goto, NoFault
<1>20. ASSUME NEW r \in Requests, StatementFails(r) PROVE RowInv' /\ RequestInv'
  BY <1>20 DEF StatementFails, Answer, Goto, Fault
<1>21. ASSUME Restart PROVE RowInv' /\ RequestInv'
  BY <1>21 DEF Restart, RecoverInterrupted
<1>22. ASSUME NEW r \in Requests, ReadMapping(r)
       PROVE  RowInv' /\ RequestInv'
  BY <1>22 DEF ReadMapping, Read, Goto, NoFault
<1> HIDE DEF TypeOK, Labels, CreateStates, PromptStates, rowVars, codexVars, reqVars, RowInv, RequestInv, Creating, Settled, Dispatching, OwnerInv, DispatchInv
<1>23. QED
  BY <1>1, <1>2, <1>3, <1>4, <1>5, <1>6, <1>7, <1>8, <1>9, <1>10, <1>11, <1>12, <1>13,
     <1>14, <1>15, <1>16, <1>17, <1>18, <1>19, <1>20, <1>21, <1>22
     DEF Next, Proceed

\* Every step keeps one owner of a creation.
LEMMA OwnerStep ==
  ASSUME TypeOK, RowInv, RequestInv, OwnerInv, DispatchInv, Next
  PROVE  OwnerInv'
<1> USE PayloadAssumption DEF TypeOK, Labels, CreateStates, PromptStates, rowVars, codexVars, reqVars, RowInv, RequestInv, Creating, Settled, Dispatching, OwnerInv, DispatchInv
<1>1. ASSUME NEW r \in Requests, NEW k \in Keys, NEW b \in Payloads, Begin(r, k, b)
      PROVE  OwnerInv'
  BY <1>1 DEF Begin, Goto, NoFault
<1>2. ASSUME NEW r \in Requests, Lookup(r) PROVE OwnerInv'
  BY <1>2 DEF Lookup, Answer, Goto, NoFault
<1>3. ASSUME NEW r \in Requests, Insert(r) PROVE OwnerInv'
  BY <1>3 DEF Insert, Goto, NoFault
<1>4. ASSUME NEW r \in Requests, ReadClaim(r) PROVE OwnerInv'
  BY <1>4 DEF ReadClaim, Answer, Read, Goto, NoFault
<1>5. ASSUME NEW r \in Requests, StartThread(r) PROVE OwnerInv'
  BY <1>5 DEF StartThread, Goto, NoFault
<1>6. ASSUME NEW r \in Requests, StartFails(r) PROVE OwnerInv'
  BY <1>6 DEF StartFails, Goto, NoFault
<1>7. ASSUME NEW r \in Requests, MarkCreateUnknown(r) PROVE OwnerInv'
  BY <1>7 DEF MarkCreateUnknown, Answer, Goto, NoFault
<1>8. ASSUME NEW r \in Requests, MarkCreated(r) PROVE OwnerInv'
  BY <1>8 DEF MarkCreated, Answer, Goto, NoFault
<1>9. ASSUME NEW r \in Requests, WaitForMapping(r) PROVE OwnerInv'
  BY <1>9 DEF WaitForMapping, Read, Goto, NoFault
<1>10. ASSUME NEW r \in Requests, WaitTimesOut(r) PROVE OwnerInv'
  BY <1>10 DEF WaitTimesOut, Answer, Goto, NoFault
<1>11. ASSUME NEW r \in Requests, Route(r) PROVE OwnerInv'
  BY <1>11 DEF Route, Answer, Goto, NoFault
<1>12. ASSUME NEW r \in Requests, BeginPromptDispatch(r) PROVE OwnerInv'
  BY <1>12 DEF BeginPromptDispatch, Goto, NoFault
<1>13. ASSUME NEW r \in Requests, ReadDispatch(r) PROVE OwnerInv'
  BY <1>13 DEF ReadDispatch, Read, Goto, NoFault
<1>14. ASSUME NEW r \in Requests, DeliverPrompt(r) PROVE OwnerInv'
  BY <1>14 DEF DeliverPrompt, Goto, NoFault
<1>15. ASSUME NEW r \in Requests, SendFails(r) PROVE OwnerInv'
  BY <1>15 DEF SendFails, Goto, NoFault
<1>16. ASSUME NEW r \in Requests, MarkPromptAccepted(r) PROVE OwnerInv'
  BY <1>16 DEF MarkPromptAccepted, MarkPrompt, Answer, Goto, NoFault
<1>17. ASSUME NEW r \in Requests, MarkPromptUnknown(r) PROVE OwnerInv'
  BY <1>17 DEF MarkPromptUnknown, MarkPrompt, Answer, Goto, NoFault
<1>18. ASSUME NEW r \in Requests, WaitForPromptResolution(r) PROVE OwnerInv'
  BY <1>18 DEF WaitForPromptResolution, Read, Goto, NoFault
<1>19. ASSUME NEW r \in Requests, Respond(r) PROVE OwnerInv'
  BY <1>19 DEF Respond, Answer, Goto, NoFault
<1>20. ASSUME NEW r \in Requests, StatementFails(r) PROVE OwnerInv'
  BY <1>20 DEF StatementFails, Answer, Goto, Fault
<1>21. ASSUME Restart PROVE OwnerInv'
  BY <1>21 DEF Restart, RecoverInterrupted
<1>22. ASSUME NEW r \in Requests, ReadMapping(r)
       PROVE  OwnerInv'
  BY <1>22 DEF ReadMapping, Read, Goto, NoFault
<1> HIDE DEF TypeOK, Labels, CreateStates, PromptStates, rowVars, codexVars, reqVars, RowInv, RequestInv, Creating, Settled, Dispatching, OwnerInv, DispatchInv
<1>23. QED
  BY <1>1, <1>2, <1>3, <1>4, <1>5, <1>6, <1>7, <1>8, <1>9, <1>10, <1>11, <1>12, <1>13,
     <1>14, <1>15, <1>16, <1>17, <1>18, <1>19, <1>20, <1>21, <1>22
     DEF Next, Proceed

\* Every step keeps one dispatcher of a prompt.
LEMMA DispatchStep ==
  ASSUME TypeOK, RowInv, RequestInv, OwnerInv, DispatchInv, RowTruthful, Next
  PROVE  DispatchInv'
<1> USE PayloadAssumption DEF TypeOK, Labels, CreateStates, PromptStates, rowVars, codexVars, reqVars, RowInv, RequestInv, Creating, Settled, Dispatching, OwnerInv, DispatchInv, RowTruthful
<1>1. ASSUME NEW r \in Requests, NEW k \in Keys, NEW b \in Payloads, Begin(r, k, b)
      PROVE  DispatchInv'
  BY <1>1 DEF Begin, Goto, NoFault
<1>2. ASSUME NEW r \in Requests, Lookup(r) PROVE DispatchInv'
  BY <1>2 DEF Lookup, Answer, Goto, NoFault
<1>3. ASSUME NEW r \in Requests, Insert(r) PROVE DispatchInv'
  BY <1>3 DEF Insert, Goto, NoFault
<1>4. ASSUME NEW r \in Requests, ReadClaim(r) PROVE DispatchInv'
  BY <1>4 DEF ReadClaim, Answer, Read, Goto, NoFault
<1>5. ASSUME NEW r \in Requests, StartThread(r) PROVE DispatchInv'
  BY <1>5 DEF StartThread, Goto, NoFault
<1>6. ASSUME NEW r \in Requests, StartFails(r) PROVE DispatchInv'
  BY <1>6 DEF StartFails, Goto, NoFault
<1>7. ASSUME NEW r \in Requests, MarkCreateUnknown(r) PROVE DispatchInv'
  BY <1>7 DEF MarkCreateUnknown, Answer, Goto, NoFault
<1>8. ASSUME NEW r \in Requests, MarkCreated(r) PROVE DispatchInv'
  BY <1>8 DEF MarkCreated, Answer, Goto, NoFault
<1>9. ASSUME NEW r \in Requests, WaitForMapping(r) PROVE DispatchInv'
  BY <1>9 DEF WaitForMapping, Read, Goto, NoFault
<1>10. ASSUME NEW r \in Requests, WaitTimesOut(r) PROVE DispatchInv'
  BY <1>10 DEF WaitTimesOut, Answer, Goto, NoFault
<1>11. ASSUME NEW r \in Requests, Route(r) PROVE DispatchInv'
  BY <1>11 DEF Route, Answer, Goto, NoFault
<1>12. ASSUME NEW r \in Requests, BeginPromptDispatch(r) PROVE DispatchInv'
  BY <1>12 DEF BeginPromptDispatch, Goto, NoFault
<1>13. ASSUME NEW r \in Requests, ReadDispatch(r) PROVE DispatchInv'
  BY <1>13 DEF ReadDispatch, Read, Goto, NoFault
<1>14. ASSUME NEW r \in Requests, DeliverPrompt(r) PROVE DispatchInv'
  BY <1>14 DEF DeliverPrompt, Goto, NoFault
<1>15. ASSUME NEW r \in Requests, SendFails(r) PROVE DispatchInv'
  BY <1>15 DEF SendFails, Goto, NoFault
<1>16. ASSUME NEW r \in Requests, MarkPromptAccepted(r) PROVE DispatchInv'
  BY <1>16 DEF MarkPromptAccepted, MarkPrompt, Answer, Goto, NoFault
<1>17. ASSUME NEW r \in Requests, MarkPromptUnknown(r) PROVE DispatchInv'
  BY <1>17 DEF MarkPromptUnknown, MarkPrompt, Answer, Goto, NoFault
<1>18. ASSUME NEW r \in Requests, WaitForPromptResolution(r) PROVE DispatchInv'
  BY <1>18 DEF WaitForPromptResolution, Read, Goto, NoFault
<1>19. ASSUME NEW r \in Requests, Respond(r) PROVE DispatchInv'
  BY <1>19 DEF Respond, Answer, Goto, NoFault
<1>20. ASSUME NEW r \in Requests, StatementFails(r) PROVE DispatchInv'
  BY <1>20 DEF StatementFails, Answer, Goto, Fault
<1>21. ASSUME Restart PROVE DispatchInv'
  BY <1>21 DEF Restart, RecoverInterrupted
<1>22. ASSUME NEW r \in Requests, ReadMapping(r)
       PROVE  DispatchInv'
  BY <1>22 DEF ReadMapping, Read, Goto, NoFault
<1> HIDE DEF TypeOK, Labels, CreateStates, PromptStates, rowVars, codexVars, reqVars, RowInv, RequestInv, Creating, Settled, Dispatching, OwnerInv, DispatchInv, RowTruthful
<1>23. QED
  BY <1>1, <1>2, <1>3, <1>4, <1>5, <1>6, <1>7, <1>8, <1>9, <1>10, <1>11, <1>12, <1>13,
     <1>14, <1>15, <1>16, <1>17, <1>18, <1>19, <1>20, <1>21, <1>22
     DEF Next, Proceed

\* Every step keeps a row in progress in somebody's hands.
LEMMA HandsStep ==
  ASSUME TypeOK, RowInv, RequestInv, OwnerInv, DispatchInv, RowInHands, Next
  PROVE  RowInHands'
<1> USE PayloadAssumption DEF TypeOK, Labels, CreateStates, PromptStates, rowVars, codexVars, reqVars, RowInv, RequestInv, Creating, Settled, Dispatching, OwnerInv, DispatchInv, RowInHands
<1>1. ASSUME NEW r \in Requests, NEW k \in Keys, NEW b \in Payloads, Begin(r, k, b)
      PROVE  RowInHands'
  BY <1>1 DEF Begin, Goto, NoFault
<1>2. ASSUME NEW r \in Requests, Lookup(r) PROVE RowInHands'
  BY <1>2 DEF Lookup, Answer, Goto, NoFault
<1>3. ASSUME NEW r \in Requests, Insert(r) PROVE RowInHands'
  BY <1>3 DEF Insert, Goto, NoFault
<1>4. ASSUME NEW r \in Requests, ReadClaim(r) PROVE RowInHands'
  BY <1>4 DEF ReadClaim, Answer, Read, Goto, NoFault
<1>5. ASSUME NEW r \in Requests, StartThread(r) PROVE RowInHands'
  BY <1>5 DEF StartThread, Goto, NoFault
<1>6. ASSUME NEW r \in Requests, StartFails(r) PROVE RowInHands'
  BY <1>6 DEF StartFails, Goto, NoFault
<1>7. ASSUME NEW r \in Requests, MarkCreateUnknown(r) PROVE RowInHands'
  BY <1>7 DEF MarkCreateUnknown, Answer, Goto, NoFault
<1>8. ASSUME NEW r \in Requests, MarkCreated(r) PROVE RowInHands'
  BY <1>8 DEF MarkCreated, Answer, Goto, NoFault
<1>9. ASSUME NEW r \in Requests, WaitForMapping(r) PROVE RowInHands'
  BY <1>9 DEF WaitForMapping, Read, Goto, NoFault
<1>10. ASSUME NEW r \in Requests, WaitTimesOut(r) PROVE RowInHands'
  BY <1>10 DEF WaitTimesOut, Answer, Goto, NoFault
<1>11. ASSUME NEW r \in Requests, Route(r) PROVE RowInHands'
  BY <1>11 DEF Route, Answer, Goto, NoFault
<1>12. ASSUME NEW r \in Requests, BeginPromptDispatch(r) PROVE RowInHands'
  BY <1>12 DEF BeginPromptDispatch, Goto, NoFault
<1>13. ASSUME NEW r \in Requests, ReadDispatch(r) PROVE RowInHands'
  BY <1>13 DEF ReadDispatch, Read, Goto, NoFault
<1>14. ASSUME NEW r \in Requests, DeliverPrompt(r) PROVE RowInHands'
  BY <1>14 DEF DeliverPrompt, Goto, NoFault
<1>15. ASSUME NEW r \in Requests, SendFails(r) PROVE RowInHands'
  BY <1>15 DEF SendFails, Goto, NoFault
<1>16. ASSUME NEW r \in Requests, MarkPromptAccepted(r) PROVE RowInHands'
  BY <1>16 DEF MarkPromptAccepted, MarkPrompt, Answer, Goto, NoFault
<1>17. ASSUME NEW r \in Requests, MarkPromptUnknown(r) PROVE RowInHands'
  BY <1>17 DEF MarkPromptUnknown, MarkPrompt, Answer, Goto, NoFault
<1>18. ASSUME NEW r \in Requests, WaitForPromptResolution(r) PROVE RowInHands'
  BY <1>18 DEF WaitForPromptResolution, Read, Goto, NoFault
<1>19. ASSUME NEW r \in Requests, Respond(r) PROVE RowInHands'
  BY <1>19 DEF Respond, Answer, Goto, NoFault
<1>20. ASSUME NEW r \in Requests, StatementFails(r) PROVE RowInHands'
  BY <1>20 DEF StatementFails, Answer, Goto, Fault
<1>21. ASSUME Restart PROVE RowInHands'
  BY <1>21 DEF Restart, RecoverInterrupted
<1>22. ASSUME NEW r \in Requests, ReadMapping(r)
       PROVE  RowInHands'
  BY <1>22 DEF ReadMapping, Read, Goto, NoFault
<1> HIDE DEF TypeOK, Labels, CreateStates, PromptStates, rowVars, codexVars, reqVars, RowInv, RequestInv, Creating, Settled, Dispatching, OwnerInv, DispatchInv, RowInHands
<1>23. QED
  BY <1>1, <1>2, <1>3, <1>4, <1>5, <1>6, <1>7, <1>8, <1>9, <1>10, <1>11, <1>12, <1>13,
     <1>14, <1>15, <1>16, <1>17, <1>18, <1>19, <1>20, <1>21, <1>22
     DEF Next, Proceed

\* Every step keeps the native effects at one, and the row and the answers true.
LEMMA TruthStep ==
  ASSUME TypeOK, RowInv, RequestInv, OwnerInv, DispatchInv,
         AtMostOnce, RowTruthful, AnswersTruthful, Next
  PROVE  AtMostOnce' /\ RowTruthful' /\ AnswersTruthful'
<1> USE PayloadAssumption DEF TypeOK, Labels, CreateStates, PromptStates, rowVars, codexVars, reqVars, RowInv, RequestInv, Creating, Settled, Dispatching, OwnerInv, DispatchInv, AtMostOnce, RowTruthful, AnswersTruthful
<1>1. ASSUME NEW r \in Requests, NEW k \in Keys, NEW b \in Payloads, Begin(r, k, b)
      PROVE  AtMostOnce' /\ RowTruthful' /\ AnswersTruthful'
  BY <1>1 DEF Begin, Goto, NoFault
<1>2. ASSUME NEW r \in Requests, Lookup(r)
      PROVE  AtMostOnce' /\ RowTruthful' /\ AnswersTruthful'
  BY <1>2 DEF Lookup, Answer, Goto, NoFault
<1>3. ASSUME NEW r \in Requests, Insert(r)
      PROVE  AtMostOnce' /\ RowTruthful' /\ AnswersTruthful'
  BY <1>3 DEF Insert, Goto, NoFault
<1>4. ASSUME NEW r \in Requests, ReadClaim(r)
      PROVE  AtMostOnce' /\ RowTruthful' /\ AnswersTruthful'
  BY <1>4 DEF ReadClaim, Answer, Read, Goto, NoFault
<1>5. ASSUME NEW r \in Requests, StartThread(r)
      PROVE  AtMostOnce' /\ RowTruthful' /\ AnswersTruthful'
  BY <1>5 DEF StartThread, Goto, NoFault
<1>6. ASSUME NEW r \in Requests, StartFails(r)
      PROVE  AtMostOnce' /\ RowTruthful' /\ AnswersTruthful'
  BY <1>6 DEF StartFails, Goto, NoFault
<1>7. ASSUME NEW r \in Requests, MarkCreateUnknown(r)
      PROVE  AtMostOnce' /\ RowTruthful' /\ AnswersTruthful'
  BY <1>7 DEF MarkCreateUnknown, Answer, Goto, NoFault
<1>8. ASSUME NEW r \in Requests, MarkCreated(r)
      PROVE  AtMostOnce' /\ RowTruthful' /\ AnswersTruthful'
  BY <1>8 DEF MarkCreated, Answer, Goto, NoFault
<1>9. ASSUME NEW r \in Requests, WaitForMapping(r)
      PROVE  AtMostOnce' /\ RowTruthful' /\ AnswersTruthful'
  BY <1>9 DEF WaitForMapping, Read, Goto, NoFault
<1>10. ASSUME NEW r \in Requests, WaitTimesOut(r)
       PROVE  AtMostOnce' /\ RowTruthful' /\ AnswersTruthful'
  BY <1>10 DEF WaitTimesOut, Answer, Goto, NoFault
<1>11. ASSUME NEW r \in Requests, Route(r)
       PROVE  AtMostOnce' /\ RowTruthful' /\ AnswersTruthful'
  BY <1>11 DEF Route, Answer, Goto, NoFault
<1>12. ASSUME NEW r \in Requests, BeginPromptDispatch(r)
       PROVE  AtMostOnce' /\ RowTruthful' /\ AnswersTruthful'
  BY <1>12 DEF BeginPromptDispatch, Goto, NoFault
<1>13. ASSUME NEW r \in Requests, ReadDispatch(r)
       PROVE  AtMostOnce' /\ RowTruthful' /\ AnswersTruthful'
  BY <1>13 DEF ReadDispatch, Read, Goto, NoFault
<1>14. ASSUME NEW r \in Requests, DeliverPrompt(r)
       PROVE  AtMostOnce' /\ RowTruthful' /\ AnswersTruthful'
  BY <1>14 DEF DeliverPrompt, Goto, NoFault
<1>15. ASSUME NEW r \in Requests, SendFails(r)
       PROVE  AtMostOnce' /\ RowTruthful' /\ AnswersTruthful'
  BY <1>15 DEF SendFails, Goto, NoFault
<1>16. ASSUME NEW r \in Requests, MarkPromptAccepted(r)
       PROVE  AtMostOnce' /\ RowTruthful' /\ AnswersTruthful'
  <2>1. pc[r] = "sent" /\ key[r] \in Keys
    BY <1>16 DEF MarkPromptAccepted, MarkPrompt
  <2>2. CASE createState[key[r]] = "created" /\ promptState[key[r]] = "dispatching"
    <3>1. AtMostOnce'
      BY <1>16, <2>1, <2>2 DEF MarkPromptAccepted, MarkPrompt, Goto, NoFault
    <3>2. RowTruthful'
      BY <1>16, <2>1, <2>2 DEF MarkPromptAccepted, MarkPrompt, Goto, NoFault
    <3>3. AnswersTruthful'
      BY <1>16, <2>1, <2>2 DEF MarkPromptAccepted, MarkPrompt, Goto, NoFault
    <3>. QED  BY <3>1, <3>2, <3>3
  <2>3. CASE ~(createState[key[r]] = "created" /\ promptState[key[r]] = "dispatching")
    <3>1. AtMostOnce'
      BY <1>16, <2>1, <2>3 DEF MarkPromptAccepted, MarkPrompt, Answer, Goto, NoFault
    <3>2. RowTruthful'
      BY <1>16, <2>1, <2>3 DEF MarkPromptAccepted, MarkPrompt, Answer, Goto, NoFault
    <3>3. AnswersTruthful'
      BY <1>16, <2>1, <2>3 DEF MarkPromptAccepted, MarkPrompt, Answer, Goto, NoFault
    <3>. QED  BY <3>1, <3>2, <3>3
  <2>. QED  BY <2>2, <2>3
<1>17. ASSUME NEW r \in Requests, MarkPromptUnknown(r)
       PROVE  AtMostOnce' /\ RowTruthful' /\ AnswersTruthful'
  <2>1. pc[r] = "unsure" /\ key[r] \in Keys
    BY <1>17 DEF MarkPromptUnknown, MarkPrompt
  <2>2. CASE createState[key[r]] = "created" /\ promptState[key[r]] = "dispatching"
    <3>1. AtMostOnce'
      BY <1>17, <2>1, <2>2 DEF MarkPromptUnknown, MarkPrompt, Goto, NoFault
    <3>2. RowTruthful'
      BY <1>17, <2>1, <2>2 DEF MarkPromptUnknown, MarkPrompt, Goto, NoFault
    <3>3. AnswersTruthful'
      BY <1>17, <2>1, <2>2 DEF MarkPromptUnknown, MarkPrompt, Goto, NoFault
    <3>. QED  BY <3>1, <3>2, <3>3
  <2>3. CASE ~(createState[key[r]] = "created" /\ promptState[key[r]] = "dispatching")
    <3>1. AtMostOnce'
      BY <1>17, <2>1, <2>3 DEF MarkPromptUnknown, MarkPrompt, Answer, Goto, NoFault
    <3>2. RowTruthful'
      BY <1>17, <2>1, <2>3 DEF MarkPromptUnknown, MarkPrompt, Answer, Goto, NoFault
    <3>3. AnswersTruthful'
      BY <1>17, <2>1, <2>3 DEF MarkPromptUnknown, MarkPrompt, Answer, Goto, NoFault
    <3>. QED  BY <3>1, <3>2, <3>3
  <2>. QED  BY <2>2, <2>3
<1>18. ASSUME NEW r \in Requests, WaitForPromptResolution(r)
       PROVE  AtMostOnce' /\ RowTruthful' /\ AnswersTruthful'
  BY <1>18 DEF WaitForPromptResolution, Read, Goto, NoFault
<1>19. ASSUME NEW r \in Requests, Respond(r)
       PROVE  AtMostOnce' /\ RowTruthful' /\ AnswersTruthful'
  BY <1>19 DEF Respond, Answer, Goto, NoFault
<1>20. ASSUME NEW r \in Requests, StatementFails(r)
       PROVE  AtMostOnce' /\ RowTruthful' /\ AnswersTruthful'
  BY <1>20 DEF StatementFails, Answer, Goto, Fault
<1>21. ASSUME Restart PROVE AtMostOnce' /\ RowTruthful' /\ AnswersTruthful'
  BY <1>21 DEF Restart, RecoverInterrupted
<1>22. ASSUME NEW r \in Requests, ReadMapping(r)
       PROVE  AtMostOnce' /\ RowTruthful' /\ AnswersTruthful'
  BY <1>22 DEF ReadMapping, Read, Goto, NoFault
<1> HIDE DEF TypeOK, Labels, CreateStates, PromptStates, rowVars, codexVars, reqVars, RowInv, RequestInv, Creating, Settled, Dispatching, OwnerInv, DispatchInv, AtMostOnce, RowTruthful, AnswersTruthful
<1>23. QED
  BY <1>1, <1>2, <1>3, <1>4, <1>5, <1>6, <1>7, <1>8, <1>9, <1>10, <1>11, <1>12, <1>13,
     <1>14, <1>15, <1>16, <1>17, <1>18, <1>19, <1>20, <1>21, <1>22
     DEF Next, Proceed

\* Every step moves each row forward.
LEMMA ForwardStep ==
  ASSUME TypeOK, RowInv, RequestInv, OwnerInv, DispatchInv, Next
  PROVE  Forward
<1> USE PayloadAssumption DEF TypeOK, Labels, CreateStates, PromptStates, rowVars, codexVars, reqVars, RowInv, RequestInv, Creating, Settled, Dispatching, OwnerInv, DispatchInv, Forward, Follows, PromptFollows
<1>1. ASSUME NEW r \in Requests, NEW k \in Keys, NEW b \in Payloads, Begin(r, k, b)
      PROVE  Forward
  BY <1>1 DEF Begin, Goto, NoFault
<1>2. ASSUME NEW r \in Requests, Lookup(r) PROVE Forward
  BY <1>2 DEF Lookup, Answer, Goto, NoFault
<1>3. ASSUME NEW r \in Requests, Insert(r) PROVE Forward
  BY <1>3 DEF Insert, Goto, NoFault
<1>4. ASSUME NEW r \in Requests, ReadClaim(r) PROVE Forward
  BY <1>4 DEF ReadClaim, Answer, Read, Goto, NoFault
<1>5. ASSUME NEW r \in Requests, StartThread(r) PROVE Forward
  BY <1>5 DEF StartThread, Goto, NoFault
<1>6. ASSUME NEW r \in Requests, StartFails(r) PROVE Forward
  BY <1>6 DEF StartFails, Goto, NoFault
<1>7. ASSUME NEW r \in Requests, MarkCreateUnknown(r) PROVE Forward
  BY <1>7 DEF MarkCreateUnknown, Answer, Goto, NoFault
<1>8. ASSUME NEW r \in Requests, MarkCreated(r) PROVE Forward
  BY <1>8 DEF MarkCreated, Answer, Goto, NoFault
<1>9. ASSUME NEW r \in Requests, WaitForMapping(r) PROVE Forward
  BY <1>9 DEF WaitForMapping, Read, Goto, NoFault
<1>10. ASSUME NEW r \in Requests, WaitTimesOut(r) PROVE Forward
  BY <1>10 DEF WaitTimesOut, Answer, Goto, NoFault
<1>11. ASSUME NEW r \in Requests, Route(r) PROVE Forward
  BY <1>11 DEF Route, Answer, Goto, NoFault
<1>12. ASSUME NEW r \in Requests, BeginPromptDispatch(r) PROVE Forward
  BY <1>12 DEF BeginPromptDispatch, Goto, NoFault
<1>13. ASSUME NEW r \in Requests, ReadDispatch(r) PROVE Forward
  BY <1>13 DEF ReadDispatch, Read, Goto, NoFault
<1>14. ASSUME NEW r \in Requests, DeliverPrompt(r) PROVE Forward
  BY <1>14 DEF DeliverPrompt, Goto, NoFault
<1>15. ASSUME NEW r \in Requests, SendFails(r) PROVE Forward
  BY <1>15 DEF SendFails, Goto, NoFault
<1>16. ASSUME NEW r \in Requests, MarkPromptAccepted(r) PROVE Forward
  BY <1>16 DEF MarkPromptAccepted, MarkPrompt, Answer, Goto, NoFault
<1>17. ASSUME NEW r \in Requests, MarkPromptUnknown(r) PROVE Forward
  BY <1>17 DEF MarkPromptUnknown, MarkPrompt, Answer, Goto, NoFault
<1>18. ASSUME NEW r \in Requests, WaitForPromptResolution(r) PROVE Forward
  BY <1>18 DEF WaitForPromptResolution, Read, Goto, NoFault
<1>19. ASSUME NEW r \in Requests, Respond(r) PROVE Forward
  BY <1>19 DEF Respond, Answer, Goto, NoFault
<1>20. ASSUME NEW r \in Requests, StatementFails(r) PROVE Forward
  BY <1>20 DEF StatementFails, Answer, Goto, Fault
<1>21. ASSUME Restart PROVE Forward
  BY <1>21 DEF Restart, RecoverInterrupted
<1>22. ASSUME NEW r \in Requests, ReadMapping(r)
       PROVE  Forward
  BY <1>22 DEF ReadMapping, Read, Goto, NoFault
<1> HIDE DEF TypeOK, Labels, CreateStates, PromptStates, rowVars, codexVars, reqVars, RowInv, RequestInv, Creating, Settled, Dispatching, OwnerInv, DispatchInv, Forward, Follows, PromptFollows
<1>23. QED
  BY <1>1, <1>2, <1>3, <1>4, <1>5, <1>6, <1>7, <1>8, <1>9, <1>10, <1>11, <1>12, <1>13,
     <1>14, <1>15, <1>16, <1>17, <1>18, <1>19, <1>20, <1>21, <1>22
     DEF Next, Proceed

-----------------------------------------------------------------------------
LEMMA InitInv == Init => IInv
  BY PayloadAssumption, BoundsAssumption
     DEF Init, IInv, TypeOK, Labels, CreateStates, PromptStates, RowInv, RequestInv,
         OwnerInv, DispatchInv, Creating, Settled, Dispatching, AtMostOnce, RowTruthful,
         AnswersTruthful

LEMMA StutterInv == IInv /\ UNCHANGED vars => IInv'
  BY DEF IInv, vars, rowVars, codexVars, reqVars, TypeOK, RowInv, RequestInv, OwnerInv,
         DispatchInv, AtMostOnce, RowTruthful, AnswersTruthful

\* IInv holds in every reachable state.
THEOREM Invariance == Spec => []IInv
<1>1. ASSUME IInv, Next PROVE IInv'
  BY <1>1, TypeStep, RowStep, OwnerStep, DispatchStep, TruthStep DEF IInv
<1>2. IInv /\ [Next]_vars => IInv'
  BY <1>1, StutterInv
<1>. QED  BY <1>2, InitInv, PTL DEF Spec

\* Every variable keeps its shape.
THEOREM TypeCorrect == Spec => []TypeOK
<1>1. IInv => TypeOK
  BY DEF IInv
<1>. QED  BY <1>1, Invariance, PTL

\* One key never starts two native threads nor delivers its prompt twice.
THEOREM Idempotent == Spec => []AtMostOnce
<1>1. IInv => AtMostOnce
  BY DEF IInv
<1>. QED  BY <1>1, Invariance, PTL

\* The durable row never claims an effect that did not happen.
THEOREM TruthfulRow == Spec => []RowTruthful
<1>1. IInv => RowTruthful
  BY DEF IInv
<1>. QED  BY <1>1, Invariance, PTL

\* A request acts on its own payload's row and answers what is true.
THEOREM TruthfulAnswers == Spec => []AnswersTruthful
<1>1. IInv => AnswersTruthful
  BY DEF IInv
<1>. QED  BY <1>1, Invariance, PTL

\* No step, of any request or of a restart, moves a row back.
THEOREM MovesForward == Spec => RowMovesForward
<1>1. IInv /\ [Next]_vars => [Forward]_vars
  BY ForwardStep DEF IInv
<1>2. Spec => [][Forward]_vars
  BY <1>1, Invariance, PTL DEF Spec
<1>. QED  BY <1>2 DEF RowMovesForward

\* As long as no statement fails, a row in progress is never abandoned: the request
\* that owns the creation, or won the dispatch, still has its mark to make, and a
\* restart leaves none in progress.  This is what leaves RowSettles to fairness alone
\* (handleIdempotentCodexCreate, new_session.go; RecoverInterrupted, store.go).
THEOREM InHands == Spec => []RowInHands
<1>1. Init => RowInHands
  BY DEF Init, RowInHands
<1>2. IInv /\ RowInHands /\ [Next]_vars => RowInHands'
  <2>1. ASSUME IInv, RowInHands, Next PROVE RowInHands'
    BY <2>1, HandsStep DEF IInv
  <2>2. ASSUME RowInHands, UNCHANGED vars PROVE RowInHands'
    BY <2>2 DEF RowInHands, vars, rowVars, reqVars
  <2>. QED  BY <2>1, <2>2
<1>. QED  BY <1>1, <1>2, Invariance, PTL DEF Spec
=============================================================================
