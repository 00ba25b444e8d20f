------------------------ MODULE WorkerManagerProofs ------------------------
(****************************************************************************)
(* What holds of WorkerManager for every number of sessions, calls and      *)
(* workers, proved.  The inductive invariant IInv has three layers: where a *)
(* call stands determines its locals (CallInv), the counts follow the calls *)
(* in flight (ReservationsAccounted), and a worker is always in somebody's  *)
(* hands (WorkerInv).                                                       *)
(****************************************************************************)
EXTENDS WorkerManager, FiniteSetTheorems, TLAPS

\* A call that has begun has a session; from some positions it has a worker.
CallInv ==
  \A c \in Calls :
    /\ pc[c] # "idle" => sess[c] \in Sessions
    /\ pc[c] \in {"evict", "late", "held", "prompt", "await", "abort"} => held[c] \in Procs
    /\ op[c] = "send" => pc[c] \in SendPc
    /\ pc[c] \in {"cancel", "abort"} => op[c] = "abort"

\* m.creating is the one call between its LookupCreate and its publication, and
\* while there is one nothing is published.
SingleFlight ==
  /\ \A c \in Calls : pc[c] \in {"factory", "publish"} => creating[sess[c]] = c
  /\ \A s \in Sessions : creating[s] # None =>
       /\ workers[s] = None
       /\ pc[creating[s]] \in {"factory", "publish"}
       /\ sess[creating[s]] = s

\* A worker somebody refers to was spawned, for the session it is found under.
Ownership ==
  /\ \A w \in Procs : state[w] = "none" <=> owner[w] = None
  /\ \A s \in Sessions : workers[s] # None => owner[workers[s]] = s
  /\ \A c \in Calls :
       /\ held[c] # None => owner[held[c]] = sess[c] /\ owner[held[c]] # None
       /\ pc[c] \in {"idle", "reserved", "lookup", "wait", "factory"} => held[c] = None

\* Close collects everything at once, and nothing comes after it.
CloserInv ==
  /\ closed <=> closer \in {"wait", "closing", "done"}
  /\ closer # "closing" => closing = {}
  /\ closer \in {"closing", "done"} =>
       \A s \in Sessions : workers[s] = None /\ creating[s] = None

\* What reapOnce removed nobody can find any more.
DeadInv ==
  \A w \in dead :
    /\ owner[w] # None /\ workers[owner[w]] # w
    /\ \A c \in Calls : pc[c] = "publish" => held[c] # w

WorkerInv ==
  /\ SingleFlight
  /\ Ownership
  /\ CloserInv
  /\ DeadInv
  /\ NoWorkerLeaked
  /\ ReservedWorkerSpared

\* Who waits for a creation finds one in m.creating.
Waiting == \A c \in Calls : pc[c] = "wait" => creating[sess[c]] # None

\* The same, with what that creation is.
WaitersHaveCreator ==
  \A c \in Calls : pc[c] = "wait" =>
    \E d \in Calls : /\ creating[sess[c]] = d /\ sess[d] = sess[c]
                     /\ pc[d] \in {"factory", "publish"}

IInv == TypeOK /\ CallInv /\ ReservationsAccounted /\ WorkerInv

\* Every step keeps the type invariant and what a position says of the locals.
LEMMA TypeStep ==
  ASSUME TypeOK, CallInv, Next PROVE TypeOK' /\ CallInv'
<1> USE NoneAssumption DEF TypeOK, CallInv, SendPc, mgrVars, procVars, callVars, downVars
<1>1. ASSUME NEW c \in Calls, NEW s \in Sessions, Send(c, s) PROVE TypeOK' /\ CallInv'
  BY <1>1 DEF Send
<1>2. ASSUME NEW c \in Calls, NEW s \in Sessions, NEW o \in {"ensure", "model"}, Use(c, s, o)
      PROVE  TypeOK' /\ CallInv'
  BY <1>2 DEF Use
<1>3. ASSUME NEW c \in Calls, NEW s \in Sessions, Abort(c, s) PROVE TypeOK' /\ CallInv'
  <2>1. dropped' \in [Sessions -> BOOLEAN]
    <3>1. dropped' \in {dropped, [dropped EXCEPT ![s] = TRUE]}
      BY <1>3 DEF Abort
    <3>. QED  BY <3>1
  <2>2. pendingSends' \in {pendingSends, [pendingSends EXCEPT ![s] = 0]}
    BY <1>3 DEF Abort
  <2>3. TypeOK'
    BY <1>3, <2>1, <2>2 DEF Abort
  <2>4. CallInv'
    BY <1>3 DEF Abort
  <2>. QED  BY <2>3, <2>4
<1>4. ASSUME NEW c \in Calls, NEW w \in Procs, FactorySpawn(c, w)
      PROVE  TypeOK' /\ CallInv'
  BY <1>4 DEF FactorySpawn
<1>5. ASSUME NEW c \in Calls, NEW t \in Calls, CancelOne(c, t) PROVE TypeOK' /\ CallInv'
  BY <1>5 DEF CancelOne
<1>6. ASSUME NEW c \in Calls, CheckReserved(c) PROVE TypeOK' /\ CallInv'
  BY <1>6 DEF CheckReserved
<1>7. ASSUME NEW c \in Calls, CallerCancels(c) PROVE TypeOK' /\ CallInv'
  BY <1>7 DEF CallerCancels
<1>8. ASSUME NEW c \in Calls, CheckHeld(c) PROVE TypeOK' /\ CallInv'
  BY <1>8 DEF CheckHeld
<1>9. ASSUME NEW c \in Calls, PromptStart(c) PROVE TypeOK' /\ CallInv'
  BY <1>9 DEF PromptStart
<1>10. ASSUME NEW c \in Calls, PromptAck(c) PROVE TypeOK' /\ CallInv'
  BY <1>10 DEF PromptAck
<1>11. ASSUME NEW c \in Calls, PromptFail(c) PROVE TypeOK' /\ CallInv'
  BY <1>11 DEF PromptFail
<1>12. ASSUME NEW c \in Calls, Finish(c) PROVE TypeOK' /\ CallInv'
  BY <1>12 DEF Finish, Released, Forget
<1>13. ASSUME NEW c \in Calls, Return(c) PROVE TypeOK' /\ CallInv'
  BY <1>13 DEF Return, Forget
<1>14. ASSUME NEW c \in Calls, LookupClosed(c) PROVE TypeOK' /\ CallInv'
  BY <1>14 DEF LookupClosed
<1>15. ASSUME NEW c \in Calls, LookupHit(c) PROVE TypeOK' /\ CallInv'
  BY <1>15 DEF LookupHit
<1>16. ASSUME NEW c \in Calls, LookupEvict(c) PROVE TypeOK' /\ CallInv'
  BY <1>16 DEF LookupEvict
<1>17. ASSUME NEW c \in Calls, EvictClose(c) PROVE TypeOK' /\ CallInv'
  BY <1>17 DEF EvictClose
<1>18. ASSUME NEW c \in Calls, LookupWait(c) PROVE TypeOK' /\ CallInv'
  BY <1>18 DEF LookupWait
<1>19. ASSUME NEW c \in Calls, LookupCreate(c) PROVE TypeOK' /\ CallInv'
  BY <1>19 DEF LookupCreate
<1>20. ASSUME NEW c \in Calls, FactoryFail(c) PROVE TypeOK' /\ CallInv'
  BY <1>20 DEF FactoryFail
<1>21. ASSUME NEW c \in Calls, PublishClosed(c) PROVE TypeOK' /\ CallInv'
  BY <1>21 DEF PublishClosed, Waiters
<1>22. ASSUME NEW c \in Calls, LateClose(c) PROVE TypeOK' /\ CallInv'
  BY <1>22 DEF LateClose
<1>23. ASSUME NEW c \in Calls, PublishFailed(c) PROVE TypeOK' /\ CallInv'
  BY <1>23 DEF PublishFailed, Waiters
<1>24. ASSUME NEW c \in Calls, PublishWorker(c) PROVE TypeOK' /\ CallInv'
  BY <1>24 DEF PublishWorker, Waiters
<1>25. ASSUME NEW c \in Calls, UseReturn(c) PROVE TypeOK' /\ CallInv'
  BY <1>25 DEF UseReturn
<1>26. ASSUME NEW c \in Calls, CancelledAll(c) PROVE TypeOK' /\ CallInv'
  BY <1>26 DEF CancelledAll
<1>27. ASSUME NEW c \in Calls, AbortReturn(c) PROVE TypeOK' /\ CallInv'
  BY <1>27 DEF AbortReturn
<1>28. ASSUME NEW w \in Procs, RunEnds(w) PROVE TypeOK' /\ CallInv'
  BY <1>28 DEF RunEnds
<1>29. ASSUME NEW w \in Procs, StreamActivity(w) PROVE TypeOK' /\ CallInv'
  BY <1>29 DEF StreamActivity
<1>30. ASSUME NEW w \in Procs, Exit(w) PROVE TypeOK' /\ CallInv'
  BY <1>30 DEF Exit
<1>31. ASSUME NEW w \in Procs, ReapClose(w) PROVE TypeOK' /\ CallInv'
  BY <1>31 DEF ReapClose
<1>32. ASSUME NEW w \in Procs, CloseWorker(w) PROVE TypeOK' /\ CallInv'
  BY <1>32 DEF CloseWorker
<1>33. ASSUME ReapOnce PROVE TypeOK' /\ CallInv'
  BY <1>33 DEF ReapOnce, Unreserved, Failed, Expirable
<1>34. ASSUME ReaperExits PROVE TypeOK' /\ CallInv'
  BY <1>34 DEF ReaperExits
<1>35. ASSUME CloseStopsReaper PROVE TypeOK' /\ CallInv'
  BY <1>35 DEF CloseStopsReaper
<1>36. ASSUME CloseMarks PROVE TypeOK' /\ CallInv'
  BY <1>36 DEF CloseMarks
<1>37. ASSUME CloseCollects PROVE TypeOK' /\ CallInv'
  BY <1>37 DEF CloseCollects, Published
<1>38. ASSUME CloseReturns PROVE TypeOK' /\ CallInv'
  BY <1>38 DEF CloseReturns
<1> HIDE DEF TypeOK, CallInv, SendPc, mgrVars, procVars, callVars, downVars
<1>39. ASSUME NEW c \in Calls, CallNext(c) PROVE TypeOK' /\ CallInv'
  BY <1>1, <1>2, <1>3, <1>4, <1>5, <1>6, <1>7, <1>8, <1>9, <1>10, <1>11, <1>12, <1>13,
     <1>14, <1>15, <1>16, <1>17, <1>18, <1>19, <1>20, <1>21, <1>22, <1>23, <1>24, <1>25,
     <1>26, <1>27, <1>39
     DEF CallNext, Begin, Proceed
<1>40. CASE Shutdown
  BY <1>31, <1>32, <1>34, <1>36, <1>37, <1>38, <1>40 DEF Shutdown
<1>41. QED
  BY <1>28, <1>29, <1>30, <1>33, <1>35, <1>39, <1>40 DEF Next, ProcNext

\* Every step keeps the counts: only Send, Finish and Abort touch them, and only
\* Send and Finish change which calls are in flight.
LEMMA AccountStep ==
  ASSUME TypeOK, CallInv, ReservationsAccounted, Next PROVE ReservationsAccounted'
<1> DEFINE Same == /\ \A x \in Sessions : InFlight(x)' = InFlight(x)
                   /\ UNCHANGED <<pendingSends, sendCancels, dropped>>
<1>a. Same => ReservationsAccounted'
  BY DEF ReservationsAccounted
<1>b. ASSUME NEW x \in Sessions
      PROVE  /\ IsFiniteSet(InFlight(x)) /\ Cardinality(InFlight(x)) \in Nat
             /\ pendingSends[x] \in Nat
  <2>1. InFlight(x) \subseteq Calls
    BY DEF InFlight
  <2>2. IsFiniteSet(InFlight(x))
    BY <2>1, CallsAssumption, FS_Subset
  <2>. QED  BY <2>2, FS_CardinalityType DEF TypeOK
<1>c. ASSUME NEW c \in Calls PROVE pc[c] \in {"cancel", "abort", "idle"} => op[c] # "send"
  BY DEF CallInv, SendPc
<1> USE DEF mgrVars, procVars, callVars, downVars
<1>1. ASSUME NEW c \in Calls, NEW s \in Sessions, Send(c, s)
      PROVE  ReservationsAccounted'
  <2>1. InFlight(s)' = InFlight(s) \cup {c} /\ c \notin InFlight(s)
    BY <1>1 DEF Send, InFlight, TypeOK, SendPc
  <2>2. Cardinality(InFlight(s)') = Cardinality(InFlight(s)) + 1
    BY <2>1, <1>b, FS_AddElement
  <2>3. \A x \in Sessions \ {s} : InFlight(x)' = InFlight(x)
    BY <1>1 DEF Send, InFlight, TypeOK, SendPc
  <2>4. /\ pendingSends'[s] = pendingSends[s] + 1
        /\ sendCancels'[s] = sendCancels[s] \cup {c}
        /\ \A x \in Sessions \ {s} : /\ pendingSends'[x] = pendingSends[x]
                                     /\ sendCancels'[x] = sendCancels[x]
        /\ dropped' = dropped
    BY <1>1 DEF Send, TypeOK
  <2>5. ASSUME NEW x \in Sessions
        PROVE  /\ sendCancels'[x] = InFlight(x)'
               /\ pendingSends'[x] <= Cardinality(InFlight(x)')
               /\ ~dropped'[x] => pendingSends'[x] = Cardinality(InFlight(x)')
    <3>1. CASE x = s
      BY <3>1, <2>1, <2>2, <2>4, <1>b DEF ReservationsAccounted
    <3>2. CASE x # s
      BY <3>2, <2>3, <2>4 DEF ReservationsAccounted
    <3>. QED  BY <3>1, <3>2
  <2>. QED  BY <2>5 DEF ReservationsAccounted
<1>2. ASSUME NEW c \in Calls, NEW s \in Sessions, NEW o \in {"ensure", "model"}, Use(c, s, o)
      PROVE  Same
  BY <1>c, <1>2 DEF Use, InFlight, TypeOK, SendPc
<1>3. ASSUME NEW c \in Calls, NEW s \in Sessions, Abort(c, s)
      PROVE  ReservationsAccounted'
  <2>1. /\ \A x \in Sessions : InFlight(x)' = InFlight(x)
        /\ sendCancels' = sendCancels
    BY <1>3, <1>c DEF Abort, InFlight, TypeOK, SendPc
  <2>2. CASE sendCancels[s] = {}
    BY <1>3, <2>1, <2>2, <1>a DEF Abort
  <2>3. CASE sendCancels[s] # {}
    <3>1. /\ pendingSends'[s] = 0
          /\ \A x \in Sessions \ {s} : pendingSends'[x] = pendingSends[x]
      BY <1>3, <2>3 DEF Abort, TypeOK
    <3>2. dropped'[s] /\ \A x \in Sessions \ {s} : dropped'[x] = dropped[x]
      BY <1>3, <2>3, Zenon DEF Abort, TypeOK
    <3>3. ASSUME NEW x \in Sessions
          PROVE  /\ sendCancels'[x] = InFlight(x)'
                 /\ pendingSends'[x] <= Cardinality(InFlight(x)')
                 /\ ~dropped'[x] => pendingSends'[x] = Cardinality(InFlight(x)')
      <4>1. CASE x = s
        BY <4>1, <2>1, <3>1, <3>2, <1>b DEF ReservationsAccounted
      <4>2. CASE x # s
        BY <4>2, <2>1, <3>1, <3>2 DEF ReservationsAccounted
      <4>. QED  BY <4>1, <4>2
    <3>. QED  BY <3>3 DEF ReservationsAccounted
  <2>. QED  BY <2>2, <2>3
<1>4. ASSUME NEW c \in Calls, NEW w \in Procs, FactorySpawn(c, w) PROVE Same
  BY <1>c, <1>4 DEF FactorySpawn, InFlight, TypeOK, SendPc
<1>5. ASSUME NEW c \in Calls, NEW t \in Calls, CancelOne(c, t) PROVE Same
  BY <1>c, <1>5 DEF CancelOne, InFlight, TypeOK, SendPc
<1>6. ASSUME NEW c \in Calls, CheckReserved(c) PROVE Same
  BY <1>c, <1>6 DEF CheckReserved, InFlight, TypeOK, SendPc
<1>7. ASSUME NEW c \in Calls, CallerCancels(c) PROVE Same
  BY <1>c, <1>7 DEF CallerCancels, InFlight, TypeOK, SendPc
<1>8. ASSUME NEW c \in Calls, CheckHeld(c) PROVE Same
  BY <1>c, <1>8 DEF CheckHeld, InFlight, TypeOK, SendPc
<1>9. ASSUME NEW c \in Calls, PromptStart(c) PROVE Same
  BY <1>c, <1>9 DEF PromptStart, InFlight, TypeOK, SendPc
<1>10. ASSUME NEW c \in Calls, PromptAck(c) PROVE Same
  BY <1>c, <1>10 DEF PromptAck, InFlight, TypeOK, SendPc
<1>11. ASSUME NEW c \in Calls, PromptFail(c) PROVE Same
  BY <1>c, <1>11 DEF PromptFail, InFlight, TypeOK, SendPc
<1>12. ASSUME NEW c \in Calls, Finish(c) PROVE ReservationsAccounted'
  <2>0. PICK s \in Sessions : s = sess[c]
    BY <1>12 DEF Finish, CallInv
  <2>1. c \in InFlight(s)
    BY <1>12, <2>0 DEF Finish, InFlight, SendPc
  <2>2. InFlight(s)' = InFlight(s) \ {c}
    BY <1>12, <2>0, <2>1 DEF Finish, Forget, InFlight, TypeOK, SendPc
  <2>3. /\ Cardinality(InFlight(s)') = Cardinality(InFlight(s)) - 1
        /\ Cardinality(InFlight(s)) >= 1 /\ Cardinality(InFlight(s)') \in Nat
    <3>1. IsFiniteSet(InFlight(s)')
      BY <2>1, <2>2, <1>b, FS_RemoveElement
    <3>. QED  BY <3>1, <2>1, <2>2, <1>b, FS_RemoveElement, FS_CardinalityType
  <2>4. \A x \in Sessions \ {s} : InFlight(x)' = InFlight(x)
    BY <1>12, <2>0 DEF Finish, Forget, InFlight, TypeOK, SendPc
  <2>5. /\ pendingSends'[s] = Released(pendingSends[s])
        /\ sendCancels'[s] = sendCancels[s] \ {c}
        /\ \A x \in Sessions \ {s} : /\ pendingSends'[x] = pendingSends[x]
                                     /\ sendCancels'[x] = sendCancels[x]
    BY <1>12, <2>0 DEF Finish, TypeOK
  <2>6. /\ dropped'[s] <=> (dropped[s] /\ sendCancels[s] # {c})
        /\ \A x \in Sessions \ {s} : dropped'[x] = dropped[x]
    BY <1>12, <2>0, Zenon DEF Finish, TypeOK
  <2>7. /\ sendCancels'[s] = InFlight(s)'
        /\ pendingSends'[s] <= Cardinality(InFlight(s)')
    BY <2>1, <2>2, <2>3, <2>5, <1>b DEF ReservationsAccounted, Released
  <2>8. ASSUME ~dropped'[s] PROVE pendingSends'[s] = Cardinality(InFlight(s)')
    <3>1. CASE ~dropped[s]
      BY <3>1, <2>1, <2>3, <2>5, <1>b DEF ReservationsAccounted, Released
    <3>2. CASE sendCancels[s] = {c}
      <4>1. InFlight(s) = {c}
        BY <3>2, <2>1 DEF ReservationsAccounted
      <4>2. Cardinality(InFlight(s)) = 1
        BY <4>1, FS_Singleton
      <4>. QED  BY <4>2, <2>1, <2>3, <2>5, <1>b DEF ReservationsAccounted, Released
    <3>. QED  BY <3>1, <3>2, <2>6, <2>8
  <2>9. ASSUME NEW x \in Sessions, x # s
        PROVE  /\ sendCancels'[x] = InFlight(x)'
               /\ pendingSends'[x] <= Cardinality(InFlight(x)')
               /\ ~dropped'[x] => pendingSends'[x] = Cardinality(InFlight(x)')
    BY <2>9, <2>4, <2>5, <2>6 DEF ReservationsAccounted
  <2>. QED
    <3>1. ASSUME NEW x \in Sessions
          PROVE  /\ sendCancels'[x] = InFlight(x)'
                 /\ pendingSends'[x] <= Cardinality(InFlight(x)')
                 /\ ~dropped'[x] => pendingSends'[x] = Cardinality(InFlight(x)')
      BY <2>7, <2>8, <2>9
    <3>. QED  BY <3>1 DEF ReservationsAccounted
<1>13. ASSUME NEW c \in Calls, Return(c) PROVE Same
  BY <1>c, <1>13 DEF Return, Forget, InFlight, TypeOK, SendPc
<1>14. ASSUME NEW c \in Calls, LookupClosed(c) PROVE Same
  BY <1>c, <1>14 DEF LookupClosed, InFlight, TypeOK, SendPc
<1>15. ASSUME NEW c \in Calls, LookupHit(c) PROVE Same
  BY <1>c, <1>15 DEF LookupHit, InFlight, TypeOK, SendPc
<1>16. ASSUME NEW c \in Calls, LookupEvict(c) PROVE Same
  BY <1>c, <1>16 DEF LookupEvict, InFlight, TypeOK, SendPc
<1>17. ASSUME NEW c \in Calls, EvictClose(c) PROVE Same
  BY <1>c, <1>17 DEF EvictClose, InFlight, TypeOK, SendPc
<1>18. ASSUME NEW c \in Calls, LookupWait(c) PROVE Same
  BY <1>c, <1>18 DEF LookupWait, InFlight, TypeOK, SendPc
<1>19. ASSUME NEW c \in Calls, LookupCreate(c) PROVE Same
  BY <1>c, <1>19 DEF LookupCreate, InFlight, TypeOK, SendPc
<1>20. ASSUME NEW c \in Calls, FactoryFail(c) PROVE Same
  BY <1>c, <1>20 DEF FactoryFail, InFlight, TypeOK, SendPc
<1>21. ASSUME NEW c \in Calls, PublishClosed(c) PROVE Same
  BY <1>c, <1>21 DEF PublishClosed, Waiters, InFlight, TypeOK, SendPc
<1>22. ASSUME NEW c \in Calls, LateClose(c) PROVE Same
  BY <1>c, <1>22 DEF LateClose, InFlight, TypeOK, SendPc
<1>23. ASSUME NEW c \in Calls, PublishFailed(c) PROVE Same
  BY <1>c, <1>23 DEF PublishFailed, Waiters, InFlight, TypeOK, SendPc
<1>24. ASSUME NEW c \in Calls, PublishWorker(c) PROVE Same
  BY <1>c, <1>24 DEF PublishWorker, Waiters, InFlight, TypeOK, SendPc
<1>25. ASSUME NEW c \in Calls, UseReturn(c) PROVE Same
  BY <1>c, <1>25 DEF UseReturn, InFlight, TypeOK, SendPc
<1>26. ASSUME NEW c \in Calls, CancelledAll(c) PROVE Same
  BY <1>c, <1>26 DEF CancelledAll, InFlight, TypeOK, SendPc
<1>27. ASSUME NEW c \in Calls, AbortReturn(c) PROVE Same
  BY <1>c, <1>27 DEF AbortReturn, InFlight, TypeOK, SendPc
<1>28. ASSUME NEW w \in Procs, RunEnds(w) PROVE Same
  BY <1>c, <1>28 DEF RunEnds, InFlight, TypeOK, SendPc
<1>29. ASSUME NEW w \in Procs, StreamActivity(w) PROVE Same
  BY <1>c, <1>29 DEF StreamActivity, InFlight, TypeOK, SendPc
<1>30. ASSUME NEW w \in Procs, Exit(w) PROVE Same
  BY <1>c, <1>30 DEF Exit, InFlight, TypeOK, SendPc
<1>31. ASSUME NEW w \in Procs, ReapClose(w) PROVE Same
  BY <1>c, <1>31 DEF ReapClose, InFlight, TypeOK, SendPc
<1>32. ASSUME NEW w \in Procs, CloseWorker(w) PROVE Same
  BY <1>c, <1>32 DEF CloseWorker, InFlight, TypeOK, SendPc
<1>33. ASSUME ReapOnce PROVE Same
  BY <1>c, <1>33 DEF ReapOnce, InFlight, TypeOK, SendPc
<1>34. ASSUME ReaperExits PROVE Same
  BY <1>c, <1>34 DEF ReaperExits, InFlight, TypeOK, SendPc
<1>35. ASSUME CloseStopsReaper PROVE Same
  BY <1>c, <1>35 DEF CloseStopsReaper, InFlight, TypeOK, SendPc
<1>36. ASSUME CloseMarks PROVE Same
  BY <1>c, <1>36 DEF CloseMarks, InFlight, TypeOK, SendPc
<1>37. ASSUME CloseCollects PROVE Same
  BY <1>c, <1>37 DEF CloseCollects, InFlight, TypeOK, SendPc
<1>38. ASSUME CloseReturns PROVE Same
  BY <1>c, <1>38 DEF CloseReturns, InFlight, TypeOK, SendPc
<1> HIDE DEF Same, mgrVars, procVars, callVars, downVars
<1>39. ASSUME NEW c \in Calls, CallNext(c) PROVE ReservationsAccounted'
  BY <1>a, <1>1, <1>2, <1>3, <1>4, <1>5, <1>6, <1>7, <1>8, <1>9, <1>10, <1>11, <1>12,
     <1>13, <1>14, <1>15, <1>16, <1>17, <1>18, <1>19, <1>20, <1>21, <1>22, <1>23, <1>24,
     <1>25, <1>26, <1>27, <1>39
     DEF CallNext, Begin, Proceed
<1>40. CASE Shutdown
  BY <1>a, <1>31, <1>32, <1>34, <1>36, <1>37, <1>38, <1>40 DEF Shutdown
<1>41. QED
  BY <1>a, <1>28, <1>29, <1>30, <1>33, <1>35, <1>39, <1>40 DEF Next, ProcNext

\* Every step keeps creations single-flight: LookupCreate starts one only when
\* there is neither a worker nor a creation.
LEMMA FlightStep ==
  ASSUME TypeOK, CallInv, SingleFlight, Next PROVE SingleFlight'
<1> USE NoneAssumption DEF TypeOK, CallInv, SendPc, SingleFlight, mgrVars, procVars, callVars, downVars
<1>1. ASSUME NEW c \in Calls, NEW s \in Sessions, Send(c, s) PROVE SingleFlight'
  BY <1>1 DEF Send
<1>2. ASSUME NEW c \in Calls, NEW s \in Sessions, NEW o \in {"ensure", "model"}, Use(c, s, o)
      PROVE  SingleFlight'
  BY <1>2 DEF Use
<1>3. ASSUME NEW c \in Calls, NEW s \in Sessions, Abort(c, s) PROVE SingleFlight'
  BY <1>3 DEF Abort
<1>4. ASSUME NEW c \in Calls, NEW w \in Procs, FactorySpawn(c, w) PROVE SingleFlight'
  BY <1>4 DEF FactorySpawn
<1>5. ASSUME NEW c \in Calls, NEW t \in Calls, CancelOne(c, t) PROVE SingleFlight'
  BY <1>5 DEF CancelOne
<1>6. ASSUME NEW c \in Calls, CheckReserved(c) PROVE SingleFlight'
  BY <1>6 DEF CheckReserved
<1>7. ASSUME NEW c \in Calls, CallerCancels(c) PROVE SingleFlight'
  BY <1>7 DEF CallerCancels
<1>8. ASSUME NEW c \in Calls, CheckHeld(c) PROVE SingleFlight'
  BY <1>8 DEF CheckHeld
<1>9. ASSUME NEW c \in Calls, PromptStart(c) PROVE SingleFlight'
  BY <1>9 DEF PromptStart
<1>10. ASSUME NEW c \in Calls, PromptAck(c) PROVE SingleFlight'
  BY <1>10 DEF PromptAck
<1>11. ASSUME NEW c \in Calls, PromptFail(c) PROVE SingleFlight'
  BY <1>11 DEF PromptFail
<1>12. ASSUME NEW c \in Calls, Finish(c) PROVE SingleFlight'
  BY <1>12 DEF Finish, Forget
<1>13. ASSUME NEW c \in Calls, Return(c) PROVE SingleFlight'
  BY <1>13 DEF Return, Forget
<1>14. ASSUME NEW c \in Calls, LookupClosed(c) PROVE SingleFlight'
  BY <1>14 DEF LookupClosed
<1>15. ASSUME NEW c \in Calls, LookupHit(c) PROVE SingleFlight'
  BY <1>15 DEF LookupHit
<1>16. ASSUME NEW c \in Calls, LookupEvict(c) PROVE SingleFlight'
  BY <1>16 DEF LookupEvict
<1>17. ASSUME NEW c \in Calls, EvictClose(c) PROVE SingleFlight'
  BY <1>17 DEF EvictClose
<1>18. ASSUME NEW c \in Calls, LookupWait(c) PROVE SingleFlight'
  BY <1>18 DEF LookupWait
<1>19. ASSUME NEW c \in Calls, LookupCreate(c) PROVE SingleFlight'
  BY <1>19 DEF LookupCreate
<1>20. ASSUME NEW c \in Calls, FactoryFail(c) PROVE SingleFlight'
  BY <1>20 DEF FactoryFail
<1>21. ASSUME NEW c \in Calls, PublishClosed(c) PROVE SingleFlight'
  BY <1>21 DEF PublishClosed, Waiters
<1>22. ASSUME NEW c \in Calls, LateClose(c) PROVE SingleFlight'
  BY <1>22 DEF LateClose
<1>23. ASSUME NEW c \in Calls, PublishFailed(c) PROVE SingleFlight'
  BY <1>23 DEF PublishFailed, Waiters
<1>24. ASSUME NEW c \in Calls, PublishWorker(c) PROVE SingleFlight'
  BY <1>24 DEF PublishWorker, Waiters
<1>25. ASSUME NEW c \in Calls, UseReturn(c) PROVE SingleFlight'
  BY <1>25 DEF UseReturn
<1>26. ASSUME NEW c \in Calls, CancelledAll(c) PROVE SingleFlight'
  BY <1>26 DEF CancelledAll
<1>27. ASSUME NEW c \in Calls, AbortReturn(c) PROVE SingleFlight'
  BY <1>27 DEF AbortReturn
<1>28. ASSUME NEW w \in Procs, RunEnds(w) PROVE SingleFlight'
  BY <1>28 DEF RunEnds
<1>29. ASSUME NEW w \in Procs, StreamActivity(w) PROVE SingleFlight'
  BY <1>29 DEF StreamActivity
<1>30. ASSUME NEW w \in Procs, Exit(w) PROVE SingleFlight'
  BY <1>30 DEF Exit
<1>31. ASSUME NEW w \in Procs, ReapClose(w) PROVE SingleFlight'
  BY <1>31 DEF ReapClose
<1>32. ASSUME NEW w \in Procs, CloseWorker(w) PROVE SingleFlight'
  BY <1>32 DEF CloseWorker
<1>33. ASSUME ReapOnce PROVE SingleFlight'
  BY <1>33 DEF ReapOnce, Unreserved, Failed, Expirable
<1>34. ASSUME ReaperExits PROVE SingleFlight'
  BY <1>34 DEF ReaperExits
<1>35. ASSUME CloseStopsReaper PROVE SingleFlight'
  BY <1>35 DEF CloseStopsReaper
<1>36. ASSUME CloseMarks PROVE SingleFlight'
  BY <1>36 DEF CloseMarks
<1>37. ASSUME CloseCollects PROVE SingleFlight'
  BY <1>37 DEF CloseCollects
<1>38. ASSUME CloseReturns PROVE SingleFlight'
  BY <1>38 DEF CloseReturns
<1> HIDE DEF TypeOK, CallInv, SendPc, SingleFlight, mgrVars, procVars, callVars, downVars
<1>39. ASSUME NEW c \in Calls, CallNext(c) PROVE SingleFlight'
  BY <1>1, <1>2, <1>3, <1>4, <1>5, <1>6, <1>7, <1>8, <1>9, <1>10, <1>11, <1>12, <1>13,
     <1>14, <1>15, <1>16, <1>17, <1>18, <1>19, <1>20, <1>21, <1>22, <1>23, <1>24, <1>25,
     <1>26, <1>27, <1>39
     DEF CallNext, Begin, Proceed
<1>40. CASE Shutdown
  BY <1>31, <1>32, <1>34, <1>36, <1>37, <1>38, <1>40 DEF Shutdown
<1>41. QED
  BY <1>28, <1>29, <1>30, <1>33, <1>35, <1>39, <1>40 DEF Next, ProcNext

\* Every step keeps a creation for those who wait: LookupWait sees one under the
\* lock, and a publication takes all the waiters of its session with it.
LEMMA WaitStep ==
  ASSUME TypeOK, CallInv, SingleFlight, Waiting, Next PROVE Waiting'
<1> USE NoneAssumption DEF TypeOK, CallInv, SendPc, SingleFlight, Waiting, mgrVars, procVars, callVars, downVars
<1>1. ASSUME NEW c \in Calls, NEW s \in Sessions, Send(c, s) PROVE Waiting'
  BY <1>1 DEF Send
<1>2. ASSUME NEW c \in Calls, NEW s \in Sessions, NEW o \in {"ensure", "model"}, Use(c, s, o)
      PROVE  Waiting'
  BY <1>2 DEF Use
<1>3. ASSUME NEW c \in Calls, NEW s \in Sessions, Abort(c, s) PROVE Waiting'
  BY <1>3 DEF Abort
<1>4. ASSUME NEW c \in Calls, NEW w \in Procs, FactorySpawn(c, w) PROVE Waiting'
  BY <1>4 DEF FactorySpawn
<1>5. ASSUME NEW c \in Calls, NEW t \in Calls, CancelOne(c, t) PROVE Waiting'
  BY <1>5 DEF CancelOne
<1>6. ASSUME NEW c \in Calls, CheckReserved(c) PROVE Waiting'
  BY <1>6 DEF CheckReserved
<1>7. ASSUME NEW c \in Calls, CallerCancels(c) PROVE Waiting'
  BY <1>7 DEF CallerCancels
<1>8. ASSUME NEW c \in Calls, CheckHeld(c) PROVE Waiting'
  BY <1>8 DEF CheckHeld
<1>9. ASSUME NEW c \in Calls, PromptStart(c) PROVE Waiting'
  BY <1>9 DEF PromptStart
<1>10. ASSUME NEW c \in Calls, PromptAck(c) PROVE Waiting'
  BY <1>10 DEF PromptAck
<1>11. ASSUME NEW c \in Calls, PromptFail(c) PROVE Waiting'
  BY <1>11 DEF PromptFail
<1>12. ASSUME NEW c \in Calls, Finish(c) PROVE Waiting'
  BY <1>12 DEF Finish, Forget
<1>13. ASSUME NEW c \in Calls, Return(c) PROVE Waiting'
  BY <1>13 DEF Return, Forget
<1>14. ASSUME NEW c \in Calls, LookupClosed(c) PROVE Waiting'
  BY <1>14 DEF LookupClosed
<1>15. ASSUME NEW c \in Calls, LookupHit(c) PROVE Waiting'
  BY <1>15 DEF LookupHit
<1>16. ASSUME NEW c \in Calls, LookupEvict(c) PROVE Waiting'
  BY <1>16 DEF LookupEvict
<1>17. ASSUME NEW c \in Calls, EvictClose(c) PROVE Waiting'
  BY <1>17 DEF EvictClose
<1>18. ASSUME NEW c \in Calls, LookupWait(c) PROVE Waiting'
  BY <1>18 DEF LookupWait
<1>19. ASSUME NEW c \in Calls, LookupCreate(c) PROVE Waiting'
  BY <1>19 DEF LookupCreate
<1>20. ASSUME NEW c \in Calls, FactoryFail(c) PROVE Waiting'
  BY <1>20 DEF FactoryFail
<1>21. ASSUME NEW c \in Calls, PublishClosed(c) PROVE Waiting'
  BY <1>21 DEF PublishClosed, Waiters
<1>22. ASSUME NEW c \in Calls, LateClose(c) PROVE Waiting'
  BY <1>22 DEF LateClose
<1>23. ASSUME NEW c \in Calls, PublishFailed(c) PROVE Waiting'
  BY <1>23 DEF PublishFailed, Waiters
<1>24. ASSUME NEW c \in Calls, PublishWorker(c) PROVE Waiting'
  BY <1>24 DEF PublishWorker, Waiters
<1>25. ASSUME NEW c \in Calls, UseReturn(c) PROVE Waiting'
  BY <1>25 DEF UseReturn
<1>26. ASSUME NEW c \in Calls, CancelledAll(c) PROVE Waiting'
  BY <1>26 DEF CancelledAll
<1>27. ASSUME NEW c \in Calls, AbortReturn(c) PROVE Waiting'
  BY <1>27 DEF AbortReturn
<1>28. ASSUME NEW w \in Procs, RunEnds(w) PROVE Waiting'
  BY <1>28 DEF RunEnds
<1>29. ASSUME NEW w \in Procs, StreamActivity(w) PROVE Waiting'
  BY <1>29 DEF StreamActivity
<1>30. ASSUME NEW w \in Procs, Exit(w) PROVE Waiting'
  BY <1>30 DEF Exit
<1>31. ASSUME NEW w \in Procs, ReapClose(w) PROVE Waiting'
  BY <1>31 DEF ReapClose
<1>32. ASSUME NEW w \in Procs, CloseWorker(w) PROVE Waiting'
  BY <1>32 DEF CloseWorker
<1>33. ASSUME ReapOnce PROVE Waiting'
  BY <1>33 DEF ReapOnce, Unreserved, Failed, Expirable
<1>34. ASSUME ReaperExits PROVE Waiting'
  BY <1>34 DEF ReaperExits
<1>35. ASSUME CloseStopsReaper PROVE Waiting'
  BY <1>35 DEF CloseStopsReaper
<1>36. ASSUME CloseMarks PROVE Waiting'
  BY <1>36 DEF CloseMarks
<1>37. ASSUME CloseCollects PROVE Waiting'
  BY <1>37 DEF CloseCollects
<1>38. ASSUME CloseReturns PROVE Waiting'
  BY <1>38 DEF CloseReturns
<1> HIDE DEF TypeOK, CallInv, SendPc, SingleFlight, Waiting, mgrVars, procVars, callVars, downVars
<1>39. ASSUME NEW c \in Calls, CallNext(c) PROVE Waiting'
  BY <1>1, <1>2, <1>3, <1>4, <1>5, <1>6, <1>7, <1>8, <1>9, <1>10, <1>11, <1>12, <1>13,
     <1>14, <1>15, <1>16, <1>17, <1>18, <1>19, <1>20, <1>21, <1>22, <1>23, <1>24, <1>25,
     <1>26, <1>27, <1>39
     DEF CallNext, Begin, Proceed
<1>40. CASE Shutdown
  BY <1>31, <1>32, <1>34, <1>36, <1>37, <1>38, <1>40 DEF Shutdown
<1>41. QED
  BY <1>28, <1>29, <1>30, <1>33, <1>35, <1>39, <1>40 DEF Next, ProcNext

\* Every step keeps a worker with the session it was spawned for.
LEMMA OwnershipStep ==
  ASSUME TypeOK, CallInv, SingleFlight, Ownership, Next PROVE Ownership'
<1> USE NoneAssumption DEF TypeOK, CallInv, SendPc, SingleFlight, Ownership, mgrVars, procVars, callVars, downVars
<1>1. ASSUME NEW c \in Calls, NEW s \in Sessions, Send(c, s) PROVE Ownership'
  BY <1>1 DEF Send
<1>2. ASSUME NEW c \in Calls, NEW s \in Sessions, NEW o \in {"ensure", "model"}, Use(c, s, o)
      PROVE  Ownership'
  BY <1>2 DEF Use
<1>3. ASSUME NEW c \in Calls, NEW s \in Sessions, Abort(c, s) PROVE Ownership'
  BY <1>3 DEF Abort
<1>4. ASSUME NEW c \in Calls, NEW w \in Procs, FactorySpawn(c, w) PROVE Ownership'
  BY <1>4 DEF FactorySpawn
<1>5. ASSUME NEW c \in Calls, NEW t \in Calls, CancelOne(c, t) PROVE Ownership'
  BY <1>5 DEF CancelOne
<1>6. ASSUME NEW c \in Calls, CheckReserved(c) PROVE Ownership'
  BY <1>6 DEF CheckReserved
<1>7. ASSUME NEW c \in Calls, CallerCancels(c) PROVE Ownership'
  BY <1>7 DEF CallerCancels
<1>8. ASSUME NEW c \in Calls, CheckHeld(c) PROVE Ownership'
  BY <1>8 DEF CheckHeld
<1>9. ASSUME NEW c \in Calls, PromptStart(c) PROVE Ownership'
  BY <1>9 DEF PromptStart
<1>10. ASSUME NEW c \in Calls, PromptAck(c) PROVE Ownership'
  BY <1>10 DEF PromptAck
<1>11. ASSUME NEW c \in Calls, PromptFail(c) PROVE Ownership'
  BY <1>11 DEF PromptFail
<1>12. ASSUME NEW c \in Calls, Finish(c) PROVE Ownership'
  BY <1>12 DEF Finish, Forget
<1>13. ASSUME NEW c \in Calls, Return(c) PROVE Ownership'
  BY <1>13 DEF Return, Forget
<1>14. ASSUME NEW c \in Calls, LookupClosed(c) PROVE Ownership'
  BY <1>14 DEF LookupClosed
<1>15. ASSUME NEW c \in Calls, LookupHit(c) PROVE Ownership'
  BY <1>15 DEF LookupHit
<1>16. ASSUME NEW c \in Calls, LookupEvict(c) PROVE Ownership'
  BY <1>16 DEF LookupEvict
<1>17. ASSUME NEW c \in Calls, EvictClose(c) PROVE Ownership'
  BY <1>17 DEF EvictClose
<1>18. ASSUME NEW c \in Calls, LookupWait(c) PROVE Ownership'
  BY <1>18 DEF LookupWait
<1>19. ASSUME NEW c \in Calls, LookupCreate(c) PROVE Ownership'
  BY <1>19 DEF LookupCreate
<1>20. ASSUME NEW c \in Calls, FactoryFail(c) PROVE Ownership'
  BY <1>20 DEF FactoryFail
<1>21. ASSUME NEW c \in Calls, PublishClosed(c) PROVE Ownership'
  BY <1>21 DEF PublishClosed, Waiters
<1>22. ASSUME NEW c \in Calls, LateClose(c) PROVE Ownership'
  BY <1>22 DEF LateClose
<1>23. ASSUME NEW c \in Calls, PublishFailed(c) PROVE Ownership'
  BY <1>23 DEF PublishFailed, Waiters
<1>24. ASSUME NEW c \in Calls, PublishWorker(c) PROVE Ownership'
  BY <1>24 DEF PublishWorker, Waiters
<1>25. ASSUME NEW c \in Calls, UseReturn(c) PROVE Ownership'
  BY <1>25 DEF UseReturn
<1>26. ASSUME NEW c \in Calls, CancelledAll(c) PROVE Ownership'
  BY <1>26 DEF CancelledAll
<1>27. ASSUME NEW c \in Calls, AbortReturn(c) PROVE Ownership'
  BY <1>27 DEF AbortReturn
<1>28. ASSUME NEW w \in Procs, RunEnds(w) PROVE Ownership'
  BY <1>28 DEF RunEnds
<1>29. ASSUME NEW w \in Procs, StreamActivity(w) PROVE Ownership'
  BY <1>29 DEF StreamActivity
<1>30. ASSUME NEW w \in Procs, Exit(w) PROVE Ownership'
  BY <1>30 DEF Exit
<1>31. ASSUME NEW w \in Procs, ReapClose(w) PROVE Ownership'
  BY <1>31 DEF ReapClose
<1>32. ASSUME NEW w \in Procs, CloseWorker(w) PROVE Ownership'
  BY <1>32 DEF CloseWorker
<1>33. ASSUME ReapOnce PROVE Ownership'
  BY <1>33 DEF ReapOnce, Unreserved, Failed, Expirable
<1>34. ASSUME ReaperExits PROVE Ownership'
  BY <1>34 DEF ReaperExits
<1>35. ASSUME CloseStopsReaper PROVE Ownership'
  BY <1>35 DEF CloseStopsReaper
<1>36. ASSUME CloseMarks PROVE Ownership'
  BY <1>36 DEF CloseMarks
<1>37. ASSUME CloseCollects PROVE Ownership'
  BY <1>37 DEF CloseCollects
<1>38. ASSUME CloseReturns PROVE Ownership'
  BY <1>38 DEF CloseReturns
<1> HIDE DEF TypeOK, CallInv, SendPc, SingleFlight, Ownership, mgrVars, procVars, callVars, downVars
<1>39. ASSUME NEW c \in Calls, CallNext(c) PROVE Ownership'
  BY <1>1, <1>2, <1>3, <1>4, <1>5, <1>6, <1>7, <1>8, <1>9, <1>10, <1>11, <1>12, <1>13,
     <1>14, <1>15, <1>16, <1>17, <1>18, <1>19, <1>20, <1>21, <1>22, <1>23, <1>24, <1>25,
     <1>26, <1>27, <1>39
     DEF CallNext, Begin, Proceed
<1>40. CASE Shutdown
  BY <1>31, <1>32, <1>34, <1>36, <1>37, <1>38, <1>40 DEF Shutdown
<1>41. QED
  BY <1>28, <1>29, <1>30, <1>33, <1>35, <1>39, <1>40 DEF Next, ProcNext

\* Every step leaves each worker in somebody's hands.
LEMMA LeakStep ==
  ASSUME TypeOK, CallInv, SingleFlight, Ownership, CloserInv, NoWorkerLeaked, Next
  PROVE  CloserInv' /\ NoWorkerLeaked'
<1> USE NoneAssumption DEF TypeOK, CallInv, SendPc, SingleFlight, Ownership, CloserInv, mgrVars, procVars, callVars, downVars, NoWorkerLeaked, Live, Doomed
<1>1. ASSUME NEW c \in Calls, NEW s \in Sessions, Send(c, s)
      PROVE  CloserInv' /\ NoWorkerLeaked'
  BY <1>1 DEF Send
<1>2. ASSUME NEW c \in Calls, NEW s \in Sessions, NEW o \in {"ensure", "model"}, Use(c, s, o)
      PROVE  CloserInv' /\ NoWorkerLeaked'
  BY <1>2 DEF Use
<1>3. ASSUME NEW c \in Calls, NEW s \in Sessions, Abort(c, s)
      PROVE  CloserInv' /\ NoWorkerLeaked'
  BY <1>3 DEF Abort
<1>4. ASSUME NEW c \in Calls, NEW w \in Procs, FactorySpawn(c, w)
      PROVE  CloserInv' /\ NoWorkerLeaked'
  BY <1>4 DEF FactorySpawn
<1>5. ASSUME NEW c \in Calls, NEW t \in Calls, CancelOne(c, t)
      PROVE  CloserInv' /\ NoWorkerLeaked'
  BY <1>5 DEF CancelOne
<1>6. ASSUME NEW c \in Calls, CheckReserved(c) PROVE CloserInv' /\ NoWorkerLeaked'
  BY <1>6 DEF CheckReserved
<1>7. ASSUME NEW c \in Calls, CallerCancels(c) PROVE CloserInv' /\ NoWorkerLeaked'
  BY <1>7 DEF CallerCancels
<1>8. ASSUME NEW c \in Calls, CheckHeld(c) PROVE CloserInv' /\ NoWorkerLeaked'
  BY <1>8 DEF CheckHeld
<1>9. ASSUME NEW c \in Calls, PromptStart(c) PROVE CloserInv' /\ NoWorkerLeaked'
  BY <1>9 DEF PromptStart
<1>10. ASSUME NEW c \in Calls, PromptAck(c) PROVE CloserInv' /\ NoWorkerLeaked'
  BY <1>10 DEF PromptAck
<1>11. ASSUME NEW c \in Calls, PromptFail(c) PROVE CloserInv' /\ NoWorkerLeaked'
  BY <1>11 DEF PromptFail
<1>12. ASSUME NEW c \in Calls, Finish(c) PROVE CloserInv' /\ NoWorkerLeaked'
  BY <1>12 DEF Finish, Forget
<1>13. ASSUME NEW c \in Calls, Return(c) PROVE CloserInv' /\ NoWorkerLeaked'
  BY <1>13 DEF Return, Forget
<1>14. ASSUME NEW c \in Calls, LookupClosed(c) PROVE CloserInv' /\ NoWorkerLeaked'
  BY <1>14 DEF LookupClosed
<1>15. ASSUME NEW c \in Calls, LookupHit(c) PROVE CloserInv' /\ NoWorkerLeaked'
  BY <1>15 DEF LookupHit
<1>16. ASSUME NEW c \in Calls, LookupEvict(c) PROVE CloserInv' /\ NoWorkerLeaked'
  BY <1>16 DEF LookupEvict
<1>17. ASSUME NEW c \in Calls, EvictClose(c) PROVE CloserInv' /\ NoWorkerLeaked'
  BY <1>17 DEF EvictClose
<1>18. ASSUME NEW c \in Calls, LookupWait(c) PROVE CloserInv' /\ NoWorkerLeaked'
  BY <1>18 DEF LookupWait
<1>19. ASSUME NEW c \in Calls, LookupCreate(c) PROVE CloserInv' /\ NoWorkerLeaked'
  BY <1>19 DEF LookupCreate
<1>20. ASSUME NEW c \in Calls, FactoryFail(c) PROVE CloserInv' /\ NoWorkerLeaked'
  BY <1>20 DEF FactoryFail
<1>21. ASSUME NEW c \in Calls, PublishClosed(c) PROVE CloserInv' /\ NoWorkerLeaked'
  BY <1>21 DEF PublishClosed, Waiters
<1>22. ASSUME NEW c \in Calls, LateClose(c) PROVE CloserInv' /\ NoWorkerLeaked'
  BY <1>22 DEF LateClose
<1>23. ASSUME NEW c \in Calls, PublishFailed(c) PROVE CloserInv' /\ NoWorkerLeaked'
  BY <1>23 DEF PublishFailed, Waiters
<1>24. ASSUME NEW c \in Calls, PublishWorker(c) PROVE CloserInv' /\ NoWorkerLeaked'
  BY <1>24 DEF PublishWorker, Waiters
<1>25. ASSUME NEW c \in Calls, UseReturn(c) PROVE CloserInv' /\ NoWorkerLeaked'
  BY <1>25 DEF UseReturn
<1>26. ASSUME NEW c \in Calls, CancelledAll(c) PROVE CloserInv' /\ NoWorkerLeaked'
  BY <1>26 DEF CancelledAll
<1>27. ASSUME NEW c \in Calls, AbortReturn(c) PROVE CloserInv' /\ NoWorkerLeaked'
  BY <1>27 DEF AbortReturn
<1>28. ASSUME NEW w \in Procs, RunEnds(w) PROVE CloserInv' /\ NoWorkerLeaked'
  BY <1>28 DEF RunEnds
<1>29. ASSUME NEW w \in Procs, StreamActivity(w) PROVE CloserInv' /\ NoWorkerLeaked'
  BY <1>29 DEF StreamActivity
<1>30. ASSUME NEW w \in Procs, Exit(w) PROVE CloserInv' /\ NoWorkerLeaked'
  BY <1>30 DEF Exit
<1>31. ASSUME NEW w \in Procs, ReapClose(w) PROVE CloserInv' /\ NoWorkerLeaked'
  BY <1>31 DEF ReapClose
<1>32. ASSUME NEW w \in Procs, CloseWorker(w) PROVE CloserInv' /\ NoWorkerLeaked'
  BY <1>32 DEF CloseWorker
<1>33. ASSUME ReapOnce PROVE CloserInv' /\ NoWorkerLeaked'
  BY <1>33 DEF ReapOnce, Unreserved, Failed, Expirable
<1>34. ASSUME ReaperExits PROVE CloserInv' /\ NoWorkerLeaked'
  BY <1>34 DEF ReaperExits
<1>35. ASSUME CloseStopsReaper PROVE CloserInv' /\ NoWorkerLeaked'
  BY <1>35 DEF CloseStopsReaper
<1>36. ASSUME CloseMarks PROVE CloserInv' /\ NoWorkerLeaked'
  BY <1>36 DEF CloseMarks
<1>37. ASSUME CloseCollects PROVE CloserInv' /\ NoWorkerLeaked'
  BY <1>37 DEF CloseCollects, Published
<1>38. ASSUME CloseReturns PROVE CloserInv' /\ NoWorkerLeaked'
  BY <1>38 DEF CloseReturns
<1> HIDE DEF TypeOK, CallInv, SendPc, SingleFlight, Ownership, CloserInv, mgrVars, procVars, callVars, downVars, NoWorkerLeaked, Live, Doomed
<1>39. ASSUME NEW c \in Calls, CallNext(c) PROVE CloserInv' /\ NoWorkerLeaked'
  BY <1>1, <1>2, <1>3, <1>4, <1>5, <1>6, <1>7, <1>8, <1>9, <1>10, <1>11, <1>12, <1>13,
     <1>14, <1>15, <1>16, <1>17, <1>18, <1>19, <1>20, <1>21, <1>22, <1>23, <1>24, <1>25,
     <1>26, <1>27, <1>39
     DEF CallNext, Begin, Proceed
<1>40. CASE Shutdown
  BY <1>31, <1>32, <1>34, <1>36, <1>37, <1>38, <1>40 DEF Shutdown
<1>41. QED
  BY <1>28, <1>29, <1>30, <1>33, <1>35, <1>39, <1>40 DEF Next, ProcNext

\* Every step leaves a reaped worker out of everybody's reach.
LEMMA DeadStep ==
  ASSUME TypeOK, CallInv, SingleFlight, Ownership, DeadInv, Next
  PROVE  DeadInv'
<1> USE NoneAssumption DEF TypeOK, CallInv, SendPc, SingleFlight, Ownership, DeadInv, mgrVars, procVars, callVars, downVars
<1>1. ASSUME NEW c \in Calls, NEW s \in Sessions, Send(c, s) PROVE DeadInv'
  BY <1>1 DEF Send
<1>2. ASSUME NEW c \in Calls, NEW s \in Sessions, NEW o \in {"ensure", "model"}, Use(c, s, o)
      PROVE  DeadInv'
  BY <1>2 DEF Use
<1>3. ASSUME NEW c \in Calls, NEW s \in Sessions, Abort(c, s) PROVE DeadInv'
  BY <1>3 DEF Abort
<1>4. ASSUME NEW c \in Calls, NEW w \in Procs, FactorySpawn(c, w) PROVE DeadInv'
  BY <1>4 DEF FactorySpawn
<1>5. ASSUME NEW c \in Calls, NEW t \in Calls, CancelOne(c, t) PROVE DeadInv'
  BY <1>5 DEF CancelOne
<1>6. ASSUME NEW c \in Calls, CheckReserved(c) PROVE DeadInv'
  BY <1>6 DEF CheckReserved
<1>7. ASSUME NEW c \in Calls, CallerCancels(c) PROVE DeadInv'
  BY <1>7 DEF CallerCancels
<1>8. ASSUME NEW c \in Calls, CheckHeld(c) PROVE DeadInv'
  BY <1>8 DEF CheckHeld
<1>9. ASSUME NEW c \in Calls, PromptStart(c) PROVE DeadInv'
  BY <1>9 DEF PromptStart
<1>10. ASSUME NEW c \in Calls, PromptAck(c) PROVE DeadInv'
  BY <1>10 DEF PromptAck
<1>11. ASSUME NEW c \in Calls, PromptFail(c) PROVE DeadInv'
  BY <1>11 DEF PromptFail
<1>12. ASSUME NEW c \in Calls, Finish(c) PROVE DeadInv'
  BY <1>12 DEF Finish, Forget
<1>13. ASSUME NEW c \in Calls, Return(c) PROVE DeadInv'
  BY <1>13 DEF Return, Forget
<1>14. ASSUME NEW c \in Calls, LookupClosed(c) PROVE DeadInv'
  BY <1>14 DEF LookupClosed
<1>15. ASSUME NEW c \in Calls, LookupHit(c) PROVE DeadInv'
  BY <1>15 DEF LookupHit
<1>16. ASSUME NEW c \in Calls, LookupEvict(c) PROVE DeadInv'
  BY <1>16 DEF LookupEvict
<1>17. ASSUME NEW c \in Calls, EvictClose(c) PROVE DeadInv'
  BY <1>17 DEF EvictClose
<1>18. ASSUME NEW c \in Calls, LookupWait(c) PROVE DeadInv'
  BY <1>18 DEF LookupWait
<1>19. ASSUME NEW c \in Calls, LookupCreate(c) PROVE DeadInv'
  BY <1>19 DEF LookupCreate
<1>20. ASSUME NEW c \in Calls, FactoryFail(c) PROVE DeadInv'
  BY <1>20 DEF FactoryFail
<1>21. ASSUME NEW c \in Calls, PublishClosed(c) PROVE DeadInv'
  BY <1>21 DEF PublishClosed, Waiters
<1>22. ASSUME NEW c \in Calls, LateClose(c) PROVE DeadInv'
  BY <1>22 DEF LateClose
<1>23. ASSUME NEW c \in Calls, PublishFailed(c) PROVE DeadInv'
  BY <1>23 DEF PublishFailed, Waiters
<1>24. ASSUME NEW c \in Calls, PublishWorker(c) PROVE DeadInv'
  BY <1>24 DEF PublishWorker, Waiters
<1>25. ASSUME NEW c \in Calls, UseReturn(c) PROVE DeadInv'
  BY <1>25 DEF UseReturn
<1>26. ASSUME NEW c \in Calls, CancelledAll(c) PROVE DeadInv'
  BY <1>26 DEF CancelledAll
<1>27. ASSUME NEW c \in Calls, AbortReturn(c) PROVE DeadInv'
  BY <1>27 DEF AbortReturn
<1>28. ASSUME NEW w \in Procs, RunEnds(w) PROVE DeadInv'
  BY <1>28 DEF RunEnds
<1>29. ASSUME NEW w \in Procs, StreamActivity(w) PROVE DeadInv'
  BY <1>29 DEF StreamActivity
<1>30. ASSUME NEW w \in Procs, Exit(w) PROVE DeadInv'
  BY <1>30 DEF Exit
<1>31. ASSUME NEW w \in Procs, ReapClose(w) PROVE DeadInv'
  BY <1>31 DEF ReapClose
<1>32. ASSUME NEW w \in Procs, CloseWorker(w) PROVE DeadInv'
  BY <1>32 DEF CloseWorker
<1>33. ASSUME ReapOnce PROVE DeadInv'
  BY <1>33 DEF ReapOnce, Unreserved, Failed, Expirable
<1>34. ASSUME ReaperExits PROVE DeadInv'
  BY <1>34 DEF ReaperExits
<1>35. ASSUME CloseStopsReaper PROVE DeadInv'
  BY <1>35 DEF CloseStopsReaper
<1>36. ASSUME CloseMarks PROVE DeadInv'
  BY <1>36 DEF CloseMarks
<1>37. ASSUME CloseCollects PROVE DeadInv'
  BY <1>37 DEF CloseCollects, Published
<1>38. ASSUME CloseReturns PROVE DeadInv'
  BY <1>38 DEF CloseReturns
<1> HIDE DEF TypeOK, CallInv, SendPc, SingleFlight, Ownership, DeadInv, mgrVars, procVars, callVars, downVars
<1>39. ASSUME NEW c \in Calls, CallNext(c) PROVE DeadInv'
  BY <1>1, <1>2, <1>3, <1>4, <1>5, <1>6, <1>7, <1>8, <1>9, <1>10, <1>11, <1>12, <1>13,
     <1>14, <1>15, <1>16, <1>17, <1>18, <1>19, <1>20, <1>21, <1>22, <1>23, <1>24, <1>25,
     <1>26, <1>27, <1>39
     DEF CallNext, Begin, Proceed
<1>40. CASE Shutdown
  BY <1>31, <1>32, <1>34, <1>36, <1>37, <1>38, <1>40 DEF Shutdown
<1>41. QED
  BY <1>28, <1>29, <1>30, <1>33, <1>35, <1>39, <1>40 DEF Next, ProcNext

\* Every step spares the worker of a reserved Send: what reapOnce takes had no
\* reservation, so nobody in flight was counting on it.
LEMMA SparedStep ==
  ASSUME TypeOK, CallInv, ReservationsAccounted, SingleFlight, Ownership, DeadInv,
         ReservedWorkerSpared, Next
  PROVE  ReservedWorkerSpared'
<1>a. ASSUME NEW c \in Calls, NEW s \in Sessions, Abort(c, s),
             NEW x \in Sessions, dropped[x]
      PROVE  dropped'[x]
  <2>1. dropped' = dropped \/ dropped' = [dropped EXCEPT ![s] = TRUE]
    BY <1>a DEF Abort
  <2>2. dropped \in [Sessions -> BOOLEAN]
    BY DEF TypeOK
  <2>. QED  BY <2>1, <2>2, <1>a, Zenon
<1>b. ASSUME NEW c \in Calls, Finish(c), NEW x \in Sessions, dropped[x], ~dropped'[x]
      PROVE  x = sess[c] /\ sendCancels[x] = {c}
  <2>1. dropped' = [dropped EXCEPT ![sess[c]] = @ /\ sendCancels[sess[c]] # {c}]
    BY <1>b DEF Finish
  <2>2. dropped \in [Sessions -> BOOLEAN]
    BY DEF TypeOK
  <2>. QED  BY <2>1, <2>2, <1>b, Zenon
<1> USE NoneAssumption DEF TypeOK, CallInv, SendPc, SingleFlight, Ownership, DeadInv,
      ReservedWorkerSpared, mgrVars, procVars, callVars, downVars
<1>1. ASSUME NEW c \in Calls, NEW s \in Sessions, Send(c, s) PROVE ReservedWorkerSpared'
  BY <1>1 DEF Send
<1>2. ASSUME NEW c \in Calls, NEW s \in Sessions, NEW o \in {"ensure", "model"}, Use(c, s, o)
      PROVE  ReservedWorkerSpared'
  BY <1>2 DEF Use
<1>3. ASSUME NEW c \in Calls, NEW s \in Sessions, Abort(c, s)
      PROVE  ReservedWorkerSpared'
  <2>1. \A x \in Sessions : dropped[x] => dropped'[x]
    BY <1>3, <1>a
  <2>. QED  BY <1>3, <2>1 DEF Abort
<1>4. ASSUME NEW c \in Calls, NEW w \in Procs, FactorySpawn(c, w)
      PROVE  ReservedWorkerSpared'
  BY <1>4 DEF FactorySpawn
<1>5. ASSUME NEW c \in Calls, NEW t \in Calls, CancelOne(c, t)
      PROVE  ReservedWorkerSpared'
  BY <1>5 DEF CancelOne
<1>6. ASSUME NEW c \in Calls, CheckReserved(c) PROVE ReservedWorkerSpared'
  BY <1>6 DEF CheckReserved
<1>7. ASSUME NEW c \in Calls, CallerCancels(c) PROVE ReservedWorkerSpared'
  BY <1>7 DEF CallerCancels
<1>8. ASSUME NEW c \in Calls, CheckHeld(c) PROVE ReservedWorkerSpared'
  BY <1>8 DEF CheckHeld
<1>9. ASSUME NEW c \in Calls, PromptStart(c) PROVE ReservedWorkerSpared'
  BY <1>9 DEF PromptStart
<1>10. ASSUME NEW c \in Calls, PromptAck(c) PROVE ReservedWorkerSpared'
  BY <1>10 DEF PromptAck
<1>11. ASSUME NEW c \in Calls, PromptFail(c) PROVE ReservedWorkerSpared'
  BY <1>11 DEF PromptFail
<1>12. ASSUME NEW c \in Calls, Finish(c) PROVE ReservedWorkerSpared'
  <2>1. sendCancels[sess[c]] = InFlight(sess[c]) /\ sess[c] \in Sessions
    BY <1>12 DEF ReservationsAccounted, Finish
  <2>2. ASSUME NEW x \in Sessions, dropped[x], ~dropped'[x]
        PROVE  x = sess[c] /\ InFlight(x) = {c}
    BY <1>12, <2>1, <2>2, <1>b
  <2>3. ASSUME NEW d \in Calls, (op[d] = "send" /\ pc[d] \in SendPc /\ held[d] \in dead)'
        PROVE  dropped'[sess'[d]]
    <3>1. /\ d # c /\ op[d] = "send" /\ pc[d] \in SendPc /\ held[d] \in dead
          /\ sess'[d] = sess[d] /\ sess[d] \in Sessions
      BY <1>12, <2>3 DEF Finish, Forget
    <3>2. dropped[sess[d]] /\ d \in InFlight(sess[d])
      BY <3>1 DEF InFlight
    <3>. QED  BY <3>1, <3>2, <2>2
  <2>. QED  BY <2>3
<1>13. ASSUME NEW c \in Calls, Return(c) PROVE ReservedWorkerSpared'
  BY <1>13 DEF Return, Forget
<1>14. ASSUME NEW c \in Calls, LookupClosed(c) PROVE ReservedWorkerSpared'
  BY <1>14 DEF LookupClosed
<1>15. ASSUME NEW c \in Calls, LookupHit(c) PROVE ReservedWorkerSpared'
  BY <1>15 DEF LookupHit
<1>16. ASSUME NEW c \in Calls, LookupEvict(c) PROVE ReservedWorkerSpared'
  BY <1>16 DEF LookupEvict
<1>17. ASSUME NEW c \in Calls, EvictClose(c) PROVE ReservedWorkerSpared'
  BY <1>17 DEF EvictClose
<1>18. ASSUME NEW c \in Calls, LookupWait(c) PROVE ReservedWorkerSpared'
  BY <1>18 DEF LookupWait
<1>19. ASSUME NEW c \in Calls, LookupCreate(c) PROVE ReservedWorkerSpared'
  BY <1>19 DEF LookupCreate
<1>20. ASSUME NEW c \in Calls, FactoryFail(c) PROVE ReservedWorkerSpared'
  BY <1>20 DEF FactoryFail
<1>21. ASSUME NEW c \in Calls, PublishClosed(c) PROVE ReservedWorkerSpared'
  BY <1>21 DEF PublishClosed, Waiters
<1>22. ASSUME NEW c \in Calls, LateClose(c) PROVE ReservedWorkerSpared'
  BY <1>22 DEF LateClose
<1>23. ASSUME NEW c \in Calls, PublishFailed(c) PROVE ReservedWorkerSpared'
  BY <1>23 DEF PublishFailed, Waiters
<1>24. ASSUME NEW c \in Calls, PublishWorker(c) PROVE ReservedWorkerSpared'
  BY <1>24 DEF PublishWorker, Waiters
<1>25. ASSUME NEW c \in Calls, UseReturn(c) PROVE ReservedWorkerSpared'
  BY <1>25 DEF UseReturn
<1>26. ASSUME NEW c \in Calls, CancelledAll(c) PROVE ReservedWorkerSpared'
  BY <1>26 DEF CancelledAll
<1>27. ASSUME NEW c \in Calls, AbortReturn(c) PROVE ReservedWorkerSpared'
  BY <1>27 DEF AbortReturn
<1>28. ASSUME NEW w \in Procs, RunEnds(w) PROVE ReservedWorkerSpared'
  BY <1>28 DEF RunEnds
<1>29. ASSUME NEW w \in Procs, StreamActivity(w) PROVE ReservedWorkerSpared'
  BY <1>29 DEF StreamActivity
<1>30. ASSUME NEW w \in Procs, Exit(w) PROVE ReservedWorkerSpared'
  BY <1>30 DEF Exit
<1>31. ASSUME NEW w \in Procs, ReapClose(w) PROVE ReservedWorkerSpared'
  BY <1>31 DEF ReapClose
<1>32. ASSUME NEW w \in Procs, CloseWorker(w) PROVE ReservedWorkerSpared'
  BY <1>32 DEF CloseWorker
<1>33. ASSUME ReapOnce PROVE ReservedWorkerSpared'
  <2>1. ASSUME NEW s \in Unreserved, ~dropped[s] PROVE InFlight(s) = {}
    <3>1. s \in Sessions /\ pendingSends[s] = 0 /\ InFlight(s) \subseteq Calls
      BY DEF Unreserved, InFlight
    <3>2. Cardinality(InFlight(s)) = 0
      BY <2>1, <3>1 DEF ReservationsAccounted
    <3>. QED  BY <3>1, <3>2, CallsAssumption, FS_Subset, FS_EmptySet
  <2>2. ASSUME NEW d \in Calls, (op[d] = "send" /\ pc[d] \in SendPc /\ held[d] \in dead)'
        PROVE  dropped'[sess'[d]]
    <3>1. PICK s \in Unreserved : held[d] = workers[s]
      BY <1>33, <2>2 DEF ReapOnce, Failed, Expirable
    <3>2. s \in Sessions /\ s = sess[d] /\ op[d] = "send" /\ pc[d] \in SendPc
      BY <1>33, <2>2, <3>1 DEF ReapOnce, Unreserved
    <3>3. d \in InFlight(s)
      BY <3>2 DEF InFlight
    <3>4. dropped[s]
      BY <3>3, <2>1
    <3>. QED  BY <1>33, <3>2, <3>4 DEF ReapOnce
  <2>. QED  BY <2>2
<1>34. ASSUME ReaperExits PROVE ReservedWorkerSpared'
  BY <1>34 DEF ReaperExits
<1>35. ASSUME CloseStopsReaper PROVE ReservedWorkerSpared'
  BY <1>35 DEF CloseStopsReaper
<1>36. ASSUME CloseMarks PROVE ReservedWorkerSpared'
  BY <1>36 DEF CloseMarks
<1>37. ASSUME CloseCollects PROVE ReservedWorkerSpared'
  BY <1>37 DEF CloseCollects, Published
<1>38. ASSUME CloseReturns PROVE ReservedWorkerSpared'
  BY <1>38 DEF CloseReturns
<1> HIDE DEF TypeOK, CallInv, SendPc, SingleFlight, Ownership, DeadInv, ReservedWorkerSpared, mgrVars, procVars, callVars, downVars
<1>39. ASSUME NEW c \in Calls, CallNext(c) PROVE ReservedWorkerSpared'
  BY <1>1, <1>2, <1>3, <1>4, <1>5, <1>6, <1>7, <1>8, <1>9, <1>10, <1>11, <1>12, <1>13,
     <1>14, <1>15, <1>16, <1>17, <1>18, <1>19, <1>20, <1>21, <1>22, <1>23, <1>24, <1>25,
     <1>26, <1>27, <1>39
     DEF CallNext, Begin, Proceed
<1>40. CASE Shutdown
  BY <1>31, <1>32, <1>34, <1>36, <1>37, <1>38, <1>40 DEF Shutdown
<1>41. QED
  BY <1>28, <1>29, <1>30, <1>33, <1>35, <1>39, <1>40 DEF Next, ProcNext

-----------------------------------------------------------------------------
LEMMA InitInv == Init => IInv
<1> SUFFICES ASSUME Init PROVE IInv
  OBVIOUS
<1>1. TypeOK
  BY DEF Init, TypeOK, SendPc
<1>2. CallInv
  BY DEF Init, CallInv
<1>3. ReservationsAccounted
  <2>1. ASSUME NEW s \in Sessions PROVE InFlight(s) = {} /\ Cardinality(InFlight(s)) = 0
    <3>1. InFlight(s) = {}
      BY DEF Init, InFlight
    <3>. QED  BY <3>1, FS_EmptySet
  <2>. QED  BY <2>1 DEF Init, ReservationsAccounted
<1>4. WorkerInv
  BY NoneAssumption DEF Init, WorkerInv, SingleFlight, Ownership, CloserInv, DeadInv,
     NoWorkerLeaked, Live, ReservedWorkerSpared
<1>. QED  BY <1>1, <1>2, <1>3, <1>4 DEF IInv

LEMMA StutterInv == IInv /\ UNCHANGED vars => IInv'
<1> SUFFICES ASSUME IInv, UNCHANGED vars PROVE IInv'
  OBVIOUS
<1> USE DEF IInv, vars, mgrVars, procVars, callVars, downVars
<1>1. TypeOK' /\ CallInv'
  BY DEF TypeOK, CallInv
<1>2. ReservationsAccounted'
  BY DEF ReservationsAccounted, InFlight
<1>3. SingleFlight' /\ Ownership' /\ CloserInv' /\ DeadInv'
  BY DEF WorkerInv, SingleFlight, Ownership, CloserInv, DeadInv
<1>4. NoWorkerLeaked' /\ ReservedWorkerSpared'
  BY DEF WorkerInv, NoWorkerLeaked, ReservedWorkerSpared, Live, Doomed
<1>. QED  BY <1>1, <1>2, <1>3, <1>4 DEF WorkerInv

\* IInv holds in every reachable state.
THEOREM Invariance == Spec => []IInv
<1>1. IInv /\ [Next]_vars => IInv'
  <2>1. ASSUME IInv, Next PROVE IInv'
    BY <2>1, TypeStep, AccountStep, FlightStep, OwnershipStep, LeakStep, DeadStep,
       SparedStep DEF IInv, WorkerInv
  <2>. QED  BY <2>1, StutterInv
<1>. QED  BY <1>1, InitInv, PTL DEF Spec

\* Every variable keeps its shape; pendingSends never goes below zero.
THEOREM TypeCorrect == Spec => []TypeOK
<1>1. IInv => TypeOK
  BY DEF IInv
<1>. QED  BY <1>1, Invariance, PTL

\* No reservation outlives its Send, and the count of a session is exact unless an
\* abort deleted it (Send, manager.go:192-219; AbortExisting, 359-377).
THEOREM ReservationsNeverLeak == Spec => []ReservationsAccounted
<1>1. IInv => ReservationsAccounted
  BY DEF IInv
<1>. QED  BY <1>1, Invariance, PTL

\* reapOnce does not close the worker under a reserved Send (manager.go:159-190).
THEOREM ReaperSpares == Spec => []ReservedWorkerSpared
<1>1. IInv => ReservedWorkerSpared
  BY DEF IInv, WorkerInv
<1>. QED  BY <1>1, Invariance, PTL

\* No worker is lost without Close() having been called or about to be.
THEOREM NoLeak == Spec => []NoWorkerLeaked
<1>1. IInv => NoWorkerLeaked
  BY DEF IInv, WorkerInv
<1>. QED  BY <1>1, Invariance, PTL

\* Two workers of a session in use would both be published, or one published
\* while the other is created, or both created by the one call m.creating holds.
THEOREM SingleWorker == Spec => []OneWorkerPerSession
<1>1. ASSUME IInv PROVE OneWorkerPerSession
  <2>1. ASSUME NEW v \in Procs, NEW w \in Procs, Live(v), Live(w), owner[v] = owner[w]
        PROVE  v = w
    <3>1. owner[v] \in Sessions
      BY <1>1, <2>1 DEF IInv, TypeOK, Live
    <3>2. ASSUME NEW u \in {v, w}
          PROVE  \/ workers[owner[v]] = u
                 \/ creating[owner[v]] \in Calls /\ held[creating[owner[v]]] = u
                    /\ workers[owner[v]] = None
      <4>1. CASE workers[owner[u]] = u
        BY <4>1, <2>1
      <4>2. ASSUME NEW c \in Calls, pc[c] = "publish", held[c] = u
            PROVE  /\ creating[owner[v]] = c
                   /\ workers[owner[v]] = None
        <5>1. u # None /\ owner[u] = owner[v]
          BY <2>1, NoneAssumption
        <5>2. sess[c] = owner[v]
          BY <1>1, <4>2, <5>1 DEF IInv, WorkerInv, Ownership
        <5>. QED  BY <1>1, <3>1, <4>2, <5>2, NoneAssumption
                  DEF IInv, WorkerInv, SingleFlight
      <4>. QED  BY <1>1, <2>1, <4>1, <4>2 DEF IInv, WorkerInv, NoWorkerLeaked
    <3>. QED  BY <3>2, NoneAssumption
  <2>. QED  BY <2>1 DEF OneWorkerPerSession
<1>. QED  BY <1>1, Invariance, PTL

\* A worker alive after Close would be published or in a creation, and Close took
\* the former and waited for the latter (manager.go:384-416, 453-463).
THEOREM CloseIsComplete == Spec => []CloseLeavesNothing
<1>1. ASSUME IInv PROVE CloseLeavesNothing
  <2>1. ASSUME closer = "done"
        PROVE  /\ \A s \in Sessions : workers[s] = None /\ creating[s] = None
               /\ \A c \in Calls : pc[c] # "publish"
    <3>1. \A s \in Sessions : workers[s] = None /\ creating[s] = None
      BY <1>1, <2>1 DEF IInv, WorkerInv, CloserInv
    <3>. QED  BY <1>1, <3>1, NoneAssumption DEF IInv, CallInv, WorkerInv, SingleFlight
  <2>2. ASSUME closer = "done", NEW w \in Procs, owner[w] # None, w \notin shut
        PROVE  Doomed(w)
    <3>1. owner[w] \in Sessions
      BY <1>1, <2>2 DEF IInv, TypeOK
    <3>. QED  BY <1>1, <2>1, <2>2, <3>1, NoneAssumption
              DEF IInv, WorkerInv, NoWorkerLeaked, Live
  <2>. QED  BY <2>1, <2>2 DEF CloseLeavesNothing
<1>. QED  BY <1>1, Invariance, PTL

\* A call that waits on call.done waits for a creation of its own session that is
\* still in flight, in a call that has its factory to run or its outcome to publish:
\* no wakeup is lost between the lookup and the publication, which is what leaves
\* CallsReturn to fairness alone (workerFor, manager.go:418-477).
THEOREM NoWaitLost == Spec => []WaitersHaveCreator
<1>1. Init => Waiting
  BY DEF Init, Waiting
<1>2. IInv /\ Waiting /\ [Next]_vars => Waiting'
  <2>1. ASSUME IInv, Waiting, Next PROVE Waiting'
    BY <2>1, WaitStep DEF IInv, WorkerInv
  <2>2. ASSUME Waiting, UNCHANGED vars PROVE Waiting'
    BY <2>2 DEF Waiting, vars, mgrVars, callVars
  <2>. QED  BY <2>1, <2>2
<1>3. ASSUME IInv, Waiting PROVE WaitersHaveCreator
  <2>1. ASSUME NEW c \in Calls, pc[c] = "wait"
        PROVE  \E d \in Calls : /\ creating[sess[c]] = d /\ sess[d] = sess[c]
                                /\ pc[d] \in {"factory", "publish"}
    <3>1. sess[c] \in Sessions /\ creating[sess[c]] # None
      BY <1>3, <2>1 DEF IInv, CallInv, Waiting
    <3>2. creating[sess[c]] \in Calls
      BY <1>3, <3>1 DEF IInv, TypeOK
    <3>. QED  BY <1>3, <3>1, <3>2 DEF IInv, WorkerInv, SingleFlight
  <2>. QED  BY <2>1 DEF WaitersHaveCreator
<1>. QED  BY <1>1, <1>2, <1>3, Invariance, PTL DEF Spec
=============================================================================
