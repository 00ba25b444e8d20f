------------------------- MODULE QueueDrainerProofs -------------------------
(****************************************************************************)
(* What holds of QueueDrainer for every number of sessions, messages, tabs, *)
(* kicks, crashes and runs, proved.  A step is one of six things to a       *)
(* message: nothing, queued, asked for, claimed, one stage further, or      *)
(* interrupted by a crash; the invariants and the refinement of             *)
(* MessageDelivery are both argued from these.                              *)
(****************************************************************************)
EXTENDS QueueDrainer, FiniteSetTheorems, WellFoundedInduction, TLAPS

Owned(by, s, p) == send[by][s][p] \notin {"none", "asked"}

\* A position is owned by one sender if it was handed out and is not queued,
\* and by none otherwise.
OwnerInv ==
  \A s \in Sessions, p \in Positions :
    /\ p \in rows[s] => p < nextPos[s]
    /\ \A by \in Senders : send[by][s][p] # "none" => p < nextPos[s]
    /\ (\E by \in Senders : Owned(by, s, p)) <=> p < nextPos[s] /\ p \notin rows[s]
    /\ \A by, other \in Senders : Owned(by, s, p) /\ Owned(other, s, p) => by = other

\* The drainer asks for nothing, and takes positions in order.
OrderInv ==
  /\ \A s \in Sessions, p \in Positions : send[Drainer][s][p] # "asked"
  /\ DrainedInOrder

\* While the drainer looks at a session it has taken nothing since the pause.
PauseInv ==
  /\ PauseHolds
  /\ dpc \in {"status", "worker", "pop"} /\ paused[cur] => popsInPause[cur] = 0

IInv == TypeOK /\ OwnerInv /\ OrderInv /\ PauseInv

-----------------------------------------------------------------------------
(* The head of a queue.                                                     *)

Less == {pair \in Nat \X Nat : pair[1] < pair[2]}

LEMMA LessIsWellFounded == IsWellFoundedOn(Less, Nat)
<1>1. Less = OpToRel(<, Nat)
  BY DEF OpToRel, Less
<1>2. QED
  BY <1>1, NatLessThanWellFounded

\* A queue that is not empty has a least position, which PopHead takes.
LEMMA HeadIsLeast ==
  ASSUME NEW Q \in SUBSET Positions, Q # {}
  PROVE  Min(Q) \in Q /\ \A q \in Q : Min(Q) <= q
<1>1. Q \subseteq Nat
  BY MaxItemsAssumption DEF Positions
<1>2. PICK x \in Q : \A y \in Q : ~(<<y, x>> \in Less)
  BY <1>1, WFMin, LessIsWellFounded
<1>3. ASSUME NEW y \in Q PROVE x <= y
  <2>1. <<y, x>> \in Nat \X Nat /\ <<y, x>> \notin Less
    BY <1>1, <1>2
  <2>2. ~(y < x)
    BY <2>1 DEF Less
  <2>3. QED
    BY <1>1, <2>2
<1>4. QED
  BY <1>3 DEF Min

-----------------------------------------------------------------------------
(* Types.                                                                   *)

\* A kick leaves a channel of sessions, never fuller than it is deep.
LEMMA KickFits ==
  ASSUME TypeOK, NEW s \in Sessions, Kick(s)
  PROVE  kicks' \in Seq(Sessions) /\ Len(kicks') <= KickCap
<1>0. kicks \in Seq(Sessions) /\ Len(kicks) \in Nat /\ Len(kicks) <= KickCap /\ KickCap \in Nat
  BY BoundsAssumption DEF TypeOK
<1>1. CASE Len(kicks) < KickCap
  <2>1. kicks' = Append(kicks, s)
    BY <1>1 DEF Kick
  <2>2. Len(kicks') = Len(kicks) + 1 /\ kicks' \in Seq(Sessions)
    BY <1>0, <2>1
  <2>3. QED
    BY <1>0, <1>1, <2>2
<1>2. CASE ~(Len(kicks) < KickCap)
  <2>1. kicks' = kicks
    BY <1>2 DEF Kick
  <2>2. QED
    BY <1>0, <2>1
<1>3. QED
  BY <1>1, <1>2

\* A row added to a queue has a position of the queue, and so has the next one.
LEMMA AddFits ==
  ASSUME StoreTypeOK, NEW s \in Sessions, Add(s) PROVE StoreTypeOK'
<1>0. MaxItems \in Nat /\ nextPos[s] \in Nat /\ nextPos[s] >= 1 /\ nextPos[s] <= MaxItems
  BY MaxItemsAssumption DEF StoreTypeOK, Add, Positions
<1>1. nextPos[s] \in Positions /\ nextPos[s] + 1 \in 1..(MaxItems + 1)
  BY <1>0 DEF Positions
<1>2. rows[s] \cup {nextPos[s]} \in SUBSET Positions
  BY <1>1 DEF StoreTypeOK
<1>3. rows' \in [Sessions -> SUBSET Positions]
  BY <1>2 DEF StoreTypeOK, Add
<1>4. nextPos' \in [Sessions -> 1..(MaxItems + 1)]
  BY <1>1 DEF StoreTypeOK, Add
<1>5. QED
  BY <1>3, <1>4 DEF StoreTypeOK, Add

LEMMA TypeStep == ASSUME TypeOK, Next PROVE TypeOK'
<1> USE MaxItemsAssumption, BoundsAssumption
    DEF TypeOK, StoreTypeOK, Stages, Senders, Positions, storeVars, drainVars, senderVars, Set
<1>1. ASSUME NEW s \in Sessions, HandlePost(s) PROVE TypeOK'
  <2>1. kicks' \in Seq(Sessions) /\ Len(kicks') <= KickCap
    BY <1>1, KickFits DEF HandlePost
  <2>2. StoreTypeOK'
    BY <1>1, AddFits DEF HandlePost
  <2>3. QED
    BY <1>1, <2>1, <2>2 DEF HandlePost
<1>2. ASSUME NEW s \in Sessions, NEW flag \in BOOLEAN, HandlePatch(s, flag) PROVE TypeOK'
  BY <1>2 DEF HandlePatch, SetPaused, Kick
<1>3. ASSUME NEW t \in Tabs, NEW s \in Sessions, NEW p \in Positions, AskRow(t, s, p) PROVE TypeOK'
  BY <1>3 DEF AskRow
<1>4. ASSUME NEW t \in Tabs, NEW s \in Sessions, NEW p \in Positions, HandleDelete(t, s, p)
      PROVE  TypeOK'
  <2>1. kicks' \in Seq(Sessions) /\ Len(kicks') <= KickCap
    BY <1>4, KickFits DEF HandleDelete
  <2>2. rows' \in [Sessions -> SUBSET Positions] /\ UNCHANGED <<nextPos, paused>>
    BY <1>4 DEF HandleDelete, Remove
  <2>3. send' \in [Senders -> [Sessions -> [Positions -> Stages]]]
    <3>1. Claim(s, p) \in Stages
      BY DEF Claim
    <3>2. QED
      BY <1>4, <3>1 DEF HandleDelete
  <2>4. QED
    BY <1>4, <2>1, <2>2, <2>3 DEF HandleDelete
<1>5. ASSUME NEW t \in Tabs, NEW s \in Sessions, NEW p \in Positions, RequestFails(t, s, p)
      PROVE  TypeOK'
  BY <1>5 DEF RequestFails
<1>6. ASSUME NEW t \in Tabs, NEW s \in Sessions, NEW p \in Positions, HandleChat(t, s, p)
      PROVE  TypeOK'
  BY <1>6 DEF HandleChat
<1>7. ASSUME NEW by \in Senders, NEW s \in Sessions, NEW p \in Positions, Sending(by, s, p)
      PROVE  TypeOK'
  <2>1. CASE Reserve(by, s, p)
    BY <2>1 DEF Reserve
  <2>2. CASE Land(by, s, p)
    BY <2>2 DEF Land
  <2>3. CASE SendFails(by, s, p)
    BY <2>3 DEF SendFails
  <2>4. QED
    BY <1>7, <2>1, <2>2, <2>3 DEF Sending
<1>8. ASSUME NEW s \in Sessions, OtherRun(s) \/ RunEnds(s) \/ ReadyChanges(s) PROVE TypeOK'
  <2>1. CASE OtherRun(s)
    BY <2>1 DEF OtherRun
  <2>2. CASE RunEnds(s)
    <3>1. kicks' \in Seq(Sessions) /\ Len(kicks') <= KickCap
      <4>1. CASE Kick(s)
        BY <4>1 DEF Kick
      <4>2. CASE UNCHANGED kicks
        BY <4>2
      <4>3. QED
        BY <2>2, <4>1, <4>2 DEF RunEnds
    <3>2. running' \in [Sessions -> BOOLEAN]
      BY <2>2 DEF RunEnds
    <3>3. QED
      BY <2>2, <3>1, <3>2 DEF RunEnds
  <2>3. CASE ReadyChanges(s)
    BY <2>3 DEF ReadyChanges
  <2>4. QED
    BY <1>8, <2>1, <2>2, <2>3
<1>9. CASE DrainAll \/ VisitedAll \/ StatusPending \/ StatusWorker \/ NothingToPop
  BY <1>9 DEF DrainAll, VisitedAll, StatusPending, StatusWorker, NothingToPop, SessionsWithItems, Reserved
<1>10. CASE TakeKick
  BY <1>10 DEF TakeKick
<1>11. ASSUME NEW s \in Sessions, Visit(s) PROVE TypeOK'
  BY <1>11 DEF Visit
<1>12. CASE Pop
  <2>1. HeadPos(cur) \in Positions
    BY <1>12, HeadIsLeast DEF Pop, PopHead, HeadPos
  <2>2. QED
    BY <1>12, <2>1 DEF Pop, PopHead
<1>13. CASE Spawn
  BY <1>13 DEF Spawn
<1>14. CASE Crash
  BY <1>14 DEF Crash, Interrupted
<1>15. QED
  BY <1>1, <1>2, <1>3, <1>4, <1>5, <1>6, <1>7, <1>8, <1>9, <1>10, <1>11, <1>12, <1>13, <1>14
     DEF Next, Loop

-----------------------------------------------------------------------------
(* What a step is to the messages.                                          *)

Quiet == UNCHANGED <<rows, nextPos, send>>

Enqueued(s) ==
  /\ nextPos[s] \in Positions
  /\ rows' = [rows EXCEPT ![s] = @ \cup {nextPos[s]}]
  /\ nextPos' = [nextPos EXCEPT ![s] = @ + 1]
  /\ UNCHANGED send

\* A tab asks, is refused, or loses its request.
Asked(t, s, p) ==
  /\ p < nextPos[s] /\ ~Owned(t, s, p)
  /\ \E stage \in {"none", "asked"} : Set(t, s, p, stage)
  /\ UNCHANGED <<rows, nextPos>>

Taken(by, s, p) ==
  /\ p \in rows[s]
  /\ by = Drainer => \A q \in rows[s] : p <= q
  /\ rows' = [rows EXCEPT ![s] = @ \ {p}]
  /\ Set(by, s, p, "claimed")
  /\ UNCHANGED nextPos

Advances ==
  {<<"claimed", "spawned">>, <<"claimed", "lost">>, <<"spawned", "reserved">>,
   <<"reserved", "landed">>, <<"reserved", "lost">>}

Advanced(by, s, p) ==
  /\ \E stage : <<send[by][s][p], stage>> \in Advances /\ Set(by, s, p, stage)
  /\ UNCHANGED <<rows, nextPos>>

Died ==
  /\ send' = [by \in Senders |-> [s \in Sessions |-> [p \in Positions |->
                Interrupted(by, send[by][s][p])]]]
  /\ UNCHANGED <<rows, nextPos>>

Effect ==
  \/ Quiet \/ Died
  \/ \E s \in Sessions :
       \/ Enqueued(s)
       \/ \E p \in Positions :
            \/ \E t \in Tabs : Asked(t, s, p)
            \/ \E by \in Senders : Taken(by, s, p) \/ Advanced(by, s, p)

LEMMA StepEffect == ASSUME TypeOK, OwnerInv, [Next]_vars PROVE Effect
<1> USE DEF Senders, storeVars, drainVars, senderVars
<1>1. ASSUME NEW s \in Sessions, HandlePost(s) PROVE Effect
  BY <1>1 DEF HandlePost, Add, Enqueued, Effect
<1>2. ASSUME NEW s \in Sessions, NEW flag \in BOOLEAN, HandlePatch(s, flag) PROVE Effect
  BY <1>2 DEF HandlePatch, SetPaused, Quiet, Effect
<1>3. ASSUME NEW t \in Tabs, NEW s \in Sessions, NEW p \in Positions, AskRow(t, s, p) PROVE Effect
  <2>1. Asked(t, s, p)
    BY <1>3 DEF AskRow, Asked, Owned
  <2>2. QED
    BY <2>1 DEF Effect
<1>4. ASSUME NEW t \in Tabs, NEW s \in Sessions, NEW p \in Positions, HandleDelete(t, s, p)
      PROVE  Effect
  <2>1. CASE p \in rows[s]
    <3>1. t # Drainer
      BY DrainerAssumption
    <3>2. Taken(t, s, p)
      BY <1>4, <2>1, <3>1 DEF HandleDelete, Remove, Claim, Removed, Taken
    <3>3. QED
      BY <3>2 DEF Effect
  <2>2. CASE p \notin rows[s]
    <3>1. rows' = rows
      BY <1>4, <2>2 DEF HandleDelete, Remove, TypeOK, StoreTypeOK
    <3>2. Asked(t, s, p)
      BY <1>4, <2>2, <3>1 DEF HandleDelete, Remove, Claim, Removed, Asked, Owned, OwnerInv
    <3>3. QED
      BY <3>2 DEF Effect
  <2>3. QED
    BY <2>1, <2>2
<1>5. ASSUME NEW t \in Tabs, NEW s \in Sessions, NEW p \in Positions, RequestFails(t, s, p)
      PROVE  Effect
  <2>1. Asked(t, s, p)
    BY <1>5 DEF RequestFails, Asked, Owned, OwnerInv
  <2>2. QED
    BY <2>1 DEF Effect
<1>6. ASSUME NEW t \in Tabs, NEW s \in Sessions, NEW p \in Positions, HandleChat(t, s, p)
      PROVE  Effect
  <2>1. Advanced(t, s, p)
    BY <1>6 DEF HandleChat, Advanced, Advances
  <2>2. QED
    BY <2>1 DEF Effect
<1>7. ASSUME NEW by \in Senders, NEW s \in Sessions, NEW p \in Positions, Sending(by, s, p)
      PROVE  Effect
  <2>1. Advanced(by, s, p)
    BY <1>7 DEF Sending, Reserve, Land, SendFails, Advanced, Advances
  <2>2. QED
    BY <2>1 DEF Effect
<1>8. ASSUME NEW s \in Sessions, OtherRun(s) \/ RunEnds(s) \/ ReadyChanges(s) PROVE Effect
  BY <1>8 DEF OtherRun, RunEnds, ReadyChanges, Quiet, Effect
<1>9. CASE DrainAll \/ VisitedAll \/ StatusPending \/ StatusWorker \/ NothingToPop \/ TakeKick
           \/ UNCHANGED vars
  BY <1>9 DEF DrainAll, VisitedAll, StatusPending, StatusWorker, NothingToPop, TakeKick, vars,
       Quiet, Effect
<1>10. ASSUME NEW s \in Sessions, Visit(s) PROVE Effect
  BY <1>10 DEF Visit, Quiet, Effect
<1>11. CASE Pop
  <2>1. cur \in Sessions /\ rows[cur] \in SUBSET Positions /\ rows[cur] # {}
    BY <1>11 DEF Pop, PopHead, TypeOK, StoreTypeOK
  <2>2. HeadPos(cur) \in rows[cur] /\ \A q \in rows[cur] : HeadPos(cur) <= q
    BY <2>1, HeadIsLeast DEF HeadPos
  <2>3. Taken(Drainer, cur, HeadPos(cur))
    BY <1>11, <2>2 DEF Pop, PopHead, Taken
  <2>4. QED
    BY <2>1, <2>2, <2>3 DEF Effect
<1>12. CASE Spawn
  <2>1. PICK p \in Positions : send[Drainer][cur][p] = "claimed" /\ Set(Drainer, cur, p, "spawned")
    BY <1>12 DEF Spawn
  <2>2. Advanced(Drainer, cur, p) /\ cur \in Sessions
    BY <1>12, <2>1 DEF Spawn, Advanced, Advances, TypeOK
  <2>3. QED
    BY <2>2 DEF Effect
<1>13. CASE Crash
  BY <1>13 DEF Crash, Died, Effect
<1>14. QED
  BY <1>1, <1>2, <1>3, <1>4, <1>5, <1>6, <1>7, <1>8, <1>9, <1>10, <1>11, <1>12, <1>13 DEF Next, Loop

-----------------------------------------------------------------------------
(* Ownership and order.                                                     *)

\* Set changes one stage of one message.
LEMMA SetOne ==
  ASSUME TypeOK, NEW by \in Senders, NEW s \in Sessions, NEW p \in Positions, NEW stage,
         Set(by, s, p, stage)
  PROVE  /\ send'[by][s][p] = stage
         /\ \A other \in Senders, r \in Sessions, q \in Positions :
              <<other, r, q>> # <<by, s, p>> => send'[other][r][q] = send[other][r][q]
<1>1. send \in [Senders -> [Sessions -> [Positions -> Stages]]]
  BY DEF TypeOK
<1>2. send' = [send EXCEPT ![by][s][p] = stage]
  BY DEF Set
<1>3. QED
  BY <1>1, <1>2

LEMMA EffectKeepsOwners ==
  ASSUME TypeOK, OwnerInv, OrderInv, Effect PROVE OwnerInv' /\ OrderInv'
<1> USE DEF OwnerInv, OrderInv, DrainedInOrder, Owned
<1>0. /\ Drainer \in Senders /\ Drainer \notin Tabs /\ Tabs \subseteq Senders
      /\ Positions \subseteq Nat
      /\ rows \in [Sessions -> SUBSET Positions]
      /\ nextPos \in [Sessions -> Nat]
  BY DrainerAssumption, MaxItemsAssumption DEF Senders, Positions, TypeOK, StoreTypeOK
<1>1. CASE Quiet
  BY <1>1 DEF Quiet
<1>2. CASE Died
  <2>1. \A by \in Senders, s \in Sessions, p \in Positions :
          send'[by][s][p] = Interrupted(by, send[by][s][p])
    BY <1>2 DEF Died
  <2>2. \A by \in Senders, s \in Sessions, p \in Positions :
          /\ Owned(by, s, p) <=> Owned(by, s, p)'
          /\ send'[by][s][p] = "none" <=> send[by][s][p] = "none"
          /\ send'[by][s][p] = "asked" <=> send[by][s][p] = "asked"
    BY <2>1 DEF Interrupted
  <2>3. UNCHANGED <<rows, nextPos>>
    BY <1>2 DEF Died
  <2>4. QED
    BY <1>0, <2>2, <2>3
<1>3. ASSUME NEW s \in Sessions, Enqueued(s) PROVE OwnerInv' /\ OrderInv'
  <2>1. /\ rows'[s] = rows[s] \cup {nextPos[s]} /\ nextPos'[s] = nextPos[s] + 1
        /\ \A r \in Sessions \ {s} : rows'[r] = rows[r] /\ nextPos'[r] = nextPos[r]
        /\ send' = send
    BY <1>0, <1>3 DEF Enqueued
  <2>2. OwnerInv'
    BY <1>0, <2>1
  <2>3. OrderInv'
    <3>1. ASSUME NEW r \in Sessions, NEW p \in Positions, send[Drainer][r][p] # "none",
                 NEW q \in rows'[r]
          PROVE  p < q
      <4>1. CASE q \in rows[r]
        BY <1>0, <3>1, <4>1
      <4>2. CASE q \notin rows[r]
        BY <1>0, <2>1, <3>1, <4>2
      <4>3. QED
        BY <4>1, <4>2
    <3>2. QED
      BY <1>0, <2>1, <3>1
  <2>4. QED
    BY <2>2, <2>3
<1>4. ASSUME NEW t \in Tabs, NEW s \in Sessions, NEW p \in Positions, Asked(t, s, p)
      PROVE  OwnerInv' /\ OrderInv'
  <2>1. PICK stage \in {"none", "asked"} : Set(t, s, p, stage)
    BY <1>4 DEF Asked
  <2>2. /\ send'[t][s][p] = stage
        /\ \A other \in Senders, r \in Sessions, q \in Positions :
             <<other, r, q>> # <<t, s, p>> => send'[other][r][q] = send[other][r][q]
    BY <1>0, <2>1, SetOne
  <2>3. /\ UNCHANGED <<rows, nextPos>> /\ p < nextPos[s] /\ t # Drainer
        /\ send[t][s][p] \in {"none", "asked"}
    BY <1>0, <1>4 DEF Asked
  <2>4. \A other \in Senders, r \in Sessions, q \in Positions :
          Owned(other, r, q) <=> Owned(other, r, q)'
    BY <2>2, <2>3
  <2>5. \A other \in Senders, r \in Sessions, q \in Positions :
          send'[other][r][q] # "none" => q < nextPos[r]
    BY <2>2, <2>3
  <2>6. OwnerInv'
    BY <2>3, <2>4, <2>5
  <2>7. OrderInv'
    BY <1>0, <2>2, <2>3
  <2>8. QED
    BY <2>6, <2>7
<1>5. ASSUME NEW by \in Senders, NEW s \in Sessions, NEW p \in Positions, Taken(by, s, p)
      PROVE  OwnerInv' /\ OrderInv'
  <2>1. /\ send'[by][s][p] = "claimed"
        /\ \A other \in Senders, r \in Sessions, q \in Positions :
             <<other, r, q>> # <<by, s, p>> => send'[other][r][q] = send[other][r][q]
    BY <1>5, SetOne DEF Taken
  <2>2. /\ rows'[s] = rows[s] \ {p} /\ \A r \in Sessions \ {s} : rows'[r] = rows[r]
        /\ nextPos' = nextPos /\ p \in rows[s] /\ p < nextPos[s]
        /\ by = Drainer => \A q \in rows[s] : p <= q
    BY <1>0, <1>5 DEF Taken
  <2>3. \A other \in Senders : ~Owned(other, s, p)
    BY <2>2
  <2>4. \A other \in Senders, r \in Sessions, q \in Positions :
          Owned(other, r, q)' <=> Owned(other, r, q) \/ <<other, r, q>> = <<by, s, p>>
    BY <2>1
  <2>5. OwnerInv'
    BY <2>1, <2>2, <2>3, <2>4
  <2>6. OrderInv'
    <3>1. ASSUME NEW r \in Sessions, NEW q \in Positions, send'[Drainer][r][q] # "none",
                 NEW o \in rows'[r]
          PROVE  q < o
      <4>1. CASE <<Drainer, r, q>> = <<by, s, p>>
        <5>1. by = Drainer /\ r = s /\ q = p
          BY <4>1
        <5>2. o \in rows[s] \ {p}
          BY <2>2, <5>1
        <5>3. p <= o /\ p # o
          BY <2>2, <5>1, <5>2
        <5>4. p \in Nat /\ o \in Nat
          BY <1>0, <5>2
        <5>5. QED
          BY <5>1, <5>3, <5>4
      <4>2. CASE <<Drainer, r, q>> # <<by, s, p>>
        <5>1. send[Drainer][r][q] # "none"
          BY <1>0, <2>1, <3>1, <4>2
        <5>2. o \in rows[r] /\ o \in Positions
          BY <1>0, <2>2, <3>1
        <5>3. QED
          BY <5>1, <5>2
      <4>3. QED
        BY <4>1, <4>2
    <3>2. QED
      BY <1>0, <2>1, <3>1
  <2>7. QED
    BY <2>5, <2>6
<1>6. ASSUME NEW by \in Senders, NEW s \in Sessions, NEW p \in Positions, Advanced(by, s, p)
      PROVE  OwnerInv' /\ OrderInv'
  <2>1. PICK stage : <<send[by][s][p], stage>> \in Advances /\ Set(by, s, p, stage)
    BY <1>6 DEF Advanced
  <2>2. send[by][s][p] \notin {"none", "asked"} /\ stage \notin {"none", "asked"}
    BY <2>1 DEF Advances
  <2>3. /\ send'[by][s][p] = stage
        /\ \A other \in Senders, r \in Sessions, q \in Positions :
             <<other, r, q>> # <<by, s, p>> => send'[other][r][q] = send[other][r][q]
    BY <2>1, SetOne
  <2>4. /\ UNCHANGED <<rows, nextPos>>
        /\ \A other \in Senders, r \in Sessions, q \in Positions :
             /\ Owned(other, r, q) <=> Owned(other, r, q)'
             /\ send'[other][r][q] = "none" <=> send[other][r][q] = "none"
             /\ send'[other][r][q] = "asked" <=> send[other][r][q] = "asked"
    BY <1>6, <2>2, <2>3 DEF Advanced
  <2>5. QED
    BY <1>0, <2>4
<1>7. QED
  BY <1>1, <1>2, <1>3, <1>4, <1>5, <1>6 DEF Effect

-----------------------------------------------------------------------------
(* The pause.                                                               *)

LEMMA PauseStep == ASSUME TypeOK, PauseInv, [Next]_vars PROVE PauseInv'
<1> USE DEF PauseInv, PauseHolds, TypeOK, StoreTypeOK, storeVars, drainVars, senderVars
<1>1. ASSUME NEW s \in Sessions, HandlePost(s) PROVE PauseInv'
  BY <1>1 DEF HandlePost, Add
<1>2. ASSUME NEW s \in Sessions, NEW flag \in BOOLEAN, HandlePatch(s, flag) PROVE PauseInv'
  BY <1>2 DEF HandlePatch, SetPaused
<1>3. ASSUME NEW t \in Tabs, NEW s \in Sessions, NEW p \in Positions,
             AskRow(t, s, p) \/ HandleDelete(t, s, p) \/ RequestFails(t, s, p) \/ HandleChat(t, s, p)
      PROVE  PauseInv'
  BY <1>3 DEF AskRow, HandleDelete, Remove, RequestFails, HandleChat
<1>4. ASSUME NEW by \in Senders, NEW s \in Sessions, NEW p \in Positions, Sending(by, s, p)
      PROVE  PauseInv'
  BY <1>4 DEF Sending, Reserve, Land, SendFails
<1>5. ASSUME NEW s \in Sessions, OtherRun(s) \/ RunEnds(s) \/ ReadyChanges(s) PROVE PauseInv'
  BY <1>5 DEF OtherRun, RunEnds, ReadyChanges
<1>6. CASE DrainAll \/ VisitedAll \/ StatusPending \/ StatusWorker \/ NothingToPop \/ TakeKick
           \/ UNCHANGED vars
  BY <1>6 DEF DrainAll, VisitedAll, StatusPending, StatusWorker, NothingToPop, TakeKick, vars
<1>7. ASSUME NEW s \in Sessions, Visit(s) PROVE PauseInv'
  BY <1>7 DEF Visit
<1>8. CASE Pop
  BY <1>8 DEF Pop, PopHead
<1>9. CASE Spawn \/ Crash
  BY <1>9 DEF Spawn, Crash
<1>10. QED
  BY <1>1, <1>2, <1>3, <1>4, <1>5, <1>6, <1>7, <1>8, <1>9 DEF Next, Loop

-----------------------------------------------------------------------------
LEMMA InitInv == Init => IInv
<1> SUFFICES ASSUME Init PROVE IInv
  OBVIOUS
<1>1. TypeOK
  <2>1. StoreTypeOK
    BY MaxItemsAssumption DEF Init, StoreInit, StoreTypeOK, Positions
  <2>2. send \in [Senders -> [Sessions -> [Positions -> Stages]]]
    BY DEF Init, Stages
  <2>3. kicks \in Seq(Sessions) /\ Len(kicks) <= KickCap
    BY BoundsAssumption DEF Init
  <2>4. /\ running \in [Sessions -> BOOLEAN] /\ ready \in [Sessions -> BOOLEAN]
        /\ popsInPause \in [Sessions -> Nat]
        /\ crashes \in 0..MaxCrashes /\ runs \in 0..MaxRuns
    BY BoundsAssumption DEF Init
  <2>5. QED
    BY <2>1, <2>2, <2>3, <2>4 DEF Init, TypeOK
<1>2. OwnerInv /\ OrderInv
  BY MaxItemsAssumption DEF Init, StoreInit, OwnerInv, OrderInv, DrainedInOrder, Owned, Positions, Senders
<1>3. PauseInv
  BY DEF Init, StoreInit, PauseInv, PauseHolds
<1>4. QED
  BY <1>1, <1>2, <1>3 DEF IInv

\* The invariant from which the theorems follow holds in every reachable state.
THEOREM Invariance == Spec => []IInv
<1>1. IInv /\ [Next]_vars => IInv'
  <2> SUFFICES ASSUME IInv, [Next]_vars PROVE IInv'
    OBVIOUS
  <2>1. TypeOK'
    <3>1. CASE Next
      BY <3>1, TypeStep DEF IInv
    <3>2. CASE UNCHANGED vars
      BY <3>2 DEF IInv, TypeOK, StoreTypeOK, vars, storeVars, drainVars
    <3>3. QED
      BY <3>1, <3>2
  <2>2. OwnerInv' /\ OrderInv'
    BY StepEffect, EffectKeepsOwners DEF IInv
  <2>3. PauseInv'
    BY PauseStep DEF IInv
  <2>4. QED
    BY <2>1, <2>2, <2>3 DEF IInv
<1>2. QED
  BY <1>1, InitInv, PTL DEF Spec

\* Every variable keeps its type and kickCh its capacity.
THEOREM TypeCorrect == Spec => []TypeOK
  BY Invariance, PTL DEF IInv

\* A message is queued or has one owner: drainer and tabs never both take it.
THEOREM OneClaimant == Spec => []ClaimedOnce
<1>1. ASSUME IInv, NEW s \in Sessions, NEW p \in Positions
      PROVE  Cardinality(Owners(s, p)) = IF p < nextPos[s] /\ p \notin rows[s] THEN 1 ELSE 0
  <2>1. Owners(s, p) = {by \in Senders : Owned(by, s, p)}
    BY DEF Owners, Owned
  <2>2. CASE p < nextPos[s] /\ p \notin rows[s]
    <3>1. PICK by \in Senders : Owned(by, s, p)
      BY <1>1, <2>2 DEF IInv, OwnerInv
    <3>2. Owners(s, p) = {by}
      BY <1>1, <2>1, <3>1 DEF IInv, OwnerInv
    <3>3. QED
      BY <2>2, <3>2, FS_Singleton
  <2>3. CASE ~(p < nextPos[s] /\ p \notin rows[s])
    <3>1. Owners(s, p) = {}
      BY <1>1, <2>1, <2>3 DEF IInv, OwnerInv
    <3>2. QED
      BY <2>3, <3>1, FS_EmptySet
  <2>4. QED
    BY <2>2, <2>3
<1>2. IInv => ClaimedOnce
  BY <1>1 DEF ClaimedOnce
<1>3. QED
  BY <1>2, Invariance, PTL

\* The drainer takes the messages of a session in the order they were queued.
THEOREM InOrder == Spec => []DrainedInOrder
  BY Invariance, PTL DEF IInv, OrderInv

\* A pause lets the drainer take the message it was looking at and no other.
THEOREM PauseIsKept == Spec => []PauseHolds
  BY Invariance, PTL DEF IInv, PauseInv

-----------------------------------------------------------------------------
(* The refinement of MessageDelivery.                                       *)

Messages == Sessions \X Positions
fate == [m \in Messages |-> Fate(m[1], m[2])]
deliveries == [m \in Messages |-> Cardinality(Deliveries(m[1], m[2]))]

StageFate(stage) ==
  IF stage = "landed" THEN "delivered" ELSE IF stage = "lost" THEN "lost" ELSE "claimed"

\* What a message's place in the queue or its owner makes of its fate.
FateFacts ==
  \A s \in Sessions, p \in Positions :
    /\ p \in rows[s] => Fate(s, p) = "queued" /\ Deliveries(s, p) = {}
    /\ p \notin rows[s] /\ p >= nextPos[s] => Fate(s, p) = "absent" /\ Deliveries(s, p) = {}
    /\ \A by \in Senders : Owned(by, s, p) =>
         /\ Fate(s, p) = StageFate(send[by][s][p])
         /\ Deliveries(s, p) = IF send[by][s][p] = "landed" THEN {by} ELSE {}

LEMMA FateIs == IInv => FateFacts
<1> SUFFICES ASSUME IInv, NEW s \in Sessions, NEW p \in Positions
             PROVE  /\ p \in rows[s] => Fate(s, p) = "queued" /\ Deliveries(s, p) = {}
                    /\ p \notin rows[s] /\ p >= nextPos[s] =>
                         Fate(s, p) = "absent" /\ Deliveries(s, p) = {}
                    /\ \A by \in Senders : Owned(by, s, p) =>
                         /\ Fate(s, p) = StageFate(send[by][s][p])
                         /\ Deliveries(s, p) = IF send[by][s][p] = "landed" THEN {by} ELSE {}
  BY DEF FateFacts
<1>0. p \in Nat /\ nextPos[s] \in Nat
  BY MaxItemsAssumption DEF IInv, TypeOK, StoreTypeOK, Positions
<1>1. \A by \in Senders : send[by][s][p] = "landed" => Owned(by, s, p)
  BY DEF Owned
<1>2. ASSUME p \in rows[s] PROVE Fate(s, p) = "queued" /\ Deliveries(s, p) = {}
  BY <1>1, <1>2 DEF IInv, OwnerInv, Fate, Deliveries
<1>3. ASSUME p \notin rows[s], p >= nextPos[s] PROVE Fate(s, p) = "absent" /\ Deliveries(s, p) = {}
  BY <1>0, <1>1, <1>3 DEF IInv, OwnerInv, Fate, Deliveries
<1>4. ASSUME NEW by \in Senders, Owned(by, s, p)
      PROVE  /\ Fate(s, p) = StageFate(send[by][s][p])
             /\ Deliveries(s, p) = IF send[by][s][p] = "landed" THEN {by} ELSE {}
  <2>1. p < nextPos[s] /\ p \notin rows[s]
    BY <1>4 DEF IInv, OwnerInv
  <2>2. \A other \in Senders : other # by => send[other][s][p] \in {"none", "asked"}
    BY <1>4 DEF IInv, OwnerInv, Owned
  <2>3. send[by][s][p] \in {"claimed", "spawned", "reserved", "landed", "lost"}
    BY <1>4 DEF IInv, TypeOK, Owned, Stages
  <2>4. Deliveries(s, p) = IF send[by][s][p] = "landed" THEN {by} ELSE {}
    BY <2>2, <2>3 DEF Deliveries
  <2>5. (\E other \in Senders : send[other][s][p] \in {"claimed", "spawned", "reserved"})
          <=> send[by][s][p] \in {"claimed", "spawned", "reserved"}
    BY <2>2
  <2>6. Deliveries(s, p) # {} <=> send[by][s][p] = "landed"
    BY <2>4
  <2>7. ~(p >= nextPos[s])
    BY <1>0, <2>1
  <2>8. QED
    BY <2>1, <2>3, <2>4, <2>5, <2>6, <2>7 DEF Fate, StageFate
<1>5. QED
  BY <1>2, <1>3, <1>4

LEMMA FateIsNext == IInv' => FateFacts'
  BY FateIs, PTL

\* A message that nothing happens to keeps its fate.
LEMMA FateStays ==
  ASSUME NEW s \in Sessions, NEW p \in Positions,
         p \in rows'[s] <=> p \in rows[s], p >= nextPos'[s] <=> p >= nextPos[s],
         \A by \in Senders : send'[by][s][p] = send[by][s][p]
                            \/ {send'[by][s][p], send[by][s][p]} \subseteq {"none", "asked"}
  PROVE  Fate(s, p)' = Fate(s, p) /\ Deliveries(s, p)' = Deliveries(s, p)
<1>1. Deliveries(s, p)' = Deliveries(s, p)
  BY DEF Deliveries
<1>2. (\E by \in Senders : send[by][s][p] \in {"claimed", "spawned", "reserved"})'
        <=> \E by \in Senders : send[by][s][p] \in {"claimed", "spawned", "reserved"}
  OBVIOUS
<1>3. QED
  BY <1>1, <1>2 DEF Fate

\* One message moves; nothing is delivered.
LEMMA OneMoves ==
  ASSUME NEW s \in Sessions, NEW p \in Positions, NEW to,
         Fate(s, p)' = to, Deliveries(s, p)' = Deliveries(s, p),
         \A r \in Sessions, q \in Positions :
           <<r, q>> # <<s, p>> => Fate(r, q)' = Fate(r, q) /\ Deliveries(r, q)' = Deliveries(r, q)
  PROVE  fate' = [fate EXCEPT ![<<s, p>>] = to] /\ UNCHANGED deliveries
<1>1. \A m \in Messages : m = <<m[1], m[2]>> /\ m[1] \in Sessions /\ m[2] \in Positions
  BY DEF Messages
<1>2. \A m \in Messages : fate'[m] = IF m = <<s, p>> THEN to ELSE fate[m]
  BY <1>1 DEF fate
<1>3. \A m \in Messages : Deliveries(m[1], m[2])' = Deliveries(m[1], m[2])
  BY <1>1
<1>4. UNCHANGED deliveries
  BY <1>3 DEF deliveries
<1>5. fate' = [m \in Messages |-> fate'[m]] /\ fate = [m \in Messages |-> fate[m]]
  BY DEF fate
<1>6. fate' = [fate EXCEPT ![<<s, p>>] = to]
  BY <1>2, <1>5
<1>7. QED
  BY <1>4, <1>6

LEMMA NoneMoves ==
  ASSUME \A r \in Sessions, q \in Positions :
           Fate(r, q)' = Fate(r, q) /\ Deliveries(r, q)' = Deliveries(r, q)
  PROVE  UNCHANGED <<fate, deliveries>>
<1>1. \A m \in Messages : m[1] \in Sessions /\ m[2] \in Positions
  BY DEF Messages
<1>2. QED
  BY <1>1 DEF fate, deliveries

Abstractly ==
  \/ UNCHANGED <<fate, deliveries>>
  \/ \E m \in Messages : Delivery!Enqueue(m) \/ Delivery!Claim(m) \/ Delivery!Deliver(m)
  \/ Delivery!Lose

LEMMA EffectRefines ==
  ASSUME IInv, IInv', Effect PROVE Abstractly
<1> USE DEF Delivery!Enqueue, Delivery!Claim, Delivery!Move
<1>0. /\ FateFacts /\ FateFacts'
      /\ Drainer \in Senders /\ Tabs \subseteq Senders /\ Positions \subseteq Nat
      /\ rows \in [Sessions -> SUBSET Positions] /\ nextPos \in [Sessions -> Nat] /\ TypeOK
  <2>1. FateFacts
    BY FateIs
  <2>2. FateFacts'
    BY FateIsNext
  <2>3. Drainer \in Senders /\ Tabs \subseteq Senders /\ Positions \subseteq Nat
    BY MaxItemsAssumption DEF Senders, Positions
  <2>4. TypeOK
    BY DEF IInv
  <2>5. rows \in [Sessions -> SUBSET Positions] /\ nextPos \in [Sessions -> Nat]
    BY <2>4, MaxItemsAssumption DEF TypeOK, StoreTypeOK
  <2>6. QED
    BY <2>1, <2>2, <2>3, <2>4, <2>5
<1>1. CASE Quiet
  <2>1. \A r \in Sessions, q \in Positions :
          Fate(r, q)' = Fate(r, q) /\ Deliveries(r, q)' = Deliveries(r, q)
    BY <1>1, FateStays DEF Quiet
  <2>2. QED
    BY <2>1, NoneMoves DEF Abstractly
<1>2. CASE Died
  <2>1. /\ UNCHANGED <<rows, nextPos>>
        /\ \A by \in Senders, r \in Sessions, q \in Positions :
             send'[by][r][q] = Interrupted(by, send[by][r][q])
    BY <1>2 DEF Died
  <2>2. \A by \in Senders, r \in Sessions, q \in Positions :
          /\ send'[by][r][q] = "landed" <=> send[by][r][q] = "landed"
          /\ Owned(by, r, q)' <=> Owned(by, r, q)
    BY <2>1 DEF Interrupted, Owned
  <2>3. ASSUME NEW r \in Sessions, NEW q \in Positions
        PROVE  /\ Deliveries(r, q)' = Deliveries(r, q)
               /\ \/ Fate(r, q)' = Fate(r, q)
                  \/ Fate(r, q) = "claimed" /\ Fate(r, q)' = "lost"
    <3>1. Deliveries(r, q)' = Deliveries(r, q)
      BY <2>2 DEF Deliveries
    <3>2. CASE q \in rows[r] \/ q >= nextPos[r]
      BY <1>0, <2>1, <3>1, <3>2 DEF FateFacts
    <3>3. CASE q \notin rows[r] /\ q < nextPos[r]
      <4>1. PICK by \in Senders : Owned(by, r, q)
        BY <3>3 DEF IInv, OwnerInv
      <4>2. /\ Fate(r, q) = StageFate(send[by][r][q]) /\ Fate(r, q)' = StageFate(send'[by][r][q])
            /\ send'[by][r][q] = Interrupted(by, send[by][r][q])
        BY <1>0, <2>1, <2>2, <4>1 DEF FateFacts
      <4>3. QED
        BY <3>1, <4>2 DEF StageFate, Interrupted
    <3>4. QED
      BY <1>0, <3>2, <3>3
  <2> DEFINE lost == {m \in Messages : fate[m] = "claimed" /\ fate'[m] = "lost"}
  <2>4. \A m \in Messages : m[1] \in Sessions /\ m[2] \in Positions
    BY DEF Messages
  <2>5. UNCHANGED deliveries
    BY <2>3, <2>4 DEF deliveries
  <2>6. \A m \in Messages : fate'[m] = IF m \in lost THEN "lost" ELSE fate[m]
    BY <2>3, <2>4 DEF fate
  <2>7. fate' = [m \in Messages |-> IF m \in lost THEN "lost" ELSE fate[m]]
    BY <2>6 DEF fate
  <2>8. lost \in SUBSET {m \in Messages : fate[m] = "claimed"}
    OBVIOUS
  <2> HIDE DEF lost
  <2>9. Delivery!Lose
    BY <2>5, <2>7, <2>8 DEF Delivery!Lose, Messages, fate, deliveries
  <2>10. QED
    BY <2>9 DEF Abstractly
<1>3. ASSUME NEW s \in Sessions, Enqueued(s) PROVE Abstractly
  <2>0. PICK p \in Positions : p = nextPos[s]
    BY <1>3 DEF Enqueued
  <2>1. p \in Nat /\ p \notin rows[s]
    BY <1>0, <2>0 DEF IInv, OwnerInv
  <2>2. /\ rows'[s] = rows[s] \cup {p} /\ nextPos'[s] = p + 1 /\ send' = send
        /\ \A r \in Sessions \ {s} : rows'[r] = rows[r] /\ nextPos'[r] = nextPos[r]
    BY <1>0, <1>3, <2>0 DEF Enqueued
  <2>3. \A r \in Sessions, q \in Positions : <<r, q>> # <<s, p>> =>
          (q \in rows'[r] <=> q \in rows[r]) /\ (q >= nextPos'[r] <=> q >= nextPos[r])
    BY <1>0, <2>0, <2>1, <2>2
  <2>4. Fate(s, p) = "absent" /\ Deliveries(s, p) = {}
    BY <1>0, <2>0, <2>1 DEF FateFacts
  <2>5. Deliveries(s, p)' = Deliveries(s, p)
    BY <2>2 DEF Deliveries
  <2>6. Fate(s, p)' = "queued"
    BY <2>2 DEF Fate
  <2>7. \A r \in Sessions, q \in Positions : <<r, q>> # <<s, p>> =>
          Fate(r, q)' = Fate(r, q) /\ Deliveries(r, q)' = Deliveries(r, q)
    BY <2>2, <2>3, FateStays
  <2>8. fate' = [fate EXCEPT ![<<s, p>>] = "queued"] /\ UNCHANGED deliveries
    BY <2>1, <2>5, <2>6, <2>7, OneMoves
  <2>9. <<s, p>> \in Messages /\ fate[<<s, p>>] = "absent"
    BY <2>1, <2>4 DEF Messages, fate
  <2>10. Delivery!Enqueue(<<s, p>>)
    BY <2>8, <2>9 DEF fate, deliveries, Messages
  <2>11. QED
    BY <2>9, <2>10 DEF Abstractly
<1>4. ASSUME NEW t \in Tabs, NEW s \in Sessions, NEW p \in Positions, Asked(t, s, p) PROVE Abstractly
  <2>1. PICK stage \in {"none", "asked"} : Set(t, s, p, stage)
    BY <1>4 DEF Asked
  <2>2. /\ send'[t][s][p] = stage
        /\ \A other \in Senders, r \in Sessions, q \in Positions :
             <<other, r, q>> # <<t, s, p>> => send'[other][r][q] = send[other][r][q]
    BY <1>0, <2>1, SetOne
  <2>3. UNCHANGED <<rows, nextPos>> /\ send[t][s][p] \in {"none", "asked"}
    BY <1>4 DEF Asked, Owned
  <2>4. \A by \in Senders, r \in Sessions, q \in Positions :
          send'[by][r][q] = send[by][r][q] \/ {send'[by][r][q], send[by][r][q]} \subseteq {"none", "asked"}
    BY <2>2, <2>3
  <2>5. \A r \in Sessions, q \in Positions :
          Fate(r, q)' = Fate(r, q) /\ Deliveries(r, q)' = Deliveries(r, q)
    BY <2>3, <2>4, FateStays
  <2>6. QED
    BY <2>5, NoneMoves DEF Abstractly
<1>5. ASSUME NEW by \in Senders, NEW s \in Sessions, NEW p \in Positions,
             Taken(by, s, p) \/ Advanced(by, s, p)
      PROVE  Abstractly
  <2>1. PICK stage : /\ Set(by, s, p, stage)
                     /\ \/ Taken(by, s, p) /\ stage = "claimed"
                        \/ Advanced(by, s, p) /\ <<send[by][s][p], stage>> \in Advances
    <3>1. CASE Taken(by, s, p)
      <4>1. Set(by, s, p, "claimed")
        BY <3>1 DEF Taken
      <4>2. QED
        BY <3>1, <4>1
    <3>2. CASE Advanced(by, s, p)
      <4>1. PICK to : <<send[by][s][p], to>> \in Advances /\ Set(by, s, p, to)
        BY <3>2 DEF Advanced
      <4>2. QED
        BY <3>2, <4>1
    <3>3. QED
      BY <1>5, <3>1, <3>2
  <2>2. /\ send'[by][s][p] = stage
        /\ \A other \in Senders, r \in Sessions, q \in Positions :
             <<other, r, q>> # <<by, s, p>> => send'[other][r][q] = send[other][r][q]
    BY <1>0, <2>1, SetOne
  <2>3. \A r \in Sessions, q \in Positions : <<r, q>> # <<s, p>> =>
          (q \in rows'[r] <=> q \in rows[r]) /\ nextPos'[r] = nextPos[r]
    BY <1>0, <2>1 DEF Taken, Advanced
  <2>4. \A r \in Sessions, q \in Positions : <<r, q>> # <<s, p>> =>
          Fate(r, q)' = Fate(r, q) /\ Deliveries(r, q)' = Deliveries(r, q)
    BY <2>2, <2>3, FateStays
  <2>5. Owned(by, s, p)'
    BY <2>1, <2>2 DEF Owned, Advances
  <2>6. /\ Fate(s, p)' = StageFate(stage)
        /\ Deliveries(s, p)' = IF stage = "landed" THEN {by} ELSE {}
    BY <1>0, <2>2, <2>5 DEF FateFacts
  <2>7. CASE Taken(by, s, p) /\ stage = "claimed"
    <3>1. Fate(s, p) = "queued" /\ Deliveries(s, p) = {}
      BY <1>0, <2>7 DEF FateFacts, Taken
    <3>2. Fate(s, p)' = "claimed" /\ Deliveries(s, p)' = Deliveries(s, p)
      BY <2>6, <2>7, <3>1 DEF StageFate
    <3>3. fate' = [fate EXCEPT ![<<s, p>>] = "claimed"] /\ UNCHANGED deliveries
      BY <2>4, <3>2, OneMoves
    <3>4. <<s, p>> \in Messages /\ fate[<<s, p>>] = "queued"
      BY <3>1 DEF Messages, fate
    <3>5. Delivery!Claim(<<s, p>>)
      BY <3>3, <3>4 DEF fate, deliveries, Messages
    <3>6. QED
      BY <3>4, <3>5 DEF Abstractly
  <2>8. CASE Advanced(by, s, p) /\ <<send[by][s][p], stage>> \in Advances
    <3>1. /\ Fate(s, p) = "claimed" /\ Deliveries(s, p) = {}
          /\ stage \in {"spawned", "reserved", "landed", "lost"}
      BY <1>0, <2>8 DEF FateFacts, Advances, StageFate, Owned
    <3>2. CASE stage \in {"spawned", "reserved"}
      <4>1. \A r \in Sessions, q \in Positions :
              Fate(r, q)' = Fate(r, q) /\ Deliveries(r, q)' = Deliveries(r, q)
        BY <2>4, <2>6, <3>1, <3>2 DEF StageFate
      <4>2. QED
        BY <4>1, NoneMoves DEF Abstractly
    <3>3. CASE stage = "lost"
      <4>1. fate' = [fate EXCEPT ![<<s, p>>] = "lost"] /\ UNCHANGED deliveries
        BY <2>4, <2>6, <3>1, <3>3, OneMoves DEF StageFate
      <4>2. {<<s, p>>} \in SUBSET {m \in Messages : fate[m] = "claimed"}
        BY <3>1 DEF fate, Messages
      <4>3. fate' = [m \in Messages |-> IF m \in {<<s, p>>} THEN "lost" ELSE fate[m]]
        BY <4>1 DEF fate
      <4>4. Delivery!Lose
        BY <4>1, <4>2, <4>3 DEF Delivery!Lose, Messages, fate, deliveries
      <4>5. QED
        BY <4>4 DEF Abstractly
    <3>4. CASE stage = "landed"
      <4>1. Fate(s, p)' = "delivered" /\ Deliveries(s, p)' = {by}
        BY <2>6, <3>4 DEF StageFate
      <4>2. Cardinality(Deliveries(s, p)) = 0 /\ Cardinality(Deliveries(s, p))' = 1
        BY <3>1, <4>1, FS_EmptySet, FS_Singleton
      <4>3. \A m \in Messages : m = <<m[1], m[2]>> /\ m[1] \in Sessions /\ m[2] \in Positions
        BY DEF Messages
      <4>4. \A m \in Messages :
              /\ fate'[m] = IF m = <<s, p>> THEN "delivered" ELSE fate[m]
              /\ deliveries'[m] = IF m = <<s, p>> THEN 1 ELSE deliveries[m]
        BY <2>4, <4>1, <4>2, <4>3 DEF fate, deliveries
      <4>5. <<s, p>> \in Messages /\ fate[<<s, p>>] = "claimed" /\ deliveries[<<s, p>>] = 0
        BY <3>1, <4>2 DEF Messages, fate, deliveries
      <4>6. /\ fate' = [fate EXCEPT ![<<s, p>>] = "delivered"]
            /\ deliveries' = [deliveries EXCEPT ![<<s, p>>] = @ + 1]
        <5>1. /\ fate = [m \in Messages |-> fate[m]] /\ fate' = [m \in Messages |-> fate'[m]]
              /\ deliveries = [m \in Messages |-> deliveries[m]]
              /\ deliveries' = [m \in Messages |-> deliveries'[m]]
          BY DEF fate, deliveries
        <5>2. fate' = [fate EXCEPT ![<<s, p>>] = "delivered"]
          BY <4>4, <5>1
        <5>3. deliveries' = [deliveries EXCEPT ![<<s, p>>] = 1]
          BY <4>4, <5>1
        <5>4. deliveries[<<s, p>>] + 1 = 1
          BY <4>5
        <5>5. QED
          BY <5>2, <5>3, <5>4
      <4>7. Delivery!Deliver(<<s, p>>)
        BY <4>5, <4>6 DEF Delivery!Deliver, Messages, fate, deliveries
      <4>8. QED
        BY <4>5, <4>7 DEF Abstractly
    <3>5. QED
      BY <3>1, <3>2, <3>3, <3>4
  <2>9. QED
    BY <2>1, <2>7, <2>8
<1>6. QED
  BY <1>1, <1>2, <1>3, <1>4, <1>5 DEF Effect

\* The queue, its handlers and its drainer, crashes included, deliver each message
\* as MessageDelivery promises: at most once, and never again once claimed.
THEOREM ImplementsDelivery == Spec => DeliverySpec
<1>1. Init => Delivery!Init
  <2> SUFFICES ASSUME Init PROVE Delivery!Init
    OBVIOUS
  <2>1. FateFacts
    BY InitInv, FateIs
  <2>2. ASSUME NEW m \in Messages
        PROVE  Fate(m[1], m[2]) = "absent" /\ Cardinality(Deliveries(m[1], m[2])) = 0
    <3>1. /\ m[1] \in Sessions /\ m[2] \in Positions
          /\ m[2] \notin rows[m[1]] /\ m[2] >= nextPos[m[1]]
      BY MaxItemsAssumption DEF Init, StoreInit, Messages, Positions
    <3>2. QED
      BY <2>1, <3>1, FS_EmptySet DEF FateFacts
  <2>3. QED
    BY <2>2 DEF Delivery!Init, Messages
<1>2. IInv /\ IInv' /\ [Next]_vars => [Delivery!Next]_(Delivery!vars)
  <2> SUFFICES ASSUME IInv, IInv', [Next]_vars PROVE [Delivery!Next]_(Delivery!vars)
    OBVIOUS
  <2>1. Abstractly
    BY StepEffect, EffectRefines DEF IInv
  <2>2. QED
    BY <2>1 DEF Abstractly, Delivery!Next, Delivery!vars, Messages, fate, deliveries
<1>3. QED
  BY <1>1, <1>2, Invariance, PTL DEF Spec, DeliverySpec, Delivery!Spec
=============================================================================
