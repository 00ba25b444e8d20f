------------------------- MODULE ServerRecordsProofs -------------------------

(***************************************************************************)
(* Proofs about ServerRecords.  A part that is not running is at rest, so  *)
(* each part has an invariant of its own, shown from the part's Init and   *)
(* Next alone: those of the runtimes' sessions in CatalogProofs, those of  *)
(* the server's own in RecordFilesProofs, that of the process here.  The   *)
(* last section puts the parts together.                                   *)
(***************************************************************************)
EXTENDS ServerRecords, CatalogProofs, RecordFilesProofs
-----------------------------------------------------------------------------
(* The process: what was started is taken down, users first.               *)

ArParts == {"events", "supervisor", "child", "codexSyncer", "claudeSyncer", "opencodeSyncer",
            "claudeWatcher", "manager", "server", "stateFile", "listener"}
ArMandatory(hosted) ==
  {"manager", "server", "stateFile", "listener"} \cup IF hosted THEN {} ELSE {"events", "supervisor"}

\* Where a part stands among those that Run starts without hosted mode.
ArRank ==
  [p \in ArParts |->
     CASE p = "events" -> 1 [] p = "supervisor" -> 2 [] p = "child" -> 3 [] p = "codexSyncer" -> 4
       [] p = "claudeSyncer" -> 5 [] p = "opencodeSyncer" -> 6 [] p = "claudeWatcher" -> 7
       [] p = "manager" -> 8 [] p = "server" -> 9 [] p = "stateFile" -> 10 [] p = "listener" -> 11]

ArRising(parts) == \A i, j \in 1..Len(parts) : i < j => ArRank[parts[i]] < ArRank[parts[j]]
ArIn(p, parts) == \E i \in 1..Len(parts) : parts[i] = p

ArShape ==
  /\ arHosted \in BOOLEAN /\ arCancelled \in BOOLEAN /\ arWorkers \in BOOLEAN
  /\ arPhase \in {"starting", "serving", "closing", "returned"}
  /\ arRequests \in 0..ArMaxRequests /\ arFlips \in 0..ArMaxFlips
  /\ arTodo \in Seq(ArParts) /\ arStack \in Seq(ArParts) /\ arUp \subseteq ArParts
  /\ Len(arStack) + Len(arTodo) <= Len(ArStages(arHosted))

\* The cleanup stack is in the order of starting, and so is what is still to come.
ArOrderInv ==
  /\ ArRising(arStack) /\ ArRising(arTodo)
  /\ \A i \in 1..Len(arStack), j \in 1..Len(arTodo) : ArRank[arStack[i]] < ArRank[arTodo[j]]
  /\ arPhase = "starting" => \A p \in ArMandatory(arHosted) : ArIn(p, arStack) \/ ArIn(p, arTodo)
  /\ arHosted => ~ArIn("opencodeSyncer", arTodo) /\ ~ArIn("supervisor", arTodo) /\ ~ArIn("child", arTodo)

\* What runs is on the cleanup stack, with all that it uses.
ArStackInv ==
  /\ \A p \in arUp \ {"child"} : ArIn(p, arStack)
  /\ "child" \in arUp => ArIn("supervisor", arStack)
  /\ \A i \in 1..Len(arStack) : arStack[i] # "child" /\ (arStack[i] # "listener" => arStack[i] \in arUp)
  /\ \A p \in DOMAIN ArUses \ {"child"} : ArIn(p, arStack) => \A q \in ArUses[p] : ArIn(q, arStack)
  /\ arWorkers => "manager" \in arUp
  /\ arPhase = "returned" => arStack = <<>>

ArInv == ArShape /\ ArOrderInv /\ ArStackInv
-----------------------------------------------------------------------------
(* The order of starting.                                                   *)

LEMMA ArJoined ==
  ASSUME NEW s \in Seq(ArParts), NEW t \in Seq(ArParts)
  PROVE  /\ s \o t \in Seq(ArParts) /\ Len(s \o t) = Len(s) + Len(t)
         /\ \A i \in 1..Len(s) : (s \o t)[i] = s[i]
         /\ \A i \in 1..Len(t) : (s \o t)[Len(s) + i] = t[i]
  OBVIOUS

LEMMA ArServingIs ==
  /\ ArServing \in Seq(ArParts) /\ Len(ArServing) = 4 /\ ArServing[1] = "manager"
  /\ ArServing[2] = "server" /\ ArServing[3] = "stateFile" /\ ArServing[4] = "listener"
  BY DEF ArServing, ArParts

LEMMA ArHostedStages ==
  LET stages == ArStages(TRUE) IN
  /\ stages \in Seq(ArParts) /\ Len(stages) = 5
  /\ stages[1] = "codexSyncer" /\ stages[2] = "manager" /\ stages[3] = "server" /\ stages[4] = "stateFile"
  /\ stages[5] = "listener"
<1> DEFINE first == <<"codexSyncer">>
<1>1. first \in Seq(ArParts) /\ Len(first) = 1 /\ first[1] = "codexSyncer"
  BY DEF ArParts
<1>2. ArStages(TRUE) = first \o ArServing
  BY DEF ArStages
<1> HIDE DEF first
<1> DEFINE stages == ArStages(TRUE)
<1>3. stages = first \o ArServing
  BY <1>2
<1> HIDE DEF stages
<1>4. /\ stages \in Seq(ArParts) /\ Len(stages) = 5
      /\ stages[1] = "codexSyncer" /\ stages[2] = "manager" /\ stages[3] = "server" /\ stages[4] = "stateFile"
      /\ stages[5] = "listener"
  <2>0. first \in Seq(ArParts) /\ Len(first) = 1 /\ ArServing \in Seq(ArParts) /\ Len(ArServing) = 4 /\ stages = first \o ArServing
    BY <1>1, <1>3, ArServingIs
  <2> HIDE DEF stages
  <2>1. /\ stages \in Seq(ArParts) /\ Len(stages) = 1 + 4
        /\ \A i \in 1..1 : stages[i] = first[i]
        /\ \A i \in 1..4 : stages[1 + i] = ArServing[i]
    <3>1. /\ first \o ArServing \in Seq(ArParts) /\ Len(first \o ArServing) = Len(first) + Len(ArServing)
          /\ \A i \in 1..Len(first) : (first \o ArServing)[i] = first[i]
          /\ \A i \in 1..Len(ArServing) : (first \o ArServing)[Len(first) + i] = ArServing[i]
      BY <2>0, ArJoined
    <3> QED
      BY <2>0, <3>1
  <2>2. stages[1] = first[1]
    BY <2>1
  <2>3. stages[2] = ArServing[1] /\ stages[3] = ArServing[2] /\ stages[4] = ArServing[3] /\ stages[5] = ArServing[4]
    <3>1. stages[2] = ArServing[1]
      <4>1. stages[1 + 1] = ArServing[1]
        BY <2>1
      <4> QED
        BY <4>1
    <3>2. stages[3] = ArServing[2]
      <4>1. stages[1 + 2] = ArServing[2]
        BY <2>1
      <4> QED
        BY <4>1
    <3>3. stages[4] = ArServing[3]
      <4>1. stages[1 + 3] = ArServing[3]
        BY <2>1
      <4> QED
        BY <4>1
    <3>4. stages[5] = ArServing[4]
      <4>1. stages[1 + 4] = ArServing[4]
        BY <2>1
      <4> QED
        BY <4>1
    <3> QED
      BY <3>1, <3>2, <3>3, <3>4
  <2> QED
    BY <1>1, <1>3, <2>1, <2>2, <2>3, ArServingIs
<1> QED
  BY <1>4 DEF stages

LEMMA ArNativeStages ==
  LET stages == ArStages(FALSE) IN
  /\ stages \in Seq(ArParts) /\ Len(stages) = 11
  /\ stages[1] = "events" /\ stages[2] = "supervisor" /\ stages[3] = "child" /\ stages[4] = "codexSyncer"
  /\ stages[5] = "claudeSyncer" /\ stages[6] = "opencodeSyncer" /\ stages[7] = "claudeWatcher"
  /\ stages[8] = "manager" /\ stages[9] = "server" /\ stages[10] = "stateFile" /\ stages[11] = "listener"
<1>1. /\ ArNative \in Seq(ArParts) /\ Len(ArNative) = 3
      /\ ArNative[1] = "events" /\ ArNative[2] = "supervisor" /\ ArNative[3] = "child"
  BY DEF ArNative, ArParts
<1>2. /\ ArCatalogs \in Seq(ArParts) /\ Len(ArCatalogs) = 4
      /\ ArCatalogs[1] = "codexSyncer" /\ ArCatalogs[2] = "claudeSyncer"
      /\ ArCatalogs[3] = "opencodeSyncer" /\ ArCatalogs[4] = "claudeWatcher"
  BY DEF ArCatalogs, ArParts
<1> DEFINE first == ArNative \o ArCatalogs
<1>3. /\ first \in Seq(ArParts) /\ Len(first) = 7
      /\ first[1] = "events" /\ first[2] = "supervisor" /\ first[3] = "child" /\ first[4] = "codexSyncer"
      /\ first[5] = "claudeSyncer" /\ first[6] = "opencodeSyncer" /\ first[7] = "claudeWatcher"
  <2>0. ArNative \in Seq(ArParts) /\ Len(ArNative) = 3 /\ ArCatalogs \in Seq(ArParts) /\ Len(ArCatalogs) = 4 /\ first = ArNative \o ArCatalogs
    BY <1>1, <1>2, ArServingIs DEF first
  <2> HIDE DEF first
  <2>1. /\ first \in Seq(ArParts) /\ Len(first) = 3 + 4
        /\ \A i \in 1..3 : first[i] = ArNative[i]
        /\ \A i \in 1..4 : first[3 + i] = ArCatalogs[i]
    <3>1. /\ ArNative \o ArCatalogs \in Seq(ArParts) /\ Len(ArNative \o ArCatalogs) = Len(ArNative) + Len(ArCatalogs)
          /\ \A i \in 1..Len(ArNative) : (ArNative \o ArCatalogs)[i] = ArNative[i]
          /\ \A i \in 1..Len(ArCatalogs) : (ArNative \o ArCatalogs)[Len(ArNative) + i] = ArCatalogs[i]
      BY <2>0, ArJoined
    <3> QED
      BY <2>0, <3>1
  <2>2. first[1] = ArNative[1] /\ first[2] = ArNative[2] /\ first[3] = ArNative[3]
    BY <2>1
  <2>3. first[4] = ArCatalogs[1] /\ first[5] = ArCatalogs[2] /\ first[6] = ArCatalogs[3] /\ first[7] = ArCatalogs[4]
    <3>1. first[4] = ArCatalogs[1]
      <4>1. first[3 + 1] = ArCatalogs[1]
        BY <2>1
      <4> QED
        BY <4>1
    <3>2. first[5] = ArCatalogs[2]
      <4>1. first[3 + 2] = ArCatalogs[2]
        BY <2>1
      <4> QED
        BY <4>1
    <3>3. first[6] = ArCatalogs[3]
      <4>1. first[3 + 3] = ArCatalogs[3]
        BY <2>1
      <4> QED
        BY <4>1
    <3>4. first[7] = ArCatalogs[4]
      <4>1. first[3 + 4] = ArCatalogs[4]
        BY <2>1
      <4> QED
        BY <4>1
    <3> QED
      BY <3>1, <3>2, <3>3, <3>4
  <2> QED
    BY <1>1, <1>2, <2>1, <2>2, <2>3, ArServingIs
<1>4. ArStages(FALSE) = first \o ArServing
  BY DEF ArStages
<1> HIDE DEF first
<1> DEFINE stages == ArStages(FALSE)
<1>5. stages = first \o ArServing
  BY <1>4
<1> HIDE DEF stages
<1>6. /\ stages \in Seq(ArParts) /\ Len(stages) = 11
      /\ stages[1] = "events" /\ stages[2] = "supervisor" /\ stages[3] = "child" /\ stages[4] = "codexSyncer"
      /\ stages[5] = "claudeSyncer" /\ stages[6] = "opencodeSyncer" /\ stages[7] = "claudeWatcher"
      /\ stages[8] = "manager" /\ stages[9] = "server" /\ stages[10] = "stateFile" /\ stages[11] = "listener"
  <2>0. first \in Seq(ArParts) /\ Len(first) = 7 /\ ArServing \in Seq(ArParts) /\ Len(ArServing) = 4 /\ stages = first \o ArServing
    BY <1>3, <1>5, ArServingIs
  <2> HIDE DEF stages
  <2>1. /\ stages \in Seq(ArParts) /\ Len(stages) = 7 + 4
        /\ \A i \in 1..7 : stages[i] = first[i]
        /\ \A i \in 1..4 : stages[7 + i] = ArServing[i]
    <3>1. /\ first \o ArServing \in Seq(ArParts) /\ Len(first \o ArServing) = Len(first) + Len(ArServing)
          /\ \A i \in 1..Len(first) : (first \o ArServing)[i] = first[i]
          /\ \A i \in 1..Len(ArServing) : (first \o ArServing)[Len(first) + i] = ArServing[i]
      BY <2>0, ArJoined
    <3> QED
      BY <2>0, <3>1
  <2>2. stages[1] = first[1] /\ stages[2] = first[2] /\ stages[3] = first[3] /\ stages[4] = first[4] /\ stages[5] = first[5] /\ stages[6] = first[6] /\ stages[7] = first[7]
    BY <2>1
  <2>3. stages[8] = ArServing[1] /\ stages[9] = ArServing[2] /\ stages[10] = ArServing[3] /\ stages[11] = ArServing[4]
    <3>1. stages[8] = ArServing[1]
      <4>1. stages[7 + 1] = ArServing[1]
        BY <2>1
      <4> QED
        BY <4>1
    <3>2. stages[9] = ArServing[2]
      <4>1. stages[7 + 2] = ArServing[2]
        BY <2>1
      <4> QED
        BY <4>1
    <3>3. stages[10] = ArServing[3]
      <4>1. stages[7 + 3] = ArServing[3]
        BY <2>1
      <4> QED
        BY <4>1
    <3>4. stages[11] = ArServing[4]
      <4>1. stages[7 + 4] = ArServing[4]
        BY <2>1
      <4> QED
        BY <4>1
    <3> QED
      BY <3>1, <3>2, <3>3, <3>4
  <2> QED
    BY <1>3, <1>5, <2>1, <2>2, <2>3, ArServingIs
<1> QED
  BY <1>6 DEF stages

LEMMA ArRanks ==
  /\ ArRank["events"] = 1 /\ ArRank["supervisor"] = 2 /\ ArRank["child"] = 3
  /\ ArRank["codexSyncer"] = 4 /\ ArRank["claudeSyncer"] = 5 /\ ArRank["opencodeSyncer"] = 6
  /\ ArRank["claudeWatcher"] = 7 /\ ArRank["manager"] = 8 /\ ArRank["server"] = 9
  /\ ArRank["stateFile"] = 10 /\ ArRank["listener"] = 11
  BY DEF ArRank, ArParts

LEMMA ArRankIsNat == ArRank \in [ArParts -> 1..11]
  BY DEF ArRank, ArParts

LEMMA ArRankOf == \A p \in ArParts : ArRank[p] \in Nat
<1>1. \A n \in 1..11 : n \in Nat
  OBVIOUS
<1> QED
  BY <1>1, ArRankIsNat

\* A part is started after what it uses.
LEMMA ArUsesBelow ==
  /\ DOMAIN ArUses = {"supervisor", "child", "opencodeSyncer", "server", "listener"}
  /\ ArUses["supervisor"] = {"events"} /\ ArUses["child"] = {"supervisor"}
  /\ ArUses["opencodeSyncer"] = {"supervisor"} /\ ArUses["server"] = {"manager"}
  /\ ArUses["listener"] = {"server"}
  BY DEF ArUses

\* The stages are in the order of the ranks, and hold the parts that are not optional.
LEMMA ArStagesRise ==
  ASSUME NEW hosted \in BOOLEAN
  PROVE  LET stages == ArStages(hosted) IN
         /\ stages \in Seq(ArParts) /\ ArRising(stages)
         /\ \A p \in ArMandatory(hosted) : ArIn(p, stages)
         /\ hosted => ~ArIn("opencodeSyncer", stages) /\ ~ArIn("supervisor", stages) /\ ~ArIn("child", stages)
<1>1. CASE hosted = TRUE
  <2> DEFINE stages == ArStages(TRUE)
  <2>1. stages \in Seq(ArParts) /\ Len(stages) = 5
    BY ArHostedStages
  <2>2. stages[1] = "codexSyncer" /\ stages[2] = "manager" /\ stages[3] = "server" /\ stages[4] = "stateFile"
        /\ stages[5] = "listener"
    BY ArHostedStages
  <2> HIDE DEF stages
  <2>3. ArRising(stages)
    BY <2>1, <2>2, ArRanks DEF ArRising
  <2>4. \A p \in ArMandatory(TRUE) : ArIn(p, stages)
    BY <2>1, <2>2 DEF ArMandatory, ArIn
  <2>5. ~ArIn("opencodeSyncer", stages) /\ ~ArIn("supervisor", stages) /\ ~ArIn("child", stages)
    BY <2>1, <2>2 DEF ArIn
  <2> QED
    BY <1>1, <2>1, <2>3, <2>4, <2>5 DEF stages
<1>2. CASE hosted = FALSE
  <2> DEFINE stages == ArStages(FALSE)
  <2>1. stages \in Seq(ArParts) /\ Len(stages) = 11
    BY ArNativeStages
  <2>2. /\ stages[1] = "events" /\ stages[2] = "supervisor" /\ stages[3] = "child" /\ stages[4] = "codexSyncer"
        /\ stages[5] = "claudeSyncer" /\ stages[6] = "opencodeSyncer" /\ stages[7] = "claudeWatcher"
        /\ stages[8] = "manager" /\ stages[9] = "server" /\ stages[10] = "stateFile" /\ stages[11] = "listener"
    BY ArNativeStages
  <2> HIDE DEF stages
  <2>3. \A i \in 1..11 : ArRank[stages[i]] = i
    BY <2>2, ArRanks
  <2>4. ArRising(stages)
    BY <2>1, <2>3 DEF ArRising
  <2>5. \A p \in ArMandatory(FALSE) : ArIn(p, stages)
    BY <2>1, <2>2 DEF ArMandatory, ArIn
  <2> QED
    BY <1>2, <2>1, <2>4, <2>5 DEF stages
<1> QED
  BY <1>1, <1>2
-----------------------------------------------------------------------------
(* What is done to the stack and to the list of stages.                     *)

ArIsLonger(longer, parts, p) ==
  /\ longer \in Seq(ArParts) /\ Len(longer) = Len(parts) + 1
  /\ \A i \in 1..Len(parts) : longer[i] = parts[i]
  /\ longer[Len(parts) + 1] = p
  /\ \A q : ArIn(q, longer) <=> ArIn(q, parts) \/ q = p

LEMMA ArAppended ==
  ASSUME NEW parts \in Seq(ArParts), NEW p \in ArParts
  PROVE  ArIsLonger(Append(parts, p), parts, p)
<1> DEFINE longer == Append(parts, p)
<1>1. /\ longer \in Seq(ArParts) /\ Len(longer) = Len(parts) + 1
      /\ \A i \in 1..Len(parts) : longer[i] = parts[i]
      /\ longer[Len(parts) + 1] = p
  OBVIOUS
<1> HIDE DEF longer
<1>2. ASSUME NEW q PROVE ArIn(q, longer) <=> ArIn(q, parts) \/ q = p
  <2>1. ASSUME NEW i \in 1..Len(longer) PROVE i \in 1..Len(parts) \/ i = Len(parts) + 1
    BY <1>1
  <2>2. 1..Len(parts) \subseteq 1..Len(longer) /\ Len(parts) + 1 \in 1..Len(longer)
    BY <1>1
  <2> QED
    BY <1>1, <2>1, <2>2 DEF ArIn
<1>3. ArIsLonger(longer, parts, p)
  BY <1>1, <1>2 DEF ArIsLonger
<1> QED
  BY <1>3 DEF longer

ArIsTail(rest, parts) ==
  /\ rest \in Seq(ArParts) /\ Len(rest) = Len(parts) - 1 /\ Len(parts) \in Nat \ {0}
  /\ Head(parts) = parts[1] /\ parts[1] \in ArParts
  /\ \A i \in 1..Len(rest) : rest[i] = parts[i + 1] /\ i + 1 \in 1..Len(parts)
  /\ \A q : ArIn(q, parts) <=> ArIn(q, rest) \/ q = Head(parts)

LEMMA ArTailIs ==
  ASSUME NEW parts \in Seq(ArParts), parts # <<>>
  PROVE  ArIsTail(Tail(parts), parts)
<1> DEFINE rest == Tail(parts)
<1>1. /\ rest \in Seq(ArParts) /\ Len(rest) = Len(parts) - 1 /\ Len(parts) \in Nat \ {0}
      /\ Head(parts) = parts[1] /\ parts[1] \in ArParts
      /\ \A i \in 1..Len(rest) : rest[i] = parts[i + 1] /\ i + 1 \in 1..Len(parts)
  OBVIOUS
<1> HIDE DEF rest
<1>2. ASSUME NEW q PROVE ArIn(q, parts) <=> ArIn(q, rest) \/ q = Head(parts)
  <2>1. ASSUME NEW i \in 1..Len(parts), i # 1 PROVE i - 1 \in 1..Len(rest) /\ rest[i - 1] = parts[i]
    BY <1>1, <2>1
  <2>2. 1 \in 1..Len(parts)
    BY <1>1
  <2> QED
    BY <1>1, <2>1, <2>2 DEF ArIn
<1>3. ArIsTail(rest, parts)
  BY <1>1, <1>2 DEF ArIsTail
<1> QED
  BY <1>3 DEF rest

ArIsFront(front, parts) ==
  /\ front \in Seq(ArParts) /\ Len(front) = Len(parts) - 1 /\ Len(parts) \in Nat \ {0}
  /\ \A i \in 1..Len(front) : front[i] = parts[i] /\ i \in 1..Len(parts)
  /\ parts[Len(parts)] \in ArParts
  /\ \A q : ArIn(q, parts) <=> ArIn(q, front) \/ q = parts[Len(parts)]

LEMMA ArFrontOf ==
  ASSUME NEW parts \in Seq(ArParts), parts # <<>>, NEW front, front = SubSeq(parts, 1, Len(parts) - 1)
  PROVE  ArIsFront(front, parts)
<1>1. Len(parts) \in Nat \ {0}
  OBVIOUS
<1>2. /\ front \in Seq(ArParts) /\ Len(front) = Len(parts) - 1
      /\ \A i \in 1..Len(front) : front[i] = parts[i] /\ i \in 1..Len(parts)
      /\ parts[Len(parts)] \in ArParts
  <2>1. Len(parts) \in 1..Len(parts) /\ \A i \in 1..(Len(parts) - 1) : i \in 1..Len(parts)
    BY <1>1
  <2>2. \A i \in 1..Len(parts) : parts[i] \in ArParts
    OBVIOUS
  <2>3. front \in Seq(ArParts)
    BY <1>1, <2>1, <2>2
  <2>4. Len(front) = Len(parts) - 1
    <3>1. CASE Len(parts) = 1
      <4>1. front = SubSeq(parts, 1, 0)
        BY <3>1
      <4>2. front = <<>>
        BY <4>1, SubSeqEmpty
      <4>3. Len(<<>>) = 0
        OBVIOUS
      <4>4. Len(front) = 0
        BY <4>2, <4>3
      <4> QED
        BY <3>1, <4>4
    <3>2. CASE Len(parts) > 1
      BY <1>1, <3>2
    <3> DEFINE m == Len(front)
               n == Len(parts)
    <3>3. n \in Nat \ {0} /\ (n = 1 => m = n - 1) /\ (n > 1 => m = n - 1)
      BY <1>1, <3>1, <3>2
    <3> HIDE DEF m, n
    <3>4. m = n - 1
      BY <3>3
    <3> QED
      BY <3>4 DEF m, n
  <2>5. \A i \in 1..(Len(parts) - 1) : front[i] = parts[i]
    BY <1>1
  <2> QED
    BY <2>1, <2>2, <2>3, <2>4, <2>5
<1>3. ASSUME NEW q PROVE ArIn(q, parts) <=> ArIn(q, front) \/ q = parts[Len(parts)]
  <2>1. ASSUME NEW i \in 1..Len(parts), i # Len(parts) PROVE i \in 1..Len(front)
    BY <1>1, <1>2, <2>1
  <2>2. Len(parts) \in 1..Len(parts)
    BY <1>1
  <2> QED
    BY <1>1, <1>2, <2>1, <2>2 DEF ArIn
<1> QED
  BY <1>1, <1>2, <1>3 DEF ArIsFront

LEMMA ArFrontIs ==
  ASSUME NEW parts \in Seq(ArParts), parts # <<>>
  PROVE  ArIsFront(SubSeq(parts, 1, Len(parts) - 1), parts)
  BY ArFrontOf

-----------------------------------------------------------------------------
LEMMA ArStarts == ArInit => ArInv
<1> SUFFICES ASSUME ArInit PROVE ArInv
  OBVIOUS
<1>1. arTodo = ArStages(arHosted) /\ arHosted \in BOOLEAN /\ arStack = <<>> /\ Len(arStack) = 0
  BY DEF ArInit
<1>2. /\ arTodo \in Seq(ArParts) /\ ArRising(arTodo)
      /\ \A p \in ArMandatory(arHosted) : ArIn(p, arTodo)
      /\ arHosted => ~ArIn("opencodeSyncer", arTodo) /\ ~ArIn("supervisor", arTodo) /\ ~ArIn("child", arTodo)
  BY <1>1, ArStagesRise
<1>3. \A p : ~ArIn(p, arStack)
  BY <1>1 DEF ArIn
<1>4. ArShape
  <2>1. arStack \in Seq(ArParts)
    BY <1>1
  <2>2. Len(arStack) + Len(arTodo) <= Len(ArStages(arHosted))
    BY <1>1, <1>2
  <2>3. arRequests \in 0..ArMaxRequests /\ arFlips \in 0..ArMaxFlips
    BY ArBounds DEF ArInit
  <2> QED
    BY <1>2, <2>1, <2>2, <2>3 DEF ArInit, ArShape
<1>5. ArOrderInv
  BY <1>1, <1>2 DEF ArOrderInv, ArRising
<1>6. ArStackInv
  BY <1>1, <1>3 DEF ArInit, ArStackInv
<1> QED
  BY <1>4, <1>5, <1>6 DEF ArInv

\* Steps that leave the stack, the stages and most of what runs alone.
LEMMA ArQuietKeeps ==
  ASSUME ArInv, UNCHANGED <<arHosted, arTodo, arStack>>, ArShape',
         arPhase' = "starting" => arPhase = "starting",
         arPhase' = "returned" => arPhase = "returned" \/ arStack = <<>>,
         \A p \in arUp' : p \in arUp \/ (p = "child" /\ "supervisor" \in arUp),
         \A p \in arUp : p \in arUp' \/ p = "child" \/ p = "listener",
         arWorkers' => arWorkers \/ "manager" \in arUp
  PROVE  ArInv'
<1>1. ArOrderInv'
  BY DEF ArInv, ArOrderInv
<1>2. ArStackInv'
  <2>1. /\ \A p \in arUp' \ {"child"} : ArIn(p, arStack)'
        /\ ("child" \in arUp => ArIn("supervisor", arStack))'
    BY DEF ArInv, ArStackInv
  <2>2. \A i \in 1..Len(arStack) : arStack[i] # "child" /\ (arStack[i] # "listener" => arStack[i] \in arUp')
    BY DEF ArInv, ArStackInv
  <2>3. \A p \in DOMAIN ArUses \ {"child"} : ArIn(p, arStack) => \A q \in ArUses[p] : ArIn(q, arStack)
    BY DEF ArInv, ArStackInv
  <2>4. arWorkers' => "manager" \in arUp'
    BY DEF ArInv, ArStackInv
  <2>5. arPhase' = "returned" => arStack = <<>>
    BY DEF ArInv, ArStackInv
  <2> QED
    BY <2>1, <2>2, <2>3, <2>4, <2>5 DEF ArStackInv
<1> QED
  BY <1>1, <1>2 DEF ArInv

\* A part that is left out is not one that others wait for.
LEMMA ArTodoShrinks ==
  ASSUME ArInv, arPhase = "starting", arTodo # <<>>, arTodo' = Tail(arTodo), arHosted' = arHosted
  PROVE  /\ arTodo' \in Seq(ArParts) /\ ArRising(arTodo') /\ Len(arTodo') = Len(arTodo) - 1
         /\ \A i \in 1..Len(arTodo') : ArRank[Head(arTodo)] < ArRank[arTodo'[i]]
         /\ \A i \in 1..Len(arStack) : ArRank[arStack[i]] < ArRank[Head(arTodo)]
         /\ \A i \in 1..Len(arStack), j \in 1..Len(arTodo') : ArRank[arStack[i]] < ArRank[arTodo'[j]]
         /\ \A p \in ArMandatory(arHosted) : ArIn(p, arStack) \/ p = Head(arTodo) \/ ArIn(p, arTodo')
         /\ arHosted => /\ ~ArIn("opencodeSyncer", arTodo') /\ ~ArIn("supervisor", arTodo') /\ ~ArIn("child", arTodo')
                        /\ Head(arTodo) \notin {"opencodeSyncer", "supervisor", "child"}
<1>1. arTodo \in Seq(ArParts)
  BY DEF ArInv, ArShape
<1>2. /\ arTodo' \in Seq(ArParts) /\ Len(arTodo') = Len(arTodo) - 1 /\ Len(arTodo) \in Nat \ {0}
      /\ Head(arTodo) = arTodo[1] /\ arTodo[1] \in ArParts
      /\ \A i \in 1..Len(arTodo') : arTodo'[i] = arTodo[i + 1] /\ i + 1 \in 1..Len(arTodo)
      /\ \A q : ArIn(q, arTodo) <=> ArIn(q, arTodo') \/ q = Head(arTodo)
  <2>1. ArIsTail(Tail(arTodo), arTodo)
    BY <1>1, ArTailIs
  <2>2. ArIsTail(arTodo', arTodo)
    BY <2>1
  <2> QED
    BY <2>2 DEF ArIsTail
<1>3. 1 \in 1..Len(arTodo)
  BY <1>2
<1>4. ArRising(arTodo) /\ \A i \in 1..Len(arStack), j \in 1..Len(arTodo) : ArRank[arStack[i]] < ArRank[arTodo[j]]
  BY DEF ArInv, ArOrderInv
<1>5. ArRising(arTodo')
  <2> SUFFICES ASSUME NEW i \in 1..Len(arTodo'), NEW j \in 1..Len(arTodo'), i < j
               PROVE  ArRank[arTodo'[i]] < ArRank[arTodo'[j]]
    BY DEF ArRising
  <2>1. i + 1 < j + 1
    OBVIOUS
  <2> QED
    BY <1>2, <1>4, <2>1 DEF ArRising
<1>6. ASSUME NEW i \in 1..Len(arTodo') PROVE ArRank[Head(arTodo)] < ArRank[arTodo'[i]]
  <2>1. 1 < i + 1
    OBVIOUS
  <2> QED
    BY <1>2, <1>3, <1>4, <2>1 DEF ArRising
<1>7. /\ \A i \in 1..Len(arStack) : ArRank[arStack[i]] < ArRank[Head(arTodo)]
      /\ \A i \in 1..Len(arStack), j \in 1..Len(arTodo') : ArRank[arStack[i]] < ArRank[arTodo'[j]]
  BY <1>2, <1>3, <1>4
<1>8. /\ \A p \in ArMandatory(arHosted) : ArIn(p, arStack) \/ p = Head(arTodo) \/ ArIn(p, arTodo')
      /\ arHosted => /\ ~ArIn("opencodeSyncer", arTodo') /\ ~ArIn("supervisor", arTodo') /\ ~ArIn("child", arTodo')
                     /\ Head(arTodo) \notin {"opencodeSyncer", "supervisor", "child"}
  BY <1>2 DEF ArInv, ArOrderInv
<1> QED
  BY <1>2, <1>5, <1>6, <1>7, <1>8

LEMMA ArSkipKeeps ==
  ASSUME ArInv, ArSkip
  PROVE  ArInv'
<1>1. /\ arPhase = "starting" /\ arTodo # <<>> /\ arTodo' = Tail(arTodo)
      /\ UNCHANGED <<arHosted, arPhase, arStack, arUp, arCancelled, arRequests, arWorkers, arFlips>>
      /\ Head(arTodo) \in ArOptional
  BY DEF ArSkip, arRunVars
<1>2. ArShape'
  <2>1. Len(arStack) \in Nat /\ Len(arTodo) \in Nat /\ Len(ArStages(arHosted)) \in Nat
    BY ArStagesRise DEF ArInv, ArShape
  <2>2. (Len(arStack) + Len(arTodo) <= Len(ArStages(arHosted)))'
    BY <1>1, <2>1, ArTodoShrinks DEF ArInv, ArShape
  <2> QED
    BY <1>1, <2>2, ArTodoShrinks DEF ArInv, ArShape
<1>3. ArOrderInv'
  <2>1. \A p \in ArMandatory(arHosted) : p \notin ArOptional
    BY DEF ArMandatory, ArOptional
  <2> QED
    BY <1>1, <2>1, ArTodoShrinks DEF ArInv, ArOrderInv
<1>4. ArStackInv'
  BY <1>1 DEF ArInv, ArStackInv
<1> QED
  BY <1>2, <1>3, <1>4 DEF ArInv

\* What a part uses is on the stack when the part is started.
LEMMA ArStartKeeps ==
  ASSUME ArInv, ArStart
  PROVE  ArInv'
<1> DEFINE p == Head(arTodo)
<1>1. /\ arPhase = "starting" /\ arTodo # <<>> /\ arTodo' = Tail(arTodo) /\ arUp' = arUp \cup {p}
      /\ UNCHANGED <<arHosted, arPhase, arCancelled, arRequests, arWorkers, arFlips>>
      /\ arStack' = IF p = "child" THEN arStack ELSE Append(arStack, p)
  BY DEF ArStart
<1>2. /\ arTodo' \in Seq(ArParts) /\ ArRising(arTodo') /\ Len(arTodo') = Len(arTodo) - 1
      /\ \A i \in 1..Len(arTodo') : ArRank[p] < ArRank[arTodo'[i]]
      /\ \A i \in 1..Len(arStack) : ArRank[arStack[i]] < ArRank[p]
      /\ \A i \in 1..Len(arStack), j \in 1..Len(arTodo') : ArRank[arStack[i]] < ArRank[arTodo'[j]]
      /\ \A q \in ArMandatory(arHosted) : ArIn(q, arStack) \/ q = p \/ ArIn(q, arTodo')
      /\ arHosted => /\ ~ArIn("opencodeSyncer", arTodo') /\ ~ArIn("supervisor", arTodo') /\ ~ArIn("child", arTodo')
                     /\ p \notin {"opencodeSyncer", "supervisor", "child"}
  BY <1>1, ArTodoShrinks
<1>3. arTodo \in Seq(ArParts) /\ arStack \in Seq(ArParts) /\ arHosted \in BOOLEAN
  BY DEF ArInv, ArShape
<1>4. p \in ArParts /\ Len(arTodo) \in Nat \ {0}
  <2>1. ArIsTail(Tail(arTodo), arTodo)
    BY <1>1, <1>3, ArTailIs
  <2> QED
    BY <2>1 DEF ArIsTail
<1> HIDE DEF p
\* What stands before p and is not optional has been started.
<1>5. ASSUME NEW q \in ArMandatory(arHosted), ArRank[q] < ArRank[p] PROVE ArIn(q, arStack)
  <2>1. q # p
    BY <1>4, <1>5, ArRankIsNat
  <2>2. ~ArIn(q, arTodo')
    <3> SUFFICES ASSUME NEW i \in 1..Len(arTodo'), arTodo'[i] = q PROVE FALSE
      BY DEF ArIn
    <3>1. ArRank[p] < ArRank[q]
      BY <1>2
    <3>2. q \in ArParts
      BY DEF ArMandatory, ArParts
    <3>3. ArRank[p] \in Nat /\ ArRank[q] \in Nat
      BY <1>4, <3>2, ArRankIsNat
    <3> QED
      BY <1>5, <3>1, <3>3
  <2> QED
    BY <1>2, <2>1, <2>2
<1>6. ASSUME p \in DOMAIN ArUses, NEW q \in ArUses[p] PROVE ArIn(q, arStack)
  <2>1. q \in ArMandatory(arHosted)
    BY <1>2, <1>6, <1>3, ArUsesBelow DEF ArMandatory
  <2>2. ArRank[q] < ArRank[p]
    BY <1>6, ArUsesBelow, ArRanks
  <2> QED
    BY <1>5, <2>1, <2>2
<1>7. Len(arStack) \in Nat /\ Len(arTodo) \in Nat /\ Len(ArStages(arHosted)) \in Nat
  BY <1>3, ArStagesRise
<1>8. ArRising(arStack) /\ ArStackInv
  BY DEF ArInv, ArOrderInv
<1>9. CASE p = "child"
  <2>1. arStack' = arStack
    BY <1>1, <1>9
  <2>2. ArShape'
    <3>1. (Len(arStack) + Len(arTodo) <= Len(ArStages(arHosted)))'
      BY <1>1, <1>2, <1>7, <2>1 DEF ArInv, ArShape
    <3> QED
      BY <1>1, <1>2, <1>4, <2>1, <3>1 DEF ArInv, ArShape
  <2>3. ArOrderInv'
    <3>1. \A q \in ArMandatory(arHosted) : q # "child"
      BY DEF ArMandatory
    <3> QED
      BY <1>1, <1>2, <1>8, <1>9, <2>1, <3>1 DEF ArOrderInv
  <2>4. ArIn("supervisor", arStack)
    BY <1>6, <1>9, ArUsesBelow
  <2>5. ArStackInv'
    BY <1>1, <1>8, <1>9, <2>1, <2>4 DEF ArStackInv
  <2> QED
    BY <2>2, <2>3, <2>5 DEF ArInv
<1>10. CASE p # "child"
  <2>1. arStack' = Append(arStack, p)
    BY <1>1, <1>10
  <2>2. ArIsLonger(arStack', arStack, p)
    <3>1. ArIsLonger(Append(arStack, p), arStack, p)
      BY <1>3, <1>4, ArAppended
    <3> QED
      BY <2>1, <3>1
  <2>3. PICK longer : arStack' = longer
    OBVIOUS
  <2>4. /\ longer \in Seq(ArParts) /\ Len(longer) = Len(arStack) + 1
        /\ \A i \in 1..Len(arStack) : longer[i] = arStack[i]
        /\ longer[Len(arStack) + 1] = p
        /\ \A q : ArIn(q, longer) <=> ArIn(q, arStack) \/ q = p
    BY <2>2, <2>3 DEF ArIsLonger
  <2>5. \A i \in 1..Len(longer) : i \in 1..Len(arStack) \/ i = Len(arStack) + 1
    BY <1>7, <2>4
  <2>6. ArShape'
    <3>1. (Len(arStack) + Len(arTodo) <= Len(ArStages(arHosted)))'
      BY <1>1, <1>2, <1>7, <2>3, <2>4 DEF ArInv, ArShape
    <3> QED
      BY <1>1, <1>2, <1>4, <2>3, <2>4, <3>1 DEF ArInv, ArShape
  <2>7. ArOrderInv'
    <3>1. ArRising(longer)
      <4> SUFFICES ASSUME NEW i \in 1..Len(longer), NEW j \in 1..Len(longer), i < j
                   PROVE  ArRank[longer[i]] < ArRank[longer[j]]
        BY DEF ArRising
      <4>1. i \in 1..Len(arStack)
        BY <1>7, <2>4
      <4>2. CASE j \in 1..Len(arStack)
        BY <1>8, <2>4, <4>1, <4>2 DEF ArRising
      <4>3. CASE j = Len(arStack) + 1
        BY <1>2, <2>4, <4>1, <4>3
      <4> QED
        BY <2>5, <4>2, <4>3
    <3>2. \A i \in 1..Len(longer), j \in 1..Len(arTodo') : ArRank[longer[i]] < ArRank[arTodo'[j]]
      BY <1>2, <2>4, <2>5
    <3>3. \A q \in ArMandatory(arHosted) : ArIn(q, longer) \/ ArIn(q, arTodo')
      BY <1>2, <2>4
    <3> QED
      BY <1>1, <1>2, <2>3, <3>1, <3>2, <3>3 DEF ArOrderInv
  <2>8. ArStackInv'
    <3>1. /\ \A q \in arUp' \ {"child"} : ArIn(q, longer)
          /\ "child" \in arUp' => ArIn("supervisor", longer)
      BY <1>1, <1>8, <1>10, <2>4 DEF ArStackInv
    <3>2. \A i \in 1..Len(longer) : longer[i] # "child" /\ (longer[i] # "listener" => longer[i] \in arUp')
      BY <1>1, <1>8, <1>10, <2>4, <2>5 DEF ArStackInv
    <3>3. \A r \in DOMAIN ArUses \ {"child"} : ArIn(r, longer) => \A q \in ArUses[r] : ArIn(q, longer)
      BY <1>6, <1>8, <2>4 DEF ArStackInv
    <3>4. (arWorkers => "manager" \in arUp)' /\ arPhase' # "returned"
      BY <1>1, <1>8 DEF ArStackInv
    <3> QED
      BY <2>3, <3>1, <3>2, <3>3, <3>4 DEF ArStackInv
  <2> QED
    BY <2>6, <2>7, <2>8 DEF ArInv
<1> QED
  BY <1>9, <1>10

\* What is taken down is the last of the stack, and nothing left on it uses that.
LEMMA ArCloseKeeps ==
  ASSUME ArInv, ArCloseNext
  PROVE  ArInv'
<1> DEFINE p == arStack[Len(arStack)]
<1>1. /\ arPhase = "closing" /\ arStack # <<>> /\ arUp' = arUp \ ArTakenDown(p)
      /\ arWorkers' = (arWorkers /\ p # "manager") /\ arStack' = SubSeq(arStack, 1, Len(arStack) - 1)
      /\ UNCHANGED <<arHosted, arPhase, arTodo, arCancelled, arRequests, arFlips>>
  BY DEF ArCloseNext, ArNextDown, ArStackLeft
<1>2. arTodo \in Seq(ArParts) /\ arStack \in Seq(ArParts) /\ arHosted \in BOOLEAN
  BY DEF ArInv, ArShape
<1>3. ArIsFront(arStack', arStack)
  <2>1. ArIsFront(SubSeq(arStack, 1, Len(arStack) - 1), arStack)
    BY <1>1, <1>2, ArFrontIs
  <2> QED
    BY <1>1, <2>1
<1>4. PICK front : arStack' = front
  OBVIOUS
<1>5. /\ front \in Seq(ArParts) /\ Len(front) = Len(arStack) - 1 /\ Len(arStack) \in Nat \ {0}
      /\ \A i \in 1..Len(front) : front[i] = arStack[i] /\ i \in 1..Len(arStack)
      /\ p \in ArParts
      /\ \A q : ArIn(q, arStack) <=> ArIn(q, front) \/ q = p
  BY <1>3, <1>4 DEF ArIsFront
<1>6. \A i \in 1..Len(front) : ArRank[front[i]] < ArRank[p]
  <2> SUFFICES ASSUME NEW i \in 1..Len(front) PROVE ArRank[front[i]] < ArRank[p]
    OBVIOUS
  <2>1. i < Len(arStack) /\ Len(arStack) \in 1..Len(arStack) /\ i \in 1..Len(arStack) /\ front[i] = arStack[i]
    BY <1>5
  <2>2. ArRising(arStack)
    BY DEF ArInv, ArOrderInv
  <2>3. ArRank[arStack[i]] < ArRank[arStack[Len(arStack)]]
    BY <2>1, <2>2 DEF ArRising
  <2> QED
    BY <2>1, <2>3
<1>7. Len(ArStages(arHosted)) \in Nat /\ Len(arTodo) \in Nat
  BY <1>2, ArStagesRise
<1>8. ArStackInv
  BY DEF ArInv
<1> HIDE DEF p
<1>9. \A i \in 1..Len(front) : front[i] \in ArParts /\ ArRank[front[i]] \in Nat /\ front[i] # p
  <2> SUFFICES ASSUME NEW i \in 1..Len(front)
               PROVE  front[i] \in ArParts /\ ArRank[front[i]] \in Nat /\ front[i] # p
    OBVIOUS
  <2>1. front[i] \in ArParts /\ ArRank[front[i]] < ArRank[p]
    BY <1>5, <1>6
  <2>2. ArRank[front[i]] \in Nat /\ ArRank[p] \in Nat
    BY <1>5, <2>1, ArRankOf
  <2>3. ~(ArRank[p] < ArRank[p])
    BY <2>2
  <2> QED
    BY <2>1, <2>2, <2>3
<1>10. ArShape'
  <2>1. (Len(arStack) + Len(arTodo) <= Len(ArStages(arHosted)))'
    BY <1>1, <1>4, <1>5, <1>7 DEF ArInv, ArShape
  <2>2. arUp' \subseteq ArParts /\ arWorkers' \in BOOLEAN
    BY <1>1 DEF ArInv, ArShape
  <2> QED
    BY <1>1, <1>4, <1>5, <2>1, <2>2 DEF ArInv, ArShape
<1>11. ArOrderInv'
  BY <1>1, <1>4, <1>5 DEF ArInv, ArOrderInv, ArRising
<1>12. ArStackInv'
  <2>1. ASSUME NEW q \in arUp' \ {"child"} PROVE ArIn(q, front)
    <3>1. q \in arUp /\ q # p
      BY <1>1 DEF ArTakenDown
    <3> QED
      BY <1>5, <1>8, <3>1 DEF ArStackInv
  <2>2. "child" \in arUp' => ArIn("supervisor", front)
    <3>1. "child" \in arUp' => "child" \in arUp /\ p # "supervisor"
      BY <1>1 DEF ArTakenDown
    <3> QED
      BY <1>5, <1>8, <3>1 DEF ArStackInv
  <2>3. ASSUME NEW i \in 1..Len(front)
        PROVE  front[i] # "child" /\ (front[i] # "listener" => front[i] \in arUp')
    BY <1>1, <1>5, <1>8, <1>9 DEF ArStackInv, ArTakenDown
  <2>4. ASSUME NEW r \in DOMAIN ArUses \ {"child"}, ArIn(r, front), NEW q \in ArUses[r] PROVE ArIn(q, front)
    <3>1. ArIn(q, arStack)
      BY <1>5, <1>8, <2>4 DEF ArStackInv
    <3>2. ArRank[q] < ArRank[r] /\ q \in ArParts /\ r \in ArParts
      BY <2>4, ArUsesBelow, ArRanks DEF ArParts
    <3>3. ArRank[r] < ArRank[p]
      BY <1>6, <2>4 DEF ArIn
    <3>4. q # p
      <4>1. ArRank[q] \in Nat /\ ArRank[r] \in Nat /\ ArRank[p] \in Nat
        BY <1>5, <3>2, ArRankOf
      <4> DEFINE x == ArRank[q]
                 y == ArRank[r]
                 z == ArRank[p]
      <4>2. x < y /\ y < z /\ x \in Nat /\ y \in Nat /\ z \in Nat
        BY <3>2, <3>3, <4>1
      <4> HIDE DEF x, y, z
      <4>3. x # z
        BY <4>2
      <4> QED
        BY <4>3 DEF x, z
    <3> QED
      BY <1>5, <3>1, <3>4
  <2>5. arWorkers' => "manager" \in arUp'
    BY <1>1, <1>8 DEF ArStackInv, ArTakenDown
  <2> QED
    BY <1>1, <1>4, <2>1, <2>2, <2>3, <2>4, <2>5 DEF ArStackInv
<1> QED
  BY <1>10, <1>11, <1>12 DEF ArInv

LEMMA ArKeeps == ArInv /\ [ArNext]_arVars => ArInv'
<1> SUFFICES ASSUME ArInv, [ArNext]_arVars PROVE ArInv'
  OBVIOUS
<1> USE DEF arStartVars, arRunVars
<1>1. CASE UNCHANGED arVars
  BY <1>1 DEF arVars, ArInv, ArShape, ArOrderInv, ArStackInv
<1>2. CASE ArStart \/ ArSkip \/ ArCloseNext
  BY <1>2, ArStartKeeps, ArSkipKeeps, ArCloseKeeps
<1>3. CASE ArStartFails \/ ArServe \/ ArCancel
  <2>1. ArShape'
    BY <1>3 DEF ArInv, ArShape, ArStartFails, ArServe, ArCancel
  <2> QED
    BY <1>3, <2>1, ArQuietKeeps DEF ArStartFails, ArServe, ArCancel
<1>4. CASE ArRequest \/ ArRequestEnds
  <2>1. arRequests' \in 0..ArMaxRequests
    BY <1>4, ArBounds DEF ArInv, ArShape, ArRequest, ArRequestEnds
  <2>2. ArShape'
    BY <1>4, <2>1 DEF ArInv, ArShape, ArRequest, ArRequestEnds
  <2> QED
    BY <1>4, <2>2, ArQuietKeeps DEF ArRequest, ArRequestEnds
<1>8. CASE ArRequestSends
  <2>1. UNCHANGED <<arHosted, arPhase, arTodo, arStack, arUp, arCancelled, arRequests, arFlips>>
    BY <1>8 DEF ArRequestSends
  <2>2. arWorkers' = ("manager" \in arUp)
    BY <1>8 DEF ArRequestSends
  <2>3. arWorkers' \in BOOLEAN
    BY <2>2
  <2>4. ArShape'
    BY <2>1, <2>3 DEF ArInv, ArShape
  <2>5. arWorkers' => "manager" \in arUp
    BY <2>2
  <2> QED
    BY <2>1, <2>4, <2>5, ArQuietKeeps
<1>5. CASE ArChildFlips
  <2>1. arFlips' \in 0..ArMaxFlips
    BY <1>5, ArBounds DEF ArInv, ArShape, ArChildFlips
  <2>2. arUp' \subseteq ArParts
    BY <1>5 DEF ArInv, ArShape, ArChildFlips, ArParts
  <2>3. ArShape'
    BY <1>5, <2>1, <2>2 DEF ArInv, ArShape, ArChildFlips
  <2> QED
    BY <1>5, <2>3, ArQuietKeeps DEF ArChildFlips
<1>6. CASE ArServeEnds
  <2>1. ArShape'
    BY <1>6 DEF ArInv, ArShape, ArServeEnds
  <2> QED
    BY <1>6, <2>1, ArQuietKeeps DEF ArServeEnds
<1>7. CASE ArReturn
  <2>1. ArShape'
    BY <1>7, ArBounds DEF ArInv, ArShape, ArReturn
  <2> QED
    BY <1>7, <2>1, ArQuietKeeps DEF ArReturn
<1> QED
  BY <1>1, <1>2, <1>3, <1>4, <1>5, <1>6, <1>7, <1>8 DEF ArNext

\* What runs is on the stack with all it uses, and the stack is empty in the end.
LEMMA ArHolds == ArInv => ArTypeOK /\ ArUsersFirst /\ ArTornDown
<1> SUFFICES ASSUME ArInv PROVE ArTypeOK /\ ArUsersFirst /\ ArTornDown
  OBVIOUS
<1>1. ArTypeOK
  <2>1. Len(arStack) \in Nat /\ Len(arTodo) \in Nat /\ Len(ArStages(arHosted)) \in Nat
    BY ArStagesRise DEF ArInv, ArShape
  <2> QED
    BY <2>1 DEF ArInv, ArShape, ArTypeOK
<1>2. ASSUME NEW p \in arUp \cap DOMAIN ArUses, NEW q \in ArUses[p] PROVE q \in arUp
  <2>1. ArIn(q, arStack)
    <3>1. CASE p = "child"
      BY <1>2, <3>1, ArUsesBelow DEF ArInv, ArStackInv
    <3>2. CASE p # "child"
      BY <1>2, <3>2 DEF ArInv, ArStackInv
    <3> QED
      BY <3>1, <3>2
  <2>2. q # "listener"
    BY <1>2, ArUsesBelow
  <2> QED
    BY <2>1, <2>2 DEF ArInv, ArStackInv, ArIn
<1>3. ArTornDown
  <2> SUFFICES ASSUME arPhase = "returned" PROVE arUp = {} /\ ~arWorkers
    BY DEF ArTornDown
  <2>1. arStack = <<>>
    BY DEF ArInv, ArStackInv
  <2>2. \A p : ~ArIn(p, arStack)
    BY <2>1 DEF ArIn
  <2> QED
    BY <2>2 DEF ArInv, ArStackInv
<1> QED
  BY <1>1, <1>2, <1>3 DEF ArUsersFirst
-----------------------------------------------------------------------------
(* The parts together.                                                       *)

RecordsInv == PsInv /\ CaInv /\ CgInv /\ CdInv /\ TiInv /\ CuInv /\ UpInv

LEMMA RecordsStart == Init => RecordsInv
  BY PsStarts, CaStarts, CgStarts, CdStarts, TiStarts, CuStarts, UpStarts DEF Init, RecordsInv

\* A step is one of a part's own or leaves the part alone.
LEMMA PartsStep ==
  ASSUME [Next]_recordVars
  PROVE  /\ [PsNext]_psVars /\ [CaNext]_caVars /\ [CgNext]_cgVars /\ [CdNext]_cdVars
         /\ [TiNext]_tiVars /\ [CuNext]_cuVars /\ [UpNext]_upVars
<1>1. CASE UNCHANGED recordVars
  BY <1>1 DEF recordVars
<1>2. CASE Next
  <2>1. [PsNext]_psVars /\ [CaNext]_caVars /\ [CgNext]_cgVars /\ [CdNext]_cdVars
    BY <1>2 DEF Next, Rest
  <2>2. [TiNext]_tiVars /\ [CuNext]_cuVars /\ [UpNext]_upVars
    BY <1>2 DEF Next, Rest
  <2> QED
    BY <2>1, <2>2
<1> QED
  BY <1>1, <1>2

LEMMA RecordsStep == RecordsInv /\ [Next]_recordVars => RecordsInv'
<1> SUFFICES ASSUME RecordsInv, [Next]_recordVars PROVE RecordsInv'
  OBVIOUS
<1>1. /\ [PsNext]_psVars /\ [CaNext]_caVars /\ [CgNext]_cgVars /\ [CdNext]_cdVars
      /\ [TiNext]_tiVars /\ [CuNext]_cuVars /\ [UpNext]_upVars
  BY PartsStep
<1>2. PsInv /\ CaInv /\ CgInv /\ CdInv /\ TiInv /\ CuInv /\ UpInv
  BY DEF RecordsInv
<1> QED
  BY <1>1, <1>2, PsKeeps, CaKeeps, CgKeeps, CdKeeps, TiKeeps, CuKeeps, UpKeeps DEF RecordsInv

\* The invariants of the parts hold in every behaviour of the server's records.
THEOREM RecordsInvariance == Spec => []RecordsInv
  BY RecordsStart, RecordsStep, PTL DEF Spec

\* Once nothing is under way, the catalogs of OpenCode, Claude and Codex show what
\* the runtimes have, and every session that may be titled is (the syncs, events,
\* refreshes and local calls of opencode/catalog.go, claude/catalog.go and
\* codex/catalog.go, and the passes of autotitle).
THEOREM NothingIsForgotten == Spec => []CaughtUp
<1>1. RecordsInv => CaughtUp
  BY CaAlways, CgHolds, CdHolds, TiHolds DEF RecordsInv, CaughtUp
<1> QED
  BY <1>1, RecordsInvariance, PTL

\* No step takes away what is still there or what the user chose: a projection of a
\* session that exists, a local intent, a pin, a project's visibility or a name the
\* user gave; and a Replace that succeeds leaves one whole projection.
THEOREM NothingIsTaken == Spec => LossesAreMeant
<1> DEFINE Meant == /\ CaPrunesOnlyDeleted /\ CgPrunesOnlyGone /\ CdIntentKept /\ PsReplacedWhole
                    /\ CuPinsKept /\ CuChoiceStands /\ TiManualStands
<1>1. RecordsInv /\ [Next]_recordVars => [Meant]_recordVars
  <2> SUFFICES ASSUME RecordsInv, [Next]_recordVars PROVE Meant
    OBVIOUS
  <2>1. /\ [PsNext]_psVars /\ [CaNext]_caVars /\ [CgNext]_cgVars /\ [CdNext]_cdVars
        /\ [TiNext]_tiVars /\ [CuNext]_cuVars
    BY PartsStep
  <2>2. PsInv /\ CaInv /\ CgInv /\ CdInv /\ TiInv /\ CuInv
    BY DEF RecordsInv
  <2> QED
    BY <2>1, <2>2, CaPruningIsMeant, CgPruningIsMeant, CdIntentStays, PsReplacingIsWhole, CuPinsStay, CuChoicesStay,
       TiNamesStand
<1>2. (Spec => LossesAreMeant) <=> (Spec => [][Meant]_recordVars)
  BY DEF LossesAreMeant
<1> HIDE DEF Meant
<1>3. Spec => [][Meant]_recordVars
  BY <1>1, RecordsInvariance, PTL DEF Spec
<1> QED
  BY <1>2, <1>3

\* The updater offers only a release that semver orders after the running one, and a
\* restart hands over to a process that serves (updater.go).
THEOREM UpdatesLeadOn == Spec => []UpgradesForward
<1>1. RecordsInv => UpgradesForward
  BY UpHolds DEF RecordsInv, UpgradesForward
<1> QED
  BY <1>1, RecordsInvariance, PTL

\* A local change the user was told of is in a projection of the session until a
\* Remove, whatever Replace, crash or move comes between (projections/store.go).
THEOREM LocalChangesStay == Spec => []PsLocalKept
<1>1. RecordsInv => PsLocalKept
  BY PsHolds DEF RecordsInv
<1> QED
  BY <1>1, RecordsInvariance, PTL

\* No session is pinned and archived at once (pinnedsessions, archivedsessions).
THEOREM PinnedOrArchived == Spec => []CuExclusive
<1>1. RecordsInv => CuExclusive
  BY CuHolds DEF RecordsInv
<1> QED
  BY <1>1, RecordsInvariance, PTL


-----------------------------------------------------------------------------
(* All parts together.                                                       *)

PartsInv == RecordsInv /\ OsInv /\ WaInv /\ SbInv /\ ArInv /\ ScInv /\ SlInv

LEMMA PartsStart == Init => PartsInv
  BY RecordsStart, OsStarts, WaStarts, SbStarts, ArStarts, ScStarts, SlStarts DEF Init, PartsInv

\* A step is one of a part's own or leaves the part alone.
LEMMA OtherPartsStep ==
  ASSUME [Next]_recordVars
  PROVE  /\ [OsNext]_osVars /\ [WaNext]_waVars /\ [SbNext]_sbVars
         /\ [ArNext]_arVars /\ [ScNext]_scVars /\ [SlNext]_slVars
<1>1. CASE UNCHANGED recordVars
  BY <1>1 DEF recordVars
<1>2. CASE Next
  <2>1. [OsNext]_osVars /\ [WaNext]_waVars /\ [SbNext]_sbVars
    BY <1>2 DEF Next, Rest
  <2>2. [ArNext]_arVars /\ [ScNext]_scVars /\ [SlNext]_slVars
    BY <1>2 DEF Next, Rest
  <2> QED
    BY <2>1, <2>2
<1> QED
  BY <1>1, <1>2

LEMMA PartsKeep == PartsInv /\ [Next]_recordVars => PartsInv'
<1> SUFFICES ASSUME PartsInv, [Next]_recordVars PROVE PartsInv'
  OBVIOUS
<1>1. RecordsInv /\ OsInv /\ WaInv /\ SbInv /\ ArInv /\ ScInv /\ SlInv
  BY DEF PartsInv
<1>2. /\ [OsNext]_osVars /\ [WaNext]_waVars /\ [SbNext]_sbVars
      /\ [ArNext]_arVars /\ [ScNext]_scVars /\ [SlNext]_slVars
  BY OtherPartsStep
<1>3. RecordsInv'
  BY <1>1, RecordsStep
<1>4. OsInv' /\ WaInv' /\ SbInv'
  BY <1>1, <1>2, OsKeeps, WaKeeps, SbKeeps
<1>5. ArInv' /\ ScInv' /\ SlInv'
  BY <1>1, <1>2, ArKeeps, ScKeeps, SlKeeps
<1> QED
  BY <1>3, <1>4, <1>5 DEF PartsInv

\* The invariants of all parts hold in every behaviour of the server's records.
THEOREM PartsInvariance == Spec => []PartsInv
  BY PartsStart, PartsKeep, PTL DEF Spec

\* Every part's variables keep their types, for all sets and bounds.
THEOREM RecordsTyped == Spec => []RecordsTypeOK
<1>1. PartsInv => RecordsTypeOK
  <2> SUFFICES ASSUME PartsInv PROVE RecordsTypeOK
    OBVIOUS
  <2>1. PsTypeOK /\ CaTypeOK /\ CgTypeOK /\ CdTypeOK /\ TiTypeOK /\ CuTypeOK /\ UpTypeOK
    BY PsHolds, CaAlways, CgHolds, CdHolds, TiHolds, CuHolds, UpHolds DEF PartsInv, RecordsInv
  <2>2. OsTypeOK /\ WaTypeOK /\ SbTypeOK /\ ArTypeOK /\ ScTypeOK /\ SlTypeOK
    BY OsHolds, WaHolds, SbHolds, ArHolds, ScHolds, SlHolds DEF PartsInv
  <2> QED
    BY <2>1, <2>2 DEF RecordsTypeOK
<1> QED
  BY <1>1, PartsInvariance, PTL

\* What is read out is exact: an acknowledged local change is in a projection
\* (projections/store.go), an answer of the cache has the file's lines
\* (sessions/cache.go, incremental.go), both folds of a file agree, a question is
\* shown while it waits and a fork has no gap (sessions/session.go), and no session
\* is pinned and archived at once.
THEOREM WhatIsReadIsExact == Spec => []RecordsExact
<1>1. PartsInv => RecordsExact
  <2> SUFFICES ASSUME PartsInv PROVE RecordsExact
    OBVIOUS
  <2>1. PsLocalKept /\ CuExclusive
    BY PsHolds, CuHolds DEF PartsInv, RecordsInv
  <2>2. ScAnswersExact /\ SlFoldsAgree /\ SlQuestionExact /\ SlBranchWhole
    BY ScHolds, SlHolds DEF PartsInv
  <2> QED
    BY <2>1, <2>2 DEF RecordsExact
<1> QED
  BY <1>1, PartsInvariance, PTL

\* Those who watch learn the last change: a subscriber of the OpenCode child
\* (opencode/supervisor.go), the browsers that show a running status
\* (server/status.go, status_sweeper.go) and the readers of a session file that is
\* written to (server/sessions_watcher.go).
THEOREM WatchersLearn == Spec => []WatchersTell
<1>1. PartsInv => WatchersTell
  BY OsHolds, SbHolds, WaHolds DEF PartsInv, WatchersTell
<1> QED
  BY <1>1, PartsInvariance, PTL

\* What was started ends: no child outlives its supervisor and no start goes without
\* an answer, nothing of a catalog or a watcher runs after its close, no claim on a
\* title is left, and Run takes down all it started, users first (app/app.go).
THEOREM EverythingEnds == Spec => []NothingLeftBehind
<1>1. PartsInv => NothingLeftBehind
  <2> SUFFICES ASSUME PartsInv PROVE NothingLeftBehind
    OBVIOUS
  <2>1. CaClosedMeansQuiet /\ TiNoClaimLeft
    BY CaAlways, TiHolds DEF PartsInv, RecordsInv
  <2>2. OsNoOrphan /\ OsStartAnswered /\ WaQuietAfterStop /\ ArUsersFirst /\ ArTornDown
    BY OsHolds, WaHolds, ArHolds DEF PartsInv
  <2> QED
    BY <2>1, <2>2 DEF NothingLeftBehind
<1> QED
  BY <1>1, PartsInvariance, PTL
=============================================================================
