-------------------------- MODULE RecordFilesProofs --------------------------

(***************************************************************************)
(* Proofs about the server's own sessions and tables: titles, the user's   *)
(* pins and projects, the update, the watchers of session files, the       *)
(* running status, the cache and what is read from the files.  Each part   *)
(* has an invariant of its own, shown from its Init and Next alone;        *)
(* ServerRecordsProofs puts the parts together.                            *)
(*                                                                         *)
(* What a fold computes is shown by induction on the lines of a file, with *)
(* sets in the place of predicates: InductionUpTo.                         *)
(***************************************************************************)
EXTENDS SessionTitles, Curation, Updater, SessionWatch, StatusBoard, SessionCache, SessionLines,
        FiniteSetTheorems, SequenceTheorems, WellFoundedInduction, TLAPS
-----------------------------------------------------------------------------
(* Titles: who has the claim, what the names say of the past.              *)

TiLabels == {"idle", "gate", "read", "claim", "model", "check", "append", "commit"}
TiNames == [by : {"nobody", "user", "auto"}, n : Nat]

TiShape ==
  /\ tiEachTurn \in BOOLEAN /\ tiUsers \in 0..TiMessages /\ tiName \in TiNames
  /\ tiRenames \in Nat /\ tiAsked \in Nat /\ tiOwed \subseteq {"auto", "force"}
  /\ tiInFlight \in BOOLEAN /\ tiTitled \in BOOLEAN /\ tiCount \in 0..TiMessages
  /\ tiOwned \in BOOLEAN /\ tiRaced \in BOOLEAN
  /\ tiPc \in [TiPasses -> TiLabels] /\ tiForce \in [TiPasses -> BOOLEAN]
  /\ tiInputs \in [TiPasses -> [users : 0..TiMessages, name : TiNames]]

\* The claim is one pass's, and only while its model runs.
TiClaimInv ==
  /\ TiNoClaimLeft
  /\ \A p, q \in TiPasses : tiPc[p] = "model" /\ tiPc[q] = "model" => p = q

\* What the names of the file and of the passes say of the past.
TiNameInv ==
  /\ tiRenames = 0 => ~TiUserNamed(tiName) /\ ~tiOwned
  /\ tiRenames = 0 => \A p \in TiPasses : ~TiUserNamed(tiInputs[p].name)
  /\ tiName.by = "nobody" => tiName.n = 0 /\ ~tiTitled /\ tiCount = 0
  /\ tiName.by = "nobody" =>
       \A p \in TiPasses : tiPc[p] # "commit" /\ tiInputs[p].name.by = "nobody"
  /\ tiName.by # "user" => tiName.n <= tiUsers
  /\ \A p \in TiPasses :
       /\ tiInputs[p].users <= tiUsers
       /\ tiPc[p] \in {"claim", "model", "check", "append", "commit"} => tiInputs[p].users > 0

TiWriters == {p \in TiPasses : tiPc[p] \in {"append", "commit"}}

\* While no two passes were past their second look at once, titles only get newer.
TiRaceInv ==
  ~tiRaced =>
    /\ \A p, q \in TiWriters : p = q
    /\ tiRenames = 0 =>
         /\ tiCount <= tiName.n
         /\ \A p \in TiPasses :
              /\ tiPc[p] = "append" => tiName.n <= tiInputs[p].users
              /\ tiPc[p] = "commit" => tiName.n = tiInputs[p].users

\* A pass that titles the session or owes another pass, or finds it titled.
TiCarries(p) ==
  \/ tiPc[p] \in {"gate", "read", "model", "check", "append"}
  \/ tiPc[p] = "claim" /\ tiInputs[p].users = tiUsers
TiCarried == tiOwed # {} \/ \E p \in TiPasses : TiCarries(p)

\* A session that is to be titled is in someone's hands.
TiHandsInv ==
  tiUsers > 0 /\ tiRenames = 0 =>
    /\ tiName.by = "nobody" => tiOwed # {} \/ \E p \in TiPasses : tiPc[p] # "idle"
    /\ tiEachTurn /\ ~tiRaced /\ tiName.n < tiUsers => TiCarried

TiInv == TiShape /\ TiClaimInv /\ TiNameInv /\ TiRaceInv /\ TiHandsInv

-----------------------------------------------------------------------------
LEMMA TiStarts == TiInit => TiInv
<1> SUFFICES ASSUME TiInit PROVE TiInv
  OBVIOUS
<1> USE TiConstants DEF TiInit
<1>1. TiShape
  <2>1. TiNoName \in TiNames
    BY DEF TiNoName, TiNames
  <2>2. /\ tiPc \in [TiPasses -> TiLabels] /\ tiForce \in [TiPasses -> BOOLEAN]
        /\ tiInputs \in [TiPasses -> [users : 0..TiMessages, name : TiNames]]
    BY <2>1 DEF TiLabels
  <2>3. /\ tiEachTurn \in BOOLEAN /\ tiUsers \in 0..TiMessages /\ tiCount \in 0..TiMessages
        /\ tiRenames \in Nat /\ tiAsked \in Nat
    OBVIOUS
  <2>4. /\ tiOwed \subseteq {"auto", "force"} /\ tiInFlight \in BOOLEAN /\ tiTitled \in BOOLEAN
        /\ tiOwned \in BOOLEAN /\ tiRaced \in BOOLEAN
    OBVIOUS
  <2>5. tiName \in TiNames
    BY <2>1
  <2> HIDE DEF TiInit
  <2> QED
    BY <2>2, <2>3, <2>4, <2>5 DEF TiShape
<1>2. TiClaimInv /\ TiRaceInv /\ TiHandsInv
  BY DEF TiClaimInv, TiNoClaimLeft, TiRaceInv, TiWriters, TiHandsInv, TiNoName
<1>3. TiNameInv
  BY DEF TiNameInv, TiNoName, TiUserNamed
<1> QED
  BY <1>1, <1>2, <1>3 DEF TiInv

\* Two elements make a cardinality of more than one.
LEMMA TwoElements ==
  ASSUME NEW S, IsFiniteSet(S), NEW p \in S, NEW q \in S, p # q
  PROVE  Cardinality(S) > 1
<1>1. IsFiniteSet(S \ {p}) /\ Cardinality(S \ {p}) = Cardinality(S) - 1
  BY FS_RemoveElement
<1>2. Cardinality(S \ {p}) \in Nat /\ Cardinality(S) \in Nat
  BY <1>1, FS_CardinalityType
<1>3. Cardinality(S \ {p}) # 0
  <2>1. S \ {p} # {}
    OBVIOUS
  <2> QED
    BY <1>1, <2>1, FS_EmptySet
<1> QED
  BY <1>1, <1>2, <1>3

\* What a move of a pass does, and that tiRaced notes two writers.
LEMMA TiMovesTo ==
  ASSUME TiShape, NEW p \in TiPasses, NEW from, NEW label \in TiLabels, TiMoves(p, from, label)
  PROVE  /\ tiPc[p] = from /\ tiPc' = [tiPc EXCEPT ![p] = label]
         /\ tiPc' \in [TiPasses -> TiLabels]
         /\ \A q \in TiPasses : tiPc'[q] = IF q = p THEN label ELSE tiPc[q]
         /\ UNCHANGED <<tiEachTurn, tiForce, tiAsked>>
         /\ tiRaced' \in BOOLEAN /\ (~tiRaced' => ~tiRaced)
         /\ ~tiRaced' => \A q, r \in TiWriters' : q = r
<1>1. /\ tiPc[p] = from /\ tiPc' = [tiPc EXCEPT ![p] = label]
      /\ tiPc' \in [TiPasses -> TiLabels]
      /\ \A q \in TiPasses : tiPc'[q] = IF q = p THEN label ELSE tiPc[q]
      /\ UNCHANGED <<tiEachTurn, tiForce, tiAsked>>
  BY DEF TiMoves, TiGoto, TiShape
<1>2. TiWriters' = {q \in TiPasses : tiPc'[q] \in {"append", "commit"}}
  BY DEF TiWriters
<1>3. tiRaced' = (tiRaced \/ Cardinality(TiWriters') > 1)
  BY <1>2 DEF TiMoves
<1>4. tiRaced' \in BOOLEAN /\ (~tiRaced' => ~tiRaced)
  BY <1>3
<1>5. ASSUME ~tiRaced', NEW q \in TiWriters', NEW r \in TiWriters', q # r PROVE FALSE
  <2>1. IsFiniteSet(TiWriters')
    BY <1>2, TiPassesFinite, FS_Subset
  <2>2. Cardinality(TiWriters') > 1
    BY <2>1, <1>5, TwoElements
  <2> QED
    BY <2>2, <1>3, <1>5
<1> QED
  BY <1>1, <1>4, <1>5

\* The file changes: a message, a rename.
LEMMA TiFileKeeps ==
  ASSUME TiInv, TiMessage \/ TiRename \/ TiRegenerate
  PROVE  TiInv'
<1> USE TiConstants DEF TiInv
<1>1. TiShape'
  <2>1. tiUsers' \in 0..TiMessages /\ tiRenames' \in Nat /\ tiAsked' \in Nat
    BY DEF TiShape, TiMessage, TiRename, TiRegenerate, tiFileVars
  <2>2. tiName' \in TiNames
    BY DEF TiShape, TiMessage, TiRename, TiRegenerate, tiFileVars, TiNames
  <2>3. UNCHANGED <<tiEachTurn, tiMapVars, tiPassVars>> /\ tiOwed' \subseteq {"auto", "force"}
    BY DEF TiShape, TiMessage, TiRename, TiRegenerate
  <2> QED
    BY <2>1, <2>2, <2>3 DEF TiShape, tiMapVars, tiPassVars
<1>2. TiClaimInv'
  BY DEF TiClaimInv, TiNoClaimLeft, TiMessage, TiRename, TiRegenerate, tiMapVars, tiPassVars
<1>3. TiNameInv'
  BY DEF TiNameInv, TiShape, TiNames, TiUserNamed, TiMessage, TiRename, TiRegenerate, tiMapVars, tiPassVars, tiFileVars
<1>4. TiRaceInv'
  BY DEF TiRaceInv, TiShape, TiWriters, TiMessage, TiRename, TiRegenerate, tiMapVars, tiPassVars, tiFileVars
<1>5. TiHandsInv'
  BY DEF TiHandsInv, TiCarried, TiCarries, TiShape, TiMessage, TiRename, TiRegenerate, tiMapVars, tiPassVars, tiFileVars
<1> QED
  BY <1>1, <1>2, <1>3, <1>4, <1>5

\* A pass begins.
LEMMA TiStartKeeps ==
  ASSUME TiInv, NEW p \in TiPasses, TiStart(p)
  PROVE  TiInv'
<1> USE DEF TiInv
<1>0. /\ tiPc[p] = "idle" /\ tiPc' = [tiPc EXCEPT ![p] = "gate"] /\ tiPc' \in [TiPasses -> TiLabels]
      /\ \A q \in TiPasses : tiPc'[q] = IF q = p THEN "gate" ELSE tiPc[q]
      /\ UNCHANGED <<tiEachTurn, tiFileVars, tiAsked, tiMapVars, tiInputs, tiRaced>>
      /\ tiOwed' \subseteq tiOwed /\ tiForce' \in [TiPasses -> BOOLEAN]
  BY DEF TiStart, TiGoto, TiShape, TiLabels
<1>1. TiShape'
  BY <1>0 DEF TiShape, tiFileVars, tiMapVars
<1>2. TiClaimInv'
  BY <1>0 DEF TiClaimInv, TiNoClaimLeft, tiMapVars
<1>3. TiNameInv'
  BY <1>0 DEF TiNameInv, tiFileVars, tiMapVars
<1>4. TiRaceInv'
  <2>1. TiWriters' = TiWriters
    BY <1>0 DEF TiWriters
  <2> QED
    BY <1>0, <2>1 DEF TiRaceInv, tiFileVars, tiMapVars
<1>5. TiHandsInv'
  BY <1>0 DEF TiHandsInv, TiCarried, TiCarries, tiFileVars, tiMapVars
<1> QED
  BY <1>1, <1>2, <1>3, <1>4, <1>5

\* The gate and the reading.
LEMMA TiGateKeeps ==
  ASSUME TiInv, NEW p \in TiPasses, TiGate(p)
  PROVE  TiInv'
<1> USE DEF TiInv
<1> DEFINE refused == tiInFlight \/ (~tiForce[p] /\ (tiOwned \/ (~tiEachTurn /\ tiTitled)))
           label == IF refused THEN "idle" ELSE "read"
<1>0. /\ TiMoves(p, "gate", label) /\ label \in TiLabels
      /\ UNCHANGED <<tiFileVars, tiOwed, tiMapVars, tiInputs>>
  BY DEF TiGate, TiLabels
<1>00. /\ tiPc[p] = "gate" /\ tiPc' \in [TiPasses -> TiLabels]
       /\ \A q \in TiPasses : tiPc'[q] = IF q = p THEN label ELSE tiPc[q]
       /\ UNCHANGED <<tiEachTurn, tiForce, tiAsked>>
       /\ tiRaced' \in BOOLEAN /\ (~tiRaced' => ~tiRaced)
       /\ ~tiRaced' => \A q, r \in TiWriters' : q = r
  <2> HIDE DEF label
  <2> QED
    BY <1>0, TiMovesTo
<1>1. TiShape'
  BY <1>0, <1>00 DEF TiShape, tiFileVars, tiMapVars
<1>2. TiClaimInv'
  BY <1>0, <1>00 DEF TiClaimInv, TiNoClaimLeft, tiMapVars
<1>3. TiNameInv'
  BY <1>0, <1>00 DEF TiNameInv, tiFileVars, tiMapVars
<1>4. TiRaceInv'
  BY <1>0, <1>00 DEF TiRaceInv, tiFileVars, tiMapVars
<1>5. TiHandsInv'
  <2>1. ASSUME tiUsers > 0, tiRenames = 0, label = "idle", tiName.by = "nobody" \/ tiEachTurn
        PROVE  \E q \in TiPasses : q # p /\ tiPc[q] = "model"
    BY <2>1, <1>00 DEF TiNameInv, TiClaimInv, TiNoClaimLeft
  <2> QED
    BY <1>0, <1>00, <2>1 DEF TiHandsInv, TiCarried, TiCarries, tiFileVars, tiMapVars
<1> QED
  BY <1>1, <1>2, <1>3, <1>4, <1>5

LEMMA TiReadsKeeps ==
  ASSUME TiInv, NEW p \in TiPasses, TiReads(p)
  PROVE  TiInv'
<1> USE DEF TiInv
<1> DEFINE label == IF tiUsers = 0 THEN "idle" ELSE "claim"
<1>0. /\ TiMoves(p, "read", label) /\ label \in TiLabels
      /\ UNCHANGED <<tiFileVars, tiOwed, tiMapVars>>
      /\ tiInputs' = [tiInputs EXCEPT ![p] = TiRead]
  BY DEF TiReads, TiLabels
<1>00. /\ tiPc[p] = "read" /\ tiPc' \in [TiPasses -> TiLabels]
       /\ \A q \in TiPasses : tiPc'[q] = IF q = p THEN label ELSE tiPc[q]
       /\ UNCHANGED <<tiEachTurn, tiForce, tiAsked>>
       /\ tiRaced' \in BOOLEAN /\ (~tiRaced' => ~tiRaced)
       /\ ~tiRaced' => \A q, r \in TiWriters' : q = r
  <2> HIDE DEF label
  <2> QED
    BY <1>0, TiMovesTo
<1>a. /\ \A q \in TiPasses : tiInputs'[q] = IF q = p THEN TiRead ELSE tiInputs[q]
      /\ TiRead.users = tiUsers /\ TiRead.name = tiName
      /\ TiRead \in [users : 0..TiMessages, name : TiNames]
      /\ tiInputs' \in [TiPasses -> [users : 0..TiMessages, name : TiNames]]
  BY <1>0 DEF TiShape, TiRead
<1>1. TiShape'
  BY <1>0, <1>00, <1>a DEF TiShape, tiFileVars, tiMapVars
<1>2. TiClaimInv'
  BY <1>0, <1>00 DEF TiClaimInv, TiNoClaimLeft, tiMapVars
<1>3. TiNameInv'
  <2>1. \A q \in TiPasses : /\ tiInputs'[q].users <= tiUsers
                            /\ tiPc'[q] \in {"claim", "model", "check", "append", "commit"} => tiInputs'[q].users > 0
    BY <1>0, <1>00, <1>a DEF TiNameInv, TiShape
  <2> QED
    BY <1>0, <1>00, <1>a, <2>1 DEF TiNameInv, tiFileVars, tiMapVars
<1>4. TiRaceInv'
  BY <1>0, <1>00, <1>a DEF TiRaceInv, tiFileVars, tiMapVars
<1>5. TiHandsInv'
  <2>1. \A q \in TiPasses : tiUsers > 0 /\ TiCarries(q) => TiCarries(q)'
    BY <1>0, <1>00, <1>a DEF TiCarries, tiFileVars
  <2> QED
    BY <1>0, <1>00, <2>1 DEF TiHandsInv, TiCarried, tiFileVars
<1> QED
  BY <1>1, <1>2, <1>3, <1>4, <1>5

\* A pass claims the session, or finds it titled or claimed.
LEMMA TiClaimKeeps ==
  ASSUME TiInv, NEW p \in TiPasses, TiClaim(p)
  PROVE  TiInv'
<1> USE DEF TiInv
<1>0. /\ UNCHANGED <<tiFileVars, tiOwed, tiTitled, tiCount, tiInputs>>
      /\ tiInFlight' \in BOOLEAN /\ tiOwned' \in BOOLEAN
      /\ \/ /\ TiMoves(p, "claim", "idle") /\ UNCHANGED tiInFlight
            /\ \/ TiUserNamed(tiInputs[p].name)
               \/ tiInFlight /\ UNCHANGED tiOwned
               \/ /\ UNCHANGED tiOwned
                  /\ IF tiEachTurn THEN tiInputs[p].users <= tiCount
                     ELSE tiTitled \/ tiInputs[p].name.by = "auto"
         \/ TiMoves(p, "claim", "model") /\ ~tiInFlight /\ tiInFlight' = TRUE /\ UNCHANGED tiOwned
  BY DEF TiClaim, TiShape
<1>1. PICK label \in {"idle", "model"} : TiMoves(p, "claim", label)
  BY <1>0
<1>2. label \in TiLabels
  BY DEF TiLabels
<1>3. /\ tiPc[p] = "claim" /\ tiPc' \in [TiPasses -> TiLabels]
      /\ \A q \in TiPasses : tiPc'[q] = IF q = p THEN label ELSE tiPc[q]
      /\ UNCHANGED <<tiEachTurn, tiForce, tiAsked>>
      /\ tiRaced' \in BOOLEAN /\ (~tiRaced' => ~tiRaced)
      /\ ~tiRaced' => \A q, r \in TiWriters' : q = r
  BY <1>1, <1>2, TiMovesTo
<1>4. \/ /\ label = "idle" /\ UNCHANGED tiInFlight
         /\ \/ TiUserNamed(tiInputs[p].name)
            \/ tiInFlight /\ UNCHANGED tiOwned
            \/ /\ UNCHANGED tiOwned
               /\ IF tiEachTurn THEN tiInputs[p].users <= tiCount
                  ELSE tiTitled \/ tiInputs[p].name.by = "auto"
      \/ label = "model" /\ ~tiInFlight /\ tiInFlight' = TRUE /\ UNCHANGED tiOwned
  <2>1. ASSUME NEW other \in {"idle", "model"}, TiMoves(p, "claim", other) PROVE label = other
    <3>1. tiPc'[p] = other
      BY <2>1, TiMovesTo DEF TiLabels
    <3> QED
      BY <3>1, <1>3
  <2> QED
    BY <1>0, <2>1
<1>5. TiShape'
  BY <1>0, <1>3 DEF TiShape, tiFileVars
<1>6. TiClaimInv'
  BY <1>3, <1>4 DEF TiClaimInv, TiNoClaimLeft
<1>7. TiNameInv'
  <2>1. tiRenames = 0 => ~tiOwned'
    BY <1>4 DEF TiNameInv
  <2> QED
    BY <1>0, <1>3, <2>1 DEF TiNameInv, tiFileVars
<1>8. TiRaceInv'
  BY <1>0, <1>3 DEF TiRaceInv, tiFileVars
<1>9. TiHandsInv'
  <2>1. CASE label = "model"
    BY <1>0, <1>3, <2>1 DEF TiHandsInv, TiCarried, TiCarries, tiFileVars
  <2>2. CASE tiInFlight
    <3>1. PICK q \in TiPasses : tiPc[q] = "model" /\ q # p
      BY <2>2, <1>3 DEF TiClaimInv, TiNoClaimLeft
    <3>2. tiPc'[q] = "model"
      BY <3>1, <1>3
    <3> QED
      BY <3>1, <3>2 DEF TiHandsInv, TiCarried, TiCarries
  <2>3. CASE TiUserNamed(tiInputs[p].name)
    <3>1. tiRenames' # 0
      BY <2>3, <1>0 DEF TiNameInv, tiFileVars
    <3> QED
      BY <3>1 DEF TiHandsInv
  <2>4. CASE /\ label = "idle"
             /\ IF tiEachTurn THEN tiInputs[p].users <= tiCount
                ELSE tiTitled \/ tiInputs[p].name.by = "auto"
    <3>1. tiName.by # "nobody"
      BY <2>4, <1>3 DEF TiNameInv, TiShape
    <3>2. ASSUME tiEachTurn, ~tiRaced', tiRenames = 0, tiName.n < tiUsers PROVE ~TiCarries(p)
      <4>1. tiCount <= tiName.n /\ tiInputs[p].users <= tiCount
        BY <3>2, <2>4, <1>3 DEF TiRaceInv
      <4>2. tiInputs[p].users < tiUsers /\ tiInputs[p].users \in Nat
        BY <4>1, <3>2 DEF TiShape, TiNames
      <4> QED
        BY <4>2, <1>3 DEF TiCarries
    <3>3. \A q \in TiPasses : q # p /\ TiCarries(q) => TiCarries(q)'
      BY <1>0, <1>3 DEF TiCarries, tiFileVars
    <3> QED
      BY <1>0, <1>3, <3>1, <3>2, <3>3 DEF TiHandsInv, TiCarried, tiFileVars
  <2> QED
    BY <1>4, <2>1, <2>2, <2>3, <2>4
<1> QED
  BY <1>5, <1>6, <1>7, <1>8, <1>9

\* The model has run.
LEMMA TiModelEndsKeeps ==
  ASSUME TiInv, NEW p \in TiPasses, TiModelEnds(p)
  PROVE  TiInv'
<1> USE DEF TiInv
<1>0. /\ TiMoves(p, "model", "check") /\ "check" \in TiLabels /\ tiInFlight' = FALSE
      /\ UNCHANGED <<tiFileVars, tiOwed, tiTitled, tiCount, tiOwned, tiInputs>>
  BY DEF TiModelEnds, TiLabels
<1>00. /\ tiPc[p] = "model" /\ tiPc' \in [TiPasses -> TiLabels]
       /\ \A q \in TiPasses : tiPc'[q] = IF q = p THEN "check" ELSE tiPc[q]
       /\ UNCHANGED <<tiEachTurn, tiForce, tiAsked>>
       /\ tiRaced' \in BOOLEAN /\ (~tiRaced' => ~tiRaced)
       /\ ~tiRaced' => \A q, r \in TiWriters' : q = r
  BY <1>0, TiMovesTo
<1>1. TiShape'
  BY <1>0, <1>00 DEF TiShape, tiFileVars
<1>2. TiClaimInv'
  BY <1>0, <1>00 DEF TiClaimInv, TiNoClaimLeft
<1>3. TiNameInv'
  BY <1>0, <1>00 DEF TiNameInv, tiFileVars
<1>4. TiRaceInv'
  BY <1>0, <1>00 DEF TiRaceInv, tiFileVars
<1>5. TiHandsInv'
  BY <1>0, <1>00 DEF TiHandsInv, TiCarried, TiCarries, tiFileVars
<1> QED
  BY <1>1, <1>2, <1>3, <1>4, <1>5

\* The second look.
LEMMA TiCheckKeeps ==
  ASSUME TiInv, NEW p \in TiPasses, TiCheck(p)
  PROVE  TiInv'
<1> USE DEF TiInv
<1>0. /\ UNCHANGED <<tiFileVars, tiInFlight, tiTitled, tiCount, tiInputs>>
      /\ tiOwned' \in BOOLEAN
      /\ \/ /\ TiMoves(p, "check", "idle") /\ tiOwed' # {} /\ tiOwed' \subseteq {"auto", "force"}
            /\ UNCHANGED tiOwned
         \/ TiMoves(p, "check", "idle") /\ TiUserNamed(tiName) /\ UNCHANGED tiOwed
         \/ /\ TiMoves(p, "check", "append") /\ tiUsers = tiInputs[p].users
            /\ UNCHANGED <<tiOwed, tiOwned>>
  BY DEF TiCheck, TiShape
<1>1. PICK label \in {"idle", "append"} : TiMoves(p, "check", label)
  BY <1>0
<1>2. label \in TiLabels
  BY DEF TiLabels
<1>3. /\ tiPc[p] = "check" /\ tiPc' \in [TiPasses -> TiLabels]
      /\ \A q \in TiPasses : tiPc'[q] = IF q = p THEN label ELSE tiPc[q]
      /\ UNCHANGED <<tiEachTurn, tiForce, tiAsked>>
      /\ tiRaced' \in BOOLEAN /\ (~tiRaced' => ~tiRaced)
      /\ ~tiRaced' => \A q, r \in TiWriters' : q = r
  BY <1>1, <1>2, TiMovesTo
<1>4. \/ label = "idle" /\ tiOwed' # {} /\ tiOwed' \subseteq {"auto", "force"} /\ UNCHANGED tiOwned
      \/ label = "idle" /\ TiUserNamed(tiName) /\ UNCHANGED tiOwed
      \/ label = "append" /\ tiUsers = tiInputs[p].users /\ UNCHANGED <<tiOwed, tiOwned>>
  <2>1. ASSUME NEW other \in {"idle", "append"}, TiMoves(p, "check", other) PROVE label = other
    <3>1. tiPc'[p] = other
      BY <2>1, TiMovesTo DEF TiLabels
    <3> QED
      BY <3>1, <1>3
  <2> QED
    BY <1>0, <2>1
<1>5. TiShape'
  BY <1>0, <1>3, <1>4 DEF TiShape, tiFileVars
<1>6. TiClaimInv'
  BY <1>0, <1>3 DEF TiClaimInv, TiNoClaimLeft
<1>7. TiNameInv'
  <2>1. tiRenames = 0 => ~tiOwned'
    BY <1>4 DEF TiNameInv
  <2> QED
    BY <1>0, <1>3, <2>1 DEF TiNameInv, tiFileVars
<1>8. TiRaceInv'
  <2>1. tiName \in TiNames /\ tiUsers \in Nat /\ (tiRenames = 0 => tiName.n <= tiUsers)
    BY DEF TiNameInv, TiShape, TiUserNamed
  <2>2. label = "append" => tiUsers = tiInputs[p].users
    BY <1>4
  <2> QED
    BY <1>0, <1>3, <2>1, <2>2 DEF TiRaceInv, tiFileVars
<1>9. TiHandsInv'
  <2>1. tiRenames = 0 => ~TiUserNamed(tiName)
    BY DEF TiNameInv
  <2> QED
    BY <1>0, <1>3, <1>4, <2>1 DEF TiHandsInv, TiCarried, TiCarries, tiFileVars
<1> QED
  BY <1>5, <1>6, <1>7, <1>8, <1>9

\* The title is written.
LEMMA TiAppendKeeps ==
  ASSUME TiInv, NEW p \in TiPasses, TiAppend(p)
  PROVE  TiInv'
<1> USE DEF TiInv
<1>0. /\ TiMoves(p, "append", "commit") /\ "commit" \in TiLabels
      /\ tiName' = [by |-> "auto", n |-> tiInputs[p].users]
      /\ tiOwed' = tiOwed \cup {"auto"}
      /\ UNCHANGED <<tiUsers, tiRenames, tiMapVars, tiInputs>>
  BY DEF TiAppend, TiLabels
<1>00. /\ tiPc[p] = "append" /\ tiPc' \in [TiPasses -> TiLabels]
       /\ \A q \in TiPasses : tiPc'[q] = IF q = p THEN "commit" ELSE tiPc[q]
       /\ UNCHANGED <<tiEachTurn, tiForce, tiAsked>>
       /\ tiRaced' \in BOOLEAN /\ (~tiRaced' => ~tiRaced)
       /\ ~tiRaced' => \A q, r \in TiWriters' : q = r
  BY <1>0, TiMovesTo
<1>a. tiName' \in TiNames /\ tiName'.n = tiInputs[p].users /\ tiName'.by = "auto"
  BY <1>0 DEF TiShape, TiNames
<1>1. TiShape'
  BY <1>0, <1>00, <1>a DEF TiShape, tiMapVars
<1>2. TiClaimInv'
  BY <1>0, <1>00 DEF TiClaimInv, TiNoClaimLeft, tiMapVars
<1>3. TiNameInv'
  BY <1>0, <1>00, <1>a DEF TiNameInv, TiUserNamed, tiMapVars
<1>4. TiRaceInv'
  <2>1. ASSUME ~tiRaced', tiRenames = 0 PROVE tiCount <= tiInputs[p].users
    <3>1. tiCount <= tiName.n /\ tiName.n <= tiInputs[p].users
      BY <2>1, <1>00 DEF TiRaceInv
    <3> QED
      BY <3>1 DEF TiShape, TiNames
  <2>2. ASSUME ~tiRaced', NEW q \in TiPasses, tiPc'[q] \in {"append", "commit"} PROVE q = p
    BY <2>2, <1>00 DEF TiWriters
  <2> QED
    BY <1>0, <1>00, <1>a, <2>1, <2>2 DEF TiRaceInv, tiMapVars
<1>5. TiHandsInv'
  BY <1>0 DEF TiHandsInv, TiCarried, tiMapVars
<1> QED
  BY <1>1, <1>2, <1>3, <1>4, <1>5

\* What was written is remembered.
LEMMA TiCommitKeeps ==
  ASSUME TiInv, NEW p \in TiPasses, TiCommit(p)
  PROVE  TiInv'
<1> USE DEF TiInv
<1>0. /\ TiMoves(p, "commit", "idle") /\ "idle" \in TiLabels
      /\ tiTitled' = TRUE /\ tiCount' = tiInputs[p].users /\ tiOwned' = FALSE
      /\ UNCHANGED <<tiFileVars, tiOwed, tiInFlight, tiInputs>>
  BY DEF TiCommit, TiLabels
<1>00. /\ tiPc[p] = "commit" /\ tiPc' \in [TiPasses -> TiLabels]
       /\ \A q \in TiPasses : tiPc'[q] = IF q = p THEN "idle" ELSE tiPc[q]
       /\ UNCHANGED <<tiEachTurn, tiForce, tiAsked>>
       /\ tiRaced' \in BOOLEAN /\ (~tiRaced' => ~tiRaced)
       /\ ~tiRaced' => \A q, r \in TiWriters' : q = r
  BY <1>0, TiMovesTo
<1>1. TiShape'
  BY <1>0, <1>00 DEF TiShape, tiFileVars
<1>2. TiClaimInv'
  BY <1>0, <1>00 DEF TiClaimInv, TiNoClaimLeft
<1>3. TiNameInv'
  BY <1>0, <1>00 DEF TiNameInv, tiFileVars
<1>4. TiRaceInv'
  <2>1. ASSUME ~tiRaced', tiRenames = 0 PROVE tiCount' <= tiName.n
    BY <2>1, <1>0, <1>00 DEF TiRaceInv, TiShape, TiNames
  <2> QED
    BY <1>0, <1>00, <2>1 DEF TiRaceInv, tiFileVars
<1>5. TiHandsInv'
  <2>1. tiName.by # "nobody"
    BY <1>00 DEF TiNameInv
  <2>2. \A q \in TiPasses : TiCarries(q) => TiCarries(q)'
    BY <1>0, <1>00 DEF TiCarries, tiFileVars
  <2> QED
    BY <1>0, <1>00, <2>1, <2>2 DEF TiHandsInv, TiCarried, tiFileVars
<1> QED
  BY <1>1, <1>2, <1>3, <1>4, <1>5

LEMMA TiKeeps == TiInv /\ [TiNext]_tiVars => TiInv'
<1> SUFFICES ASSUME TiInv, [TiNext]_tiVars PROVE TiInv'
  OBVIOUS
<1>1. CASE TiMessage \/ TiRename \/ TiRegenerate
  BY <1>1, TiFileKeeps
<1>2. CASE \E p \in TiPasses : TiStart(p) \/ TiGate(p) \/ TiReads(p) \/ TiClaim(p)
  BY <1>2, TiStartKeeps, TiGateKeeps, TiReadsKeeps, TiClaimKeeps
<1>3. CASE \E p \in TiPasses : TiModelEnds(p) \/ TiCheck(p) \/ TiAppend(p) \/ TiCommit(p)
  BY <1>3, TiModelEndsKeeps, TiCheckKeeps, TiAppendKeeps, TiCommitKeeps
<1>4. CASE UNCHANGED tiVars
  BY <1>4 DEF TiInv, TiShape, TiClaimInv, TiNoClaimLeft, TiNameInv, TiRaceInv, TiWriters, TiHandsInv,
     TiCarried, TiCarries, tiVars, tiFileVars, tiMapVars, tiPassVars
<1> QED
  BY <1>1, <1>2, <1>3, <1>4 DEF TiNext

LEMMA TiHolds == TiInv => TiTypeOK /\ TiNoClaimLeft /\ TiCoversAll
<1> SUFFICES ASSUME TiInv PROVE TiTypeOK /\ TiNoClaimLeft /\ TiCoversAll
  OBVIOUS
<1>1. TiTypeOK /\ TiNoClaimLeft
  BY DEF TiInv, TiShape, TiNames, TiTypeOK, TiClaimInv
<1>2. ASSUME TiQuiet, tiUsers > 0, tiRenames = 0
      PROVE  tiName.by = "auto" /\ (tiEachTurn /\ ~tiRaced => tiName.n = tiUsers)
  <2>1. tiName.by # "nobody" /\ (tiEachTurn /\ ~tiRaced => ~(tiName.n < tiUsers))
    BY <1>2 DEF TiInv, TiHandsInv, TiCarried, TiCarries, TiQuiet
  <2>2. tiName.by # "user" /\ tiName.n <= tiUsers /\ tiUsers \in Nat /\ tiName \in TiNames
    BY <1>2 DEF TiInv, TiNameInv, TiUserNamed, TiShape
  <2> QED
    BY <2>1, <2>2 DEF TiNames
<1> QED
  BY <1>1, <1>2 DEF TiCoversAll

\* A pass goes on to write over a user's name only if it was asked to and saw it.
LEMMA TiNamesStand == TiInv /\ [TiNext]_tiVars => TiManualStands
<1> SUFFICES ASSUME TiInv, [TiNext]_tiVars, NEW p \in TiPasses, tiPc[p] = "check",
                    tiPc'[p] = "append", TiUserNamed(tiName)
             PROVE  tiForce[p] /\ tiInputs[p].name = tiName
  BY DEF TiManualStands
<1>1. ASSUME NEW q \in TiPasses, NEW from, NEW to, TiMoves(q, from, to)
      PROVE  q = p /\ from = "check" /\ to = "append"
  BY <1>1 DEF TiMoves, TiGoto, TiInv, TiShape
<1>2. UNCHANGED tiPc => FALSE
  OBVIOUS
<1>3. ASSUME NEW q \in TiPasses, TiStart(q) PROVE FALSE
  BY <1>3 DEF TiStart, TiGoto, TiInv, TiShape
<1>4. ASSUME NEW q \in TiPasses,
             TiGate(q) \/ TiReads(q) \/ TiClaim(q) \/ TiModelEnds(q) \/ TiAppend(q) \/ TiCommit(q)
      PROVE  FALSE
  <2>1. PICK from \in TiLabels \ {"check"}, to \in TiLabels : TiMoves(q, from, to)
    BY <1>4 DEF TiGate, TiReads, TiClaim, TiModelEnds, TiAppend, TiCommit, TiLabels
  <2> QED
    BY <2>1, <1>1
<1>5. TiCheck(p)
  BY <1>2, <1>3, <1>4, <1>1
     DEF TiNext, TiMessage, TiRename, TiRegenerate, tiVars, tiPassVars, TiCheck
<1>6. ~TiMoves(p, "check", "idle")
  BY <1>1
<1> QED
  BY <1>5, <1>6 DEF TiCheck

-----------------------------------------------------------------------------
(* Pins, archives and projects.                                            *)

CuLabels == {"new", "begin", "first", "second", "commit", "reap pins", "delete", "sync", "insert",
             "choose", "done"}
CuTransaction == {"first", "second", "commit"}
CuRows == {CuNoRow} \cup [enabled : BOOLEAN, source : {"discovered", "registered"}]

CuShape ==
  /\ cuExisting \subseteq CuSessions /\ cuPins \subseteq CuSessions /\ cuArchives \subseteq CuSessions
  /\ cuPrefs \in [CuProjects -> CuRows]
  /\ cuCopy \in [pins : SUBSET CuSessions, archives : SUBSET CuSessions]
  /\ cuPc \in [CuCalls -> CuLabels]
  /\ cuDo \in [CuCalls -> CuJobs \cup {CuNoJob}]
  /\ cuListed \in [CuCalls -> SUBSET (CuSessions \cup CuProjects)]
  /\ cuDefault \in [CuCalls -> BOOLEAN]

\* Where a request is tells what it does, and whether it has the connection.
CuWork ==
  \A c \in CuCalls :
    /\ cuPc[c] \in CuTransaction \cup {"begin"} =>
         cuDo[c].kind \in CuCurations /\ cuDo[c].about \in CuSessions
    /\ cuPc[c] \in {"reap pins", "delete"} => cuDo[c].kind = "reap pins"
    /\ cuHolder = c <=> cuPc[c] \in CuTransaction

\* A transaction's copy lacks only the pin it is to take away, and after each
\* statement no session is in both tables but the one that is archived next.
CuCopyInv ==
  \A c \in CuCalls : cuPc[c] \in CuTransaction =>
    /\ cuPins \ cuCopy.pins \subseteq
         IF cuDo[c].kind \in {"unpin", "archive"} THEN {cuDo[c].about} ELSE {}
    /\ cuCopy.pins \cap cuCopy.archives \subseteq
         IF cuPc[c] = "second" /\ cuDo[c].kind = "archive" THEN {cuDo[c].about} ELSE {}
    /\ cuPc[c] = "second" /\ cuDo[c].kind = "pin" => cuDo[c].about \notin cuCopy.archives

CuInv == CuShape /\ CuWork /\ CuCopyInv /\ CuExclusive
-----------------------------------------------------------------------------
LEMMA CuStarts == CuInit => CuInv
<1> SUFFICES ASSUME CuInit PROVE CuInv
  OBVIOUS
<1>1. CuShape
  BY DEF CuInit, CuShape, CuRows, CuLabels, CuNoCopy
<1>2. CuWork /\ CuCopyInv /\ CuExclusive
  BY CuNobodyElse DEF CuInit, CuWork, CuCopyInv, CuTransaction, CuExclusive
<1> QED
  BY <1>1, <1>2 DEF CuInv

\* A request goes on; nobody else does.
LEMMA CuMoves ==
  ASSUME CuShape, NEW c \in CuCalls, NEW label \in CuLabels, CuGoto(c, label)
  PROVE  cuPc' \in [CuCalls -> CuLabels] /\ \A d \in CuCalls : cuPc'[d] = IF d = c THEN label ELSE cuPc[d]
  BY DEF CuShape, CuGoto

LEMMA CuOthersKeep ==
  ASSUME CuInv, CuFiles \/ CuCrash
  PROVE  CuInv'
<1>1. CASE CuFiles
  <2>1. cuExisting' \subseteq CuSessions
    BY <1>1 DEF CuFiles, CuInv, CuShape
  <2> QED
    BY <1>1, <2>1 DEF CuFiles, CuInv, CuShape, CuWork, CuCopyInv, CuExclusive, cuTables, cuCallVars
<1>2. CASE CuCrash
  <2>1. cuPc' \in [CuCalls -> {"new", "done"}] /\ cuHolder' \notin CuCalls
    BY <1>2, CuNobodyElse DEF CuCrash
  <2>2. CuShape'
    BY <1>2, <2>1 DEF CuCrash, CuInv, CuShape, CuLabels, CuNoCopy, cuTables
  <2>3. CuWork' /\ CuCopyInv' /\ CuExclusive'
    BY <1>2, <2>1 DEF CuCrash, CuInv, CuWork, CuCopyInv, CuExclusive, CuTransaction, cuTables
  <2> QED
    BY <2>2, <2>3 DEF CuInv
<1> QED
  BY <1>1, <1>2

LEMMA CuStartKeeps ==
  ASSUME CuInv, NEW c \in CuCalls, CuStart(c)
  PROVE  CuInv'
<1>1. PICK job \in CuJobs :
        /\ job.kind \in CuCurations => job.about \in cuExisting
        /\ cuDo' = [cuDo EXCEPT ![c] = job]
        /\ CuGoto(c, IF job.kind \in CuCurations THEN "begin"
                     ELSE IF job.kind \in CuChoices THEN "choose"
                     ELSE IF job.kind \in CuSyncs THEN "sync" ELSE "reap pins")
  BY DEF CuStart
<1>2. /\ cuPc[c] = "new"
      /\ UNCHANGED <<cuExisting, cuTables, cuPrefs, cuHolder, cuCopy, cuDefault, cuCrashed>>
      /\ cuListed' \in [CuCalls -> SUBSET (CuSessions \cup CuProjects)]
  <2>1. PICK projects \in SUBSET CuProjects :
          cuListed' = [cuListed EXCEPT ![c] =
                        IF cuDo'[c].kind = "reap pins" THEN cuExisting
                        ELSE IF cuDo'[c].kind \in CuSyncs THEN projects ELSE {}]
    BY DEF CuStart
  <2>2. cuListed' \in [CuCalls -> SUBSET (CuSessions \cup CuProjects)]
    BY <2>1 DEF CuInv, CuShape
  <2> QED
    BY <2>2 DEF CuStart
<1> DEFINE label == IF job.kind \in CuCurations THEN "begin"
                    ELSE IF job.kind \in CuChoices THEN "choose"
                    ELSE IF job.kind \in CuSyncs THEN "sync" ELSE "reap pins"
<1>3. label \in CuLabels \ CuTransaction /\ (label = "begin" => job.kind \in CuCurations /\ job.about \in CuSessions)
  BY <1>1 DEF CuLabels, CuTransaction, CuInv, CuShape
<1>4. label \in {"reap pins", "delete"} => job.kind = "reap pins"
  <2>1. job.kind \in CuCurations \cup CuChoices \cup CuSyncs \cup {"reap pins"}
    BY <1>1 DEF CuJobs
  <2> QED
    BY <2>1
<1> HIDE DEF label
<1>5. cuPc' \in [CuCalls -> CuLabels] /\ \A d \in CuCalls : cuPc'[d] = IF d = c THEN label ELSE cuPc[d]
  BY <1>1, <1>3, CuMoves DEF CuInv, label
<1>6. cuDo' \in [CuCalls -> CuJobs \cup {CuNoJob}] /\ \A d \in CuCalls : cuDo'[d] = IF d = c THEN job ELSE cuDo[d]
  BY <1>1 DEF CuInv, CuShape
<1>7. CuShape'
  BY <1>2, <1>5, <1>6 DEF CuInv, CuShape, cuTables
<1>8. CuWork'
  BY <1>2, <1>3, <1>4, <1>5, <1>6 DEF CuInv, CuWork, CuTransaction
<1>9. CuCopyInv' /\ CuExclusive'
  BY <1>2, <1>3, <1>5, <1>6 DEF CuInv, CuCopyInv, CuExclusive, cuTables
<1> QED
  BY <1>7, <1>8, <1>9 DEF CuInv

LEMMA CuBeginKeeps ==
  ASSUME CuInv, NEW c \in CuCalls, CuBegin(c)
  PROVE  CuInv'
<1>1. /\ cuPc[c] = "begin" /\ cuHolder = CuNobody /\ cuHolder' = c
      /\ cuCopy' = [pins |-> cuPins, archives |-> cuArchives] /\ CuGoto(c, "first")
      /\ UNCHANGED <<cuExisting, cuTables, cuPrefs, cuDo, cuListed, cuDefault, cuCrashed>>
  BY DEF CuBegin, CuFree
<1>2. cuPc' \in [CuCalls -> CuLabels] /\ \A d \in CuCalls : cuPc'[d] = IF d = c THEN "first" ELSE cuPc[d]
  <2>1. CuShape /\ "first" \in CuLabels /\ CuGoto(c, "first")
    BY <1>1 DEF CuInv, CuLabels
  <2> QED
    BY <2>1, CuMoves
<1>3. \A d \in CuCalls : cuPc[d] \notin CuTransaction
  BY <1>1, CuNobodyElse DEF CuInv, CuWork
<1>4. CuShape'
  BY <1>1, <1>2 DEF CuInv, CuShape, cuTables
<1>5. CuWork'
  BY <1>1, <1>2, <1>3 DEF CuInv, CuWork, CuTransaction
<1>6. CuExclusive'
  BY <1>1 DEF CuInv, CuExclusive, cuTables
<1>7. CuCopyInv'
  <2>1. /\ cuPins' = cuPins /\ cuDo' = cuDo /\ cuCopy'.pins = cuPins /\ cuCopy'.archives = cuArchives
        /\ cuPins \cap cuArchives = {}
    BY <1>1 DEF CuInv, CuExclusive, cuTables
  <2>2. ASSUME NEW d \in CuCalls, cuPc'[d] \in CuTransaction PROVE cuPc'[d] = "first"
    BY <1>2, <1>3, <2>2
  <2> QED
    BY <2>1, <2>2 DEF CuCopyInv
<1> QED
  BY <1>4, <1>5, <1>6, <1>7 DEF CuInv

\* The two statements.
LEMMA CuStatementsKeep ==
  ASSUME CuInv, NEW c \in CuCalls, CuFirst(c) \/ CuSecond(c)
  PROVE  CuInv'
<1> DEFINE s == {cuDo[c].about}  kind == cuDo[c].kind
<1>1. PICK from \in {"first", "second"}, to \in {"second", "commit"} :
        /\ from = "first" <=> to = "second"
        /\ cuPc[c] = from /\ CuGoto(c, to)
        /\ UNCHANGED <<cuExisting, cuTables, cuPrefs, cuHolder, cuDo, cuListed, cuDefault, cuCrashed>>
        /\ cuCopy' = IF from = "first"
                     THEN CASE kind = "archive" -> [cuCopy EXCEPT !.archives = @ \cup s]
                            [] kind = "unpin" -> [cuCopy EXCEPT !.pins = @ \ s]
                            [] OTHER -> [cuCopy EXCEPT !.archives = @ \ s]
                     ELSE CASE kind = "archive" -> [cuCopy EXCEPT !.pins = @ \ s]
                            [] kind = "pin" -> [cuCopy EXCEPT !.pins = @ \cup s]
                            [] OTHER -> cuCopy
  BY DEF CuFirst, CuSecond, CuStatement
<1>2. cuPc' \in [CuCalls -> CuLabels] /\ \A d \in CuCalls : cuPc'[d] = IF d = c THEN to ELSE cuPc[d]
  <2>1. to \in CuLabels
    BY DEF CuLabels
  <2> QED
    BY <1>1, <2>1, CuMoves DEF CuInv
<1>3. /\ cuHolder = c /\ s \subseteq CuSessions /\ kind \in CuCurations
      /\ \A d \in CuCalls : d # c => cuPc[d] \notin CuTransaction
  BY <1>1 DEF CuInv, CuWork, CuTransaction
<1>4. cuCopy' \in [pins : SUBSET CuSessions, archives : SUBSET CuSessions]
  BY <1>1, <1>3 DEF CuInv, CuShape
<1>5. CuShape'
  BY <1>1, <1>2, <1>4 DEF CuInv, CuShape, cuTables
<1>6. CuWork'
  BY <1>1, <1>2, <1>3 DEF CuInv, CuWork, CuTransaction
<1>7. CuCopyInv'
  <2>1. /\ cuPins \ cuCopy'.pins \subseteq IF kind \in {"unpin", "archive"} THEN s ELSE {}
        /\ cuCopy'.pins \cap cuCopy'.archives \subseteq IF to = "second" /\ kind = "archive" THEN s ELSE {}
        /\ to = "second" /\ kind = "pin" => cuDo[c].about \notin cuCopy'.archives
    BY <1>1, <1>3 DEF CuInv, CuShape, CuCopyInv, CuTransaction, CuCurations
  <2> QED
    BY <1>1, <1>2, <1>3, <2>1 DEF CuCopyInv, cuTables
<1>8. CuExclusive'
  BY <1>1 DEF CuInv, CuExclusive, cuTables
<1> QED
  BY <1>5, <1>6, <1>7, <1>8 DEF CuInv

LEMMA CuCommitKeeps ==
  ASSUME CuInv, NEW c \in CuCalls, CuCommit(c)
  PROVE  CuInv'
<1>1. /\ cuHolder = c /\ cuHolder' = CuNobody /\ cuCopy' = CuNoCopy /\ CuGoto(c, "done")
      /\ UNCHANGED <<cuExisting, cuPrefs, cuDo, cuListed, cuDefault, cuCrashed>>
      /\ \/ cuPc[c] = "commit" /\ cuPins' = cuCopy.pins /\ cuArchives' = cuCopy.archives
         \/ UNCHANGED <<cuPins, cuArchives>>
  BY DEF CuCommit, cuTables
<1>2. cuPc' \in [CuCalls -> CuLabels] /\ \A d \in CuCalls : cuPc'[d] = IF d = c THEN "done" ELSE cuPc[d]
  <2>1. CuShape /\ "done" \in CuLabels /\ CuGoto(c, "done")
    BY <1>1 DEF CuInv, CuLabels
  <2> QED
    BY <2>1, CuMoves
<1>3. \A d \in CuCalls : cuPc'[d] \notin CuTransaction
  <2>1. \A d \in CuCalls : d # c => cuPc[d] \notin CuTransaction
    BY <1>1 DEF CuInv, CuWork
  <2> QED
    BY <1>2, <2>1 DEF CuTransaction
<1>4. CuShape'
  <2>1. cuPins' \subseteq CuSessions /\ cuArchives' \subseteq CuSessions
    BY <1>1 DEF CuInv, CuShape
  <2>2. cuCopy' \in [pins : SUBSET CuSessions, archives : SUBSET CuSessions]
    BY <1>1 DEF CuNoCopy
  <2> QED
    BY <1>1, <1>2, <2>1, <2>2 DEF CuInv, CuShape
<1>5. CuWork'
  BY <1>1, <1>2, <1>3, CuNobodyElse DEF CuInv, CuWork
<1>6. CuCopyInv' /\ CuExclusive'
  <2>1. CuCopyInv'
    BY <1>3 DEF CuCopyInv
  <2>2. ASSUME cuPc[c] = "commit", cuPins' = cuCopy.pins, cuArchives' = cuCopy.archives PROVE CuExclusive'
    BY <2>2 DEF CuInv, CuCopyInv, CuExclusive, CuTransaction
  <2>3. ASSUME UNCHANGED <<cuPins, cuArchives>> PROVE CuExclusive'
    BY <2>3 DEF CuInv, CuExclusive
  <2> QED
    BY <1>1, <2>1, <2>2, <2>3
<1> QED
  BY <1>4, <1>5, <1>6 DEF CuInv

LEMMA CuOrphansKeep ==
  ASSUME CuInv, NEW c \in CuCalls, CuSelectOrphans(c) \/ CuDeleteOrphan(c)
  PROVE  CuInv'
<1>1. /\ cuPc[c] \in {"reap pins", "delete"} /\ cuHolder = CuNobody /\ cuPins' \subseteq cuPins
      /\ UNCHANGED <<cuExisting, cuArchives, cuPrefs, cuHolder, cuCopy, cuDo, cuDefault, cuCrashed>>
      /\ cuListed' \in [CuCalls -> SUBSET (CuSessions \cup CuProjects)]
  <2>1. CASE CuSelectOrphans(c)
    <3>1. cuPins \ cuListed[c] \in SUBSET (CuSessions \cup CuProjects)
      BY DEF CuInv, CuShape
    <3>2. cuListed' \in [CuCalls -> SUBSET (CuSessions \cup CuProjects)]
      BY <2>1, <3>1 DEF CuSelectOrphans, CuInv, CuShape
    <3> QED
      BY <2>1, <3>2 DEF CuSelectOrphans, CuFree, cuTables
  <2>2. CASE CuDeleteOrphan(c)
    <3>1. cuListed' \in [CuCalls -> SUBSET (CuSessions \cup CuProjects)]
      BY <2>2 DEF CuDeleteOrphan, CuInv, CuShape
    <3> QED
      BY <2>2, <3>1 DEF CuDeleteOrphan, CuFree
  <2> QED
    BY <2>1, <2>2
<1>2. /\ cuPc' \in [CuCalls -> CuLabels] /\ cuPc'[c] \in {"delete", "done"}
      /\ \A d \in CuCalls : d # c => cuPc'[d] = cuPc[d]
  BY DEF CuSelectOrphans, CuDeleteOrphan, CuGoto, CuInv, CuShape, CuLabels
<1>3. \A d \in CuCalls : cuPc'[d] \notin CuTransaction
  BY <1>1, <1>2, CuNobodyElse DEF CuInv, CuWork, CuTransaction
<1>4. CuShape'
  BY <1>1, <1>2 DEF CuInv, CuShape
<1>5. CuWork'
  BY <1>1, <1>2, <1>3, CuNobodyElse DEF CuInv, CuWork, CuTransaction
<1>6. CuCopyInv' /\ CuExclusive'
  BY <1>1, <1>3 DEF CuInv, CuCopyInv, CuExclusive
<1> QED
  BY <1>4, <1>5, <1>6 DEF CuInv

LEMMA CuChosenRow == ASSUME NEW row \in CuRows, NEW kind PROVE CuChosen(kind, row) \in CuRows
  BY DEF CuRows, CuChosen, CuRow, CuNoRow

LEMMA CuPrefsKeep ==
  ASSUME CuInv, NEW c \in CuCalls, CuCount(c) \/ CuInsert(c) \/ CuChoose(c)
  PROVE  CuInv'
<1>1. /\ cuPc[c] \in {"sync", "insert", "choose"} /\ cuHolder = CuNobody
      /\ UNCHANGED <<cuExisting, cuTables, cuHolder, cuCopy, cuDo, cuCrashed>>
  BY DEF CuCount, CuInsert, CuChoose, CuFree
<1>2. /\ cuListed' \in [CuCalls -> SUBSET (CuSessions \cup CuProjects)]
      /\ cuDefault' \in [CuCalls -> BOOLEAN]
  BY DEF CuCount, CuInsert, CuChoose, CuInv, CuShape
<1>3. cuPrefs' \in [CuProjects -> CuRows]
  <2>1. CASE CuInsert(c)
    <3>1. CuRow(cuDefault[c], "discovered") \in CuRows
      BY DEF CuInv, CuShape, CuRows, CuRow
    <3> QED
      BY <2>1, <3>1 DEF CuInsert, CuInv, CuShape
  <2>2. CASE CuCount(c) \/ CuChoose(c)
    <3>1. \A p \in CuProjects : CuChosen(cuDo[c].kind, cuPrefs[p]) \in CuRows /\ cuPrefs[p] \in CuRows
      BY CuChosenRow DEF CuInv, CuShape
    <3> QED
      BY <2>2, <3>1 DEF CuCount, CuChoose, CuInv, CuShape
  <2> QED
    BY <2>1, <2>2
<1>4. /\ cuPc' \in [CuCalls -> CuLabels] /\ cuPc'[c] \in {"insert", "choose", "done"}
      /\ \A d \in CuCalls : d # c => cuPc'[d] = cuPc[d]
  BY DEF CuCount, CuInsert, CuChoose, CuAfterSync, CuGoto, CuInv, CuShape, CuLabels
<1>5. \A d \in CuCalls : cuPc'[d] \notin CuTransaction
  BY <1>1, <1>4, CuNobodyElse DEF CuInv, CuWork, CuTransaction
<1>6. CuShape'
  BY <1>1, <1>2, <1>3, <1>4 DEF CuInv, CuShape, cuTables
<1>7. CuWork'
  BY <1>1, <1>4, <1>5, CuNobodyElse DEF CuInv, CuWork, CuTransaction
<1>8. CuCopyInv' /\ CuExclusive'
  BY <1>1, <1>5 DEF CuInv, CuCopyInv, CuExclusive, cuTables
<1> QED
  BY <1>6, <1>7, <1>8 DEF CuInv

LEMMA CuKeeps == CuInv /\ [CuNext]_cuVars => CuInv'
<1> SUFFICES ASSUME CuInv, [CuNext]_cuVars PROVE CuInv'
  OBVIOUS
<1>1. CASE CuNext
  BY <1>1, CuOthersKeep, CuStartKeeps, CuBeginKeeps, CuStatementsKeep, CuCommitKeeps, CuOrphansKeep,
     CuPrefsKeep DEF CuNext
<1>2. CASE UNCHANGED cuVars
  BY <1>2 DEF CuInv, CuShape, CuWork, CuCopyInv, CuExclusive, cuVars, cuTables, cuCallVars
<1> QED
  BY <1>1, <1>2

LEMMA CuHolds == CuInv => CuTypeOK /\ CuExclusive
<1> SUFFICES ASSUME CuInv PROVE CuTypeOK /\ CuExclusive
  OBVIOUS
<1>1. \A row \in CuRows : row.source = "no row" => row = CuNoRow
  BY DEF CuRows
<1> QED
  BY <1>1 DEF CuInv, CuShape, CuTypeOK

\* A pin goes with the transaction that was to take it away, or as an orphan.
LEMMA CuPinsStay == CuInv /\ [CuNext]_cuVars => CuPinsKept
<1> SUFFICES ASSUME CuInv, [CuNext]_cuVars, NEW s \in cuPins \ cuPins'
             PROVE  \E c \in CuCalls :
                      \/ cuDo[c].about = s /\ cuDo[c].kind \in {"unpin", "archive"} /\ cuPc'[c] # cuPc[c]
                      \/ cuDo[c].kind = "reap pins" /\ s \in cuListed[c]
  BY DEF CuPinsKept
<1>1. PICK c \in CuCalls : CuCommit(c) \/ CuDeleteOrphan(c)
  BY DEF CuNext, CuFiles, CuCrash, CuStart, CuBegin, CuFirst, CuSecond, CuStatement,
     CuSelectOrphans, CuCount, CuInsert, CuChoose, cuVars, cuTables
<1>2. CASE CuCommit(c)
  <2>1. cuPc[c] = "commit" /\ cuPins' = cuCopy.pins /\ cuPc'[c] = "done"
    BY <1>2 DEF CuCommit, CuGoto, cuTables, CuInv, CuShape
  <2> QED
    BY <2>1 DEF CuInv, CuCopyInv, CuTransaction
<1>3. CASE CuDeleteOrphan(c)
  BY <1>3 DEF CuDeleteOrphan, CuInv, CuWork
<1> QED
  BY <1>1, <1>2, <1>3

\* A row is written over by a choice only.
LEMMA CuChoicesStay == CuInv /\ [CuNext]_cuVars => CuChoiceStands
<1> SUFFICES ASSUME CuInv, [CuNext]_cuVars, NEW p \in CuProjects, cuPrefs[p] # CuNoRow,
                    cuPrefs'[p] # cuPrefs[p]
             PROVE  \E c \in CuCalls :
                      cuDo[c].about \in {p, CuNobody} /\ cuPc[c] = "choose" /\ cuPc'[c] = "done"
  BY DEF CuChoiceStands
<1>1. PICK c \in CuCalls : CuInsert(c) \/ CuChoose(c)
  BY DEF CuNext, CuFiles, CuCrash, CuStart, CuBegin, CuFirst, CuSecond, CuStatement, CuCommit,
     CuSelectOrphans, CuDeleteOrphan, CuCount, cuVars
<1>2. ~CuInsert(c)
  BY DEF CuInsert, CuInv, CuShape
<1> QED
  BY <1>1, <1>2 DEF CuChoose, CuGoto, CuInv, CuShape

-----------------------------------------------------------------------------
(* The updater: what it offers and who serves.                             *)

UpReleases == [tag : UpTags \cup {0}, assets : SUBSET {"binary", "sums"}]
UpPlaces == {"idle", "download", "checksums", "rename", "failed"}

UpShape ==
  /\ upLatest \in UpTags /\ upAssets \subseteq {"binary", "sums"}
  /\ upRelease \in UpReleases /\ upShown \in UpTags \cup {0}
  /\ upCheck \in [UpChecks -> {"idle", "fetched", "done"}] /\ upFetched \in [UpChecks -> UpReleases]
  /\ upInstall \in UpPlaces /\ upJob \in UpTags \cup {0} /\ upBinary \in UpTags
  /\ upOld \in {"up", "gone"} /\ upNew \in {"none", "sleeping", "up"}

\* A release without a number has no assets, so only a release's binary is installed.
UpAssetsInv ==
  /\ upRelease.tag = 0 => upRelease.assets = {}
  /\ \A k \in UpChecks : upFetched[k].tag = 0 => upFetched[k].assets = {}
  /\ upInstall \in {"download", "checksums", "rename"} => upJob \in UpTags

\* Before the old process goes there is a successor, unless the restart was cut off.
UpSuccession ==
  /\ upManager = "done" => upNew # "none"
  /\ upRestart = "exit timer" => upManager \in {"done", "killed"}
  /\ UpHandedOver

UpInv == UpShape /\ UpAssetsInv /\ UpSuccession
-----------------------------------------------------------------------------
LEMMA UpTagsAre == UpTags \subseteq Nat \ {0} /\ 1 \in UpTags /\ Len(UpVersions) \in Nat /\ UpTags = 1..Len(UpVersions)
  BY UpConstants DEF UpTags

LEMMA UpStarts == UpInit => UpInv
<1> SUFFICES ASSUME UpInit PROVE UpInv
  OBVIOUS
<1>1. UpNone \in UpReleases /\ UpNone.tag = 0 /\ UpNone.assets = {}
  BY DEF UpNone, UpReleases
<1>2. UpShape
  BY <1>1, UpTagsAre DEF UpInit, UpShape, UpRunning, UpPlaces
<1>3. UpAssetsInv /\ UpSuccession
  BY <1>1 DEF UpInit, UpAssetsInv, UpSuccession, UpHandedOver
<1> QED
  BY <1>2, <1>3 DEF UpInv

LEMMA UpRemoteIs ==
  ASSUME UpInv
  PROVE  UpRemote \in UpReleases /\ UpRemote.tag \in UpTags
  BY DEF UpInv, UpShape, UpRemote, UpReleases

LEMMA UpResolvedIs ==
  ASSUME UpInv, NEW rel \in {upRelease, UpRemote}, UpResolved(rel)
  PROVE  /\ rel \in UpReleases /\ (rel.tag = 0 => rel.assets = {})
         /\ upRelease' \in UpReleases /\ (upRelease'.tag = 0 => upRelease'.assets = {})
<1>1. upRelease \in UpReleases /\ (upRelease.tag = 0 => upRelease.assets = {})
  BY DEF UpInv, UpShape, UpAssetsInv
<1>2. UpRemote \in UpReleases /\ UpRemote.tag # 0
  BY UpRemoteIs, UpTagsAre
<1> QED
  BY <1>1, <1>2 DEF UpResolved

\* GitHub and the checks.
LEMMA UpChecksKeep ==
  ASSUME UpInv, UpPublish \/ \E k \in UpChecks : UpFetch(k) \/ UpStore(k)
  PROVE  UpInv'
<1>1. CASE UpPublish
  <2>1. upLatest' \in UpTags /\ upAssets' \subseteq {"binary", "sums"}
    <3>1. upLatest \in Nat \ {0} /\ upLatest <= Len(UpVersions) /\ upAssets \subseteq {"binary", "sums"}
      BY UpTagsAre DEF UpInv, UpShape
    <3>2. upLatest' = upLatest \/ (upLatest < Len(UpVersions) /\ upLatest' = upLatest + 1)
      BY <1>1 DEF UpPublish
    <3>3. upLatest' \in 1..Len(UpVersions)
      BY <3>1, <3>2, UpTagsAre
    <3>4. upAssets' \subseteq {"binary", "sums"}
      BY <1>1, <3>1 DEF UpPublish
    <3> QED
      BY <3>3, <3>4, UpTagsAre
  <2> QED
    BY <1>1, <2>1 DEF UpPublish, UpInv, UpShape, UpAssetsInv, UpSuccession, UpHandedOver, upCheckVars,
       upInstallVars, upRestartVars
<1>2. ASSUME NEW k \in UpChecks, UpFetch(k) PROVE UpInv'
  <2>1. UpRemote \in UpReleases /\ UpRemote.tag # 0
    BY UpRemoteIs, UpTagsAre
  <2>2. /\ upFetched' \in [UpChecks -> UpReleases] /\ upCheck' \in [UpChecks -> {"idle", "fetched", "done"}]
        /\ \A j \in UpChecks : upFetched'[j].tag = 0 => upFetched'[j].assets = {}
    BY <1>2, <2>1 DEF UpFetch, UpInv, UpShape, UpAssetsInv
  <2> QED
    BY <1>2, <2>2 DEF UpFetch, UpInv, UpShape, UpAssetsInv, UpSuccession, UpHandedOver, upRemoteVars,
       upInstallVars, upRestartVars
<1>3. ASSUME NEW k \in UpChecks, UpStore(k) PROVE UpInv'
  <2>1. /\ upRelease' \in UpReleases /\ upShown' \in UpTags \cup {0}
        /\ upCheck' \in [UpChecks -> {"idle", "fetched", "done"}]
        /\ upRelease'.tag = 0 => upRelease'.assets = {}
    BY <1>3 DEF UpStore, UpInv, UpShape, UpAssetsInv, UpReleases
  <2> QED
    BY <1>3, <2>1 DEF UpStore, UpInv, UpShape, UpAssetsInv, UpSuccession, UpHandedOver, upRemoteVars,
       upInstallVars, upRestartVars
<1> QED
  BY <1>1, <1>2, <1>3

LEMMA UpInstallKeeps ==
  ASSUME UpInv, UpResolve \/ UpDownload \/ UpVerify \/ UpRename
  PROVE  UpInv'
<1>1. CASE UpResolve
  <2>1. CASE UNCHANGED <<upRelease, upInstall, upJob>>
    BY <1>1, <2>1 DEF UpResolve, UpInv, UpShape, UpAssetsInv, UpSuccession, UpHandedOver, upRemoteVars,
       upCheckVars, upRestartVars
  <2>2. ASSUME NEW rel \in {upRelease, UpRemote}, UpResolved(rel),
               IF "binary" \in rel.assets
               THEN upInstall' = "download" /\ upJob' = rel.tag
               ELSE UNCHANGED <<upInstall, upJob>>
        PROVE  UpInv'
    <3>1. /\ rel \in UpReleases /\ (rel.tag = 0 => rel.assets = {})
          /\ upRelease' \in UpReleases /\ (upRelease'.tag = 0 => upRelease'.assets = {})
      BY <2>2, UpResolvedIs
    <3>2. /\ upInstall' \in UpPlaces /\ upJob' \in UpTags \cup {0}
          /\ upInstall' \in {"download", "checksums", "rename"} => upJob' \in UpTags
      BY <2>2, <3>1 DEF UpInv, UpShape, UpAssetsInv, UpReleases, UpPlaces
    <3> QED
      BY <1>1, <3>1, <3>2 DEF UpResolve, UpInv, UpShape, UpAssetsInv, UpSuccession, UpHandedOver,
         upRemoteVars, upCheckVars, upRestartVars
  <2> QED
    BY <1>1, <2>1, <2>2 DEF UpResolve
<1>2. CASE UpDownload
  BY <1>2 DEF UpDownload, UpInv, UpShape, UpPlaces, UpAssetsInv, UpSuccession, UpHandedOver, upRemoteVars,
     upCheckVars, upRestartVars
<1>3. CASE UpVerify
  <2>1. upRelease' \in UpReleases /\ (upRelease'.tag = 0 => upRelease'.assets = {})
    BY <1>3, UpResolvedIs DEF UpVerify, UpInv, UpShape, UpAssetsInv
  <2>2. upInstall' \in {"rename", "failed"} /\ upInstall = "checksums"
    BY <1>3 DEF UpVerify
  <2> QED
    BY <1>3, <2>1, <2>2 DEF UpVerify, UpInv, UpShape, UpPlaces, UpAssetsInv, UpSuccession, UpHandedOver,
       upRemoteVars, upCheckVars, upRestartVars
<1>4. CASE UpRename
  BY <1>4 DEF UpRename, UpEndInstall, UpInv, UpShape, UpPlaces, UpAssetsInv, UpSuccession, UpHandedOver,
     upRemoteVars, upCheckVars, upRestartVars
<1> QED
  BY <1>1, <1>2, <1>3, <1>4

LEMMA UpRestartKeeps ==
  ASSUME UpInv, UpRestartBegins \/ UpManager \/ UpRestartService \/ UpExitTimer \/ UpSuccessorBinds
  PROVE  UpInv'
<1>1. /\ UNCHANGED <<upRemoteVars, upRelease, upShown, upCheckVars, upInstallVars>>
      /\ upOld' \in {"up", "gone"} /\ upNew' \in {"none", "sleeping", "up"}
  BY DEF UpRestartBegins, UpManager, UpRestartService, UpExitTimer, UpSuccessorBinds, UpInv, UpShape
<1>2. UpShape' /\ UpAssetsInv'
  BY <1>1 DEF UpInv, UpShape, UpAssetsInv, upRemoteVars, upCheckVars, upInstallVars
<1>3. UpSuccession'
  BY DEF UpRestartBegins, UpManager, UpRestartService, UpExitTimer, UpSuccessorBinds, UpInv, UpShape,
     UpSuccession, UpHandedOver
<1> QED
  BY <1>2, <1>3 DEF UpInv

LEMMA UpKeeps == UpInv /\ [UpNext]_upVars => UpInv'
<1> SUFFICES ASSUME UpInv, [UpNext]_upVars PROVE UpInv'
  OBVIOUS
<1>1. CASE UpNext
  BY <1>1, UpChecksKeep, UpInstallKeeps, UpRestartKeeps DEF UpNext
<1>2. CASE UNCHANGED upVars
  BY <1>2 DEF UpInv, UpShape, UpAssetsInv, UpSuccession, UpHandedOver, upVars, upRemoteVars, upCheckVars,
     upInstallVars, upRestartVars
<1> QED
  BY <1>1, <1>2

-----------------------------------------------------------------------------
(* compareSemver.                                                           *)

UpVersionSet == [core : [1..3 -> Nat], pre : Seq(UpIdentifiers)]

LEMMA UpSignIs ==
  ASSUME NEW m \in Nat, NEW n \in Nat
  PROVE  /\ UpSign(m, n) = 0 <=> m = n
         /\ UpSign(m, n) > 0 <=> m > n
  BY DEF UpSign

LEMMA UpIdentifierIs ==
  ASSUME NEW a \in UpIdentifiers, NEW b \in UpIdentifiers
  PROVE  /\ UpCompareIdentifier(a, a) = 0
         /\ UpIdentifierBefore(a, b) => UpCompareIdentifier(b, a) > 0
  BY DEF UpIdentifiers, UpIdentifierBefore, UpCompareIdentifier, UpSign

Earlier == {pair \in Nat \X Nat : pair[1] < pair[2]}

LEMMA EarlierIsWellFounded == IsWellFoundedOn(Earlier, Nat)
<1>1. Earlier = OpToRel(<, Nat)
  BY DEF OpToRel, Earlier
<1> QED
  BY <1>1, NatLessThanWellFounded

LEMMA LeastExists ==
  ASSUME NEW S \in SUBSET Nat, S # {}
  PROVE  \E i \in S : \A j \in S : i <= j
<1>1. PICK i \in S : \A j \in S : ~(<<j, i>> \in Earlier)
  BY WFMin, EarlierIsWellFounded
<1>2. ASSUME NEW j \in S PROVE i <= j
  <2>1. i \in Nat /\ j \in Nat /\ <<j, i>> \notin Earlier
    BY <1>1
  <2> QED
    BY <2>1 DEF Earlier
<1> QED
  BY <1>2

\* A least position of a set is the one that is chosen.
LEMMA LeastChosen ==
  ASSUME NEW S \in SUBSET Nat, NEW i \in S, \A j \in S : i <= j
  PROVE  (CHOOSE k \in S : \A j \in S : k <= j) = i
<1>1. \A k \in S : (\A j \in S : k <= j) => k = i
  OBVIOUS
<1> QED
  BY <1>1

LEMMA UpCoreDecides ==
  ASSUME NEW a \in [1..3 -> Nat], NEW b \in [1..3 -> Nat],
         NEW i \in 1..3, b[i] < a[i], \A j \in 1..(i - 1) : b[j] = a[j]
  PROVE  UpFirstDifference(a, b, UpSign) = i
<1> DEFINE common == {j \in DOMAIN a \cap DOMAIN b : UpSign(a[j], b[j]) # 0}
<1>1. common \in SUBSET Nat /\ i \in common
  BY UpSignIs
<1>2. \A j \in common : i <= j
  <2>1. SUFFICES ASSUME NEW j \in 1..3, UpSign(a[j], b[j]) # 0, j < i PROVE FALSE
    OBVIOUS
  <2>2. a[j] = b[j]
    BY <2>1
  <2> QED
    BY <2>1, <2>2, UpSignIs
<1>3. UpFirstDifference(a, b, UpSign) =
        IF common = {} THEN 0 ELSE CHOOSE k \in common : \A j \in common : k <= j
  BY DEF UpFirstDifference
<1> HIDE DEF common
<1> QED
  BY <1>1, <1>2, <1>3, LeastChosen

LEMMA UpCoreEqual ==
  ASSUME NEW a \in [1..3 -> Nat]
  PROVE  UpFirstDifference(a, a, UpSign) = 0
<1>1. {j \in DOMAIN a \cap DOMAIN a : UpSign(a[j], a[j]) # 0} = {}
  BY UpSignIs
<1> QED
  BY <1>1 DEF UpFirstDifference

LEMMA UpPrereleaseDecides ==
  ASSUME NEW a \in Seq(UpIdentifiers), NEW b \in Seq(UpIdentifiers), a # <<>>,
         b = <<>> \/ UpPrereleaseBefore(a, b)
  PROVE  UpComparePrerelease(b, a) > 0
<1>1. CASE b = <<>>
  BY <1>1 DEF UpComparePrerelease
<1>2. CASE UpPrereleaseBefore(a, b)
  <2>1. PICK i \in DOMAIN b : /\ \A j \in 1..(i - 1) : j \in DOMAIN a /\ a[j] = b[j]
                              /\ i \in DOMAIN a => UpIdentifierBefore(a[i], b[i])
    BY <1>2 DEF UpPrereleaseBefore
  <2>2. i \in Nat \ {0} /\ DOMAIN a = 1..Len(a) /\ DOMAIN b = 1..Len(b) /\ Len(a) \in Nat /\ Len(b) \in Nat
    OBVIOUS
  <2>3. b # <<>>
    BY <2>2
  <2> DEFINE common == {j \in DOMAIN b \cap DOMAIN a : UpCompareIdentifier(b[j], a[j]) # 0}
             first == IF common = {} THEN 0 ELSE CHOOSE k \in common : \A j \in common : k <= j
  <2>4. UpFirstDifference(b, a, UpCompareIdentifier) = first
    BY DEF UpFirstDifference
  <2>5. common \in SUBSET Nat /\ \A j \in common : i <= j
    <3>1. ASSUME NEW j \in common, j < i PROVE FALSE
      <4>1. a[j] = b[j] /\ a[j] \in UpIdentifiers /\ UpCompareIdentifier(b[j], a[j]) # 0
        BY <2>1, <2>2, <3>1
      <4> QED
        BY <4>1, UpIdentifierIs
    <3> QED
      BY <2>2, <3>1
  <2>6. CASE i \in DOMAIN a
    <3>1. UpCompareIdentifier(b[i], a[i]) > 0 
      BY <2>1, <2>6, UpIdentifierIs
    <3>2. i \in common
      BY <2>6, <3>1
    <3>3. first = i
      <4> HIDE DEF common
      <4> QED
        BY <2>5, <3>2, LeastChosen
    <3>4. a # b
      <4>1. SUFFICES ASSUME a = b PROVE FALSE
        OBVIOUS
      <4>2. UpCompareIdentifier(b[i], a[i]) = 0
        BY <4>1, UpIdentifierIs
      <4> QED
        BY <4>2, <3>1
    <3> HIDE DEF first
    <3> QED
      BY <2>2, <2>3, <2>4, <3>1, <3>3, <3>4 DEF UpComparePrerelease
  <2>7. CASE i \notin DOMAIN a
    <3>1. Len(a) < i /\ Len(a) < Len(b)
      BY <2>2, <2>7
    <3>2. common = {}
      BY <2>2, <2>5, <3>1
    <3>3. first = 0 /\ a # b
      BY <3>1, <3>2
    <3> HIDE DEF first
    <3> QED
      BY <2>2, <2>3, <2>4, <3>1, <3>3 DEF UpComparePrerelease, UpSign
  <2> QED
    BY <2>6, <2>7
<1> QED
  BY <1>1, <1>2

LEMMA UpFirstIs ==
  ASSUME NEW common \in SUBSET (Nat \ {0}),
         NEW i, i = IF common = {} THEN 0 ELSE CHOOSE k \in common : \A j \in common : k <= j
  PROVE  IF i = 0 THEN common = {} ELSE i \in common /\ \A j \in common : i <= j
<1>1. CASE common = {}
  BY <1>1
<1>2. CASE common # {}
  <2>1. \E k \in common : \A j \in common : k <= j
    BY <1>2, LeastExists
  <2> QED
    BY <1>2, <2>1
<1> QED
  BY <1>1, <1>2

LEMMA UpIdentifierLater ==
  ASSUME NEW a \in UpIdentifiers, NEW b \in UpIdentifiers
  PROVE  /\ UpCompareIdentifier(a, b) = 0 => a = b
         /\ UpCompareIdentifier(b, a) > 0 => UpIdentifierBefore(a, b)
  BY DEF UpIdentifiers, UpIdentifierBefore, UpCompareIdentifier, UpSign

LEMMA UpPrereleaseLater ==
  ASSUME NEW a \in Seq(UpIdentifiers), NEW b \in Seq(UpIdentifiers), UpComparePrerelease(b, a) > 0
  PROVE  a # <<>> /\ (b = <<>> \/ UpPrereleaseBefore(a, b))
<1>1. a # <<>> /\ a # b
  <2>1. CASE a = b
    <3>1. UpComparePrerelease(a, a) = 0
      BY DEF UpComparePrerelease
    <3> QED
      BY <2>1, <3>1
  <2>2. CASE a = <<>> /\ b # <<>>
    <3>1. UpComparePrerelease(b, a) \in {-1, 0}
      <4> DEFINE i == UpFirstDifference(b, a, UpCompareIdentifier)
      <4> HIDE DEF i
      <4> QED
        BY <2>2 DEF UpComparePrerelease
    <3> QED
      BY <3>1
  <2> QED
    BY <2>1, <2>2
<1>2. SUFFICES ASSUME b # <<>> PROVE UpPrereleaseBefore(a, b)
  BY <1>1
<1>3. DOMAIN a = 1..Len(a) /\ DOMAIN b = 1..Len(b) /\ Len(a) \in Nat /\ Len(b) \in Nat
  OBVIOUS
<1> DEFINE common == {j \in DOMAIN b \cap DOMAIN a : UpCompareIdentifier(b[j], a[j]) # 0}
<1>4. PICK i : i = UpFirstDifference(b, a, UpCompareIdentifier)
  OBVIOUS
<1>5. IF i = 0 THEN common = {} ELSE i \in common /\ \A j \in common : i <= j
  <2>1. i = IF common = {} THEN 0 ELSE CHOOSE k \in common : \A j \in common : k <= j
    BY <1>4 DEF UpFirstDifference
  <2>2. common \in SUBSET (Nat \ {0})
    BY <1>3
  <2> HIDE DEF common
  <2> QED
    BY <2>1, <2>2, UpFirstIs
<1>6. (IF i # 0 THEN UpCompareIdentifier(b[i], a[i]) ELSE UpSign(Len(b), Len(a))) > 0
  BY <1>1, <1>2, <1>4 DEF UpComparePrerelease
<1>7. \A j \in DOMAIN a \cap DOMAIN b : j \notin common => a[j] = b[j]
  BY UpIdentifierLater
<1>8. CASE i # 0
  <2>1. i \in 1..Len(a) /\ i \in 1..Len(b)
    BY <1>3, <1>5, <1>8
  <2>2. UpIdentifierBefore(a[i], b[i])
    BY <1>3, <1>6, <1>8, <2>1, UpIdentifierLater
  <2>3. ASSUME NEW j \in 1..(i - 1) PROVE j \in DOMAIN a /\ a[j] = b[j]
    <3>1. j \in DOMAIN a \cap DOMAIN b
      BY <1>3, <2>1
    <3>2. j \notin common
      <4> HIDE DEF common
      <4> QED
        BY <1>5, <1>8, <2>1
    <3> QED
      BY <1>7, <3>1, <3>2
  <2> QED
    BY <1>3, <2>1, <2>2, <2>3 DEF UpPrereleaseBefore
<1>9. CASE i = 0
  <2>1. Len(a) < Len(b)
    BY <1>3, <1>6, <1>9 DEF UpSign
  <2>2. PICK k \in 1..Len(b) : k = Len(a) + 1
    BY <1>3, <2>1
  <2>3. ASSUME NEW j \in 1..(k - 1) PROVE j \in DOMAIN a /\ a[j] = b[j]
    <3>1. j \in DOMAIN a \cap DOMAIN b
      BY <1>3, <2>1, <2>2
    <3> QED
      BY <1>5, <1>7, <1>9, <3>1
  <2> QED
    BY <1>3, <2>2, <2>3 DEF UpPrereleaseBefore
<1> QED
  BY <1>8, <1>9

\* compareSemver finds a version later exactly when it is.
LEMMA UpCompareIs ==
  ASSUME NEW v \in UpVersionSet, NEW w \in UpVersionSet
  PROVE  UpCompareSemver(w, v) > 0 <=> UpBefore(v, w)
<1>1. v.core \in [1..3 -> Nat] /\ w.core \in [1..3 -> Nat] /\ v.pre \in Seq(UpIdentifiers) /\ w.pre \in Seq(UpIdentifiers)
  BY DEF UpVersionSet
<1>2. ASSUME NEW i \in 1..3, v.core[i] < w.core[i], \A j \in 1..(i - 1) : v.core[j] = w.core[j]
      PROVE  UpCompareSemver(w, v) > 0
  <2>1. UpFirstDifference(w.core, v.core, UpSign) = i
    BY <1>1, <1>2, UpCoreDecides
  <2>2. UpSign(w.core[i], v.core[i]) > 0
    BY <1>1, <1>2, UpSignIs
  <2> QED
    BY <2>1, <2>2 DEF UpCompareSemver
<1>3. ASSUME v.core = w.core, v.pre # <<>>, w.pre = <<>> \/ UpPrereleaseBefore(v.pre, w.pre)
      PROVE  UpCompareSemver(w, v) > 0
  <2>1. UpFirstDifference(w.core, v.core, UpSign) = 0
    BY <1>1, <1>3, UpCoreEqual
  <2>2. UpComparePrerelease(w.pre, v.pre) > 0
    BY <1>1, <1>3, UpPrereleaseDecides
  <2> QED
    BY <2>1, <2>2 DEF UpCompareSemver
<1>4. ASSUME UpCompareSemver(w, v) > 0 PROVE UpBefore(v, w)
  <2> DEFINE common == {j \in DOMAIN w.core \cap DOMAIN v.core : UpSign(w.core[j], v.core[j]) # 0}
  <2>1. PICK i : i = UpFirstDifference(w.core, v.core, UpSign)
    OBVIOUS
  <2>2. IF i = 0 THEN common = {} ELSE i \in common /\ \A j \in common : i <= j
    <3>1. i = IF common = {} THEN 0 ELSE CHOOSE k \in common : \A j \in common : k <= j
      BY <2>1 DEF UpFirstDifference
    <3>2. common \in SUBSET (Nat \ {0})
      BY <1>1
    <3> HIDE DEF common
    <3> QED
      BY <3>1, <3>2, UpFirstIs
  <2>3. (IF i # 0 THEN UpSign(w.core[i], v.core[i]) ELSE UpComparePrerelease(w.pre, v.pre)) > 0
    BY <1>4, <2>1 DEF UpCompareSemver
  <2>4. \A j \in 1..3 : j \notin common => v.core[j] = w.core[j]
    BY <1>1, UpSignIs
  <2>5. CASE i # 0
    <3>1. i \in 1..3 /\ v.core[i] < w.core[i]
      BY <1>1, <2>2, <2>3, <2>5, UpSignIs
    <3>2. ASSUME NEW j \in 1..(i - 1) PROVE v.core[j] = w.core[j]
      <4>1. j \in 1..3 /\ j \notin common
        <5> HIDE DEF common
        <5> QED
          BY <2>2, <2>5, <3>1
      <4> QED
        BY <2>4, <4>1
    <3> QED
      BY <3>1, <3>2 DEF UpBefore
  <2>6. CASE i = 0
    <3>1. v.core = w.core
      BY <1>1, <2>2, <2>4, <2>6
    <3>2. v.pre # <<>> /\ (w.pre = <<>> \/ UpPrereleaseBefore(v.pre, w.pre))
      BY <1>1, <2>3, <2>6, UpPrereleaseLater
    <3> QED
      BY <3>1, <3>2 DEF UpBefore
  <2> QED
    BY <2>5, <2>6
<1> QED
  BY <1>2, <1>3, <1>4 DEF UpBefore

LEMMA UpHolds == UpInv => UpTypeOK /\ UpOffersLater /\ UpHandedOver
<1> SUFFICES ASSUME UpInv PROVE UpTypeOK /\ UpOffersLater /\ UpHandedOver
  OBVIOUS
<1>1. UpTypeOK /\ UpHandedOver
  BY DEF UpInv, UpShape, UpReleases, UpTypeOK, UpSuccession
<1>2. \A r \in UpTags : UpVersions[r] \in UpVersionSet
  <2>1. UpVersions \in Seq(UpVersionSet)
    BY UpConstants DEF UpVersionSet
  <2> QED
    BY <2>1, UpTagsAre
<1>3. UpOffersLater
  <2>1. 1 \in UpTags /\ (upShown # 0 => upShown \in UpTags)
    BY UpTagsAre DEF UpInv, UpShape
  <2> QED
    BY <1>2, <2>1, UpCompareIs DEF UpOffersLater, UpHasUpdate, UpRunning
<1> QED
  BY <1>1, <1>3

-----------------------------------------------------------------------------
(* Watchers of one session file.                                           *)

WaShape ==
  /\ waFsnotify \in BOOLEAN /\ waUnwatched \in BOOLEAN /\ waKnown \in BOOLEAN
  /\ waClock \in Nat /\ 1 <= waClock /\ waClock <= WaTicks
  /\ waVersion \in Nat /\ waVersion <= WaWrites /\ waMod \in Nat /\ waMod <= waClock
  /\ waDir \in {"absent", "created", "watched"}
  /\ waEvents \subseteq {"directory", "create", "write"}
  /\ waMade \in Nat /\ waTimer \in Nat /\ waTimer <= waMade /\ waArmed \subseteq Nat
  /\ waFired \in Nat /\ waSending \in Nat /\ waWake \in Nat /\ waWake <= WaWakeCap
  /\ waRun \in [at : {"idle", "record", "broadcast"}, mod : Nat, version : Nat]
  /\ waRun.at = "idle" => waRun = WaIdle
  /\ waFileMod \in Nat /\ waSeen \in Nat /\ waFirst \in Nat /\ waTold \in Nat
  /\ waStop \in {"no", "stopping", "stopped"}
  /\ waStop = "stopped" => waRun.at = "idle"

\* Times and versions grow, and what is recorded was there.
WaTimesInv ==
  /\ waFileMod <= waMod /\ waSeen <= waVersion /\ waTold <= waVersion
  /\ waRun.at # "idle" =>
       waRun.mod <= waMod /\ waRun.version <= waVersion /\ waFileMod <= waRun.mod /\ waSeen <= waRun.version
  /\ waVersion > 0 /\ waDir # "watched" => waUnwatched
  /\ waDir = "absent" => waEvents = {}

\* A change of the file is on its way to a look at it.
WaOnItsWay ==
  waEvents \cap {"create", "write"} # {} \/ waArmed # {} \/ waFired > 0 \/ waSending > 0 \/ waWake > 0

\* What the last look saw is there still, or another look is on its way, unless the
\* file was created unannounced.
WaLooksInv ==
  waFsnotify /\ waStop = "no" =>
    IF waRun.at = "record"
    THEN waRun.mod = waMod \/ WaOnItsWay \/ (waUnwatched /\ waRun.version < waVersion)
    ELSE waFileMod = waMod \/ WaOnItsWay \/ (waUnwatched /\ waSeen < waVersion)

\* A file in a watched directory is marked before anything looks at it.
WaMarkInv ==
  /\ waFsnotify /\ ~waUnwatched /\ ~waKnown =>
       /\ waArmed = {} /\ waFired = 0 /\ waSending = 0 /\ waWake = 0 /\ waRun.at = "idle"
       /\ waVersion > 0 => "create" \in waEvents
       /\ waVersion = 0 => waEvents \subseteq {"directory"}
  /\ waRun.at # "broadcast" =>
       waSeen <= waTold \/ (waSeen = waFirst /\ ~(waFsnotify /\ ~waUnwatched))

WaInv == WaShape /\ WaTimesInv /\ WaLooksInv /\ WaMarkInv
-----------------------------------------------------------------------------
LEMMA WaStarts == WaInit => WaInv
<1> SUFFICES ASSUME WaInit PROVE WaInv
  OBVIOUS
<1>1. WaShape
  <2>1. /\ waFsnotify \in BOOLEAN /\ waUnwatched \in BOOLEAN /\ waKnown \in BOOLEAN
        /\ waDir \in {"absent", "created", "watched"} /\ waEvents = {} /\ waArmed = {} /\ waStop = "no"
    BY DEF WaInit
  <2>2. /\ waClock = 1 /\ waVersion \in {0, 1} /\ waMod \in {0, 1} /\ waSeen \in {0, 1}
        /\ waFileMod = waMod /\ waFirst = waVersion /\ waTold = waVersion
        /\ waTimer = 0 /\ waMade = 0 /\ waFired = 0 /\ waSending = 0 /\ waWake = 0
    BY DEF WaInit
  <2>3. waRun = WaIdle /\ waRun \in [at : {"idle", "record", "broadcast"}, mod : Nat, version : Nat]
    BY DEF WaInit, WaIdle
  <2> QED
    BY <2>1, <2>2, <2>3, WaConstants DEF WaShape
<1>2. WaTimesInv /\ WaLooksInv /\ WaMarkInv
  BY DEF WaInit, WaTimesInv, WaLooksInv, WaMarkInv, WaIdle, WaOnItsWay
<1> QED
  BY <1>1, <1>2 DEF WaInv

LEMMA WaShapeKeeps ==
  ASSUME WaInv, WaNext
  PROVE  WaShape'
<1> USE WaConstants DEF WaInv, WaShape, waFileVars, waTimerVars, waRecordVars
<1>1. CASE WaTick
  BY <1>1 DEF WaTick, WaLook, WaIdle
<1>2. CASE WaMakeDir
  BY <1>2 DEF WaMakeDir, WaLook, WaIdle
<1>3. CASE WaWrite
  BY <1>3 DEF WaWrite, WaLook, WaIdle
<1>4. CASE WaDirectoryEvent
  BY <1>4 DEF WaDirectoryEvent, WaLook, WaIdle
<1>5. ASSUME NEW kind \in {"create", "write"}, WaFileEvent(kind) PROVE WaShape'
  <2>1. /\ waMade' \in Nat /\ waTimer' \in Nat /\ waTimer' <= waMade' /\ waArmed' \subseteq Nat
    <3>1. CASE waTimer \in waArmed
      BY <1>5, <3>1 DEF WaFileEvent, WaSchedule
    <3>2. CASE waTimer \notin waArmed
      <4>1. /\ waMade' = waMade + 1 /\ waTimer' = waMade'
            /\ waArmed' = waArmed \cup ({waTimer} \ {0}) \cup {waMade'}
        BY <1>5, <3>2 DEF WaFileEvent, WaSchedule
      <4> QED
        BY <4>1
    <3> QED
      BY <3>1, <3>2
  <2>2. waKnown' \in BOOLEAN /\ waFileMod' \in Nat
    <3>1. (waKnown' = TRUE /\ waFileMod' = 0) \/ (waKnown' = waKnown /\ waFileMod' = waFileMod)
      BY <1>5 DEF WaFileEvent, WaMark
    <3>2. waKnown \in BOOLEAN /\ waFileMod \in Nat /\ 0 \in Nat
      OBVIOUS
    <3> QED
      BY ONLY <3>1, <3>2, Zenon
  <2>3. waEvents' \subseteq waEvents
    BY <1>5 DEF WaFileEvent
  <2>4. UNCHANGED <<waFsnotify, waFileVars, waFired, waSending, waWake, waRun, waSeen, waFirst, waTold, waStop>>
    BY <1>5 DEF WaFileEvent
  <2> QED
    BY <2>1, <2>2, <2>3, <2>4
<1>6. ASSUME NEW t \in waArmed, WaFire(t) PROVE WaShape'
  BY <1>6 DEF WaFire, WaMark, WaSchedule
<1>7. CASE WaCallback
  BY <1>7 DEF WaCallback, WaLook, WaIdle
<1>8. CASE WaSend
  BY <1>8 DEF WaSend, WaLook, WaIdle
<1>9. CASE WaRun
  BY <1>9 DEF WaRun, WaLook, WaIdle
<1>10. CASE WaPoll
  BY <1>10 DEF WaPoll, WaLook, WaIdle
<1>11. CASE WaRecord
  BY <1>11 DEF WaRecord, WaLook, WaIdle
<1>12. CASE WaBroadcast
  BY <1>12 DEF WaBroadcast, WaLook, WaIdle
<1>13. CASE WaStopping
  BY <1>13 DEF WaStopping, WaLook, WaIdle
<1>14. CASE WaStopped
  BY <1>14 DEF WaStopped, WaLook, WaIdle
<1> QED
  BY <1>1, <1>2, <1>3, <1>4, <1>5, <1>6, <1>7, <1>8, <1>9, <1>10, <1>11, <1>12, <1>13, <1>14 DEF WaNext

LEMMA WaTimesKeep ==
  ASSUME WaInv, WaNext
  PROVE  WaTimesInv'
<1> USE WaConstants DEF WaInv, WaShape, WaTimesInv, waFileVars, waTimerVars, waRecordVars
<1>1. CASE WaTick
  BY <1>1 DEF WaTick, WaLook, WaIdle
<1>2. CASE WaMakeDir
  BY <1>2 DEF WaMakeDir, WaLook, WaIdle
<1>3. CASE WaWrite
  <2>1. /\ waDir # "absent" /\ waVersion' = waVersion + 1 /\ waMod' = waClock
        /\ UNCHANGED <<waFsnotify, waClock, waDir, waTimer, waArmed, waMade, waFired, waSending, waWake, waRun,
                       waKnown, waFileMod, waSeen, waFirst, waTold, waStop>>
    BY <1>3 DEF WaWrite
  <2>2. waDir # "watched" => waUnwatched'
    <3>1. waUnwatched' = (waUnwatched \/ (waVersion = 0 /\ waDir = "created"))
      BY <1>3 DEF WaWrite
    <3>2. waDir # "watched" => waUnwatched \/ (waVersion = 0 /\ waDir = "created")
      BY <2>1
    <3> QED
      BY <3>1, <3>2, Zenon
  <2> QED
    BY <2>1, <2>2
<1>4. CASE WaDirectoryEvent
  BY <1>4 DEF WaDirectoryEvent, WaLook, WaIdle
<1>5. ASSUME NEW kind \in {"create", "write"}, WaFileEvent(kind) PROVE WaTimesInv'
  BY <1>5 DEF WaFileEvent, WaMark, WaSchedule
<1>6. ASSUME NEW t \in waArmed, WaFire(t) PROVE WaTimesInv'
  BY <1>6 DEF WaFire, WaMark, WaSchedule
<1>7. CASE WaCallback
  BY <1>7 DEF WaCallback, WaLook, WaIdle
<1>8. CASE WaSend
  BY <1>8 DEF WaSend, WaLook, WaIdle
<1>9. CASE WaRun
  BY <1>9 DEF WaRun, WaLook, WaIdle
<1>10. CASE WaPoll
  BY <1>10 DEF WaPoll, WaLook, WaIdle
<1>11. CASE WaRecord
  BY <1>11 DEF WaRecord, WaLook, WaIdle
<1>12. CASE WaBroadcast
  BY <1>12 DEF WaBroadcast, WaLook, WaIdle
<1>13. CASE WaStopping
  BY <1>13 DEF WaStopping, WaLook, WaIdle
<1>14. CASE WaStopped
  BY <1>14 DEF WaStopped, WaLook, WaIdle
<1> QED
  BY <1>1, <1>2, <1>3, <1>4, <1>5, <1>6, <1>7, <1>8, <1>9, <1>10, <1>11, <1>12, <1>13, <1>14 DEF WaNext

LEMMA WaLooksKeep ==
  ASSUME WaInv, WaNext
  PROVE  WaLooksInv'
<1> USE WaConstants DEF WaInv, WaShape, WaTimesInv, WaLooksInv, WaOnItsWay, waFileVars, waTimerVars, waRecordVars
<1>1. CASE WaTick
  BY <1>1 DEF WaTick, WaLook, WaIdle
<1>2. CASE WaMakeDir
  BY <1>2 DEF WaMakeDir, WaLook, WaIdle
<1>3. CASE WaWrite
  <2>1. /\ waDir # "absent" /\ waVersion' = waVersion + 1 /\ waMod' = waClock
        /\ UNCHANGED <<waFsnotify, waClock, waDir, waTimer, waArmed, waMade, waFired, waSending, waWake, waRun,
                       waKnown, waFileMod, waSeen, waFirst, waTold, waStop>>
    BY <1>3 DEF WaWrite
  <2>2. waDir # "watched" => waUnwatched'
    <3>1. waUnwatched' = (waUnwatched \/ (waVersion = 0 /\ waDir = "created"))
      BY <1>3 DEF WaWrite
    <3>2. waDir # "watched" => waUnwatched \/ (waVersion = 0 /\ waDir = "created")
      BY <2>1
    <3> QED
      BY <3>1, <3>2, Zenon
  <2>3. CASE waDir = "watched" /\ waFsnotify
    <3>1. PICK kind \in {"create", "write"} : waEvents' = waEvents \cup {kind}
      BY <1>3, <2>3 DEF WaWrite
    <3>2. waEvents' \cap {"create", "write"} # {}
      BY <3>1
    <3> QED
      BY <2>1, <3>2
  <2>4. CASE ~(waDir = "watched" /\ waFsnotify)
    <3>1. waFsnotify => waUnwatched'
      BY <2>1, <2>2, <2>4
    <3>2. waRun.version < waVersion' \/ waRun.at = "idle"
      BY <2>1
    <3>3. waSeen < waVersion'
      BY <2>1
    <3> QED
      BY <2>1, <3>1, <3>2, <3>3
  <2> QED
    BY <2>3, <2>4
<1>4. CASE WaDirectoryEvent
  BY <1>4 DEF WaDirectoryEvent, WaLook, WaIdle
<1>5. ASSUME NEW kind \in {"create", "write"}, WaFileEvent(kind) PROVE WaLooksInv'
  BY <1>5 DEF WaFileEvent, WaMark, WaSchedule
<1>6. ASSUME NEW t \in waArmed, WaFire(t) PROVE WaLooksInv'
  BY <1>6 DEF WaFire, WaMark, WaSchedule
<1>7. CASE WaCallback
  BY <1>7 DEF WaCallback, WaLook, WaIdle
<1>8. CASE WaSend
  BY <1>8 DEF WaSend, WaLook, WaIdle
<1>9. CASE WaRun
  BY <1>9 DEF WaRun, WaLook, WaIdle
<1>10. CASE WaPoll
  BY <1>10 DEF WaPoll, WaLook, WaIdle
<1>11. CASE WaRecord
  BY <1>11 DEF WaRecord, WaLook, WaIdle
<1>12. CASE WaBroadcast
  BY <1>12 DEF WaBroadcast, WaLook, WaIdle
<1>13. CASE WaStopping
  BY <1>13 DEF WaStopping, WaLook, WaIdle
<1>14. CASE WaStopped
  BY <1>14 DEF WaStopped, WaLook, WaIdle
<1> QED
  BY <1>1, <1>2, <1>3, <1>4, <1>5, <1>6, <1>7, <1>8, <1>9, <1>10, <1>11, <1>12, <1>13, <1>14 DEF WaNext

LEMMA WaMarkKeeps ==
  ASSUME WaInv, WaNext
  PROVE  WaMarkInv'
<1> USE WaConstants DEF WaInv, WaShape, WaTimesInv, WaMarkInv, waFileVars, waTimerVars, waRecordVars
<1>1. CASE WaTick
  BY <1>1 DEF WaTick, WaLook, WaIdle
<1>2. CASE WaMakeDir
  BY <1>2 DEF WaMakeDir, WaLook, WaIdle
<1>3. CASE WaWrite
  BY <1>3 DEF WaWrite, WaLook, WaIdle
<1>4. CASE WaDirectoryEvent
  BY <1>4 DEF WaDirectoryEvent, WaLook, WaIdle
<1>5. ASSUME NEW kind \in {"create", "write"}, WaFileEvent(kind) PROVE WaMarkInv'
  BY <1>5 DEF WaFileEvent, WaMark, WaSchedule
<1>6. ASSUME NEW t \in waArmed, WaFire(t) PROVE WaMarkInv'
  BY <1>6 DEF WaFire, WaMark, WaSchedule
<1>7. CASE WaCallback
  BY <1>7 DEF WaCallback, WaLook, WaIdle
<1>8. CASE WaSend
  BY <1>8 DEF WaSend, WaLook, WaIdle
<1>9. CASE WaRun
  BY <1>9 DEF WaRun, WaLook, WaIdle
<1>10. CASE WaPoll
  BY <1>10 DEF WaPoll, WaLook, WaIdle
<1>11. CASE WaRecord
  BY <1>11 DEF WaRecord, WaLook, WaIdle
<1>12. CASE WaBroadcast
  BY <1>12 DEF WaBroadcast, WaLook, WaIdle
<1>13. CASE WaStopping
  BY <1>13 DEF WaStopping, WaLook, WaIdle
<1>14. CASE WaStopped
  BY <1>14 DEF WaStopped, WaLook, WaIdle
<1> QED
  BY <1>1, <1>2, <1>3, <1>4, <1>5, <1>6, <1>7, <1>8, <1>9, <1>10, <1>11, <1>12, <1>13, <1>14 DEF WaNext

LEMMA WaKeeps == WaInv /\ [WaNext]_waVars => WaInv'
<1> SUFFICES ASSUME WaInv, [WaNext]_waVars PROVE WaInv'
  OBVIOUS
<1>1. CASE WaNext
  BY <1>1, WaShapeKeeps, WaTimesKeep, WaLooksKeep, WaMarkKeeps DEF WaInv
<1>2. CASE UNCHANGED waVars
  <2> USE <1>2 DEF waVars, waFileVars, waTimerVars, waRecordVars
  <2>1. WaShape'
    BY DEF WaInv, WaShape
  <2>2. WaTimesInv' /\ WaLooksInv' /\ WaMarkInv'
    BY DEF WaInv, WaTimesInv, WaLooksInv, WaMarkInv, WaOnItsWay
  <2> QED
    BY <2>1, <2>2 DEF WaInv
<1> QED
  BY <1>1, <1>2

\* At rest nothing is on its way, so the last look has seen the file as it is.
LEMMA WaHolds == WaInv => WaTypeOK /\ WaReloadsFollow /\ WaFirstLineTold /\ WaQuietAfterStop
<1> SUFFICES ASSUME WaInv PROVE WaTypeOK /\ WaReloadsFollow /\ WaFirstLineTold /\ WaQuietAfterStop
  OBVIOUS
<1>1. WaTypeOK
  BY DEF WaInv, WaShape, WaTimesInv, WaTypeOK
<1>2. WaQuietAfterStop
  BY DEF WaInv, WaShape, WaQuietAfterStop
<1>3. ASSUME WaAtRest PROVE waFileMod = waMod \/ (waUnwatched /\ waSeen < waVersion)
  <2>1. waStop = "no" /\ waRun.at = "idle" /\ ~WaOnItsWay /\ (waFsnotify \/ waFileMod = waMod)
    BY <1>3 DEF WaAtRest, WaOnItsWay, WaIdle
  <2> QED
    BY <2>1 DEF WaInv, WaLooksInv
<1>4. ASSUME WaAtRest
      PROVE  waSeen <= waTold \/ (waSeen = waFirst /\ ~(waFsnotify /\ ~waUnwatched))
  BY <1>4 DEF WaAtRest, WaIdle, WaInv, WaMarkInv
<1>5. waSeen \in Nat /\ waTold \in Nat /\ waVersion \in Nat /\ waSeen <= waVersion /\ waTold <= waVersion
  BY DEF WaInv, WaShape, WaTimesInv
<1>6. WaReloadsFollow /\ WaFirstLineTold
  BY <1>3, <1>4, <1>5 DEF WaReloadsFollow, WaFirstLineTold, WaSameTick
<1> QED
  BY <1>1, <1>2, <1>6

-----------------------------------------------------------------------------
(* The running status: deltas and the browsers that follow them.           *)

SbPlaces == {"idle", "file", "worker", "activity", "commit", "broadcast"}
SbAbout(now) == {r \in SbCallers : sbPc[r] = "broadcast" /\ sbNow[r] = now}

SbShape ==
  /\ sbWorker \in {"none", "idle", "running"} /\ sbOwed \subseteq SbSources
  /\ sbFile \in BOOLEAN /\ sbRecent \in BOOLEAN /\ sbKnown \in BOOLEAN
  /\ sbCount \in Nat /\ sbCount <= SbChanges /\ sbSwept \in {"no", "begun", "ended"}
  /\ sbPc \in [SbCallers -> SbPlaces] /\ sbNow \in [SbCallers -> BOOLEAN]
  /\ sbSent \in Int /\ sbDone \in Int

\* A sweep that nothing has disturbed sees the sources as they are.
SbSweepInv ==
  /\ sbSwept = "begun" =>
       /\ sbPc["sweeper"] # "idle"
       /\ sbPc["sweeper"] # "broadcast" => sbKnown
       /\ sbPc["sweeper"] = "broadcast" => ~sbKnown
       /\ sbPc["sweeper"] \in {"worker", "activity"} => ~sbFile
       /\ sbPc["sweeper"] = "activity" => sbWorker = "none"
       /\ sbPc["sweeper"] = "commit" => (sbNow["sweeper"] <=> SbRunning)
  /\ sbSwept = "ended" => sbPc["sweeper"] = "idle" /\ (sbKnown => SbRunning)

SbInv == SbShape /\ SbSweepInv /\ SbDeltasBalance
-----------------------------------------------------------------------------
LEMMA SbCallersFinite == IsFiniteSet(SbCallers)
<1>1. SbCallers = ((SbCallbacks \cup {"sweeper"}) \cup {"fileWatcher"}) \cup {"debouncer"}
  BY DEF SbCallers
<1> QED
  BY <1>1, SbConstants, FS_AddElement

\* The announcements of one kind that are still to be made.
LEMMA SbAboutFinite == \A now : IsFiniteSet(SbAbout(now)) /\ SbPending(now) \in Nat
<1> TAKE now
<1>1. IsFiniteSet(SbAbout(now))
  BY SbCallersFinite, FS_Subset DEF SbAbout
<1> QED
  BY <1>1, FS_CardinalityType DEF SbAbout, SbPending

\* What the deltas of either kind, those to come and what is known add up to.
SbAddsUp(known, sent, done, on, off) ==
  /\ sent + on - off = IF known THEN 1 ELSE 0
  /\ done + off = 0
SbSums == SbAddsUp(sbKnown, sbSent, sbDone, SbPending(TRUE), SbPending(FALSE))

LEMMA SbBalance == (SbDeltasBalance <=> SbSums) /\ (SbDeltasBalance' <=> SbSums')
  BY DEF SbDeltasBalance, SbAddsUp, SbSums

LEMMA SbStarts == SbInit => SbInv
<1> SUFFICES ASSUME SbInit PROVE SbInv
  OBVIOUS
<1>1. SbShape
  <2>1. sbWorker \in {"none", "idle", "running"} /\ sbOwed \subseteq SbSources /\ sbSwept \in {"no", "begun", "ended"}
    BY DEF SbInit
  <2>2. sbFile \in BOOLEAN /\ sbRecent \in BOOLEAN /\ sbKnown \in BOOLEAN
    BY DEF SbInit
  <2>3. sbCount \in Nat /\ sbCount <= SbChanges /\ sbSent \in Int /\ sbDone \in Int
    BY SbConstants DEF SbInit
  <2>4. sbPc \in [SbCallers -> SbPlaces]
    BY DEF SbInit, SbPlaces
  <2>5. sbNow \in [SbCallers -> BOOLEAN]
    BY DEF SbInit
  <2> QED
    BY <2>1, <2>2, <2>3, <2>4, <2>5 DEF SbShape
<1>2. SbSweepInv
  BY DEF SbInit, SbSweepInv
<1>3. SbDeltasBalance
  <2>1. ASSUME NEW now PROVE SbPending(now) = 0
    <3>1. SbAbout(now) = {}
      BY DEF SbInit, SbAbout
    <3> QED
      BY <3>1, FS_EmptySet DEF SbAbout, SbPending
  <2>2. SbPending(TRUE) = 0 /\ SbPending(FALSE) = 0
    BY <2>1
  <2>3. sbKnown = FALSE /\ sbSent = 0 /\ sbDone = 0
    BY DEF SbInit
  <2>4. SbAddsUp(FALSE, 0, 0, 0, 0)
    BY DEF SbAddsUp
  <2>5. SbSums
    BY <2>2, <2>3, <2>4 DEF SbSums
  <2> QED
    BY <2>5, SbBalance
<1> QED
  BY <1>1, <1>2, <1>3 DEF SbInv

\* A step that begins, looks on or computes announces nothing.
LEMMA SbQuietBalances ==
  ASSUME SbInv, UNCHANGED <<sbKnown, sbSent, sbDone>>,
         \A now : SbAbout(now)' = SbAbout(now)
  PROVE  SbDeltasBalance'
<1>1. \A now : SbPending(now)' = SbPending(now)
  BY DEF SbAbout, SbPending
<1> QED
  BY <1>1 DEF SbInv, SbDeltasBalance

SbMove(r, place) == sbPc' = [sbPc EXCEPT ![r] = place]

\* A recompute that goes on without having changed anything.
LEMMA SbGoingOn ==
  ASSUME SbShape, NEW r \in SbCallers, NEW place \in SbPlaces \ {"broadcast"}, SbMove(r, place),
         sbPc[r] # "broadcast",
         \A s \in SbCallers : sbPc[s] = "broadcast" => sbNow'[s] = sbNow[s]
  PROVE  \A now : SbAbout(now)' = SbAbout(now)
<1> TAKE now
<1>1. \A s \in SbCallers : sbPc'[s] = IF s = r THEN place ELSE sbPc[s]
  BY DEF SbShape, SbMove
<1>2. place # "broadcast"
  OBVIOUS
<1> QED
  BY <1>1, <1>2 DEF SbAbout

LEMMA SbSourcesBalance ==
  ASSUME SbInv, SbFileChanges \/ SbWorkerChanges \/ SbTranscriptChanges
  PROVE  SbDeltasBalance'
<1>1. UNCHANGED <<sbKnown, sbSent, sbDone, sbPc, sbNow>>
  BY DEF SbFileChanges, SbWorkerChanges, SbTranscriptChanges, SbChange, sbToldVars
<1> QED
  BY <1>1, SbQuietBalances DEF SbAbout

LEMMA SbLooksBalance ==
  ASSUME SbInv, NEW r \in SbCallers,
         (\E source \in SbSources : SbBegin(r, source)) \/ SbReadFile(r) \/ SbReadWorker(r) \/ SbReadActivity(r)
  PROVE  SbDeltasBalance'
<1> USE DEF sbToldVars
<1>1. UNCHANGED <<sbKnown, sbSent, sbDone>> /\ sbPc[r] # "broadcast"
  BY DEF SbBegin, SbReadFile, SbReadWorker, SbReadActivity
<1>2. \E place \in SbPlaces \ {"broadcast"} : SbMove(r, place)
  BY DEF SbBegin, SbReadFile, SbReadWorker, SbReadActivity, SbComputed, SbLooksOn, SbMove, SbPlaces
<1>3. \A s \in SbCallers : sbPc[s] = "broadcast" => sbNow'[s] = sbNow[s]
  BY DEF SbBegin, SbReadFile, SbReadWorker, SbReadActivity, SbComputed, SbLooksOn, SbInv, SbShape
<1>4. SbShape
  BY DEF SbInv
<1> QED
  BY <1>1, <1>2, <1>3, <1>4, SbGoingOn, SbQuietBalances

LEMMA SbSweepBalances ==
  ASSUME SbInv, SbSweep
  PROVE  SbDeltasBalance'
<1>1. UNCHANGED <<sbKnown, sbSent, sbDone, sbNow>> /\ sbPc["sweeper"] = "idle" /\ "sweeper" \in SbCallers
  BY DEF SbSweep, sbToldVars, SbCallers
<1>2. CASE sbKnown
  <2>1. SbMove("sweeper", "file") /\ "file" \in SbPlaces \ {"broadcast"}
    BY <1>2 DEF SbSweep, SbMove, SbPlaces
  <2>2. SbShape
    BY DEF SbInv
  <2> QED
    BY <1>1, <2>1, <2>2, SbGoingOn, SbQuietBalances
<1>3. CASE ~sbKnown
  BY <1>1, <1>3, SbQuietBalances DEF SbSweep, SbAbout
<1> QED
  BY <1>2, <1>3

\* One more, or one less, is to be announced.
LEMMA SbOneMore ==
  ASSUME NEW v \in BOOLEAN, NEW r \in SbCallers, SbAbout(v)' = SbAbout(v) \cup {r}, r \notin SbAbout(v)
  PROVE  SbPending(v)' = SbPending(v) + 1
<1>1. PICK S : S = SbAbout(v)
  OBVIOUS
<1>2. IsFiniteSet(S) /\ r \notin S
  BY <1>1, SbAboutFinite
<1>3. Cardinality(S \cup {r}) = Cardinality(S) + 1
  BY <1>2, FS_AddElement
<1>4. SbPending(v) = Cardinality(S)
  BY <1>1 DEF SbAbout, SbPending
<1>5. SbPending(v)' = Cardinality(S \cup {r})
  BY <1>1 DEF SbAbout, SbPending
<1> QED
  BY <1>3, <1>4, <1>5

LEMMA SbOneLess ==
  ASSUME NEW v \in BOOLEAN, NEW r \in SbCallers, SbAbout(v)' = SbAbout(v) \ {r}, r \in SbAbout(v)
  PROVE  SbPending(v)' = SbPending(v) - 1
<1>1. PICK S : S = SbAbout(v)
  OBVIOUS
<1>2. IsFiniteSet(S) /\ r \in S
  BY <1>1, SbAboutFinite
<1>3. Cardinality(S \ {r}) = Cardinality(S) - 1
  BY <1>2, FS_RemoveElement
<1>4. SbPending(v) = Cardinality(S)
  BY <1>1 DEF SbAbout, SbPending
<1>5. SbPending(v)' = Cardinality(S \ {r})
  BY <1>1 DEF SbAbout, SbPending
<1> QED
  BY <1>3, <1>4, <1>5

LEMMA SbAsMany ==
  ASSUME NEW v \in BOOLEAN, SbAbout(v)' = SbAbout(v)
  PROVE  SbPending(v)' = SbPending(v)
<1> QED
  BY DEF SbAbout, SbPending

\* The arithmetic of a commit and of a broadcast.
LEMMA SbCommitAddsUp ==
  ASSUME NEW sent \in Int, NEW done \in Int, NEW on \in Nat, NEW off \in Nat
  PROVE  /\ SbAddsUp(FALSE, sent, done, on, off) => SbAddsUp(TRUE, sent, done, on + 1, off)
         /\ SbAddsUp(TRUE, sent, done, on, off) => SbAddsUp(FALSE, sent, done - 1, on, off + 1)
  BY DEF SbAddsUp

LEMMA SbBroadcastAddsUp ==
  ASSUME NEW known \in BOOLEAN, NEW sent \in Int, NEW done \in Int, NEW on \in Nat, NEW off \in Nat,
         SbAddsUp(known, sent, done, on, off)
  PROVE  /\ SbAddsUp(known, sent + 1, done, on - 1, off)
         /\ SbAddsUp(known, sent - 1, done + 1, on, off - 1)
  BY DEF SbAddsUp

\* What is committed is announced from then on, and once.
LEMMA SbCommitBalances ==
  ASSUME SbInv, NEW r \in SbCallers, SbCommit(r)
  PROVE  SbDeltasBalance'
<1>1. SbShape /\ SbDeltasBalance /\ sbPc[r] = "commit" /\ UNCHANGED <<sbSent, sbNow>>
  BY DEF SbInv, SbCommit
<1>2. CASE sbNow[r] = sbKnown
  <2>1. SbMove(r, "idle") /\ "idle" \in SbPlaces \ {"broadcast"} /\ UNCHANGED <<sbKnown, sbDone>>
    BY <1>2 DEF SbCommit, SbMove, SbPlaces
  <2> QED
    BY <1>1, <2>1, SbGoingOn, SbQuietBalances
<1>3. CASE sbNow[r] # sbKnown
  <2>1. /\ sbKnown' = sbNow[r] /\ SbMove(r, "broadcast")
        /\ sbDone' = IF sbNow[r] THEN sbDone ELSE sbDone - 1
    BY <1>3 DEF SbCommit, SbMove
  <2>2. \A s \in SbCallers : sbPc'[s] = IF s = r THEN "broadcast" ELSE sbPc[s]
    BY <1>1, <2>1 DEF SbShape, SbMove
  <2>3. \A v \in BOOLEAN : v = sbNow[r] => SbAbout(v)' = SbAbout(v) \cup {r} /\ r \notin SbAbout(v)
    BY <1>1, <2>2 DEF SbAbout
  <2>4. \A v \in BOOLEAN : v # sbNow[r] => SbAbout(v)' = SbAbout(v)
    BY <1>1, <2>2 DEF SbAbout
  <2>5. \A v \in BOOLEAN : v = sbNow[r] => SbPending(v)' = SbPending(v) + 1
    BY <2>3, SbOneMore
  <2>6. \A v \in BOOLEAN : v # sbNow[r] => SbPending(v)' = SbPending(v)
    BY <2>4, SbAsMany
  <2>7. SbPending(TRUE) \in Nat /\ SbPending(FALSE) \in Nat /\ sbSent \in Int /\ sbDone \in Int
    BY <1>1, SbAboutFinite DEF SbShape
  <2>8. SbAddsUp(sbKnown, sbSent, sbDone, SbPending(TRUE), SbPending(FALSE)) /\ sbKnown' \in BOOLEAN
    BY <1>1, <2>1, SbBalance DEF SbShape, SbSums
  <2>9. CASE sbNow[r] = TRUE
    <3>1. sbKnown = FALSE /\ sbKnown' = TRUE /\ sbDone' = sbDone
      BY <1>1, <1>3, <2>1, <2>9 DEF SbShape
    <3>2. SbPending(TRUE)' = SbPending(TRUE) + 1 /\ SbPending(FALSE)' = SbPending(FALSE)
      BY <2>5, <2>6, <2>9
    <3>3. SbAddsUp(TRUE, sbSent, sbDone, SbPending(TRUE) + 1, SbPending(FALSE))
      BY <2>7, <2>8, <3>1, SbCommitAddsUp
    <3> QED
      BY <1>1, <2>8, <3>1, <3>2, <3>3, SbBalance DEF SbSums
  <2>10. CASE sbNow[r] = FALSE
    <3>1. sbKnown = TRUE /\ sbKnown' = FALSE /\ sbDone' = sbDone - 1
      BY <1>1, <1>3, <2>1, <2>10 DEF SbShape
    <3>2. SbPending(FALSE)' = SbPending(FALSE) + 1 /\ SbPending(TRUE)' = SbPending(TRUE)
      BY <2>5, <2>6, <2>10
    <3>3. SbAddsUp(FALSE, sbSent, sbDone - 1, SbPending(TRUE), SbPending(FALSE) + 1)
      BY <2>7, <2>8, <3>1, SbCommitAddsUp
    <3> QED
      BY <1>1, <2>8, <3>1, <3>2, <3>3, SbBalance DEF SbSums
  <2> QED
    BY <1>1, <2>9, <2>10 DEF SbShape
<1> QED
  BY <1>2, <1>3

LEMMA SbBroadcastBalances ==
  ASSUME SbInv, NEW r \in SbCallers, SbBroadcast(r)
  PROVE  SbDeltasBalance'
<1>1. /\ SbShape /\ SbDeltasBalance /\ sbPc[r] = "broadcast" /\ UNCHANGED <<sbKnown, sbNow>>
      /\ SbMove(r, "idle")
      /\ sbSent' = IF sbNow[r] THEN sbSent + 1 ELSE sbSent - 1
      /\ sbDone' = IF sbNow[r] THEN sbDone ELSE sbDone + 1
  BY DEF SbInv, SbBroadcast, SbMove
<1>2. \A s \in SbCallers : sbPc'[s] = IF s = r THEN "idle" ELSE sbPc[s]
  BY <1>1 DEF SbShape, SbMove
<1>3. \A v \in BOOLEAN : v = sbNow[r] => SbAbout(v)' = SbAbout(v) \ {r} /\ r \in SbAbout(v)
  BY <1>1, <1>2 DEF SbAbout
<1>4. \A v \in BOOLEAN : v # sbNow[r] => SbAbout(v)' = SbAbout(v)
  BY <1>1, <1>2 DEF SbAbout
<1>5. \A v \in BOOLEAN : v = sbNow[r] => SbPending(v)' = SbPending(v) - 1
  BY <1>3, SbOneLess
<1>6. \A v \in BOOLEAN : v # sbNow[r] => SbPending(v)' = SbPending(v)
  BY <1>4, SbAsMany
<1>7. /\ SbPending(TRUE) \in Nat /\ SbPending(FALSE) \in Nat /\ sbSent \in Int /\ sbDone \in Int
      /\ sbKnown \in BOOLEAN /\ sbKnown' = sbKnown
  BY <1>1, SbAboutFinite DEF SbShape
<1>8. SbAddsUp(sbKnown, sbSent, sbDone, SbPending(TRUE), SbPending(FALSE)) /\ sbKnown' \in BOOLEAN
  BY <1>1, <1>7, SbBalance DEF SbSums
<1>9. CASE sbNow[r] = TRUE
  <2>1. sbSent' = sbSent + 1 /\ sbDone' = sbDone
    BY <1>1, <1>9
  <2>2. SbPending(TRUE)' = SbPending(TRUE) - 1 /\ SbPending(FALSE)' = SbPending(FALSE)
    BY <1>5, <1>6, <1>9
  <2>3. SbAddsUp(sbKnown, sbSent + 1, sbDone, SbPending(TRUE) - 1, SbPending(FALSE))
    BY <1>7, <1>8, SbBroadcastAddsUp
  <2> QED
    BY <1>7, <1>8, <2>1, <2>2, <2>3, SbBalance DEF SbSums
<1>10. CASE sbNow[r] = FALSE
  <2>1. sbSent' = sbSent - 1 /\ sbDone' = sbDone + 1
    BY <1>1, <1>10
  <2>2. SbPending(FALSE)' = SbPending(FALSE) - 1 /\ SbPending(TRUE)' = SbPending(TRUE)
    BY <1>5, <1>6, <1>10
  <2>3. SbAddsUp(sbKnown, sbSent - 1, sbDone + 1, SbPending(TRUE), SbPending(FALSE) - 1)
    BY <1>7, <1>8, SbBroadcastAddsUp
  <2> QED
    BY <1>7, <1>8, <2>1, <2>2, <2>3, SbBalance DEF SbSums
<1> QED
  BY <1>1, <1>9, <1>10 DEF SbShape

-----------------------------------------------------------------------------
LEMMA SbShapeKeeps ==
  ASSUME SbInv, SbNext
  PROVE  SbShape'
<1>1. SbShape
  BY DEF SbInv
<1>2. CASE SbFileChanges \/ SbWorkerChanges \/ SbTranscriptChanges
  <2>1. PICK owed \in SUBSET SbSources : SbChange(owed)
    BY <1>2 DEF SbFileChanges, SbWorkerChanges, SbTranscriptChanges, SbSources
  <2>2. sbWorker' \in {"none", "idle", "running"} /\ sbFile' \in BOOLEAN /\ sbRecent' \in BOOLEAN
    BY <1>1, <1>2 DEF SbFileChanges, SbWorkerChanges, SbTranscriptChanges, SbShape
  <2>3. sbOwed' \subseteq SbSources /\ sbSwept' = "no" /\ UNCHANGED <<sbKnown, sbSent, sbDone, sbPc, sbNow>>
    BY <1>1, <2>1 DEF SbChange, SbShape, sbToldVars
  <2>4. sbCount' \in Nat /\ sbCount' <= SbChanges
    BY <1>1, <2>1, SbConstants DEF SbChange, SbShape
  <2> QED
    BY <1>1, <2>2, <2>3, <2>4 DEF SbShape
<1>3. CASE SbSweep
  <2>1. UNCHANGED <<sbFile, sbWorker, sbRecent, sbOwed, sbKnown, sbSent, sbDone, sbNow, sbCount>>
    BY <1>3 DEF SbSweep, sbSourceVars, sbToldVars
  <2>2. sbPc' \in [SbCallers -> SbPlaces] /\ sbSwept' \in {"no", "begun", "ended"}
    BY <1>1, <1>3 DEF SbSweep, SbShape, SbPlaces
  <2> QED
    BY <1>1, <2>1, <2>2 DEF SbShape
<1>4. ASSUME NEW r \in SbCallers, NEW source \in SbSources, SbBegin(r, source) PROVE SbShape'
  <2>1. UNCHANGED <<sbFile, sbWorker, sbRecent, sbKnown, sbSent, sbDone, sbNow, sbCount>>
    BY <1>4 DEF SbBegin, sbSourceVars, sbToldVars
  <2>2. sbPc' \in [SbCallers -> SbPlaces] /\ sbSwept' = "no" /\ sbOwed' \subseteq SbSources
    BY <1>1, <1>4 DEF SbBegin, SbShape, SbPlaces
  <2> QED
    BY <1>1, <2>1, <2>2 DEF SbShape
<1>5. ASSUME NEW r \in SbCallers, SbReadFile(r) \/ SbReadWorker(r) \/ SbReadActivity(r) PROVE SbShape'
  <2>1. UNCHANGED <<sbFile, sbWorker, sbRecent, sbOwed, sbKnown, sbSent, sbDone, sbCount, sbSwept>>
    BY <1>5 DEF SbReadFile, SbReadWorker, SbReadActivity, sbSourceVars, sbToldVars
  <2>2. \E place \in SbPlaces : SbMove(r, place)
    BY <1>5 DEF SbReadFile, SbReadWorker, SbReadActivity, SbComputed, SbLooksOn, SbMove, SbPlaces
  <2>3. sbPc' \in [SbCallers -> SbPlaces]
    BY <1>1, <2>2 DEF SbShape, SbMove
  <2>4. \E v \in BOOLEAN : sbNow' = [sbNow EXCEPT ![r] = v] \/ sbNow' = sbNow
    <3>1. CASE SbReadFile(r)
      BY <3>1 DEF SbReadFile, SbComputed, SbLooksOn
    <3>2. CASE SbReadWorker(r)
      <4>1. (sbWorker = "running") \in BOOLEAN
        OBVIOUS
      <4> QED
        BY <3>2, <4>1 DEF SbReadWorker, SbComputed, SbLooksOn
    <3>3. CASE SbReadActivity(r)
      BY <1>1, <3>3 DEF SbReadActivity, SbComputed, SbShape
    <3> QED
      BY <1>5, <3>1, <3>2, <3>3
  <2>5. sbNow' \in [SbCallers -> BOOLEAN]
    BY <1>1, <2>4 DEF SbShape
  <2> QED
    BY <1>1, <2>1, <2>3, <2>5 DEF SbShape
<1>6. ASSUME NEW r \in SbCallers, SbCommit(r) \/ SbBroadcast(r) PROVE SbShape'
  <2>1. UNCHANGED <<sbFile, sbWorker, sbRecent, sbOwed, sbNow, sbCount>>
    BY <1>6 DEF SbCommit, SbBroadcast, sbSourceVars
  <2>2. \E place \in SbPlaces : SbMove(r, place)
    BY <1>6 DEF SbCommit, SbBroadcast, SbMove, SbPlaces
  <2>3. sbPc' \in [SbCallers -> SbPlaces]
    BY <1>1, <2>2 DEF SbShape, SbMove
  <2>4. sbKnown' \in BOOLEAN
    BY <1>1, <1>6 DEF SbCommit, SbBroadcast, SbShape
  <2>5. sbSwept' \in {"no", "begun", "ended"}
    BY <1>1, <1>6 DEF SbCommit, SbBroadcast, SbSweepEnds, SbShape
  <2>6. (sbSent' = sbSent \/ sbSent' = sbSent + 1 \/ sbSent' = sbSent - 1)
        /\ (sbDone' = sbDone \/ sbDone' = sbDone + 1 \/ sbDone' = sbDone - 1)
    BY <1>6 DEF SbCommit, SbBroadcast
  <2>7. sbSent' \in Int /\ sbDone' \in Int
    BY <1>1, <2>6 DEF SbShape
  <2> QED
    BY <1>1, <2>1, <2>3, <2>4, <2>5, <2>7 DEF SbShape
<1> QED
  BY <1>2, <1>3, <1>4, <1>5, <1>6 DEF SbNext

\* Whatever is not the sweeper's own disturbs a sweep or leaves it what it has seen.
LEMMA SbUndisturbed ==
  ASSUME SbSweepInv, UNCHANGED <<sbFile, sbWorker, sbRecent, sbKnown, sbSwept>>,
         sbPc'["sweeper"] = sbPc["sweeper"], sbNow'["sweeper"] = sbNow["sweeper"]
  PROVE  SbSweepInv'
  BY DEF SbSweepInv, SbRunning

LEMMA SbSweepKeeps ==
  ASSUME SbInv, SbNext
  PROVE  SbSweepInv'
<1>1. SbShape /\ SbSweepInv /\ "sweeper" \in SbCallers
  BY DEF SbInv, SbCallers
<1>2. CASE sbSwept' = "no"
  BY <1>2 DEF SbSweepInv
<1>3. CASE SbFileChanges \/ SbWorkerChanges \/ SbTranscriptChanges
  BY <1>2, <1>3 DEF SbFileChanges, SbWorkerChanges, SbTranscriptChanges, SbChange
<1>4. CASE SbSweep
  <2>1. CASE sbKnown
    <3>1. sbPc'["sweeper"] = "file" /\ sbSwept' = "begun" /\ sbKnown'
      BY <1>1, <1>4, <2>1 DEF SbSweep, SbShape, sbToldVars
    <3> QED
      BY <3>1 DEF SbSweepInv
  <2>2. CASE ~sbKnown
    BY <1>1, <1>4, <2>2 DEF SbSweep, SbSweepInv, sbToldVars
  <2> QED
    BY <2>1, <2>2
<1>5. ASSUME NEW r \in SbCallers, NEW source \in SbSources, SbBegin(r, source) PROVE SbSweepInv'
  BY <1>2, <1>5 DEF SbBegin
<1>6. ASSUME NEW r \in SbCallers, SbReadFile(r) \/ SbReadWorker(r) \/ SbReadActivity(r) PROVE SbSweepInv'
  <2>1. UNCHANGED <<sbFile, sbWorker, sbRecent, sbKnown, sbSwept>>
    BY <1>6 DEF SbReadFile, SbReadWorker, SbReadActivity, sbSourceVars, sbToldVars
  <2>2. CASE r # "sweeper"
    <3>1. sbPc'["sweeper"] = sbPc["sweeper"] /\ sbNow'["sweeper"] = sbNow["sweeper"]
      BY <1>1, <1>6, <2>2 DEF SbReadFile, SbReadWorker, SbReadActivity, SbComputed, SbLooksOn, SbShape
    <3> QED
      BY <1>1, <2>1, <3>1, SbUndisturbed
  <2>3. CASE r = "sweeper" /\ sbSwept = "begun"
    <3>1. CASE SbReadFile(r)
      <4>1. CASE sbFile
        <5>1. sbPc'["sweeper"] = "commit" /\ sbNow'["sweeper"] = TRUE
          BY <1>1, <2>3, <3>1, <4>1 DEF SbReadFile, SbComputed, SbShape
        <5> QED
          BY <1>1, <2>1, <2>3, <3>1, <4>1, <5>1 DEF SbReadFile, SbSweepInv, SbRunning
      <4>2. CASE ~sbFile
        <5>1. sbPc'["sweeper"] = "worker" /\ sbNow' = sbNow
          BY <1>1, <2>3, <3>1, <4>2 DEF SbReadFile, SbLooksOn, SbShape
        <5> QED
          BY <1>1, <2>1, <2>3, <3>1, <4>2, <5>1 DEF SbReadFile, SbSweepInv
      <4> QED
        BY <4>1, <4>2
    <3>2. CASE SbReadWorker(r)
      <4>1. ~sbFile /\ sbKnown
        BY <1>1, <2>3, <3>2 DEF SbReadWorker, SbSweepInv
      <4>2. CASE sbWorker = "none"
        <5>1. sbPc'["sweeper"] = "activity" /\ sbNow' = sbNow
          BY <1>1, <2>3, <3>2, <4>2 DEF SbReadWorker, SbLooksOn, SbShape
        <5> QED
          BY <1>1, <2>1, <2>3, <4>1, <4>2, <5>1 DEF SbSweepInv
      <4>3. CASE sbWorker # "none"
        <5>1. sbPc'["sweeper"] = "commit" /\ (sbNow'["sweeper"] <=> sbWorker = "running")
          BY <1>1, <2>3, <3>2, <4>3 DEF SbReadWorker, SbComputed, SbShape
        <5> QED
          BY <1>1, <2>1, <2>3, <4>1, <4>3, <5>1 DEF SbSweepInv, SbRunning
      <4> QED
        BY <4>2, <4>3
    <3>3. CASE SbReadActivity(r)
      <4>1. ~sbFile /\ sbKnown /\ sbWorker = "none"
        BY <1>1, <2>3, <3>3 DEF SbReadActivity, SbSweepInv
      <4>2. sbPc'["sweeper"] = "commit" /\ sbNow'["sweeper"] = sbRecent
        BY <1>1, <2>3, <3>3 DEF SbReadActivity, SbComputed, SbShape
      <4> QED
        BY <1>1, <2>1, <2>3, <4>1, <4>2 DEF SbSweepInv, SbRunning
    <3> QED
      BY <1>6, <3>1, <3>2, <3>3
  <2>4. CASE sbSwept = "no"
    BY <1>2, <2>1, <2>4
  <2>5. CASE r = "sweeper" /\ sbSwept = "ended"
    BY <1>1, <1>6, <2>5 DEF SbSweepInv, SbReadFile, SbReadWorker, SbReadActivity
  <2> QED
    BY <1>1, <2>2, <2>3, <2>4, <2>5 DEF SbShape
<1>7. ASSUME NEW r \in SbCallers, SbCommit(r) PROVE SbSweepInv'
  <2>1. sbPc[r] = "commit" /\ UNCHANGED <<sbFile, sbWorker, sbRecent, sbNow>>
    BY <1>7 DEF SbCommit, sbSourceVars
  <2>2. CASE sbNow[r] = sbKnown
    <3>1. /\ UNCHANGED sbKnown /\ SbSweepEnds(r)
          /\ sbPc'["sweeper"] = IF r = "sweeper" THEN "idle" ELSE sbPc["sweeper"]
      BY <1>1, <1>7, <2>2 DEF SbCommit, SbShape
    <3>2. CASE r = "sweeper"
      BY <1>1, <2>1, <2>2, <3>1, <3>2 DEF SbSweepInv, SbSweepEnds, SbRunning, SbShape
    <3>3. CASE r # "sweeper"
      BY <1>1, <2>1, <3>1, <3>3, SbUndisturbed DEF SbSweepEnds
    <3> QED
      BY <3>2, <3>3
  <2>3. CASE sbNow[r] # sbKnown
    <3>1. CASE r # "sweeper"
      BY <1>2, <1>7, <2>3, <3>1 DEF SbCommit
    <3>2. CASE r = "sweeper"
      <4>1. sbKnown' = sbNow["sweeper"] /\ sbSwept' = sbSwept /\ sbPc'["sweeper"] = "broadcast"
        BY <1>1, <1>7, <2>3, <3>2 DEF SbCommit, SbShape
      <4>2. sbSwept = "begun" => sbKnown /\ sbNow["sweeper"] = FALSE
        BY <1>1, <2>1, <2>3, <3>2 DEF SbSweepInv, SbShape
      <4>3. sbSwept # "ended"
        BY <1>1, <2>1, <3>2 DEF SbSweepInv
      <4> QED
        BY <4>1, <4>2, <4>3 DEF SbSweepInv
    <3> QED
      BY <3>1, <3>2
  <2> QED
    BY <2>2, <2>3
<1>8. ASSUME NEW r \in SbCallers, SbBroadcast(r) PROVE SbSweepInv'
  <2>1. sbPc[r] = "broadcast" /\ UNCHANGED <<sbFile, sbWorker, sbRecent, sbKnown, sbNow>> /\ SbSweepEnds(r)
    BY <1>8 DEF SbBroadcast, sbSourceVars
  <2>2. sbPc'["sweeper"] = IF r = "sweeper" THEN "idle" ELSE sbPc["sweeper"]
    BY <1>1, <1>8 DEF SbBroadcast, SbShape
  <2>3. CASE r = "sweeper"
    BY <1>1, <2>1, <2>2, <2>3 DEF SbSweepInv, SbSweepEnds
  <2>4. CASE r # "sweeper"
    BY <1>1, <2>1, <2>2, <2>4, SbUndisturbed DEF SbSweepEnds
  <2> QED
    BY <2>3, <2>4
<1> QED
  BY <1>3, <1>4, <1>5, <1>6, <1>7, <1>8 DEF SbNext

\* Every step keeps it.
LEMMA SbKeeps == SbInv /\ [SbNext]_sbVars => SbInv'
<1> SUFFICES ASSUME SbInv, [SbNext]_sbVars PROVE SbInv'
  OBVIOUS
<1>1. CASE SbNext
  <2>1. SbShape' /\ SbSweepInv'
    BY <1>1, SbShapeKeeps, SbSweepKeeps
  <2>2. SbDeltasBalance'
    BY <1>1, SbSourcesBalance, SbSweepBalances, SbLooksBalance, SbCommitBalances, SbBroadcastBalances DEF SbNext
  <2> QED
    BY <2>1, <2>2 DEF SbInv
<1>2. CASE UNCHANGED sbVars
  <2>1. UNCHANGED <<sbFile, sbWorker, sbRecent, sbOwed, sbKnown, sbSent, sbDone, sbPc, sbNow, sbCount, sbSwept>>
    BY <1>2 DEF sbVars, sbSourceVars, sbToldVars
  <2>2. SbDeltasBalance'
    BY <2>1, SbQuietBalances DEF SbAbout
  <2>3. SbSweepInv'
    BY <2>1, SbUndisturbed DEF SbInv
  <2>4. SbShape'
    BY <2>1 DEF SbInv, SbShape
  <2> QED
    BY <2>2, <2>3, <2>4 DEF SbInv
<1> QED
  BY <1>1, <1>2

LEMMA SbHolds == SbInv => SbTypeOK /\ SbDeltasBalance /\ SbIdleFound
<1> SUFFICES ASSUME SbInv PROVE SbTypeOK /\ SbDeltasBalance /\ SbIdleFound
  OBVIOUS
<1>1. SbDeltasBalance
  BY DEF SbInv
<1>2. SbIdleFound
  BY DEF SbInv, SbSweepInv, SbIdleFound, SbQuiet
<1>3. sbCount \in 0..SbChanges
  BY SbConstants DEF SbInv, SbShape
<1>4. SbTypeOK
  BY <1>3 DEF SbInv, SbShape, SbTypeOK
<1> QED
  BY <1>1, <1>2, <1>4

-----------------------------------------------------------------------------
(* The cache of parsed sessions: what is kept of a file is a prefix of it. *)

ScPlaces == {"start", "stat", "look", "parse", "store", "done", "error"}
ScEntries == [stamp : Nat, offset : Nat, size : Nat, fold : Seq(Int)]
ScHeld == [path : ScPaths \cup {ScNowhere}, stamp : Nat, prior : ScEntries, answer : Seq(Int),
           before : Seq(Int), load : BOOLEAN]

ScShape ==
  /\ scKind \in ScKinds /\ scEdits \in Nat /\ 1 <= scEdits /\ scEdits <= ScEdits
  /\ scFile \in [ScPaths -> Seq(Int)] /\ scStamp \in [ScPaths -> Nat]
  /\ scEntry \in [ScPaths -> ScEntries] /\ scIndex \in ScPaths \cup {ScNowhere}
  /\ scPc \in [ScCalls -> ScPlaces] /\ scCall \in [ScCalls -> ScHeld]
  /\ \A path \in ScPaths : scStamp[path] <= scEdits /\ scEntry[path].offset <= scEntry[path].size
  /\ \A c \in ScCalls :
       /\ scCall[c].prior.offset <= scCall[c].prior.size
       /\ scPc[c] \in {"stat", "look", "parse", "store"} => scCall[c].path \in ScPaths

\* One list of lines begins another.
ScBegins(short, long) == Len(short) <= Len(long) /\ \A k \in 1..Len(short) : short[k] = long[k]

\* What is known of a file that only grows: a parse is a prefix of what is complete,
\* all of it if the time is the file's.
ScSound(entry, lines, stamp) ==
  /\ Len(entry.fold) = entry.offset /\ ScBegins(entry.fold, lines)
  /\ entry.stamp <= stamp /\ (entry.stamp = stamp => entry.fold = lines)

ScCallSound(c, path, lines) ==
  /\ scPc[c] \in {"stat", "look", "parse", "store", "done"} => scCall[c].path = path
  /\ scPc[c] \in {"stat", "look", "parse"} => ScBegins(scCall[c].before, lines)
  /\ scPc[c] \in {"look", "parse"} => scCall[c].stamp \in 1..scStamp[path]
  /\ scPc[c] \in {"parse", "store"} => ScSound(scCall[c].prior, lines, scStamp[path])
  /\ scPc[c] = "store" =>
       /\ scCall[c].answer = scCall[c].prior.fold /\ scCall[c].prior.stamp >= 1
       /\ ScBegins(scCall[c].before, scCall[c].answer)
  /\ scPc[c] = "done" =>
       ScBegins(scCall[c].before, scCall[c].answer) /\ ScBegins(scCall[c].answer, lines)

\* What is parsed for the time a call has seen has what the call must answer.
ScSeen(c, entry) ==
  scPc[c] = "look" /\ entry.stamp = scCall[c].stamp => ScBegins(scCall[c].before, entry.fold)

ScAt(path, lines) ==
  /\ \A other \in ScPaths : scFile[other] # <<>> <=> other = path
  /\ scStamp[path] >= 1 /\ scIndex \in {path, ScNowhere}
  /\ ScSound(scEntry[path], lines, scStamp[path])
  /\ \A c \in ScCalls :
       /\ ScCallSound(c, path, lines) /\ ScSeen(c, scEntry[path])
       /\ \A d \in ScCalls : scPc[d] = "store" => ScSeen(c, scCall[d].prior)

ScGrows == scKind = "append-only" => \E path \in ScPaths : ScAt(path, ScComplete(scFile[path]))

ScInv == ScShape /\ ScGrows
-----------------------------------------------------------------------------
(* Lists of lines.                                                          *)

LEMMA ScPrefixBegins ==
  ASSUME NEW short \in Seq(Int), NEW long \in Seq(Int), ScBegins(short, long)
  PROVE  ScPrefix(short, long)
<1>1. Len(short) \in Nat /\ Len(long) \in Nat /\ Len(short) <= Len(long)
  BY DEF ScBegins
<1>2. SubSeq(long, 1, Len(short)) \in Seq(Int) /\ Len(SubSeq(long, 1, Len(short))) = Len(short)
      /\ \A k \in 1..Len(short) : SubSeq(long, 1, Len(short))[k] = short[k]
  BY <1>1 DEF ScBegins
<1>3. SubSeq(long, 1, Len(short)) = short
  BY <1>2, SeqEqual
<1> QED
  BY <1>1, <1>3 DEF ScPrefix

LEMMA ScPart ==
  ASSUME NEW lines \in Seq(Int), NEW m \in Nat, NEW n \in Nat, m <= n, n <= Len(lines)
  PROVE  /\ SubSeq(lines, m + 1, n) \in Seq(Int) /\ Len(SubSeq(lines, m + 1, n)) = n - m
         /\ \A k \in 1..(n - m) : SubSeq(lines, m + 1, n)[k] = lines[m + k]
<1>1. \A i \in (m + 1)..n : lines[i] \in Int
  OBVIOUS
<1>2. m + 1 \in Int /\ n \in Int
  OBVIOUS
<1>3. /\ SubSeq(lines, m + 1, n) \in Seq(Int)
      /\ Len(SubSeq(lines, m + 1, n)) = IF m + 1 <= n THEN n - (m + 1) + 1 ELSE 0
      /\ \A i \in 1 .. n - (m + 1) + 1 : SubSeq(lines, m + 1, n)[i] = lines[(m + 1) + i - 1]
  BY <1>1, <1>2, SubSeqProperties
<1>4. n - (m + 1) + 1 = n - m
  OBVIOUS
<1>5. \A k \in 1..(n - m) : (m + 1) + k - 1 = m + k
  OBVIOUS
<1> QED
  BY <1>3, <1>4, <1>5

LEMMA ScBeginsItself == \A lines : Len(lines) \in Nat => ScBegins(lines, lines)
  BY DEF ScBegins

LEMMA ScBeginsOn ==
  ASSUME NEW a \in Seq(Int), NEW b \in Seq(Int), NEW c \in Seq(Int), ScBegins(a, b), ScBegins(b, c)
  PROVE  ScBegins(a, c)
<1>1. Len(a) \in Nat /\ Len(b) \in Nat /\ Len(c) \in Nat
  OBVIOUS
<1> QED
  BY <1>1 DEF ScBegins

LEMMA ScCompleteBegins ==
  ASSUME NEW lines \in Seq(Int)
  PROVE  ScComplete(lines) \in Seq(Int) /\ ScBegins(ScComplete(lines), lines)
<1>1. CASE lines # <<>> /\ lines[Len(lines)] = ScHalf
  <2>1. ScComplete(lines) = SubSeq(lines, 1, Len(lines) - 1)
    BY <1>1 DEF ScComplete
  <2>2. Len(lines) \in Nat /\ Len(lines) >= 1
    BY <1>1
  <2>3. SubSeq(lines, 1, Len(lines) - 1) \in Seq(Int) /\ Len(SubSeq(lines, 1, Len(lines) - 1)) = Len(lines) - 1
        /\ \A k \in 1..(Len(lines) - 1) : SubSeq(lines, 1, Len(lines) - 1)[k] = lines[k]
    <3> DEFINE n == Len(lines) - 1
    <3>1. n \in Nat /\ n <= Len(lines)
      BY <2>2
    <3> HIDE DEF n
    <3>2. /\ SubSeq(lines, 0 + 1, n) \in Seq(Int) /\ Len(SubSeq(lines, 0 + 1, n)) = n - 0
          /\ \A k \in 1..(n - 0) : SubSeq(lines, 0 + 1, n)[k] = lines[0 + k]
      BY <3>1, ScPart
    <3>3. 0 + 1 = 1 /\ n - 0 = n /\ \A k \in 1..n : 0 + k = k
      BY <3>1
    <3>4. /\ SubSeq(lines, 1, n) \in Seq(Int) /\ Len(SubSeq(lines, 1, n)) = n
          /\ \A k \in 1..n : SubSeq(lines, 1, n)[k] = lines[k]
      BY <3>2, <3>3
    <3> QED
      BY <3>4 DEF n
  <2> QED
    BY <2>1, <2>2, <2>3 DEF ScBegins
<1>2. CASE ~(lines # <<>> /\ lines[Len(lines)] = ScHalf)
  BY <1>2, ScBeginsItself DEF ScComplete
<1> QED
  BY <1>1, <1>2

\* What is complete stays when a line is appended to it.
LEMMA ScAppended ==
  ASSUME NEW lines \in Seq(Int), NEW line \in Int
  PROVE  /\ Append(lines, line) \in Seq(Int) /\ Append(lines, line) # <<>>
         /\ ScBegins(lines, ScComplete(Append(lines, line)))
<1> DEFINE longer == Append(lines, line)
<1>1. /\ longer \in Seq(Int) /\ Len(longer) = Len(lines) + 1 /\ longer[Len(lines) + 1] = line
      /\ \A k \in 1..Len(lines) : longer[k] = lines[k]
  OBVIOUS
<1>2. longer # <<>> /\ Len(lines) \in Nat
  BY <1>1
<1>3. CASE line = ScHalf
  <2>1. ScComplete(longer) = SubSeq(longer, 1, Len(lines))
    BY <1>1, <1>2, <1>3 DEF ScComplete
  <2>2. Len(SubSeq(longer, 1, Len(lines))) = Len(lines)
        /\ \A k \in 1..Len(lines) : SubSeq(longer, 1, Len(lines))[k] = longer[k]
    <3> HIDE DEF longer
    <3> QED
      BY <1>1, <1>2
  <2> QED
    BY <1>1, <1>2, <2>1, <2>2 DEF ScBegins
<1>4. CASE line # ScHalf
  <2>1. ScComplete(longer) = longer
    BY <1>1, <1>4 DEF ScComplete
  <2> QED
    BY <1>1, <1>2, <2>1 DEF ScBegins
<1> QED
  BY <1>1, <1>2, <1>3, <1>4

\* A parse has what is complete, wherever it starts from.
LEMMA ScFolds ==
  ASSUME NEW lines \in Seq(Int), NEW prior \in ScEntries,
         Len(prior.fold) = prior.offset, ScBegins(prior.fold, ScComplete(lines))
  PROVE  ScFold(prior, lines) = ScComplete(lines)
<1> DEFINE n == Len(ScComplete(lines))
<1>1. n \in Nat /\ n <= Len(lines) /\ Len(lines) \in Nat /\ \A k \in 1..n : ScComplete(lines)[k] = lines[k]
  BY ScCompleteBegins DEF ScBegins
<1>2. ScComplete(lines) \in Seq(Int)
  BY ScCompleteBegins
<1>3. SubSeq(lines, 1, n) = ScComplete(lines)
  <2> HIDE DEF n
  <2>1. SubSeq(lines, 1, n) \in Seq(Int) /\ Len(SubSeq(lines, 1, n)) = n
        /\ \A k \in 1..n : SubSeq(lines, 1, n)[k] = lines[k]
    BY <1>1
  <2>2. n = Len(ScComplete(lines))
    BY DEF n
  <2> QED
    BY <1>1, <1>2, <2>1, <2>2, SeqEqual
<1>4. CASE ~ScCanExtend(prior, lines)
  BY <1>3, <1>4 DEF ScFold, ScConsumed
<1>5. CASE ScCanExtend(prior, lines)
  <2> DEFINE m == prior.offset
             fold == prior.fold
             rest == SubSeq(lines, m + 1, n)
  <2>1. m \in Nat /\ fold \in Seq(Int) /\ Len(fold) = m /\ m <= n
        /\ \A k \in 1..m : fold[k] = lines[k]
    BY <1>1 DEF ScBegins, ScEntries
  <2>2. ScFold(prior, lines) = fold \o rest
    BY <1>5 DEF ScFold, ScConsumed
  <2> HIDE DEF n, m, fold
  <2>3. rest \in Seq(Int) /\ Len(rest) = n - m /\ \A k \in 1..(n - m) : rest[k] = lines[m + k]
    BY <1>1, <2>1
  <2> HIDE DEF rest
  <2>4. /\ fold \o rest \in Seq(Int) /\ Len(fold \o rest) = Len(fold) + Len(rest)
        /\ \A i \in 1 .. Len(fold) + Len(rest) :
             (fold \o rest)[i] = IF i <= Len(fold) THEN fold[i] ELSE rest[i - Len(fold)]
    BY <2>1, <2>3, ConcatProperties
  <2> DEFINE whole == fold \o rest
  <2> HIDE DEF whole
  <2>5. /\ whole \in Seq(Int) /\ Len(whole) = n
        /\ \A k \in 1..n : whole[k] = IF k <= m THEN fold[k] ELSE rest[k - m]
    <3>1. Len(fold) + Len(rest) = n
      BY <1>1, <2>1, <2>3
    <3> QED
      BY <2>1, <2>4, <3>1 DEF whole
  <2>6. ASSUME NEW k \in 1..n PROVE whole[k] = lines[k]
    <3>1. CASE k <= m
      BY <2>1, <2>5, <3>1
    <3>2. CASE ~(k <= m)
      <4>1. k - m \in 1..(n - m) /\ m + (k - m) = k
        BY <1>1, <2>1, <3>2
      <4>2. whole[k] = rest[k - m] /\ rest[k - m] = lines[m + (k - m)]
        BY <2>3, <2>5, <3>2, <4>1
      <4> QED
        BY <4>1, <4>2
    <3> QED
      BY <3>1, <3>2
  <2>7. n = Len(ScComplete(lines))
    BY DEF n
  <2>8. Len(whole) = Len(ScComplete(lines)) /\ \A i \in 1..Len(whole) : whole[i] = ScComplete(lines)[i]
    BY <1>1, <2>5, <2>6, <2>7
  <2>9. whole = ScComplete(lines)
    BY <1>2, <2>5, <2>8, SeqEqual
  <2> QED
    BY <2>2, <2>9 DEF whole
<1> QED
  BY <1>4, <1>5
-----------------------------------------------------------------------------
(* The shape.                                                               *)

LEMMA ScNoneHeld == ScNoEntry \in ScEntries /\ ScNoCall \in ScHeld
<1>1. <<>> \in Seq(Int)
  OBVIOUS
<1>2. ScNoEntry \in ScEntries
  BY <1>1 DEF ScNoEntry, ScEntries
<1> QED
  BY <1>1, <1>2 DEF ScNoCall, ScHeld

LEMMA ScStarts == ScInit => ScInv
<1> SUFFICES ASSUME ScInit PROVE ScInv
  OBVIOUS
<1>1. PICK path \in ScPaths : /\ scFile = [p \in ScPaths |-> IF p = path THEN <<1>> ELSE <<>>]
                              /\ scStamp = [p \in ScPaths |-> IF p = path THEN 1 ELSE 0]
  BY DEF ScInit
<1>2. <<1>> \in Seq(Int) /\ <<>> \in Seq(Int) /\ <<1>> # <<>>
  OBVIOUS
<1>3. ScShape
  <2>1. scKind \in ScKinds /\ scEdits \in Nat /\ 1 <= scEdits /\ scEdits <= ScEdits
    BY ScConstants DEF ScInit
  <2>2. scFile \in [ScPaths -> Seq(Int)]
    BY <1>1, <1>2
  <2>3. scStamp \in [ScPaths -> Nat] /\ \A p \in ScPaths : scStamp[p] <= scEdits
    BY <1>1 DEF ScInit
  <2>4. scEntry \in [ScPaths -> ScEntries] /\ \A p \in ScPaths : scEntry[p].offset <= scEntry[p].size
    <3>1. \A p \in ScPaths : scEntry[p] = ScNoEntry /\ ScNoEntry.offset <= ScNoEntry.size
      BY DEF ScInit, ScNoEntry
    <3> QED
      BY <3>1, ScNoneHeld DEF ScInit
  <2>5. scIndex \in ScPaths \cup {ScNowhere}
    BY DEF ScInit
  <2>6. scPc \in [ScCalls -> ScPlaces] /\ \A c \in ScCalls : scPc[c] = "start"
    BY DEF ScInit, ScPlaces
  <2>7. scCall \in [ScCalls -> ScHeld] /\ \A c \in ScCalls : scCall[c] = ScNoCall
    BY ScNoneHeld DEF ScInit
  <2>8. ScNoCall.prior.offset <= ScNoCall.prior.size
    BY DEF ScNoCall, ScNoEntry
  <2> QED
    BY <2>1, <2>2, <2>3, <2>4, <2>5, <2>6, <2>7, <2>8 DEF ScShape
<1>4. ScGrows
  <2>1. PICK lines : lines = ScComplete(scFile[path])
    OBVIOUS
  <2>2. lines \in Seq(Int)
    BY <1>3, <2>1, ScCompleteBegins DEF ScShape
  <2>3. \A other \in ScPaths : scFile[other] # <<>> <=> other = path
    BY <1>1, <1>2
  <2>4. scStamp[path] = 1 /\ scIndex = ScNowhere /\ scEntry[path] = ScNoEntry
    BY <1>1 DEF ScInit
  <2>5. ScSound(ScNoEntry, lines, 1)
    BY <2>2 DEF ScNoEntry, ScSound, ScBegins
  <2>6. ASSUME NEW c \in ScCalls PROVE scPc[c] = "start"
    BY DEF ScInit
  <2>7. ScAt(path, lines)
    BY <2>3, <2>4, <2>5, <2>6 DEF ScAt, ScCallSound, ScSeen
  <2> QED
    BY <2>1, <2>7 DEF ScGrows
<1> QED
  BY <1>3, <1>4 DEF ScInv

\* A call goes on.
LEMMA ScStepShape ==
  ASSUME ScShape, NEW c \in ScCalls, NEW label \in ScPlaces, NEW call \in ScHeld, ScStep(c, label, call),
         call.prior.offset <= call.prior.size,
         label \in {"stat", "look", "parse", "store"} => call.path \in ScPaths
  PROVE  /\ scPc' \in [ScCalls -> ScPlaces] /\ scCall' \in [ScCalls -> ScHeld]
         /\ \A d \in ScCalls :
              /\ scCall'[d].prior.offset <= scCall'[d].prior.size
              /\ scPc'[d] \in {"stat", "look", "parse", "store"} => scCall'[d].path \in ScPaths
<1>1. scPc' \in [ScCalls -> ScPlaces] /\ scCall' \in [ScCalls -> ScHeld]
  BY DEF ScShape, ScStep
<1>2. \A d \in ScCalls : /\ scPc'[d] = IF d = c THEN label ELSE scPc[d]
                         /\ scCall'[d] = IF d = c THEN call ELSE scCall[d]
  BY DEF ScShape, ScStep
<1>3. ASSUME NEW d \in ScCalls
      PROVE  /\ scCall'[d].prior.offset <= scCall'[d].prior.size
             /\ scPc'[d] \in {"stat", "look", "parse", "store"} => scCall'[d].path \in ScPaths
  <2>1. CASE d = c
    BY <1>2, <2>1
  <2>2. CASE d # c
    BY <1>2, <2>2 DEF ScShape
  <2> QED
    BY <2>1, <2>2
<1> QED
  BY <1>1, <1>3

\* An answer is held like any other call.
LEMMA ScAnswerShape ==
  ASSUME ScShape, NEW c \in ScCalls, NEW answer \in Seq(Int), ScAnswer(c, answer)
  PROVE  /\ scPc' \in [ScCalls -> ScPlaces] /\ scCall' \in [ScCalls -> ScHeld]
         /\ \A d \in ScCalls :
              /\ scCall'[d].prior.offset <= scCall'[d].prior.size
              /\ scPc'[d] \in {"stat", "look", "parse", "store"} => scCall'[d].path \in ScPaths
<1>1. PICK call : call = [ScNoCall EXCEPT !.path = scCall[c].path, !.before = scCall[c].before, !.answer = answer]
  OBVIOUS
<1>2. scCall[c] \in ScHeld
  BY DEF ScShape
<1>3. call \in ScHeld /\ call.prior.offset <= call.prior.size
  <2>1. scCall[c].path \in ScPaths \cup {ScNowhere} /\ scCall[c].before \in Seq(Int)
    BY <1>2 DEF ScHeld
  <2>2. ScNoCall \in ScHeld
    BY ScNoneHeld
  <2>3. call \in ScHeld /\ call.prior = ScNoCall.prior
    BY <1>1, <2>1, <2>2 DEF ScHeld
  <2>4. ScNoCall.prior.offset <= ScNoCall.prior.size
    BY DEF ScNoCall, ScNoEntry
  <2> QED
    BY <2>3, <2>4
<1>4. ScStep(c, "done", call) /\ "done" \in ScPlaces
  BY <1>1 DEF ScAnswer, ScPlaces
<1> QED
  BY <1>3, <1>4, ScStepShape

LEMMA ScFilesShape ==
  ASSUME ScShape, NEW path \in ScPaths, NEW lines \in Seq(Int), ScChange(path, lines)
  PROVE  ScShape'
<1>1. scEdits' \in Nat /\ 1 <= scEdits' /\ scEdits' <= ScEdits /\ scEdits <= scEdits'
  BY ScConstants DEF ScShape, ScChange
<1>2. scFile' \in [ScPaths -> Seq(Int)]
  BY DEF ScShape, ScChange
<1>3. scStamp' \in [ScPaths -> Nat] /\ \A p \in ScPaths : scStamp'[p] <= scEdits'
  BY <1>1 DEF ScShape, ScChange
<1>4. UNCHANGED <<scKind, scEntry, scIndex, scPc, scCall>>
  BY DEF ScChange, scCacheVars
<1> QED
  BY <1>1, <1>2, <1>3, <1>4 DEF ScShape

LEMMA ScLocalsTyped ==
  ASSUME NEW lines \in Seq(Int)
  PROVE  ScLocals(lines) \in Seq(Int) /\ \A values : ScCount(lines, values) \in Nat
<1>1. ASSUME NEW values PROVE ScCount(lines, values) \in Nat
  <2>1. IsFiniteSet(1..Len(lines)) /\ DOMAIN lines = 1..Len(lines)
    BY FS_Interval
  <2>2. IsFiniteSet({k \in DOMAIN lines : lines[k] \in values})
    BY <2>1, FS_Subset
  <2> QED
    BY <2>2, FS_CardinalityType DEF ScCount
<1>2. PICK n \in Nat : n = ScCount(lines, {ScLocal})
  BY <1>1
<1>3. ScLocals(lines) = [k \in 1..n |-> ScLocal] /\ ScLocal \in Int
  BY <1>2 DEF ScLocals, ScLocal
<1>4. [k \in 1..n |-> ScLocal] \in Seq(Int)
  BY <1>3
<1> QED
  BY <1>1, <1>3, <1>4

\* What a parse leaves in a call's hands.
ScParsed(call, lines) ==
  [call EXCEPT !.answer = ScFold(call.prior, lines),
               !.prior = [stamp |-> call.stamp, offset |-> ScConsumed(lines),
                          size |-> Len(lines), fold |-> ScFold(call.prior, lines)]]

LEMMA ScParsedTyped ==
  ASSUME NEW call \in ScHeld, NEW lines \in Seq(Int)
  PROVE  /\ ScParsed(call, lines) \in ScHeld /\ ScParsed(call, lines).path = call.path
         /\ ScParsed(call, lines).prior.offset <= ScParsed(call, lines).prior.size
<1>1. PICK n : n = ScConsumed(lines)
  OBVIOUS
<1>2. n \in Nat /\ n <= Len(lines) /\ Len(lines) \in Nat
  BY <1>1, ScCompleteBegins DEF ScConsumed, ScBegins
<1>3. PICK fold : fold = ScFold(call.prior, lines)
  OBVIOUS
<1>4. call.prior \in ScEntries /\ call.prior.offset \in Nat /\ call.prior.fold \in Seq(Int)
  BY DEF ScHeld, ScEntries
<1>5. fold \in Seq(Int)
  <2>1. \A m \in Nat : SubSeq(lines, m + 1, n) \in Seq(Int)
    <3> TAKE m \in Nat
    <3>1. \A i \in (m + 1)..n : lines[i] \in Int
      BY <1>2
    <3>2. m + 1 \in Int /\ n \in Int
      BY <1>2
    <3> QED
      BY <3>1, <3>2, SubSeqProperties
  <2>2. CASE ScCanExtend(call.prior, lines)
    <3>1. fold = call.prior.fold \o SubSeq(lines, call.prior.offset + 1, n)
      BY <1>1, <1>3, <2>2 DEF ScFold
    <3>2. SubSeq(lines, call.prior.offset + 1, n) \in Seq(Int)
      BY <1>4, <2>1
    <3> QED
      BY <1>4, <3>1, <3>2, ConcatProperties
  <2>3. CASE ~ScCanExtend(call.prior, lines)
    <3>1. fold = SubSeq(lines, 1, n)
      BY <1>1, <1>3, <2>3 DEF ScFold
    <3>2. SubSeq(lines, 0 + 1, n) \in Seq(Int) /\ 0 + 1 = 1
      BY <2>1
    <3> QED
      BY <3>1, <3>2
  <2> QED
    BY <2>2, <2>3
<1>6. PICK entry : entry = [stamp |-> call.stamp, offset |-> n, size |-> Len(lines), fold |-> fold]
  OBVIOUS
<1>7. entry \in ScEntries /\ entry.offset <= entry.size
  BY <1>2, <1>5, <1>6 DEF ScEntries, ScHeld
<1>8. ScParsed(call, lines) = [call EXCEPT !.answer = fold, !.prior = entry]
  BY <1>1, <1>3, <1>6 DEF ScParsed
<1> QED
  BY <1>5, <1>7, <1>8 DEF ScHeld

LEMMA ScShapeKeeps ==
  ASSUME ScShape, ScNext
  PROVE  ScShape'
<1> USE DEF scFileVars, scCacheVars
<1>1. ASSUME NEW path \in ScPaths, ScAppend(path) PROVE ScShape'
  <2>1. scFile[path] \in Seq(Int)
    BY DEF ScShape
  <2>2. PICK lines \in Seq(Int) : lines = ScComplete(scFile[path])
    BY <2>1, ScCompleteBegins
  <2>3. ScCount(lines, 1..ScLines) + 1 \in Int /\ ScHalf \in Int /\ ScLocal \in Int
    BY ScLocalsTyped DEF ScHalf, ScLocal
  <2>4. \E line \in Int : ScChange(path, Append(lines, line))
    BY <1>1, <2>2, <2>3 DEF ScAppend
  <2> QED
    BY <2>4, ScAppended, ScFilesShape
<1>2. ASSUME NEW path \in ScPaths, ScReplace(path) PROVE ScShape'
  <2>1. PICK old \in ScFiles, n \in 1..ScLines : ScChange(path, [k \in 1..n |-> k] \o ScLocals(scFile[old]))
    BY <1>2 DEF ScReplace
  <2>2. scFile[old] \in Seq(Int)
    BY DEF ScShape, ScFiles
  <2>3. n \in Nat
    BY ScConstants
  <2>4. [k \in 1..n |-> k] \in Seq(Int)
    BY <2>3
  <2>5. ([k \in 1..n |-> k] \o ScLocals(scFile[old])) \in Seq(Int)
    BY <2>2, <2>4, ScLocalsTyped, ConcatProperties
  <2> QED
    BY <2>1, <2>5, ScFilesShape
<1>3. ASSUME NEW path \in ScPaths, ScDedupe(path) PROVE ScShape'
  <2>1. <<>> \in Seq(Int)
    OBVIOUS
  <2>2. scFile' \in [ScPaths -> Seq(Int)]
    BY <1>3, <2>1 DEF ScDedupe, ScShape
  <2>3. UNCHANGED <<scKind, scStamp, scEdits, scEntry, scIndex, scPc, scCall>>
    BY <1>3 DEF ScDedupe
  <2> QED
    BY <2>2, <2>3 DEF ScShape
<1>4. ASSUME NEW c \in ScCalls, ScFind(c) PROVE ScShape'
  <2>1. PICK load \in BOOLEAN, path \in ScPaths :
          /\ scIndex' = IF load THEN scIndex ELSE path
          /\ ScStep(c, "stat", [ScNoCall EXCEPT !.path = path, !.load = load, !.before = ScComplete(scFile[path])])
    BY <1>4 DEF ScFind
  <2>2. PICK call : call = [ScNoCall EXCEPT !.path = path, !.load = load, !.before = ScComplete(scFile[path])]
    OBVIOUS
  <2>3. ScComplete(scFile[path]) \in Seq(Int)
    BY ScCompleteBegins DEF ScShape
  <2>4. ScNoCall \in ScHeld /\ ScNoCall.prior.offset <= ScNoCall.prior.size
    BY ScNoneHeld DEF ScNoCall, ScNoEntry
  <2>5. call \in ScHeld /\ call.prior = ScNoCall.prior /\ call.path = path
    BY <2>2, <2>3, <2>4 DEF ScHeld
  <2>6. ScStep(c, "stat", call) /\ "stat" \in ScPlaces
    BY <2>1, <2>2 DEF ScPlaces
  <2>7. /\ scPc' \in [ScCalls -> ScPlaces] /\ scCall' \in [ScCalls -> ScHeld]
        /\ \A d \in ScCalls :
              /\ scCall'[d].prior.offset <= scCall'[d].prior.size
              /\ scPc'[d] \in {"stat", "look", "parse", "store"} => scCall'[d].path \in ScPaths
    BY <2>4, <2>5, <2>6, ScStepShape
  <2>8. scIndex' \in ScPaths \cup {ScNowhere} /\ UNCHANGED <<scKind, scFile, scStamp, scEdits, scEntry>>
    BY <1>4, <2>1 DEF ScFind, ScShape
  <2> QED
    BY <2>7, <2>8 DEF ScShape
<1>5. ASSUME NEW c \in ScCalls, ScStat(c) PROVE ScShape'
  <2>1. UNCHANGED <<scKind, scFile, scStamp, scEdits>> /\ scPc[c] = "stat"
    BY <1>5 DEF ScStat
  <2>2. scCall[c] \in ScHeld /\ scCall[c].path \in ScPaths /\ scStamp[scCall[c].path] \in Nat
        /\ scCall[c].prior.offset <= scCall[c].prior.size
    BY <2>1 DEF ScShape
  <2>3. CASE scCall[c].path \in ScFiles
    <3>1. PICK call : call = [scCall[c] EXCEPT !.stamp = scStamp[scCall[c].path]]
      OBVIOUS
    <3>2. call \in ScHeld /\ call.prior = scCall[c].prior /\ call.path = scCall[c].path
      BY <2>2, <3>1 DEF ScHeld
    <3>3. ScStep(c, "look", call) /\ "look" \in ScPlaces /\ UNCHANGED <<scEntry, scIndex>>
      BY <1>5, <2>3, <3>1 DEF ScStat, ScPlaces
    <3>4. /\ scPc' \in [ScCalls -> ScPlaces] /\ scCall' \in [ScCalls -> ScHeld]
          /\ \A d \in ScCalls :
                /\ scCall'[d].prior.offset <= scCall'[d].prior.size
                /\ scPc'[d] \in {"stat", "look", "parse", "store"} => scCall'[d].path \in ScPaths
      BY <2>2, <3>2, <3>3, ScStepShape
    <3> QED
      BY <2>1, <3>3, <3>4 DEF ScShape
  <2>4. CASE scCall[c].path \notin ScFiles
    <3>1. ScStep(c, "error", ScNoCall) /\ "error" \in ScPlaces
      BY <1>5, <2>4 DEF ScStat, ScPlaces
    <3>2. ScNoCall \in ScHeld /\ ScNoCall.prior.offset <= ScNoCall.prior.size
      BY ScNoneHeld DEF ScNoCall, ScNoEntry
    <3>3. /\ scPc' \in [ScCalls -> ScPlaces] /\ scCall' \in [ScCalls -> ScHeld]
          /\ \A d \in ScCalls :
                /\ scCall'[d].prior.offset <= scCall'[d].prior.size
                /\ scPc'[d] \in {"stat", "look", "parse", "store"} => scCall'[d].path \in ScPaths
      BY <3>1, <3>2, ScStepShape
    <3>4. UNCHANGED <<scEntry, scIndex>> \/ (ScForget(scCall[c].path) /\ scIndex' = ScNowhere)
      BY <1>5, <2>4 DEF ScStat
    <3>5. /\ scEntry' \in [ScPaths -> ScEntries] /\ scIndex' \in ScPaths \cup {ScNowhere}
          /\ \A p \in ScPaths : scEntry'[p].offset <= scEntry'[p].size
      <4>1. ScNoEntry \in ScEntries /\ ScNoEntry.offset <= ScNoEntry.size
        BY ScNoneHeld DEF ScNoEntry
      <4> QED
        BY <3>4, <4>1 DEF ScShape, ScForget
    <3> QED
      BY <2>1, <3>3, <3>5 DEF ScShape
  <2> QED
    BY <2>3, <2>4
<1>6. ASSUME NEW c \in ScCalls, ScLook(c) PROVE ScShape'
  <2>1. UNCHANGED <<scKind, scFile, scStamp, scEdits>> /\ scPc[c] = "look"
    BY <1>6 DEF ScLook
  <2>2. scCall[c] \in ScHeld /\ scCall[c].path \in ScPaths /\ scEntry[scCall[c].path] \in ScEntries
        /\ scEntry[scCall[c].path].offset <= scEntry[scCall[c].path].size
    BY <2>1 DEF ScShape
  <2>3. /\ scPc' \in [ScCalls -> ScPlaces] /\ scCall' \in [ScCalls -> ScHeld]
        /\ \A d \in ScCalls :
              /\ scCall'[d].prior.offset <= scCall'[d].prior.size
              /\ scPc'[d] \in {"stat", "look", "parse", "store"} => scCall'[d].path \in ScPaths
    <3>1. CASE scEntry[scCall[c].path].stamp = scCall[c].stamp
      <4>1. ScAnswer(c, scEntry[scCall[c].path].fold) /\ scEntry[scCall[c].path].fold \in Seq(Int)
        BY <1>6, <2>2, <3>1 DEF ScLook, ScEntries
      <4> QED
        BY <4>1, ScAnswerShape
    <3>2. CASE scEntry[scCall[c].path].stamp # scCall[c].stamp
      <4>1. PICK call : call = [scCall[c] EXCEPT !.prior = scEntry[scCall[c].path], !.load = FALSE]
        OBVIOUS
      <4>2. call \in ScHeld /\ call.prior = scEntry[scCall[c].path] /\ call.path = scCall[c].path
        BY <2>2, <4>1 DEF ScHeld
      <4>3. ScStep(c, "parse", call) /\ "parse" \in ScPlaces
        BY <1>6, <3>2, <4>1 DEF ScLook, ScPlaces
      <4> QED
        BY <2>2, <4>2, <4>3, ScStepShape
    <3> QED
      BY <3>1, <3>2
  <2>4. UNCHANGED <<scEntry, scIndex>> \/ \E gone \in ScPaths : ScForget(gone) /\ scIndex' = ScNowhere
    BY <1>6 DEF ScLook
  <2>5. /\ scEntry' \in [ScPaths -> ScEntries] /\ scIndex' \in ScPaths \cup {ScNowhere}
        /\ \A p \in ScPaths : scEntry'[p].offset <= scEntry'[p].size
    <3>1. ScNoEntry \in ScEntries /\ ScNoEntry.offset <= ScNoEntry.size
      BY ScNoneHeld DEF ScNoEntry
    <3> QED
      BY <2>4, <3>1 DEF ScShape, ScForget
  <2> QED
    BY <2>1, <2>3, <2>5 DEF ScShape
<1>7. ASSUME NEW c \in ScCalls, ScParse(c) PROVE ScShape'
  <2>1. UNCHANGED <<scKind, scFile, scStamp, scEdits, scEntry, scIndex>> /\ scPc[c] = "parse"
    BY <1>7 DEF ScParse
  <2>2. scCall[c] \in ScHeld /\ scCall[c].path \in ScPaths /\ scFile[scCall[c].path] \in Seq(Int)
    BY <2>1 DEF ScShape
  <2>3. /\ scPc' \in [ScCalls -> ScPlaces] /\ scCall' \in [ScCalls -> ScHeld]
        /\ \A d \in ScCalls :
              /\ scCall'[d].prior.offset <= scCall'[d].prior.size
              /\ scPc'[d] \in {"stat", "look", "parse", "store"} => scCall'[d].path \in ScPaths
    <3>1. CASE scCall[c].path \in ScFiles
      <4>1. PICK call : call = ScParsed(scCall[c], scFile[scCall[c].path])
        OBVIOUS
      <4>2. call \in ScHeld /\ call.path = scCall[c].path /\ call.prior.offset <= call.prior.size
        BY <2>2, <4>1, ScParsedTyped
      <4>3. ScStep(c, "store", call) /\ "store" \in ScPlaces
        BY <1>7, <3>1, <4>1 DEF ScParse, ScParsed, ScPlaces
      <4> QED
        BY <2>2, <4>2, <4>3, ScStepShape
    <3>2. CASE scCall[c].path \notin ScFiles
      <4>1. ScStep(c, "error", ScNoCall) /\ "error" \in ScPlaces
        BY <1>7, <3>2 DEF ScParse, ScPlaces
      <4>2. ScNoCall \in ScHeld /\ ScNoCall.prior.offset <= ScNoCall.prior.size
        BY ScNoneHeld DEF ScNoCall, ScNoEntry
      <4> QED
        BY <4>1, <4>2, ScStepShape
    <3> QED
      BY <3>1, <3>2
  <2> QED
    BY <2>1, <2>3 DEF ScShape
<1>8. ASSUME NEW c \in ScCalls, ScStore(c) PROVE ScShape'
  <2>1. UNCHANGED <<scKind, scFile, scStamp, scEdits>> /\ scPc[c] = "store" /\ ScAnswer(c, scCall[c].answer)
    BY <1>8 DEF ScStore
  <2>2. scCall[c] \in ScHeld /\ scCall[c].path \in ScPaths /\ scCall[c].prior \in ScEntries
        /\ scCall[c].prior.offset <= scCall[c].prior.size /\ scCall[c].answer \in Seq(Int)
    BY <2>1 DEF ScShape, ScHeld
  <2>3. /\ scPc' \in [ScCalls -> ScPlaces] /\ scCall' \in [ScCalls -> ScHeld]
        /\ \A d \in ScCalls :
              /\ scCall'[d].prior.offset <= scCall'[d].prior.size
              /\ scPc'[d] \in {"stat", "look", "parse", "store"} => scCall'[d].path \in ScPaths
    BY <2>1, <2>2, ScAnswerShape
  <2>4. /\ scEntry' = [scEntry EXCEPT ![scCall[c].path] = scCall[c].prior]
           \/ scEntry' = [scEntry EXCEPT ![scCall[c].path] = ScNoEntry]
        /\ scIndex' \in {scIndex, scCall[c].path}
    BY <1>8 DEF ScStore, ScStored
  <2>5. /\ scEntry' \in [ScPaths -> ScEntries] /\ scIndex' \in ScPaths \cup {ScNowhere}
        /\ \A p \in ScPaths : scEntry'[p].offset <= scEntry'[p].size
    <3>1. ScNoEntry \in ScEntries /\ ScNoEntry.offset <= ScNoEntry.size
      BY ScNoneHeld DEF ScNoEntry
    <3> QED
      BY <2>2, <2>4, <3>1 DEF ScShape
  <2> QED
    BY <2>1, <2>3, <2>5 DEF ScShape
<1>9. ASSUME ScInvalidate PROVE ScShape'
  <2>1. \A p \in ScPaths : scEntry'[p] = ScNoEntry /\ ScNoEntry.offset <= ScNoEntry.size
    BY <1>9 DEF ScInvalidate, ScNoEntry
  <2>2. scEntry' \in [ScPaths -> ScEntries]
    BY <1>9, ScNoneHeld DEF ScInvalidate
  <2>3. UNCHANGED <<scKind, scFile, scStamp, scEdits, scPc, scCall>> /\ scIndex' = ScNowhere
    BY <1>9 DEF ScInvalidate
  <2> QED
    BY <2>1, <2>2, <2>3 DEF ScShape
<1> QED
  BY <1>1, <1>2, <1>3, <1>4, <1>5, <1>6, <1>7, <1>8, <1>9 DEF ScNext
-----------------------------------------------------------------------------
(* A file that only grows.                                                  *)

\* A line that is appended comes at a new time, for which nothing is parsed yet.
LEMMA ScSoundOn ==
  ASSUME NEW entry \in ScEntries, NEW lines \in Seq(Int), NEW longer \in Seq(Int), NEW stamp \in Nat,
         NEW later \in Nat, ScSound(entry, lines, stamp), ScBegins(lines, longer), stamp < later
  PROVE  ScSound(entry, longer, later)
<1>1. entry.fold \in Seq(Int) /\ entry.stamp \in Nat
  BY DEF ScEntries
<1>2. ScBegins(entry.fold, longer)
  BY <1>1, ScBeginsOn DEF ScSound
<1> QED
  BY <1>1, <1>2 DEF ScSound

LEMMA ScAppendGrows ==
  ASSUME ScShape, NEW path \in ScPaths, NEW lines \in Seq(Int), lines = ScComplete(scFile[path]),
         ScAt(path, lines), NEW line \in Int, ScChange(path, Append(lines, line)), ScShape'
  PROVE  \E longer \in Seq(Int) : longer = ScComplete(scFile'[path]) /\ ScAt(path, longer)'
<1>1. PICK longer : longer = ScComplete(Append(lines, line))
  OBVIOUS
<1>2. longer \in Seq(Int) /\ ScBegins(lines, longer) /\ Append(lines, line) # <<>>
  BY <1>1, ScAppended, ScCompleteBegins
<1>3. /\ scFile'[path] = Append(lines, line) /\ scStamp'[path] = scEdits + 1
      /\ \A other \in ScPaths : other # path => scFile'[other] = scFile[other]
      /\ UNCHANGED <<scEntry, scIndex, scPc, scCall>>
  BY DEF ScChange, ScShape, scCacheVars
<1>4. scStamp[path] \in Nat /\ scStamp'[path] \in Nat /\ scStamp[path] < scStamp'[path] /\ scStamp[path] >= 1
  BY <1>3 DEF ScShape, ScAt
<1>5. longer = ScComplete(scFile'[path])
  BY <1>1, <1>3
<1>6. \A other \in ScPaths : scFile'[other] # <<>> <=> other = path
  BY <1>2, <1>3 DEF ScAt
<1>7. ScSound(scEntry[path], longer, scStamp'[path])
  BY <1>2, <1>4, ScSoundOn DEF ScAt, ScShape
<1>8. ASSUME NEW c \in ScCalls
      PROVE  ScCallSound(c, path, longer)' /\ ScSeen(c, scEntry[path])'
             /\ \A d \in ScCalls : scPc'[d] = "store" => ScSeen(c, scCall[d].prior)'
  <2>1. /\ ScCallSound(c, path, lines) /\ ScSeen(c, scEntry[path])
        /\ \A d \in ScCalls : scPc[d] = "store" => ScSeen(c, scCall[d].prior)
    BY DEF ScAt
  <2>2. scCall[c].before \in Seq(Int) /\ scCall[c].prior \in ScEntries /\ scCall[c].answer \in Seq(Int)
        /\ scCall[c].stamp \in Nat
    BY DEF ScShape, ScHeld
  <2>3. ScSeen(c, scEntry[path])' /\ \A d \in ScCalls : scPc'[d] = "store" => ScSeen(c, scCall[d].prior)'
    BY <1>3, <2>1 DEF ScSeen
  <2>4. scPc[c] \in {"stat", "look", "parse"} => ScBegins(scCall[c].before, longer)
    BY <1>2, <2>1, <2>2, ScBeginsOn DEF ScCallSound
  <2>5. scPc[c] \in {"look", "parse"} => scCall[c].stamp \in 1..scStamp'[path]
    BY <1>4, <2>1, <2>2 DEF ScCallSound
  <2>6. scPc[c] \in {"parse", "store"} => ScSound(scCall[c].prior, longer, scStamp'[path])
    BY <1>2, <1>4, <2>1, <2>2, ScSoundOn DEF ScCallSound
  <2>7. scPc[c] = "done" => ScBegins(scCall[c].before, scCall[c].answer) /\ ScBegins(scCall[c].answer, longer)
    BY <1>2, <2>1, <2>2, ScBeginsOn DEF ScCallSound
  <2>8. ScCallSound(c, path, longer)'
    BY <1>3, <2>1, <2>4, <2>5, <2>6, <2>7 DEF ScCallSound
  <2> QED
    BY <2>3, <2>8
<1>9. ScAt(path, longer)'
  BY <1>3, <1>4, <1>6, <1>7, <1>8 DEF ScAt
<1> QED
  BY <1>2, <1>5, <1>9

\* A call goes on; what is cached stays, is forgotten or is what a call has parsed.
LEMMA ScCallGrows ==
  ASSUME ScShape, NEW path \in ScPaths, NEW lines \in Seq(Int), ScAt(path, lines),
         UNCHANGED <<scFile, scStamp>>, scIndex' \in {path, ScNowhere},
         NEW c \in ScCalls, NEW label, NEW call, ScStep(c, label, call),
         \/ scEntry'[path] = scEntry[path] \/ scEntry'[path] = ScNoEntry
         \/ scPc[c] = "store" /\ scEntry'[path] = scCall[c].prior,
         ScCallSound(c, path, lines)',
         label = "look" => call.stamp = scStamp[path] /\ ScBegins(call.before, lines),
         label = "store" => call.prior.fold = lines
  PROVE  ScAt(path, lines)'
<1>1. \A d \in ScCalls : /\ scPc'[d] = IF d = c THEN label ELSE scPc[d]
                         /\ scCall'[d] = IF d = c THEN call ELSE scCall[d]
  BY DEF ScShape, ScStep
<1>2. scStamp[path] \in Nat /\ scStamp[path] >= 1
  BY DEF ScShape, ScAt
<1>3. ScSound(ScNoEntry, lines, scStamp[path]) /\ ScNoEntry.stamp = 0
  BY <1>2 DEF ScNoEntry, ScSound, ScBegins
<1>4. ScSound(scEntry'[path], lines, scStamp[path])
  BY <1>3 DEF ScAt, ScCallSound
<1>5. \A d \in ScCalls : ScCallSound(d, path, lines)'
  <2> TAKE d \in ScCalls
  <2>1. CASE d = c
    BY <2>1
  <2>2. CASE d # c
    <3>1. scPc'[d] = scPc[d] /\ scCall'[d] = scCall[d] /\ ScCallSound(d, path, lines)
      BY <1>1, <2>2 DEF ScAt
    <3> QED
      BY <3>1 DEF ScCallSound
  <2> QED
    BY <2>1, <2>2
<1>6. ASSUME NEW d \in ScCalls, scPc'[d] = "look", NEW entry, ScSound(entry, lines, scStamp[path]),
             ScSeen(d, entry) \/ d = c
      PROVE  entry.stamp = scCall'[d].stamp => ScBegins(scCall'[d].before, entry.fold)
  <2>1. CASE d = c
    <3>1. scCall'[d] = call /\ call.stamp = scStamp[path] /\ ScBegins(call.before, lines)
      BY <1>1, <1>6, <2>1
    <3> QED
      BY <1>6, <3>1 DEF ScSound
  <2>2. CASE d # c
    BY <1>1, <1>6, <2>2 DEF ScSeen
  <2> QED
    BY <2>1, <2>2
<1>7. \A d \in ScCalls : ScSeen(d, scEntry[path])'
  <2> TAKE d \in ScCalls
  <2>1. SUFFICES ASSUME scPc'[d] = "look"
                 PROVE  scEntry'[path].stamp = scCall'[d].stamp => ScBegins(scCall'[d].before, scEntry'[path].fold)
    BY DEF ScSeen
  <2>2. CASE scEntry'[path] = ScNoEntry
    <3>1. ScCallSound(d, path, lines)'
      BY <1>5
    <3>2. scCall'[d].stamp \in 1..scStamp'[path]
      BY <2>1, <3>1 DEF ScCallSound
    <3> QED
      BY <1>2, <1>3, <2>2, <3>2
  <2>3. CASE scEntry'[path] # ScNoEntry
    <3>1. ScSeen(d, scEntry'[path])
      BY <2>3 DEF ScAt
    <3> QED
      BY <1>4, <1>6, <2>1, <3>1
  <2> QED
    BY <2>2, <2>3
<1>8. \A d \in ScCalls : \A e \in ScCalls : scPc'[e] = "store" => ScSeen(d, scCall[e].prior)'
  <2> TAKE d \in ScCalls
  <2> TAKE e \in ScCalls
  <2>1. SUFFICES ASSUME scPc'[d] = "look", scPc'[e] = "store"
                 PROVE  scCall'[e].prior.stamp = scCall'[d].stamp =>
                          ScBegins(scCall'[d].before, scCall'[e].prior.fold)
    BY DEF ScSeen
  <2>2. ScCallSound(e, path, lines)' /\ ScCallSound(d, path, lines)'
    BY <1>5
  <2>3. ScSound(scCall'[e].prior, lines, scStamp[path])
    BY <2>1, <2>2 DEF ScCallSound
  <2>4. CASE e = c
    <3>1. scCall'[e].prior.fold = lines /\ ScBegins(scCall'[d].before, lines)
      BY <1>1, <2>1, <2>2, <2>4 DEF ScCallSound
    <3> QED
      BY <3>1
  <2>5. CASE e # c
    <3>1. scPc[e] = "store" /\ scCall'[e] = scCall[e]
      BY <1>1, <2>1, <2>5
    <3>2. ScSeen(d, scCall'[e].prior)
      BY <3>1 DEF ScAt
    <3> QED
      BY <1>6, <2>1, <2>3, <3>2
  <2> QED
    BY <2>4, <2>5
<1> QED
  BY <1>2, <1>4, <1>5, <1>7, <1>8 DEF ScAt

LEMMA ScGrowsKeeps ==
  ASSUME ScInv, ScNext, ScShape'
  PROVE  ScGrows'
<1> USE DEF scFileVars, scCacheVars
<1>1. ScShape /\ scKind' = scKind
  BY DEF ScInv, ScNext, ScAppend, ScReplace, ScDedupe, ScChange, ScFind, ScStat, ScLook, ScParse, ScStore, ScInvalidate
<1>2. SUFFICES ASSUME scKind = "append-only"
               PROVE  \E path \in ScPaths : ScAt(path, ScComplete(scFile[path]))'
  BY <1>1 DEF ScGrows
<1>3. PICK path \in ScPaths : ScAt(path, ScComplete(scFile[path]))
  BY <1>2 DEF ScInv, ScGrows
<1>4. PICK lines \in Seq(Int) : lines = ScComplete(scFile[path])
  BY <1>1, ScCompleteBegins DEF ScShape
<1>5. ScAt(path, lines)
  BY <1>3, <1>4
<1>6. ScFiles = {path}
  BY <1>5 DEF ScFiles, ScAt
<1>7. SUFFICES \E longer \in Seq(Int) : longer = ScComplete(scFile'[path]) /\ ScAt(path, longer)'
  <2>1. ASSUME NEW longer \in Seq(Int), longer = ScComplete(scFile'[path]), ScAt(path, longer)'
        PROVE  ScAt(path, ScComplete(scFile[path]))'
    BY <2>1
  <2> QED
    BY <2>1
<1>8. ASSUME NEW q \in ScPaths, ScAppend(q)
      PROVE  \E longer \in Seq(Int) : longer = ScComplete(scFile'[path]) /\ ScAt(path, longer)'
  <2>1. q = path
    BY <1>6, <1>8 DEF ScAppend
  <2>2. ScCount(lines, 1..ScLines) + 1 \in Int /\ ScHalf \in Int /\ ScLocal \in Int
    BY ScLocalsTyped DEF ScHalf, ScLocal
  <2>3. \E line \in Int : ScChange(path, Append(lines, line))
    BY <1>4, <1>8, <2>1, <2>2 DEF ScAppend
  <2> QED
    BY <1>1, <1>4, <1>5, <2>3, ScAppendGrows
<1>9. ASSUME NEW q \in ScPaths, ScReplace(q) \/ ScDedupe(q) PROVE FALSE
  <2>1. Cardinality(ScFiles) = 1
    BY <1>6, FS_Singleton
  <2> QED
    BY <1>2, <1>9, <2>1 DEF ScReplace, ScDedupe
<1>10. ASSUME ScInvalidate PROVE FALSE
  BY <1>2, <1>10 DEF ScInvalidate
<1>11. SUFFICES ASSUME NEW c \in ScCalls, ScFind(c) \/ ScStat(c) \/ ScLook(c) \/ ScParse(c) \/ ScStore(c)
                PROVE  ScAt(path, lines)'
  <2>1. ASSUME ScAt(path, lines)', UNCHANGED scFile
        PROVE  \E longer \in Seq(Int) : longer = ScComplete(scFile'[path]) /\ ScAt(path, longer)'
    BY <1>4, <2>1
  <2>2. ASSUME NEW c \in ScCalls, ScFind(c) \/ ScStat(c) \/ ScLook(c) \/ ScParse(c) \/ ScStore(c)
        PROVE  UNCHANGED scFile
    BY <2>2 DEF ScFind, ScStat, ScLook, ScParse, ScStore
  <2> QED
    BY <1>8, <1>9, <1>10, <2>1, <2>2 DEF ScNext
<1>12. UNCHANGED <<scFile, scStamp>>
  BY <1>11 DEF ScFind, ScStat, ScLook, ScParse, ScStore
<1>13. /\ ScCallSound(c, path, lines) /\ ScSeen(c, scEntry[path]) /\ scCall[c] \in ScHeld
       /\ ScSound(scEntry[path], lines, scStamp[path]) /\ scEntry[path] \in ScEntries
       /\ scIndex \in {path, ScNowhere} /\ scStamp[path] \in Nat /\ scStamp[path] >= 1
  BY <1>1, <1>5 DEF ScAt, ScShape
<1>14. Len(lines) \in Nat /\ ScBegins(lines, lines)
  BY ScBeginsItself
<1>15. CASE ScFind(c)
  <2>1. PICK load \in BOOLEAN, q \in ScPaths :
          /\ IF ~load /\ scIndex # ScNowhere THEN q = scIndex ELSE q \in ScFiles
          /\ scIndex' = IF load THEN scIndex ELSE q
          /\ ScStep(c, "stat", [ScNoCall EXCEPT !.path = q, !.load = load, !.before = ScComplete(scFile[q])])
    BY <1>15 DEF ScFind
  <2>2. q = path
    BY <1>6, <1>13, <2>1
  <2>3. PICK call : call = [ScNoCall EXCEPT !.path = path, !.load = load, !.before = lines]
    OBVIOUS
  <2>4. ScStep(c, "stat", call) /\ call.path = path /\ call.before = lines
    BY <1>4, <2>1, <2>2, <2>3 DEF ScNoCall
  <2>5. scIndex' \in {path, ScNowhere} /\ scEntry' = scEntry
    BY <1>13, <1>15, <2>1, <2>2 DEF ScFind
  <2>6. scPc'[c] = "stat" /\ scCall'[c] = call
    BY <1>1, <2>4 DEF ScStep, ScShape
  <2>7. ScCallSound(c, path, lines)'
    BY <1>14, <2>4, <2>6 DEF ScCallSound
  <2> QED
    BY <1>1, <1>5, <1>12, <2>4, <2>5, <2>7, ScCallGrows
<1>16. CASE ScStat(c)
  <2>1. scPc[c] = "stat" /\ scCall[c].path = path
    BY <1>13, <1>16 DEF ScStat, ScCallSound
  <2>2. PICK call : call = [scCall[c] EXCEPT !.stamp = scStamp[path]]
    OBVIOUS
  <2>3. ScStep(c, "look", call) /\ UNCHANGED <<scEntry, scIndex>>
    BY <1>6, <1>16, <2>1, <2>2 DEF ScStat
  <2>4. call.path = path /\ call.stamp = scStamp[path] /\ call.before = scCall[c].before
    BY <1>13, <2>1, <2>2 DEF ScHeld
  <2>5. scPc'[c] = "look" /\ scCall'[c] = call
    BY <1>1, <2>3 DEF ScStep, ScShape
  <2>6. ScBegins(call.before, lines)
    BY <1>13, <2>1, <2>4 DEF ScCallSound
  <2>7. ScCallSound(c, path, lines)'
    BY <1>12, <1>13, <2>4, <2>5, <2>6 DEF ScCallSound
  <2> QED
    BY <1>1, <1>5, <1>12, <1>13, <2>3, <2>4, <2>6, <2>7, ScCallGrows
<1>17. CASE ScLook(c)
  <2>1. /\ scPc[c] = "look" /\ scCall[c].path = path /\ ScBegins(scCall[c].before, lines)
        /\ scCall[c].stamp \in 1..scStamp[path]
    BY <1>13, <1>17 DEF ScLook, ScCallSound
  <2>2. scEntry'[path] = scEntry[path] /\ scIndex' \in {path, ScNowhere}
    BY <1>1, <1>6, <1>13, <1>17 DEF ScLook, ScForget, ScShape
  <2>3. CASE scEntry[path].stamp = scCall[c].stamp
    <3>1. PICK call : call = [ScNoCall EXCEPT !.path = path, !.before = scCall[c].before, !.answer = scEntry[path].fold]
      OBVIOUS
    <3>2. ScStep(c, "done", call)
      BY <1>17, <2>1, <2>3, <3>1 DEF ScLook, ScAnswer
    <3>3. call.path = path /\ call.before = scCall[c].before /\ call.answer = scEntry[path].fold
      BY <3>1 DEF ScNoCall
    <3>4. scPc'[c] = "done" /\ scCall'[c] = call
      BY <1>1, <3>2 DEF ScStep, ScShape
    <3>5. ScBegins(scCall[c].before, scEntry[path].fold) /\ ScBegins(scEntry[path].fold, lines)
      BY <1>13, <2>1, <2>3 DEF ScSeen, ScSound
    <3>6. ScCallSound(c, path, lines)'
      BY <3>3, <3>4, <3>5 DEF ScCallSound
    <3> QED
      BY <1>1, <1>5, <1>12, <2>2, <3>2, <3>6, ScCallGrows
  <2>4. CASE scEntry[path].stamp # scCall[c].stamp
    <3>1. PICK call : call = [scCall[c] EXCEPT !.prior = scEntry[path], !.load = FALSE]
      OBVIOUS
    <3>2. ScStep(c, "parse", call)
      BY <1>17, <2>1, <2>4, <3>1 DEF ScLook
    <3>3. call.path = path /\ call.before = scCall[c].before /\ call.prior = scEntry[path] /\ call.stamp = scCall[c].stamp
      BY <1>13, <2>1, <3>1 DEF ScHeld
    <3>4. scPc'[c] = "parse" /\ scCall'[c] = call
      BY <1>1, <3>2 DEF ScStep, ScShape
    <3>5. ScCallSound(c, path, lines)'
      BY <1>12, <1>13, <2>1, <3>3, <3>4 DEF ScCallSound
    <3> QED
      BY <1>1, <1>5, <1>12, <2>2, <3>2, <3>5, ScCallGrows
  <2> QED
    BY <2>3, <2>4
<1>18. CASE ScParse(c)
  <2>1. /\ scPc[c] = "parse" /\ scCall[c].path = path /\ ScBegins(scCall[c].before, lines)
        /\ scCall[c].stamp \in 1..scStamp[path] /\ ScSound(scCall[c].prior, lines, scStamp[path])
    BY <1>13, <1>18 DEF ScParse, ScCallSound
  <2>2. PICK call : call = ScParsed(scCall[c], scFile[path])
    OBVIOUS
  <2>3. ScStep(c, "store", call) /\ UNCHANGED <<scEntry, scIndex>>
    BY <1>6, <1>18, <2>1, <2>2 DEF ScParse, ScParsed
  <2>4. scFile[path] \in Seq(Int) /\ scCall[c].prior \in ScEntries
    BY <1>1, <1>13 DEF ScShape, ScHeld
  <2>5. ScFold(scCall[c].prior, scFile[path]) = lines
    BY <1>4, <2>1, <2>4, ScFolds DEF ScSound
  <2>6. /\ call.path = path /\ call.before = scCall[c].before /\ call.answer = lines
        /\ call.prior.fold = lines /\ call.prior.offset = Len(lines) /\ call.prior.stamp = scCall[c].stamp
    BY <1>4, <1>13, <2>1, <2>2, <2>5 DEF ScParsed, ScHeld, ScConsumed
  <2>7. scPc'[c] = "store" /\ scCall'[c] = call
    BY <1>1, <2>3 DEF ScStep, ScShape
  <2>8. ScSound(call.prior, lines, scStamp[path]) /\ call.prior.stamp >= 1
    BY <1>13, <1>14, <2>1, <2>6 DEF ScSound
  <2>9. ScCallSound(c, path, lines)'
    BY <1>12, <2>1, <2>6, <2>7, <2>8 DEF ScCallSound
  <2> QED
    BY <1>1, <1>5, <1>12, <1>13, <2>3, <2>6, <2>9, ScCallGrows
<1>19. CASE ScStore(c)
  <2>1. /\ scPc[c] = "store" /\ scCall[c].path = path /\ ScSound(scCall[c].prior, lines, scStamp[path])
        /\ scCall[c].answer = scCall[c].prior.fold /\ ScBegins(scCall[c].before, scCall[c].answer)
    BY <1>13, <1>19 DEF ScStore, ScCallSound
  <2>2. PICK call : call = [ScNoCall EXCEPT !.path = path, !.before = scCall[c].before, !.answer = scCall[c].answer]
    OBVIOUS
  <2>3. ScStep(c, "done", call)
    BY <1>19, <2>1, <2>2 DEF ScStore, ScAnswer
  <2>4. call.path = path /\ call.before = scCall[c].before /\ call.answer = scCall[c].answer
    BY <2>2 DEF ScNoCall
  <2>5. scPc'[c] = "done" /\ scCall'[c] = call
    BY <1>1, <2>3 DEF ScStep, ScShape
  <2>6. ScCallSound(c, path, lines)'
    BY <2>1, <2>4, <2>5 DEF ScCallSound, ScSound
  <2>7. scEntry'[path] = scCall[c].prior \/ scEntry'[path] = ScNoEntry
    BY <1>1, <1>19, <2>1 DEF ScStore, ScStored, ScShape
  <2>8. scIndex' \in {path, ScNowhere}
    BY <1>13, <1>19, <2>1 DEF ScStore
  <2> QED
    BY <1>1, <1>5, <1>12, <2>1, <2>3, <2>6, <2>7, <2>8, ScCallGrows
<1> QED
  BY <1>11, <1>15, <1>16, <1>17, <1>18, <1>19

LEMMA ScKeeps == ScInv /\ [ScNext]_scVars => ScInv'
<1> SUFFICES ASSUME ScInv, [ScNext]_scVars PROVE ScInv'
  OBVIOUS
<1>1. CASE ScNext
  <2>1. ScShape'
    BY <1>1, ScShapeKeeps DEF ScInv
  <2> QED
    BY <1>1, <2>1, ScGrowsKeeps DEF ScInv
<1>2. CASE UNCHANGED scVars
  <2>1. UNCHANGED <<scKind, scFile, scStamp, scEdits, scEntry, scIndex, scPc, scCall>>
    BY <1>2 DEF scVars, scFileVars, scCacheVars
  <2>2. ScShape'
    BY <2>1 DEF ScInv, ScShape
  <2>3. ScGrows'
    BY <2>1 DEF ScInv, ScGrows, ScAt, ScCallSound, ScSeen
  <2> QED
    BY <2>2, <2>3 DEF ScInv
<1> QED
  BY <1>1, <1>2

LEMMA ScHolds == ScInv => ScTypeOK /\ ScAnswersExact
<1> SUFFICES ASSUME ScInv PROVE ScTypeOK /\ ScAnswersExact
  OBVIOUS
<1>1. ScShape
  BY DEF ScInv
<1>2. ScTypeOK
  BY <1>1, ScConstants DEF ScShape, ScTypeOK
<1>3. ScAnswersExact
  <2>1. SUFFICES ASSUME NEW c \in ScCalls, scKind = "append-only", scPc[c] = "done"
                 PROVE  /\ ScPrefix(scCall[c].before, scCall[c].answer)
                        /\ ScPrefix(scCall[c].answer, ScComplete(scFile[scCall[c].path]))
    BY DEF ScAnswersExact
  <2>2. PICK path \in ScPaths : ScAt(path, ScComplete(scFile[path]))
    BY <2>1 DEF ScInv, ScGrows
  <2>3. PICK lines \in Seq(Int) : lines = ScComplete(scFile[path])
    BY <1>1, ScCompleteBegins DEF ScShape
  <2>4. ScCallSound(c, path, lines)
    BY <2>2, <2>3 DEF ScAt
  <2>5. /\ scCall[c].path = path /\ ScBegins(scCall[c].before, scCall[c].answer)
        /\ ScBegins(scCall[c].answer, lines)
    BY <2>1, <2>4 DEF ScCallSound
  <2>6. scCall[c].before \in Seq(Int) /\ scCall[c].answer \in Seq(Int)
    BY <1>1 DEF ScShape, ScHeld
  <2>7. ScPrefix(scCall[c].before, scCall[c].answer) /\ ScPrefix(scCall[c].answer, lines)
    BY <2>5, <2>6, ScPrefixBegins
  <2> QED
    BY <2>3, <2>5, <2>7
<1> QED
  BY <1>2, <1>3

-----------------------------------------------------------------------------
(* Session files: the folds and the branches.                              *)

\* Induction up to a bound, over a set instead of a predicate.
LEMMA InductionUpTo ==
  ASSUME NEW n \in Nat, NEW S, 0 \in S, \A k \in 1..n : k - 1 \in S => k \in S
  PROVE  0..n \subseteq S
<1> DEFINE missing == (0..n) \ S
<1>1. SUFFICES ASSUME missing # {} PROVE FALSE
  OBVIOUS
<1>2. missing \subseteq Nat
  OBVIOUS
<1>3. PICK k \in missing : \A j \in missing : ~(<<j, k>> \in Earlier)
  <2> HIDE DEF missing
  <2> QED
    BY <1>1, <1>2, WFMin, EarlierIsWellFounded
<1>4. k \in 1..n /\ k - 1 \in 0..n /\ k - 1 < k
  OBVIOUS
<1>5. k - 1 \notin missing
  BY <1>2, <1>3, <1>4 DEF Earlier
<1> QED
  BY <1>3, <1>4, <1>5

\* What is folded over the numbers up to a bound is there, and is of its type.
LEMMA FoldExists ==
  ASSUME NEW T, NEW start \in T, NEW n \in Nat, NEW With \in [1..n -> [T -> T]]
  PROVE  \E f \in [0..n -> T] : f[0] = start /\ \A k \in 1..n : f[k] = With[k][f[k - 1]]
<1> DEFINE Folds(m) == {f \in [0..m -> T] : f[0] = start /\ \A k \in 1..m : f[k] = With[k][f[k - 1]]}
           S == {m \in 0..n : Folds(m) # {}}
<1>1. 0 \in S
  <2>1. [k \in 0..0 |-> start] \in Folds(0)
    OBVIOUS
  <2> QED
    BY <2>1
<1>2. ASSUME NEW m \in 1..n, m - 1 \in S PROVE m \in S
  <2>1. PICK f : f \in Folds(m - 1)
    BY <1>2
  <2>2. f \in [0..(m - 1) -> T] /\ f[0] = start /\ \A k \in 1..(m - 1) : f[k] = With[k][f[k - 1]]
    BY <2>1
  <2>3. m - 1 \in 0..(m - 1) /\ f[m - 1] \in T
    BY <2>2
  <2>4. With[m][f[m - 1]] \in T
    BY <2>3
  <2> DEFINE g == [k \in 0..m |-> IF k = m THEN With[m][f[m - 1]] ELSE f[k]]
  <2>5. \A k \in 0..m : k # m => k \in 0..(m - 1)
    OBVIOUS
  <2>6. g \in [0..m -> T]
    BY <2>2, <2>4, <2>5
  <2>7. g[0] = start
    BY <2>2
  <2>8. ASSUME NEW k \in 1..m PROVE g[k] = With[k][g[k - 1]]
    <3>1. k - 1 \in 0..m /\ k - 1 # m /\ g[k - 1] = f[k - 1]
      OBVIOUS
    <3>2. CASE k = m
      BY <3>1, <3>2
    <3>3. CASE k # m
      <4>1. k \in 1..(m - 1) /\ g[k] = f[k]
        BY <3>3
      <4> QED
        BY <2>2, <3>1, <4>1
    <3> QED
      BY <3>2, <3>3
  <2>9. g \in Folds(m)
    BY <2>6, <2>7, <2>8
  <2> QED
    BY <2>9
<1>3. n \in S
  <2> HIDE DEF S
  <2>1. 0..n \subseteq S
    BY <1>1, <1>2, InductionUpTo
  <2> QED
    BY <2>1
<1> QED
  BY <1>3
-----------------------------------------------------------------------------
(* What a file is.                                                          *)

SlKinds == SlMessages \cup {"session", "model_change", "thinking_level_change", "session_info", "label"}
SlAnyModel == SlModels \cup {SlNoModel}
SlLineSet == [kind : SlKinds, parent : Nat, model : SlAnyModel, tool : {"none", "question", "other"},
              about : Nat, awaiting : BOOLEAN]

\* What a line says of the lines before it.
SlLineOK(lines, id) ==
  /\ lines[id].tool # "none" => lines[id].kind = "assistant"
  /\ SlHasId(lines[id]) =>
       lines[id].parent = 0 \/ (lines[id].parent \in 1..(id - 1) /\ SlHasId(lines[lines[id].parent]))
  /\ lines[id].kind = "toolResult" => lines[id].about = lines[id].parent /\ lines[id].about # 0
  /\ lines[id].kind = "session" => id = 1 \/ lines[id].model = SlNoModel

SlLinesOK ==
  /\ slLines \in Seq(SlLineSet) /\ Len(slLines) >= 1 /\ Len(slLines) <= SlLines
  /\ slLines[1].kind = "session"
  /\ \A id \in 1..Len(slLines) : SlLineOK(slLines, id)

SlInv ==
  /\ SlLinesOK
  /\ slCopy = <<>> \/ \E target \in SlIds : slCopy = SlPath(slLines, target)

\* A file that is right so far is right with one more line that is.
LEMMA SlAppendedOK ==
  ASSUME SlLinesOK, NEW line, SlAppend(line), line \in SlLineSet,
         line.tool # "none" => line.kind = "assistant",
         SlHasId(line) => line.parent \in SlParents,
         line.kind = "toolResult" => line.about = line.parent /\ line.about # 0,
         line.kind = "session" => line.model = SlNoModel
  PROVE  SlInv'
<1> DEFINE n == Len(slLines)
<1>1. n \in Nat /\ n >= 1 /\ slLines \in Seq(SlLineSet)
  BY DEF SlLinesOK
<1>2. slLines' = Append(slLines, line) /\ n < SlLines /\ slCopy' = <<>>
  BY DEF SlAppend
<1>3. /\ slLines' \in Seq(SlLineSet) /\ Len(slLines') = n + 1 /\ slLines'[n + 1] = line
      /\ \A id \in 1..n : slLines'[id] = slLines[id]
  BY <1>1, <1>2
<1>4. n + 1 <= SlLines /\ n + 1 >= 1 /\ 1 \in 1..n
  BY <1>1, <1>2, SlConstants
<1>5. ASSUME NEW id \in 1..(n + 1) PROVE SlLineOK(slLines', id)
  <2>1. CASE id = n + 1
    <3>1. (n + 1) - 1 = n
      BY <1>1
    <3>2. SlHasId(line) => line.parent = 0 \/ (line.parent \in 1..n /\ SlHasId(slLines'[line.parent]))
      BY <1>1, <1>3 DEF SlParents, SlIds
    <3> QED
      BY <1>3, <2>1, <3>1, <3>2 DEF SlLineOK
  <2>2. CASE id # n + 1
    <3>1. id \in 1..n /\ 1..(id - 1) \subseteq 1..n
      BY <1>1, <2>2
    <3>2. slLines'[id] = slLines[id] /\ \A j \in 1..(id - 1) : slLines'[j] = slLines[j]
      BY <1>3, <3>1
    <3>3. SlLineOK(slLines, id)
      BY <3>1 DEF SlLinesOK
    <3> QED
      BY <3>2, <3>3 DEF SlLineOK
  <2> QED
    BY <2>1, <2>2
<1>6. slLines'[1].kind = "session"
  BY <1>3, <1>4 DEF SlLinesOK
<1>7. SlLinesOK'
  BY <1>3, <1>4, <1>5, <1>6 DEF SlLinesOK
<1> QED
  BY <1>2, <1>7 DEF SlInv

LEMMA SlLineTyped == SlLine \in SlLineSet /\ SlLine.kind = "session" /\ SlLine.tool = "none"
  BY DEF SlLine, SlLineSet, SlKinds, SlAnyModel

\* Up to three lines put together.
LEMMA SlJoined ==
  ASSUME NEW S, NEW a \in S, NEW b \in S, NEW c \in S
  PROVE  /\ <<a>> \o <<>> = <<a>> /\ <<a>> \o <<c>> = <<a, c>>
         /\ <<a, b>> \o <<>> = <<a, b>> /\ <<a, b>> \o <<c>> = <<a, b, c>>
<1>1. <<a>> \in Seq(S) /\ <<a, b>> \in Seq(S)
  OBVIOUS
<1>2. <<a>> \o <<>> = <<a>> /\ <<a, b>> \o <<>> = <<a, b>>
  BY <1>1, ConcatEmptySeq
<1>3. Append(<<a>>, c) = <<a>> \o <<c>> /\ Append(<<a, b>>, c) = <<a, b>> \o <<c>>
  BY <1>1, AppendIsConcat
<1>4. Append(<<a>>, c) = <<a, c>>
  <2>1. /\ Append(<<a>>, c) \in Seq(S) /\ Len(Append(<<a>>, c)) = Len(<<a>>) + 1
        /\ \A i \in 1 .. Len(<<a>>) : Append(<<a>>, c)[i] = <<a>>[i]
        /\ Append(<<a>>, c)[Len(<<a>>) + 1] = c
    BY <1>1, AppendProperties
  <2> DEFINE longer == Append(<<a>>, c)
  <2> HIDE DEF longer
  <2>2. longer \in Seq(S) /\ Len(longer) = 2 /\ longer[1] = a /\ longer[2] = c
    BY <2>1 DEF longer
  <2>3. <<a, c>> \in Seq(S) /\ Len(<<a, c>>) = 2
    OBVIOUS
  <2>4. \A i \in 1..Len(longer) : longer[i] = <<a, c>>[i]
    BY <2>2
  <2>5. longer = <<a, c>>
    BY <2>2, <2>3, <2>4, SeqEqual
  <2> QED
    BY <2>5 DEF longer
<1>5. Append(<<a, b>>, c) = <<a, b, c>>
  <2>1. /\ Append(<<a, b>>, c) \in Seq(S) /\ Len(Append(<<a, b>>, c)) = Len(<<a, b>>) + 1
        /\ \A i \in 1 .. Len(<<a, b>>) : Append(<<a, b>>, c)[i] = <<a, b>>[i]
        /\ Append(<<a, b>>, c)[Len(<<a, b>>) + 1] = c
    BY <1>1, AppendProperties
  <2> DEFINE longer == Append(<<a, b>>, c)
  <2> HIDE DEF longer
  <2>2. longer \in Seq(S) /\ Len(longer) = 3 /\ longer[1] = a /\ longer[2] = b /\ longer[3] = c
    BY <2>1 DEF longer
  <2>3. <<a, b, c>> \in Seq(S) /\ Len(<<a, b, c>>) = 3
    OBVIOUS
  <2>4. \A i \in 1..Len(longer) : longer[i] = <<a, b, c>>[i]
    BY <2>2
  <2>5. longer = <<a, b, c>>
    BY <2>2, <2>3, <2>4, SeqEqual
  <2> QED
    BY <2>5 DEF longer
<1> QED
  BY <1>2, <1>3, <1>4, <1>5

LEMMA SlJoinedToOne ==
  ASSUME NEW S, NEW a \in S, NEW c \in S
  PROVE  <<a>> \o <<>> = <<a>> /\ <<a>> \o <<c>> = <<a, c>>
BY SlJoined

LEMMA SlJoinedToTwo ==
  ASSUME NEW S, NEW a \in S, NEW b \in S, NEW c \in S
  PROVE  <<a, b>> \o <<>> = <<a, b>> /\ <<a, b>> \o <<c>> = <<a, b, c>>
BY SlJoined

\* A file as pican or the projection of a runtime has created it.
LEMMA SlCreatedOK ==
  ASSUME NEW model \in SlAnyModel, NEW thinking \in BOOLEAN, slLines = SlCreated(model, thinking)
  PROVE  SlLinesOK
<1> DEFINE change == [SlLine EXCEPT !.kind = "model_change", !.model = model]
           level(parent) == [SlLine EXCEPT !.kind = "thinking_level_change", !.parent = parent]
<1>1. SlLine \in SlLineSet /\ change \in SlLineSet /\ level(0) \in SlLineSet /\ level(2) \in SlLineSet
  BY SlLineTyped DEF SlLineSet, SlKinds
<1>2. /\ SlLine.kind = "session" /\ SlLine.tool = "none"
      /\ change.kind = "model_change" /\ change.tool = "none" /\ change.parent = 0
      /\ \A parent \in Nat : /\ level(parent).kind = "thinking_level_change" /\ level(parent).tool = "none"
                             /\ level(parent).parent = parent
  BY DEF SlLine
<1>3. slLines \in {<<SlLine>>, <<SlLine, level(0)>>, <<SlLine, change>>, <<SlLine, change, level(2)>>}
  <2> DEFINE first == IF model = SlNoModel THEN <<>> ELSE <<change>>
             second == IF thinking THEN <<level(IF model = SlNoModel THEN 0 ELSE 2)>> ELSE <<>>
  <2>1. slLines = (<<SlLine>> \o first) \o second
    BY DEF SlCreated
  <2>2. CASE model = SlNoModel
    <3>1. first = <<>> /\ second = IF thinking THEN <<level(0)>> ELSE <<>>
      BY <2>2
    <3> HIDE DEF change, level, first, second
    <3>2. <<SlLine>> \o first = <<SlLine>>
      BY <1>1, <3>1, SlJoinedToOne
    <3>3. <<SlLine>> \o <<level(0)>> = <<SlLine, level(0)>> /\ <<SlLine>> \o <<>> = <<SlLine>>
      BY <1>1, SlJoinedToOne
    <3> QED
      BY <2>1, <3>1, <3>2, <3>3
  <2>3. CASE model # SlNoModel
    <3>1. first = <<change>> /\ second = IF thinking THEN <<level(2)>> ELSE <<>>
      BY <2>3
    <3> HIDE DEF change, level, first, second
    <3>2. <<SlLine>> \o first = <<SlLine, change>>
      BY <1>1, <3>1, SlJoinedToOne
    <3>3. <<SlLine, change>> \o <<level(2)>> = <<SlLine, change, level(2)>>
      BY <1>1, SlJoinedToTwo
    <3>4. <<SlLine, change>> \o <<>> = <<SlLine, change>>
      BY <1>1, SlJoinedToTwo
    <3> QED
      BY <2>1, <3>1, <3>2, <3>3, <3>4
  <2> QED
    BY <2>2, <2>3
<1> HIDE DEF change, level
<1>4. SlHasId(change) /\ \A parent \in Nat : SlHasId(level(parent))
  BY <1>2 DEF SlHasId
<1>5. CASE slLines = <<SlLine>>
  BY <1>1, <1>2, <1>5, SlConstants DEF SlLinesOK, SlLineOK, SlHasId
<1>6. CASE slLines = <<SlLine, level(0)>>
  BY <1>1, <1>2, <1>6, SlConstants DEF SlLinesOK, SlLineOK, SlHasId
<1>7. CASE slLines = <<SlLine, change>>
  BY <1>1, <1>2, <1>7, SlConstants DEF SlLinesOK, SlLineOK, SlHasId
<1>8. CASE slLines = <<SlLine, change, level(2)>>
  BY <1>1, <1>2, <1>4, <1>8, SlConstants DEF SlLinesOK, SlLineOK, SlHasId
<1> QED
  BY <1>3, <1>5, <1>6, <1>7, <1>8

LEMMA SlStarts == SlInit => SlInv
<1> SUFFICES ASSUME SlInit PROVE SlInv
  OBVIOUS
<1>1. CASE \E model \in SlAnyModel, thinking \in BOOLEAN : slLines = SlCreated(model, thinking)
  BY <1>1, SlCreatedOK DEF SlInit, SlInv
<1>2. CASE \E model \in SlModels : slLines = <<[SlLine EXCEPT !.model = model]>>
  <2>1. PICK model \in SlModels : slLines = <<[SlLine EXCEPT !.model = model]>>
    BY <1>2
  <2>2. PICK line : line = [SlLine EXCEPT !.model = model]
    OBVIOUS
  <2>3. line \in SlLineSet /\ line.kind = "session" /\ line.tool = "none" /\ slLines = <<line>>
    BY <2>1, <2>2, SlLineTyped DEF SlLineSet, SlAnyModel
  <2>4. SlLinesOK
    BY <2>3, SlConstants DEF SlLinesOK, SlLineOK, SlHasId
  <2> QED
    BY <2>4 DEF SlInit, SlInv
<1> QED
  BY <1>1, <1>2 DEF SlInit, SlAnyModel

LEMMA SlKeeps == SlInv /\ [SlNext]_slVars => SlInv'
<1> SUFFICES ASSUME SlInv, [SlNext]_slVars PROVE SlInv'
  OBVIOUS
<1>1. SlLinesOK /\ SlLine \in SlLineSet /\ SlLine.parent = 0 /\ SlLine.tool = "none"
  BY SlLineTyped DEF SlInv, SlLine
<1>2. SlParents \subseteq Nat /\ SlIds \subseteq SlParents /\ SlCalls \subseteq SlIds /\ 0 \notin SlIds
  BY <1>1 DEF SlParents, SlIds, SlCalls, SlLinesOK
<1>3. CASE SlHeader
  <2>1. slLines[1] \in SlLineSet /\ slLines[1].kind = "session" /\ slLines[1].tool = "none"
    BY <1>1 DEF SlLinesOK, SlLineOK
  <2>2. slLines[1].model = SlNoModel /\ SlAppend(slLines[1]) /\ ~SlHasId(slLines[1])
    BY <1>3, <2>1 DEF SlHeader, SlHasId
  <2> QED
    BY <1>1, <2>1, <2>2, SlAppendedOK
<1>4. CASE SlMessage
  <2>1. PICK parent \in SlParents, model \in SlModels, tool \in {"none", "question", "other"} :
          \/ SlAppend([SlLine EXCEPT !.kind = "user", !.parent = parent])
          \/ SlAppend([SlLine EXCEPT !.kind = "assistant", !.parent = parent, !.model = model, !.tool = tool])
    BY <1>4 DEF SlMessage
  <2>2. CASE SlAppend([SlLine EXCEPT !.kind = "user", !.parent = parent])
    <3>1. PICK line : line = [SlLine EXCEPT !.kind = "user", !.parent = parent]
      OBVIOUS
    <3>2. line \in SlLineSet /\ line.kind = "user" /\ line.parent = parent /\ line.tool = "none"
      BY <1>1, <1>2, <3>1 DEF SlLineSet, SlKinds, SlMessages
    <3> QED
      BY <1>1, <2>2, <3>1, <3>2, SlAppendedOK
  <2>3. CASE SlAppend([SlLine EXCEPT !.kind = "assistant", !.parent = parent, !.model = model, !.tool = tool])
    <3>1. PICK line : line = [SlLine EXCEPT !.kind = "assistant", !.parent = parent, !.model = model, !.tool = tool]
      OBVIOUS
    <3>2. line \in SlLineSet /\ line.kind = "assistant" /\ line.parent = parent
      BY <1>1, <1>2, <3>1 DEF SlLineSet, SlKinds, SlMessages, SlAnyModel
    <3> QED
      BY <1>1, <2>3, <3>1, <3>2, SlAppendedOK
  <2> QED
    BY <2>1, <2>2, <2>3
<1>5. CASE SlResult
  <2>1. PICK call \in SlCalls, awaiting \in BOOLEAN :
          SlAppend([SlLine EXCEPT !.kind = "toolResult", !.parent = call, !.about = call, !.awaiting = awaiting])
    BY <1>5 DEF SlResult
  <2>2. PICK line : line = [SlLine EXCEPT !.kind = "toolResult", !.parent = call, !.about = call, !.awaiting = awaiting]
    OBVIOUS
  <2>3. /\ line \in SlLineSet /\ line.kind = "toolResult" /\ line.parent = call /\ line.about = call
        /\ line.tool = "none"
    BY <1>1, <1>2, <2>2 DEF SlLineSet, SlKinds, SlMessages
  <2>4. call \in SlParents /\ call # 0
    BY <1>2
  <2> QED
    BY <1>1, <2>1, <2>2, <2>3, <2>4, SlAppendedOK
<1>6. CASE SlModelChange
  <2>1. PICK parent \in SlParents, model \in SlModels :
          SlAppend([SlLine EXCEPT !.kind = "model_change", !.parent = parent, !.model = model])
    BY <1>6 DEF SlModelChange
  <2>2. PICK line : line = [SlLine EXCEPT !.kind = "model_change", !.parent = parent, !.model = model]
    OBVIOUS
  <2>3. line \in SlLineSet /\ line.kind = "model_change" /\ line.parent = parent /\ line.tool = "none"
    BY <1>1, <1>2, <2>2 DEF SlLineSet, SlKinds, SlAnyModel
  <2> QED
    BY <1>1, <2>1, <2>2, <2>3, SlAppendedOK
<1>7. CASE SlRename
  <2>1. PICK line : line = [SlLine EXCEPT !.kind = "session_info"]
    OBVIOUS
  <2>2. line \in SlLineSet /\ line.kind = "session_info" /\ line.tool = "none" /\ ~SlHasId(line)
    BY <1>1, <2>1 DEF SlLineSet, SlKinds, SlHasId
  <2> QED
    BY <1>1, <1>7, <2>1, <2>2, SlAppendedOK DEF SlRename
<1>8. CASE SlLabel
  <2>1. PICK target \in SlIds, parent \in SlIds :
          SlAppend([SlLine EXCEPT !.kind = "label", !.parent = parent, !.about = target])
    BY <1>8 DEF SlLabel
  <2>2. PICK line : line = [SlLine EXCEPT !.kind = "label", !.parent = parent, !.about = target]
    OBVIOUS
  <2>3. line \in SlLineSet /\ line.kind = "label" /\ line.parent = parent /\ line.tool = "none"
    BY <1>1, <1>2, <2>2 DEF SlLineSet, SlKinds
  <2> QED
    BY <1>1, <1>2, <2>1, <2>2, <2>3, SlAppendedOK
<1>9. CASE SlBranch
  <2>1. PICK target \in SlIds : slCopy' = SlPath(slLines, target) /\ UNCHANGED slLines
    BY <1>9 DEF SlBranch
  <2>2. SlIds' = SlIds /\ SlLinesOK'
    BY <1>1, <2>1 DEF SlIds, SlLinesOK
  <2>3. slCopy' = SlPath(slLines', target) /\ target \in SlIds'
    BY <2>1, <2>2
  <2> QED
    BY <2>2, <2>3 DEF SlInv
<1>10. CASE UNCHANGED slVars
  BY <1>10 DEF slVars, SlInv, SlLinesOK, SlIds
<1> QED
  BY <1>3, <1>4, <1>5, <1>6, <1>7, <1>8, <1>9, <1>10 DEF SlNext

-----------------------------------------------------------------------------
(* The folds.                                                               *)

SlFoldSet == [info : Nat, user : Nat, model : SlAnyModel, count : Nat, pending : SUBSET Nat, entries : Nat]

LEMMA SlFoldTyped ==
  ASSUME SlLinesOK, NEW fs \in SlFoldSet, NEW id \in 1..Len(slLines)
  PROVE  SlSummaryWith(fs, id) \in SlFoldSet /\ SlFileWith(fs, id) \in SlFoldSet
<1>1. slLines[id] \in SlLineSet /\ id \in Nat
  BY DEF SlLinesOK
<1>2. slLines[id].model \in SlAnyModel
  BY <1>1 DEF SlLineSet
<1>3. SlFoldCommon(fs, id, slLines[id]) \in SlFoldSet
  <2>1. fs.info \in Nat /\ fs.user \in Nat /\ fs.model \in SlAnyModel /\ fs.count \in Nat
    BY DEF SlFoldSet
  <2>2. PICK info \in Nat : info = IF slLines[id].kind = "session_info" THEN id ELSE fs.info
    BY <1>1, <2>1
  <2>3. PICK user \in Nat : user = IF slLines[id].kind = "user" /\ fs.user = 0 THEN id ELSE fs.user
    BY <1>1, <2>1
  <2>4. PICK model \in SlAnyModel : model = IF slLines[id].model # SlNoModel THEN slLines[id].model ELSE fs.model
    BY <1>2, <2>1
  <2>5. PICK count \in Nat : count = IF slLines[id].kind \in SlMessages THEN fs.count + 1 ELSE fs.count
    BY <2>1
  <2>6. SlFoldCommon(fs, id, slLines[id])
          = [fs EXCEPT !.info = info, !.user = user, !.model = model, !.count = count]
    BY <2>2, <2>3, <2>4, <2>5 DEF SlFoldCommon
  <2> QED
    BY <2>6 DEF SlFoldSet
<1>4. \A pending \in SUBSET Nat : SlFoldTools(pending, id, slLines[id]) \in SUBSET Nat
  BY <1>1 DEF SlFoldTools
<1>5. SlSummaryWith(fs, id) \in SlFoldSet
  <2>1. PICK common \in SlFoldSet : common = SlFoldCommon(fs, id, slLines[id])
    BY <1>3
  <2>2. common.pending \in SUBSET Nat
    BY DEF SlFoldSet
  <2>3. PICK pending \in SUBSET Nat : pending = SlFoldTools(common.pending, id, slLines[id])
    BY <1>4, <2>2
  <2>4. [common EXCEPT !.pending = pending] \in SlFoldSet
    BY DEF SlFoldSet
  <2>5. SlSummaryWith(fs, id) = [common EXCEPT !.pending = pending]
    BY <2>1, <2>3 DEF SlSummaryWith
  <2> QED
    BY <2>4, <2>5
<1>6. SlFileWith(fs, id) \in SlFoldSet
  BY <1>3 DEF SlFileWith, SlFoldSet
<1> QED
  BY <1>5, <1>6

LEMMA SlStartTyped == SlFoldStart \in SlFoldSet
  BY DEF SlFoldStart, SlFoldSet, SlAnyModel

\* The index folds from line to line.
LEMMA SlSummaryFolds ==
  ASSUME SlLinesOK
  PROVE  \E f \in [0..Len(slLines) -> SlFoldSet] :
           /\ f[0] = SlFoldStart /\ \A id \in 1..Len(slLines) : f[id] = SlSummaryWith(f[id - 1], id)
           /\ SlSummary = f[Len(slLines)]
<1> DEFINE n == Len(slLines)
           Is(f) == f = [id \in 0..n |-> IF id = 0 THEN SlFoldStart ELSE SlSummaryWith(f[id - 1], id)]
<1>1. n \in Nat /\ n >= 1
  BY DEF SlLinesOK
<1> DEFINE With == [id \in 1..n |-> [fs \in SlFoldSet |-> SlSummaryWith(fs, id)]]
<1>2. With \in [1..n -> [SlFoldSet -> SlFoldSet]]
  BY SlFoldTyped
<1>3. PICK g \in [0..n -> SlFoldSet] : g[0] = SlFoldStart /\ \A id \in 1..n : g[id] = With[id][g[id - 1]]
  <2> HIDE DEF n, With
  <2>1. n \in Nat
    BY <1>1
  <2>2. \E f \in [0..n -> SlFoldSet] : f[0] = SlFoldStart /\ \A k \in 1..n : f[k] = With[k][f[k - 1]]
    BY <1>2, <2>1, SlStartTyped, FoldExists
  <2> QED
    BY <2>2
<1>4. \A id \in 1..n : id - 1 \in 0..n /\ g[id] = SlSummaryWith(g[id - 1], id)
  <2> TAKE id \in 1..n
  <2>1. id - 1 \in 0..n
    BY <1>1
  <2>2. g[id - 1] \in SlFoldSet /\ g[id] = With[id][g[id - 1]]
    BY <1>3, <2>1
  <2> QED
    BY <2>1, <2>2
<1>5. Is(g)
  <2>1. \A id \in 0..n : g[id] = IF id = 0 THEN SlFoldStart ELSE SlSummaryWith(g[id - 1], id)
    BY <1>3, <1>4
  <2> HIDE DEF n
  <2> QED
    BY <1>3, <2>1
<1>6. PICK f : Is(f) /\ SlSummary = f[n]
  BY <1>5, Zenon DEF SlSummary
<1>7. f[0] = SlFoldStart /\ \A id \in 1..n : f[id] = SlSummaryWith(f[id - 1], id)
  BY <1>1, <1>6
<1>8. \A id \in 0..n : f[id] \in SlFoldSet
  <2> DEFINE S == {id \in 0..n : f[id] \in SlFoldSet}
  <2>1. 0 \in S
    BY <1>1, <1>7, SlStartTyped
  <2>2. ASSUME NEW id \in 1..n, id - 1 \in S PROVE id \in S
    BY <1>7, <2>2, SlFoldTyped
  <2> HIDE DEF S, n
  <2>3. 0..n \subseteq S
    BY <1>1, <2>1, <2>2, InductionUpTo
  <2> QED
    BY <2>3 DEF S
<1>9. f \in [0..n -> SlFoldSet]
  <2> HIDE DEF n
  <2>1. DOMAIN f = 0..n /\ f = [id \in DOMAIN f |-> f[id]]
    BY <1>6
  <2> QED
    BY <1>8, <2>1
<1> QED
  BY <1>6, <1>7, <1>9

\* A session's page folds from line to line.
LEMMA SlFileFolds ==
  ASSUME SlLinesOK
  PROVE  \E f \in [0..Len(slLines) -> SlFoldSet] :
           /\ f[0] = SlFoldStart /\ \A id \in 1..Len(slLines) : f[id] = SlFileWith(f[id - 1], id)
           /\ SlFile = f[Len(slLines)]
<1> DEFINE n == Len(slLines)
           Is(f) == f = [id \in 0..n |-> IF id = 0 THEN SlFoldStart ELSE SlFileWith(f[id - 1], id)]
<1>1. n \in Nat /\ n >= 1
  BY DEF SlLinesOK
<1> DEFINE With == [id \in 1..n |-> [fs \in SlFoldSet |-> SlFileWith(fs, id)]]
<1>2. With \in [1..n -> [SlFoldSet -> SlFoldSet]]
  BY SlFoldTyped
<1>3. PICK g \in [0..n -> SlFoldSet] : g[0] = SlFoldStart /\ \A id \in 1..n : g[id] = With[id][g[id - 1]]
  <2> HIDE DEF n, With
  <2>1. n \in Nat
    BY <1>1
  <2>2. \E f \in [0..n -> SlFoldSet] : f[0] = SlFoldStart /\ \A k \in 1..n : f[k] = With[k][f[k - 1]]
    BY <1>2, <2>1, SlStartTyped, FoldExists
  <2> QED
    BY <2>2
<1>4. \A id \in 1..n : id - 1 \in 0..n /\ g[id] = SlFileWith(g[id - 1], id)
  <2> TAKE id \in 1..n
  <2>1. id - 1 \in 0..n
    BY <1>1
  <2>2. g[id - 1] \in SlFoldSet /\ g[id] = With[id][g[id - 1]]
    BY <1>3, <2>1
  <2> QED
    BY <2>1, <2>2
<1>5. Is(g)
  <2>1. \A id \in 0..n : g[id] = IF id = 0 THEN SlFoldStart ELSE SlFileWith(g[id - 1], id)
    BY <1>3, <1>4
  <2> HIDE DEF n
  <2> QED
    BY <1>3, <2>1
<1>6. PICK f : Is(f) /\ SlFile = f[n]
  BY <1>5, Zenon DEF SlFile
<1>7. f[0] = SlFoldStart /\ \A id \in 1..n : f[id] = SlFileWith(f[id - 1], id)
  BY <1>1, <1>6
<1>8. \A id \in 0..n : f[id] \in SlFoldSet
  <2> DEFINE S == {id \in 0..n : f[id] \in SlFoldSet}
  <2>1. 0 \in S
    BY <1>1, <1>7, SlStartTyped
  <2>2. ASSUME NEW id \in 1..n, id - 1 \in S PROVE id \in S
    BY <1>7, <2>2, SlFoldTyped
  <2> HIDE DEF S, n
  <2>3. 0..n \subseteq S
    BY <1>1, <2>1, <2>2, InductionUpTo
  <2> QED
    BY <2>3 DEF S
<1>9. f \in [0..n -> SlFoldSet]
  <2> HIDE DEF n
  <2>1. DOMAIN f = 0..n /\ f = [id \in DOMAIN f |-> f[id]]
    BY <1>6
  <2> QED
    BY <1>8, <2>1
<1> QED
  BY <1>6, <1>7, <1>9

\* Both folds do the same with a line.
LEMMA SlFoldsStep ==
  ASSUME SlLinesOK, NEW fs \in SlFoldSet, NEW gs \in SlFoldSet, NEW id \in 1..Len(slLines),
         fs.info = gs.info, fs.user = gs.user, fs.model = gs.model, fs.count = gs.count
  PROVE  /\ SlSummaryWith(fs, id).info = SlFileWith(gs, id).info
         /\ SlSummaryWith(fs, id).user = SlFileWith(gs, id).user
         /\ SlSummaryWith(fs, id).model = SlFileWith(gs, id).model
         /\ SlSummaryWith(fs, id).count = SlFileWith(gs, id).count
<1> DEFINE common == SlFoldCommon(fs, id, slLines[id])
           same == SlFoldCommon(gs, id, slLines[id])
<1>1. /\ common.info = same.info /\ common.user = same.user
      /\ common.model = same.model /\ common.count = same.count
  BY DEF SlFoldCommon, SlFoldSet
<1>2. /\ SlSummaryWith(fs, id).info = common.info /\ SlSummaryWith(fs, id).user = common.user
      /\ SlSummaryWith(fs, id).model = common.model /\ SlSummaryWith(fs, id).count = common.count
  BY DEF SlSummaryWith, SlFoldCommon, SlFoldSet
<1>3. CASE slLines[id].kind = "session" /\ Cardinality(SlHeaders(slLines, id)) > 1
  <2>1. SlFileWith(gs, id) = gs
    BY <1>3 DEF SlFileWith
  <2>2. id # 1
    <3>1. SlHeaders(slLines, 1) = {1}
      BY DEF SlHeaders, SlLinesOK
    <3>2. Cardinality(SlHeaders(slLines, 1)) = 1
      BY <3>1, FS_Singleton
    <3> QED
      BY <1>3, <3>2
  <2>3. slLines[id].model = SlNoModel
    BY <1>3, <2>2 DEF SlLinesOK, SlLineOK
  <2>4. common.info = fs.info /\ common.user = fs.user /\ common.model = fs.model /\ common.count = fs.count
    BY <1>3, <2>3 DEF SlFoldCommon, SlFoldSet, SlMessages
  <2> QED
    BY <1>2, <2>1, <2>4
<1>4. CASE ~(slLines[id].kind = "session" /\ Cardinality(SlHeaders(slLines, id)) > 1)
  <2>1. SlFileWith(gs, id) = [same EXCEPT !.entries = @ + 1]
    BY <1>4 DEF SlFileWith
  <2>2. /\ SlFileWith(gs, id).info = same.info /\ SlFileWith(gs, id).user = same.user
        /\ SlFileWith(gs, id).model = same.model /\ SlFileWith(gs, id).count = same.count
    BY <2>1 DEF SlFoldCommon, SlFoldSet
  <2> HIDE DEF common, same
  <2> QED
    BY <1>1, <1>2, <2>2
<1> QED
  BY <1>3, <1>4

LEMMA SlFoldsAlike == SlLinesOK => SlFoldsAgree
<1> SUFFICES ASSUME SlLinesOK PROVE SlFoldsAgree
  OBVIOUS
<1>1. PICK f \in [0..Len(slLines) -> SlFoldSet] :
        /\ f[0] = SlFoldStart /\ \A id \in 1..Len(slLines) : f[id] = SlSummaryWith(f[id - 1], id)
        /\ SlSummary = f[Len(slLines)]
  BY SlSummaryFolds
<1>2. PICK g \in [0..Len(slLines) -> SlFoldSet] :
        /\ g[0] = SlFoldStart /\ \A id \in 1..Len(slLines) : g[id] = SlFileWith(g[id - 1], id)
        /\ SlFile = g[Len(slLines)]
  BY SlFileFolds
<1>3. PICK n \in Nat : n = Len(slLines)
  BY DEF SlLinesOK
<1> DEFINE S == {id \in 0..n : /\ f[id].info = g[id].info /\ f[id].user = g[id].user
                               /\ f[id].model = g[id].model /\ f[id].count = g[id].count}
<1>4. 0 \in S
  BY <1>1, <1>2
<1>5. ASSUME NEW id \in 1..n, id - 1 \in S PROVE id \in S
  <2>1. f[id - 1] \in SlFoldSet /\ g[id - 1] \in SlFoldSet
    BY <1>1, <1>2, <1>3
  <2>2. f[id] = SlSummaryWith(f[id - 1], id) /\ g[id] = SlFileWith(g[id - 1], id)
    BY <1>1, <1>2, <1>3
  <2>3. /\ f[id - 1].info = g[id - 1].info /\ f[id - 1].user = g[id - 1].user
        /\ f[id - 1].model = g[id - 1].model /\ f[id - 1].count = g[id - 1].count
    BY <1>5
  <2>4. f[id].info = g[id].info /\ f[id].user = g[id].user /\ f[id].model = g[id].model /\ f[id].count = g[id].count
    BY <1>3, <2>1, <2>2, <2>3, SlFoldsStep
  <2> QED
    BY <2>4
<1>6. n \in S
  <2> HIDE DEF S
  <2>1. 0..n \subseteq S
    BY <1>4, <1>5, InductionUpTo
  <2> QED
    BY <2>1
<1> QED
  BY <1>1, <1>2, <1>3, <1>6 DEF SlFoldsAgree, SlNamed

\* The calls that are pending after some lines: no result has ended them, and no
\* message of the user a question.
SlPendingAt(n) ==
  {call \in 1..n :
     /\ slLines[call].tool # "none"
     /\ ~\E id \in 1..n : slLines[id].kind = "toolResult" /\ slLines[id].about = call /\ ~slLines[id].awaiting
     /\ ~(slLines[call].tool = "question" /\ \E id \in (call + 1)..n : slLines[id].kind = "user")}

LEMMA SlPendingStep ==
  ASSUME SlLinesOK, NEW n \in 1..Len(slLines)
  PROVE  SlFoldTools(SlPendingAt(n - 1), n, slLines[n]) = SlPendingAt(n)
<1> DEFINE line == slLines[n]
<1>1. n \in Nat /\ n - 1 \in Nat /\ 1..(n - 1) \subseteq 1..n /\ n \in 1..n /\ n \notin 1..(n - 1)
      /\ \A call \in 1..n : call = n \/ call \in 1..(n - 1)
  OBVIOUS
<1>2. SlLineOK(slLines, n) /\ \A id \in 1..n : SlLineOK(slLines, id)
  BY <1>1 DEF SlLinesOK
<1>3. ASSUME NEW call \in 1..(n - 1)
      PROVE  call \in SlPendingAt(n) <=>
               /\ call \in SlPendingAt(n - 1)
               /\ ~(line.kind = "toolResult" /\ line.about = call /\ ~line.awaiting)
               /\ ~(slLines[call].tool = "question" /\ line.kind = "user")
  <2>1. \A id \in 1..n : id \in 1..(n - 1) \/ id = n
    BY <1>1
  <2>2. \A id \in (call + 1)..n : id \in (call + 1)..(n - 1) \/ id = n
    BY <1>1
  <2>3. n \in 1..n /\ n \in (call + 1)..n /\ (call + 1)..(n - 1) \subseteq (call + 1)..n
    BY <1>1
  <2> QED
    BY <1>1, <2>1, <2>2, <2>3 DEF SlPendingAt
<1>4. line.tool = "none" => n \notin SlPendingAt(n)
  BY DEF SlPendingAt
<1>5. SlPendingAt(n) \subseteq 1..n /\ SlPendingAt(n - 1) \subseteq 1..(n - 1)
  BY DEF SlPendingAt
<1>6. CASE line.kind = "toolResult"
  <2>1. line.tool = "none"
    BY <1>2, <1>6 DEF SlLineOK
  <2>2. SlFoldTools(SlPendingAt(n - 1), n, line)
          = IF line.awaiting THEN SlPendingAt(n - 1) ELSE SlPendingAt(n - 1) \ {line.about}
    BY <1>6 DEF SlFoldTools
  <2>3. \A call \in 1..n : call \in SlPendingAt(n) <=>
          call \in SlPendingAt(n - 1) /\ ~(line.about = call /\ ~line.awaiting)
    BY <1>1, <1>3, <1>4, <1>5, <1>6, <2>1
  <2> QED
    BY <1>1, <1>5, <2>2, <2>3
<1>7. CASE line.kind = "user"
  <2>1. line.tool = "none"
    BY <1>2, <1>7 DEF SlLineOK
  <2>2. SlFoldTools(SlPendingAt(n - 1), n, line) = {call \in SlPendingAt(n - 1) : slLines[call].tool # "question"}
    BY <1>7 DEF SlFoldTools
  <2>3. \A call \in 1..n : call \in SlPendingAt(n) <=>
          call \in SlPendingAt(n - 1) /\ slLines[call].tool # "question"
    BY <1>1, <1>3, <1>4, <1>5, <1>7, <2>1
  <2> QED
    BY <1>1, <1>5, <2>2, <2>3
<1>8. CASE line.kind = "assistant" /\ line.tool # "none"
  <2>1. SlFoldTools(SlPendingAt(n - 1), n, line) = SlPendingAt(n - 1) \cup {n}
    BY <1>8 DEF SlFoldTools
  <2>2. n \in SlPendingAt(n)
    <3>1. ASSUME NEW id \in 1..n, slLines[id].kind = "toolResult" PROVE slLines[id].about # n
      <4>1. SlHasId(slLines[id]) /\ slLines[id].about = slLines[id].parent /\ slLines[id].about # 0
        BY <1>2, <3>1 DEF SlLineOK, SlHasId
      <4>2. slLines[id].about \in 1..(id - 1)
        BY <1>2, <4>1 DEF SlLineOK
      <4> QED
        BY <1>1, <4>2
    <3>2. (n + 1)..n = {}
      BY <1>1
    <3> QED
      BY <1>1, <1>8, <3>1, <3>2 DEF SlPendingAt
  <2>3. \A call \in 1..(n - 1) : call \in SlPendingAt(n) <=> call \in SlPendingAt(n - 1)
    BY <1>3, <1>8
  <2> QED
    BY <1>1, <1>5, <2>1, <2>2, <2>3
<1>9. CASE line.kind \notin {"toolResult", "user"} /\ ~(line.kind = "assistant" /\ line.tool # "none")
  <2>1. SlFoldTools(SlPendingAt(n - 1), n, line) = SlPendingAt(n - 1)
    BY <1>9 DEF SlFoldTools
  <2>2. line.tool = "none"
    BY <1>2, <1>9 DEF SlLineOK
  <2>3. \A call \in 1..n : call \in SlPendingAt(n) <=> call \in SlPendingAt(n - 1)
    BY <1>1, <1>3, <1>4, <1>5, <1>9, <2>2
  <2> QED
    BY <1>1, <1>5, <2>1, <2>3
<1> QED
  BY <1>6, <1>7, <1>8, <1>9

LEMMA SlPendingIs == SlLinesOK => SlSummary.pending = {call \in SlCalls : ~SlAnswered(call)}
<1> SUFFICES ASSUME SlLinesOK PROVE SlSummary.pending = {call \in SlCalls : ~SlAnswered(call)}
  OBVIOUS
<1>1. PICK f \in [0..Len(slLines) -> SlFoldSet] :
        /\ f[0] = SlFoldStart /\ \A id \in 1..Len(slLines) : f[id] = SlSummaryWith(f[id - 1], id)
        /\ SlSummary = f[Len(slLines)]
  BY SlSummaryFolds
<1>2. PICK n \in Nat : n = Len(slLines)
  BY DEF SlLinesOK
<1> DEFINE S == {id \in 0..n : f[id].pending = SlPendingAt(id)}
<1>3. 0 \in S
  <2>1. SlPendingAt(0) = {}
    BY DEF SlPendingAt
  <2>2. SlFoldStart.pending = {}
    BY DEF SlFoldStart
  <2>3. f[0].pending = SlPendingAt(0) /\ 0 \in 0..n
    BY <1>1, <2>1, <2>2
  <2> QED
    BY <2>3
<1>4. ASSUME NEW id \in 1..n, id - 1 \in S PROVE id \in S
  <2>1. f[id] = SlSummaryWith(f[id - 1], id) /\ f[id - 1] \in SlFoldSet /\ f[id - 1].pending = SlPendingAt(id - 1)
    BY <1>1, <1>2, <1>4
  <2>2. SlFoldCommon(f[id - 1], id, slLines[id]).pending = f[id - 1].pending
    BY <2>1 DEF SlFoldCommon, SlFoldSet
  <2>3. SlFoldCommon(f[id - 1], id, slLines[id]) = [SlFoldCommon(f[id - 1], id, slLines[id]) EXCEPT !.info = @]
        /\ "pending" \in DOMAIN SlFoldCommon(f[id - 1], id, slLines[id])
    BY <2>1 DEF SlFoldCommon, SlFoldSet
  <2>4. f[id].pending = SlFoldTools(SlPendingAt(id - 1), id, slLines[id])
    BY <2>1, <2>2, <2>3 DEF SlSummaryWith
  <2>5. SlFoldTools(SlPendingAt(id - 1), id, slLines[id]) = SlPendingAt(id)
    BY <1>2, SlPendingStep
  <2> QED
    BY <2>4, <2>5
<1>5. n \in S
  <2> HIDE DEF S
  <2>1. 0..n \subseteq S
    BY <1>3, <1>4, InductionUpTo
  <2> QED
    BY <2>1
<1>6. SlSummary.pending = SlPendingAt(n)
  BY <1>1, <1>2, <1>5
<1>7. \A call : call \in SlPendingAt(n) <=> call \in SlCalls /\ ~SlAnswered(call)
  <2> TAKE call
  <2>1. SlIds = {id \in 1..n : SlHasId(slLines[id])}
    BY <1>2 DEF SlIds, SlLinesOK
  <2>2. call \in SlCalls <=> call \in 1..n /\ slLines[call].tool # "none"
    BY <1>2, <2>1 DEF SlCalls, SlLinesOK, SlLineOK, SlHasId
  <2>3. \A id \in 1..n : slLines[id].kind \in {"toolResult", "user"} => id \in SlIds
    BY <2>1 DEF SlHasId
  <2>4. ASSUME call \in SlCalls PROVE \A id \in 1..n : id \in (call + 1)..n <=> id > call
    BY <2>2, <2>4
  <2>5. ASSUME call \in SlCalls PROVE (call + 1)..n \subseteq 1..n
    BY <2>2, <2>5
  <2> QED
    BY <2>1, <2>2, <2>3, <2>4, <2>5 DEF SlPendingAt, SlAnswered
<1> QED
  BY <1>6, <1>7 DEF SlPendingAt, SlCalls

LEMMA SlQuestionHolds == SlLinesOK => SlQuestionExact
<1> SUFFICES ASSUME SlLinesOK PROVE SlQuestionExact
  OBVIOUS
<1>1. SlSummary.pending = {call \in SlCalls : ~SlAnswered(call)}
  BY SlPendingIs
<1>2. SlCalls \subseteq Nat
  BY DEF SlCalls, SlIds, SlLinesOK
<1>3. SlWaiting = {call \in SlSummary.pending :
                     slLines[call].tool = "question" /\ \A other \in SlSummary.pending : other <= call}
  BY DEF SlWaiting
<1>4. ASSUME NEW call \in SlCalls
      PROVE  (\A other \in SlSummary.pending : other <= call)
               <=> (\A later \in SlCalls : later > call => SlAnswered(later))
  <2>1. (\A other \in SlSummary.pending : other <= call)
           <=> \A other \in SlCalls : ~SlAnswered(other) => other <= call
    BY <1>1, Zenon
  <2>2. ASSUME NEW other \in SlCalls PROVE (other > call) <=> ~(other <= call)
    <3>1. call \in Nat /\ other \in Nat
      BY <1>2
    <3> QED
      BY <3>1
  <2> QED
    BY <2>1, <2>2, Zenon
<1> QED
  BY <1>1, <1>3, <1>4 DEF SlQuestionExact

-----------------------------------------------------------------------------
(* The branches.                                                            *)

SlPathsIs(path, n) ==
  /\ path \in [0..n -> Seq(Nat)]
  /\ \A id \in 0..n : path[id] = IF id = 0 \/ ~SlHasId(slLines[id]) THEN <<>>
                                 ELSE Append(path[slLines[id].parent], id)

\* A path can be followed to the root, since a parent comes before its children.
LEMMA SlPathsExist == SlLinesOK => \E path : SlPathsIs(path, Len(slLines))
<1> SUFFICES ASSUME SlLinesOK PROVE \E path : SlPathsIs(path, Len(slLines))
  OBVIOUS
<1>1. PICK n \in Nat : n = Len(slLines)
  BY DEF SlLinesOK
<1> DEFINE S == {m \in 0..n : \E path : SlPathsIs(path, m)}
<1>2. 0 \in S
  <2>1. <<>> \in Seq(Nat)
    OBVIOUS
  <2>2. SlPathsIs([id \in 0..0 |-> <<>>], 0)
    BY <2>1 DEF SlPathsIs
  <2> QED
    BY <2>2
<1>3. ASSUME NEW m \in 1..n, m - 1 \in S PROVE m \in S
  <2>1. PICK path : SlPathsIs(path, m - 1)
    BY <1>3
  <2>2. /\ path \in [0..(m - 1) -> Seq(Nat)]
        /\ \A id \in 0..(m - 1) : path[id] = IF id = 0 \/ ~SlHasId(slLines[id]) THEN <<>>
                                             ELSE Append(path[slLines[id].parent], id)
    BY <2>1 DEF SlPathsIs
  <2>3. ASSUME NEW id \in 1..m, SlHasId(slLines[id]) PROVE slLines[id].parent \in 0..(m - 1) /\ slLines[id].parent # m
    <3>1. SlLineOK(slLines, id)
      BY <1>1 DEF SlLinesOK
    <3> QED
      BY <2>3, <3>1 DEF SlLineOK
  <2>4. PICK last : last = IF ~SlHasId(slLines[m]) THEN <<>> ELSE Append(path[slLines[m].parent], m)
    OBVIOUS
  <2>5. last \in Seq(Nat)
    <3>1. CASE SlHasId(slLines[m])
      <4>1. path[slLines[m].parent] \in Seq(Nat) /\ m \in Nat
        BY <2>2, <2>3, <3>1
      <4>2. PICK p \in Seq(Nat) : p = path[slLines[m].parent]
        BY <4>1
      <4>3. Append(p, m) \in Seq(Nat)
        BY <4>1, AppendProperties
      <4> QED
        BY <2>4, <3>1, <4>2, <4>3
    <3>2. CASE ~SlHasId(slLines[m])
      BY <2>4, <3>2
    <3> QED
      BY <3>1, <3>2
  <2> DEFINE longer == [id \in 0..m |-> IF id = m THEN last ELSE path[id]]
  <2>6. \A id \in 0..m : id # m => id \in 0..(m - 1)
    OBVIOUS
  <2>7. longer \in [0..m -> Seq(Nat)]
    BY <2>2, <2>6, <2>5
  <2>8. ASSUME NEW id \in 0..m
        PROVE  longer[id] = IF id = 0 \/ ~SlHasId(slLines[id]) THEN <<>> ELSE Append(longer[slLines[id].parent], id)
    <3>1. CASE id = 0
      BY <2>2, <3>1
    <3>2. CASE id # 0 /\ SlHasId(slLines[id])
      <4>1. slLines[id].parent \in 0..(m - 1) /\ slLines[id].parent # m
        BY <2>3, <3>2
      <4>2. longer[slLines[id].parent] = path[slLines[id].parent]
        BY <4>1
      <4>3. longer[id] = Append(path[slLines[id].parent], id)
        BY <2>2, <2>4, <2>6, <3>2
      <4> QED
        BY <3>2, <4>2, <4>3
    <3>3. CASE id # 0 /\ ~SlHasId(slLines[id])
      BY <2>2, <2>4, <2>6, <3>3
    <3> QED
      BY <3>1, <3>2, <3>3
  <2>9. SlPathsIs(longer, m)
    BY <2>7, <2>8 DEF SlPathsIs
  <2> QED
    BY <2>9
<1>4. n \in S
  <2> HIDE DEF S
  <2>1. 0..n \subseteq S
    BY <1>2, <1>3, InductionUpTo
  <2> QED
    BY <2>1
<1> QED
  BY <1>1, <1>4

\* A branch is whole: it begins at a root, each entry is the parent of the next.
SlWholeTo(p, id) ==
  /\ id # 0 => Len(p) >= 1 /\ p[Len(p)] = id
  /\ id = 0 => p = <<>>
  /\ \A k \in 1..Len(p) : p[k] \in SlIds /\ slLines[p[k]].parent = IF k = 1 THEN 0 ELSE p[k - 1]

LEMMA SlPathWhole ==
  ASSUME SlLinesOK, NEW target \in SlIds
  PROVE  SlPath(slLines, target) \in Seq(Nat) /\ SlWholeTo(SlPath(slLines, target), target)
<1>1. PICK n \in Nat : n = Len(slLines)
  BY DEF SlLinesOK
<1> DEFINE Is(path) == path = [id \in 0..Len(slLines) |->
                                 IF id = 0 \/ ~SlHasId(slLines[id]) THEN <<>>
                                 ELSE Append(path[slLines[id].parent], id)]
<1>2. \E path : Is(path)
  <2>1. PICK path : SlPathsIs(path, Len(slLines))
    BY SlPathsExist
  <2>2. Is(path)
    BY <2>1 DEF SlPathsIs
  <2> QED
    BY <2>2
<1>3. PICK path : Is(path) /\ SlPath(slLines, target) = path[target]
  BY <1>2, Zenon DEF SlPath
<1>4. \A id \in 0..n : path[id] = IF id = 0 \/ ~SlHasId(slLines[id]) THEN <<>> ELSE Append(path[slLines[id].parent], id)
  BY <1>1, <1>3
<1> HIDE DEF Is
<1> DEFINE Good(id) == id = 0 \/ id \in SlIds => path[id] \in Seq(Nat) /\ SlWholeTo(path[id], id)
           S == {m \in 0..n : \A id \in 0..m : Good(id)}
<1>5. 0 \in S
  <2>1. path[0] = <<>> /\ <<>> \in Seq(Nat)
    BY <1>4
  <2>2. Good(0)
    BY <2>1 DEF SlWholeTo
  <2> QED
    BY <2>2
<1>6. ASSUME NEW m \in 1..n, m - 1 \in S PROVE m \in S
  <2>1. \A id \in 0..(m - 1) : Good(id)
    BY <1>6
  <2>2. ASSUME m \in SlIds PROVE path[m] \in Seq(Nat) /\ SlWholeTo(path[m], m)
    <3>1. SlHasId(slLines[m]) /\ SlLineOK(slLines, m) /\ m # 0
      BY <1>1, <2>2 DEF SlIds, SlLinesOK
    <3>2. PICK parent : parent = slLines[m].parent
      OBVIOUS
    <3>3. parent \in 0..(m - 1) /\ (parent = 0 \/ parent \in SlIds)
      BY <1>1, <3>1, <3>2 DEF SlLineOK, SlIds, SlLinesOK
    <3>4. PICK p : p = path[parent]
      OBVIOUS
    <3>5. p \in Seq(Nat) /\ SlWholeTo(p, parent)
      BY <2>1, <3>3, <3>4
    <3>6. path[m] = Append(p, m)
      <4>1. m \in 0..n
        OBVIOUS
      <4>2. path[m] = Append(path[slLines[m].parent], m)
        BY <1>4, <3>1, <4>1
      <4> QED
        BY <3>2, <3>4, <4>2
    <3>7. PICK q : q = path[m]
      OBVIOUS
    <3>8. /\ q \in Seq(Nat) /\ Len(q) = Len(p) + 1 /\ q[Len(p) + 1] = m
          /\ \A k \in 1..Len(p) : q[k] = p[k]
      BY <3>5, <3>6, <3>7
    <3>9. PICK l \in Nat : l = Len(p)
      BY <3>5
    <3>10. ASSUME NEW k \in 1..(l + 1)
           PROVE  q[k] \in SlIds /\ slLines[q[k]].parent = IF k = 1 THEN 0 ELSE q[k - 1]
      <4>1. CASE k = l + 1
        <5>1. q[k] = m
          BY <3>8, <3>9, <4>1
        <5>2. CASE parent = 0
          <6>1. l = 0 /\ k = 1
            BY <3>5, <3>9, <4>1, <5>2 DEF SlWholeTo
          <6> QED
            BY <2>2, <3>2, <5>1, <5>2, <6>1
        <5>3. CASE parent # 0
          <6>1. l >= 1 /\ p[l] = parent
            BY <3>5, <3>9, <5>3 DEF SlWholeTo
          <6>2. k # 1 /\ k - 1 = l /\ q[l] = p[l]
            BY <3>8, <3>9, <4>1, <6>1
          <6> QED
            BY <2>2, <3>2, <5>1, <6>1, <6>2
        <5> QED
          BY <5>2, <5>3
      <4>2. CASE k # l + 1
        <5>1. k \in 1..l /\ q[k] = p[k] /\ (k # 1 => q[k - 1] = p[k - 1])
          BY <3>8, <3>9, <4>2
        <5>2. p[k] \in SlIds /\ slLines[p[k]].parent = IF k = 1 THEN 0 ELSE p[k - 1]
          BY <3>5, <3>9, <5>1 DEF SlWholeTo
        <5> QED
          BY <5>1, <5>2
      <4> QED
        BY <4>1, <4>2
    <3>11. Len(q) = l + 1 /\ l + 1 >= 1 /\ q[Len(q)] = m
      BY <3>8, <3>9
    <3> QED
      BY <3>1, <3>7, <3>8, <3>10, <3>11 DEF SlWholeTo
  <2>3. Good(m)
    BY <2>2
  <2>4. \A id \in 0..m : id = m \/ id \in 0..(m - 1)
    OBVIOUS
  <2> HIDE DEF Good
  <2> QED
    BY <2>1, <2>3, <2>4
<1>7. n \in S
  <2> HIDE DEF S
  <2>1. 0..n \subseteq S
    BY <1>5, <1>6, InductionUpTo
  <2> QED
    BY <2>1
<1>8. target \in 0..n
  BY <1>1 DEF SlIds, SlLinesOK
<1>9. Good(target)
  BY <1>7, <1>8
<1> QED
  BY <1>3, <1>9

LEMMA SlHolds == SlInv => SlTypeOK /\ SlFoldsAgree /\ SlQuestionExact /\ SlBranchWhole
<1> SUFFICES ASSUME SlInv PROVE SlTypeOK /\ SlFoldsAgree /\ SlQuestionExact /\ SlBranchWhole
  OBVIOUS
<1>1. SlLinesOK
  BY DEF SlInv
<1>2. SlTypeOK
  <2>1. Len(slLines) \in 1..SlLines
    BY SlConstants, <1>1 DEF SlLinesOK
  <2>2. ASSUME NEW id \in SlIds PROVE slLines[id].parent \in SlParents /\ slLines[id].parent < id
    <3>1. id \in 1..Len(slLines) /\ Len(slLines) \in Nat /\ SlHasId(slLines[id]) /\ SlLineOK(slLines, id)
      BY <1>1 DEF SlIds, SlLinesOK
    <3> QED
      BY <3>1 DEF SlLineOK, SlParents, SlIds
  <2> QED
    BY <2>1, <2>2 DEF SlTypeOK
<1>3. SlFoldsAgree /\ SlQuestionExact
  BY <1>1, SlFoldsAlike, SlQuestionHolds
<1>4. SlBranchWhole
  <2>1. CASE slCopy = <<>>
    BY <2>1 DEF SlBranchWhole
  <2>2. CASE \E target \in SlIds : slCopy = SlPath(slLines, target)
    <3>1. PICK target \in SlIds : slCopy = SlPath(slLines, target)
      BY <2>2
    <3>2. slCopy \in Seq(Nat) /\ SlWholeTo(slCopy, target)
      BY <1>1, <3>1, SlPathWhole
    <3>3. ASSUME NEW k \in DOMAIN slCopy
          PROVE  /\ slLines[slCopy[k]].parent = IF k = 1 THEN 0 ELSE slCopy[k - 1]
                 /\ slLines[slCopy[k]].kind = "toolResult" => \E j \in 1..k : slCopy[j] = slLines[slCopy[k]].about
      <4>1. k \in 1..Len(slCopy) /\ k \in Nat
        BY <3>2
      <4>2. slCopy[k] \in SlIds /\ slLines[slCopy[k]].parent = IF k = 1 THEN 0 ELSE slCopy[k - 1]
        BY <3>2, <4>1 DEF SlWholeTo
      <4>3. ASSUME slLines[slCopy[k]].kind = "toolResult" PROVE \E j \in 1..k : slCopy[j] = slLines[slCopy[k]].about
        <5>1. slLines[slCopy[k]].about = slLines[slCopy[k]].parent /\ slLines[slCopy[k]].about # 0
          BY <1>1, <4>2, <4>3 DEF SlLinesOK, SlLineOK, SlIds
        <5>2. k # 1 /\ slCopy[k - 1] = slLines[slCopy[k]].about
          BY <4>2, <5>1
        <5>3. k - 1 \in 1..k
          BY <4>1, <5>2
        <5> QED
          BY <5>2, <5>3
      <4> QED
        BY <4>2, <4>3
    <3> QED
      BY <3>3 DEF SlBranchWhole
  <2> QED
    BY <2>1, <2>2 DEF SlInv
<1> QED
  BY <1>2, <1>3, <1>4

=============================================================================
