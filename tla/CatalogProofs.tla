---------------------------- MODULE CatalogProofs ----------------------------

(***************************************************************************)
(* Proofs about the sessions the runtimes keep: the store of projections,  *)
(* the OpenCode child, and the catalogs of OpenCode, Claude and Codex.     *)
(* Each has an invariant of its own; a catalog's says that whatever        *)
(* changed in the runtime is still to come, or some goroutine has it in    *)
(* hand.  ServerRecordsProofs puts the parts together.                     *)
(***************************************************************************)
EXTENDS ProjectionStore, OpenCodeSupervisor, OpenCodeCatalog, ClaudeCatalog, CodexCatalog,
        FiniteSetTheorems, TLAPS
-----------------------------------------------------------------------------
(* Projections: one lock per identity, what a Replace knows, what a file keeps. *)

PsLabels == {"new", "register", "acquire", "replace", "append", "remove", "write", "remember", "dedupe",
             "unlock ok", "unlock failed", "release ok", "release failed", "ok", "failed"}
\* Where a call has the identity's mutex, and where it counts in refs.
PsHeldAt == {"replace", "append", "remove", "write", "remember", "dedupe", "unlock ok", "unlock failed"}
PsUsedAt == PsHeldAt \cup {"acquire", "release ok", "release failed"}
\* Where a call is after a step: one more label or a failure.
PsScanned == {"write", "unlock failed"}
PsWritten == {"dedupe", "unlock failed"}
PsDone == {"unlock ok", "unlock failed"}
PsFiles == [stamp : Nat, content : PsContents \cup {PsAbsent}, local : SUBSET PsOps]
PsReads == [paths : SUBSET PsPaths, local : SUBSET PsOps]
PsUsers(l) == {o \in PsOps : psPc[o] \in PsUsedAt /\ psMine[o] = l}
PsCallers == {o \in PsOps : psMine[o] # 0}
PsLocals == PsLocalsOf(PsFilesAt)

PsShape ==
  /\ psFile \in [PsPaths -> PsFiles] /\ psStamp \in Nat /\ psPrint \in [PsPaths -> PsFiles]
  /\ psEntries \in Nat /\ psEntry \in 0..psEntries
  /\ psRefs \in [PsLockIds -> Nat] /\ psHolder \in [PsLockIds -> PsOps \cup {PsNobody}]
  /\ psMine \in [PsOps -> Nat] /\ psPc \in [PsOps -> PsLabels]
  /\ psDo \in [PsOps -> PsJobs \cup {PsNoJob}] /\ psSeen \in [PsOps -> PsReads] /\ psRemoved \in BOOLEAN

\* All that use the lock have the same entry, and its counter counts them.
PsLockInv ==
  /\ \A o \in PsOps :
       /\ psPc[o] \in PsUsedAt => psMine[o] = psEntry /\ psEntry \in PsLockIds
       /\ psPc[o] \in PsHeldAt => psHolder[psMine[o]] = o
       /\ psPc[o] \in {"new", "register"} => psMine[o] = 0
  /\ \A l \in PsLockIds : psRefs[l] = Cardinality(PsUsers(l))
  /\ psEntries <= Cardinality(PsCallers)

PsJobInv ==
  \A o \in PsOps :
    /\ psPc[o] # "new" => psDo[o] \in PsJobs
    /\ psPc[o] \in {"replace", "write", "remember", "dedupe"} => psDo[o].kind = "replace"
    /\ psPc[o] = "append" => psDo[o].kind = "append"
    /\ psPc[o] = "remove" => psDo[o].kind = "remove"

\* What is remembered of a version of a file is that version.
PsFilesInv ==
  /\ \A path \in PsFilesAt : psFile[path].stamp \in 1..psStamp /\ psFile[path].content \in PsContents
  /\ \A path \in PsPaths :
       /\ psPrint[path].stamp <= psStamp
       /\ path \in PsFilesAt /\ psPrint[path].stamp = psFile[path].stamp => psPrint[path] = psFile[path]

\* While a Replace works, it knows all the files and all their local entries.
PsKnows(o) ==
  /\ psPc[o] \in {"write", "remember", "dedupe"} =>
       PsLocals \subseteq psSeen[o].local /\ PsFilesAt \subseteq psSeen[o].paths \cup {psDo[o].path}
  /\ psPc[o] \in {"remember", "dedupe"} =>
       /\ psDo[o].path \in PsFilesAt /\ psFile[psDo[o].path].content = psDo[o].content
       /\ psFile[psDo[o].path].local = psSeen[o].local
PsReplaceInv == \A o \in PsOps : PsKnows(o)

\* A change is kept from the moment the file has it.
PsKeptInv ==
  \A o \in PsOps :
    psPc[o] \in {"unlock ok", "release ok", "ok"} /\ psDo[o].kind = "append" /\ ~psRemoved => o \in PsLocals

PsInv == PsShape /\ PsLockInv /\ PsJobInv /\ PsFilesInv /\ PsReplaceInv /\ PsKeptInv
-----------------------------------------------------------------------------
LEMMA PsCounted == IsFiniteSet(PsOps) /\ Cardinality(PsOps) \in Nat /\ PsNobody \notin PsOps
  BY PsOpsAssumption, FS_CardinalityType

LEMMA PsSubset ==
  ASSUME NEW S \in SUBSET PsOps
  PROVE  IsFiniteSet(S) /\ Cardinality(S) \in 0..Cardinality(PsOps)
<1>1. IsFiniteSet(S) /\ Cardinality(S) <= Cardinality(PsOps)
  BY PsCounted, FS_Subset
<1>2. Cardinality(S) \in Nat
  BY <1>1, FS_CardinalityType
<1> QED
  BY <1>1, <1>2, PsCounted

LEMMA PsNoFiles == PsNoFile \in PsFiles /\ PsNoFile.stamp = 0 /\ PsNoFile.local = {}
  BY DEF PsNoFile, PsFiles

LEMMA PsStarts == PsInit => PsInv
<1> SUFFICES ASSUME PsInit PROVE PsInv
  OBVIOUS
<1>1. PsFilesAt = {} /\ PsLocals = {}
  BY DEF PsInit, PsFilesAt, PsLocals, PsLocalsOf
<1>2. PsShape
  <2>1. psFile \in [PsPaths -> PsFiles] /\ psPrint \in [PsPaths -> PsFiles]
    BY PsNoFiles DEF PsInit
  <2>2. psSeen \in [PsOps -> PsReads] /\ psPc \in [PsOps -> PsLabels]
    BY DEF PsInit, PsReads, PsLabels
  <2>3. /\ psRefs \in [PsLockIds -> Nat] /\ psHolder \in [PsLockIds -> PsOps \cup {PsNobody}]
        /\ psMine \in [PsOps -> Nat]
        /\ psDo \in [PsOps -> PsJobs \cup {PsNoJob}]
    BY DEF PsInit
  <2>4. psStamp \in Nat /\ psEntries \in Nat /\ psEntry \in 0..psEntries /\ psRemoved \in BOOLEAN
    <3>1. psStamp = 0 /\ psEntries = 0 /\ psEntry = 0
      BY DEF PsInit
    <3>2. psRemoved \in BOOLEAN
      BY DEF PsInit
    <3> QED
      BY <3>1, <3>2
  <2> QED
    BY <2>1, <2>2, <2>3, <2>4 DEF PsShape
<1>3. PsLockInv
  <2>1. \A l : PsUsers(l) = {}
    BY DEF PsInit, PsUsers, PsUsedAt, PsHeldAt
  <2>2. PsCallers = {}
    BY DEF PsInit, PsCallers
  <2>3. Cardinality({}) = 0
    BY FS_EmptySet
  <2>4. \A o \in PsOps : psPc[o] \notin PsUsedAt /\ psPc[o] \notin PsHeldAt /\ psMine[o] = 0
    BY DEF PsInit, PsUsedAt, PsHeldAt
  <2>5. \A l \in PsLockIds : psRefs[l] = 0
    BY DEF PsInit
  <2>6. psEntries = 0
    BY DEF PsInit
  <2>7. psEntries =< Cardinality(PsCallers)
    BY <2>2, <2>3, <2>6
  <2>8. \A l \in PsLockIds : psRefs[l] = Cardinality(PsUsers(l))
    BY <2>1, <2>3, <2>5
  <2> QED
    BY <2>4, <2>7, <2>8 DEF PsLockInv
<1>4. PsJobInv /\ PsReplaceInv /\ PsKeptInv
  BY DEF PsInit, PsJobInv, PsReplaceInv, PsKnows, PsKeptInv
<1>5. PsFilesInv
  <2>1. psStamp = 0 /\ \A path \in PsPaths : psPrint[path].stamp = 0
    BY PsNoFiles DEF PsInit
  <2> QED
    BY <1>1, <2>1 DEF PsFilesInv
<1> QED
  BY <1>2, <1>3, <1>4, <1>5 DEF PsInv

-----------------------------------------------------------------------------
(* The lock.                                                                  *)

LEMMA PsAlone ==
  ASSUME PsInv, NEW o \in PsOps, NEW r \in PsOps, psPc[o] \in PsHeldAt, psPc[r] \in PsHeldAt
  PROVE  o = r
  BY DEF PsInv, PsLockInv, PsUsedAt

\* A step of the call that has the mutex.
LEMMA PsInsideKeeps ==
  ASSUME PsInv, NEW o \in PsOps, NEW label \in PsHeldAt, psPc[o] \in PsHeldAt,
         psPc' = [psPc EXCEPT ![o] = label], UNCHANGED <<psLockVars, psDo>>,
         psFile' \in [PsPaths -> PsFiles], psStamp' \in Nat, psPrint' \in [PsPaths -> PsFiles],
         psSeen' \in [PsOps -> PsReads], psRemoved' \in BOOLEAN, psRemoved => psRemoved',
         PsFilesInv', PsKnows(o)', \A r \in PsOps : ~psRemoved' /\ r \in PsLocals => r \in PsLocals',
         label \in {"replace", "write", "remember", "dedupe"} => psDo[o].kind = "replace",
         label = "append" => psDo[o].kind = "append", label = "remove" => psDo[o].kind = "remove",
         label = "unlock ok" /\ psDo[o].kind = "append" /\ ~psRemoved' => o \in PsLocals'
  PROVE  PsInv'
<1>1. /\ UNCHANGED <<psEntry, psEntries, psRefs, psHolder, psMine, psDo>>
      /\ psPc' \in [PsOps -> PsLabels] /\ psPc'[o] = label
      /\ \A r \in PsOps \ {o} : psPc'[r] = psPc[r]
  BY DEF psLockVars, PsInv, PsShape, PsLabels, PsHeldAt
<1>2. PsShape'
  BY <1>1 DEF PsInv, PsShape
<1>3. \A r \in PsOps : (psPc'[r] \in PsUsedAt <=> psPc[r] \in PsUsedAt) /\ (psPc'[r] \in PsHeldAt <=> psPc[r] \in PsHeldAt)
  BY <1>1 DEF PsUsedAt
<1>4. PsLockInv'
  <2>1. \A l : PsUsers(l)' = PsUsers(l)
    BY <1>1, <1>3 DEF PsUsers
  <2>2. PsCallers' = PsCallers /\ PsLockIds' = PsLockIds
    BY <1>1 DEF PsCallers, PsLockIds
  <2>3. \A r \in PsOps : psPc'[r] \in {"new", "register"} => psPc[r] \in {"new", "register"}
    BY <1>1 DEF PsHeldAt
  <2> QED
    BY <1>1, <1>3, <2>1, <2>2, <2>3 DEF PsInv, PsLockInv
<1>5. PsJobInv'
  BY <1>1 DEF PsInv, PsJobInv, PsHeldAt
<1>6. PsReplaceInv'
  <2> SUFFICES ASSUME NEW r \in PsOps, r # o PROVE PsKnows(r)'
    BY DEF PsReplaceInv
  <2>1. psPc'[r] \notin PsHeldAt
    BY <1>1, PsAlone
  <2> QED
    BY <2>1 DEF PsKnows, PsHeldAt
<1>7. PsKeptInv'
  BY <1>1 DEF PsInv, PsKeptInv, PsHeldAt
<1> QED
  BY <1>2, <1>4, <1>5, <1>6, <1>7 DEF PsInv

\* A step that leaves the files alone and does not take a call into the work.
LEMMA PsOutsideKeeps ==
  ASSUME PsInv, PsShape', PsLockInv', UNCHANGED <<psFile, psStamp, psPrint, psSeen, psRemoved>>,
         \A o \in PsOps :
           \/ psPc'[o] = psPc[o] /\ psDo'[o] = psDo[o]
           \/ /\ psPc'[o] \notin {"write", "remember", "dedupe"}
              /\ psDo'[o] \in PsJobs
              /\ psPc'[o] \in {"replace", "append", "remove"} => psPc'[o] = psDo'[o].kind
              /\ psPc'[o] \in {"unlock ok", "release ok", "ok"} =>
                   psDo'[o] = psDo[o] /\ psPc[o] \in {"unlock ok", "release ok", "ok"}
  PROVE  PsInv'
<1>1. PsFilesAt' = PsFilesAt /\ PsLocals' = PsLocals
  BY DEF PsFilesAt, PsLocals, PsLocalsOf
<1>2. PsJobInv'
  BY DEF PsInv, PsJobInv
<1>3. PsFilesInv'
  BY <1>1 DEF PsInv, PsFilesInv
<1>4. PsReplaceInv'
  <2> SUFFICES ASSUME NEW o \in PsOps PROVE PsKnows(o)'
    BY DEF PsReplaceInv
  <2> QED
    BY <1>1 DEF PsInv, PsReplaceInv, PsKnows
<1>5. PsKeptInv'
  BY <1>1 DEF PsInv, PsKeptInv
<1> QED
  BY <1>2, <1>3, <1>4, <1>5 DEF PsInv

LEMMA PsStartKeeps ==
  ASSUME PsInv, NEW o \in PsOps, NEW job \in PsJobs, PsStart(o, job)
  PROVE  PsInv'
<1>1. /\ psPc[o] = "new" /\ psDo' = [psDo EXCEPT ![o] = job]
      /\ UNCHANGED <<psFile, psStamp, psPrint, psEntry, psEntries, psRefs, psHolder, psMine, psSeen, psRemoved>>
      /\ \E label \in {"failed", "register"} : psPc' = [psPc EXCEPT ![o] = label]
  BY DEF PsStart, PsAt, PsGoto, psDiskVars, psLockVars
<1>2. /\ psPc' \in [PsOps -> PsLabels] /\ psPc'[o] \in {"failed", "register"}
      /\ psDo' \in [PsOps -> PsJobs \cup {PsNoJob}] /\ psDo'[o] = job
      /\ \A r \in PsOps \ {o} : psPc'[r] = psPc[r] /\ psDo'[r] = psDo[r]
  BY <1>1 DEF PsInv, PsShape, PsLabels
<1>3. PsShape'
  BY <1>1, <1>2 DEF PsInv, PsShape
<1>4. PsLockInv'
  <2>1. \A l : PsUsers(l)' = PsUsers(l)
    BY <1>1, <1>2 DEF PsUsers, PsUsedAt, PsHeldAt
  <2>2. PsCallers' = PsCallers
    BY <1>1 DEF PsCallers
  <2>3. psPc'[o] \notin PsUsedAt /\ psPc'[o] \notin PsHeldAt /\ psMine[o] = 0
    BY <1>1, <1>2 DEF PsUsedAt, PsHeldAt, PsInv, PsLockInv
  <2> QED
    BY <1>1, <1>2, <2>1, <2>2, <2>3 DEF PsInv, PsLockInv
<1>5. \A r \in PsOps :
        \/ psPc'[r] = psPc[r] /\ psDo'[r] = psDo[r]
        \/ /\ psPc'[r] \notin {"write", "remember", "dedupe"}
           /\ psDo'[r] \in PsJobs
           /\ psPc'[r] \in {"replace", "append", "remove"} => psPc'[r] = psDo'[r].kind
           /\ psPc'[r] \in {"unlock ok", "release ok", "ok"} =>
                psDo'[r] = psDo[r] /\ psPc[r] \in {"unlock ok", "release ok", "ok"}
  BY <1>2
<1> QED
  BY <1>1, <1>3, <1>4, <1>5, PsOutsideKeeps

LEMMA PsRegisterKeeps ==
  ASSUME PsInv, NEW o \in PsOps, PsRegister(o)
  PROVE  PsInv'
<1> DEFINE entry == IF psEntry = 0 THEN psEntries + 1 ELSE psEntry
<1>1. /\ psPc[o] = "register" /\ psPc' = [psPc EXCEPT ![o] = "acquire"]
      /\ psEntry' = entry /\ psEntries' = (IF psEntry = 0 THEN entry ELSE psEntries)
      /\ psRefs' = [psRefs EXCEPT ![entry] = @ + 1] /\ psMine' = [psMine EXCEPT ![o] = entry]
      /\ UNCHANGED <<psFile, psStamp, psPrint, psHolder, psDo, psSeen, psRemoved>>
  BY DEF PsRegister, PsAt, PsGoto, psDiskVars
<1>2. /\ psMine[o] = 0 /\ psDo[o] \in PsJobs
      /\ \A r \in PsOps : psPc[r] \in PsUsedAt => psMine[r] = psEntry /\ psEntry # 0
      /\ psEntry \in Nat /\ psEntries \in Nat /\ psEntry <= psEntries
  BY <1>1 DEF PsInv, PsLockInv, PsJobInv, PsShape, PsLockIds
<1>3. IsFiniteSet(PsCallers) /\ Cardinality(PsCallers) \in Nat
  BY PsSubset DEF PsCallers
<1>4. entry \in Nat /\ entry # 0 /\ psEntry' \in 0..psEntries' /\ psEntries' \in Nat /\ psEntries' <= psEntries + 1
  BY <1>1, <1>2
<1> HIDE DEF entry
<1>5. /\ psPc' \in [PsOps -> PsLabels] /\ psPc'[o] = "acquire"
      /\ psMine' \in [PsOps -> Nat] /\ psMine'[o] = entry
      /\ \A r \in PsOps \ {o} : psPc'[r] = psPc[r] /\ psMine'[r] = psMine[r]
  BY <1>1, <1>4 DEF PsInv, PsShape, PsLabels
<1>6. psEntries' <= Cardinality(PsCallers')
  <2>1. PsCallers' = PsCallers \cup {o} /\ o \notin PsCallers
    BY <1>2, <1>4, <1>5 DEF PsCallers
  <2>2. Cardinality(PsCallers') = Cardinality(PsCallers) + 1
    BY <1>3, <2>1, FS_AddElement
  <2>3. psEntries <= Cardinality(PsCallers)
    BY DEF PsInv, PsLockInv
  <2> QED
    BY <1>2, <1>3, <1>4, <2>2, <2>3
<1>7. entry \in PsLockIds
  <2>1. Cardinality(PsCallers') \in 0..Cardinality(PsOps)
    BY PsSubset DEF PsCallers
  <2> QED
    BY <1>1, <1>4, <1>6, <2>1, PsCounted DEF PsLockIds
<1>8. PsShape'
  <2>1. psRefs' \in [PsLockIds -> Nat]
    BY <1>1, <1>7 DEF PsInv, PsShape
  <2> QED
    BY <1>1, <1>4, <1>5, <2>1 DEF PsInv, PsShape
<1>9. PsLockInv'
  <2>1. \A l \in PsLockIds : psRefs'[l] = Cardinality(PsUsers(l)')
    <3> SUFFICES ASSUME NEW l \in PsLockIds PROVE psRefs'[l] = Cardinality(PsUsers(l)')
      OBVIOUS
    <3>1. psRefs[l] = Cardinality(PsUsers(l)) /\ IsFiniteSet(PsUsers(l))
      BY PsSubset DEF PsInv, PsLockInv, PsUsers
    <3>2. CASE l = entry
      <4>1. PsUsers(l)' = PsUsers(l) \cup {o} /\ o \notin PsUsers(l)
        BY <1>1, <1>5, <3>2 DEF PsUsers, PsUsedAt, PsHeldAt
      <4>2. psRefs'[l] = psRefs[l] + 1
        BY <1>1, <3>2 DEF PsInv, PsShape
      <4> QED
        BY <3>1, <4>1, <4>2, FS_AddElement
    <3>3. CASE l # entry
      <4>1. PsUsers(l)' = PsUsers(l)
        BY <1>1, <1>5, <3>3 DEF PsUsers, PsUsedAt, PsHeldAt
      <4>2. psRefs'[l] = psRefs[l]
        BY <1>1, <3>3 DEF PsInv, PsShape
      <4> QED
        BY <3>1, <4>1, <4>2
    <3> QED
      BY <3>2, <3>3
  <2>2. \A r \in PsOps : psPc[r] \in PsUsedAt => psMine[r] = entry
    BY <1>2 DEF entry
  <2>3. "acquire" \notin PsHeldAt
    BY DEF PsHeldAt
  <2> QED
    BY <1>1, <1>5, <1>6, <1>7, <2>1, <2>2, <2>3 DEF PsInv, PsLockInv
<1>10. \A r \in PsOps :
        \/ psPc'[r] = psPc[r] /\ psDo'[r] = psDo[r]
        \/ /\ psPc'[r] \notin {"write", "remember", "dedupe"}
           /\ psDo'[r] \in PsJobs
           /\ psPc'[r] \in {"replace", "append", "remove"} => psPc'[r] = psDo'[r].kind
           /\ psPc'[r] \in {"unlock ok", "release ok", "ok"} =>
                psDo'[r] = psDo[r] /\ psPc[r] \in {"unlock ok", "release ok", "ok"}
  BY <1>1, <1>2, <1>5
<1> QED
  BY <1>1, <1>8, <1>9, <1>10, PsOutsideKeeps

LEMMA PsAcquireKeeps ==
  ASSUME PsInv, NEW o \in PsOps, PsAcquire(o)
  PROVE  PsInv'
<1>1. /\ psPc[o] = "acquire" /\ psPc' = [psPc EXCEPT ![o] = psDo[o].kind]
      /\ psHolder[psMine[o]] = PsNobody /\ psHolder' = [psHolder EXCEPT ![psMine[o]] = o]
      /\ UNCHANGED <<psFile, psStamp, psPrint, psEntry, psEntries, psRefs, psMine, psDo, psSeen, psRemoved>>
  BY DEF PsAcquire, PsAt, PsGoto, psDiskVars
<1>2. psDo[o] \in PsJobs /\ psDo[o].kind \in {"replace", "append", "remove"} /\ psMine[o] = psEntry /\ psEntry \in PsLockIds
  <2>1. psDo[o] \in PsJobs /\ psMine[o] = psEntry /\ psEntry \in PsLockIds
    BY <1>1 DEF PsInv, PsJobInv, PsLockInv, PsUsedAt
  <2> QED
    BY <2>1 DEF PsJobs
<1>3. /\ psPc' \in [PsOps -> PsLabels] /\ psPc'[o] = psDo[o].kind
      /\ psPc'[o] \in PsHeldAt /\ psPc'[o] \in PsUsedAt
      /\ \A r \in PsOps \ {o} : psPc'[r] = psPc[r]
  BY <1>1, <1>2 DEF PsInv, PsShape, PsLabels, PsUsedAt, PsHeldAt
<1>4. psHolder' \in [PsLockIds -> PsOps \cup {PsNobody}] /\ psHolder'[psMine[o]] = o
  BY <1>1, <1>2 DEF PsInv, PsShape
<1>5. PsShape'
  BY <1>1, <1>3, <1>4 DEF PsInv, PsShape
<1>6. \A r \in PsOps : psPc[r] \notin PsHeldAt
  BY <1>1, <1>2, PsCounted DEF PsInv, PsLockInv, PsUsedAt
<1>7. PsLockInv'
  <2>1. \A l : PsUsers(l)' = PsUsers(l)
    BY <1>1, <1>3 DEF PsUsers, PsUsedAt
  <2>2. PsCallers' = PsCallers
    BY <1>1 DEF PsCallers
  <2>3. psPc'[o] \notin {"new", "register"}
    BY <1>2, <1>3
  <2>4. PsLockIds' = PsLockIds
    BY DEF PsLockIds
  <2> QED
    BY <1>1, <1>2, <1>3, <1>4, <1>6, <2>1, <2>2, <2>3, <2>4 DEF PsInv, PsLockInv
<1>8. \A r \in PsOps :
        \/ psPc'[r] = psPc[r] /\ psDo'[r] = psDo[r]
        \/ /\ psPc'[r] \notin {"write", "remember", "dedupe"}
           /\ psDo'[r] \in PsJobs
           /\ psPc'[r] \in {"replace", "append", "remove"} => psPc'[r] = psDo'[r].kind
           /\ psPc'[r] \in {"unlock ok", "release ok", "ok"} =>
                psDo'[r] = psDo[r] /\ psPc[r] \in {"unlock ok", "release ok", "ok"}
  BY <1>1, <1>2, <1>3
<1> QED
  BY <1>1, <1>5, <1>7, <1>8, PsOutsideKeeps

LEMMA PsUnlockKeeps ==
  ASSUME PsInv, NEW o \in PsOps, PsUnlock(o)
  PROVE  PsInv'
<1> DEFINE label == IF psPc[o] = "unlock ok" THEN "release ok" ELSE "release failed"
<1>1. /\ psPc[o] \in {"unlock ok", "unlock failed"} /\ psPc' = [psPc EXCEPT ![o] = label]
      /\ psHolder' = [psHolder EXCEPT ![psMine[o]] = PsNobody]
      /\ UNCHANGED <<psFile, psStamp, psPrint, psEntry, psEntries, psRefs, psMine, psDo, psSeen, psRemoved>>
  BY DEF PsUnlock, PsAt, PsGoto, psDiskVars
<1>2. psDo[o] \in PsJobs /\ psMine[o] = psEntry /\ psEntry \in PsLockIds
  BY <1>1 DEF PsInv, PsJobInv, PsLockInv, PsUsedAt, PsHeldAt
<1>3. /\ psPc' \in [PsOps -> PsLabels] /\ psPc'[o] = label
      /\ psPc'[o] \in PsUsedAt /\ psPc'[o] \notin PsHeldAt /\ psPc[o] \in PsUsedAt /\ psPc[o] \in PsHeldAt
      /\ \A r \in PsOps \ {o} : psPc'[r] = psPc[r]
  BY <1>1 DEF PsInv, PsShape, PsLabels, PsUsedAt, PsHeldAt
<1>4. psHolder' \in [PsLockIds -> PsOps \cup {PsNobody}]
  BY <1>1, <1>2 DEF PsInv, PsShape
<1>5. PsShape'
  BY <1>1, <1>3, <1>4 DEF PsInv, PsShape
<1>6. \A r \in PsOps : psPc[r] \in PsHeldAt => r = o
  BY <1>3, PsAlone
<1>7. PsLockInv'
  <2>1. \A l : PsUsers(l)' = PsUsers(l)
    BY <1>1, <1>3 DEF PsUsers
  <2>2. PsCallers' = PsCallers
    BY <1>1 DEF PsCallers
  <2>4. PsLockIds' = PsLockIds
    BY DEF PsLockIds
  <2> QED
    BY <1>1, <1>2, <1>3, <1>6, <2>1, <2>2, <2>4 DEF PsInv, PsLockInv
<1>8. \A r \in PsOps :
        \/ psPc'[r] = psPc[r] /\ psDo'[r] = psDo[r]
        \/ /\ psPc'[r] \notin {"write", "remember", "dedupe"}
           /\ psDo'[r] \in PsJobs
           /\ psPc'[r] \in {"replace", "append", "remove"} => psPc'[r] = psDo'[r].kind
           /\ psPc'[r] \in {"unlock ok", "release ok", "ok"} =>
                psDo'[r] = psDo[r] /\ psPc[r] \in {"unlock ok", "release ok", "ok"}
  BY <1>1, <1>2, <1>3
<1> QED
  BY <1>1, <1>5, <1>7, <1>8, PsOutsideKeeps

\* The last one takes the entry with it: nobody else uses it.
LEMMA PsReleaseKeeps ==
  ASSUME PsInv, NEW o \in PsOps, PsRelease(o)
  PROVE  PsInv'
<1> DEFINE label == IF psPc[o] = "release ok" THEN "ok" ELSE "failed"
<1>1. /\ psPc[o] \in {"release ok", "release failed"} /\ psPc' = [psPc EXCEPT ![o] = label]
      /\ psRefs' = [psRefs EXCEPT ![psMine[o]] = @ - 1]
      /\ psEntry' = (IF psRefs[psMine[o]] = 1 THEN 0 ELSE psEntry)
      /\ UNCHANGED <<psFile, psStamp, psPrint, psEntries, psHolder, psMine, psDo, psSeen, psRemoved>>
  BY DEF PsRelease, PsAt, PsGoto, psDiskVars
<1>0. PICK e : e = psEntry
  OBVIOUS
<1>2. psDo[o] \in PsJobs /\ psMine[o] = e /\ e \in PsLockIds /\ e \in 0..psEntries /\ psEntries \in Nat
  <2>1. psDo[o] \in PsJobs /\ psMine[o] = psEntry /\ psEntry \in PsLockIds
    BY <1>1 DEF PsInv, PsJobInv, PsLockInv, PsUsedAt
  <2> QED
    BY <1>0, <2>1 DEF PsInv, PsShape
<1>3. /\ psPc' \in [PsOps -> PsLabels] /\ psPc'[o] = label
      /\ psPc'[o] \notin PsUsedAt /\ psPc'[o] \notin PsHeldAt /\ psPc[o] \in PsUsedAt
      /\ \A r \in PsOps \ {o} : psPc'[r] = psPc[r]
  BY <1>1 DEF PsInv, PsShape, PsLabels, PsUsedAt, PsHeldAt
<1>4. \A l \in PsLockIds : psRefs[l] = Cardinality(PsUsers(l)) /\ IsFiniteSet(PsUsers(l)) /\ psRefs[l] \in Nat
  BY PsSubset DEF PsInv, PsLockInv, PsUsers, PsShape
<1>5. /\ PsUsers(e)' = PsUsers(e) \ {o} /\ o \in PsUsers(e)
      /\ \A l \in PsLockIds \ {e} : PsUsers(l)' = PsUsers(l)
  BY <1>1, <1>2, <1>3 DEF PsUsers
<1>6. psRefs[e] >= 1 /\ Cardinality(PsUsers(e)') = psRefs[e] - 1
  <2>1. psRefs[e] = Cardinality(PsUsers(e)) /\ IsFiniteSet(PsUsers(e)) /\ psRefs[e] \in Nat
    BY <1>2, <1>4
  <2>2. Cardinality(PsUsers(e) \ {o}) = Cardinality(PsUsers(e)) - 1
    BY <1>5, <2>1, FS_RemoveElement
  <2>3. Cardinality(PsUsers(e) \ {o}) \in Nat
    BY <1>5, <2>1, FS_RemoveElement, FS_CardinalityType
  <2> QED
    BY <1>5, <2>1, <2>2, <2>3
<1>7. PsShape'
  <2>1. psRefs' \in [PsLockIds -> Nat] /\ psEntry' \in 0..psEntries
    <3>1. psRefs[e] - 1 \in Nat
      BY <1>2, <1>4, <1>6
    <3>2. psRefs \in [PsLockIds -> Nat]
      BY DEF PsInv, PsShape
    <3>3. psRefs' = [psRefs EXCEPT ![e] = psRefs[e] - 1]
      BY <1>1, <1>2
    <3>4. psRefs' \in [PsLockIds -> Nat]
      BY <3>1, <3>2, <3>3
    <3>5. psEntry' \in 0..psEntries
      <4>1. psEntry' = 0 \/ psEntry' = e
        BY <1>0, <1>1
      <4>2. 0 \in 0..psEntries
        BY <1>2
      <4> QED
        BY <1>2, <4>1, <4>2
    <3> QED
      BY <3>4, <3>5
  <2> QED
    BY <1>1, <1>3, <2>1 DEF PsInv, PsShape
<1>8. PsLockInv'
  <2>1. \A l \in PsLockIds : psRefs'[l] = Cardinality(PsUsers(l)')
    <3> TAKE l \in PsLockIds
    <3>1. CASE l = e
      BY <1>1, <1>2, <1>6, <3>1 DEF PsInv, PsShape
    <3>2. CASE l # e
      BY <1>1, <1>2, <1>4, <1>5, <3>2 DEF PsInv, PsShape
    <3> QED
      BY <3>1, <3>2
  <2>2. PsCallers' = PsCallers /\ PsLockIds' = PsLockIds
    BY <1>1 DEF PsCallers, PsLockIds
  <2>3. ASSUME NEW r \in PsOps, psPc'[r] \in PsUsedAt PROVE psEntry' = psEntry /\ r # o
    <3>1. r # o /\ r \in PsUsers(e)
      BY <1>0, <1>1, <1>3, <2>3 DEF PsUsers, PsInv, PsLockInv
    <3>2. CASE psRefs[e] = 1
      <4>1. PsUsers(e)' = {}
        <5>1. IsFiniteSet(PsUsers(e)')
          BY PsSubset DEF PsUsers
        <5> QED
          BY <1>6, <3>2, <5>1, FS_EmptySet
      <4> QED
        BY <1>5, <3>1, <4>1
    <3>3. CASE psRefs[e] # 1
      BY <1>1, <1>2, <3>1, <3>3
    <3> QED
      BY <3>2, <3>3
  <2>4. psPc'[o] \notin {"new", "register"}
    BY <1>3
  <2> QED
    BY <1>0, <1>1, <1>2, <1>3, <2>1, <2>2, <2>3, <2>4 DEF PsInv, PsLockInv
<1>9. \A r \in PsOps :
        \/ psPc'[r] = psPc[r] /\ psDo'[r] = psDo[r]
        \/ /\ psPc'[r] \notin {"write", "remember", "dedupe"}
           /\ psDo'[r] \in PsJobs
           /\ psPc'[r] \in {"replace", "append", "remove"} => psPc'[r] = psDo'[r].kind
           /\ psPc'[r] \in {"unlock ok", "release ok", "ok"} =>
                psDo'[r] = psDo[r] /\ psPc[r] \in {"unlock ok", "release ok", "ok"}
  BY <1>1, <1>2, <1>3
<1> QED
  BY <1>1, <1>7, <1>8, <1>9, PsOutsideKeeps

\* A crash ends the calls under way.
LEMMA PsCrashKeeps ==
  ASSUME PsInv, PsCrash
  PROVE  PsInv'
<1>1. /\ psPrint' = [path \in PsPaths |-> PsNoFile] /\ psEntry' = 0
      /\ psRefs' = [l \in PsLockIds |-> 0] /\ psHolder' = [l \in PsLockIds |-> PsNobody]
      /\ psPc' = [o \in PsOps |-> IF psPc[o] \in {"new", "ok"} THEN psPc[o] ELSE "failed"]
      /\ UNCHANGED <<psFile, psStamp, psEntries, psMine, psDo, psSeen, psRemoved>>
  BY DEF PsCrash, psDiskVars
<1>2. \A o \in PsOps : /\ psPc'[o] \in {"new", "ok", "failed"} /\ (psPc'[o] = "new" <=> psPc[o] = "new")
                       /\ (psPc'[o] = "ok" <=> psPc[o] = "ok")
  BY <1>1
<1>3. PsShape'
  <2>1. psPc' \in [PsOps -> PsLabels]
    BY <1>1 DEF PsLabels
  <2>2. psPrint' \in [PsPaths -> PsFiles]
    BY <1>1, PsNoFiles
  <2>3. psEntry' \in 0..psEntries
    BY <1>1 DEF PsInv, PsShape
  <2>4. psRefs' \in [PsLockIds -> Nat] /\ psHolder' \in [PsLockIds -> PsOps \cup {PsNobody}]
    BY <1>1
  <2> QED
    BY <1>1, <2>1, <2>2, <2>3, <2>4 DEF PsInv, PsShape
<1>4. PsLockInv'
  <2>1. \A o \in PsOps : psPc'[o] \notin PsUsedAt /\ psPc'[o] \notin PsHeldAt /\ psPc'[o] # "register"
    BY <1>2 DEF PsUsedAt, PsHeldAt
  <2>2. \A l \in PsLockIds : psRefs'[l] = Cardinality(PsUsers(l)')
    <3>1. \A l : PsUsers(l)' = {}
      BY <2>1 DEF PsUsers
    <3>2. \A l \in PsLockIds : psRefs'[l] = 0
      BY <1>1
    <3> QED
      BY <3>1, <3>2, FS_EmptySet
  <2>3. PsCallers' = PsCallers /\ PsLockIds' = PsLockIds
    BY <1>1 DEF PsCallers, PsLockIds
  <2>4. \A o \in PsOps : psPc'[o] \in {"new", "register"} => psMine'[o] = 0
    BY <1>1, <1>2, <2>1 DEF PsInv, PsLockInv
  <2> QED
    BY <1>1, <2>1, <2>2, <2>3, <2>4 DEF PsInv, PsLockInv
<1>5. PsFilesAt' = PsFilesAt /\ PsLocals' = PsLocals
  BY <1>1 DEF PsFilesAt, PsLocals, PsLocalsOf
<1>6. PsJobInv'
  BY <1>1, <1>2 DEF PsInv, PsJobInv
<1>7. PsFilesInv'
  <2>1. \A path \in PsPaths : psPrint'[path].stamp = 0
    BY <1>1, PsNoFiles
  <2>2. \A path \in PsFilesAt : psFile[path].stamp \in 1..psStamp /\ psFile[path].content \in PsContents
    BY DEF PsInv, PsFilesInv
  <2>3. psStamp \in Nat
    BY DEF PsInv, PsShape
  <2> QED
    BY <1>1, <1>5, <2>1, <2>2, <2>3 DEF PsFilesInv
<1>8. PsReplaceInv'
  BY <1>2 DEF PsReplaceInv, PsKnows
<1>9. PsKeptInv'
  BY <1>1, <1>2, <1>5 DEF PsInv, PsKeptInv
<1> QED
  BY <1>3, <1>4, <1>6, <1>7, <1>8, <1>9 DEF PsInv

-----------------------------------------------------------------------------
(* What is done under the lock.                                               *)

\* The facts about the call that has it.
LEMMA PsFields ==
  ASSUME PsInv, NEW o \in PsOps, psPc[o] # "new"
  PROVE  /\ psDo[o] \in PsJobs /\ psDo[o].path \in PsPaths
         /\ psDo[o].kind = "replace" => psDo[o].content \in PsContents
         /\ psSeen[o].local \in SUBSET PsOps /\ psSeen[o].paths \in SUBSET PsPaths
<1>1. psDo[o] \in PsJobs /\ psSeen[o] \in PsReads
  BY DEF PsInv, PsJobInv, PsShape
<1> QED
  BY <1>1 DEF PsJobs, PsReads

LEMMA PsFileFields ==
  ASSUME PsInv, NEW path \in PsPaths
  PROVE  /\ psFile[path] \in PsFiles /\ psFile[path].stamp \in Nat /\ psFile[path].local \in SUBSET PsOps
         /\ psPrint[path] \in PsFiles /\ psPrint[path].stamp \in Nat /\ psPrint[path].stamp <= psStamp
         /\ psStamp \in Nat /\ (path \in PsFilesAt <=> psFile[path] # PsNoFile)
  BY DEF PsInv, PsShape, PsFiles, PsFilesInv, PsFilesAt

LEMMA PsScanKeeps ==
  ASSUME PsInv, NEW o \in PsOps, PsScan(o)
  PROVE  PsInv'
<1>1. /\ psPc[o] = "replace" /\ UNCHANGED <<psFile, psStamp, psPrint, psLockVars, psDo, psRemoved>>
      /\ psSeen' = [psSeen EXCEPT ![o] = [paths |-> PsFilesAt, local |-> PsLocals]]
      /\ \E label \in PsScanned : psPc' = [psPc EXCEPT ![o] = label]
  BY DEF PsScan, PsAt, psDiskVars, PsLocals, PsScanned
<1>2. PICK label \in PsScanned : psPc' = [psPc EXCEPT ![o] = label]
  BY <1>1
<1>3. [paths |-> PsFilesAt, local |-> PsLocals] \in PsReads
  <2>1. \A path \in PsFilesAt : psFile[path].local \in SUBSET PsOps
    BY PsFileFields DEF PsFilesAt
  <2>2. PsLocals \in SUBSET PsOps /\ PsFilesAt \in SUBSET PsPaths
    BY <2>1 DEF PsLocals, PsLocalsOf, PsFilesAt
  <2> QED
    BY <2>2 DEF PsReads
<1>4. psSeen' \in [PsOps -> PsReads] /\ psSeen'[o] = [paths |-> PsFilesAt, local |-> PsLocals]
  BY <1>1, <1>3 DEF PsInv, PsShape
<1>5. psPc'[o] = label /\ psPc[o] \in PsHeldAt /\ label \in PsHeldAt
  BY <1>1, <1>2 DEF PsInv, PsShape, PsHeldAt, PsScanned
<1>6. PsFilesAt' = PsFilesAt /\ PsLocals' = PsLocals
  BY <1>1 DEF PsFilesAt, PsLocals, PsLocalsOf
<1>7. PsKnows(o)'
  <2>0. psSeen'[o] = [paths |-> PsFilesAt, local |-> PsLocals]
    BY <1>4
  <2>1. psSeen'[o].paths = PsFilesAt /\ psSeen'[o].local = PsLocals
    BY <2>0
  <2>2. psPc'[o] \notin {"remember", "dedupe"}
    BY <1>5 DEF PsScanned
  <2> QED
    BY <1>6, <2>1, <2>2 DEF PsKnows
<1>8. PsFilesInv'
  BY <1>1, <1>6 DEF PsInv, PsFilesInv
<1>9. psDo[o].kind = "replace"
  BY <1>1 DEF PsInv, PsJobInv
<1>10. psFile' \in [PsPaths -> PsFiles] /\ psStamp' \in Nat /\ psPrint' \in [PsPaths -> PsFiles] /\ psRemoved' \in BOOLEAN
  BY <1>1 DEF PsInv, PsShape
<1>11. UNCHANGED <<psLockVars, psDo>> /\ (psRemoved => psRemoved') /\ label # "append" /\ label # "remove" /\ label # "unlock ok"
  BY <1>1 DEF PsScanned
<1> QED
  BY <1>2, <1>4, <1>5, <1>6, <1>7, <1>8, <1>9, <1>10, <1>11, PsInsideKeeps

\* What is remembered of the version on disk is what it holds.
LEMMA PsSameMeansSame ==
  ASSUME PsInv, NEW path \in PsPaths, NEW content \in PsContents, NEW local \in SUBSET PsOps,
         PsUnchanged(path, content, local)
  PROVE  path \in PsFilesAt /\ psFile[path].content = content /\ psFile[path].local = local
<1>1. path \in PsFilesAt
  BY DEF PsUnchanged, PsFilesAt
<1>2. psPrint[path].stamp = psFile[path].stamp => psPrint[path] = psFile[path]
  BY <1>1 DEF PsInv, PsFilesInv
<1> QED
  BY <1>1, <1>2 DEF PsUnchanged

LEMMA PsWriteKeeps ==
  ASSUME PsInv, NEW o \in PsOps, PsWrite(o)
  PROVE  PsInv'
<1> DEFINE target == psDo[o].path
           file == [stamp |-> psStamp + 1, content |-> psDo[o].content, local |-> psSeen[o].local]
<1>1. /\ psPc[o] = "write" /\ UNCHANGED <<psPrint, psLockVars, psDo, psSeen, psRemoved>>
      /\ \/ /\ PsUnchanged(target, psDo[o].content, psSeen[o].local)
            /\ psPc' = [psPc EXCEPT ![o] = "dedupe"] /\ psFile' = psFile /\ psStamp' = psStamp
         \/ /\ psStamp' = psStamp + 1 /\ psFile' = [psFile EXCEPT ![target] = file]
            /\ psPc' = [psPc EXCEPT ![o] = "remember"]
         \/ psPc' = [psPc EXCEPT ![o] = "unlock failed"] /\ psFile' = psFile /\ psStamp' = psStamp
  BY DEF PsWrite, PsAt, PsGoto, psDiskVars
<1>2. /\ target \in PsPaths /\ psDo[o].content \in PsContents /\ psSeen[o].local \in SUBSET PsOps
      /\ psDo[o].kind = "replace"
      /\ PsLocals \subseteq psSeen[o].local /\ PsFilesAt \subseteq psSeen[o].paths \cup {target}
  BY <1>1, PsFields DEF PsInv, PsJobInv, PsReplaceInv, PsKnows
<1>3. psPc[o] \in PsHeldAt /\ psStamp \in Nat /\ psFile \in [PsPaths -> PsFiles] /\ psPc \in [PsOps -> PsLabels]
  BY <1>1 DEF PsHeldAt, PsInv, PsShape
<1>4. psPrint' \in [PsPaths -> PsFiles] /\ psSeen' \in [PsOps -> PsReads] /\ psRemoved' \in BOOLEAN /\ (psRemoved => psRemoved')
  BY <1>1 DEF PsInv, PsShape
<1>5. ASSUME NEW label \in PsWritten, psPc' = [psPc EXCEPT ![o] = label], psFile' = psFile,
             psStamp' = psStamp, label = "dedupe" => PsUnchanged(target, psDo[o].content, psSeen[o].local)
      PROVE  PsInv'
  <2>1. PsFilesAt' = PsFilesAt /\ PsLocals' = PsLocals
    BY <1>5 DEF PsFilesAt, PsLocals, PsLocalsOf
  <2>2. psPc'[o] = label /\ label \in PsHeldAt
    BY <1>3, <1>5 DEF PsHeldAt, PsWritten, PsDone
  <2>3. label = "dedupe" =>
          target \in PsFilesAt /\ psFile[target].content = psDo[o].content /\ psFile[target].local = psSeen[o].local
    BY <1>2, <1>5, PsSameMeansSame
  <2>4. PsKnows(o)'
    BY <1>1, <1>2, <1>5, <2>1, <2>2, <2>3 DEF PsKnows, PsWritten
  <2>5. PsFilesInv'
    BY <1>1, <1>5, <2>1 DEF PsInv, PsFilesInv
  <2>6. psFile' \in [PsPaths -> PsFiles] /\ psStamp' \in Nat /\ UNCHANGED <<psLockVars, psDo>>
    BY <1>1, <1>3, <1>5
  <2> QED
    BY <1>2, <1>3, <1>4, <1>5, <2>1, <2>2, <2>4, <2>5, <2>6, PsInsideKeeps DEF PsWritten
<1>6. CASE /\ psStamp' = psStamp + 1 /\ psFile' = [psFile EXCEPT ![target] = file]
           /\ psPc' = [psPc EXCEPT ![o] = "remember"]
  <2>1. /\ file \in PsFiles /\ file.stamp = psStamp + 1 /\ file.content = psDo[o].content
        /\ file.local = psSeen[o].local
    BY <1>2, <1>3 DEF PsFiles
  <2>2. file # PsNoFile
    BY <1>3, <2>1, PsNoFiles
  <2> HIDE DEF file
  <2>3. /\ psFile' \in [PsPaths -> PsFiles] /\ psFile'[target] = file
        /\ \A path \in PsPaths \ {target} : psFile'[path] = psFile[path]
    BY <1>2, <1>3, <1>6, <2>1
  <2>4. PsFilesAt' = PsFilesAt \cup {target}
    BY <1>2, <2>2, <2>3 DEF PsFilesAt
  <2>5. PsLocals' = psSeen[o].local
    <3>1. psSeen[o].local \subseteq PsLocals'
      BY <2>1, <2>3, <2>4 DEF PsLocals, PsLocalsOf
    <3>2. PsLocals' \subseteq psSeen[o].local
      <4> SUFFICES ASSUME NEW path \in PsFilesAt' PROVE psFile'[path].local \subseteq psSeen[o].local
        BY DEF PsLocals, PsLocalsOf
      <4>1. CASE path = target
        BY <2>1, <2>3, <4>1
      <4>2. CASE path # target
        <5>1. path \in PsFilesAt /\ path \in PsPaths /\ psFile'[path] = psFile[path]
          BY <2>3, <2>4, <4>2 DEF PsFilesAt
        <5> QED
          BY <1>2, <5>1 DEF PsLocals, PsLocalsOf
      <4> QED
        BY <4>1, <4>2
    <3> QED
      BY <3>1, <3>2
  <2>6. psPc'[o] = "remember" /\ "remember" \in PsHeldAt
    BY <1>3, <1>6 DEF PsHeldAt, PsDone
  <2>7. PsKnows(o)'
    BY <1>1, <1>2, <2>1, <2>3, <2>4, <2>5, <2>6 DEF PsKnows
  <2>8. PsFilesInv'
    <3>1. ASSUME NEW path \in PsFilesAt' PROVE psFile'[path].stamp \in 1..psStamp' /\ psFile'[path].content \in PsContents
      <4>1. CASE path = target
        BY <1>2, <1>3, <1>6, <2>1, <2>3, <4>1
      <4>2. CASE path # target
        <5>1. path \in PsFilesAt /\ path \in PsPaths /\ psFile'[path] = psFile[path]
          BY <2>3, <2>4, <4>2 DEF PsFilesAt
        <5>2. psFile[path].stamp \in 1..psStamp /\ psFile[path].content \in PsContents
          BY <5>1 DEF PsInv, PsFilesInv
        <5> QED
          BY <1>3, <1>6, <5>1, <5>2
      <4> QED
        BY <4>1, <4>2
    <3>2. ASSUME NEW path \in PsPaths
          PROVE  /\ psPrint'[path].stamp <= psStamp'
                 /\ path \in PsFilesAt' /\ psPrint'[path].stamp = psFile'[path].stamp => psPrint'[path] = psFile'[path]
      <4>1. psPrint'[path] = psPrint[path] /\ psPrint[path].stamp \in Nat /\ psPrint[path].stamp <= psStamp
        BY <1>1, PsFileFields
      <4>2. CASE path = target
        BY <1>3, <1>6, <2>1, <2>3, <4>1, <4>2
      <4>3. CASE path # target
        <5>1. psFile'[path] = psFile[path] /\ (path \in PsFilesAt' => path \in PsFilesAt)
          BY <2>3, <2>4, <4>3
        <5>2. path \in PsFilesAt /\ psPrint[path].stamp = psFile[path].stamp => psPrint[path] = psFile[path]
          BY DEF PsInv, PsFilesInv
        <5> QED
          BY <1>3, <1>6, <4>1, <5>1, <5>2
      <4> QED
        BY <4>2, <4>3
    <3> QED
      BY <3>1, <3>2 DEF PsFilesInv
  <2>9. psStamp' \in Nat /\ UNCHANGED <<psLockVars, psDo>> /\ \A r \in PsOps : ~psRemoved' /\ r \in PsLocals => r \in PsLocals'
    BY <1>1, <1>2, <1>3, <1>6, <2>5
  <2> QED
    BY <1>2, <1>3, <1>4, <1>6, <2>3, <2>6, <2>7, <2>8, <2>9, PsInsideKeeps
<1> QED
  BY <1>1, <1>5, <1>6 DEF PsWritten

LEMMA PsRememberKeeps ==
  ASSUME PsInv, NEW o \in PsOps, PsRemember(o)
  PROVE  PsInv'
<1> DEFINE target == psDo[o].path
<1>1. /\ psPc[o] = "remember" /\ UNCHANGED <<psFile, psStamp, psLockVars, psDo, psSeen, psRemoved>>
      /\ \/ psPrint' = [psPrint EXCEPT ![target] = psFile[target]] /\ psPc' = [psPc EXCEPT ![o] = "dedupe"]
         \/ psPc' = [psPc EXCEPT ![o] = "unlock failed"] /\ psPrint' = psPrint
  BY DEF PsRemember, PsAt, PsGoto, psDiskVars
<1>2. /\ target \in PsPaths /\ psDo[o].kind = "replace" /\ psFile[target] \in PsFiles
      /\ psFile[target].stamp \in Nat /\ target \in PsFilesAt
  BY <1>1, PsFields, PsFileFields DEF PsInv, PsJobInv, PsReplaceInv, PsKnows
<1>3. /\ psPc[o] \in PsHeldAt /\ psStamp \in Nat /\ psFile \in [PsPaths -> PsFiles] /\ psPc \in [PsOps -> PsLabels]
      /\ psPrint \in [PsPaths -> PsFiles]
  BY <1>1 DEF PsHeldAt, PsInv, PsShape
<1>4. /\ psSeen' \in [PsOps -> PsReads] /\ psRemoved' \in BOOLEAN /\ (psRemoved => psRemoved')
      /\ psFile' \in [PsPaths -> PsFiles] /\ psStamp' \in Nat
  BY <1>1 DEF PsInv, PsShape
<1>5. PICK label \in PsWritten :
        psPc' = [psPc EXCEPT ![o] = label] /\ psPrint' \in {psPrint, [psPrint EXCEPT ![target] = psFile[target]]}
  BY <1>1 DEF PsWritten
<1>6. psPrint' \in [PsPaths -> PsFiles] /\ \A path \in PsPaths : psPrint'[path] \in {psPrint[path], psFile[path]}
  BY <1>2, <1>3, <1>5
<1>7. PsFilesAt' = PsFilesAt /\ PsLocals' = PsLocals
  BY <1>1 DEF PsFilesAt, PsLocals, PsLocalsOf
<1>8. psPc'[o] = label /\ label \in PsHeldAt
  BY <1>3, <1>5 DEF PsHeldAt, PsWritten, PsDone
<1>9. PsKnows(o)'
  BY <1>1, <1>7, <1>8 DEF PsInv, PsReplaceInv, PsKnows
<1>10. PsFilesInv'
  <2>1. \A path \in PsFilesAt : psFile[path].stamp \in 1..psStamp /\ psFile[path].content \in PsContents
    BY DEF PsInv, PsFilesInv
  <2>2. ASSUME NEW path \in PsPaths
        PROVE  /\ psPrint'[path].stamp <= psStamp
               /\ path \in PsFilesAt /\ psPrint'[path].stamp = psFile[path].stamp => psPrint'[path] = psFile[path]
    <3>1. CASE psPrint'[path] = psPrint[path]
      BY <3>1 DEF PsInv, PsFilesInv
    <3>2. CASE psPrint'[path] = psFile[path]
      <4>1. psFile[path].stamp <= psStamp
        <5>1. CASE path \in PsFilesAt
          <6>1. psFile[path].stamp \in 1..psStamp
            BY <2>1, <5>1
          <6> QED
            BY <6>1
        <5>2. CASE path \notin PsFilesAt
          <6>1. psFile[path] = PsNoFile
            BY <5>2 DEF PsFilesAt
          <6>2. PsNoFile.stamp = 0 /\ psStamp \in Nat
            BY <1>3, PsNoFiles
          <6> QED
            BY <6>1, <6>2
        <5> QED
          BY <5>1, <5>2
      <4> QED
        BY <3>2, <4>1
    <3> QED
      BY <1>6, <3>1, <3>2
  <2> QED
    BY <1>1, <1>7, <2>1, <2>2 DEF PsFilesInv
<1>11. UNCHANGED <<psLockVars, psDo>>
  BY <1>1
<1> QED
  BY <1>2, <1>3, <1>4, <1>5, <1>6, <1>7, <1>8, <1>9, <1>10, <1>11, PsInsideKeeps DEF PsWritten

\* A file goes; its fingerprint goes with it.
LEMMA PsWithout ==
  ASSUME PsInv, NEW gone \in PsPaths, psFile' = [psFile EXCEPT ![gone] = PsNoFile], psStamp' = psStamp,
         PsForgotten(gone)
  PROVE  /\ psFile' \in [PsPaths -> PsFiles] /\ psPrint' \in [PsPaths -> PsFiles] /\ PsFilesInv'
         /\ PsFilesAt' = PsFilesAt \ {gone} /\ PsLocals' \subseteq PsLocals
         /\ \A path \in PsPaths \ {gone} : psFile'[path] = psFile[path]
<1>1. /\ psFile \in [PsPaths -> PsFiles] /\ psPrint \in [PsPaths -> PsFiles] /\ PsNoFile \in PsFiles
      /\ psStamp \in Nat /\ psPrint' = [psPrint EXCEPT ![gone] = PsNoFile]
  BY PsNoFiles DEF PsInv, PsShape, PsForgotten
<1>2. /\ psFile' \in [PsPaths -> PsFiles] /\ psPrint' \in [PsPaths -> PsFiles]
      /\ psFile'[gone] = PsNoFile /\ psPrint'[gone] = PsNoFile
      /\ \A path \in PsPaths \ {gone} : psFile'[path] = psFile[path] /\ psPrint'[path] = psPrint[path]
  BY <1>1
<1>3. PsFilesAt' = PsFilesAt \ {gone}
  BY <1>2 DEF PsFilesAt
<1>4. PsLocals' \subseteq PsLocals
  <2> SUFFICES ASSUME NEW path \in PsFilesAt' PROVE path \in PsFilesAt /\ psFile'[path].local = psFile[path].local
    BY DEF PsLocals, PsLocalsOf
  <2> QED
    BY <1>2, <1>3 DEF PsFilesAt
<1>5. PsFilesInv'
  <2>1. ASSUME NEW path \in PsFilesAt' PROVE psFile'[path].stamp \in 1..psStamp /\ psFile'[path].content \in PsContents
    <3>1. path \in PsFilesAt /\ psFile'[path] = psFile[path]
      BY <1>2, <1>3 DEF PsFilesAt
    <3> QED
      BY <3>1 DEF PsInv, PsFilesInv
  <2>2. ASSUME NEW path \in PsPaths
        PROVE  /\ psPrint'[path].stamp <= psStamp
               /\ path \in PsFilesAt' /\ psPrint'[path].stamp = psFile'[path].stamp => psPrint'[path] = psFile'[path]
    <3>1. CASE path = gone
      BY <1>1, <1>2, <3>1, PsNoFiles
    <3>2. CASE path # gone
      BY <1>2, <1>3, <3>2 DEF PsInv, PsFilesInv
    <3> QED
      BY <3>1, <3>2
  <2> QED
    BY <2>1, <2>2 DEF PsFilesInv
<1> QED
  BY <1>2, <1>3, <1>4, <1>5

LEMMA PsDedupeKeeps ==
  ASSUME PsInv, NEW o \in PsOps, PsDedupe(o)
  PROVE  PsInv'
<1> DEFINE target == psDo[o].path
           duplicates == (psSeen[o].paths \ {target}) \cap PsFilesAt
<1>1. /\ psPc[o] = "dedupe" /\ UNCHANGED <<psStamp, psLockVars, psDo, psSeen, psRemoved>>
      /\ \/ \E label \in PsDone :
              psPc' = [psPc EXCEPT ![o] = label] /\ psFile' = psFile /\ psPrint' = psPrint
         \/ \E path \in duplicates :
              psFile' = [psFile EXCEPT ![path] = PsNoFile] /\ PsForgotten(path) /\ psPc' = psPc
  BY DEF PsDedupe, PsAt, PsGoto, PsDone
<1>2. /\ target \in PsPaths /\ psDo[o].kind = "replace" /\ target \in PsFilesAt
      /\ psFile[target].content = psDo[o].content /\ psFile[target].local = psSeen[o].local
      /\ PsLocals \subseteq psSeen[o].local /\ PsFilesAt \subseteq psSeen[o].paths \cup {target}
  BY <1>1, PsFields DEF PsInv, PsJobInv, PsReplaceInv, PsKnows
<1>3. psPc[o] \in PsHeldAt /\ psPc \in [PsOps -> PsLabels]
  BY <1>1 DEF PsHeldAt, PsInv, PsShape
<1>4. /\ psSeen' \in [PsOps -> PsReads] /\ psRemoved' \in BOOLEAN /\ (psRemoved => psRemoved')
      /\ psStamp' \in Nat /\ UNCHANGED <<psLockVars, psDo>>
  BY <1>1 DEF PsInv, PsShape
<1>5. ASSUME NEW label \in PsDone,
             psPc' = [psPc EXCEPT ![o] = label], psFile' = psFile, psPrint' = psPrint
      PROVE  PsInv'
  <2>1. PsFilesAt' = PsFilesAt /\ PsLocals' = PsLocals
    BY <1>5 DEF PsFilesAt, PsLocals, PsLocalsOf
  <2>2. psPc'[o] = label /\ label \in PsHeldAt
    BY <1>3, <1>5 DEF PsHeldAt, PsWritten, PsDone
  <2>3. PsKnows(o)'
    BY <2>2 DEF PsKnows, PsDone
  <2>4. PsFilesInv'
    BY <1>1, <1>5, <2>1 DEF PsInv, PsFilesInv
  <2>5. psFile' \in [PsPaths -> PsFiles] /\ psPrint' \in [PsPaths -> PsFiles]
    BY <1>5 DEF PsInv, PsShape
  <2> QED
    BY <1>2, <1>3, <1>4, <1>5, <2>1, <2>2, <2>3, <2>4, <2>5, PsInsideKeeps DEF PsDone
<1>6. ASSUME NEW path \in duplicates, psFile' = [psFile EXCEPT ![path] = PsNoFile], PsForgotten(path), psPc' = psPc
      PROVE  PsInv'
  <2>1. path \in PsPaths /\ path # target
    BY DEF PsFilesAt
  <2>2. /\ psFile' \in [PsPaths -> PsFiles] /\ psPrint' \in [PsPaths -> PsFiles] /\ PsFilesInv'
        /\ PsFilesAt' = PsFilesAt \ {path} /\ PsLocals' \subseteq PsLocals
        /\ \A other \in PsPaths \ {path} : psFile'[other] = psFile[other]
    BY <1>1, <1>6, <2>1, PsWithout
  <2> HIDE DEF duplicates
  <2>3. target \in PsFilesAt' /\ psFile'[target] = psFile[target]
    BY <1>2, <2>1, <2>2
  <2>4. PsKnows(o)'
    BY <1>1, <1>2, <1>6, <2>2, <2>3 DEF PsKnows
  <2>5. PsLocals \subseteq PsLocals'
    BY <1>2, <2>3 DEF PsLocals, PsLocalsOf
  <2>6. psPc' = [psPc EXCEPT ![o] = "dedupe"] /\ "dedupe" \in PsHeldAt
    BY <1>1, <1>3, <1>6 DEF PsHeldAt
  <2> QED
    BY <1>2, <1>3, <1>4, <2>2, <2>4, <2>5, <2>6, PsInsideKeeps
<1> QED
  BY <1>1, <1>5, <1>6

\* The file with one more local entry.
PsAppended(o, path) == [psFile[path] EXCEPT !.local = @ \cup {o}, !.stamp = psStamp + 1]

LEMMA PsAppending ==
  ASSUME PsInv, NEW o \in PsOps, NEW path \in PsFilesAt
  PROVE  /\ [psFile EXCEPT ![path].local = @ \cup {o}, ![path].stamp = psStamp + 1]
              = [psFile EXCEPT ![path] = PsAppended(o, path)]
         /\ PsAppended(o, path) \in PsFiles /\ PsAppended(o, path).stamp = psStamp + 1
         /\ PsAppended(o, path).content = psFile[path].content /\ PsAppended(o, path).content \in PsContents
         /\ PsAppended(o, path).local = psFile[path].local \cup {o}
<1>1. path \in PsPaths /\ psFile \in [PsPaths -> PsFiles] /\ psStamp \in Nat /\ psFile[path].content \in PsContents
  BY DEF PsFilesAt, PsInv, PsShape, PsFilesInv
<1>2. psFile[path] \in PsFiles
  BY <1>1
<1>3. /\ PsAppended(o, path) \in PsFiles /\ PsAppended(o, path).stamp = psStamp + 1
      /\ PsAppended(o, path).content = psFile[path].content
      /\ PsAppended(o, path).local = psFile[path].local \cup {o}
  <2>1. psStamp + 1 \in Nat
    BY <1>1
  <2> QED
    BY <1>2, <2>1 DEF PsAppended, PsFiles
<1>4. [psFile EXCEPT ![path].local = @ \cup {o}, ![path].stamp = psStamp + 1]
        = [psFile EXCEPT ![path] = PsAppended(o, path)]
  BY <1>1, <1>2 DEF PsAppended
<1> QED
  BY <1>1, <1>3, <1>4

LEMMA PsAppendKeeps ==
  ASSUME PsInv, NEW o \in PsOps, PsAppend(o)
  PROVE  PsInv'
<1>1. /\ psPc[o] = "append" /\ UNCHANGED <<psLockVars, psDo, psSeen, psRemoved>>
      /\ \/ psPc' = [psPc EXCEPT ![o] = "unlock failed"] /\ psFile' = psFile /\ psStamp' = psStamp /\ psPrint' = psPrint
         \/ \E path \in PsFound(psDo[o].path) :
              /\ psStamp' = psStamp + 1
              /\ psFile' = [psFile EXCEPT ![path].local = @ \cup {o}, ![path].stamp = psStamp + 1]
              /\ \/ psPc' = [psPc EXCEPT ![o] = "unlock ok"] /\ PsForgotten(path)
                 \/ psPc' = [psPc EXCEPT ![o] = "unlock failed"] /\ psPrint' = psPrint
  BY DEF PsAppend, PsAt, PsGoto, psDiskVars
<1>2. psDo[o].kind = "append"
  BY <1>1 DEF PsInv, PsJobInv
<1>3. /\ psPc[o] \in PsHeldAt /\ psStamp \in Nat /\ psFile \in [PsPaths -> PsFiles] /\ psPc \in [PsOps -> PsLabels]
      /\ psPrint \in [PsPaths -> PsFiles]
  BY <1>1 DEF PsHeldAt, PsInv, PsShape
<1>4. /\ psSeen' \in [PsOps -> PsReads] /\ psRemoved' \in BOOLEAN /\ (psRemoved => psRemoved')
      /\ UNCHANGED <<psLockVars, psDo>>
  BY <1>1 DEF PsInv, PsShape
<1>5. CASE psPc' = [psPc EXCEPT ![o] = "unlock failed"] /\ psFile' = psFile /\ psStamp' = psStamp /\ psPrint' = psPrint
  <2>1. PsFilesAt' = PsFilesAt /\ PsLocals' = PsLocals
    BY <1>5 DEF PsFilesAt, PsLocals, PsLocalsOf
  <2>2. psPc'[o] = "unlock failed" /\ "unlock failed" \in PsHeldAt
    BY <1>3, <1>5 DEF PsHeldAt, PsWritten, PsDone
  <2>3. PsKnows(o)'
    BY <2>2 DEF PsKnows, PsDone
  <2>4. PsFilesInv'
    BY <1>5, <2>1 DEF PsInv, PsFilesInv
  <2>5. psFile' \in [PsPaths -> PsFiles] /\ psPrint' \in [PsPaths -> PsFiles] /\ psStamp' \in Nat
    BY <1>3, <1>5
  <2> QED
    BY <1>2, <1>3, <1>4, <1>5, <2>1, <2>2, <2>3, <2>4, <2>5, PsInsideKeeps
<1>6. ASSUME NEW path \in PsFound(psDo[o].path), NEW label \in PsDone,
             psStamp' = psStamp + 1, psPc' = [psPc EXCEPT ![o] = label],
             psFile' = [psFile EXCEPT ![path] = PsAppended(o, path)],
             PsForgotten(path) \/ psPrint' = psPrint
      PROVE  PsInv'
  <2> DEFINE file == PsAppended(o, path)
  <2>1. path \in PsFilesAt /\ path \in PsPaths
    BY DEF PsFound, PsFilesAt
  <2>2. /\ file \in PsFiles /\ file.stamp = psStamp + 1
        /\ file.content \in PsContents /\ file.local = psFile[path].local \cup {o}
    BY <2>1, PsAppending
  <2> HIDE DEF file
  <2>3. /\ psFile' \in [PsPaths -> PsFiles] /\ psFile'[path] = file
        /\ \A other \in PsPaths \ {path} : psFile'[other] = psFile[other]
    BY <1>3, <1>6, <2>1, <2>2 DEF file
  <2>4. PsFilesAt' = PsFilesAt
    <3>1. file # PsNoFile
      BY <1>3, <2>2, PsNoFiles
    <3> QED
      BY <2>1, <2>3, <3>1 DEF PsFilesAt
  <2>5. PsLocals \subseteq PsLocals' /\ o \in PsLocals'
    <3>1. ASSUME NEW other \in PsFilesAt PROVE psFile[other].local \subseteq psFile'[other].local
      <4>1. CASE other = path
        BY <2>2, <2>3, <4>1
      <4>2. CASE other # path
        BY <2>3, <4>2 DEF PsFilesAt
      <4> QED
        BY <4>1, <4>2
    <3>2. o \in psFile'[path].local
      BY <2>2, <2>3
    <3> QED
      BY <2>1, <2>4, <3>1, <3>2 DEF PsLocals, PsLocalsOf
  <2>6. psPrint' \in [PsPaths -> PsFiles] /\ \A other \in PsPaths : psPrint'[other] \in {psPrint[other], PsNoFile}
    BY <1>3, <1>6, <2>1, PsNoFiles DEF PsForgotten
  <2>7. PsFilesInv'
    <3>1. ASSUME NEW other \in PsFilesAt
          PROVE  psFile'[other].stamp \in 1..(psStamp + 1) /\ psFile'[other].content \in PsContents
      <4>0. psStamp \in Nat
        BY <1>3
      <4>1. CASE other = path
        <5>1. psFile'[other] = file
          BY <2>3, <4>1
        <5> QED
          BY <4>0, <2>2, <5>1
      <4>2. CASE other # path
        <5>1. psFile'[other] = psFile[other]
          BY <2>3, <4>2 DEF PsFilesAt
        <5>2. psFile[other].stamp \in 1..psStamp /\ psFile[other].content \in PsContents
          BY DEF PsInv, PsFilesInv
        <5> QED
          BY <4>0, <5>1, <5>2
      <4> QED
        BY <4>1, <4>2
    <3>2. ASSUME NEW other \in PsPaths
          PROVE  /\ psPrint'[other].stamp <= psStamp + 1
                 /\ other \in PsFilesAt /\ psPrint'[other].stamp = psFile'[other].stamp => psPrint'[other] = psFile'[other]
      <4>0. psStamp \in Nat
        BY <1>3
      <4>9. psPrint'[other] = psPrint[other] \/ psPrint'[other] = PsNoFile
        BY <2>6
      <4>8. psPrint[other].stamp \in Nat /\ psPrint[other].stamp <= psStamp
        BY PsFileFields
      <4>7. PsNoFile.stamp = 0
        BY PsNoFiles
      <4>1. psPrint'[other].stamp \in Nat /\ psPrint'[other].stamp <= psStamp
        BY <4>0, <4>7, <4>8, <4>9
      <4>2. CASE other = path
        <5>1. psFile'[other].stamp = psStamp + 1
          BY <2>2, <2>3, <4>2
        <5> QED
          BY <4>0, <4>1, <5>1
      <4>3. CASE other # path
        <5>1. psFile'[other] = psFile[other]
          BY <2>3, <4>3
        <5>2. other \in PsFilesAt => psFile[other].stamp # 0
          <6>1. other \in PsFilesAt => psFile[other].stamp \in 1..psStamp
            BY DEF PsInv, PsFilesInv
          <6> QED
            BY <4>0, <6>1
        <5>3. other \in PsFilesAt /\ psPrint[other].stamp = psFile[other].stamp => psPrint[other] = psFile[other]
          BY DEF PsInv, PsFilesInv
        <5> QED
          BY <4>0, <4>1, <4>7, <4>9, <5>1, <5>2, <5>3
      <4> QED
        BY <4>2, <4>3
    <3> QED
      BY <1>6, <2>4, <3>1, <3>2 DEF PsFilesInv
  <2>8. psPc'[o] = label /\ label \in PsHeldAt
    BY <1>3, <1>6 DEF PsHeldAt, PsDone
  <2>9. PsKnows(o)'
    BY <2>8 DEF PsKnows, PsDone
  <2>10. psStamp' \in Nat
    <3>1. psStamp \in Nat /\ psStamp' = psStamp + 1
      BY <1>3, <1>6
    <3> QED
      BY <3>1
  <2> QED
    BY <1>2, <1>3, <1>4, <1>6, <2>3, <2>5, <2>6, <2>7, <2>8, <2>9, <2>10, PsInsideKeeps DEF PsDone
<1>7. ASSUME NEW path \in PsFound(psDo[o].path),
             psFile' = [psFile EXCEPT ![path].local = @ \cup {o}, ![path].stamp = psStamp + 1]
      PROVE  psFile' = [psFile EXCEPT ![path] = PsAppended(o, path)]
  <2>1. path \in PsFilesAt
    BY DEF PsFound, PsFilesAt
  <2> QED
    BY <1>7, <2>1, PsAppending
<1> QED
  BY <1>1, <1>5, <1>6, <1>7 DEF PsDone

LEMMA PsRemoveKeeps ==
  ASSUME PsInv, NEW o \in PsOps, PsRemove(o)
  PROVE  PsInv'
<1>1. /\ psPc[o] = "remove" /\ UNCHANGED <<psStamp, psLockVars, psDo, psSeen>>
      /\ \/ /\ psDo[o].path \in PsFilesAt /\ psFile' = [psFile EXCEPT ![psDo[o].path] = PsNoFile]
            /\ PsForgotten(psDo[o].path) /\ psRemoved' = TRUE /\ psPc' = [psPc EXCEPT ![o] = "unlock ok"]
         \/ psPc' = [psPc EXCEPT ![o] = "unlock failed"] /\ UNCHANGED <<psFile, psPrint, psRemoved>>
  BY DEF PsRemove, PsAt, PsGoto
<1>2. psDo[o].kind = "remove"
  BY <1>1 DEF PsInv, PsJobInv
<1>3. psPc[o] \in PsHeldAt /\ psPc \in [PsOps -> PsLabels]
  BY <1>1 DEF PsHeldAt, PsInv, PsShape
<1>4. psSeen' \in [PsOps -> PsReads] /\ psStamp' \in Nat /\ UNCHANGED <<psLockVars, psDo>> /\ psRemoved \in BOOLEAN
  BY <1>1 DEF PsInv, PsShape
<1>5. PICK label \in PsDone : psPc' = [psPc EXCEPT ![o] = label]
  BY <1>1 DEF PsDone
<1>6. psPc'[o] = label /\ label \in PsHeldAt
  BY <1>3, <1>5 DEF PsHeldAt, PsWritten, PsDone
<1>7. PsKnows(o)'
  BY <1>6 DEF PsKnows, PsDone
<1>8. CASE /\ psDo[o].path \in PsFilesAt /\ psFile' = [psFile EXCEPT ![psDo[o].path] = PsNoFile]
           /\ PsForgotten(psDo[o].path) /\ psRemoved' = TRUE
  <2>1. psDo[o].path \in PsPaths
    BY <1>8 DEF PsFilesAt
  <2>2. psFile' \in [PsPaths -> PsFiles] /\ psPrint' \in [PsPaths -> PsFiles] /\ PsFilesInv'
    BY <1>1, <1>8, <2>1, PsWithout
  <2>3. psRemoved' \in BOOLEAN /\ psRemoved'
    BY <1>8
  <2> QED
    BY <1>2, <1>3, <1>4, <1>5, <1>6, <1>7, <2>2, <2>3, PsInsideKeeps DEF PsDone
<1>9. CASE UNCHANGED <<psFile, psPrint, psRemoved>>
  <2>1. PsFilesAt' = PsFilesAt /\ PsLocals' = PsLocals
    BY <1>9 DEF PsFilesAt, PsLocals, PsLocalsOf
  <2>2. PsFilesInv'
    BY <1>1, <1>9, <2>1 DEF PsInv, PsFilesInv
  <2>3. psFile' \in [PsPaths -> PsFiles] /\ psPrint' \in [PsPaths -> PsFiles] /\ psRemoved' \in BOOLEAN /\ (psRemoved => psRemoved')
    BY <1>9 DEF PsInv, PsShape
  <2> QED
    BY <1>2, <1>3, <1>4, <1>5, <1>6, <1>7, <2>1, <2>2, <2>3, PsInsideKeeps DEF PsDone
<1> QED
  BY <1>1, <1>8, <1>9

-----------------------------------------------------------------------------
LEMMA PsKeeps ==
  ASSUME PsInv, [PsNext]_psVars
  PROVE  PsInv'
<1>1. CASE UNCHANGED psVars
  <2>1. UNCHANGED <<psFile, psStamp, psPrint, psEntry, psEntries, psRefs, psHolder, psMine, psPc, psDo, psSeen, psRemoved>>
    BY <1>1 DEF psVars, psDiskVars, psLockVars
  <2>2. PsShape'
    BY <2>1 DEF PsInv, PsShape
  <2>3. PsLockInv'
    BY <2>1 DEF PsInv, PsLockInv, PsUsers, PsCallers
  <2>4. \A o \in PsOps : psPc'[o] = psPc[o] /\ psDo'[o] = psDo[o]
    BY <2>1
  <2> QED
    BY <2>1, <2>2, <2>3, <2>4, PsOutsideKeeps
<1>2. CASE PsNext
  BY <1>2, PsStartKeeps, PsRegisterKeeps, PsAcquireKeeps, PsUnlockKeeps, PsReleaseKeeps, PsScanKeeps, PsWriteKeeps,
     PsRememberKeeps, PsDedupeKeeps, PsAppendKeeps, PsRemoveKeeps, PsCrashKeeps DEF PsNext
<1> QED
  BY <1>1, <1>2

LEMMA PsHolds ==
  ASSUME PsInv
  PROVE  PsTypeOK /\ PsLocalKept
<1>1. PsTypeOK
  <2>1. psEntries <= Cardinality(PsOps)
    <3>1. Cardinality(PsCallers) \in 0..Cardinality(PsOps)
      BY PsSubset DEF PsCallers
    <3> QED
      BY <3>1, PsCounted DEF PsInv, PsLockInv, PsShape
  <2>2. psRefs \in [PsLockIds -> 0..Cardinality(PsOps)]
    <3>1. \A l \in PsLockIds : psRefs[l] \in 0..Cardinality(PsOps)
      BY PsSubset DEF PsInv, PsLockInv, PsUsers
    <3> QED
      BY <3>1 DEF PsInv, PsShape
  <2> QED
    BY <2>1, <2>2 DEF PsTypeOK, PsInv, PsShape, PsFilesInv
<1>2. PsLocalKept
  BY DEF PsInv, PsKeptInv, PsLocalKept, PsLocals, PsLocalsOf, PsAt
<1> QED
  BY <1>1, <1>2

\* The other paths are gone before a Replace succeeds.
LEMMA PsReplacingIsWhole ==
  ASSUME PsInv, [PsNext]_psVars
  PROVE  PsReplacedWhole
<1> SUFFICES ASSUME NEW o \in PsOps, psDo[o].kind = "replace", psPc[o] = "dedupe", psPc'[o] = "unlock ok"
             PROVE  /\ psFile'[psDo[o].path].content = psDo[o].content
                    /\ \A path \in PsPaths \ {psDo[o].path} : psFile'[path] = PsNoFile
  BY DEF PsReplacedWhole, PsAt
<1>1. PsNext
  BY DEF psVars
<1>2. psPc \in [PsOps -> PsLabels]
  BY DEF PsInv, PsShape
<1>3. ~PsCrash
  BY DEF PsCrash
<1>4. ASSUME NEW r \in PsOps, r # o,
             \/ \E job \in PsJobs : PsStart(r, job)
             \/ PsRegister(r) \/ PsAcquire(r) \/ PsUnlock(r) \/ PsRelease(r)
             \/ PsScan(r) \/ PsWrite(r) \/ PsRemember(r) \/ PsDedupe(r) \/ PsAppend(r) \/ PsRemove(r)
      PROVE  FALSE
  <2>1. \E label : psPc' = [psPc EXCEPT ![r] = label]
    <3>1. psPc' = psPc => psPc' = [psPc EXCEPT ![r] = psPc[r]]
      BY <1>2
    <3> QED
      BY <1>4, <3>1 DEF PsStart, PsRegister, PsAcquire, PsUnlock, PsRelease, PsScan, PsWrite, PsRemember,
                        PsDedupe, PsAppend, PsRemove, PsGoto
  <2> QED
    BY <1>2, <1>4, <2>1
<1>5. PsDedupe(o)
  <2>1. \/ \E job \in PsJobs : PsStart(o, job)
        \/ PsRegister(o) \/ PsAcquire(o) \/ PsUnlock(o) \/ PsRelease(o)
        \/ PsScan(o) \/ PsWrite(o) \/ PsRemember(o) \/ PsDedupe(o) \/ PsAppend(o) \/ PsRemove(o)
    BY <1>1, <1>3, <1>4 DEF PsNext
  <2> QED
    BY <2>1 DEF PsStart, PsRegister, PsAcquire, PsUnlock, PsRelease, PsScan, PsWrite, PsRemember, PsAppend, PsRemove,
                PsAt
<1>6. (psSeen[o].paths \ {psDo[o].path}) \cap PsFilesAt = {} /\ psFile' = psFile
  BY <1>2, <1>5 DEF PsDedupe, PsGoto
<1>7. /\ PsFilesAt \subseteq psSeen[o].paths \cup {psDo[o].path}
      /\ psFile[psDo[o].path].content = psDo[o].content
  BY DEF PsInv, PsReplaceInv, PsKnows
<1> QED
  BY <1>6, <1>7 DEF PsFilesAt

-----------------------------------------------------------------------------
(* The OpenCode child: who started it and who will stop it.                *)

OsRuns == {"off", "top", "launch", "known", "health", "connect", "reconcile", "check", "up", "publish",
           "serving", "ended", "stopping", "notLaunched", "launchBackoff", "backoff", "done"}

\* run knows the child it has started.
OsWithChild == {"health", "connect", "reconcile", "check", "up", "publish", "serving", "ended", "stopping"}
\* It got there while the supervisor was open, so that Close has read the process too.
OsSeenByClose ==
  {"connect", "reconcile", "check", "up", "publish", "serving", "ended"}

\* run has a child that may live.
OsLiving == {"known", "health", "connect", "reconcile", "check", "up", "publish", "serving"}

OsShape ==
  /\ osStarted \in BOOLEAN /\ osClosed \in BOOLEAN /\ osAlive \in BOOLEAN /\ osStable \in BOOLEAN
  /\ osProcess \in Nat /\ osLaunched \in Nat /\ osCaptured \in Nat /\ osAvailable \in Nat
  /\ osProcess <= osLaunched /\ osCaptured <= osLaunched /\ osLaunched <= OsMaxLaunches
  /\ osStream \in {"off", "open", "ended"}
  /\ osRun \in OsRuns
  /\ osFailures \in Nat
  /\ osInitial \in {<<>>, <<"ok">>, <<"error">>}
  /\ osClose \in {"idle", "kill", "wait", "done"}

\* A child that lives belongs to run, or to a Close that has yet to kill it.
OsChildInv ==
  /\ osClosed <=> osClose # "idle"
  /\ osStarted <=> osRun # "off"
  /\ osRun \in OsWithChild => osProcess = osLaunched /\ osLaunched > 0
  /\ osClosed /\ osRun \in OsSeenByClose => osCaptured = osLaunched
  /\ osAlive => osRun \in OsLiving \/ (osRun \in {"ended", "done"} /\ osClosed /\ osCaptured = osLaunched)
  /\ osAlive \/ osRun = "known" => osLaunched > 0
  /\ osClose \in {"wait", "done"} /\ osCaptured = osLaunched => ~osAlive
  /\ osClose = "done" => osRun \in {"off", "done"}

\* run goes on only below the limit, and has answered Start once it serves or ends.
OsAnswerInv ==
  /\ osFailures <= OsMaxAttempts
  /\ osRun # "done" => osFailures < OsMaxAttempts
  /\ osRun \in {"serving", "ended", "stopping", "backoff", "done"} => osInitial # <<>>

\* The last value a subscriber was sent is the last publication, or the first value
\* that publications have overtaken.
OsNewsInv ==
  /\ osSub \in [OsSubscribers -> {"none", "first", "firstClosed", "open", "closed", "panic", "gone"}]
  /\ osChan \in [OsSubscribers -> Seq(Nat)]
  /\ osFirst \in [OsSubscribers -> Nat] /\ osSeen \in [OsSubscribers -> Nat]
  /\ \A s \in OsSubscribers :
       /\ Len(osChan[s]) <= OsChanCap
       /\ osSub[s] = "open" =>
            IF osChan[s] = <<>> THEN osSeen[s] \in {osAvailable, osFirst[s]}
            ELSE osChan[s][Len(osChan[s])] \in {osAvailable, osFirst[s]}

OsInv == OsShape /\ OsChildInv /\ OsAnswerInv /\ OsNewsInv
-----------------------------------------------------------------------------
LEMMA OsStarts == OsInit => OsInv
<1> SUFFICES ASSUME OsInit PROVE OsInv
  OBVIOUS
<1>1. OsShape
  <2>1. osProcess <= osLaunched /\ osCaptured <= osLaunched /\ osLaunched <= OsMaxLaunches
    BY OsConstants DEF OsInit
  <2>2. osRun \in OsRuns
    BY DEF OsInit, OsRuns
  <2> QED
    BY <2>1, <2>2 DEF OsInit, OsShape
<1>0. OsChildInv
  BY DEF OsInit, OsChildInv, OsWithChild, OsLiving, OsSeenByClose
<1>2. OsAnswerInv
  BY OsConstants DEF OsInit, OsAnswerInv
<1>3. OsNewsInv
  BY OsConstants DEF OsInit, OsNewsInv
<1> QED
  BY <1>0, <1>1, <1>2, <1>3 DEF OsInv

OsSubscription ==
  \E s \in OsSubscribers : OsSubscribe(s) \/ OsSendFirst(s) \/ OsTake(s) \/ OsUnsubscribe(s)

LEMMA OsShapeKeeps ==
  ASSUME OsShape, OsChildInv, OsAnswerInv, OsNext
  PROVE  OsShape'
<1> USE OsConstants DEF OsShape, OsRuns, osServerVars, osLoopVars, osCallVars, osSubVars, osNewsVars
<1>1. CASE OsChildExits
  <2>1. osAlive' \in BOOLEAN /\ osStream' \in {"off", "open", "ended"}
    BY <1>1 DEF OsChildExits
  <2> QED
    BY <1>1, <2>1 DEF OsChildExits
<1>2. CASE OsStreamEnds
  BY <1>2 DEF OsStreamEnds
<1>3. CASE OsStart
  BY <1>3 DEF OsStart
<1>4. CASE OsStarted
  BY <1>4 DEF OsStarted
<1>5. CASE OsTop
  BY <1>5 DEF OsTop, OsSendInitial
<1>6. CASE OsLaunch
  <2>1. osRun' \in OsRuns
    BY <1>6 DEF OsLaunch, OsPublish, OsSendInitial, OsRunAt
  <2>2. osLaunched' \in Nat /\ osProcess' <= osLaunched' /\ osCaptured' <= osLaunched' /\ osLaunched' <= OsMaxLaunches
    BY <1>6 DEF OsLaunch, OsPublish, OsSendInitial, OsRunAt
  <2>3. osAvailable' \in Nat /\ osInitial' \in {<<>>, <<"ok">>, <<"error">>}
    BY <1>6 DEF OsLaunch, OsPublish, OsSendInitial, OsRunAt
  <2>4. osStream' \in {"off", "open", "ended"} /\ osAlive' \in BOOLEAN
    BY <1>6 DEF OsLaunch, OsPublish, OsSendInitial, OsRunAt
  <2> QED
    BY <1>6, <2>1, <2>2, <2>3, <2>4 DEF OsLaunch, OsPublish, OsSendInitial, OsRunAt
<1>7. CASE OsKnown
  BY <1>7 DEF OsKnown, OsRunAt
<1>8. CASE OsHealth
  BY <1>8 DEF OsHealth, OsGiveUp, OsKill
<1>9. CASE OsConnect
  BY <1>9 DEF OsConnect, OsGiveUp, OsKill
<1>10. CASE OsReconcile
  BY <1>10 DEF OsReconcile, OsGiveUp, OsKill
<1>11. CASE OsCheck
  BY <1>11 DEF OsCheck, OsGiveUp, OsKill
<1>12. CASE OsNotLaunched
  BY <1>12 DEF OsNotLaunched, OsSendInitial, OsPublish
<1>13. CASE OsBackoff
  <2>1. osRun' \in OsRuns
    BY <1>13 DEF OsBackoff
  <2>2. osInitial' \in {<<>>, <<"ok">>, <<"error">>}
    BY <1>13 DEF OsBackoff, OsSendInitial
  <2> QED
    BY <1>13, <2>1, <2>2 DEF OsBackoff
<1>14. CASE OsReady
  BY <1>14 DEF OsReady, OsRunAt
<1>15. CASE OsPublishUp
  <2>1. osRun' \in OsRuns
    BY <1>15 DEF OsPublishUp, OsPublish, OsSendInitial, OsRunAt
  <2>2. osLaunched' \in Nat /\ osProcess' <= osLaunched' /\ osCaptured' <= osLaunched' /\ osLaunched' <= OsMaxLaunches
    BY <1>15 DEF OsPublishUp, OsPublish, OsSendInitial, OsRunAt
  <2>3. osAvailable' \in Nat /\ osInitial' \in {<<>>, <<"ok">>, <<"error">>}
    BY <1>15 DEF OsPublishUp, OsPublish, OsSendInitial, OsRunAt
  <2>4. osStream' \in {"off", "open", "ended"} /\ osAlive' \in BOOLEAN
    BY <1>15 DEF OsPublishUp, OsPublish, OsSendInitial, OsRunAt
  <2> QED
    BY <1>15, <2>1, <2>2, <2>3, <2>4 DEF OsPublishUp, OsPublish, OsSendInitial, OsRunAt
<1>16. CASE OsStabilises
  BY <1>16 DEF OsStabilises
<1>17. CASE OsGenerationEnds
  BY <1>17 DEF OsGenerationEnds, OsKill
<1>18. CASE OsEnded
  BY <1>18 DEF OsEnded, OsPublish
<1>19. CASE OsCloseBegins
  BY <1>19 DEF OsCloseBegins
<1>20. CASE OsCloseKills
  <2>1. osAlive' \in BOOLEAN
    BY <1>20 DEF OsCloseKills, OsKill
  <2>2. osStream' \in {"off", "open", "ended"}
    BY <1>20 DEF OsCloseKills, OsKill
  <2>3. osClose' = "wait"
    BY <1>20 DEF OsCloseKills
  <2> QED
    BY <1>20, <2>1, <2>2, <2>3 DEF OsCloseKills
<1>21. CASE OsCloseEnds
  BY <1>21 DEF OsCloseEnds
<1>22. CASE OsSubscription
  BY <1>22 DEF OsSubscription, OsSubscribe, OsSendFirst, OsTake, OsUnsubscribe
<1> QED
  BY <1>1, <1>2, <1>3, <1>4, <1>5, <1>6, <1>7, <1>8, <1>9, <1>10, <1>11, <1>12, <1>13, <1>14, <1>15, <1>16, <1>17, <1>18, <1>19, <1>20, <1>21, <1>22 DEF OsNext, OsSubscription

LEMMA OsChildKeeps ==
  ASSUME OsShape, OsChildInv, OsAnswerInv, OsNext
  PROVE  OsChildInv'
<1> USE OsConstants DEF OsShape, OsChildInv, OsRuns, OsWithChild, OsLiving, OsSeenByClose, osServerVars, osLoopVars, osCallVars, osSubVars, osNewsVars
<1>1. CASE OsChildExits
  BY <1>1 DEF OsChildExits
<1>2. CASE OsStreamEnds
  BY <1>2 DEF OsStreamEnds
<1>3. CASE OsStart
  BY <1>3 DEF OsStart
<1>4. CASE OsStarted
  BY <1>4 DEF OsStarted
<1>5. CASE OsTop
  BY <1>5 DEF OsTop, OsSendInitial
<1>6. CASE OsLaunch
  <2>1. (osClosed <=> osClose # "idle")' /\ (osStarted <=> osRun # "off")' /\ (osAlive \/ osRun = "known" => osLaunched > 0)'
    BY <1>6 DEF OsLaunch, OsKill, OsRunAt, OsGiveUp
  <2>2. (osRun \in OsWithChild => osProcess = osLaunched /\ osLaunched > 0)'
    BY <1>6 DEF OsLaunch, OsKill, OsRunAt, OsGiveUp
  <2>3. (osClosed /\ osRun \in OsSeenByClose => osCaptured = osLaunched)'
    BY <1>6 DEF OsLaunch, OsKill, OsRunAt, OsGiveUp
  <2>4. (osAlive => osRun \in OsLiving \/ (osRun \in {"ended", "done"} /\ osClosed /\ osCaptured = osLaunched))'
    BY <1>6 DEF OsLaunch, OsKill, OsRunAt, OsGiveUp
  <2>5. (osClose \in {"wait", "done"} /\ osCaptured = osLaunched => ~osAlive)'
    BY <1>6 DEF OsLaunch, OsKill, OsRunAt, OsGiveUp
  <2>6. (osClose = "done" => osRun \in {"off", "done"})'
    BY <1>6 DEF OsLaunch, OsKill, OsRunAt, OsGiveUp
  <2> QED
    BY <2>1, <2>2, <2>3, <2>4, <2>5, <2>6
<1>7. CASE OsKnown
  <2>1. (osClosed <=> osClose # "idle")' /\ (osStarted <=> osRun # "off")' /\ (osAlive \/ osRun = "known" => osLaunched > 0)'
    BY <1>7 DEF OsKnown, OsKill, OsRunAt, OsGiveUp
  <2>2. (osRun \in OsWithChild => osProcess = osLaunched /\ osLaunched > 0)'
    BY <1>7 DEF OsKnown, OsKill, OsRunAt, OsGiveUp
  <2>3. (osClosed /\ osRun \in OsSeenByClose => osCaptured = osLaunched)'
    BY <1>7 DEF OsKnown, OsKill, OsRunAt, OsGiveUp
  <2>4. (osAlive => osRun \in OsLiving \/ (osRun \in {"ended", "done"} /\ osClosed /\ osCaptured = osLaunched))'
    BY <1>7 DEF OsKnown, OsKill, OsRunAt, OsGiveUp
  <2>5. (osClose \in {"wait", "done"} /\ osCaptured = osLaunched => ~osAlive)'
    BY <1>7 DEF OsKnown, OsKill, OsRunAt, OsGiveUp
  <2>6. (osClose = "done" => osRun \in {"off", "done"})'
    BY <1>7 DEF OsKnown, OsKill, OsRunAt, OsGiveUp
  <2> QED
    BY <2>1, <2>2, <2>3, <2>4, <2>5, <2>6
<1>8. CASE OsHealth
  BY <1>8 DEF OsHealth, OsGiveUp, OsKill
<1>9. CASE OsConnect
  BY <1>9 DEF OsConnect, OsGiveUp, OsKill
<1>10. CASE OsReconcile
  <2>1. (osClosed <=> osClose # "idle")' /\ (osStarted <=> osRun # "off")' /\ (osAlive \/ osRun = "known" => osLaunched > 0)'
    BY <1>10 DEF OsReconcile, OsKill, OsRunAt, OsGiveUp
  <2>2. (osRun \in OsWithChild => osProcess = osLaunched /\ osLaunched > 0)'
    BY <1>10 DEF OsReconcile, OsKill, OsRunAt, OsGiveUp
  <2>3. (osClosed /\ osRun \in OsSeenByClose => osCaptured = osLaunched)'
    BY <1>10 DEF OsReconcile, OsKill, OsRunAt, OsGiveUp
  <2>4. (osAlive => osRun \in OsLiving \/ (osRun \in {"ended", "done"} /\ osClosed /\ osCaptured = osLaunched))'
    BY <1>10 DEF OsReconcile, OsKill, OsRunAt, OsGiveUp
  <2>5. (osClose \in {"wait", "done"} /\ osCaptured = osLaunched => ~osAlive)'
    BY <1>10 DEF OsReconcile, OsKill, OsRunAt, OsGiveUp
  <2>6. (osClose = "done" => osRun \in {"off", "done"})'
    BY <1>10 DEF OsReconcile, OsKill, OsRunAt, OsGiveUp
  <2> QED
    BY <2>1, <2>2, <2>3, <2>4, <2>5, <2>6
<1>11. CASE OsCheck
  BY <1>11 DEF OsCheck, OsGiveUp, OsKill
<1>12. CASE OsNotLaunched
  BY <1>12 DEF OsNotLaunched, OsSendInitial, OsPublish
<1>13. CASE OsBackoff
  BY <1>13 DEF OsBackoff, OsSendInitial
<1>14. CASE OsReady
  BY <1>14 DEF OsReady, OsRunAt
<1>15. CASE OsPublishUp
  BY <1>15 DEF OsPublishUp, OsRunAt, OsSendInitial, OsPublish
<1>16. CASE OsStabilises
  BY <1>16 DEF OsStabilises
<1>17. CASE OsGenerationEnds
  <2>1. (osClosed <=> osClose # "idle")' /\ (osStarted <=> osRun # "off")' /\ (osAlive \/ osRun = "known" => osLaunched > 0)'
    BY <1>17 DEF OsGenerationEnds, OsKill, OsRunAt, OsGiveUp
  <2>2. (osRun \in OsWithChild => osProcess = osLaunched /\ osLaunched > 0)'
    BY <1>17 DEF OsGenerationEnds, OsKill, OsRunAt, OsGiveUp
  <2>3. (osClosed /\ osRun \in OsSeenByClose => osCaptured = osLaunched)'
    BY <1>17 DEF OsGenerationEnds, OsKill, OsRunAt, OsGiveUp
  <2>4. (osAlive => osRun \in OsLiving \/ (osRun \in {"ended", "done"} /\ osClosed /\ osCaptured = osLaunched))'
    BY <1>17 DEF OsGenerationEnds, OsKill, OsRunAt, OsGiveUp
  <2>5. (osClose \in {"wait", "done"} /\ osCaptured = osLaunched => ~osAlive)'
    BY <1>17 DEF OsGenerationEnds, OsKill, OsRunAt, OsGiveUp
  <2>6. (osClose = "done" => osRun \in {"off", "done"})'
    BY <1>17 DEF OsGenerationEnds, OsKill, OsRunAt, OsGiveUp
  <2> QED
    BY <2>1, <2>2, <2>3, <2>4, <2>5, <2>6
<1>18. CASE OsEnded
  BY <1>18 DEF OsEnded, OsPublish
<1>19. CASE OsCloseBegins
  BY <1>19 DEF OsCloseBegins
<1>20. CASE OsCloseKills
  <2>1. (osClosed <=> osClose # "idle")' /\ (osStarted <=> osRun # "off")' /\ (osAlive \/ osRun = "known" => osLaunched > 0)'
    BY <1>20 DEF OsCloseKills, OsKill, OsRunAt, OsGiveUp
  <2>2. (osRun \in OsWithChild => osProcess = osLaunched /\ osLaunched > 0)'
    BY <1>20 DEF OsCloseKills, OsKill, OsRunAt, OsGiveUp
  <2>3. (osClosed /\ osRun \in OsSeenByClose => osCaptured = osLaunched)'
    BY <1>20 DEF OsCloseKills, OsKill, OsRunAt, OsGiveUp
  <2>4. (osAlive => osRun \in OsLiving \/ (osRun \in {"ended", "done"} /\ osClosed /\ osCaptured = osLaunched))'
    BY <1>20 DEF OsCloseKills, OsKill, OsRunAt, OsGiveUp
  <2>5. (osClose \in {"wait", "done"} /\ osCaptured = osLaunched => ~osAlive)'
    <3>1. osCaptured' = osCaptured /\ osLaunched' = osLaunched
      BY <1>20 DEF OsCloseKills
    <3>2. osCaptured = osLaunched => ~osAlive'
      <4>1. CASE osCaptured = 0
        BY <1>20, <4>1 DEF OsCloseKills
      <4>2. CASE osCaptured # 0
        BY <1>20, <4>2 DEF OsCloseKills, OsKill
      <4> QED
        BY <4>1, <4>2
    <3> QED
      BY <3>1, <3>2
  <2>6. (osClose = "done" => osRun \in {"off", "done"})'
    BY <1>20 DEF OsCloseKills, OsKill, OsRunAt, OsGiveUp
  <2> QED
    BY <2>1, <2>2, <2>3, <2>4, <2>5, <2>6
<1>21. CASE OsCloseEnds
  BY <1>21 DEF OsCloseEnds
<1>22. CASE OsSubscription
  BY <1>22 DEF OsSubscription, OsSubscribe, OsSendFirst, OsTake, OsUnsubscribe
<1> QED
  BY <1>1, <1>2, <1>3, <1>4, <1>5, <1>6, <1>7, <1>8, <1>9, <1>10, <1>11, <1>12, <1>13, <1>14, <1>15, <1>16, <1>17, <1>18, <1>19, <1>20, <1>21, <1>22 DEF OsNext, OsSubscription

LEMMA OsAnswerKeeps ==
  ASSUME OsShape, OsChildInv, OsAnswerInv, OsNext
  PROVE  OsAnswerInv'
<1> USE OsConstants DEF OsShape, OsAnswerInv, OsRuns, osServerVars, osLoopVars, osCallVars, osSubVars, osNewsVars
<1>1. CASE OsChildExits
  BY <1>1 DEF OsChildExits
<1>2. CASE OsStreamEnds
  BY <1>2 DEF OsStreamEnds
<1>3. CASE OsStart
  <2>1. osFailures < OsMaxAttempts /\ osFailures' = osFailures
    BY <1>3 DEF OsStart, OsChildInv
  <2>2. osRun' = "top"
    BY <1>3 DEF OsStart
  <2> QED
    BY <2>1, <2>2
<1>4. CASE OsStarted
  BY <1>4 DEF OsStarted
<1>5. CASE OsTop
  BY <1>5 DEF OsTop, OsSendInitial
<1>6. CASE OsLaunch
  BY <1>6 DEF OsLaunch
<1>7. CASE OsKnown
  BY <1>7 DEF OsKnown, OsRunAt
<1>8. CASE OsHealth
  BY <1>8 DEF OsHealth, OsGiveUp, OsKill
<1>9. CASE OsConnect
  BY <1>9 DEF OsConnect, OsGiveUp, OsKill
<1>10. CASE OsReconcile
  BY <1>10 DEF OsReconcile, OsGiveUp, OsKill
<1>11. CASE OsCheck
  BY <1>11 DEF OsCheck, OsGiveUp, OsKill
<1>12. CASE OsNotLaunched
  BY <1>12 DEF OsNotLaunched, OsSendInitial, OsPublish
<1>13. CASE OsBackoff
  BY <1>13 DEF OsBackoff, OsSendInitial
<1>14. CASE OsReady
  BY <1>14 DEF OsReady, OsRunAt
<1>15. CASE OsPublishUp
  BY <1>15 DEF OsPublishUp, OsRunAt, OsSendInitial, OsPublish
<1>16. CASE OsStabilises
  BY <1>16 DEF OsStabilises
<1>17. CASE OsGenerationEnds
  BY <1>17 DEF OsGenerationEnds, OsKill
<1>18. CASE OsEnded
  BY <1>18 DEF OsEnded, OsPublish
<1>19. CASE OsCloseBegins
  BY <1>19 DEF OsCloseBegins
<1>20. CASE OsCloseKills
  BY <1>20 DEF OsCloseKills, OsKill
<1>21. CASE OsCloseEnds
  BY <1>21 DEF OsCloseEnds
<1>22. CASE OsSubscription
  BY <1>22 DEF OsSubscription, OsSubscribe, OsSendFirst, OsTake, OsUnsubscribe
<1> QED
  BY <1>1, <1>2, <1>3, <1>4, <1>5, <1>6, <1>7, <1>8, <1>9, <1>10, <1>11, <1>12, <1>13, <1>14, <1>15, <1>16, <1>17, <1>18, <1>19, <1>20, <1>21, <1>22 DEF OsNext, OsSubscription

\* What publishing leaves in a channel: the news last, and never more than fits.
LEMMA OsPublishedTo ==
  ASSUME NEW queue \in Seq(Nat), Len(queue) <= OsChanCap, NEW news \in Nat
  PROVE  LET sent == OsPublishTo(queue, news) IN
         sent \in Seq(Nat) /\ sent # <<>> /\ Len(sent) <= OsChanCap /\ sent[Len(sent)] = news
<1> USE OsConstants DEF OsPublishTo
<1>1. CASE Len(queue) < OsChanCap
  BY <1>1
<1>2. CASE ~(Len(queue) < OsChanCap)
  <2>1. queue # <<>>
    BY <1>2
  <2> QED
    BY <1>2, <2>1
<1> QED
  BY <1>1, <1>2

LEMMA OsPublishKeeps ==
  ASSUME OsShape, OsNewsInv, NEW up, OsPublish(up)
  PROVE  OsNewsInv'
<1>1. osAvailable + 1 \in Nat
  BY DEF OsShape
<1>2. osChan' = [s \in OsSubscribers |->
                   IF osSub[s] \in {"first", "open"} THEN OsPublishTo(osChan[s], osAvailable + 1) ELSE osChan[s]]
      /\ UNCHANGED <<osSub, osFirst, osSeen>> /\ osAvailable' = osAvailable + 1
  BY DEF OsPublish
<1>3. ASSUME NEW s \in OsSubscribers
      PROVE  /\ osChan'[s] \in Seq(Nat) /\ Len(osChan'[s]) <= OsChanCap
             /\ osSub[s] = "open" => osChan'[s] # <<>> /\ osChan'[s][Len(osChan'[s])] = osAvailable'
  <2>1. osChan[s] \in Seq(Nat) /\ Len(osChan[s]) <= OsChanCap
    BY DEF OsNewsInv
  <2>2. CASE osSub[s] \in {"first", "open"}
    BY <1>1, <1>2, <2>1, <2>2, OsPublishedTo
  <2>3. CASE osSub[s] \notin {"first", "open"}
    BY <1>2, <2>1, <2>3
  <2> QED
    BY <2>2, <2>3
<1> QED
  BY <1>2, <1>3 DEF OsNewsInv

LEMMA OsNewsKeeps ==
  ASSUME OsShape, OsNewsInv, OsNext
  PROVE  OsNewsInv'
<1> USE DEF osSubVars, osNewsVars
<1>1. CASE OsChildExits
  BY <1>1 DEF OsNewsInv, OsChildExits
<1>2. CASE OsStreamEnds
  BY <1>2 DEF OsNewsInv, OsStreamEnds
<1>3. CASE OsStart
  BY <1>3 DEF OsNewsInv, OsStart
<1>4. CASE OsStarted
  BY <1>4 DEF OsNewsInv, OsStarted
<1>5. CASE OsTop
  BY <1>5 DEF OsNewsInv, OsTop
<1>6. CASE OsLaunch
  BY <1>6 DEF OsNewsInv, OsLaunch
<1>7. CASE OsKnown
  BY <1>7 DEF OsNewsInv, OsKnown
<1>8. CASE OsHealth
  BY <1>8 DEF OsNewsInv, OsHealth
<1>9. CASE OsConnect
  BY <1>9 DEF OsNewsInv, OsConnect
<1>10. CASE OsReconcile
  BY <1>10 DEF OsNewsInv, OsReconcile
<1>11. CASE OsCheck
  BY <1>11 DEF OsNewsInv, OsCheck
<1>12. CASE OsBackoff
  BY <1>12 DEF OsNewsInv, OsBackoff
<1>13. CASE OsReady
  BY <1>13 DEF OsNewsInv, OsReady
<1>14. CASE OsStabilises
  BY <1>14 DEF OsNewsInv, OsStabilises
<1>15. CASE OsGenerationEnds
  BY <1>15 DEF OsNewsInv, OsGenerationEnds
<1>16. CASE OsCloseBegins
  BY <1>16 DEF OsNewsInv, OsCloseBegins
<1>17. CASE OsCloseKills
  BY <1>17 DEF OsNewsInv, OsCloseKills
<1>18. CASE OsNotLaunched \/ OsPublishUp
  BY <1>18, OsPublishKeeps DEF OsNotLaunched, OsPublishUp
<1>19. CASE OsEnded
  <2>1. CASE osClosed
    BY <1>19, <2>1 DEF OsEnded, OsNewsInv
  <2>2. CASE ~osClosed
    BY <1>19, <2>2, OsPublishKeeps DEF OsEnded
  <2> QED
    BY <2>1, <2>2
<1>20. CASE OsCloseEnds
  <2>1. /\ osSub' \in [OsSubscribers -> {"none", "first", "firstClosed", "open", "closed", "panic", "gone"}]
        /\ \A s \in OsSubscribers : osSub'[s] # "open"
    BY <1>20 DEF OsCloseEnds, OsNewsInv
  <2>2. UNCHANGED <<osChan, osFirst, osSeen>>
    BY <1>20 DEF OsCloseEnds
  <2> QED
    BY <2>1, <2>2 DEF OsNewsInv
<1>21. ASSUME NEW s \in OsSubscribers, OsSubscribe(s) PROVE OsNewsInv'
  BY <1>21 DEF OsSubscribe, OsNewsInv, OsShape
<1>22. ASSUME NEW s \in OsSubscribers, OsSendFirst(s) PROVE OsNewsInv'
  <2>1. CASE osSub[s] = "first" /\ Len(osChan[s]) < OsChanCap
    <3>1. osChan' = [osChan EXCEPT ![s] = Append(@, osFirst[s])] /\ osSub' = [osSub EXCEPT ![s] = "open"]
          /\ UNCHANGED <<osFirst, osSeen, osAvailable>>
      BY <1>22, <2>1 DEF OsSendFirst
    <3>2. osChan[s] \in Seq(Nat) /\ osFirst[s] \in Nat
      BY DEF OsNewsInv
    <3> DEFINE sent == Append(osChan[s], osFirst[s])
    <3>3. sent \in Seq(Nat) /\ sent # <<>> /\ Len(sent) <= OsChanCap /\ sent[Len(sent)] = osFirst[s]
      BY <2>1, <3>2, OsConstants
    <3>4. osChan' = [osChan EXCEPT ![s] = sent]
      BY <3>1
    <3> HIDE DEF sent
    <3> QED
      BY <3>1, <3>3, <3>4 DEF OsNewsInv
  <2>2. CASE osSub[s] = "firstClosed"
    BY <1>22, <2>2 DEF OsSendFirst, OsNewsInv
  <2> QED
    BY <1>22, <2>1, <2>2 DEF OsSendFirst
<1>23. ASSUME NEW s \in OsSubscribers, OsTake(s) PROVE OsNewsInv'
  <2>1. /\ osChan' = [osChan EXCEPT ![s] = Tail(@)] /\ osSeen' = [osSeen EXCEPT ![s] = Head(osChan[s])]
        /\ UNCHANGED <<osSub, osFirst, osAvailable>> /\ osChan[s] # <<>>
    BY <1>23 DEF OsTake
  <2> DEFINE queue == osChan[s]
  <2>2. queue \in Seq(Nat) /\ queue # <<>> /\ Len(queue) <= OsChanCap
    BY <2>1 DEF OsNewsInv
  <2>3. /\ Tail(queue) \in Seq(Nat) /\ Len(Tail(queue)) <= OsChanCap /\ Head(queue) \in Nat
        /\ Tail(queue) = <<>> => Head(queue) = queue[Len(queue)]
        /\ Tail(queue) # <<>> => Tail(queue)[Len(Tail(queue))] = queue[Len(queue)]
    <3>1. Len(queue) \in Nat /\ Len(queue) > 0
      BY <2>2
    <3>2. Tail(queue) \in Seq(Nat) /\ Len(Tail(queue)) = Len(queue) - 1 /\ Head(queue) = queue[1] /\ queue[1] \in Nat
      BY <2>2, <3>1
    <3>3. \A i \in 1..(Len(queue) - 1) : Tail(queue)[i] = queue[i + 1]
      BY <2>2, <3>1
    <3>4. ASSUME Tail(queue) = <<>> PROVE Len(queue) = 1
      <4>1. Len(<<>>) = 0
        OBVIOUS
      <4>2. Len(Tail(queue)) = 0
        BY <3>4, <4>1
      <4> DEFINE n == Len(queue)
                 m == Len(Tail(queue))
      <4>3. n \in Nat /\ m = n - 1 /\ m = 0
        BY <3>1, <3>2, <4>2
      <4> HIDE DEF n, m
      <4>4. n = 1
        BY <4>3
      <4> QED
        BY <4>4 DEF n
    <3>5. ASSUME Tail(queue) # <<>> PROVE Len(queue) - 1 \in 1..(Len(queue) - 1)
      BY <3>1, <3>2, <3>5
    <3>6. Tail(queue) # <<>> => Tail(queue)[Len(Tail(queue))] = queue[Len(queue)]
      BY <3>1, <3>2, <3>3, <3>5
    <3> HIDE DEF queue
    <3> QED
      BY <2>2, <3>1, <3>2, <3>4, <3>6, OsConstants
  <2>4. osSub[s] = "open" => queue[Len(queue)] \in {osAvailable, osFirst[s]}
    BY <2>2 DEF OsNewsInv
  <2> DEFINE rest == Tail(queue)
             first == Head(queue)
             last == queue[Len(queue)]
  <2>5. osChan' = [osChan EXCEPT ![s] = rest] /\ osSeen' = [osSeen EXCEPT ![s] = first]
    BY <2>1
  <2>6. /\ rest \in Seq(Nat) /\ Len(rest) <= OsChanCap /\ first \in Nat
        /\ rest = <<>> => first = last
        /\ rest # <<>> => rest[Len(rest)] = last
        /\ osSub[s] = "open" => last \in {osAvailable, osFirst[s]}
    BY <2>3, <2>4
  <2> HIDE DEF queue, rest, first, last
  <2>7. /\ osChan' \in [OsSubscribers -> Seq(Nat)] /\ osChan'[s] = rest
        /\ osSeen' \in [OsSubscribers -> Nat] /\ osSeen'[s] = first
        /\ \A r \in OsSubscribers \ {s} : osChan'[r] = osChan[r] /\ osSeen'[r] = osSeen[r]
    BY <2>5, <2>6 DEF OsNewsInv
  <2>8. ASSUME NEW r \in OsSubscribers
        PROVE  /\ Len(osChan'[r]) <= OsChanCap
               /\ osSub'[r] = "open" =>
                    IF osChan'[r] = <<>> THEN osSeen'[r] \in {osAvailable', osFirst'[r]}
                    ELSE osChan'[r][Len(osChan'[r])] \in {osAvailable', osFirst'[r]}
    <3>1. CASE r = s
      BY <2>1, <2>6, <2>7, <3>1
    <3>2. CASE r # s
      BY <2>1, <2>7, <3>2 DEF OsNewsInv
    <3> QED
      BY <3>1, <3>2
  <2> QED
    BY <2>1, <2>7, <2>8 DEF OsNewsInv
<1>24. ASSUME NEW s \in OsSubscribers, OsUnsubscribe(s) PROVE OsNewsInv'
  BY <1>24 DEF OsUnsubscribe, OsNewsInv
<1>25. ASSUME OsChildExits \/ OsStreamEnds \/ OsStart \/ OsStarted \/ OsTop \/ OsLaunch \/ OsKnown PROVE OsNewsInv'
  BY <1>1, <1>2, <1>3, <1>4, <1>5, <1>6, <1>7, <1>25
<1>26. ASSUME OsHealth \/ OsConnect \/ OsReconcile \/ OsCheck \/ OsBackoff \/ OsReady PROVE OsNewsInv'
  BY <1>8, <1>9, <1>10, <1>11, <1>12, <1>13, <1>26
<1>27. ASSUME OsNotLaunched \/ OsPublishUp \/ OsStabilises \/ OsGenerationEnds \/ OsEnded PROVE OsNewsInv'
  BY <1>14, <1>15, <1>18, <1>19, <1>27
<1>28. ASSUME OsCloseBegins \/ OsCloseKills \/ OsCloseEnds PROVE OsNewsInv'
  BY <1>16, <1>17, <1>20, <1>28
<1> QED
  BY <1>21, <1>22, <1>23, <1>24, <1>25, <1>26, <1>27, <1>28 DEF OsNext

LEMMA OsKeeps == OsInv /\ [OsNext]_osVars => OsInv'
<1> SUFFICES ASSUME OsInv, [OsNext]_osVars PROVE OsInv'
  OBVIOUS
<1>1. CASE OsNext
  BY <1>1, OsShapeKeeps, OsChildKeeps, OsAnswerKeeps, OsNewsKeeps DEF OsInv
<1>2. CASE UNCHANGED osVars
  <2> USE <1>2 DEF osVars, osServerVars, osLoopVars, osCallVars, osSubVars, osNewsVars
  <2>1. OsShape' /\ OsChildInv'
    BY DEF OsInv, OsShape, OsChildInv
  <2>2. OsAnswerInv' /\ OsNewsInv'
    BY DEF OsInv, OsAnswerInv, OsNewsInv
  <2> QED
    BY <2>1, <2>2 DEF OsInv
<1> QED
  BY <1>1, <1>2

\* What the supervisor promises follows from its invariant.
LEMMA OsHolds == OsInv => OsTypeOK /\ OsNoOrphan /\ OsStartAnswered /\ OsSubscriberCaughtUp
<1> SUFFICES ASSUME OsInv PROVE OsTypeOK /\ OsNoOrphan /\ OsStartAnswered /\ OsSubscriberCaughtUp
  OBVIOUS
<1>1. OsTypeOK
  BY OsConstants DEF OsInv, OsShape, OsAnswerInv, OsNewsInv, OsTypeOK
<1>2. OsNoOrphan
  BY DEF OsInv, OsShape, OsChildInv, OsLiving, OsNoOrphan
<1>3. OsStartAnswered
  BY DEF OsInv, OsShape, OsAnswerInv, OsStartAnswered
<1>4. OsSubscriberCaughtUp
  BY DEF OsInv, OsNewsInv, OsSubscriberCaughtUp
<1> QED
  BY <1>1, <1>2, <1>3, <1>4

-----------------------------------------------------------------------------
(* The OpenCode catalog: whatever changed is still to come, or is in hand. *)

CaEvents == [session : CaSessions, deleted : BOOLEAN]
CaLabels == {"idle", "lock", "list", "hydrate", "write", "prune", "remove", "end"}
CaSyncOps == {"full", "tick", "reconcile"}
CaServiceOps == {"start", "rename", "delete"}
CaJobs == [op : CaSyncOps \cup CaServiceOps \cup {"flush", "none"}, keys : SUBSET CaSessions,
           now : SUBSET CaSessions, version : Nat, initial : SUBSET CaSessions,
           listed : SUBSET CaSessions, complete : BOOLEAN]

CaShape ==
  /\ caNative \in [CaSessions -> Nat] /\ caDeleted \subseteq CaSessions
  /\ caFile \in [CaSessions -> Nat] /\ caQueue \in Seq(CaEvents)
  /\ caServer \in {"up", "down", "connected"} /\ caSpent \in 0..CaBudget
  /\ caPending \subseteq CaSessions /\ caFull \in BOOLEAN
  /\ caTimer \in {"none", "armed", "fired"} /\ caOldTimers \in Nat /\ caDue \in Nat
  /\ caClose \in {"open", "waiting", "closed"}
  /\ caLock \in CaTasks \cup {CaNobody} /\ caSyncing \in BOOLEAN
  /\ caAt \in [CaTasks -> CaLabels] /\ caJob \in [CaTasks -> CaJobs] /\ caExcused \subseteq CaSessions

\* Nothing is written that was not there to be read.
CaVersionsInv == \A s \in CaSessions : caNative[s] <= caSpent /\ caFile[s] <= caNative[s]

\* Where a goroutine is tells what it does; all but the user's calls hold the mutex.
CaHolds == {"list", "hydrate", "write", "prune", "remove", "end"}
CaWorkInv ==
  \A t \in CaTasks :
    /\ caAt[t] = "idle" => caJob[t] = CaIdle
    /\ caAt[t] = "lock" => caJob[t].op \in CaSyncOps \cup {"flush"}
    /\ caAt[t] \in {"list", "prune"} => CaIsSync(t)
    /\ caAt[t] \in CaHolds /\ ~CaIsService(t) => caLock = t
    /\ caAt[t] # "write" => caJob[t].now = {}
    /\ \A s \in caJob[t].now : caJob[t].now = {s} /\ caJob[t].version \in 1..caNative[s]
    /\ caAt[t] = "remove" => caJob[t].keys \subseteq caDeleted
    /\ caAt[t] \in {"hydrate", "write", "prune"} /\ CaIsSync(t) =>
         caJob[t].initial \ caJob[t].listed \subseteq caDeleted

\* An event on the stream, what is marked, or a server to be reconciled with: a
\* goroutine that has not begun will look at the session, or at its absence.
CaOnStream(s) ==
  \E i \in 1..Len(caQueue) : caQueue[i].session = s /\ caQueue[i].deleted = (s \in caDeleted)
CaWaiting(s) ==
  \E t \in CaTasks : caAt[t] = "lock" /\ (CaIsSync(t) \/ (s \in caJob[t].keys /\ s \notin caDeleted))
CaLater(s) ==
  caServer = "down" \/ caFull \/ CaOnStream(s) \/ (s \in caPending /\ s \notin caDeleted) \/ CaWaiting(s)

\* The one that has the mutex will see to it.
CaHandledBy(t, s) ==
  \/ caAt[t] = "list"
  \/ ~CaIsService(t) /\ caAt[t] \in {"hydrate", "write"} /\ s \in caJob[t].keys /\ s \notin caDeleted
  \/ CaIsSync(t) /\ caAt[t] \in {"hydrate", "write", "prune"} /\ s \in caJob[t].initial \ caJob[t].listed

CaRight(s) == caFile[s] = IF CaExists(s) THEN caNative[s] ELSE 0

CaReadInv ==
  caClose = "open" =>
    \A t \in CaTasks : ~CaIsService(t) =>
      \A s \in caJob[t].now : (caJob[t].version = caNative[s] /\ s \notin caDeleted) \/ CaLater(s)

\* No session is forgotten.
CaCareInv ==
  caClose = "open" =>
    \A s \in CaSessions \ caExcused : CaRight(s) \/ CaLater(s) \/ \E t \in CaTasks : CaHandledBy(t, s)

CaInv ==
  /\ CaShape /\ CaVersionsInv /\ CaWorkInv /\ CaReadInv /\ CaCareInv
  /\ CaNoEventForgotten /\ CaClosedMeansQuiet
-----------------------------------------------------------------------------
LEMMA CaAppended ==
  ASSUME NEW q \in Seq(CaEvents), NEW e \in CaEvents
  PROVE  /\ Append(q, e) \in Seq(CaEvents) /\ Len(Append(q, e)) = Len(q) + 1 /\ Len(q) \in Nat
         /\ \A i \in 1..Len(q) : Append(q, e)[i] = q[i]
         /\ Append(q, e)[Len(q) + 1] = e
  OBVIOUS

LEMMA CaTailed ==
  ASSUME NEW q \in Seq(CaEvents), q # <<>>
  PROVE  /\ Tail(q) \in Seq(CaEvents) /\ Len(Tail(q)) = Len(q) - 1 /\ Len(q) \in Nat
         /\ \A i \in 1..(Len(q) - 1) : Tail(q)[i] = q[i + 1]
         /\ Head(q) = q[1] /\ Head(q) \in CaEvents
  OBVIOUS

LEMMA CaIdleFields ==
  /\ CaIdle \in CaJobs /\ CaIdle.op = "none" /\ CaIdle.now = {} /\ CaIdle.keys = {}
  /\ CaIdle.initial = {} /\ CaIdle.listed = {} /\ CaIdle.version = 0 /\ ~CaIdle.complete
  BY DEF CaIdle, CaJobs

LEMMA CaStarts == CaInit => CaInv
<1> SUFFICES ASSUME CaInit PROVE CaInv
  OBVIOUS
<1>1. CaShape
  <2>1. caQueue \in Seq(CaEvents) /\ caAt \in [CaTasks -> CaLabels]
    BY DEF CaInit, CaLabels
  <2>2. caJob \in [CaTasks -> CaJobs]
    BY CaIdleFields DEF CaInit
  <2>3. /\ caNative \in [CaSessions -> Nat] /\ caFile \in [CaSessions -> Nat]
        /\ caSpent \in 0..CaBudget /\ caOldTimers \in Nat /\ caDue \in Nat
    BY CaConstants DEF CaInit
  <2>4. /\ caDeleted \subseteq CaSessions /\ caServer \in {"up", "down", "connected"}
        /\ caPending \subseteq CaSessions /\ caFull \in BOOLEAN /\ caTimer \in {"none", "armed", "fired"}
        /\ caClose \in {"open", "waiting", "closed"} /\ caLock \in CaTasks \cup {CaNobody}
        /\ caSyncing \in BOOLEAN /\ caExcused \subseteq CaSessions
    BY DEF CaInit
  <2> QED
    BY <2>1, <2>2, <2>3, <2>4 DEF CaShape
<1>2. CaVersionsInv /\ CaWorkInv
  BY CaIdleFields DEF CaInit, CaVersionsInv, CaWorkInv, CaHolds
<1>3. CaReadInv
  BY CaIdleFields DEF CaInit, CaReadInv
<1>4. CaCareInv
  BY DEF CaInit, CaCareInv, CaRight, CaExists
<1>5. CaNoEventForgotten /\ CaClosedMeansQuiet
  BY DEF CaInit, CaNoEventForgotten, CaClosedMeansQuiet
<1> QED
  BY <1>1, <1>2, <1>3, <1>4, <1>5 DEF CaInv

-----------------------------------------------------------------------------
(* Steps outside the goroutines.                                              *)

\* A native change is on the stream; what was to come still is.
LEMMA CaChanged ==
  ASSUME CaShape, CaVersionsInv, NEW s \in CaSessions, CaWrites(s) \/ CaDeletes(s)
  PROVE  /\ caNative' \in [CaSessions -> Nat] /\ caDeleted' \subseteq CaSessions
         /\ caDeleted \subseteq caDeleted' /\ caQueue' \in Seq(CaEvents)
         /\ caSpent' \in 0..CaBudget /\ caServer' = caServer
         /\ \A u \in CaSessions : caNative[u] <= caNative'[u] /\ caNative'[u] <= caSpent'
         /\ \A u \in CaSessions \ {s} : caNative'[u] = caNative[u] /\ (u \in caDeleted' <=> u \in caDeleted)
         /\ CaOnStream(s)' /\ \A u \in CaSessions : CaOnStream(u) => CaOnStream(u)'
<1> DEFINE e == [session |-> s, deleted |-> (s \in caDeleted')]
<1>1. /\ caSpent' = caSpent + 1 /\ caSpent < CaBudget /\ caServer' = caServer
      /\ caQueue' = Append(caQueue, e)
      /\ \/ caNative' = [caNative EXCEPT ![s] = @ + 1] /\ caDeleted' = caDeleted /\ s \notin caDeleted
         \/ caNative' = caNative /\ caDeleted' = caDeleted \cup {s} /\ s \notin caDeleted
  <2>1. CASE CaWrites(s)
    <3>1. /\ caDeleted' = caDeleted /\ s \notin caDeleted
          /\ caQueue' = Append(caQueue, [session |-> s, deleted |-> FALSE])
      BY <2>1 DEF CaWrites, CaEmit
    <3>2. (s \in caDeleted') = FALSE
      BY <3>1
    <3> QED
      BY <2>1, <3>1, <3>2 DEF CaWrites, CaSpend
  <2>2. CASE CaDeletes(s)
    <3>1. /\ caDeleted' = caDeleted \cup {s} /\ s \notin caDeleted
          /\ caQueue' = Append(caQueue, [session |-> s, deleted |-> TRUE])
      BY <2>2 DEF CaDeletes, CaExists, CaEmit
    <3>2. (s \in caDeleted') = TRUE
      BY <3>1
    <3> QED
      BY <2>2, <3>1, <3>2 DEF CaDeletes, CaSpend
  <2> QED
    BY <2>1, <2>2
<1>2. caQueue \in Seq(CaEvents) /\ e \in CaEvents /\ caSpent \in Nat /\ caSpent' \in 0..CaBudget
  BY <1>1, CaConstants DEF CaShape, CaEvents
<1>3. /\ caNative' \in [CaSessions -> Nat] /\ caDeleted' \subseteq CaSessions /\ caDeleted \subseteq caDeleted'
      /\ \A u \in CaSessions : caNative[u] <= caNative'[u] /\ caNative'[u] <= caSpent'
      /\ \A u \in CaSessions \ {s} : caNative'[u] = caNative[u] /\ (u \in caDeleted' <=> u \in caDeleted)
  <2>1. caNative \in [CaSessions -> Nat] /\ caDeleted \subseteq CaSessions /\ \A u \in CaSessions : caNative[u] <= caSpent
    BY DEF CaShape, CaVersionsInv
  <2>2. CASE caNative' = [caNative EXCEPT ![s] = @ + 1] /\ caDeleted' = caDeleted
    <3>1. \A u \in CaSessions : caNative'[u] = IF u = s THEN caNative[u] + 1 ELSE caNative[u]
      BY <2>1, <2>2
    <3>2. caNative' \in [CaSessions -> Nat]
      BY <2>1, <2>2
    <3> QED
      BY <1>1, <1>2, <2>1, <2>2, <3>1, <3>2
  <2>3. CASE caNative' = caNative /\ caDeleted' = caDeleted \cup {s}
    BY <1>1, <1>2, <2>1, <2>3
  <2> QED
    BY <1>1, <2>2, <2>3
<1>4. e.session = s /\ e.deleted = (s \in caDeleted')
  OBVIOUS
<1> HIDE DEF e
<1>5. /\ caQueue' \in Seq(CaEvents) /\ Len(caQueue') = Len(caQueue) + 1 /\ Len(caQueue) \in Nat
      /\ \A i \in 1..Len(caQueue) : caQueue'[i] = caQueue[i]
      /\ caQueue'[Len(caQueue) + 1] = e
  BY <1>1, <1>2, CaAppended
<1>6. CaOnStream(s)'
  <2>1. Len(caQueue) + 1 \in 1..Len(caQueue')
    BY <1>5
  <2> QED
    BY <1>4, <1>5, <2>1 DEF CaOnStream
<1>7. ASSUME NEW u \in CaSessions, CaOnStream(u) PROVE CaOnStream(u)'
  <2>1. CASE u = s
    BY <1>6, <2>1
  <2>2. CASE u # s
    <3>1. PICK i \in 1..Len(caQueue) : caQueue[i].session = u /\ caQueue[i].deleted = (u \in caDeleted)
      BY <1>7 DEF CaOnStream
    <3>2. i \in 1..Len(caQueue') /\ caQueue'[i] = caQueue[i] /\ (u \in caDeleted') = (u \in caDeleted)
      BY <1>3, <1>5, <2>2
    <3> QED
      BY <3>1, <3>2 DEF CaOnStream
  <2> QED
    BY <2>1, <2>2
<1> QED
  BY <1>1, <1>2, <1>3, <1>5, <1>6, <1>7

\* What a change of a session leaves of what was to come.
LEMMA CaChangeComes ==
  ASSUME CaShape, CaVersionsInv, NEW s \in CaSessions, CaWrites(s) \/ CaDeletes(s),
         UNCHANGED <<caPending, caFull>>,
         \A t \in CaTasks : caAt[t] = "lock" => caAt'[t] = "lock" /\ caJob'[t] = caJob[t]
  PROVE  CaLater(s)' /\ \A u \in CaSessions : CaLater(u) => CaLater(u)'
<1>1. /\ caServer' = caServer /\ CaOnStream(s)' /\ \A u \in CaSessions : CaOnStream(u) => CaOnStream(u)'
      /\ \A u \in CaSessions \ {s} : u \in caDeleted' <=> u \in caDeleted
  BY CaChanged
<1>2. CaLater(s)'
  BY <1>1 DEF CaLater
<1>3. ASSUME NEW u \in CaSessions, u # s, CaLater(u) PROVE CaLater(u)'
  <2>1. CaWaiting(u) => CaWaiting(u)'
    BY <1>1, <1>3 DEF CaWaiting, CaIsSync
  <2> QED
    BY <1>1, <1>3, <2>1 DEF CaLater
<1> QED
  BY <1>2, <1>3

\* A change by somebody else, or by a call of the user that goes on from it.
LEMMA CaChangeKeeps ==
  ASSUME CaInv, NEW s \in CaSessions, CaWrites(s) \/ CaDeletes(s),
         UNCHANGED <<caFile, caEventVars, caLock, caSyncing, caExcused>>, CaWorkInv',
         caAt' \in [CaTasks -> CaLabels], caJob' \in [CaTasks -> CaJobs],
         \A t \in CaTasks : \/ caAt'[t] = caAt[t] /\ caJob'[t] = caJob[t]
                            \/ /\ caAt[t] = "idle" /\ caAt'[t] \in {"hydrate", "remove"}
                               /\ caJob'[t].op \in CaServiceOps /\ caJob'[t].now = {}
  PROVE  CaInv'
<1>1. /\ caNative' \in [CaSessions -> Nat] /\ caDeleted' \subseteq CaSessions
      /\ caDeleted \subseteq caDeleted' /\ caQueue' \in Seq(CaEvents)
      /\ caSpent' \in 0..CaBudget /\ caServer' = caServer
      /\ \A u \in CaSessions : caNative[u] <= caNative'[u] /\ caNative'[u] <= caSpent'
      /\ \A u \in CaSessions \ {s} : caNative'[u] = caNative[u] /\ (u \in caDeleted' <=> u \in caDeleted)
  BY CaChanged DEF CaInv
<1>2. UNCHANGED <<caFile, caPending, caFull, caTimer, caOldTimers, caDue, caClose, caLock, caSyncing, caExcused>>
  BY DEF caEventVars
<1>3. \A t \in CaTasks : caAt[t] = "lock" => caAt'[t] = "lock" /\ caJob'[t] = caJob[t]
  OBVIOUS
<1>4. CaLater(s)' /\ \A u \in CaSessions : CaLater(u) => CaLater(u)'
  BY <1>2, <1>3, CaChangeComes DEF CaInv
<1>5. CaShape'
  BY <1>1, <1>2 DEF CaInv, CaShape
<1>6. CaVersionsInv'
  <2> SUFFICES ASSUME NEW u \in CaSessions PROVE caNative'[u] <= caSpent' /\ caFile[u] <= caNative'[u]
    BY <1>2 DEF CaVersionsInv
  <2>1. caNative[u] \in Nat /\ caNative'[u] \in Nat /\ caFile[u] \in Nat
    BY <1>1 DEF CaInv, CaShape
  <2> QED
    BY <1>1, <2>1 DEF CaInv, CaVersionsInv
<1>7. CaReadInv'
  <2> SUFFICES ASSUME caClose = "open", NEW t \in CaTasks, ~CaIsService(t)', NEW u \in caJob'[t].now
               PROVE  (caJob'[t].version = caNative'[u] /\ u \notin caDeleted') \/ CaLater(u)'
    BY <1>2 DEF CaReadInv
  <2>1. caJob'[t] = caJob[t] /\ ~CaIsService(t) /\ u \in CaSessions
    BY DEF CaIsService, CaServiceOps, CaJobs
  <2>2. (caJob[t].version = caNative[u] /\ u \notin caDeleted) \/ CaLater(u)
    BY <2>1 DEF CaInv, CaReadInv
  <2> QED
    BY <1>1, <1>4, <2>1, <2>2
<1>8. CaCareInv'
  <2> SUFFICES ASSUME caClose = "open", NEW u \in CaSessions, u \notin caExcused, ~CaLater(u)'
               PROVE  CaRight(u)' \/ \E t \in CaTasks : CaHandledBy(t, u)'
    BY <1>2 DEF CaCareInv
  <2>1. u # s /\ ~CaLater(u) /\ caNative'[u] = caNative[u] /\ (u \in caDeleted' <=> u \in caDeleted)
    BY <1>1, <1>4
  <2>2. CaRight(u) => CaRight(u)'
    BY <1>2, <2>1 DEF CaRight, CaExists
  <2>3. ASSUME NEW t \in CaTasks, CaHandledBy(t, u) PROVE CaHandledBy(t, u)'
    <3>1. caAt[t] # "idle"
      BY <2>3 DEF CaHandledBy
    <3> QED
      BY <2>1, <2>3, <3>1 DEF CaHandledBy, CaIsSync, CaIsService
  <2> QED
    BY <2>1, <2>2, <2>3 DEF CaInv, CaCareInv
<1>9. CaNoEventForgotten' /\ CaClosedMeansQuiet'
  <2>1. \A t \in CaTasks : caJob'[t].op \in {"flush", "full"} => caJob[t].op \in {"flush", "full"}
    BY DEF CaServiceOps
  <2> QED
    BY <1>2, <2>1 DEF CaInv, CaNoEventForgotten, CaClosedMeansQuiet
<1> QED
  BY <1>5, <1>6, <1>7, <1>8, <1>9 DEF CaInv

\* A goroutine takes a call.
LEMMA CaTaken ==
  ASSUME CaShape, NEW t \in CaTasks, NEW op \in CaSyncOps \cup CaServiceOps \cup {"flush"},
         NEW keys \in SUBSET CaSessions, NEW at \in CaLabels, CaTakes(t, op, keys, at)
  PROVE  /\ caAt[t] = "idle" /\ caAt' \in [CaTasks -> CaLabels] /\ caJob' \in [CaTasks -> CaJobs]
         /\ caAt'[t] = at /\ caJob'[t].op = op /\ caJob'[t].keys = keys /\ caJob'[t].now = {}
         /\ caJob'[t].initial = {} /\ caJob'[t].listed = {}
         /\ \A u \in CaTasks \ {t} : caAt'[u] = caAt[u] /\ caJob'[u] = caJob[u]
<1> DEFINE j == [CaIdle EXCEPT !.op = op, !.keys = keys]
<1>1. /\ j \in CaJobs /\ j.op = op /\ j.keys = keys /\ j.now = {} /\ j.initial = {} /\ j.listed = {}
  BY CaIdleFields DEF CaJobs
<1>2. caAt[t] = "idle" /\ caJob' = [caJob EXCEPT ![t] = j] /\ caAt' = [caAt EXCEPT ![t] = at]
  BY DEF CaTakes
<1> HIDE DEF j
<1> QED
  BY <1>1, <1>2 DEF CaShape

LEMMA CaOthersWork ==
  ASSUME CaWorkInv, CaShape, NEW t \in CaTasks,
         \A u \in CaTasks \ {t} : caAt'[u] = caAt[u] /\ caJob'[u] = caJob[u] /\ (caLock = u => caLock' = u),
         \A s \in CaSessions : caNative[s] <= caNative'[s], caNative' \in [CaSessions -> Nat],
         caDeleted \subseteq caDeleted'
  PROVE  \A u \in CaTasks \ {t} :
    /\ caAt'[u] = "idle" => caJob'[u] = CaIdle
    /\ caAt'[u] = "lock" => caJob'[u].op \in CaSyncOps \cup {"flush"}
    /\ caAt'[u] \in {"list", "prune"} => CaIsSync(u)'
    /\ caAt'[u] \in CaHolds /\ ~CaIsService(u)' => caLock' = u
    /\ caAt'[u] # "write" => caJob'[u].now = {}
    /\ \A s \in caJob'[u].now : caJob'[u].now = {s} /\ caJob'[u].version \in 1..caNative'[s]
    /\ caAt'[u] = "remove" => caJob'[u].keys \subseteq caDeleted'
    /\ caAt'[u] \in {"hydrate", "write", "prune"} /\ CaIsSync(u)' =>
         caJob'[u].initial \ caJob'[u].listed \subseteq caDeleted'
<1> TAKE u \in CaTasks \ {t}
<1>1. caAt'[u] = caAt[u] /\ caJob'[u] = caJob[u] /\ (caLock = u => caLock' = u)
  OBVIOUS
<1>2. \A s \in caJob[u].now : s \in CaSessions /\ caJob[u].version \in 1..caNative'[s]
  <2> TAKE s \in caJob[u].now
  <2>1. s \in CaSessions /\ caNative[s] \in Nat /\ caNative'[s] \in Nat /\ caNative[s] <= caNative'[s]
    BY DEF CaShape, CaJobs
  <2> QED
    BY <2>1 DEF CaWorkInv
<1> QED
  BY <1>1, <1>2 DEF CaWorkInv, CaIsSync, CaIsService

LEMMA CaServiceBegins ==
  ASSUME CaInv, NEW t \in CaTasks, NEW s \in CaSessions, CaServiceWrites(t, s) \/ CaServiceDeletes(t, s)
  PROVE  CaInv'
<1>1. /\ CaWrites(s) \/ CaDeletes(s)
      /\ UNCHANGED <<caFile, caEventVars, caLock, caSyncing, caExcused>>
  BY DEF CaServiceWrites, CaServiceDeletes
<1>2. PICK op \in CaServiceOps :
        /\ CaTakes(t, op, {s}, IF op = "delete" THEN "remove" ELSE "hydrate")
        /\ op = "delete" => CaDeletes(s)
  BY DEF CaServiceWrites, CaServiceDeletes, CaServiceOps
<1> DEFINE at == IF op = "delete" THEN "remove" ELSE "hydrate"
<1>3. at \in CaLabels /\ op \in CaSyncOps \cup CaServiceOps \cup {"flush"} /\ {s} \in SUBSET CaSessions
  BY DEF CaLabels
<1>4. /\ caAt[t] = "idle" /\ caAt' \in [CaTasks -> CaLabels] /\ caJob' \in [CaTasks -> CaJobs]
      /\ caAt'[t] = at /\ caJob'[t].op = op /\ caJob'[t].keys = {s} /\ caJob'[t].now = {}
      /\ \A u \in CaTasks \ {t} : caAt'[u] = caAt[u] /\ caJob'[u] = caJob[u]
  BY <1>2, <1>3, CaTaken DEF CaInv
<1>5. /\ \A u \in CaSessions : caNative[u] <= caNative'[u]
      /\ caNative' \in [CaSessions -> Nat] /\ caDeleted \subseteq caDeleted'
  BY <1>1, CaChanged DEF CaInv
<1>6. CaWorkInv'
  <2>1. CaIsService(t)' /\ ~CaIsSync(t)' /\ at \in {"hydrate", "remove"}
    BY <1>4 DEF CaIsService, CaIsSync, CaServiceOps
  <2>2. at = "remove" => s \in caDeleted'
    BY <1>2 DEF CaDeletes
  <2>3. \A u \in CaTasks \ {t} : caAt'[u] = caAt[u] /\ caJob'[u] = caJob[u] /\ (caLock = u => caLock' = u)
    BY <1>1, <1>4
  <2> HIDE DEF at
  <2> QED
    BY <1>4, <1>5, <2>1, <2>2, <2>3, CaOthersWork DEF CaInv, CaWorkInv
<1>7. \A u \in CaTasks : \/ caAt'[u] = caAt[u] /\ caJob'[u] = caJob[u]
                         \/ /\ caAt[u] = "idle" /\ caAt'[u] \in {"hydrate", "remove"}
                            /\ caJob'[u].op \in CaServiceOps /\ caJob'[u].now = {}
  BY <1>4
<1> QED
  BY <1>1, <1>4, <1>6, <1>7, CaChangeKeeps

LEMMA CaNativeKeeps ==
  ASSUME CaInv, CaNativeChange
  PROVE  CaInv'
<1>1. /\ \E s \in CaSessions : CaWrites(s) \/ CaDeletes(s)
      /\ UNCHANGED <<caFile, caEventVars, caTaskVars, caExcused>>
  BY DEF CaNativeChange
<1>2. UNCHANGED <<caFile, caEventVars, caLock, caSyncing, caExcused>> /\ caAt' = caAt /\ caJob' = caJob
  BY <1>1 DEF caTaskVars
<1>3. PICK s \in CaSessions : CaWrites(s) \/ CaDeletes(s)
  BY <1>1
<1>4. /\ \A u \in CaSessions : caNative[u] <= caNative'[u]
      /\ caNative' \in [CaSessions -> Nat] /\ caDeleted \subseteq caDeleted'
  BY <1>3, CaChanged DEF CaInv
<1>5. CaWorkInv'
  <2>1. CASE \A t \in CaTasks : FALSE
    BY <2>1 DEF CaWorkInv
  <2>2. ASSUME NEW t \in CaTasks PROVE CaWorkInv'
    <3> SUFFICES ASSUME NEW u \in CaTasks
                 PROVE  /\ \A v \in caJob[u].now : caJob[u].version \in 1..caNative'[v]
                        /\ caAt[u] = "remove" => caJob[u].keys \subseteq caDeleted'
                        /\ caAt[u] \in {"hydrate", "write", "prune"} /\ CaIsSync(u) =>
                             caJob[u].initial \ caJob[u].listed \subseteq caDeleted'
      BY <1>2 DEF CaInv, CaWorkInv, CaIsSync, CaIsService
    <3>1. ASSUME NEW v \in caJob[u].now PROVE caJob[u].version \in 1..caNative'[v]
      <4>1. v \in CaSessions /\ caNative[v] \in Nat /\ caNative'[v] \in Nat /\ caNative[v] <= caNative'[v]
        BY <1>4 DEF CaInv, CaShape, CaJobs
      <4>2. caJob[u].version \in 1..caNative[v]
        BY DEF CaInv, CaWorkInv
      <4> QED
        BY <4>1, <4>2
    <3> QED
      BY <1>4, <3>1 DEF CaInv, CaWorkInv
  <2> QED
    BY <2>1, <2>2
<1>6. caAt' \in [CaTasks -> CaLabels] /\ caJob' \in [CaTasks -> CaJobs]
      /\ \A t \in CaTasks : caAt'[t] = caAt[t] /\ caJob'[t] = caJob[t]
  BY <1>2 DEF CaInv, CaShape
<1> QED
  BY <1>2, <1>3, <1>5, <1>6, CaChangeKeeps

\* The server is lost, or another one is there: everything is still to come.
LEMMA CaServerKeeps ==
  ASSUME CaInv, CaServerLost \/ \E t \in CaTasks : CaServerStarts(t)
  PROVE  CaInv'
<1>1. /\ UNCHANGED <<caNative, caDeleted, caFile, caPending, caFull, caTimer, caOldTimers, caDue, caClose, caLock,
                     caSyncing, caExcused>>
      /\ caQueue' \in Seq(CaEvents) /\ caSpent' \in 0..CaBudget /\ caSpent <= caSpent'
      /\ caServer' \in {"up", "down", "connected"}
  <2>1. CASE CaServerLost
    BY <2>1, CaConstants DEF CaServerLost, CaSpend, caEventVars, caTaskVars, CaInv, CaShape
  <2>2. ASSUME NEW t \in CaTasks, CaServerStarts(t) PROVE <1>1
    BY <2>2, CaConstants DEF CaServerStarts, caEventVars, CaInv, CaShape
  <2> QED
    BY <2>1, <2>2
<1>2. /\ caAt' \in [CaTasks -> CaLabels] /\ caJob' \in [CaTasks -> CaJobs] /\ \A s : CaLater(s)'
      /\ \A t \in CaTasks : \/ caAt'[t] = caAt[t] /\ caJob'[t] = caJob[t]
                            \/ caAt'[t] = "lock" /\ caJob'[t].op = "reconcile" /\ caJob'[t].now = {}
  <2>1. CASE CaServerLost
    <3>1. caAt' = caAt /\ caJob' = caJob /\ caServer' = "down"
      BY <2>1 DEF CaServerLost, caTaskVars
    <3> QED
      BY <3>1 DEF CaInv, CaShape, CaLater
  <2>2. ASSUME NEW t \in CaTasks, CaServerStarts(t) PROVE <1>2
    <3>1. CaTakes(t, "reconcile", {}, "lock")
      BY <2>2 DEF CaServerStarts
    <3>2. "lock" \in CaLabels /\ "reconcile" \in CaSyncOps \cup CaServiceOps \cup {"flush"} /\ {} \in SUBSET CaSessions
      BY DEF CaLabels, CaSyncOps
    <3>3. /\ caAt' \in [CaTasks -> CaLabels] /\ caJob' \in [CaTasks -> CaJobs]
          /\ caAt'[t] = "lock" /\ caJob'[t].op = "reconcile" /\ caJob'[t].now = {}
          /\ \A u \in CaTasks \ {t} : caAt'[u] = caAt[u] /\ caJob'[u] = caJob[u]
      BY <3>1, <3>2, CaTaken DEF CaInv
    <3>4. \A s : CaLater(s)'
      BY <3>3 DEF CaLater, CaWaiting, CaIsSync
    <3> QED
      BY <3>3, <3>4
  <2> QED
    BY <2>1, <2>2
<1>3. CaShape'
  BY <1>1, <1>2 DEF CaInv, CaShape
<1>4. CaVersionsInv'
  <2> SUFFICES ASSUME NEW s \in CaSessions PROVE caNative[s] <= caSpent' /\ caFile[s] <= caNative[s]
    BY <1>1 DEF CaVersionsInv
  <2>1. caNative[s] \in Nat /\ caSpent \in Nat /\ caSpent' \in Nat
    BY <1>1, CaConstants DEF CaInv, CaShape
  <2> QED
    BY <1>1, <2>1 DEF CaInv, CaVersionsInv
<1>5. CaWorkInv'
  <2> SUFFICES ASSUME NEW t \in CaTasks
               PROVE  /\ caAt'[t] = "idle" => caJob'[t] = CaIdle
                      /\ caAt'[t] = "lock" => caJob'[t].op \in CaSyncOps \cup {"flush"}
                      /\ caAt'[t] \in {"list", "prune"} => CaIsSync(t)'
                      /\ caAt'[t] \in CaHolds /\ ~CaIsService(t)' => caLock = t
                      /\ caAt'[t] # "write" => caJob'[t].now = {}
                      /\ \A s \in caJob'[t].now : caJob'[t].now = {s} /\ caJob'[t].version \in 1..caNative[s]
                      /\ caAt'[t] = "remove" => caJob'[t].keys \subseteq caDeleted
                      /\ caAt'[t] \in {"hydrate", "write", "prune"} /\ CaIsSync(t)' =>
                           caJob'[t].initial \ caJob'[t].listed \subseteq caDeleted
    BY <1>1 DEF CaWorkInv
  <2>1. CASE caAt'[t] = caAt[t] /\ caJob'[t] = caJob[t]
    BY <2>1 DEF CaInv, CaWorkInv, CaIsSync, CaIsService
  <2>2. CASE caAt'[t] = "lock" /\ caJob'[t].op = "reconcile" /\ caJob'[t].now = {}
    BY <2>2 DEF CaHolds, CaSyncOps
  <2> QED
    BY <1>2, <2>1, <2>2
<1>6. CaReadInv' /\ CaCareInv'
  BY <1>2 DEF CaReadInv, CaCareInv
<1>7. CaNoEventForgotten' /\ CaClosedMeansQuiet'
  <2>1. \A t \in CaTasks : caJob'[t].op \in {"flush", "full"} => caJob[t].op \in {"flush", "full"}
    BY <1>2
  <2> QED
    BY <1>1, <2>1 DEF CaInv, CaNoEventForgotten, CaClosedMeansQuiet
<1> QED
  BY <1>3, <1>4, <1>5, <1>6, <1>7 DEF CaInv

-----------------------------------------------------------------------------
(* Events, timers and Close.                                                  *)

\* While the events are open nothing that was to come is lost.
LEMMA CaEventsKeep ==
  ASSUME CaInv, UNCHANGED <<caNativeVars, caFile, caTaskVars, caExcused>>,
         caQueue' \in Seq(CaEvents), caPending' \subseteq CaSessions, caFull' \in BOOLEAN,
         caTimer' \in {"none", "armed", "fired"}, caOldTimers' \in Nat, caDue' \in Nat,
         caClose' \in {"open", "waiting", "closed"},
         caClose' = "open" => caClose = "open" /\ \A s \in CaSessions : CaLater(s) => CaLater(s)',
         CaNoEventForgotten', CaClosedMeansQuiet'
  PROVE  CaInv'
<1>1. /\ UNCHANGED <<caNative, caDeleted, caServer, caSpent, caFile, caLock, caSyncing, caAt, caJob, caExcused>>
  BY DEF caNativeVars, caTaskVars
<1>2. CaShape'
  BY <1>1 DEF CaInv, CaShape
<1>3. CaVersionsInv'
  BY <1>1 DEF CaInv, CaVersionsInv
<1>4. CaWorkInv'
  BY <1>1 DEF CaInv, CaWorkInv, CaIsSync, CaIsService
<1>5. CaReadInv'
  <2> SUFFICES ASSUME caClose' = "open", NEW t \in CaTasks, ~CaIsService(t), NEW s \in caJob[t].now
               PROVE  (caJob[t].version = caNative[s] /\ s \notin caDeleted) \/ CaLater(s)'
    BY <1>1 DEF CaReadInv, CaIsService
  <2>1. s \in CaSessions
    BY DEF CaInv, CaShape, CaJobs
  <2> QED
    BY <2>1 DEF CaInv, CaReadInv
<1>6. CaCareInv'
  <2> SUFFICES ASSUME caClose' = "open", NEW s \in CaSessions, s \notin caExcused
               PROVE  CaRight(s)' \/ CaLater(s)' \/ \E t \in CaTasks : CaHandledBy(t, s)'
    BY <1>1 DEF CaCareInv
  <2>1. CaRight(s) \/ CaLater(s) \/ \E t \in CaTasks : CaHandledBy(t, s)
    BY DEF CaInv, CaCareInv
  <2>2. CaRight(s) => CaRight(s)'
    BY <1>1 DEF CaRight, CaExists
  <2>3. \A t \in CaTasks : CaHandledBy(t, s) => CaHandledBy(t, s)'
    BY <1>1 DEF CaHandledBy, CaIsSync, CaIsService
  <2> QED
    BY <2>1, <2>2, <2>3
<1> QED
  BY <1>2, <1>3, <1>4, <1>5, <1>6 DEF CaInv

LEMMA CaHandleKeeps ==
  ASSUME CaInv, CaHandleEvent
  PROVE  CaInv'
<1>1. /\ caQueue # <<>> /\ caQueue' = Tail(caQueue)
      /\ UNCHANGED <<caNativeVars, caFile, caTaskVars, caExcused>>
      /\ UNCHANGED <<caOldTimers, caDue, caClose>>
  BY DEF CaHandleEvent
<1>2. /\ caQueue' \in Seq(CaEvents) /\ Len(caQueue') = Len(caQueue) - 1 /\ Len(caQueue) \in Nat
      /\ \A i \in 1..(Len(caQueue) - 1) : caQueue'[i] = caQueue[i + 1]
      /\ Head(caQueue) = caQueue[1] /\ Head(caQueue) \in CaEvents
  BY <1>1, CaTailed DEF CaInv, CaShape
<1> DEFINE e == Head(caQueue)
<1>3. /\ e.session \in CaSessions /\ e.deleted \in BOOLEAN /\ e = caQueue[1]
  BY <1>2 DEF CaEvents
<1>4. \/ caClose # "open" /\ UNCHANGED <<caPending, caFull, caTimer>>
      \/ caClose = "open" /\ caTimer' = "armed" /\ e.deleted /\ caFull' = TRUE /\ caPending' = caPending
      \/ caClose = "open" /\ caTimer' = "armed" /\ ~e.deleted /\ caPending' = caPending \cup {e.session} /\ caFull' = caFull
  BY DEF CaHandleEvent, CaNoted
<1> HIDE DEF e
<1>5. /\ caPending' \subseteq CaSessions /\ caFull' \in BOOLEAN /\ caTimer' \in {"none", "armed", "fired"}
      /\ caOldTimers' \in Nat /\ caDue' \in Nat /\ caClose' \in {"open", "waiting", "closed"}
  BY <1>1, <1>3, <1>4 DEF CaInv, CaShape
<1>6. ASSUME caClose' = "open", NEW s \in CaSessions, CaLater(s) PROVE CaLater(s)'
  <2>1. caClose = "open" /\ UNCHANGED <<caServer, caDeleted, caAt, caJob>>
    BY <1>1, <1>6 DEF caNativeVars, caTaskVars
  <2>2. CASE caServer = "down" \/ caFull \/ (s \in caPending /\ s \notin caDeleted)
    BY <1>4, <2>1, <2>2 DEF CaLater
  <2>3. CASE CaWaiting(s)
    BY <2>1, <2>3 DEF CaLater, CaWaiting, CaIsSync
  <2>4. CASE CaOnStream(s)
    <3>1. PICK i \in 1..Len(caQueue) : caQueue[i].session = s /\ caQueue[i].deleted = (s \in caDeleted)
      BY <2>4 DEF CaOnStream
    <3>2. CASE i = 1
      BY <1>3, <1>4, <2>1, <3>1, <3>2 DEF CaLater
    <3>3. CASE i # 1
      <4>1. i - 1 \in 1..(Len(caQueue) - 1) /\ (i - 1) + 1 = i
        BY <1>2, <3>3
      <4>2. i - 1 \in 1..Len(caQueue') /\ caQueue'[i - 1] = caQueue[i]
        BY <1>2, <4>1
      <4>3. CaOnStream(s)'
        BY <2>1, <3>1, <4>2 DEF CaOnStream
      <4> QED
        BY <4>3 DEF CaLater
    <3> QED
      BY <3>2, <3>3
  <2> QED
    BY <1>6, <2>2, <2>3, <2>4 DEF CaLater
<1>7. CaNoEventForgotten'
  BY <1>1, <1>4 DEF CaNoEventForgotten
<1>8. CaClosedMeansQuiet'
  BY <1>1 DEF CaInv, CaClosedMeansQuiet, caTaskVars
<1>9. caClose' = "open" => caClose = "open" /\ \A s \in CaSessions : CaLater(s) => CaLater(s)'
  BY <1>1, <1>6
<1> QED
  BY <1>1, <1>2, <1>5, <1>7, <1>8, <1>9, CaEventsKeep

LEMMA CaTimerKeeps ==
  ASSUME CaInv, CaTimerFires \/ CaClose
  PROVE  CaInv'
<1>1. /\ UNCHANGED <<caNativeVars, caFile, caTaskVars, caExcused>> /\ caQueue' = caQueue /\ caFull' = caFull
  BY DEF CaTimerFires, CaClose
<1>2. UNCHANGED <<caServer, caDeleted, caAt, caJob>>
  BY <1>1 DEF caNativeVars, caTaskVars
<1>3. CASE CaTimerFires
  <2>1. /\ caClose' = caClose /\ caPending' = caPending /\ caDue' = caDue + 1
        /\ caTimer' \in {"none", "armed", "fired"} /\ caOldTimers' \in Nat
    BY <1>3 DEF CaTimerFires, CaInv, CaShape
  <2>2. \A s \in CaSessions : CaLater(s) => CaLater(s)'
    BY <1>1, <1>2, <2>1 DEF CaLater, CaOnStream, CaWaiting, CaIsSync
  <2>3. CaNoEventForgotten' /\ CaClosedMeansQuiet'
    BY <1>2, <2>1 DEF CaInv, CaShape, CaNoEventForgotten, CaClosedMeansQuiet
  <2>4. /\ caQueue' \in Seq(CaEvents) /\ caPending' \subseteq CaSessions /\ caFull' \in BOOLEAN
        /\ caDue' \in Nat /\ caClose' \in {"open", "waiting", "closed"}
    BY <1>1, <2>1 DEF CaInv, CaShape
  <2>5. caClose' = "open" => caClose = "open" /\ \A s \in CaSessions : CaLater(s) => CaLater(s)'
    BY <2>1, <2>2
  <2> QED
    BY <1>1, <2>1, <2>3, <2>4, <2>5, CaEventsKeep
<1>4. CASE CaClose
  <2>1. /\ caClose' \in {"waiting", "closed"} /\ caPending' \subseteq CaSessions
        /\ caTimer' \in {"none", "armed", "fired"} /\ UNCHANGED <<caOldTimers, caDue>>
        /\ caClose' = "closed" => \A t \in CaTasks : caJob[t].op \notin {"flush", "full"}
    BY <1>4 DEF CaClose, CaInv, CaShape
  <2>2. CaNoEventForgotten' /\ CaClosedMeansQuiet'
    BY <1>2, <2>1 DEF CaNoEventForgotten, CaClosedMeansQuiet
  <2>3. /\ caQueue' \in Seq(CaEvents) /\ caFull' \in BOOLEAN /\ caOldTimers' \in Nat /\ caDue' \in Nat
    BY <1>1, <2>1 DEF CaInv, CaShape
  <2>4. caClose' = "open" => caClose = "open" /\ \A s \in CaSessions : CaLater(s) => CaLater(s)'
    BY <2>1
  <2> QED
    BY <1>1, <2>1, <2>2, <2>3, <2>4, CaEventsKeep
<1> QED
  BY <1>3, <1>4

-----------------------------------------------------------------------------
(* Steps of one goroutine.                                                    *)

\* One that neither takes a call nor waits for the mutex.
LEMMA CaTaskKeeps ==
  ASSUME CaInv, NEW t \in CaTasks, caAt[t] # "lock", caAt'[t] # "lock",
         UNCHANGED <<caNative, caDeleted, caServer, caSpent, caQueue, caPending, caFull, caTimer, caOldTimers, caDue,
                     caClose>>,
         caAt' \in [CaTasks -> CaLabels], caJob' \in [CaTasks -> CaJobs],
         caFile' \in [CaSessions -> Nat], \A s \in CaSessions : caFile'[s] <= caNative[s],
         caExcused' \subseteq CaSessions, caLock' \in CaTasks \cup {CaNobody}, caSyncing' \in BOOLEAN,
         \A u \in CaTasks \ {t} : caAt'[u] = caAt[u] /\ caJob'[u] = caJob[u] /\ (caLock = u => caLock' = u),
         caAt'[t] = "idle" => caJob'[t] = CaIdle,
         caAt'[t] \in {"list", "prune"} => CaIsSync(t)',
         caAt'[t] \in CaHolds /\ ~CaIsService(t)' => caLock' = t,
         caAt'[t] # "write" => caJob'[t].now = {},
         \A s \in caJob'[t].now : caJob'[t].now = {s} /\ caJob'[t].version \in 1..caNative[s],
         caAt'[t] = "remove" => caJob'[t].keys \subseteq caDeleted,
         caAt'[t] \in {"hydrate", "write", "prune"} /\ CaIsSync(t)' =>
           caJob'[t].initial \ caJob'[t].listed \subseteq caDeleted,
         caJob'[t].op \in {"flush", "full"} => caJob[t].op \in {"flush", "full"},
         \A s \in caJob'[t].now : caJob'[t].version = caNative[s] /\ s \notin caDeleted,
         caClose = "open" =>
           \A s \in CaSessions \ caExcused' :
             \/ CaRight(s)' \/ CaLater(s) \/ CaHandledBy(t, s)'
             \/ \E u \in CaTasks \ {t} : CaHandledBy(u, s)
  PROVE  CaInv'
<1>1. CaShape'
  BY DEF CaInv, CaShape
<1>2. CaVersionsInv'
  BY DEF CaInv, CaVersionsInv
<1>3. CaWorkInv'
  <2>1. /\ \A s \in CaSessions : caNative[s] <= caNative'[s]
        /\ caNative' \in [CaSessions -> Nat] /\ caDeleted \subseteq caDeleted'
    BY DEF CaInv, CaShape
  <2> QED
    BY <2>1, CaOthersWork DEF CaInv, CaWorkInv
<1>4. \A s : CaLater(s) => CaLater(s)'
  <2>1. \A s : CaWaiting(s) => CaWaiting(s)'
    BY DEF CaWaiting, CaIsSync
  <2> QED
    BY <2>1 DEF CaLater, CaOnStream
<1>5. CaReadInv'
  <2> SUFFICES ASSUME caClose = "open", NEW u \in CaTasks, ~CaIsService(u)', NEW s \in caJob'[u].now
               PROVE  (caJob'[u].version = caNative[s] /\ s \notin caDeleted) \/ CaLater(s)'
    BY DEF CaReadInv
  <2>1. CASE u = t
    BY <2>1
  <2>2. CASE u # t
    BY <1>4, <2>2 DEF CaInv, CaReadInv, CaIsService
  <2> QED
    BY <2>1, <2>2
<1>6. CaCareInv'
  <2>1. \A u \in CaTasks \ {t}, s \in CaSessions : CaHandledBy(u, s) => CaHandledBy(u, s)'
    BY DEF CaHandledBy, CaIsSync, CaIsService
  <2> QED
    BY <1>4, <2>1 DEF CaCareInv
<1>7. CaNoEventForgotten' /\ CaClosedMeansQuiet'
  BY DEF CaInv, CaNoEventForgotten, CaClosedMeansQuiet
<1> QED
  BY <1>1, <1>2, <1>3, <1>4, <1>5, <1>6, <1>7 DEF CaInv

LEMMA CaFields ==
  ASSUME CaShape, NEW t \in CaTasks
  PROVE  /\ caJob[t] \in CaJobs /\ caAt[t] \in CaLabels
         /\ caJob[t].keys \subseteq CaSessions /\ caJob[t].now \subseteq CaSessions
         /\ caJob[t].initial \subseteq CaSessions /\ caJob[t].listed \subseteq CaSessions
         /\ ~(CaIsSync(t) /\ CaIsService(t))
  BY DEF CaShape, CaJobs, CaIsSync, CaIsService

\* A goroutine whose work becomes j: what everyone else has at hand stays.
LEMMA CaJobTurns ==
  ASSUME caJob \in [CaTasks -> CaJobs], NEW t \in CaTasks, NEW j \in CaJobs,
         caJob' = [caJob EXCEPT ![t] = j]
  PROVE  /\ caJob' \in [CaTasks -> CaJobs] /\ caJob'[t] = j
         /\ \A u \in CaTasks \ {t} : caJob'[u] = caJob[u]
OBVIOUS

LEMMA CaListKeeps ==
  ASSUME CaInv, NEW t \in CaTasks, CaList(t)
  PROVE  CaInv'
<1>1. /\ caAt[t] = "list" /\ CaIsSync(t) /\ ~CaIsService(t) /\ caLock = t /\ caJob[t].now = {}
  BY CaFields DEF CaList, CaInv, CaWorkInv, CaHolds
<1>2. /\ UNCHANGED <<caNative, caDeleted, caServer, caSpent, caQueue, caPending, caFull, caTimer, caOldTimers, caDue,
                     caClose, caFile, caLock, caSyncing>>
  BY DEF CaList, caNativeVars, caEventVars
<1>3. \/ /\ caJob' = [caJob EXCEPT ![t].initial = CaProjected, ![t].listed = CaExisting,
                                   ![t].keys = CaExisting, ![t].complete = TRUE]
         /\ caAt' = [caAt EXCEPT ![t] = "hydrate"] /\ caExcused' = caExcused
      \/ caExcused' = CaSessions /\ caAt' = [caAt EXCEPT ![t] = "end"] /\ caJob' = caJob
  BY DEF CaList, CaGoto
<1>4. /\ caAt \in [CaTasks -> CaLabels] /\ caJob \in [CaTasks -> CaJobs] /\ caExcused \subseteq CaSessions
      /\ caFile \in [CaSessions -> Nat] /\ caNative \in [CaSessions -> Nat]
      /\ \A s \in CaSessions : caFile[s] <= caNative[s]
      /\ caLock \in CaTasks \cup {CaNobody} /\ caSyncing \in BOOLEAN
  BY DEF CaInv, CaShape, CaVersionsInv
<1>5. CASE caExcused' = CaSessions /\ caAt' = [caAt EXCEPT ![t] = "end"] /\ caJob' = caJob
  <2>1. /\ caAt' \in [CaTasks -> CaLabels] /\ caAt'[t] = "end" /\ caJob'[t] = caJob[t]
        /\ caJob' \in [CaTasks -> CaJobs]
        /\ \A u \in CaTasks \ {t} : caAt'[u] = caAt[u] /\ caJob'[u] = caJob[u] /\ (caLock = u => caLock' = u)
    BY <1>2, <1>4, <1>5 DEF CaLabels
  <2> QED
    BY <1>1, <1>2, <1>4, <1>5, <2>1, CaTaskKeeps
<1>6. CASE /\ caJob' = [caJob EXCEPT ![t].initial = CaProjected, ![t].listed = CaExisting,
                                     ![t].keys = CaExisting, ![t].complete = TRUE]
           /\ caAt' = [caAt EXCEPT ![t] = "hydrate"] /\ caExcused' = caExcused
  <2>1. /\ caAt' \in [CaTasks -> CaLabels] /\ caAt'[t] = "hydrate"
        /\ \A u \in CaTasks \ {t} : caAt'[u] = caAt[u] /\ caJob'[u] = caJob[u] /\ (caLock = u => caLock' = u)
    BY <1>2, <1>4, <1>6 DEF CaLabels
  <2>2. CaProjected \subseteq CaSessions /\ CaExisting \subseteq CaSessions
    BY DEF CaProjected, CaExisting
  <2>3. /\ caJob' \in [CaTasks -> CaJobs]
        /\ caJob'[t].initial = CaProjected /\ caJob'[t].listed = CaExisting /\ caJob'[t].keys = CaExisting
        /\ caJob'[t].op = caJob[t].op /\ caJob'[t].now = {}
    <3> DEFINE j == [caJob[t] EXCEPT !.initial = CaProjected, !.listed = CaExisting,
                                     !.keys = CaExisting, !.complete = TRUE]
    <3>1. j \in CaJobs
      BY <1>4, <2>2 DEF CaJobs
    <3>2. /\ j.initial = CaProjected /\ j.listed = CaExisting /\ j.keys = CaExisting
          /\ j.op = caJob[t].op /\ j.now = caJob[t].now
      BY <1>4 DEF CaJobs
    <3>3. caJob' = [caJob EXCEPT ![t] = j]
      BY <1>4, <1>6
    <3> HIDE DEF j
    <3>4. caJob' \in [CaTasks -> CaJobs] /\ caJob'[t] = j
      BY <1>4, <3>1, <3>3, CaJobTurns
    <3> QED
      BY <1>1, <3>2, <3>4
  <2>4. CaIsSync(t)' /\ ~CaIsService(t)'
    BY <1>1, <2>3 DEF CaIsSync, CaIsService
  <2>5. caJob'[t].initial \ caJob'[t].listed = {s \in CaSessions : caFile[s] > 0 /\ ~CaExists(s)}
    BY <2>3 DEF CaProjected, CaExisting
  <2>6. caJob'[t].initial \ caJob'[t].listed \subseteq caDeleted
    BY <1>4, <2>5 DEF CaExists
  <2>7. ASSUME NEW s \in CaSessions \ caExcused' PROVE CaRight(s)' \/ CaHandledBy(t, s)'
    <3>1. CASE CaExists(s)
      <4>1. s \in caJob'[t].keys /\ s \notin caDeleted'
        BY <1>2, <2>3, <3>1 DEF CaExisting, CaExists
      <4> QED
        BY <2>1, <2>4, <4>1 DEF CaHandledBy
    <3>2. CASE ~CaExists(s) /\ caFile[s] = 0
      BY <1>2, <3>2 DEF CaRight, CaExists
    <3>3. CASE ~CaExists(s) /\ caFile[s] # 0
      <4>1. s \in (caJob'[t].initial \ caJob'[t].listed)
        BY <1>4, <2>5, <3>3
      <4> QED
        BY <2>1, <2>4, <4>1 DEF CaHandledBy
    <3> QED
      BY <3>1, <3>2, <3>3
  <2> QED
    BY <1>1, <1>2, <1>4, <1>6, <2>1, <2>3, <2>4, <2>6, <2>7, CaTaskKeeps DEF CaHolds
<1> QED
  BY <1>3, <1>5, <1>6

LEMMA CaHydrateKeeps ==
  ASSUME CaInv, NEW t \in CaTasks, CaHydrate(t)
  PROVE  CaInv'
<1>1. /\ caAt[t] = "hydrate" /\ caJob[t].now = {} /\ (~CaIsService(t) => caLock = t)
      /\ ~(CaIsSync(t) /\ CaIsService(t)) /\ caJob[t].keys \subseteq CaSessions
      /\ CaIsSync(t) => caJob[t].initial \ caJob[t].listed \subseteq caDeleted
  BY CaFields DEF CaHydrate, CaInv, CaWorkInv, CaHolds
<1>2. /\ UNCHANGED <<caNative, caDeleted, caServer, caSpent, caQueue, caPending, caFull, caTimer, caOldTimers, caDue,
                     caClose, caFile, caLock, caSyncing>>
  BY DEF CaHydrate, caNativeVars, caEventVars
<1>4. /\ caAt \in [CaTasks -> CaLabels] /\ caJob \in [CaTasks -> CaJobs] /\ caExcused \subseteq CaSessions
      /\ caFile \in [CaSessions -> Nat] /\ caNative \in [CaSessions -> Nat]
      /\ \A s \in CaSessions : caFile[s] <= caNative[s]
      /\ caLock \in CaTasks \cup {CaNobody} /\ caSyncing \in BOOLEAN
  BY DEF CaInv, CaShape, CaVersionsInv
<1>3. \/ /\ CaIsSync(t) /\ caJob' = [caJob EXCEPT ![t].listed = {}, ![t].complete = FALSE]
         /\ caExcused' = CaSessions /\ caAt' = [caAt EXCEPT ![t] = "end"]
      \/ \E s \in caJob[t].keys :
           \/ /\ CaExists(s) /\ caJob' = [caJob EXCEPT ![t].now = {s}, ![t].version = caNative[s]]
              /\ caAt' = [caAt EXCEPT ![t] = "write"] /\ caExcused' = caExcused
           \/ /\ caJob' = [caJob EXCEPT ![t].keys = @ \ {s}, ![t].complete = FALSE]
              /\ caExcused' = IF CaExists(s) THEN caExcused \cup {s} ELSE caExcused
              /\ caAt' = IF CaIsService(t) THEN [caAt EXCEPT ![t] = "end"] ELSE caAt
  BY DEF CaHydrate, CaGoto
<1>5. CASE /\ CaIsSync(t) /\ caJob' = [caJob EXCEPT ![t].listed = {}, ![t].complete = FALSE]
           /\ caExcused' = CaSessions /\ caAt' = [caAt EXCEPT ![t] = "end"]
  <2>0. /\ caAt' \in [CaTasks -> CaLabels] /\ caAt'[t] = "end"
        /\ \A u \in CaTasks \ {t} : caAt'[u] = caAt[u] /\ caJob'[u] = caJob[u] /\ (caLock = u => caLock' = u)
    BY <1>2, <1>4, <1>5 DEF CaLabels
  <2>1. caJob' \in [CaTasks -> CaJobs] /\ caJob'[t].op = caJob[t].op /\ caJob'[t].now = {}
    <3>1. {} \subseteq CaSessions /\ FALSE \in BOOLEAN
      OBVIOUS
    <3> DEFINE j == [caJob[t] EXCEPT !.listed = {}, !.complete = FALSE]
    <3>4. j \in CaJobs /\ j.op = caJob[t].op /\ j.now = caJob[t].now
      BY <1>4, <3>1 DEF CaJobs
    <3>5. caJob' = [caJob EXCEPT ![t] = j]
      BY <1>4, <1>5
    <3> HIDE DEF j
    <3>2. caJob' \in [CaTasks -> CaJobs] /\ caJob'[t] = j
      BY <1>4, <3>4, <3>5, CaJobTurns
    <3>3. caJob'[t].op = caJob[t].op /\ caJob'[t].now = caJob[t].now
      BY <3>2, <3>4
    <3> QED
      BY <1>1, <3>2, <3>3
  <2>2. CaIsService(t)' <=> CaIsService(t)
    BY <2>1 DEF CaIsService
  <2> QED
    BY <1>1, <1>2, <1>4, <1>5, <2>0, <2>1, <2>2, CaTaskKeeps
<1>6. ASSUME NEW s \in caJob[t].keys, CaExists(s),
             caJob' = [caJob EXCEPT ![t].now = {s}, ![t].version = caNative[s]],
             caAt' = [caAt EXCEPT ![t] = "write"], caExcused' = caExcused
      PROVE  CaInv'
  <2>1. /\ caAt' \in [CaTasks -> CaLabels] /\ caAt'[t] = "write"
        /\ \A u \in CaTasks \ {t} : caAt'[u] = caAt[u] /\ caJob'[u] = caJob[u] /\ (caLock = u => caLock' = u)
    BY <1>2, <1>4, <1>6 DEF CaLabels
  <2>2. s \in CaSessions /\ caNative[s] \in Nat /\ caNative[s] > 0 /\ s \notin caDeleted
    BY <1>1, <1>4, <1>6 DEF CaExists
  <2>3. /\ caJob' \in [CaTasks -> CaJobs] /\ caJob'[t].op = caJob[t].op /\ caJob'[t].now = {s}
        /\ caJob'[t].version = caNative[s] /\ caJob'[t].keys = caJob[t].keys
        /\ caJob'[t].initial = caJob[t].initial /\ caJob'[t].listed = caJob[t].listed
    BY <1>4, <1>6, <2>2 DEF CaJobs
  <2>4. (CaIsService(t)' <=> CaIsService(t)) /\ (CaIsSync(t)' <=> CaIsSync(t))
    BY <2>3 DEF CaIsService, CaIsSync
  <2>5. caJob'[t].version \in 1..caNative[s]
    BY <2>2, <2>3
  <2>6. \A r \in CaSessions : (CaRight(r) => CaRight(r)') /\ (CaHandledBy(t, r) => CaHandledBy(t, r)')
    BY <1>1, <1>2, <2>1, <2>3, <2>4 DEF CaRight, CaExists, CaHandledBy
  <2>7. caClose = "open" =>
          \A r \in CaSessions \ caExcused' :
            CaRight(r)' \/ CaLater(r) \/ CaHandledBy(t, r)' \/ \E u \in CaTasks \ {t} : CaHandledBy(u, r)
    BY <1>6, <2>6 DEF CaInv, CaCareInv
  <2>8. \A r \in caJob'[t].now : /\ caJob'[t].now = {r} /\ caJob'[t].version \in 1..caNative[r]
                                 /\ caJob'[t].version = caNative[r] /\ r \notin caDeleted
    BY <2>2, <2>3, <2>5
  <2> QED
    BY <1>1, <1>2, <1>4, <1>6, <2>1, <2>3, <2>4, <2>7, <2>8, CaTaskKeeps DEF CaHolds
<1>7. ASSUME NEW s \in caJob[t].keys,
             caJob' = [caJob EXCEPT ![t].keys = @ \ {s}, ![t].complete = FALSE],
             caExcused' = IF CaExists(s) THEN caExcused \cup {s} ELSE caExcused,
             caAt' = IF CaIsService(t) THEN [caAt EXCEPT ![t] = "end"] ELSE caAt
      PROVE  CaInv'
  <2>1. /\ caAt' \in [CaTasks -> CaLabels] /\ caAt'[t] = (IF CaIsService(t) THEN "end" ELSE "hydrate")
        /\ \A u \in CaTasks \ {t} : caAt'[u] = caAt[u] /\ caJob'[u] = caJob[u] /\ (caLock = u => caLock' = u)
    BY <1>1, <1>2, <1>4, <1>7 DEF CaLabels
  <2>2. s \in CaSessions /\ caNative[s] \in Nat /\ caFile[s] \in Nat /\ caFile[s] <= caNative[s]
    BY <1>1, <1>4
  <2>3. /\ caJob' \in [CaTasks -> CaJobs] /\ caJob'[t].op = caJob[t].op /\ caJob'[t].now = {}
        /\ caJob'[t].keys = caJob[t].keys \ {s}
        /\ caJob'[t].initial = caJob[t].initial /\ caJob'[t].listed = caJob[t].listed
    <3> DEFINE j == [caJob[t] EXCEPT !.keys = @ \ {s}, !.complete = FALSE]
    <3>1. j \in CaJobs
      BY <1>4 DEF CaJobs
    <3>2. /\ j.op = caJob[t].op /\ j.now = caJob[t].now /\ j.keys = caJob[t].keys \ {s}
          /\ j.initial = caJob[t].initial /\ j.listed = caJob[t].listed
      BY <1>4 DEF CaJobs
    <3>3. caJob' = [caJob EXCEPT ![t] = j]
      BY <1>4, <1>7
    <3> HIDE DEF j
    <3>4. caJob' \in [CaTasks -> CaJobs] /\ caJob'[t] = j
      BY <1>4, <3>1, <3>3, CaJobTurns
    <3> QED
      BY <1>1, <3>2, <3>4
  <2>4. (CaIsService(t)' <=> CaIsService(t)) /\ (CaIsSync(t)' <=> CaIsSync(t))
    BY <2>3 DEF CaIsService, CaIsSync
  <2>5. caExcused' \subseteq CaSessions /\ caExcused \subseteq caExcused' /\ (CaExists(s) => s \in caExcused')
    BY <1>4, <1>7, <2>2
  <2>6. \A r \in CaSessions : CaRight(r) => CaRight(r)'
    BY <1>2 DEF CaRight, CaExists
  <2>7. ASSUME NEW r \in CaSessions \ caExcused', CaHandledBy(t, r) PROVE CaRight(r)' \/ CaHandledBy(t, r)'
    <3>1. ~CaIsService(t) /\ caAt'[t] = "hydrate"
      BY <1>1, <2>1, <2>7 DEF CaHandledBy
    <3>2. CASE r = s /\ r \notin caDeleted
      <4>1. ~CaExists(s) /\ s \notin caDeleted
        BY <2>5, <3>2
      <4>2. caNative[s] = 0 /\ caFile[s] = 0
        BY <2>2, <4>1 DEF CaExists
      <4> QED
        BY <1>2, <3>2, <4>2 DEF CaRight, CaExists
    <3>3. CASE ~(r = s /\ r \notin caDeleted)
      BY <1>1, <1>2, <2>3, <2>4, <2>7, <3>1, <3>3 DEF CaHandledBy
    <3> QED
      BY <3>2, <3>3
  <2>8. caClose = "open" =>
          \A r \in CaSessions \ caExcused' :
            CaRight(r)' \/ CaLater(r) \/ CaHandledBy(t, r)' \/ \E u \in CaTasks \ {t} : CaHandledBy(u, r)
    BY <2>5, <2>6, <2>7 DEF CaInv, CaCareInv
  <2> QED
    BY <1>1, <1>2, <1>4, <2>1, <2>3, <2>4, <2>5, <2>8, CaTaskKeeps DEF CaHolds
<1> QED
  BY <1>3, <1>5, <1>6, <1>7

LEMMA CaMaterializeKeeps ==
  ASSUME CaInv, NEW t \in CaTasks, NEW s \in CaSessions, CaMaterialize(t, s)
  PROVE  CaInv'
<1>1. /\ caAt[t] = "write" /\ caJob[t].now = {s} /\ caJob[t].version \in 1..caNative[s]
      /\ (~CaIsService(t) => caLock = t) /\ ~(CaIsSync(t) /\ CaIsService(t))
      /\ CaIsSync(t) => caJob[t].initial \ caJob[t].listed \subseteq caDeleted
  BY CaFields DEF CaMaterialize, CaInv, CaWorkInv, CaHolds
<1>2. /\ UNCHANGED <<caNative, caDeleted, caServer, caSpent, caQueue, caPending, caFull, caTimer, caOldTimers, caDue,
                     caClose, caLock, caSyncing>>
      /\ caFile' = [caFile EXCEPT ![s] = caJob[t].version]
      /\ caJob' = [caJob EXCEPT ![t].keys = @ \ {s}, ![t].now = {}, ![t].version = 0]
      /\ caExcused' = IF CaIsService(t) /\ (s \in caDeleted \/ caJob[t].version < caNative[s])
                      THEN caExcused \cup {s} ELSE caExcused \ {s}
      /\ caAt' = [caAt EXCEPT ![t] = IF CaIsService(t) THEN "end" ELSE "hydrate"]
  BY DEF CaMaterialize, CaGoto, caNativeVars, caEventVars
<1>4. /\ caAt \in [CaTasks -> CaLabels] /\ caJob \in [CaTasks -> CaJobs] /\ caExcused \subseteq CaSessions
      /\ caFile \in [CaSessions -> Nat] /\ caNative \in [CaSessions -> Nat]
      /\ \A r \in CaSessions : caFile[r] <= caNative[r]
      /\ caLock \in CaTasks \cup {CaNobody} /\ caSyncing \in BOOLEAN
  BY DEF CaInv, CaShape, CaVersionsInv
<1> DEFINE v == caJob[t].version
<1>5. v \in Nat /\ v > 0 /\ v <= caNative[s] /\ caNative[s] \in Nat
  BY <1>1, <1>4
<1>6. /\ caAt' \in [CaTasks -> CaLabels] /\ caAt'[t] = (IF CaIsService(t) THEN "end" ELSE "hydrate")
      /\ \A u \in CaTasks \ {t} : caAt'[u] = caAt[u] /\ caJob'[u] = caJob[u] /\ (caLock = u => caLock' = u)
  BY <1>2, <1>4 DEF CaLabels
<1>7. /\ caJob' \in [CaTasks -> CaJobs] /\ caJob'[t].op = caJob[t].op /\ caJob'[t].now = {}
      /\ caJob'[t].keys = caJob[t].keys \ {s}
      /\ caJob'[t].initial = caJob[t].initial /\ caJob'[t].listed = caJob[t].listed
  <2> DEFINE j == [caJob[t] EXCEPT !.keys = @ \ {s}, !.now = {}, !.version = 0]
  <2>1. j \in CaJobs
    <3>1. caJob[t] \in CaJobs /\ 0 \in Nat
      BY <1>4
    <3> QED
      BY <3>1 DEF CaJobs
  <2>2. /\ j.op = caJob[t].op /\ j.now = {} /\ j.keys = caJob[t].keys \ {s}
        /\ j.initial = caJob[t].initial /\ j.listed = caJob[t].listed
    BY <1>4 DEF CaJobs
  <2>3. caJob' = [caJob EXCEPT ![t] = j]
    BY <1>2, <1>4
  <2> HIDE DEF j
  <2>4. caJob' \in [CaTasks -> CaJobs] /\ caJob'[t] = j
    BY <1>4, <2>1, <2>3, CaJobTurns
  <2> QED
    BY <2>2, <2>4
<1>8. (CaIsService(t)' <=> CaIsService(t)) /\ (CaIsSync(t)' <=> CaIsSync(t))
  BY <1>7 DEF CaIsService, CaIsSync
<1>9. /\ caFile' \in [CaSessions -> Nat] /\ caFile'[s] = v
      /\ \A r \in CaSessions \ {s} : caFile'[r] = caFile[r]
  BY <1>2, <1>4, <1>5
<1>10. \A r \in CaSessions : caFile'[r] <= caNative[r]
  BY <1>4, <1>5, <1>9
<1>11. caExcused' \subseteq CaSessions /\ \A r \in CaSessions \ {s} : r \in caExcused' <=> r \in caExcused
  BY <1>2, <1>4
<1>12. ASSUME caClose = "open", NEW r \in CaSessions \ caExcused'
       PROVE  CaRight(r)' \/ CaLater(r) \/ CaHandledBy(t, r)' \/ \E u \in CaTasks \ {t} : CaHandledBy(u, r)
  <2>1. CASE r = s
    <3>1. (v = caNative[s] /\ s \notin caDeleted) \/ CaLater(s)
      <4>1. CASE CaIsService(t)
        <5>1. s \notin caDeleted /\ ~(v < caNative[s])
          BY <1>2, <1>12, <2>1, <4>1
        <5> QED
          BY <1>5, <5>1
      <4>2. CASE ~CaIsService(t)
        BY <1>1, <1>12, <4>2 DEF CaInv, CaReadInv
      <4> QED
        BY <4>1, <4>2
    <3> QED
      BY <1>2, <1>5, <1>9, <2>1, <3>1 DEF CaRight, CaExists
  <2>2. CASE r # s
    <3>1. r \notin caExcused /\ r \in CaSessions
      BY <1>11, <2>2
    <3>2. CaRight(r) => CaRight(r)'
      BY <1>2, <1>9, <2>2 DEF CaRight, CaExists
    <3>3. CaHandledBy(t, r) => CaHandledBy(t, r)'
      BY <1>1, <1>2, <1>6, <1>7, <1>8, <2>2 DEF CaHandledBy
    <3> QED
      BY <1>12, <3>1, <3>2, <3>3 DEF CaInv, CaCareInv
  <2> QED
    BY <2>1, <2>2
<1> HIDE DEF v
<1> QED
  BY <1>1, <1>2, <1>4, <1>6, <1>7, <1>8, <1>9, <1>10, <1>11, <1>12, CaTaskKeeps DEF CaHolds

LEMMA CaConfirmKeeps ==
  ASSUME CaInv, NEW t \in CaTasks, CaConfirm(t)
  PROVE  CaInv'
<1>1. /\ caAt[t] = "hydrate" /\ caJob[t].keys = {} /\ caJob[t].now = {} /\ (~CaIsService(t) => caLock = t)
      /\ ~(CaIsSync(t) /\ CaIsService(t))
      /\ CaIsSync(t) => caJob[t].initial \ caJob[t].listed \subseteq caDeleted
  BY CaFields DEF CaConfirm, CaInv, CaWorkInv, CaHolds
<1>2. /\ UNCHANGED <<caNative, caDeleted, caServer, caSpent, caQueue, caPending, caFull, caTimer, caOldTimers, caDue,
                     caClose, caFile, caLock, caSyncing>>
      /\ caJob' = caJob
  BY DEF CaConfirm, caNativeVars, caEventVars
<1>3. \/ CaIsSync(t) /\ caAt' = [caAt EXCEPT ![t] = "prune"] /\ caExcused' = caExcused
      \/ CaIsSync(t) /\ caAt' = [caAt EXCEPT ![t] = "end"] /\ caExcused' = caExcused \cup CaProjected
      \/ ~CaIsSync(t) /\ caAt' = [caAt EXCEPT ![t] = "end"] /\ caExcused' = caExcused
  BY DEF CaConfirm, CaGoto
<1>4. /\ caAt \in [CaTasks -> CaLabels] /\ caJob \in [CaTasks -> CaJobs] /\ caExcused \subseteq CaSessions
      /\ caFile \in [CaSessions -> Nat] /\ caNative \in [CaSessions -> Nat]
      /\ \A r \in CaSessions : caFile[r] <= caNative[r]
      /\ caLock \in CaTasks \cup {CaNobody} /\ caSyncing \in BOOLEAN
  BY DEF CaInv, CaShape, CaVersionsInv
<1>5. (CaIsService(t)' <=> CaIsService(t)) /\ (CaIsSync(t)' <=> CaIsSync(t))
  BY <1>2 DEF CaIsService, CaIsSync
<1>6. /\ caAt' \in [CaTasks -> CaLabels] /\ caAt'[t] \in {"prune", "end"} /\ (caAt'[t] = "prune" => CaIsSync(t))
      /\ \A u \in CaTasks \ {t} : caAt'[u] = caAt[u] /\ caJob'[u] = caJob[u] /\ (caLock = u => caLock' = u)
  BY <1>2, <1>3, <1>4 DEF CaLabels
<1>7. caExcused' \subseteq CaSessions /\ caExcused \subseteq caExcused'
  BY <1>3, <1>4 DEF CaProjected
<1>8. \A r \in CaSessions : CaRight(r) => CaRight(r)'
  BY <1>2 DEF CaRight, CaExists
<1>9. ASSUME NEW r \in CaSessions \ caExcused', CaHandledBy(t, r) PROVE CaRight(r)' \/ CaHandledBy(t, r)'
  <2>1. CaIsSync(t) /\ r \in (caJob[t].initial \ caJob[t].listed) /\ r \in caDeleted
    BY <1>1, <1>9 DEF CaHandledBy
  <2>2. CASE caAt' = [caAt EXCEPT ![t] = "prune"]
    <3>1. caAt'[t] = "prune"
      BY <1>4, <2>2
    <3> QED
      BY <1>2, <1>5, <2>1, <3>1 DEF CaHandledBy
  <2>3. CASE caExcused' = caExcused \cup CaProjected
    <3>1. caFile[r] = 0
      BY <1>4, <1>9, <2>3 DEF CaProjected
    <3> QED
      BY <1>2, <2>1, <3>1 DEF CaRight, CaExists
  <2> QED
    BY <1>3, <2>1, <2>2, <2>3
<1>10. caClose = "open" =>
         \A r \in CaSessions \ caExcused' :
           CaRight(r)' \/ CaLater(r) \/ CaHandledBy(t, r)' \/ \E u \in CaTasks \ {t} : CaHandledBy(u, r)
  BY <1>7, <1>8, <1>9 DEF CaInv, CaCareInv
<1> QED
  BY <1>1, <1>2, <1>4, <1>5, <1>6, <1>7, <1>10, CaTaskKeeps

LEMMA CaPruneKeeps ==
  ASSUME CaInv, NEW t \in CaTasks, CaPrune(t)
  PROVE  CaInv'
<1>1. /\ caAt[t] = "prune" /\ CaIsSync(t) /\ ~CaIsService(t) /\ caLock = t /\ caJob[t].now = {}
      /\ caJob[t].initial \ caJob[t].listed \subseteq caDeleted
  BY CaFields DEF CaPrune, CaInv, CaWorkInv, CaHolds
<1>2. /\ UNCHANGED <<caNative, caDeleted, caServer, caSpent, caQueue, caPending, caFull, caTimer, caOldTimers, caDue,
                     caClose, caLock, caSyncing>>
      /\ caJob' = caJob
  BY DEF CaPrune, caNativeVars, caEventVars
<1>3. \/ CaStale(t) = {} /\ caAt' = [caAt EXCEPT ![t] = "end"] /\ caFile' = caFile /\ caExcused' = caExcused
      \/ \E s \in CaStale(t) :
           caFile' = [caFile EXCEPT ![s] = 0] /\ caExcused' = caExcused \ {s} /\ caAt' = caAt
  BY DEF CaPrune, CaGoto
<1>4. /\ caAt \in [CaTasks -> CaLabels] /\ caJob \in [CaTasks -> CaJobs] /\ caExcused \subseteq CaSessions
      /\ caFile \in [CaSessions -> Nat] /\ caNative \in [CaSessions -> Nat]
      /\ \A r \in CaSessions : caFile[r] <= caNative[r]
      /\ caLock \in CaTasks \cup {CaNobody} /\ caSyncing \in BOOLEAN
  BY DEF CaInv, CaShape, CaVersionsInv
<1>5. (CaIsService(t)' <=> CaIsService(t)) /\ (CaIsSync(t)' <=> CaIsSync(t))
  BY <1>2 DEF CaIsService, CaIsSync
<1>6. CASE CaStale(t) = {} /\ caAt' = [caAt EXCEPT ![t] = "end"] /\ caFile' = caFile /\ caExcused' = caExcused
  <2>1. /\ caAt' \in [CaTasks -> CaLabels] /\ caAt'[t] = "end"
        /\ \A u \in CaTasks \ {t} : caAt'[u] = caAt[u] /\ caJob'[u] = caJob[u] /\ (caLock = u => caLock' = u)
    BY <1>2, <1>4, <1>6 DEF CaLabels
  <2>2. \A r \in CaSessions : CaRight(r) => CaRight(r)'
    BY <1>2, <1>6 DEF CaRight, CaExists
  <2>3. ASSUME NEW r \in CaSessions \ caExcused', CaHandledBy(t, r) PROVE CaRight(r)'
    <3>1. r \in (caJob[t].initial \ caJob[t].listed) /\ r \in caDeleted
      BY <1>1, <2>3 DEF CaHandledBy
    <3>2. caFile[r] = 0
      BY <1>4, <1>6, <3>1 DEF CaStale, CaProjected
    <3> QED
      BY <1>2, <1>6, <3>1, <3>2 DEF CaRight, CaExists
  <2>4. caClose = "open" =>
          \A r \in CaSessions \ caExcused' :
            CaRight(r)' \/ CaLater(r) \/ CaHandledBy(t, r)' \/ \E u \in CaTasks \ {t} : CaHandledBy(u, r)
    BY <1>6, <2>2, <2>3 DEF CaInv, CaCareInv
  <2> QED
    BY <1>1, <1>2, <1>4, <1>5, <1>6, <2>1, <2>4, CaTaskKeeps
<1>7. ASSUME NEW s \in CaStale(t), caFile' = [caFile EXCEPT ![s] = 0], caExcused' = caExcused \ {s}, caAt' = caAt
      PROVE  CaInv'
  <2>1. /\ caAt' \in [CaTasks -> CaLabels] /\ caAt'[t] = "prune"
        /\ \A u \in CaTasks \ {t} : caAt'[u] = caAt[u] /\ caJob'[u] = caJob[u] /\ (caLock = u => caLock' = u)
    BY <1>1, <1>2, <1>4, <1>7 DEF CaLabels
  <2>2. s \in CaSessions /\ s \in caDeleted
    BY <1>1 DEF CaStale, CaProjected
  <2>3. /\ caFile' \in [CaSessions -> Nat] /\ caFile'[s] = 0
        /\ \A r \in CaSessions \ {s} : caFile'[r] = caFile[r]
    BY <1>4, <1>7, <2>2
  <2>4. \A r \in CaSessions : caFile'[r] <= caNative[r]
    <3> TAKE r \in CaSessions
    <3>1. caNative[r] \in Nat
      BY <1>4
    <3> QED
      BY <1>4, <2>3, <3>1
  <2>5. CaRight(s)' /\ \A r \in CaSessions \ {s} : CaRight(r) => CaRight(r)'
    BY <1>2, <2>2, <2>3 DEF CaRight, CaExists
  <2>6. \A r \in CaSessions : CaHandledBy(t, r) => CaHandledBy(t, r)'
    BY <1>1, <1>2, <1>5, <2>1 DEF CaHandledBy
  <2>7. caClose = "open" =>
          \A r \in CaSessions \ caExcused' :
            CaRight(r)' \/ CaLater(r) \/ CaHandledBy(t, r)' \/ \E u \in CaTasks \ {t} : CaHandledBy(u, r)
    BY <1>7, <2>5, <2>6 DEF CaInv, CaCareInv
  <2>8. caExcused' \subseteq CaSessions
    BY <1>4, <1>7
  <2> QED
    BY <1>1, <1>2, <1>4, <1>5, <2>1, <2>3, <2>4, <2>7, <2>8, CaTaskKeeps DEF CaHolds
<1> QED
  BY <1>3, <1>6, <1>7

LEMMA CaRemoveKeeps ==
  ASSUME CaInv, NEW t \in CaTasks, CaServiceRemoves(t)
  PROVE  CaInv'
<1>1. /\ caAt[t] = "remove" /\ caJob[t].keys \subseteq caDeleted /\ caJob[t].now = {}
      /\ (~CaIsService(t) => caLock = t)
  BY DEF CaServiceRemoves, CaInv, CaWorkInv, CaHolds
<1>2. /\ UNCHANGED <<caNative, caDeleted, caServer, caSpent, caQueue, caPending, caFull, caTimer, caOldTimers, caDue,
                     caClose, caLock, caSyncing, caExcused>>
      /\ caJob' = caJob /\ caAt' = [caAt EXCEPT ![t] = "end"]
      /\ caFile' = [s \in CaSessions |-> IF s \in caJob[t].keys THEN 0 ELSE caFile[s]]
  BY DEF CaServiceRemoves, CaGoto, caNativeVars, caEventVars
<1>4. /\ caAt \in [CaTasks -> CaLabels] /\ caJob \in [CaTasks -> CaJobs] /\ caExcused \subseteq CaSessions
      /\ caFile \in [CaSessions -> Nat] /\ caNative \in [CaSessions -> Nat]
      /\ \A r \in CaSessions : caFile[r] <= caNative[r]
      /\ caLock \in CaTasks \cup {CaNobody} /\ caSyncing \in BOOLEAN
  BY DEF CaInv, CaShape, CaVersionsInv
<1>5. CaIsService(t)' <=> CaIsService(t)
  BY <1>2 DEF CaIsService
<1>6. /\ caAt' \in [CaTasks -> CaLabels] /\ caAt'[t] = "end"
      /\ \A u \in CaTasks \ {t} : caAt'[u] = caAt[u] /\ caJob'[u] = caJob[u] /\ (caLock = u => caLock' = u)
  BY <1>2, <1>4 DEF CaLabels
<1>7. /\ caFile' \in [CaSessions -> Nat]
      /\ \A r \in CaSessions : caFile'[r] = IF r \in caJob[t].keys THEN 0 ELSE caFile[r]
  BY <1>2, <1>4
<1>8. \A r \in CaSessions : caFile'[r] <= caNative[r]
  <2> TAKE r \in CaSessions
  <2>1. caNative[r] \in Nat
    BY <1>4
  <2> QED
    BY <1>4, <1>7, <2>1
<1>9. \A r \in CaSessions : (CaRight(r) => CaRight(r)') /\ ~CaHandledBy(t, r)
  BY <1>1, <1>2, <1>7 DEF CaRight, CaExists, CaHandledBy
<1>10. caClose = "open" =>
         \A r \in CaSessions \ caExcused' :
           CaRight(r)' \/ CaLater(r) \/ CaHandledBy(t, r)' \/ \E u \in CaTasks \ {t} : CaHandledBy(u, r)
  BY <1>2, <1>9 DEF CaInv, CaCareInv
<1> QED
  BY <1>1, <1>2, <1>4, <1>5, <1>6, <1>7, <1>8, <1>10, CaTaskKeeps

-----------------------------------------------------------------------------
(* Taking a call, the mutex, and coming back.                                 *)

\* Some goroutine waits for the mutex, and what was to come still is.
LEMMA CaWaitKeeps ==
  ASSUME CaInv, UNCHANGED <<caNative, caDeleted, caServer, caQueue, caFile, caClose, caLock, caExcused>>,
         caSpent' \in 0..CaBudget, caSpent <= caSpent', caSyncing' \in BOOLEAN,
         caPending' \subseteq CaSessions, caFull' \in BOOLEAN, caTimer' \in {"none", "armed", "fired"},
         caOldTimers' \in Nat, caDue' \in Nat,
         caAt' \in [CaTasks -> CaLabels], caJob' \in [CaTasks -> CaJobs],
         \A u \in CaTasks : \/ caAt'[u] = caAt[u] /\ caJob'[u] = caJob[u]
                            \/ /\ caAt[u] = "idle" /\ caAt'[u] = "lock" /\ caJob'[u].now = {}
                               /\ caJob'[u].op \in CaSyncOps \cup {"flush"}
                               /\ caJob'[u].op \in {"flush", "full"} => caClose = "open",
         \A s \in CaSessions : CaLater(s) => CaLater(s)', CaNoEventForgotten'
  PROVE  CaInv'
<1>1. CaShape'
  BY DEF CaInv, CaShape
<1>2. CaVersionsInv'
  <2> SUFFICES ASSUME NEW s \in CaSessions PROVE caNative[s] <= caSpent' /\ caFile[s] <= caNative[s]
    BY DEF CaVersionsInv
  <2>1. caNative[s] \in Nat /\ caSpent \in Nat /\ caSpent' \in Nat
    BY CaConstants DEF CaInv, CaShape
  <2> QED
    BY <2>1 DEF CaInv, CaVersionsInv
<1>3. CaWorkInv'
  <2> SUFFICES ASSUME NEW t \in CaTasks
               PROVE  /\ caAt'[t] = "idle" => caJob'[t] = CaIdle
                      /\ caAt'[t] = "lock" => caJob'[t].op \in CaSyncOps \cup {"flush"}
                      /\ caAt'[t] \in {"list", "prune"} => CaIsSync(t)'
                      /\ caAt'[t] \in CaHolds /\ ~CaIsService(t)' => caLock = t
                      /\ caAt'[t] # "write" => caJob'[t].now = {}
                      /\ \A s \in caJob'[t].now : caJob'[t].now = {s} /\ caJob'[t].version \in 1..caNative[s]
                      /\ caAt'[t] = "remove" => caJob'[t].keys \subseteq caDeleted
                      /\ caAt'[t] \in {"hydrate", "write", "prune"} /\ CaIsSync(t)' =>
                           caJob'[t].initial \ caJob'[t].listed \subseteq caDeleted
    BY DEF CaWorkInv
  <2>1. CASE caAt'[t] = caAt[t] /\ caJob'[t] = caJob[t]
    BY <2>1 DEF CaInv, CaWorkInv, CaIsSync, CaIsService
  <2>2. CASE caAt'[t] = "lock" /\ caJob'[t].op \in CaSyncOps \cup {"flush"} /\ caJob'[t].now = {}
    BY <2>2 DEF CaHolds
  <2> QED
    BY <2>1, <2>2
<1>4. CaReadInv'
  <2> SUFFICES ASSUME caClose = "open", NEW u \in CaTasks, ~CaIsService(u)', NEW s \in caJob'[u].now
               PROVE  (caJob'[u].version = caNative[s] /\ s \notin caDeleted) \/ CaLater(s)'
    BY DEF CaReadInv
  <2>1. caJob'[u] = caJob[u] /\ ~CaIsService(u) /\ s \in CaSessions
    BY DEF CaIsService, CaJobs
  <2> QED
    BY <2>1 DEF CaInv, CaReadInv
<1>5. CaCareInv'
  <2>1. \A s \in CaSessions : CaRight(s) => CaRight(s)'
    BY DEF CaRight, CaExists
  <2>2. ASSUME NEW u \in CaTasks, NEW s \in CaSessions, CaHandledBy(u, s) PROVE CaHandledBy(u, s)'
    <3>1. caAt[u] # "idle"
      BY <2>2 DEF CaHandledBy
    <3> QED
      BY <2>2, <3>1 DEF CaHandledBy, CaIsSync, CaIsService
  <2> SUFFICES ASSUME caClose = "open", NEW s \in CaSessions \ caExcused
               PROVE  CaRight(s)' \/ CaLater(s)' \/ \E t \in CaTasks : CaHandledBy(t, s)'
    BY DEF CaCareInv
  <2> QED
    BY <2>1, <2>2 DEF CaInv, CaCareInv
<1>6. CaClosedMeansQuiet'
  <2>1. \A t \in CaTasks : caClose = "closed" /\ caJob'[t].op \in {"flush", "full"} => caJob[t].op \in {"flush", "full"}
    OBVIOUS
  <2> QED
    BY <2>1 DEF CaInv, CaClosedMeansQuiet
<1> QED
  BY <1>1, <1>2, <1>3, <1>4, <1>5, <1>6 DEF CaInv

LEMMA CaTickKeeps ==
  ASSUME CaInv, NEW t \in CaTasks, CaTick(t)
  PROVE  CaInv'
<1>1. /\ UNCHANGED <<caNative, caDeleted, caServer, caQueue, caFile, caClose, caLock, caExcused, caPending, caFull,
                     caTimer, caOldTimers, caDue>>
      /\ caSpent < CaBudget /\ caSpent' = caSpent + 1 /\ caSyncing' = TRUE /\ CaTakes(t, "tick", {}, "lock")
  BY DEF CaTick, CaSpend, caEventVars
<1>2. "lock" \in CaLabels /\ "tick" \in CaSyncOps \cup CaServiceOps \cup {"flush"} /\ {} \in SUBSET CaSessions
  BY DEF CaLabels, CaSyncOps
<1>3. /\ caAt[t] = "idle" /\ caAt' \in [CaTasks -> CaLabels] /\ caJob' \in [CaTasks -> CaJobs]
      /\ caAt'[t] = "lock" /\ caJob'[t].op = "tick" /\ caJob'[t].now = {}
      /\ \A u \in CaTasks \ {t} : caAt'[u] = caAt[u] /\ caJob'[u] = caJob[u]
  BY <1>1, <1>2, CaTaken DEF CaInv
<1>4. \A s \in CaSessions : CaLater(s)'
  BY <1>3 DEF CaLater, CaWaiting, CaIsSync
<1>5. CaNoEventForgotten'
  BY <1>1 DEF CaInv, CaNoEventForgotten
<1>6. caSpent' \in 0..CaBudget /\ caSpent <= caSpent'
  BY <1>1, CaConstants DEF CaInv, CaShape
<1>7. /\ caPending' \subseteq CaSessions /\ caFull' \in BOOLEAN /\ caTimer' \in {"none", "armed", "fired"}
      /\ caOldTimers' \in Nat /\ caDue' \in Nat
  BY <1>1 DEF CaInv, CaShape
<1>8. \A u \in CaTasks : \/ caAt'[u] = caAt[u] /\ caJob'[u] = caJob[u]
                         \/ /\ caAt[u] = "idle" /\ caAt'[u] = "lock" /\ caJob'[u].now = {}
                            /\ caJob'[u].op \in CaSyncOps \cup {"flush"}
                            /\ caJob'[u].op \in {"flush", "full"} => caClose = "open"
  BY <1>3 DEF CaSyncOps
<1> QED
  BY <1>1, <1>3, <1>4, <1>5, <1>6, <1>7, <1>8, CaWaitKeeps

LEMMA CaFlushKeeps ==
  ASSUME CaInv, NEW t \in CaTasks, CaFlush(t)
  PROVE  CaInv'
<1>1. /\ UNCHANGED <<caNative, caDeleted, caServer, caSpent, caQueue, caFile, caClose, caLock, caSyncing, caExcused>>
      /\ caDue > 0 /\ caDue' = caDue - 1
  BY DEF CaFlush, caNativeVars
<1>2. /\ caSpent' \in 0..CaBudget /\ caSpent <= caSpent' /\ caSyncing' \in BOOLEAN /\ caDue' \in Nat
  BY <1>1, CaConstants DEF CaInv, CaShape
<1>3. CASE caClose # "open"
  <2>1. UNCHANGED <<caPending, caFull, caTimer, caOldTimers, caAt, caJob>>
    BY <1>3 DEF CaFlush
  <2>2. \A s \in CaSessions : CaLater(s) => CaLater(s)'
    BY <1>1, <2>1 DEF CaLater, CaOnStream, CaWaiting, CaIsSync
  <2>3. /\ caPending' \subseteq CaSessions /\ caFull' \in BOOLEAN /\ caTimer' \in {"none", "armed", "fired"}
        /\ caOldTimers' \in Nat /\ caAt' \in [CaTasks -> CaLabels] /\ caJob' \in [CaTasks -> CaJobs]
    BY <2>1 DEF CaInv, CaShape
  <2>4. CaNoEventForgotten'
    BY <1>1, <1>3 DEF CaNoEventForgotten
  <2>5. \A u \in CaTasks : caAt'[u] = caAt[u] /\ caJob'[u] = caJob[u]
    BY <2>1
  <2> QED
    BY <1>1, <1>2, <2>2, <2>3, <2>4, <2>5, CaWaitKeeps
<1>4. CASE caClose = "open"
  <2>1. /\ caPending' = {} /\ caFull' = FALSE /\ caTimer' = "none"
        /\ caOldTimers' = (IF caTimer = "armed" THEN caOldTimers + 1 ELSE caOldTimers)
        /\ IF caFull THEN CaTakes(t, "full", {}, "lock")
           ELSE IF caPending # {} THEN CaTakes(t, "flush", caPending, "lock") ELSE UNCHANGED <<caAt, caJob>>
    BY <1>4 DEF CaFlush
  <2>2. /\ caPending' \subseteq CaSessions /\ caFull' \in BOOLEAN /\ caTimer' \in {"none", "armed", "fired"}
        /\ caOldTimers' \in Nat
    <3>1. caOldTimers \in Nat
      BY DEF CaInv, CaShape
    <3>2. caOldTimers' \in Nat
      BY <2>1, <3>1
    <3> QED
      BY <2>1, <3>2
  <2>3. CaNoEventForgotten'
    BY <2>1 DEF CaNoEventForgotten
  <2>4. CASE ~caFull /\ caPending = {}
    <3>1. caAt' = caAt /\ caJob' = caJob /\ caFull' = caFull /\ caPending' = caPending
      BY <2>1, <2>4 DEF CaInv, CaShape
    <3>2. \A s \in CaSessions : CaLater(s) => CaLater(s)'
      BY <1>1, <3>1 DEF CaLater, CaOnStream, CaWaiting, CaIsSync
    <3>3. /\ caAt' \in [CaTasks -> CaLabels] /\ caJob' \in [CaTasks -> CaJobs]
          /\ \A u \in CaTasks : caAt'[u] = caAt[u] /\ caJob'[u] = caJob[u]
      BY <3>1 DEF CaInv, CaShape
    <3> QED
      BY <1>1, <1>2, <2>2, <2>3, <3>2, <3>3, CaWaitKeeps
  <2>5. CASE caFull \/ caPending # {}
    <3> DEFINE op == IF caFull THEN "full" ELSE "flush"
               keys == IF caFull THEN {} ELSE caPending
    <3>1. CaTakes(t, op, keys, "lock")
      BY <2>1, <2>5
    <3>2. "lock" \in CaLabels /\ op \in CaSyncOps \cup CaServiceOps \cup {"flush"} /\ keys \in SUBSET CaSessions
      BY DEF CaLabels, CaSyncOps, CaInv, CaShape
    <3>3. /\ caAt[t] = "idle" /\ caAt' \in [CaTasks -> CaLabels] /\ caJob' \in [CaTasks -> CaJobs]
          /\ caAt'[t] = "lock" /\ caJob'[t].op = op /\ caJob'[t].keys = keys /\ caJob'[t].now = {}
          /\ \A u \in CaTasks \ {t} : caAt'[u] = caAt[u] /\ caJob'[u] = caJob[u]
      <4> HIDE DEF op, keys
      <4> QED
        BY <3>1, <3>2, CaTaken DEF CaInv
    <3>4. ASSUME NEW s \in CaSessions, CaLater(s) PROVE CaLater(s)'
      <4>1. CASE caFull
        BY <3>3, <4>1 DEF CaLater, CaWaiting, CaIsSync
      <4>2. CASE ~caFull /\ s \in caPending /\ s \notin caDeleted
        <5>1. s \in caJob'[t].keys /\ s \notin caDeleted'
          BY <1>1, <3>3, <4>2
        <5> QED
          BY <3>3, <5>1 DEF CaLater, CaWaiting
      <4>3. CASE CaWaiting(s)
        <5>1. PICK u \in CaTasks : caAt[u] = "lock" /\ (CaIsSync(u) \/ (s \in caJob[u].keys /\ s \notin caDeleted))
          BY <4>3 DEF CaWaiting
        <5>2. u # t
          BY <3>3, <5>1
        <5>3. caAt'[u] = "lock" /\ (CaIsSync(u)' \/ (s \in caJob'[u].keys /\ s \notin caDeleted'))
          BY <1>1, <3>3, <5>1, <5>2 DEF CaIsSync
        <5> QED
          BY <5>3 DEF CaLater, CaWaiting
      <4>4. CASE caServer = "down" \/ CaOnStream(s)
        BY <1>1, <4>4 DEF CaLater, CaOnStream
      <4> QED
        BY <3>4, <4>1, <4>2, <4>3, <4>4 DEF CaLater
    <3>5. \A u \in CaTasks : \/ caAt'[u] = caAt[u] /\ caJob'[u] = caJob[u]
                             \/ /\ caAt[u] = "idle" /\ caAt'[u] = "lock" /\ caJob'[u].now = {}
                                /\ caJob'[u].op \in CaSyncOps \cup {"flush"}
                                /\ caJob'[u].op \in {"flush", "full"} => caClose = "open"
      BY <1>4, <3>3 DEF CaSyncOps
    <3> HIDE DEF op, keys
    <3> QED
      BY <1>1, <1>2, <2>2, <2>3, <3>3, <3>4, <3>5, CaWaitKeeps
  <2> QED
    BY <2>4, <2>5 DEF CaInv, CaShape
<1> QED
  BY <1>3, <1>4

\* What waits for the mutex is handled by the one that gets it.
LEMMA CaAcquireKeeps ==
  ASSUME CaInv, NEW t \in CaTasks, CaAcquire(t)
  PROVE  CaInv'
<1>1. /\ UNCHANGED <<caNative, caDeleted, caServer, caSpent, caQueue, caPending, caFull, caTimer, caOldTimers, caDue,
                     caClose, caFile, caSyncing, caExcused, caJob>>
      /\ caAt[t] = "lock" /\ caLock = CaNobody /\ caLock' = t
      /\ caAt' = [caAt EXCEPT ![t] = IF CaIsSync(t) THEN "list" ELSE "hydrate"]
  BY DEF CaAcquire, CaGoto, caNativeVars, caEventVars
<1>2. caJob[t].op \in CaSyncOps \cup {"flush"} /\ caJob[t].now = {}
  BY <1>1 DEF CaInv, CaWorkInv
<1>3. ~CaIsService(t) /\ (\A u : CaIsService(u)' <=> CaIsService(u)) /\ (\A u : CaIsSync(u)' <=> CaIsSync(u))
  BY <1>1, <1>2 DEF CaIsService, CaIsSync, CaSyncOps
<1>4. /\ caAt' \in [CaTasks -> CaLabels] /\ caAt'[t] = (IF CaIsSync(t) THEN "list" ELSE "hydrate")
      /\ \A u \in CaTasks \ {t} : caAt'[u] = caAt[u]
  BY <1>1 DEF CaInv, CaShape, CaLabels
<1>5. \A u \in CaTasks : caAt[u] \in CaHolds => CaIsService(u)
  BY <1>1, CaNobodyAssumption DEF CaInv, CaWorkInv
<1>6. CaShape' /\ CaVersionsInv'
  BY <1>1, <1>4 DEF CaInv, CaShape, CaVersionsInv
<1>7. CaWorkInv'
  <2> SUFFICES ASSUME NEW u \in CaTasks
               PROVE  /\ caAt'[u] = "idle" => caJob[u] = CaIdle
                      /\ caAt'[u] = "lock" => caJob[u].op \in CaSyncOps \cup {"flush"}
                      /\ caAt'[u] \in {"list", "prune"} => CaIsSync(u)
                      /\ caAt'[u] \in CaHolds /\ ~CaIsService(u) => u = t
                      /\ caAt'[u] # "write" => caJob[u].now = {}
                      /\ \A s \in caJob[u].now : caJob[u].now = {s} /\ caJob[u].version \in 1..caNative[s]
                      /\ caAt'[u] = "remove" => caJob[u].keys \subseteq caDeleted
                      /\ caAt'[u] \in {"hydrate", "write", "prune"} /\ CaIsSync(u) =>
                           caJob[u].initial \ caJob[u].listed \subseteq caDeleted
    BY <1>1, <1>3 DEF CaWorkInv
  <2>1. CASE u = t
    BY <1>2, <1>4, <2>1
  <2>2. CASE u # t
    BY <1>4, <1>5, <2>2 DEF CaInv, CaWorkInv
  <2> QED
    BY <2>1, <2>2
<1>8. CaReadInv'
  <2>1. \A u \in CaTasks : ~CaIsService(u) => caJob[u].now = {}
    BY <1>5 DEF CaInv, CaWorkInv, CaHolds
  <2> QED
    BY <1>1, <1>3, <2>1 DEF CaReadInv
<1>9. CaCareInv'
  <2> SUFFICES ASSUME caClose = "open", NEW s \in CaSessions \ caExcused
               PROVE  CaRight(s)' \/ CaLater(s)' \/ \E u \in CaTasks : CaHandledBy(u, s)'
    BY <1>1 DEF CaCareInv
  <2>1. CaRight(s) => CaRight(s)'
    BY <1>1 DEF CaRight, CaExists
  <2>2. CaLater(s) => CaLater(s)' \/ CaHandledBy(t, s)'
    <3>1. ASSUME CaWaiting(s) PROVE CaWaiting(s)' \/ CaHandledBy(t, s)'
      <4>1. PICK u \in CaTasks : caAt[u] = "lock" /\ (CaIsSync(u) \/ (s \in caJob[u].keys /\ s \notin caDeleted))
        BY <3>1 DEF CaWaiting
      <4>2. CASE u = t
        BY <1>1, <1>3, <1>4, <4>1, <4>2 DEF CaHandledBy
      <4>3. CASE u # t
        BY <1>1, <1>3, <1>4, <4>1, <4>3 DEF CaWaiting
      <4> QED
        BY <4>2, <4>3
    <3> QED
      BY <1>1, <3>1 DEF CaLater, CaOnStream
  <2>3. ASSUME NEW u \in CaTasks, CaHandledBy(u, s) PROVE CaHandledBy(u, s)'
    <3>1. u # t
      BY <1>1, <2>3 DEF CaHandledBy
    <3> QED
      BY <1>1, <1>3, <1>4, <2>3, <3>1 DEF CaHandledBy
  <2> QED
    BY <2>1, <2>2, <2>3 DEF CaInv, CaCareInv
<1>10. CaNoEventForgotten' /\ CaClosedMeansQuiet'
  BY <1>1 DEF CaInv, CaNoEventForgotten, CaClosedMeansQuiet
<1> QED
  BY <1>6, <1>7, <1>8, <1>9, <1>10 DEF CaInv

\* The call returns; with a server that failed goes what was on its stream.
LEMMA CaEndKeeps ==
  ASSUME CaInv, NEW t \in CaTasks, CaEnd(t)
  PROVE  CaInv'
<1>1. /\ UNCHANGED <<caNative, caDeleted, caSpent, caPending, caFull, caTimer, caOldTimers, caDue, caClose, caFile,
                     caExcused>>
      /\ caAt[t] = "end" /\ caLock' = (IF caLock = t THEN CaNobody ELSE caLock)
      /\ caSyncing' = (IF caJob[t].op = "tick" THEN FALSE ELSE caSyncing)
      /\ caServer' \in {caServer, "down", "up"} /\ (caServer = "down" => caServer' = "down")
      /\ caQueue' = (IF caServer' = "down" THEN <<>> ELSE caQueue)
      /\ caJob' = [caJob EXCEPT ![t] = CaIdle] /\ caAt' = [caAt EXCEPT ![t] = "idle"]
  BY DEF CaEnd, CaGoto, caEventVars
<1>2. /\ caAt' \in [CaTasks -> CaLabels] /\ caJob' \in [CaTasks -> CaJobs]
      /\ caAt'[t] = "idle" /\ caJob'[t] = CaIdle
      /\ \A u \in CaTasks \ {t} : caAt'[u] = caAt[u] /\ caJob'[u] = caJob[u]
  BY <1>1, CaIdleFields DEF CaInv, CaShape, CaLabels
<1>3. CaShape'
  <2>1. caQueue' \in Seq(CaEvents) /\ caServer' \in {"up", "down", "connected"}
    BY <1>1 DEF CaInv, CaShape
  <2> QED
    BY <1>1, <1>2, <2>1 DEF CaInv, CaShape
<1>4. CaVersionsInv'
  BY <1>1 DEF CaInv, CaVersionsInv
<1>5. CaWorkInv'
  <2>1. /\ \A u \in CaTasks \ {t} :
             caAt'[u] = caAt[u] /\ caJob'[u] = caJob[u] /\ (caLock = u => caLock' = u)
        /\ \A s \in CaSessions : caNative[s] <= caNative'[s]
        /\ caNative' \in [CaSessions -> Nat] /\ caDeleted \subseteq caDeleted'
    BY <1>1, <1>2 DEF CaInv, CaShape
  <2>2. CaWorkInv /\ CaShape
    BY DEF CaInv
  <2>3. \A s \in CaSessions : caNative[s] <= caNative'[s]
    BY <2>1
  <2>4. caAt'[t] = "idle" /\ caJob'[t] = CaIdle /\ CaIdle.now = {} /\ "idle" \notin CaHolds
    BY <1>2, CaIdleFields DEF CaHolds
  <2> QED
    BY <2>1, <2>2, <2>3, <2>4, CaOthersWork DEF CaWorkInv
<1>6. \A s \in CaSessions : CaLater(s) => CaLater(s)'
  <2>1. ASSUME NEW s \in CaSessions, CaWaiting(s) PROVE CaWaiting(s)'
    <3>1. PICK u \in CaTasks : caAt[u] = "lock" /\ (CaIsSync(u) \/ (s \in caJob[u].keys /\ s \notin caDeleted))
      BY <2>1 DEF CaWaiting
    <3>2. u # t
      BY <1>1, <3>1
    <3> QED
      BY <1>1, <1>2, <3>1, <3>2 DEF CaWaiting, CaIsSync
  <2>2. CASE caServer' = "down"
    BY <2>2 DEF CaLater
  <2>3. CASE caServer' # "down"
    BY <1>1, <2>1, <2>3 DEF CaLater, CaOnStream
  <2> QED
    BY <2>2, <2>3
<1>7. CaReadInv'
  <2> SUFFICES ASSUME caClose = "open", NEW u \in CaTasks, ~CaIsService(u)', NEW s \in caJob'[u].now
               PROVE  (caJob'[u].version = caNative[s] /\ s \notin caDeleted) \/ CaLater(s)'
    BY <1>1 DEF CaReadInv
  <2>1. u # t
    BY <1>2, CaIdleFields
  <2>2. caJob'[u] = caJob[u] /\ ~CaIsService(u) /\ s \in CaSessions
    BY <1>2, <2>1, CaFields DEF CaInv, CaIsService
  <2> QED
    BY <1>6, <2>2 DEF CaInv, CaReadInv
<1>8. CaCareInv'
  <2> SUFFICES ASSUME caClose = "open", NEW s \in CaSessions \ caExcused
               PROVE  CaRight(s)' \/ CaLater(s)' \/ \E u \in CaTasks : CaHandledBy(u, s)'
    BY <1>1 DEF CaCareInv
  <2>1. CaRight(s) => CaRight(s)'
    BY <1>1 DEF CaRight, CaExists
  <2>2. ASSUME NEW u \in CaTasks, CaHandledBy(u, s) PROVE CaHandledBy(u, s)'
    <3>1. u # t
      BY <1>1, <2>2 DEF CaHandledBy
    <3> QED
      BY <1>1, <1>2, <2>2, <3>1 DEF CaHandledBy, CaIsSync, CaIsService
  <2> QED
    BY <1>6, <2>1, <2>2 DEF CaInv, CaCareInv
<1>9. CaNoEventForgotten' /\ CaClosedMeansQuiet'
  <2>1. \A u \in CaTasks : caJob'[u].op \in {"flush", "full"} => caJob[u].op \in {"flush", "full"}
    BY <1>2, CaIdleFields
  <2> QED
    BY <1>1, <2>1 DEF CaInv, CaNoEventForgotten, CaClosedMeansQuiet
<1> QED
  BY <1>3, <1>4, <1>5, <1>7, <1>8, <1>9 DEF CaInv

-----------------------------------------------------------------------------
LEMMA CaKeeps ==
  ASSUME CaInv, [CaNext]_caVars
  PROVE  CaInv'
<1>1. CASE UNCHANGED caVars
  <2>1. UNCHANGED <<caNativeVars, caFile, caTaskVars, caExcused, caQueue, caPending, caFull, caTimer, caOldTimers,
                    caDue, caClose>>
    BY <1>1 DEF caVars, caEventVars
  <2>2. \A s \in CaSessions : CaLater(s) => CaLater(s)'
    BY <2>1 DEF CaLater, CaOnStream, CaWaiting, CaIsSync, caNativeVars, caTaskVars
  <2>3. CaNoEventForgotten' /\ CaClosedMeansQuiet'
    BY <2>1 DEF CaInv, CaNoEventForgotten, CaClosedMeansQuiet, caTaskVars
  <2>4. /\ caQueue' \in Seq(CaEvents) /\ caPending' \subseteq CaSessions /\ caFull' \in BOOLEAN
        /\ caTimer' \in {"none", "armed", "fired"} /\ caOldTimers' \in Nat /\ caDue' \in Nat
        /\ caClose' \in {"open", "waiting", "closed"}
    BY <2>1 DEF CaInv, CaShape
  <2>5. caClose' = "open" => caClose = "open" /\ \A s \in CaSessions : CaLater(s) => CaLater(s)'
    BY <2>1, <2>2
  <2> QED
    BY <2>1, <2>3, <2>4, <2>5, CaEventsKeep
<1>2. CASE CaNext
  BY <1>2, CaNativeKeeps, CaServerKeeps, CaHandleKeeps, CaTimerKeeps, CaFlushKeeps, CaTickKeeps, CaAcquireKeeps,
     CaListKeeps, CaHydrateKeeps, CaConfirmKeeps, CaPruneKeeps, CaEndKeeps, CaRemoveKeeps, CaMaterializeKeeps,
     CaServiceBegins DEF CaNext
<1> QED
  BY <1>1, <1>2

LEMMA CaAlways ==
  ASSUME CaInv
  PROVE  CaTypeOK /\ CaCaughtUp /\ CaNoEventForgotten /\ CaClosedMeansQuiet
<1>1. CaTypeOK
  <2>1. \A s \in CaSessions : caNative[s] \in 0..CaBudget /\ caFile[s] \in 0..CaBudget /\ caFile[s] <= caNative[s]
    <3> TAKE s \in CaSessions
    <3>1. caNative[s] \in Nat /\ caFile[s] \in Nat /\ caSpent \in 0..CaBudget
      BY DEF CaInv, CaShape
    <3> QED
      BY <3>1, CaConstants DEF CaInv, CaVersionsInv
  <2> QED
    BY <2>1 DEF CaInv, CaShape, CaTypeOK
<1>2. CaCaughtUp
  <2> SUFFICES ASSUME caServer = "up", caClose = "open", caQueue = <<>>, caPending = {}, ~caFull,
                      \A t \in CaTasks : caAt[t] = "idle", NEW s \in CaSessions \ caExcused
               PROVE  CaRight(s)
    BY DEF CaCaughtUp, CaRight
  <2>1. ~CaLater(s)
    BY DEF CaLater, CaOnStream, CaWaiting
  <2>2. \A t \in CaTasks : ~CaHandledBy(t, s)
    BY DEF CaHandledBy
  <2> QED
    BY <2>1, <2>2 DEF CaInv, CaCareInv
<1> QED
  BY <1>1, <1>2 DEF CaInv

\* Only a deleted session loses its projection.
LEMMA CaPruningIsMeant ==
  ASSUME CaInv, [CaNext]_caVars
  PROVE  CaPrunesOnlyDeleted
<1> SUFFICES ASSUME NEW s \in CaSessions, caFile[s] > 0, caFile'[s] = 0 PROVE ~CaExists(s)
  BY DEF CaPrunesOnlyDeleted
<1>1. caFile' # caFile /\ caFile \in [CaSessions -> Nat]
  BY DEF CaInv, CaShape
<1>2. \E t \in CaTasks : CaPrune(t) \/ CaServiceRemoves(t) \/ \E r \in CaSessions : CaMaterialize(t, r)
  BY <1>1 DEF CaNext, caVars, CaNativeChange, CaServerLost, CaHandleEvent, CaTimerFires, CaClose, CaServerStarts,
              CaFlush, CaTick, CaAcquire, CaList, CaHydrate, CaConfirm, CaEnd, CaServiceWrites, CaServiceDeletes
<1>3. PICK t \in CaTasks : CaPrune(t) \/ CaServiceRemoves(t) \/ \E r \in CaSessions : CaMaterialize(t, r)
  BY <1>2
<1>4. CASE CaPrune(t)
  <2>1. caJob[t].initial \ caJob[t].listed \subseteq caDeleted
    BY <1>4 DEF CaPrune, CaInv, CaWorkInv
  <2>2. PICK r \in CaStale(t) : caFile' = [caFile EXCEPT ![r] = 0]
    BY <1>1, <1>4 DEF CaPrune
  <2>3. s = r
    BY <1>1, <2>2
  <2> QED
    BY <2>1, <2>3 DEF CaStale, CaExists
<1>5. CASE CaServiceRemoves(t)
  <2>1. s \in caJob[t].keys
    BY <1>5 DEF CaServiceRemoves
  <2> QED
    BY <1>5, <2>1 DEF CaServiceRemoves, CaInv, CaWorkInv, CaExists
<1>6. ASSUME NEW r \in CaSessions, CaMaterialize(t, r) PROVE FALSE
  <2>1. caJob[t].version \in 1..caNative[r] /\ caNative[r] \in Nat
    BY <1>6 DEF CaMaterialize, CaInv, CaWorkInv, CaShape
  <2>2. caFile' = [caFile EXCEPT ![r] = caJob[t].version]
    BY <1>6 DEF CaMaterialize
  <2> QED
    BY <1>1, <2>1, <2>2
<1> QED
  BY <1>3, <1>4, <1>5, <1>6

-----------------------------------------------------------------------------
(* The Claude catalog: whatever changed is to be found, or is in hand.     *)

CgVersions == 0..CgBudget
CgKeys == CgSessions \cup {CgAll}
CgKinds == {"idle", "refresh", "materialize", "remember", "scan", "stat", "parse", "write", "prune"}
CgCalls == [kind : CgKinds, watcher : BOOLEAN, todo : SUBSET CgSessions, initial : SUBSET CgSessions,
            paths : SUBSET CgSessions, read : SUBSET CgSessions, now : SUBSET CgSessions,
            stamp : CgVersions, parsed : [CgSessions -> CgVersions], complete : BOOLEAN,
            confirmed : CgVersions]

CgShape ==
  /\ cgNative \in [CgSessions -> CgVersions]
  /\ cgProj \in [CgSessions -> [version : CgVersions, fresh : BOOLEAN]]
  /\ cgFiles \in [CgSessions -> [stamp : CgVersions, materialized : BOOLEAN]]
  /\ cgEvents \subseteq CgKeys /\ cgMap \subseteq CgKeys
  /\ cgArmed \subseteq CgKeys /\ cgReady \subseteq CgKeys
  /\ cgOp \in CgCalls /\ cgSpent \in CgVersions /\ cgExcused \subseteq CgSessions

\* A transcript only gets newer: nothing knows a later one.
CgOrderInv ==
  \A s \in CgSessions :
    /\ cgProj[s].fresh => cgProj[s].version = 0
    /\ cgNative[s] <= cgSpent /\ cgProj[s].version <= cgSpent /\ cgFiles[s].stamp <= cgSpent
    /\ cgOp.parsed[s] <= cgSpent /\ cgOp.stamp <= cgSpent /\ cgOp.confirmed <= cgSpent
    /\ cgNative[s] > 0 => /\ cgProj[s].version <= cgNative[s] /\ cgFiles[s].stamp <= cgNative[s]
                          /\ cgOp.parsed[s] <= cgNative[s]
                          /\ s \in cgOp.now => cgOp.stamp <= cgNative[s]

\* Something is still to come that looks at the transcript, or at its absence.
CgComing == cgEvents \cup cgArmed \cup cgReady
CgPending(s) == CgAll \in CgComing \/ (cgNative[s] > 0 /\ s \in CgComing)

CgLooking == {"stat", "parse", "write"}

\* What a call found is so, or has changed since and will be looked at again.
CgFoundInv ==
  /\ cgOp.kind # "parse" => cgOp.now = {}
  /\ cgOp.kind \in {"idle", "refresh", "scan"} => cgOp.read = {} /\ \A s \in CgSessions : cgOp.parsed[s] = 0
  /\ cgOp.kind \in CgLooking => cgOp.todo \cup cgOp.read \cup cgOp.now \subseteq cgOp.paths
  /\ \A s \in CgSessions :
       /\ cgOp.kind \in {"refresh", "materialize", "remember"} /\ s \in cgOp.todo => cgOp.todo = {s}
       /\ s \in cgOp.now => cgOp.now = {s} /\ s \notin cgOp.todo
       /\ cgOp.kind \in CgLooking =>
            /\ (s \in cgOp.paths <=> cgNative[s] > 0) \/ CgPending(s)
            /\ s \notin cgOp.paths /\ cgProj[s].version # 0 => s \in cgOp.initial
            /\ cgOp.parsed[s] # 0 => s \in cgOp.read /\ (cgOp.parsed[s] = cgNative[s] \/ CgPending(s))
       /\ cgOp.kind \in {"stat", "parse"} =>
            /\ s \in cgOp.read => s \notin cgOp.todo \cup cgOp.now
            /\ s \in cgOp.read /\ cgOp.parsed[s] # 0 => ~cgFiles[s].materialized
       /\ cgOp.kind = "write" /\ s \in cgOp.todo =>
            s \in cgOp.read /\ (cgOp.parsed[s] # 0 => ~cgFiles[s].materialized)
       /\ cgOp.kind = "materialize" /\ s \in cgOp.todo =>
            cgOp.parsed[s] # 0 /\ (cgOp.parsed[s] = cgNative[s] \/ CgPending(s))
       /\ cgOp.kind = "prune" /\ s \in cgOp.todo =>
            cgNative[s] = 0 \/ (cgNative[s] > cgOp.confirmed /\ CgPending(s))

CgSettled(s) == cgProj[s].version = cgNative[s] \/ CgMisremembered(s)

\* The call under way will see to it.
CgHandled(s) ==
  \/ cgOp.kind = "scan"
  \/ cgOp.kind = "refresh" /\ cgOp.watcher /\ s \in cgOp.todo /\ cgNative[s] > 0
  \/ cgOp.kind = "materialize" /\ s \in cgOp.todo
  \/ cgOp.kind \in {"stat", "parse"} /\ s \in cgOp.todo \cup cgOp.now
  \/ cgOp.kind \in {"stat", "parse"} /\ s \in cgOp.read /\ cgOp.parsed[s] # 0
  \/ cgOp.kind = "write" /\ s \in cgOp.todo /\ cgOp.parsed[s] # 0
  \/ cgOp.kind \in CgLooking /\ s \in cgOp.initial \ cgOp.paths
  \/ cgOp.kind = "prune" /\ s \in cgOp.todo

\* No session is forgotten.
CgCareInv == \A s \in CgSessions \ cgExcused : CgSettled(s) \/ CgPending(s) \/ CgHandled(s)

CgInv == CgShape /\ CgOrderInv /\ CgFoundInv /\ CgCareInv
-----------------------------------------------------------------------------
LEMMA CgNoOpFields ==
  /\ CgNoOp \in CgCalls /\ CgNoOp.kind = "idle" /\ CgNoOp.todo = {} /\ CgNoOp.read = {} /\ CgNoOp.now = {}
  /\ CgNoOp.stamp = 0 /\ CgNoOp.confirmed = 0 /\ \A s \in CgSessions : CgNoOp.parsed[s] = 0
<1>1. 0 \in CgVersions /\ [s \in CgSessions |-> 0] \in [CgSessions -> CgVersions]
  BY CgConstants DEF CgVersions
<1> QED
  BY <1>1 DEF CgNoOp, CgCalls, CgKinds

LEMMA CgStarts == CgInit => CgInv
<1> SUFFICES ASSUME CgInit PROVE CgInv
  OBVIOUS
<1>1. 0 \in CgVersions /\ CgNoProj \in [version : CgVersions, fresh : BOOLEAN]
      /\ CgNoFile \in [stamp : CgVersions, materialized : BOOLEAN]
  BY CgConstants DEF CgVersions, CgNoProj, CgNoFile
<1>2. CgShape
  BY <1>1, CgNoOpFields DEF CgInit, CgShape
<1>3. CgOrderInv /\ CgFoundInv
  BY CgNoOpFields DEF CgInit, CgOrderInv, CgFoundInv, CgNoProj, CgNoFile, CgLooking
<1>4. CgCareInv
  BY DEF CgInit, CgCareInv, CgSettled, CgNoProj
<1> QED
  BY <1>2, <1>3, <1>4 DEF CgInv

LEMMA CgTyped ==
  ASSUME CgShape, NEW s \in CgSessions
  PROVE  /\ cgNative[s] \in Nat /\ cgProj[s].version \in Nat /\ cgFiles[s].stamp \in Nat /\ cgSpent \in Nat
         /\ cgOp.parsed[s] \in Nat /\ cgOp.stamp \in Nat /\ cgOp.confirmed \in Nat
  BY CgConstants DEF CgShape, CgVersions, CgCalls

LEMMA CgTypedNext ==
  ASSUME CgShape', NEW s \in CgSessions
  PROVE  /\ cgNative'[s] \in Nat /\ cgProj'[s].version \in Nat /\ cgFiles'[s].stamp \in Nat /\ cgSpent' \in Nat
         /\ cgOp'.parsed[s] \in Nat /\ cgOp'.stamp \in Nat /\ cgOp'.confirmed \in Nat
  BY CgConstants DEF CgShape, CgVersions, CgCalls

\* A step outside the calls: a transcript that changes is still to be looked at.
LEMMA CgOutside ==
  ASSUME CgInv, CgShape', cgOp' = cgOp, cgExcused' = cgExcused, cgFiles' = cgFiles, cgSpent <= cgSpent',
         CgComing \subseteq CgComing',
         \A s \in CgSessions :
           \/ cgNative'[s] = cgNative[s] /\ cgProj'[s] = cgProj[s]
           \/ /\ cgProj'[s] = cgProj[s] /\ CgPending(s)'
              /\ cgNative'[s] = 0 \/ (cgNative'[s] = cgSpent' /\ cgSpent < cgSpent')
           \/ cgNative'[s] = cgNative[s] /\ cgNative[s] = 0 /\ cgProj'[s].version = 0
  PROVE  CgInv'
<1>1. CgOrderInv'
  <2> SUFFICES ASSUME NEW s \in CgSessions
               PROVE  /\ cgProj'[s].fresh => cgProj'[s].version = 0
                      /\ cgNative'[s] <= cgSpent' /\ cgProj'[s].version <= cgSpent' /\ cgFiles[s].stamp <= cgSpent'
                      /\ cgOp.parsed[s] <= cgSpent' /\ cgOp.stamp <= cgSpent' /\ cgOp.confirmed <= cgSpent'
                      /\ cgNative'[s] > 0 => /\ cgProj'[s].version <= cgNative'[s]
                                             /\ cgFiles[s].stamp <= cgNative'[s]
                                             /\ cgOp.parsed[s] <= cgNative'[s]
                                             /\ s \in cgOp.now => cgOp.stamp <= cgNative'[s]
    BY DEF CgOrderInv
  <2> QED
    BY CgTyped, CgTypedNext DEF CgInv, CgOrderInv
<1>2. \A s \in CgSessions : /\ cgNative'[s] = cgNative[s] \/ CgPending(s)'
                            /\ CgPending(s) => CgPending(s)'
  BY DEF CgPending
<1>3. CgFoundInv'
  <2> SUFFICES ASSUME NEW s \in CgSessions
               PROVE  /\ cgOp.kind \in CgLooking =>
                           /\ (s \in cgOp.paths <=> cgNative'[s] > 0) \/ CgPending(s)'
                           /\ s \notin cgOp.paths /\ cgProj'[s].version # 0 => s \in cgOp.initial
                           /\ cgOp.parsed[s] # 0 => s \in cgOp.read /\ (cgOp.parsed[s] = cgNative'[s] \/ CgPending(s)')
                      /\ cgOp.kind = "materialize" /\ s \in cgOp.todo =>
                           cgOp.parsed[s] # 0 /\ (cgOp.parsed[s] = cgNative'[s] \/ CgPending(s)')
                      /\ cgOp.kind = "prune" /\ s \in cgOp.todo =>
                           cgNative'[s] = 0 \/ (cgNative'[s] > cgOp.confirmed /\ CgPending(s)')
    BY DEF CgInv, CgFoundInv
  <2>1. cgOp.confirmed <= cgSpent /\ cgOp.confirmed \in Nat /\ cgSpent \in Nat /\ cgSpent' \in Nat
    BY CgTyped, CgTypedNext DEF CgInv, CgOrderInv
  <2> QED
    BY <1>2, <2>1 DEF CgInv, CgFoundInv
<1>4. CgCareInv'
  <2> SUFFICES ASSUME NEW s \in CgSessions, s \notin cgExcused PROVE CgSettled(s)' \/ CgPending(s)' \/ CgHandled(s)'
    BY DEF CgCareInv
  <2>1. CASE CgPending(s)'
    BY <2>1
  <2>2. CASE cgNative'[s] = cgNative[s] /\ cgNative[s] = 0 /\ cgProj'[s].version = 0
    BY <2>2 DEF CgSettled
  <2>3. CASE cgNative'[s] = cgNative[s] /\ cgProj'[s] = cgProj[s] /\ ~CgPending(s)'
    <3>1. CgSettled(s) \/ CgHandled(s)
      BY <1>2, <2>3 DEF CgInv, CgCareInv
    <3>2. CgSettled(s) => CgSettled(s)'
      BY <2>3 DEF CgSettled, CgMisremembered
    <3>3. CgHandled(s) => CgHandled(s)'
      BY <2>3 DEF CgHandled, CgLooking
    <3> QED
      BY <3>1, <3>2, <3>3
  <2> QED
    BY <2>1, <2>2, <2>3
<1> QED
  BY <1>1, <1>3, <1>4 DEF CgInv

LEMMA CgFilesKeep ==
  ASSUME CgInv, NEW s \in CgSessions, CgClaudeWrites(s) \/ CgClaudeRemoves(s) \/ CgCreate(s) \/ CgNewProject
  PROVE  CgInv'
<1>1. /\ cgOp' = cgOp /\ cgExcused' = cgExcused /\ cgFiles' = cgFiles
      /\ cgSpent' = cgSpent + 1 /\ cgSpent < CgBudget
      /\ UNCHANGED <<cgMap, cgArmed, cgReady>> /\ cgEvents \subseteq cgEvents' /\ cgEvents' \subseteq CgKeys
  <2>1. cgEvents \subseteq CgKeys /\ s \in CgKeys /\ CgAll \in CgKeys
    BY DEF CgInv, CgShape, CgKeys
  <2> QED
    BY <2>1 DEF CgClaudeWrites, CgClaudeRemoves, CgCreate, CgNewProject, CgSpend, cgWatchVars
<1>2. cgSpent \in Nat /\ cgSpent' \in CgVersions /\ cgSpent < cgSpent' /\ 0 \in CgVersions
  BY <1>1, CgConstants DEF CgInv, CgShape, CgVersions
<1>3. /\ cgNative' \in [CgSessions -> CgVersions]
      /\ cgProj' \in [CgSessions -> [version : CgVersions, fresh : BOOLEAN]]
      /\ \A u \in CgSessions :
           \/ cgNative'[u] = cgNative[u] /\ cgProj'[u] = cgProj[u]
           \/ /\ cgProj'[u] = cgProj[u] /\ CgPending(u)'
              /\ cgNative'[u] = 0 \/ (cgNative'[u] = cgSpent' /\ cgSpent < cgSpent')
           \/ cgNative'[u] = cgNative[u] /\ cgNative[u] = 0 /\ cgProj'[u].version = 0
  <2>1. cgNative \in [CgSessions -> CgVersions] /\ cgProj \in [CgSessions -> [version : CgVersions, fresh : BOOLEAN]]
    BY DEF CgInv, CgShape
  <2>2. CASE CgClaudeWrites(s)
    <3>1. cgNative' = [cgNative EXCEPT ![s] = cgSpent'] /\ cgProj' = cgProj /\ s \in cgEvents'
      BY <2>2 DEF CgClaudeWrites
    <3>2. cgNative'[s] > 0
      BY <1>2, <2>1, <3>1, CgConstants DEF CgVersions
    <3>3. CgPending(s)'
      BY <3>1, <3>2 DEF CgPending, CgComing
    <3> QED
      BY <1>2, <2>1, <3>1, <3>3
  <2>3. CASE CgClaudeRemoves(s)
    <3>1. cgNative' = [cgNative EXCEPT ![s] = 0] /\ cgProj' = cgProj /\ CgAll \in cgEvents'
      BY <2>3 DEF CgClaudeRemoves
    <3>2. CgPending(s)'
      BY <3>1 DEF CgPending, CgComing
    <3> QED
      BY <1>2, <2>1, <3>1, <3>2
  <2>4. CASE CgCreate(s)
    BY <1>2, <2>1, <2>4 DEF CgCreate
  <2>5. CASE CgNewProject
    BY <2>1, <2>5 DEF CgNewProject
  <2> QED
    BY <2>2, <2>3, <2>4, <2>5
<1>4. CgShape'
  BY <1>1, <1>2, <1>3 DEF CgInv, CgShape
<1>5. CgComing \subseteq CgComing' /\ cgSpent <= cgSpent'
  BY <1>1, <1>2 DEF CgComing
<1> QED
  BY <1>1, <1>3, <1>4, <1>5, CgOutside

LEMMA CgTimersKeep ==
  ASSUME CgInv, NEW key \in CgKeys, CgFileEvent(key) \/ CgTimerFires(key)
  PROVE  CgInv'
<1>1. /\ UNCHANGED <<cgNative, cgProj, cgFiles, cgOp, cgSpent, cgExcused>>
      /\ CgComing \subseteq CgComing'
      /\ cgEvents' \subseteq CgKeys /\ cgMap' \subseteq CgKeys
      /\ cgArmed' \subseteq CgKeys /\ cgReady' \subseteq CgKeys
  BY DEF CgFileEvent, CgTimerFires, CgInv, CgShape, CgComing
<1>2. CgShape'
  BY <1>1 DEF CgInv, CgShape
<1>3. cgSpent <= cgSpent'
  BY <1>1, CgConstants DEF CgInv, CgShape, CgVersions
<1> QED
  BY <1>1, <1>2, <1>3, CgOutside

\* A step of a call leaves the transcripts, and what is to come, alone.
CgInside == cgNative' = cgNative /\ CgComing' = CgComing /\ cgSpent' = cgSpent

LEMMA CgInsidePending ==
  ASSUME CgInside
  PROVE  \A s : CgPending(s)' <=> CgPending(s)
  BY DEF CgInside, CgPending

\* Beginning a call.
LEMMA CgDueKeeps ==
  ASSUME CgInv, NEW key \in CgKeys, CgDue(key)
  PROVE  CgInv'
<1>1. /\ key \in cgReady /\ cgOp = CgNoOp /\ cgReady' = cgReady \ {key}
      /\ UNCHANGED <<cgNative, cgProj, cgFiles, cgEvents, cgSpent, cgExcused>>
      /\ IF key = CgAll
         THEN cgMap' = {} /\ cgArmed' = cgArmed \ (cgMap \ {key}) /\ CgBegin("scan", TRUE, {})
         ELSE cgMap' = cgMap \ {key} /\ UNCHANGED cgArmed /\ CgBegin("refresh", TRUE, {key})
  BY DEF CgDue
<1>2. /\ cgOp' \in CgCalls /\ cgOp'.kind = IF key = CgAll THEN "scan" ELSE "refresh"
      /\ cgOp'.watcher = TRUE /\ cgOp'.todo = (IF key = CgAll THEN {} ELSE {key})
      /\ cgOp'.read = {} /\ cgOp'.now = {} /\ cgOp'.stamp = 0 /\ cgOp'.confirmed = 0
      /\ \A s \in CgSessions : cgOp'.parsed[s] = 0
  <2>1. key # CgAll => key \in CgSessions
    BY DEF CgKeys
  <2>2. CASE key = CgAll
    <3>1. cgOp' = [CgNoOp EXCEPT !.kind = "scan", !.watcher = TRUE, !.todo = {}]
      BY <1>1, <2>2 DEF CgBegin
    <3> QED
      BY <2>2, <3>1, CgNoOpFields DEF CgCalls, CgKinds
  <2>3. CASE key # CgAll
    <3>1. cgOp' = [CgNoOp EXCEPT !.kind = "refresh", !.watcher = TRUE, !.todo = {key}]
      BY <1>1, <2>3 DEF CgBegin
    <3> QED
      BY <2>1, <2>3, <3>1, CgNoOpFields DEF CgCalls, CgKinds
  <2> QED
    BY <2>2, <2>3
<1>3. CgShape'
  <2>1. cgMap' \subseteq CgKeys /\ cgArmed' \subseteq CgKeys /\ cgReady' \subseteq CgKeys
    BY <1>1 DEF CgInv, CgShape
  <2> QED
    BY <1>1, <1>2, <2>1 DEF CgInv, CgShape
<1>4. CgOrderInv'
  <2> SUFFICES ASSUME NEW s \in CgSessions
               PROVE  /\ cgProj[s].fresh => cgProj[s].version = 0
                      /\ cgNative[s] <= cgSpent /\ cgProj[s].version <= cgSpent /\ cgFiles[s].stamp <= cgSpent
                      /\ 0 <= cgSpent
                      /\ cgNative[s] > 0 => /\ cgProj[s].version <= cgNative[s]
                                            /\ cgFiles[s].stamp <= cgNative[s]
                                            /\ 0 <= cgNative[s]
    BY <1>1, <1>2 DEF CgOrderInv
  <2> QED
    BY CgTyped DEF CgInv, CgOrderInv
<1>5. CgFoundInv'
  BY <1>2 DEF CgFoundInv, CgLooking
<1>6. CgCareInv'
  <2> SUFFICES ASSUME NEW s \in CgSessions, s \notin cgExcused PROVE CgSettled(s)' \/ CgPending(s)' \/ CgHandled(s)'
    BY <1>1 DEF CgCareInv
  <2>1. CgSettled(s) \/ CgPending(s)
    BY <1>1, CgNoOpFields DEF CgInv, CgCareInv, CgHandled, CgLooking
  <2>2. CASE CgSettled(s)
    BY <1>1, <2>2 DEF CgSettled, CgMisremembered
  <2>3. CASE key = CgAll
    BY <1>2, <2>3 DEF CgHandled
  <2>4. CASE CgPending(s) /\ key # CgAll
    <3>1. CgComing \ {key} \subseteq CgComing' /\ cgNative' = cgNative
      BY <1>1, <2>4 DEF CgComing
    <3>2. CASE key = s /\ CgAll \notin CgComing
      BY <1>1, <1>2, <2>4, <3>2 DEF CgHandled, CgPending
    <3>3. CASE key # s \/ CgAll \in CgComing
      BY <2>4, <3>1, <3>3 DEF CgPending
    <3> QED
      BY <3>2, <3>3
  <2> QED
    BY <2>1, <2>2, <2>3, <2>4
<1> QED
  BY <1>3, <1>4, <1>5, <1>6 DEF CgInv

LEMMA CgOtherCallKeeps ==
  ASSUME CgInv, CgOtherCall
  PROVE  CgInv'
<1>1. /\ cgOp = CgNoOp /\ cgSpent' = cgSpent + 1 /\ cgSpent < CgBudget
      /\ UNCHANGED <<cgNative, cgProj, cgFiles, cgEvents, cgMap, cgArmed, cgReady, cgExcused>>
      /\ CgBegin("scan", FALSE, {}) \/ \E s \in CgSessions : CgBegin("refresh", FALSE, {s})
  BY DEF CgOtherCall, CgSpend, cgWatchVars
<1>2. /\ cgOp' \in CgCalls /\ cgOp'.kind \in {"scan", "refresh"} /\ cgOp'.watcher = FALSE
      /\ \A u \in cgOp'.todo : cgOp'.todo = {u}
      /\ cgOp'.read = {} /\ cgOp'.now = {} /\ cgOp'.stamp = 0 /\ cgOp'.confirmed = 0
      /\ \A s \in CgSessions : cgOp'.parsed[s] = 0
  <2>1. CASE CgBegin("scan", FALSE, {})
    BY <2>1, CgNoOpFields DEF CgBegin, CgCalls, CgKinds
  <2>2. ASSUME NEW s \in CgSessions, CgBegin("refresh", FALSE, {s})
        PROVE  /\ cgOp' \in CgCalls /\ cgOp'.kind \in {"scan", "refresh"} /\ cgOp'.watcher = FALSE
               /\ \A u \in cgOp'.todo : cgOp'.todo = {u}
               /\ cgOp'.read = {} /\ cgOp'.now = {} /\ cgOp'.stamp = 0 /\ cgOp'.confirmed = 0
               /\ \A u \in CgSessions : cgOp'.parsed[u] = 0
    BY <2>2, CgNoOpFields DEF CgBegin, CgCalls, CgKinds
  <2> QED
    BY <1>1, <2>1, <2>2
<1>3. CgShape'
  <2>1. cgSpent' \in CgVersions
    BY <1>1, CgConstants DEF CgInv, CgShape, CgVersions
  <2> QED
    BY <1>1, <1>2, <2>1 DEF CgInv, CgShape
<1>4. CgOrderInv'
  <2> SUFFICES ASSUME NEW s \in CgSessions
               PROVE  /\ cgProj[s].fresh => cgProj[s].version = 0
                      /\ cgNative[s] <= cgSpent' /\ cgProj[s].version <= cgSpent' /\ cgFiles[s].stamp <= cgSpent'
                      /\ 0 <= cgSpent'
                      /\ cgNative[s] > 0 => /\ cgProj[s].version <= cgNative[s]
                                            /\ cgFiles[s].stamp <= cgNative[s]
                                            /\ 0 <= cgNative[s]
    BY <1>1, <1>2 DEF CgOrderInv
  <2> QED
    BY <1>1, CgTyped DEF CgInv, CgOrderInv
<1>5. CgFoundInv'
  BY <1>2 DEF CgFoundInv, CgLooking
<1>6. CgCareInv'
  <2> SUFFICES ASSUME NEW s \in CgSessions, s \notin cgExcused PROVE CgSettled(s)' \/ CgPending(s)'
    BY <1>1 DEF CgCareInv
  <2>1. CgSettled(s) \/ CgPending(s)
    BY <1>1, CgNoOpFields DEF CgInv, CgCareInv, CgHandled, CgLooking
  <2> QED
    BY <1>1, <2>1 DEF CgSettled, CgMisremembered, CgPending, CgComing
<1> QED
  BY <1>3, <1>4, <1>5, <1>6 DEF CgInv

\* A step after which no call is under way, and which writes nothing.
LEMMA CgGivesUp ==
  ASSUME CgInv, CgInside, cgOp' = CgNoOp, UNCHANGED <<cgProj, cgMap>>, CgShape',
         \A s \in CgSessions : cgFiles'[s].stamp <= cgSpent /\ (cgNative[s] > 0 => cgFiles'[s].stamp <= cgNative[s]),
         \A s \in CgSessions \ cgExcused' : CgSettled(s)' \/ CgPending(s)
  PROVE  CgInv'
<1>1. CgOrderInv'
  <2> SUFFICES ASSUME NEW s \in CgSessions
               PROVE  /\ cgProj[s].fresh => cgProj[s].version = 0
                      /\ cgNative[s] <= cgSpent /\ cgProj[s].version <= cgSpent /\ cgFiles'[s].stamp <= cgSpent
                      /\ 0 <= cgSpent
                      /\ cgNative[s] > 0 => /\ cgProj[s].version <= cgNative[s]
                                            /\ cgFiles'[s].stamp <= cgNative[s]
                                            /\ 0 <= cgNative[s]
    BY CgNoOpFields DEF CgInside, CgOrderInv
  <2> QED
    BY CgTyped DEF CgInv, CgOrderInv
<1>2. CgFoundInv'
  BY CgNoOpFields DEF CgFoundInv, CgLooking
<1>3. CgCareInv'
  BY CgInsidePending DEF CgCareInv
<1> QED
  BY <1>1, <1>2, <1>3 DEF CgInv

LEMMA CgRefreshKeeps ==
  ASSUME CgInv, NEW s \in CgSessions, CgRefresh(s)
  PROVE  CgInv'
<1>1. /\ cgOp.kind = "refresh" /\ s \in cgOp.todo
      /\ UNCHANGED <<cgNative, cgProj, cgFiles, cgEvents, cgMap, cgArmed, cgReady, cgSpent>>
  BY DEF CgRefresh, cgWatchVars
<1>2. CgInside
  BY <1>1 DEF CgInside, CgComing
<1>3. \A u \in CgSessions : CgSettled(u)' <=> CgSettled(u)
  BY <1>1 DEF CgSettled, CgMisremembered
<1>4. CASE /\ cgNative[s] > 0 /\ cgExcused' = cgExcused
           /\ cgOp' = [cgOp EXCEPT !.kind = "materialize", !.parsed[s] = cgNative[s]]
  <2>1. /\ cgOp' \in CgCalls /\ cgOp'.kind = "materialize" /\ cgOp'.todo = cgOp.todo /\ cgOp'.now = {}
        /\ cgOp'.stamp = cgOp.stamp /\ cgOp'.confirmed = cgOp.confirmed
        /\ \A u \in CgSessions : cgOp'.parsed[u] = IF u = s THEN cgNative[s] ELSE cgOp.parsed[u]
    <3>1. cgOp \in CgCalls /\ cgNative[s] \in CgVersions /\ cgOp.now = {}
      BY <1>1 DEF CgInv, CgShape, CgFoundInv
    <3> QED
      BY <1>4, <3>1 DEF CgCalls, CgKinds
  <2>2. CgShape'
    BY <1>1, <1>4, <2>1 DEF CgInv, CgShape
  <2>3. CgOrderInv'
    <3> SUFFICES ASSUME NEW u \in CgSessions
                 PROVE  /\ cgProj[u].fresh => cgProj[u].version = 0
                        /\ cgNative[u] <= cgSpent /\ cgProj[u].version <= cgSpent /\ cgFiles[u].stamp <= cgSpent
                        /\ cgOp'.parsed[u] <= cgSpent /\ cgOp.stamp <= cgSpent /\ cgOp.confirmed <= cgSpent
                        /\ cgNative[u] > 0 => /\ cgProj[u].version <= cgNative[u]
                                              /\ cgFiles[u].stamp <= cgNative[u]
                                              /\ cgOp'.parsed[u] <= cgNative[u]
      BY <1>1, <2>1 DEF CgOrderInv
    <3> QED
      BY <2>1, CgTyped DEF CgInv, CgOrderInv
  <2>4. CgFoundInv'
    <3> SUFFICES ASSUME NEW u \in CgSessions, u \in cgOp.todo
                 PROVE  cgOp.todo = {u} /\ cgOp'.parsed[u] # 0 /\ cgOp'.parsed[u] = cgNative[u]
      BY <1>2, <2>1 DEF CgFoundInv, CgLooking, CgInside
    <3>1. cgOp.todo = {s}
      BY <1>1 DEF CgInv, CgFoundInv
    <3> QED
      BY <1>4, <2>1, <3>1
  <2>5. CgCareInv'
    <3> SUFFICES ASSUME NEW u \in CgSessions, u \notin cgExcused PROVE CgSettled(u)' \/ CgPending(u)' \/ CgHandled(u)'
      BY <1>4 DEF CgCareInv
    <3>1. CgHandled(u) => CgHandled(u)'
      BY <1>1, <2>1 DEF CgHandled, CgLooking
    <3> QED
      BY <1>2, <1>3, <3>1, CgInsidePending DEF CgInv, CgCareInv
  <2> QED
    BY <2>2, <2>3, <2>4, <2>5 DEF CgInv
<1>5. CASE /\ cgOp' = CgNoOp
           /\ cgExcused' = IF cgNative[s] > 0 /\ cgOp.watcher THEN cgExcused \cup {s} ELSE cgExcused
  <2>1. CgShape'
    BY <1>1, <1>5, CgNoOpFields DEF CgInv, CgShape
  <2>2. \A u \in CgSessions \ cgExcused' : CgSettled(u) \/ CgPending(u)
    <3> SUFFICES ASSUME NEW u \in CgSessions, u \notin cgExcused' PROVE CgSettled(u) \/ CgPending(u)
      OBVIOUS
    <3>1. u \notin cgExcused /\ ~CgHandled(u)
      BY <1>1, <1>5 DEF CgHandled, CgLooking, CgInv, CgFoundInv
    <3> QED
      BY <3>1 DEF CgInv, CgCareInv
  <2> QED
    BY <1>1, <1>2, <1>3, <1>5, <2>1, <2>2, CgGivesUp DEF CgInv, CgOrderInv
<1> QED
  BY <1>4, <1>5 DEF CgRefresh

LEMMA CgRefreshWritesKeeps ==
  ASSUME CgInv, NEW s \in CgSessions, CgRefreshWrites(s)
  PROVE  CgInv'
<1>1. /\ cgOp.kind = "materialize" /\ s \in cgOp.todo
      /\ cgProj' = [cgProj EXCEPT ![s] = [version |-> cgOp.parsed[s], fresh |-> FALSE]]
      /\ cgOp' = [cgOp EXCEPT !.kind = "remember"] /\ cgExcused' = cgExcused \ {s}
      /\ UNCHANGED <<cgNative, cgFiles, cgEvents, cgMap, cgArmed, cgReady, cgSpent>>
  BY DEF CgRefreshWrites, cgWatchVars
<1>2. CgInside
  BY <1>1 DEF CgInside, CgComing
<1>3. /\ cgOp' \in CgCalls /\ cgOp'.kind = "remember" /\ cgOp'.todo = cgOp.todo /\ cgOp'.now = {}
      /\ cgOp'.stamp = cgOp.stamp /\ cgOp'.confirmed = cgOp.confirmed /\ cgOp'.parsed = cgOp.parsed
  <2>1. cgOp \in CgCalls /\ cgOp.now = {}
    BY <1>1 DEF CgInv, CgShape, CgFoundInv
  <2> QED
    BY <1>1, <2>1 DEF CgCalls, CgKinds
<1>4. /\ cgProj' \in [CgSessions -> [version : CgVersions, fresh : BOOLEAN]]
      /\ cgProj'[s].version = cgOp.parsed[s] /\ cgProj'[s].fresh = FALSE
      /\ \A u \in CgSessions \ {s} : cgProj'[u] = cgProj[u]
  <2>1. cgOp.parsed[s] \in CgVersions /\ cgProj \in [CgSessions -> [version : CgVersions, fresh : BOOLEAN]]
    BY DEF CgInv, CgShape, CgCalls
  <2> QED
    BY <1>1, <2>1
<1>5. cgOp.todo = {s} /\ (cgOp.parsed[s] = cgNative[s] \/ CgPending(s))
  BY <1>1 DEF CgInv, CgFoundInv
<1>6. CgShape'
  BY <1>1, <1>3, <1>4 DEF CgInv, CgShape
<1>7. CgOrderInv'
  <2> SUFFICES ASSUME NEW u \in CgSessions
               PROVE  /\ cgProj'[u].fresh => cgProj'[u].version = 0
                      /\ cgNative[u] <= cgSpent /\ cgProj'[u].version <= cgSpent /\ cgFiles[u].stamp <= cgSpent
                      /\ cgOp.parsed[u] <= cgSpent /\ cgOp.stamp <= cgSpent /\ cgOp.confirmed <= cgSpent
                      /\ cgNative[u] > 0 => /\ cgProj'[u].version <= cgNative[u]
                                            /\ cgFiles[u].stamp <= cgNative[u]
                                            /\ cgOp.parsed[u] <= cgNative[u]
    BY <1>1, <1>3 DEF CgOrderInv
  <2> QED
    BY <1>4, CgTyped DEF CgInv, CgOrderInv
<1>8. CgFoundInv'
  BY <1>3, <1>5 DEF CgFoundInv, CgLooking
<1>9. CgCareInv'
  <2> SUFFICES ASSUME NEW u \in CgSessions, u \notin cgExcused' PROVE CgSettled(u)' \/ CgPending(u)
    BY <1>2, CgInsidePending DEF CgCareInv
  <2>1. CASE u = s
    BY <1>1, <1>4, <1>5, <2>1 DEF CgSettled
  <2>2. CASE u # s
    <3>1. u \notin cgExcused /\ ~CgHandled(u)
      BY <1>1, <1>5, <2>2 DEF CgHandled, CgLooking
    <3>2. CgSettled(u)' <=> CgSettled(u)
      BY <1>1, <1>4, <2>2 DEF CgSettled, CgMisremembered
    <3> QED
      BY <3>1, <3>2 DEF CgInv, CgCareInv
  <2> QED
    BY <2>1, <2>2
<1> QED
  BY <1>6, <1>7, <1>8, <1>9 DEF CgInv

\* A fingerprint of the transcript as it is now settles the session, or misremembers it.
LEMMA CgStampSettles ==
  ASSUME CgInv, NEW s \in CgSessions, cgNative[s] > 0, cgFiles'[s].stamp = cgNative[s],
         cgNative' = cgNative, cgProj' = cgProj
  PROVE  CgSettled(s)'
<1>1. cgProj[s].version <= cgNative[s]
  BY DEF CgInv, CgOrderInv
<1>2. cgProj[s].version \in Nat /\ cgNative[s] \in Nat
  BY CgTyped DEF CgInv
<1> QED
  BY <1>1, <1>2 DEF CgSettled, CgMisremembered

LEMMA CgRememberKeeps ==
  ASSUME CgInv, NEW s \in CgSessions, CgRemember(s)
  PROVE  CgInv'
<1>1. /\ cgOp.kind = "remember" /\ s \in cgOp.todo /\ cgOp' = CgNoOp
      /\ cgFiles' = IF cgNative[s] = 0 THEN cgFiles
                    ELSE [cgFiles EXCEPT ![s] = [stamp |-> cgNative[s], materialized |-> TRUE]]
      /\ UNCHANGED <<cgNative, cgProj, cgEvents, cgMap, cgArmed, cgReady, cgSpent, cgExcused>>
  BY DEF CgRemember, cgWatchVars
<1>2. CgInside
  BY <1>1 DEF CgInside, CgComing
<1>3. /\ cgFiles' \in [CgSessions -> [stamp : CgVersions, materialized : BOOLEAN]]
      /\ \A u \in CgSessions : \/ cgFiles'[u] = cgFiles[u]
                               \/ u = s /\ cgNative[u] > 0 /\ cgFiles'[u].stamp = cgNative[u]
  <2>1. cgNative[s] \in CgVersions /\ cgFiles \in [CgSessions -> [stamp : CgVersions, materialized : BOOLEAN]]
        /\ cgNative[s] \in Nat
    BY CgTyped DEF CgInv, CgShape
  <2>2. CASE cgNative[s] = 0
    BY <1>1, <2>1, <2>2
  <2>3. CASE cgNative[s] # 0
    BY <1>1, <2>1, <2>3
  <2> QED
    BY <2>2, <2>3
<1>4. CgShape'
  BY <1>1, <1>3, CgNoOpFields DEF CgInv, CgShape
<1>5. \A u \in CgSessions : cgFiles'[u].stamp <= cgSpent /\ (cgNative[u] > 0 => cgFiles'[u].stamp <= cgNative[u])
  <2> TAKE u \in CgSessions
  <2>1. cgNative[u] <= cgSpent /\ cgNative[u] \in Nat /\ cgFiles[u].stamp <= cgSpent
        /\ (cgNative[u] > 0 => cgFiles[u].stamp <= cgNative[u])
    BY CgTyped DEF CgInv, CgOrderInv
  <2> QED
    BY <1>3, <2>1
<1>6. \A u \in CgSessions \ cgExcused' : CgSettled(u)' \/ CgPending(u)
  <2> SUFFICES ASSUME NEW u \in CgSessions, u \notin cgExcused PROVE CgSettled(u)' \/ CgPending(u)
    BY <1>1
  <2>1. CgSettled(u) \/ CgPending(u)
    BY <1>1 DEF CgInv, CgCareInv, CgHandled, CgLooking
  <2>2. CASE cgFiles'[u] = cgFiles[u]
    BY <1>1, <2>1, <2>2 DEF CgSettled, CgMisremembered
  <2>3. CASE cgNative[u] > 0 /\ cgFiles'[u].stamp = cgNative[u]
    BY <1>1, <2>3, CgStampSettles
  <2> QED
    BY <1>3, <2>2, <2>3
<1> QED
  BY <1>1, <1>2, <1>4, <1>5, <1>6, CgGivesUp

LEMMA CgScanKeeps ==
  ASSUME CgInv, CgScan
  PROVE  CgInv'
<1>1. /\ cgOp.kind = "scan"
      /\ cgOp' = [cgOp EXCEPT !.kind = "stat", !.initial = CgProjected, !.paths = CgExisting,
                              !.todo = CgExisting, !.complete = TRUE]
      /\ UNCHANGED <<cgNative, cgProj, cgFiles, cgEvents, cgMap, cgArmed, cgReady, cgSpent, cgExcused>>
  BY DEF CgScan, CgSyncStep, cgWatchVars
<1>2. CgInside
  BY <1>1 DEF CgInside, CgComing
<1>3. /\ cgOp' \in CgCalls /\ cgOp'.kind = "stat" /\ cgOp'.initial = CgProjected
      /\ cgOp'.paths = CgExisting /\ cgOp'.todo = CgExisting /\ cgOp'.now = {} /\ cgOp'.read = cgOp.read
      /\ cgOp'.stamp = cgOp.stamp /\ cgOp'.confirmed = cgOp.confirmed /\ cgOp'.parsed = cgOp.parsed
  <2>1. cgOp \in CgCalls /\ cgOp.now = {}
    BY <1>1 DEF CgInv, CgShape, CgFoundInv
  <2>2. CgProjected \in SUBSET CgSessions /\ CgExisting \in SUBSET CgSessions
    BY DEF CgProjected, CgExisting
  <2> QED
    BY <1>1, <2>1, <2>2 DEF CgCalls, CgKinds
<1>4. cgOp.read = {} /\ \A s \in CgSessions : cgOp.parsed[s] = 0
  BY <1>1 DEF CgInv, CgFoundInv
<1>5. CgShape'
  BY <1>1, <1>3 DEF CgInv, CgShape
<1>6. CgOrderInv'
  BY <1>1, <1>3 DEF CgInv, CgOrderInv
<1>7. CgFoundInv'
  <2> SUFFICES ASSUME NEW s \in CgSessions
               PROVE  /\ s \in CgExisting <=> cgNative[s] > 0
                      /\ s \notin CgExisting /\ cgProj[s].version # 0 => s \in CgProjected
    BY <1>1, <1>3, <1>4 DEF CgFoundInv, CgLooking
  <2> QED
    BY DEF CgExisting, CgProjected, CgNoProj
<1>8. CgCareInv'
  <2> SUFFICES ASSUME NEW s \in CgSessions PROVE CgSettled(s)' \/ CgHandled(s)'
    BY DEF CgCareInv
  <2>1. CASE s \in CgExisting
    BY <1>3, <2>1 DEF CgHandled
  <2>2. CASE s \notin CgExisting /\ s \in CgProjected
    BY <1>3, <2>2 DEF CgHandled, CgLooking
  <2>3. CASE s \notin CgExisting /\ s \notin CgProjected
    <3>1. cgNative[s] = 0 /\ cgProj[s].version = 0
      BY <2>3, CgTyped DEF CgInv, CgExisting, CgProjected, CgNoProj
    <3> QED
      BY <1>1, <3>1 DEF CgSettled
  <2> QED
    BY <2>1, <2>2, <2>3
<1> QED
  BY <1>5, <1>6, <1>7, <1>8 DEF CgInv

LEMMA CgSyncTimesOutKeeps ==
  ASSUME CgInv, CgSyncTimesOut
  PROVE  CgInv'
<1>1. /\ cgOp' = CgNoOp /\ cgExcused' = CgSessions
      /\ UNCHANGED <<cgNative, cgProj, cgFiles, cgEvents, cgMap, cgArmed, cgReady, cgSpent>>
  BY DEF CgSyncTimesOut, CgSyncStep, cgWatchVars
<1>2. CgInside
  BY <1>1 DEF CgInside, CgComing
<1>3. CgShape'
  BY <1>1, CgNoOpFields DEF CgInv, CgShape
<1>4. \A s \in CgSessions : cgFiles'[s].stamp <= cgSpent /\ (cgNative[s] > 0 => cgFiles'[s].stamp <= cgNative[s])
  BY <1>1 DEF CgInv, CgOrderInv
<1> QED
  BY <1>1, <1>2, <1>3, <1>4, CgGivesUp

\* A step of a Sync that writes neither projections nor fingerprints.
LEMMA CgLooks ==
  ASSUME CgInv, CgInside, cgOp' \in CgCalls, UNCHANGED <<cgProj, cgFiles, cgMap, cgEvents, cgArmed, cgReady>>,
         cgExcused \subseteq cgExcused', cgExcused' \subseteq CgSessions,
         cgOp'.confirmed = cgOp.confirmed, \A s \in CgSessions : cgOp'.stamp <= cgSpent,
         \A s \in CgSessions : cgOp'.parsed[s] \in {cgOp.parsed[s], cgNative[s]},
         \A s \in CgSessions : cgNative[s] > 0 /\ s \in cgOp'.now => cgOp'.stamp <= cgNative[s],
         CgFoundInv',
         \A s \in CgSessions \ cgExcused' : CgHandled(s) => CgSettled(s) \/ CgPending(s) \/ CgHandled(s)'
  PROVE  CgInv'
<1>1. CgShape'
  BY DEF CgInside, CgInv, CgShape
<1>2. CgOrderInv'
  <2> SUFFICES ASSUME NEW s \in CgSessions
               PROVE  /\ cgProj[s].fresh => cgProj[s].version = 0
                      /\ cgNative[s] <= cgSpent /\ cgProj[s].version <= cgSpent /\ cgFiles[s].stamp <= cgSpent
                      /\ cgOp'.parsed[s] <= cgSpent /\ cgOp'.stamp <= cgSpent /\ cgOp.confirmed <= cgSpent
                      /\ cgNative[s] > 0 => /\ cgProj[s].version <= cgNative[s]
                                            /\ cgFiles[s].stamp <= cgNative[s]
                                            /\ cgOp'.parsed[s] <= cgNative[s]
                                            /\ s \in cgOp'.now => cgOp'.stamp <= cgNative[s]
    BY DEF CgInside, CgOrderInv
  <2> QED
    BY CgTyped DEF CgInv, CgOrderInv
<1>3. CgCareInv'
  <2> SUFFICES ASSUME NEW s \in CgSessions, s \notin cgExcused' PROVE CgSettled(s)' \/ CgPending(s) \/ CgHandled(s)'
    BY CgInsidePending DEF CgCareInv
  <2>1. CgSettled(s)' <=> CgSettled(s)
    BY DEF CgInside, CgSettled, CgMisremembered
  <2> QED
    BY <2>1 DEF CgInv, CgCareInv
<1> QED
  BY <1>1, <1>2, <1>3 DEF CgInv

LEMMA CgStatKeeps ==
  ASSUME CgInv, NEW s \in CgSessions, CgStat(s)
  PROVE  CgInv'
<1>1. /\ cgOp.kind = "stat" /\ s \in cgOp.todo
      /\ cgOp' = IF cgNative[s] = 0 THEN [cgOp EXCEPT !.todo = @ \ {s}, !.complete = FALSE]
                 ELSE IF CgUnchanged(s) THEN [cgOp EXCEPT !.todo = @ \ {s}, !.read = @ \cup {s}]
                 ELSE [cgOp EXCEPT !.todo = @ \ {s}, !.kind = "parse", !.now = {s}, !.stamp = cgNative[s]]
      /\ UNCHANGED <<cgNative, cgProj, cgFiles, cgEvents, cgMap, cgArmed, cgReady, cgSpent, cgExcused>>
  BY DEF CgStat, cgWatchVars
<1>2. CgInside
  BY <1>1 DEF CgInside, CgComing
<1>3. cgOp \in CgCalls /\ cgNative[s] \in CgVersions /\ cgOp.now = {} /\ s \in cgOp.paths /\ s \notin cgOp.read
      /\ cgOp.parsed[s] = 0 /\ cgExcused \subseteq CgSessions
  BY <1>1 DEF CgInv, CgShape, CgFoundInv, CgLooking
<1>4. /\ cgOp' \in CgCalls /\ cgOp'.todo = cgOp.todo \ {s} /\ cgOp'.paths = cgOp.paths
      /\ cgOp'.initial = cgOp.initial
      /\ cgOp'.parsed = cgOp.parsed /\ cgOp'.confirmed = cgOp.confirmed
      /\ \/ /\ cgNative[s] = 0 /\ cgOp'.kind = "stat" /\ cgOp'.read = cgOp.read /\ cgOp'.now = {}
            /\ cgOp'.stamp = cgOp.stamp
         \/ /\ CgUnchanged(s) /\ cgNative[s] # 0 /\ cgOp'.kind = "stat" /\ cgOp'.read = cgOp.read \cup {s}
            /\ cgOp'.now = {} /\ cgOp'.stamp = cgOp.stamp
         \/ /\ cgOp'.kind = "parse" /\ cgOp'.read = cgOp.read /\ cgOp'.now = {s} /\ cgOp'.stamp = cgNative[s]
  <2>1. CASE cgNative[s] = 0
    BY <1>1, <1>3, <2>1 DEF CgCalls, CgKinds
  <2>2. CASE cgNative[s] # 0 /\ CgUnchanged(s)
    BY <1>1, <1>3, <2>2 DEF CgCalls, CgKinds
  <2>3. CASE cgNative[s] # 0 /\ ~CgUnchanged(s)
    <3>1. cgOp' = [cgOp EXCEPT !.todo = @ \ {s}, !.kind = "parse", !.now = {s}, !.stamp = cgNative[s]]
      BY <1>1, <2>3
    <3> QED
      BY <1>3, <3>1 DEF CgCalls, CgKinds
  <2> QED
    BY <2>1, <2>2, <2>3
<1>5. CgFoundInv'
  <2> SUFFICES ASSUME NEW u \in CgSessions
               PROVE  /\ (u \in cgOp.paths <=> cgNative[u] > 0) \/ CgPending(u)
                      /\ u \notin cgOp.paths /\ cgProj[u].version # 0 => u \in cgOp.initial
                      /\ cgOp.parsed[u] # 0 => u \in cgOp'.read /\ (cgOp.parsed[u] = cgNative[u] \/ CgPending(u))
                      /\ u \in cgOp'.read => u \notin cgOp'.todo \cup cgOp'.now
                      /\ u \in cgOp'.read /\ cgOp.parsed[u] # 0 => ~cgFiles[u].materialized
    <3>1. cgOp'.todo \cup cgOp'.read \cup cgOp'.now \subseteq cgOp.paths
      BY <1>1, <1>3, <1>4 DEF CgInv, CgFoundInv, CgLooking
    <3>2. cgOp'.kind \in {"stat", "parse"} /\ (cgOp'.kind # "parse" => cgOp'.now = {})
      BY <1>4
    <3>3. \A u : CgPending(u)' <=> CgPending(u)
      BY <1>2, CgInsidePending
    <3>4. /\ cgOp.kind = "stat" /\ cgOp'.kind \in CgLooking
          /\ cgOp'.kind \notin {"idle", "refresh", "scan", "materialize", "remember", "write", "prune"}
      BY <1>1, <3>2 DEF CgLooking
    <3>5. /\ cgOp'.now \subseteq {s} /\ s \notin cgOp'.todo
          /\ cgOp'.paths = cgOp.paths /\ cgOp'.initial = cgOp.initial /\ cgOp'.parsed = cgOp.parsed
          /\ UNCHANGED <<cgNative, cgProj, cgFiles>>
      BY <1>1, <1>4
    <3> QED
      BY <3>1, <3>2, <3>3, <3>4, <3>5 DEF CgFoundInv
  <2>1. /\ (u \in cgOp.paths <=> cgNative[u] > 0) \/ CgPending(u)
        /\ u \notin cgOp.paths /\ cgProj[u].version # 0 => u \in cgOp.initial
        /\ cgOp.parsed[u] # 0 => u \in cgOp.read /\ (cgOp.parsed[u] = cgNative[u] \/ CgPending(u))
        /\ u \in cgOp.read => u \notin cgOp.todo \cup cgOp.now
        /\ u \in cgOp.read /\ cgOp.parsed[u] # 0 => ~cgFiles[u].materialized
    BY <1>1 DEF CgInv, CgFoundInv, CgLooking
  <2> QED
    BY <1>3, <1>4, <2>1
<1>6. \A u \in CgSessions : CgHandled(u) => CgSettled(u) \/ CgPending(u) \/ CgHandled(u)'
  <2> SUFFICES ASSUME NEW u \in CgSessions, CgHandled(u) PROVE CgSettled(u) \/ CgPending(u) \/ CgHandled(u)'
    OBVIOUS
  <2>1. CASE u # s
    BY <1>1, <1>3, <1>4, <2>1 DEF CgHandled, CgLooking
  <2>2. CASE u = s /\ cgNative[s] = 0
    <3>1. CgPending(s)
      BY <1>1, <1>3, <2>2 DEF CgInv, CgFoundInv, CgLooking
    <3> QED
      BY <2>2, <3>1
  <2>3. CASE u = s /\ CgUnchanged(s) /\ cgNative[s] # 0
    <3>1. cgProj[s].version <= cgNative[s] /\ cgFiles[s].stamp = cgNative[s] /\ cgProj[s].version \in Nat /\ cgNative[s] \in Nat
      BY <2>3, CgTyped DEF CgUnchanged, CgInv, CgOrderInv
    <3> QED
      BY <2>3, <3>1 DEF CgSettled, CgMisremembered
  <2>4. CASE u = s /\ cgOp'.kind = "parse" /\ cgOp'.now = {s}
    BY <2>4 DEF CgHandled
  <2> QED
    BY <1>4, <2>1, <2>2, <2>3, <2>4
<1>7. cgOp'.stamp <= cgSpent /\ \A u \in CgSessions : cgNative[u] > 0 /\ u \in cgOp'.now => cgOp'.stamp <= cgNative[u]
  <2>1. cgOp.stamp <= cgSpent /\ cgNative[s] <= cgSpent /\ cgNative[s] \in Nat
    BY CgTyped DEF CgInv, CgOrderInv
  <2> QED
    BY <1>4, <2>1
<1>8. /\ UNCHANGED <<cgProj, cgFiles, cgMap, cgEvents, cgArmed, cgReady>> /\ cgExcused \subseteq cgExcused'
      /\ cgExcused' \subseteq CgSessions /\ \A u \in CgSessions : cgOp'.parsed[u] \in {cgOp.parsed[u], cgNative[u]}
  BY <1>1, <1>3, <1>4
<1> QED
  BY <1>2, <1>4, <1>5, <1>6, <1>7, <1>8, CgLooks

LEMMA CgParseKeeps ==
  ASSUME CgInv, NEW s \in CgSessions, CgParse(s)
  PROVE  CgInv'
<1>1. /\ cgOp.kind = "parse" /\ s \in cgOp.now
      /\ UNCHANGED <<cgNative, cgProj, cgEvents, cgMap, cgArmed, cgReady, cgSpent>>
  BY DEF CgParse, cgWatchVars
<1> DEFINE parsed == [cgOp EXCEPT !.kind = "stat", !.now = {}, !.stamp = 0]
<1>2. \/ /\ cgNative[s] > 0 /\ cgExcused' = cgExcused
         /\ cgFiles' = [cgFiles EXCEPT ![s] = [stamp |-> cgOp.stamp, materialized |-> FALSE]]
         /\ cgOp' = [parsed EXCEPT !.read = @ \cup {s}, !.parsed[s] = cgNative[s]]
      \/ /\ cgOp' = [parsed EXCEPT !.complete = FALSE]
         /\ cgExcused' = cgExcused \cup {s} /\ cgFiles' = cgFiles
  BY DEF CgParse
<1>3. CgInside
  BY <1>1 DEF CgInside, CgComing
<1>4. /\ cgOp \in CgCalls /\ 0 \in CgVersions /\ cgOp.stamp \in CgVersions /\ cgNative[s] \in CgVersions
      /\ cgFiles \in [CgSessions -> [stamp : CgVersions, materialized : BOOLEAN]] /\ cgExcused \subseteq CgSessions
  BY CgConstants DEF CgInv, CgShape, CgCalls, CgVersions
<1>5. /\ parsed \in CgCalls /\ parsed.kind = "stat" /\ parsed.now = {} /\ parsed.stamp = 0
      /\ parsed.todo = cgOp.todo /\ parsed.paths = cgOp.paths /\ parsed.initial = cgOp.initial
      /\ parsed.read = cgOp.read /\ parsed.parsed = cgOp.parsed /\ parsed.confirmed = cgOp.confirmed
  BY <1>4 DEF CgCalls, CgKinds
<1> HIDE DEF parsed
<1>6. s \in cgOp.paths /\ s \notin cgOp.read /\ cgOp.parsed[s] = 0 /\ s \notin cgOp.todo
      /\ cgOp.todo \cup cgOp.read \subseteq cgOp.paths /\ cgOp.now = {s}
  BY <1>1 DEF CgInv, CgFoundInv, CgLooking
<1>7. CASE cgOp' = [parsed EXCEPT !.complete = FALSE] /\ cgExcused' = cgExcused \cup {s} /\ cgFiles' = cgFiles
  <2>1. /\ cgOp' \in CgCalls /\ cgOp'.kind = "stat" /\ cgOp'.now = {} /\ cgOp'.stamp = 0
        /\ cgOp'.todo = cgOp.todo /\ cgOp'.paths = cgOp.paths /\ cgOp'.initial = cgOp.initial
        /\ cgOp'.read = cgOp.read /\ cgOp'.parsed = cgOp.parsed /\ cgOp'.confirmed = cgOp.confirmed
    BY <1>5, <1>7 DEF CgCalls
  <2>2. CgFoundInv'
    <3>1. \A u : CgPending(u)' <=> CgPending(u)
      BY <1>3, CgInsidePending
    <3> QED
      BY <1>1, <1>6, <1>7, <2>1, <3>1 DEF CgInv, CgFoundInv, CgLooking
  <2>3. \A u \in CgSessions \ cgExcused' : CgHandled(u) => CgHandled(u)'
    BY <1>1, <1>6, <1>7, <2>1 DEF CgHandled, CgLooking
  <2>4. \A u \in CgSessions : cgOp'.stamp <= cgSpent
    BY <2>1, CgTyped DEF CgInv
  <2>5. /\ UNCHANGED <<cgProj, cgFiles, cgMap, cgEvents, cgArmed, cgReady>> /\ cgExcused \subseteq cgExcused'
        /\ cgExcused' \subseteq CgSessions /\ \A u \in CgSessions : cgOp'.parsed[u] \in {cgOp.parsed[u], cgNative[u]}
    BY <1>1, <1>4, <1>7, <2>1
  <2> QED
    BY <1>3, <2>1, <2>2, <2>3, <2>4, <2>5, CgLooks
<1>8. CASE /\ cgNative[s] > 0 /\ cgExcused' = cgExcused
           /\ cgFiles' = [cgFiles EXCEPT ![s] = [stamp |-> cgOp.stamp, materialized |-> FALSE]]
           /\ cgOp' = [parsed EXCEPT !.read = @ \cup {s}, !.parsed[s] = cgNative[s]]
  <2>1. /\ cgOp' \in CgCalls /\ cgOp'.kind = "stat" /\ cgOp'.now = {} /\ cgOp'.stamp = 0
        /\ cgOp'.todo = cgOp.todo /\ cgOp'.paths = cgOp.paths /\ cgOp'.initial = cgOp.initial
        /\ cgOp'.read = cgOp.read \cup {s} /\ cgOp'.confirmed = cgOp.confirmed
        /\ \A u \in CgSessions : cgOp'.parsed[u] = IF u = s THEN cgNative[s] ELSE cgOp.parsed[u]
    BY <1>4, <1>5, <1>8 DEF CgCalls
  <2>2. /\ cgFiles' \in [CgSessions -> [stamp : CgVersions, materialized : BOOLEAN]]
        /\ cgFiles'[s].stamp = cgOp.stamp /\ ~cgFiles'[s].materialized
        /\ \A u \in CgSessions \ {s} : cgFiles'[u] = cgFiles[u]
    BY <1>4, <1>8
  <2>3. CgShape'
    BY <1>1, <1>8, <2>1, <2>2 DEF CgInv, CgShape
  <2>4. CgOrderInv'
    <3> SUFFICES ASSUME NEW u \in CgSessions
                 PROVE  /\ cgProj[u].fresh => cgProj[u].version = 0
                        /\ cgNative[u] <= cgSpent /\ cgProj[u].version <= cgSpent /\ cgFiles'[u].stamp <= cgSpent
                        /\ cgOp'.parsed[u] <= cgSpent /\ 0 <= cgSpent /\ cgOp.confirmed <= cgSpent
                        /\ cgNative[u] > 0 => /\ cgProj[u].version <= cgNative[u]
                                              /\ cgFiles'[u].stamp <= cgNative[u]
                                              /\ cgOp'.parsed[u] <= cgNative[u]
      BY <1>1, <2>1 DEF CgOrderInv
    <3>1. /\ cgProj[u].fresh => cgProj[u].version = 0
          /\ cgNative[u] <= cgSpent /\ cgProj[u].version <= cgSpent /\ cgFiles[u].stamp <= cgSpent
          /\ cgOp.parsed[u] <= cgSpent /\ cgOp.stamp <= cgSpent /\ cgOp.confirmed <= cgSpent
          /\ cgNative[u] > 0 => /\ cgProj[u].version <= cgNative[u]
                                /\ cgFiles[u].stamp <= cgNative[u]
                                /\ cgOp.parsed[u] <= cgNative[u]
                                /\ u \in cgOp.now => cgOp.stamp <= cgNative[u]
      BY DEF CgInv, CgOrderInv
    <3> QED
      BY <1>1, <2>1, <2>2, <3>1, CgTyped DEF CgInv
  <2>5. CgFoundInv'
    <3> SUFFICES ASSUME NEW u \in CgSessions
                 PROVE  /\ (u \in cgOp.paths <=> cgNative[u] > 0) \/ CgPending(u)
                        /\ u \notin cgOp.paths /\ cgProj[u].version # 0 => u \in cgOp.initial
                        /\ cgOp'.parsed[u] # 0 => u \in cgOp'.read /\ (cgOp'.parsed[u] = cgNative[u] \/ CgPending(u))
                        /\ u \in cgOp'.read => u \notin cgOp'.todo
                        /\ u \in cgOp'.read /\ cgOp'.parsed[u] # 0 => ~cgFiles'[u].materialized
      <4>1. \A v : CgPending(v)' <=> CgPending(v)
        BY <1>3, CgInsidePending
      <4> QED
        BY <1>1, <1>6, <2>1, <4>1 DEF CgFoundInv, CgLooking
    <3>1. /\ (u \in cgOp.paths <=> cgNative[u] > 0) \/ CgPending(u)
          /\ u \notin cgOp.paths /\ cgProj[u].version # 0 => u \in cgOp.initial
          /\ cgOp.parsed[u] # 0 => u \in cgOp.read /\ (cgOp.parsed[u] = cgNative[u] \/ CgPending(u))
          /\ u \in cgOp.read => u \notin cgOp.todo \cup cgOp.now
          /\ u \in cgOp.read /\ cgOp.parsed[u] # 0 => ~cgFiles[u].materialized
      BY <1>1 DEF CgInv, CgFoundInv, CgLooking
    <3> QED
      BY <1>6, <2>1, <2>2, <3>1
  <2>6. CgCareInv'
    <3> SUFFICES ASSUME NEW u \in CgSessions, u \notin cgExcused PROVE CgSettled(u)' \/ CgPending(u) \/ CgHandled(u)'
      BY <1>3, <1>8, CgInsidePending DEF CgCareInv
    <3>1. CASE u = s
      BY <1>8, <2>1, <3>1 DEF CgHandled
    <3>2. CASE u # s
      <4>1. CgHandled(u) => CgHandled(u)'
        BY <1>1, <1>6, <2>1, <3>2 DEF CgHandled, CgLooking
      <4>2. CgSettled(u)' <=> CgSettled(u)
        BY <1>1, <2>2, <3>2 DEF CgSettled, CgMisremembered
      <4> QED
        BY <4>1, <4>2 DEF CgInv, CgCareInv
    <3> QED
      BY <3>1, <3>2
  <2> QED
    BY <2>3, <2>4, <2>5, <2>6 DEF CgInv
<1> QED
  BY <1>2, <1>7, <1>8

LEMMA CgToWriteKeeps ==
  ASSUME CgInv, CgToWrite
  PROVE  CgInv'
<1>1. /\ cgOp.kind = "stat" /\ cgOp.todo = {} /\ cgOp' = [cgOp EXCEPT !.kind = "write", !.todo = cgOp.read]
      /\ UNCHANGED <<cgNative, cgProj, cgFiles, cgEvents, cgMap, cgArmed, cgReady, cgSpent, cgExcused>>
  BY DEF CgToWrite, CgSyncStep, cgWatchVars
<1>2. CgInside
  BY <1>1 DEF CgInside, CgComing
<1>3. cgOp \in CgCalls /\ cgOp.now = {} /\ cgExcused \subseteq CgSessions
  BY <1>1 DEF CgInv, CgShape, CgFoundInv
<1>4. /\ cgOp' \in CgCalls /\ cgOp'.kind = "write" /\ cgOp'.todo = cgOp.read /\ cgOp'.paths = cgOp.paths
      /\ cgOp'.initial = cgOp.initial /\ cgOp'.read = cgOp.read /\ cgOp'.now = {} /\ cgOp'.stamp = cgOp.stamp
      /\ cgOp'.parsed = cgOp.parsed /\ cgOp'.confirmed = cgOp.confirmed
  BY <1>1, <1>3 DEF CgCalls, CgKinds
<1>5. CgFoundInv'
  <2>1. \A u : CgPending(u)' <=> CgPending(u)
    BY <1>2, CgInsidePending
  <2> QED
    BY <1>1, <1>4, <2>1 DEF CgInv, CgFoundInv, CgLooking
<1>6. \A u \in CgSessions : CgHandled(u) => CgHandled(u)'
  BY <1>1, <1>3, <1>4 DEF CgHandled, CgLooking
<1>7. \A u \in CgSessions : cgOp'.stamp <= cgSpent
  BY <1>4 DEF CgInv, CgOrderInv
<1>8. /\ UNCHANGED <<cgProj, cgFiles, cgMap, cgEvents, cgArmed, cgReady>> /\ cgExcused \subseteq cgExcused'
      /\ cgExcused' \subseteq CgSessions /\ \A u \in CgSessions : cgOp'.parsed[u] \in {cgOp.parsed[u], cgNative[u]}
  BY <1>1, <1>3, <1>4
<1> QED
  BY <1>2, <1>4, <1>5, <1>6, <1>7, <1>8, CgLooks

LEMMA CgWriteKeeps ==
  ASSUME CgInv, NEW s \in CgSessions, CgWrite(s)
  PROVE  CgInv'
<1>1. /\ cgOp.kind = "write" /\ s \in cgOp.todo
      /\ UNCHANGED <<cgNative, cgEvents, cgMap, cgArmed, cgReady, cgSpent>>
  BY DEF CgWrite, cgWatchVars
<1> DEFINE new == IF cgOp.parsed[s] # 0 THEN cgOp.parsed[s] ELSE cgNative[s]
<1>2. \/ /\ cgFiles[s].materialized /\ cgOp' = [cgOp EXCEPT !.todo = @ \ {s}]
         /\ UNCHANGED <<cgProj, cgFiles, cgExcused>>
      \/ /\ cgProj' = [cgProj EXCEPT ![s] = [version |-> new, fresh |-> FALSE]]
         /\ cgFiles' = [cgFiles EXCEPT ![s].materialized = TRUE]
         /\ cgExcused' = cgExcused \ {s} /\ cgOp' = [cgOp EXCEPT !.todo = @ \ {s}]
      \/ /\ cgOp' = [cgOp EXCEPT !.todo = @ \ {s}, !.complete = FALSE]
         /\ cgExcused' = cgExcused \cup {s} /\ UNCHANGED <<cgProj, cgFiles>>
  BY DEF CgWrite
<1> HIDE DEF new
<1>3. CgInside
  BY <1>1 DEF CgInside, CgComing
<1>4. cgOp \in CgCalls /\ cgOp.now = {} /\ cgExcused \subseteq CgSessions
  BY <1>1 DEF CgInv, CgShape, CgFoundInv
<1>5. /\ cgOp' \in CgCalls /\ cgOp'.kind = "write" /\ cgOp'.todo = cgOp.todo \ {s} /\ cgOp'.now = {}
      /\ cgOp'.paths = cgOp.paths /\ cgOp'.initial = cgOp.initial /\ cgOp'.read = cgOp.read
      /\ cgOp'.stamp = cgOp.stamp /\ cgOp'.parsed = cgOp.parsed /\ cgOp'.confirmed = cgOp.confirmed
  <2>1. CASE cgOp' = [cgOp EXCEPT !.todo = @ \ {s}]
    BY <1>1, <1>4, <2>1 DEF CgCalls
  <2>2. CASE cgOp' = [cgOp EXCEPT !.todo = @ \ {s}, !.complete = FALSE]
    BY <1>1, <1>4, <2>2 DEF CgCalls
  <2> QED
    BY <1>2, <2>1, <2>2
<1>6. /\ cgOp.parsed[s] # 0 => (cgOp.parsed[s] = cgNative[s] \/ CgPending(s)) /\ ~cgFiles[s].materialized
      /\ s \in cgOp.paths /\ s \in cgOp.read
  BY <1>1 DEF CgInv, CgFoundInv, CgLooking
<1>7. \A u : CgPending(u)' <=> CgPending(u)
  BY <1>3, CgInsidePending
<1>8. CASE UNCHANGED <<cgProj, cgFiles>> /\ (\/ cgFiles[s].materialized /\ cgExcused' = cgExcused
                                             \/ cgExcused' = cgExcused \cup {s})
  <2>1. CgFoundInv'
    BY <1>1, <1>5, <1>7, <1>8 DEF CgInv, CgFoundInv, CgLooking
  <2>2. \A u \in CgSessions \ cgExcused' : CgHandled(u) => CgHandled(u)'
    BY <1>1, <1>4, <1>5, <1>6, <1>8 DEF CgHandled, CgLooking
  <2>3. /\ \A u \in CgSessions : cgOp'.stamp <= cgSpent
        /\ cgExcused \subseteq cgExcused' /\ cgExcused' \subseteq CgSessions
        /\ \A u \in CgSessions : cgOp'.parsed[u] \in {cgOp.parsed[u], cgNative[u]}
    BY <1>4, <1>5, <1>8 DEF CgInv, CgOrderInv
  <2> QED
    BY <1>1, <1>3, <1>5, <1>8, <2>1, <2>2, <2>3, CgLooks
<1>9. CASE /\ cgProj' = [cgProj EXCEPT ![s] = [version |-> new, fresh |-> FALSE]]
           /\ cgFiles' = [cgFiles EXCEPT ![s].materialized = TRUE] /\ cgExcused' = cgExcused \ {s}
  <2>1. /\ new \in CgVersions /\ new <= cgSpent /\ (cgNative[s] > 0 => new <= cgNative[s])
        /\ new = cgNative[s] \/ CgPending(s)
    <3>1. cgOp.parsed[s] \in CgVersions /\ cgNative[s] \in CgVersions /\ cgNative[s] \in Nat
      BY CgTyped DEF CgInv, CgShape, CgCalls
    <3>2. cgOp.parsed[s] <= cgSpent /\ cgNative[s] <= cgSpent /\ (cgNative[s] > 0 => cgOp.parsed[s] <= cgNative[s])
      BY DEF CgInv, CgOrderInv
    <3> QED
      BY <1>6, <3>1, <3>2 DEF new
  <2>2. /\ cgProj' \in [CgSessions -> [version : CgVersions, fresh : BOOLEAN]]
        /\ cgProj'[s].version = new /\ ~cgProj'[s].fresh /\ \A u \in CgSessions \ {s} : cgProj'[u] = cgProj[u]
    BY <1>9, <2>1 DEF CgInv, CgShape
  <2>3. /\ cgFiles' \in [CgSessions -> [stamp : CgVersions, materialized : BOOLEAN]]
        /\ cgFiles'[s].stamp = cgFiles[s].stamp /\ \A u \in CgSessions \ {s} : cgFiles'[u] = cgFiles[u]
    BY <1>9 DEF CgInv, CgShape
  <2>4. CgShape'
    BY <1>1, <1>5, <1>9, <2>2, <2>3 DEF CgInv, CgShape
  <2>5. CgOrderInv'
    <3> SUFFICES ASSUME NEW u \in CgSessions
                 PROVE  /\ cgProj'[u].fresh => cgProj'[u].version = 0
                        /\ cgNative[u] <= cgSpent /\ cgProj'[u].version <= cgSpent /\ cgFiles'[u].stamp <= cgSpent
                        /\ cgOp.parsed[u] <= cgSpent /\ cgOp.stamp <= cgSpent /\ cgOp.confirmed <= cgSpent
                        /\ cgNative[u] > 0 => /\ cgProj'[u].version <= cgNative[u]
                                              /\ cgFiles'[u].stamp <= cgNative[u]
                                              /\ cgOp.parsed[u] <= cgNative[u]
      BY <1>1, <1>5 DEF CgOrderInv
    <3> QED
      BY <2>1, <2>2, <2>3 DEF CgInv, CgOrderInv
  <2>6. CgFoundInv'
    <3> SUFFICES ASSUME NEW u \in CgSessions
                 PROVE  /\ (u \in cgOp.paths <=> cgNative[u] > 0) \/ CgPending(u)
                        /\ u \notin cgOp.paths /\ cgProj'[u].version # 0 => u \in cgOp.initial
                        /\ cgOp.parsed[u] # 0 => u \in cgOp.read /\ (cgOp.parsed[u] = cgNative[u] \/ CgPending(u))
                        /\ u \in cgOp'.todo => u \in cgOp.read /\ (cgOp.parsed[u] # 0 => ~cgFiles'[u].materialized)
      <4>1. cgOp'.todo \cup cgOp'.read \cup cgOp'.now \subseteq cgOp.paths
        BY <1>1, <1>5 DEF CgInv, CgFoundInv, CgLooking
      <4> QED
        BY <1>1, <1>5, <1>7, <4>1 DEF CgFoundInv, CgLooking
    <3> QED
      BY <1>1, <1>5, <1>6, <2>2, <2>3 DEF CgInv, CgFoundInv, CgLooking
  <2>7. CgCareInv'
    <3> SUFFICES ASSUME NEW u \in CgSessions, u \notin cgExcused' PROVE CgSettled(u)' \/ CgPending(u) \/ CgHandled(u)'
      BY <1>7 DEF CgCareInv
    <3>1. CASE u = s
      BY <1>1, <2>1, <2>2, <3>1 DEF CgSettled
    <3>2. CASE u # s
      <4>1. CgHandled(u) => CgHandled(u)'
        BY <1>1, <1>5, <3>2 DEF CgHandled, CgLooking
      <4>2. CgSettled(u)' <=> CgSettled(u)
        BY <1>1, <2>2, <2>3, <3>2 DEF CgSettled, CgMisremembered
      <4> QED
        BY <1>9, <3>2, <4>1, <4>2 DEF CgInv, CgCareInv
    <3> QED
      BY <3>1, <3>2
  <2> QED
    BY <2>4, <2>5, <2>6, <2>7 DEF CgInv
<1> QED
  BY <1>2, <1>8, <1>9

LEMMA CgConfirmKeeps ==
  ASSUME CgInv, CgConfirm
  PROVE  CgInv'
<1>1. /\ cgOp.kind = "write" /\ cgOp.todo = {}
      /\ cgFiles' = [s \in CgSessions |-> IF s \in cgOp.paths THEN cgFiles[s] ELSE CgNoFile]
      /\ UNCHANGED <<cgNative, cgProj, cgEvents, cgMap, cgArmed, cgReady, cgSpent>>
  BY DEF CgConfirm, cgWatchVars
<1>2. CgInside
  BY <1>1 DEF CgInside, CgComing
<1>3. \A u : CgPending(u)' <=> CgPending(u)
  BY <1>2, CgInsidePending
<1>4. /\ cgFiles' \in [CgSessions -> [stamp : CgVersions, materialized : BOOLEAN]]
      /\ \A s \in CgSessions : cgFiles'[s].stamp \in {0, cgFiles[s].stamp} /\ (s \in cgOp.paths => cgFiles'[s] = cgFiles[s])
  <2>1. CgNoFile \in [stamp : CgVersions, materialized : BOOLEAN] /\ CgNoFile.stamp = 0
    BY CgConstants DEF CgNoFile, CgVersions
  <2> QED
    BY <1>1, <2>1 DEF CgInv, CgShape
<1>5. \A s \in CgSessions : cgFiles'[s].stamp <= cgSpent /\ (cgNative[s] > 0 => cgFiles'[s].stamp <= cgNative[s])
  BY <1>4, CgTyped DEF CgInv, CgOrderInv
<1>6. \A s \in CgSessions :
        /\ s \in cgOp.paths /\ s \notin cgExcused => CgSettled(s)' \/ CgPending(s)
        /\ s \notin cgOp.paths /\ ~CgPending(s) => cgNative[s] = 0 /\ (cgProj[s].version # 0 => s \in cgOp.initial)
  <2> TAKE s \in CgSessions
  <2>1. ASSUME s \in cgOp.paths, s \notin cgExcused PROVE CgSettled(s)' \/ CgPending(s)
    <3>1. ~CgHandled(s)
      BY <1>1, <2>1 DEF CgHandled, CgLooking
    <3> QED
      BY <1>1, <1>4, <2>1, <3>1 DEF CgInv, CgCareInv, CgSettled, CgMisremembered
  <2>2. ASSUME s \notin cgOp.paths, ~CgPending(s) PROVE cgNative[s] = 0 /\ (cgProj[s].version # 0 => s \in cgOp.initial)
    BY <1>1, <2>2, CgTyped DEF CgInv, CgFoundInv, CgLooking
  <2> QED
    BY <2>1, <2>2
<1>7. CASE cgOp.complete /\ CgExisting = cgOp.paths
  <2>1. /\ cgOp' = [cgOp EXCEPT !.kind = "prune", !.todo = cgOp.initial \ cgOp.paths, !.confirmed = cgSpent]
        /\ cgExcused' = cgExcused
    BY <1>7 DEF CgConfirm
  <2>2. cgOp \in CgCalls /\ cgSpent \in CgVersions /\ cgOp.now = {}
    BY <1>1 DEF CgInv, CgShape, CgFoundInv
  <2>3. /\ cgOp' \in CgCalls /\ cgOp'.kind = "prune" /\ cgOp'.todo = cgOp.initial \ cgOp.paths /\ cgOp'.now = {}
        /\ cgOp'.confirmed = cgSpent /\ cgOp'.stamp = cgOp.stamp /\ cgOp'.parsed = cgOp.parsed
    BY <2>1, <2>2 DEF CgCalls, CgKinds
  <2>4. CgShape'
    BY <1>1, <1>4, <2>1, <2>3 DEF CgInv, CgShape
  <2>5. CgOrderInv'
    <3> SUFFICES ASSUME NEW u \in CgSessions
                 PROVE  /\ cgProj[u].fresh => cgProj[u].version = 0
                        /\ cgNative[u] <= cgSpent /\ cgProj[u].version <= cgSpent /\ cgFiles'[u].stamp <= cgSpent
                        /\ cgOp.parsed[u] <= cgSpent /\ cgOp.stamp <= cgSpent /\ cgSpent <= cgSpent
                        /\ cgNative[u] > 0 => /\ cgProj[u].version <= cgNative[u]
                                              /\ cgFiles'[u].stamp <= cgNative[u]
                                              /\ cgOp.parsed[u] <= cgNative[u]
      BY <1>1, <2>3 DEF CgOrderInv
    <3> QED
      BY <1>5, CgTyped DEF CgInv, CgOrderInv
  <2>6. CgFoundInv'
    <3> SUFFICES ASSUME NEW u \in CgSessions, u \in cgOp'.todo PROVE cgNative[u] = 0
      BY <1>1, <2>3 DEF CgFoundInv, CgLooking
    <3> QED
      BY <1>7, <2>3, CgTyped DEF CgExisting, CgInv
  <2>7. CgCareInv'
    <3> SUFFICES ASSUME NEW u \in CgSessions, u \notin cgExcused PROVE CgSettled(u)' \/ CgPending(u) \/ CgHandled(u)'
      BY <1>3, <2>1 DEF CgCareInv
    <3>1. CASE u \in cgOp.paths
      BY <1>6, <3>1
    <3>2. CASE u \notin cgOp.paths /\ cgProj[u].version = 0
      BY <1>1, <1>6, <3>2 DEF CgSettled
    <3>3. CASE u \notin cgOp.paths /\ cgProj[u].version # 0
      BY <1>6, <2>3, <3>3 DEF CgHandled
    <3> QED
      BY <3>1, <3>2, <3>3
  <2> QED
    BY <2>4, <2>5, <2>6, <2>7 DEF CgInv
<1>8. CASE ~(cgOp.complete /\ CgExisting = cgOp.paths)
  <2>1. cgOp' = CgNoOp /\ cgExcused' = cgExcused \cup (CgProjected \ CgExisting)
    BY <1>8 DEF CgConfirm
  <2>2. CgShape'
    BY <1>1, <1>4, <2>1, CgNoOpFields DEF CgInv, CgShape, CgProjected
  <2>3. \A u \in CgSessions \ cgExcused' : CgSettled(u)' \/ CgPending(u)
    <3> SUFFICES ASSUME NEW u \in CgSessions, u \notin cgExcused', ~CgPending(u) PROVE CgSettled(u)'
      OBVIOUS
    <3>1. CASE u \in cgOp.paths
      BY <1>6, <2>1, <3>1
    <3>2. CASE u \notin cgOp.paths
      <4>1. cgNative[u] = 0 /\ u \notin CgExisting /\ u \notin CgProjected
        BY <1>6, <2>1, <3>2 DEF CgExisting
      <4> QED
        BY <1>1, <4>1 DEF CgProjected, CgNoProj, CgSettled
    <3> QED
      BY <3>1, <3>2
  <2> QED
    BY <1>1, <1>2, <1>5, <2>1, <2>2, <2>3, CgGivesUp
<1> QED
  BY <1>7, <1>8

LEMMA CgPruneKeeps ==
  ASSUME CgInv, CgPrune
  PROVE  CgInv'
<1>1. /\ cgOp.kind = "prune"
      /\ UNCHANGED <<cgNative, cgFiles, cgEvents, cgMap, cgArmed, cgReady, cgSpent>>
  BY DEF CgPrune, cgWatchVars
<1>2. CgInside
  BY <1>1 DEF CgInside, CgComing
<1>3. \A u : CgPending(u)' <=> CgPending(u)
  BY <1>2, CgInsidePending
<1>4. CASE cgOp.todo = {}
  <2>1. cgOp' = CgNoOp /\ UNCHANGED <<cgProj, cgExcused>>
    BY <1>4 DEF CgPrune
  <2>2. CgShape'
    BY <1>1, <2>1, CgNoOpFields DEF CgInv, CgShape
  <2>3. \A u \in CgSessions \ cgExcused' : CgSettled(u)' \/ CgPending(u)
    <3> SUFFICES ASSUME NEW u \in CgSessions, u \notin cgExcused PROVE CgSettled(u)' \/ CgPending(u)
      BY <2>1
    <3>1. ~CgHandled(u) /\ (CgSettled(u)' <=> CgSettled(u))
      BY <1>1, <1>4, <2>1 DEF CgHandled, CgLooking, CgSettled, CgMisremembered
    <3> QED
      BY <3>1 DEF CgInv, CgCareInv
  <2>4. \A u \in CgSessions : cgFiles'[u].stamp <= cgSpent /\ (cgNative[u] > 0 => cgFiles'[u].stamp <= cgNative[u])
    BY <1>1 DEF CgInv, CgOrderInv
  <2> QED
    BY <1>1, <1>2, <2>1, <2>2, <2>3, <2>4, CgGivesUp
<1>5. CASE cgOp.todo # {}
  <2>1. PICK s \in cgOp.todo :
          /\ cgOp' = [cgOp EXCEPT !.todo = @ \ {s}]
          /\ cgProj' = IF cgProj[s].fresh THEN cgProj ELSE [cgProj EXCEPT ![s] = CgNoProj]
          /\ cgExcused' = cgExcused \ {s}
    BY <1>5 DEF CgPrune
  <2>2. /\ cgOp \in CgCalls /\ cgOp.now = {} /\ s \in CgSessions
        /\ cgNative[s] = 0 \/ CgPending(s)
    BY <1>1 DEF CgInv, CgShape, CgFoundInv, CgCalls
  <2>3. /\ cgOp' \in CgCalls /\ cgOp'.kind = "prune" /\ cgOp'.todo = cgOp.todo \ {s} /\ cgOp'.now = {}
        /\ cgOp'.confirmed = cgOp.confirmed /\ cgOp'.stamp = cgOp.stamp /\ cgOp'.parsed = cgOp.parsed
    BY <1>1, <2>1, <2>2 DEF CgCalls
  <2>4. /\ cgProj' \in [CgSessions -> [version : CgVersions, fresh : BOOLEAN]] /\ cgProj'[s].version = 0
        /\ \A u \in CgSessions \ {s} : cgProj'[u] = cgProj[u]
    <3>1. CgNoProj \in [version : CgVersions, fresh : BOOLEAN] /\ CgNoProj.version = 0
      BY CgConstants DEF CgNoProj, CgVersions
    <3>2. cgProj \in [CgSessions -> [version : CgVersions, fresh : BOOLEAN]]
          /\ (cgProj[s].fresh => cgProj[s].version = 0)
      BY <2>2 DEF CgInv, CgShape, CgOrderInv
    <3> QED
      BY <2>1, <2>2, <3>1, <3>2
  <2>5. CgShape'
    BY <1>1, <2>1, <2>3, <2>4 DEF CgInv, CgShape
  <2>6. CgOrderInv'
    <3> SUFFICES ASSUME NEW u \in CgSessions
                 PROVE  /\ cgProj'[u].fresh => cgProj'[u].version = 0
                        /\ cgNative[u] <= cgSpent /\ cgProj'[u].version <= cgSpent /\ cgFiles[u].stamp <= cgSpent
                        /\ cgOp.parsed[u] <= cgSpent /\ cgOp.stamp <= cgSpent /\ cgOp.confirmed <= cgSpent
                        /\ cgNative[u] > 0 => /\ cgProj'[u].version <= cgNative[u]
                                              /\ cgFiles[u].stamp <= cgNative[u]
                                              /\ cgOp.parsed[u] <= cgNative[u]
      BY <1>1, <2>3 DEF CgOrderInv
    <3> QED
      BY <2>4, CgTyped DEF CgInv, CgOrderInv
  <2>7. CgFoundInv'
    <3> SUFFICES ASSUME NEW u \in CgSessions, u \in cgOp'.todo
                 PROVE  cgNative[u] = 0 \/ (cgNative[u] > cgOp.confirmed /\ CgPending(u))
      BY <1>1, <1>3, <2>3 DEF CgFoundInv, CgLooking
    <3> QED
      BY <1>1, <2>3 DEF CgInv, CgFoundInv
  <2>8. CgCareInv'
    <3> SUFFICES ASSUME NEW u \in CgSessions, u \notin cgExcused' PROVE CgSettled(u)' \/ CgPending(u) \/ CgHandled(u)'
      BY <1>3 DEF CgCareInv
    <3>1. CASE u = s
      BY <1>1, <2>2, <2>4, <3>1 DEF CgSettled
    <3>2. CASE u # s
      <4>1. CgHandled(u) => CgHandled(u)'
        BY <1>1, <2>3, <3>2 DEF CgHandled, CgLooking
      <4>2. CgSettled(u)' <=> CgSettled(u)
        BY <1>1, <2>4, <3>2 DEF CgSettled, CgMisremembered
      <4> QED
        BY <2>1, <3>2, <4>1, <4>2 DEF CgInv, CgCareInv
    <3> QED
      BY <3>1, <3>2
  <2> QED
    BY <2>5, <2>6, <2>7, <2>8 DEF CgInv
<1> QED
  BY <1>4, <1>5

LEMMA CgKeeps == CgInv /\ [CgNext]_cgVars => CgInv'
<1> SUFFICES ASSUME CgInv, [CgNext]_cgVars PROVE CgInv'
  OBVIOUS
<1>1. ASSUME NEW s \in CgSessions, CgClaudeWrites(s) \/ CgClaudeRemoves(s) \/ CgCreate(s) PROVE CgInv'
  BY <1>1, CgFilesKeep
<1>2. ASSUME NEW s \in CgSessions, CgRefresh(s) \/ CgRefreshWrites(s) \/ CgRemember(s) PROVE CgInv'
  BY <1>2, CgRefreshKeeps, CgRefreshWritesKeeps, CgRememberKeeps
<1>3. ASSUME NEW s \in CgSessions, CgStat(s) \/ CgParse(s) \/ CgWrite(s) PROVE CgInv'
  BY <1>3, CgStatKeeps, CgParseKeeps, CgWriteKeeps
<1>4. ASSUME NEW key \in CgSessions \cup {CgAll}, CgFileEvent(key) \/ CgTimerFires(key) \/ CgDue(key) PROVE CgInv'
  BY <1>4, CgTimersKeep, CgDueKeeps DEF CgKeys
<1>5. CASE CgNewProject
  <2>1. CASE CgSessions = {}
    <3>1. /\ cgEvents' \subseteq CgKeys /\ cgSpent' = cgSpent + 1 /\ cgSpent < CgBudget
          /\ UNCHANGED <<cgNative, cgProj, cgFiles, cgMap, cgArmed, cgReady, cgOp, cgExcused>>
      BY <1>5 DEF CgNewProject, CgSpend, CgInv, CgShape, CgKeys
    <3>2. cgSpent' \in CgVersions
      BY <3>1, CgConstants DEF CgInv, CgShape, CgVersions
    <3>3. CgShape'
      BY <3>1, <3>2 DEF CgInv, CgShape
    <3>4. CgOrderInv' /\ CgFoundInv' /\ CgCareInv'
      BY <2>1, <3>1 DEF CgInv, CgOrderInv, CgFoundInv, CgCareInv
    <3> QED
      BY <3>3, <3>4 DEF CgInv
  <2>2. CASE CgSessions # {}
    BY <1>5, <2>2, CgFilesKeep
  <2> QED
    BY <2>1, <2>2
<1>6. CASE CgOtherCall \/ CgScan \/ CgSyncTimesOut \/ CgToWrite \/ CgConfirm \/ CgPrune
  BY <1>6, CgOtherCallKeeps, CgScanKeeps, CgSyncTimesOutKeeps, CgToWriteKeeps, CgConfirmKeeps, CgPruneKeeps
<1>7. CASE UNCHANGED cgVars
  BY <1>7 DEF cgVars, cgWatchVars, CgInv, CgShape, CgOrderInv, CgFoundInv, CgPending, CgComing, CgCareInv,
     CgSettled, CgMisremembered, CgHandled
<1> QED
  BY <1>1, <1>2, <1>3, <1>4, <1>5, <1>6, <1>7 DEF CgNext

LEMMA CgHolds == CgInv => CgTypeOK /\ CgCaughtUp
<1> SUFFICES ASSUME CgInv PROVE CgTypeOK /\ CgCaughtUp
  OBVIOUS
<1>1. CgTypeOK
  BY DEF CgInv, CgShape, CgTypeOK, CgVersions, CgCalls, CgKeys
<1>2. CgCaughtUp
  <2> SUFFICES ASSUME CgAtRest, NEW s \in CgSessions, s \notin cgExcused PROVE CgSettled(s)
    BY DEF CgCaughtUp, CgSettled
  <2>1. ~CgPending(s) /\ ~CgHandled(s)
    BY CgNoOpFields DEF CgAtRest, CgPending, CgComing, CgHandled, CgLooking
  <2> QED
    BY <2>1 DEF CgInv, CgCareInv
<1> QED
  BY <1>1, <1>2

LEMMA CgPruningIsMeant == CgInv /\ [CgNext]_cgVars => CgPrunesOnlyGone
<1> SUFFICES ASSUME CgInv, [CgNext]_cgVars, NEW s \in CgSessions, cgProj[s] # CgNoProj, cgProj'[s] = CgNoProj
             PROVE  ~cgProj[s].fresh /\ (cgNative[s] = 0 \/ cgNative[s] > cgOp.confirmed)
  BY DEF CgPrunesOnlyGone, CgNoProj
<1>1. CgPrune \/ \E u \in CgSessions : CgCreate(u) \/ CgRefreshWrites(u) \/ CgWrite(u)
  BY DEF CgNext, CgClaudeWrites, CgClaudeRemoves, CgRefresh, CgRemember, CgStat, CgParse, CgFileEvent,
     CgTimerFires, CgDue, CgNewProject, CgOtherCall, CgScan, CgSyncTimesOut, CgToWrite, CgConfirm, cgVars
<1>2. CASE CgPrune
  <2>1. cgOp.kind = "prune" /\ cgOp.todo # {}
    BY <1>2 DEF CgPrune
  <2>2. PICK u \in cgOp.todo : cgProj' = IF cgProj[u].fresh THEN cgProj ELSE [cgProj EXCEPT ![u] = CgNoProj]
    BY <1>2, <2>1 DEF CgPrune
  <2>3. s = u /\ ~cgProj[u].fresh
    BY <2>2 DEF CgInv, CgShape
  <2> QED
    BY <2>1, <2>2, <2>3 DEF CgInv, CgFoundInv
<1>3. ASSUME NEW u \in CgSessions, CgCreate(u) PROVE FALSE
  BY <1>3 DEF CgCreate, CgInv, CgShape, CgNoProj
<1>4. ASSUME NEW u \in CgSessions, CgRefreshWrites(u) PROVE FALSE
  <2>1. cgProj' = [cgProj EXCEPT ![u] = [version |-> cgOp.parsed[u], fresh |-> FALSE]] /\ cgOp.parsed[u] # 0
    BY <1>4 DEF CgRefreshWrites, CgInv, CgFoundInv
  <2> QED
    BY <2>1 DEF CgInv, CgShape, CgNoProj
<1>5. ASSUME NEW u \in CgSessions, CgWrite(u) PROVE FALSE
  <2>1. PICK v : v # 0 /\ (cgProj' = cgProj \/ cgProj' = [cgProj EXCEPT ![u] = [version |-> v, fresh |-> FALSE]])
    <3> DEFINE new == IF cgOp.parsed[u] # 0 THEN cgOp.parsed[u] ELSE cgNative[u]
    <3>1. CASE cgOp.parsed[u] # 0 \/ cgNative[u] > 0
      <4>1. new # 0
        BY <3>1
      <4>2. cgProj' = cgProj \/ cgProj' = [cgProj EXCEPT ![u] = [version |-> new, fresh |-> FALSE]]
        BY <1>5 DEF CgWrite
      <4> QED
        BY <4>1, <4>2
    <3>2. CASE ~(cgOp.parsed[u] # 0 \/ cgNative[u] > 0)
      <4>1. cgProj' = cgProj /\ 1 # 0
        BY <1>5, <3>2 DEF CgWrite
      <4> QED
        BY <4>1
    <3> QED
      BY <3>1, <3>2
  <2> QED
    BY <2>1 DEF CgInv, CgShape, CgNoProj
<1> QED
  BY <1>1, <1>2, <1>3, <1>4, <1>5

-----------------------------------------------------------------------------
(* The Codex catalog: versions, listings and local intents.                *)

CdProjs == [version : 0..CdVersions, fresh : BOOLEAN]
CdCalls == [kind : CdKinds \cup {"none"}, thread : SUBSET CdThreads, version : 0..CdVersions]

CdShape ==
  /\ cdState \in [CdThreads -> {"none", "open", "archived", "gone"}]
  /\ cdVersion \in [CdThreads -> 0..CdVersions] /\ cdListed \in [CdThreads -> BOOLEAN]
  /\ cdProj \in [CdThreads -> CdProjs] /\ cdUpdated \in [CdThreads -> 0..CdVersions]
  /\ cdSync \in [pc : {"idle", "list", "threads", "prune"}, initial : SUBSET CdThreads,
                 listing : [CdThreads -> 0..CdVersions], todo : SUBSET CdThreads,
                 now : SUBSET CdThreads, read : 0..CdVersions]
  /\ cdPc \in [CdOps -> {"new", "write", "done", "failed"}] /\ cdOp \in [CdOps -> CdCalls]
  /\ cdHidden \subseteq CdThreads /\ cdAlone \in BOOLEAN

\* Nothing knows a version its thread never had, and what is written down as the
\* last listing is no later than the projection, unless a call wrote it back.
CdVersionsInv ==
  \A t \in CdThreads :
    /\ cdState[t] = "none" <=> cdVersion[t] = 0
    /\ cdProj[t].version <= cdVersion[t] /\ cdUpdated[t] <= cdVersion[t]
    /\ cdSync.listing[t] <= cdVersion[t]
    /\ cdProj[t].version = 0 => cdProj[t] = CdNoProj
    /\ cdProj[t] # CdNoProj /\ t \notin cdOlder => cdUpdated[t] <= cdProj[t].version

\* A Sync is of one thread at a time, one that it found in the listing.
CdSyncInv ==
  /\ cdSync.pc # "threads" => cdSync.now = {}
  /\ \A t \in CdThreads :
       /\ t \in cdSync.now => /\ cdSync.now = {t} /\ cdSync.listing[t] <= cdSync.read
                              /\ cdUpdated[t] <= cdSync.read /\ cdSync.read <= cdVersion[t]
                              /\ t \notin cdSync.todo
       /\ cdSync.pc = "threads" /\ t \in cdSync.todo \cup cdSync.now => cdSync.listing[t] > 0
       /\ cdSync.listing[t] > 0 => cdListed[t]
       /\ cdSync.pc = "prune" /\ t \in cdSync.todo => cdSync.listing[t] = 0

\* What a call is about to write, and what the native call did for it.
CdOpsInv ==
  \A o \in CdOps : cdPc[o] = "write" =>
    \A t \in cdOp[o].thread :
      /\ cdOp[o].kind \in CdKinds /\ cdOp[o].version \in 1..cdVersion[t]
      /\ cdOp[o].kind \in {"archive", "unarchive", "delete"} => t \in cdHidden
      /\ cdOp[o].kind = "fork" => cdVersion[t] > 1
      /\ cdOp[o].kind = "refresh" => t \in cdHidden \/ cdVersion[t] > 1 \/ cdProj[t] # CdNoProj

\* A projection that is not marked is of a thread that was listed.
CdPlain(t) == cdProj[t] # CdNoProj /\ ~cdProj[t].fresh /\ t \notin cdHidden /\ cdVersion[t] <= 1
CdPlainInv ==
  \A t \in CdThreads :
    /\ cdState[t] \in {"archived", "gone"} => t \in cdHidden
    /\ CdPlain(t) => /\ cdListed[t]
                     /\ cdSync.pc \in {"threads", "prune"} => cdSync.listing[t] > 0

\* A Sync nothing overlaps brings every listed thread up to date, and then drops
\* the projections of the others.
CdInStep(t) == cdProj[t].version = cdVersion[t] \/ t \in cdOlder
CdAloneInv ==
  cdAlone =>
    /\ cdSync.pc # "idle" => CdOpsQuiet
    /\ cdSync.pc = "list" => cdSync.initial = CdProjected
    /\ cdSync.pc = "threads" =>
         /\ \A t \in CdThreads : cdSync.listing[t] = IF t \in CdVisible THEN cdVersion[t] ELSE 0
         /\ \A t \in cdSync.now : cdSync.read = cdVersion[t]
         /\ \A t \in CdVisible \ (cdSync.todo \cup cdSync.now) : CdInStep(t)
         /\ CdProjected \ CdVisible \subseteq cdSync.initial
    /\ cdSync.pc = "prune" =>
         /\ \A t \in CdThreads : cdSync.listing[t] = IF t \in CdVisible THEN cdVersion[t] ELSE 0
         /\ \A t \in CdVisible : CdInStep(t)
         /\ \A t \in CdProjected \ CdVisible : t \in cdSync.todo \/ cdProj[t].fresh
    /\ CdSynced

CdInv == CdShape /\ CdVersionsInv /\ CdSyncInv /\ CdOpsInv /\ CdPlainInv /\ CdAloneInv
-----------------------------------------------------------------------------
LEMMA CdStarts == CdInit => CdInv
<1> SUFFICES ASSUME CdInit PROVE CdInv
  OBVIOUS
<1>1. CdShape
  <2>1. cdSync \in [pc : {"idle", "list", "threads", "prune"}, initial : SUBSET CdThreads,
                    listing : [CdThreads -> 0..CdVersions], todo : SUBSET CdThreads,
                    now : SUBSET CdThreads, read : 0..CdVersions]
    BY CdConstants DEF CdInit, CdNoSync
  <2>2. cdOp \in [CdOps -> CdCalls]
    BY CdConstants DEF CdInit, CdCalls
  <2>3. cdProj \in [CdThreads -> CdProjs]
    BY CdConstants DEF CdInit, CdProjs, CdNoProj
  <2>4. /\ cdState \in [CdThreads -> {"none", "open", "archived", "gone"}]
        /\ cdVersion \in [CdThreads -> 0..CdVersions] /\ cdUpdated \in [CdThreads -> 0..CdVersions]
    BY CdConstants DEF CdInit
  <2>5. /\ cdListed \in [CdThreads -> BOOLEAN] /\ cdHidden \subseteq CdThreads /\ cdAlone \in BOOLEAN
        /\ cdPc \in [CdOps -> {"new", "write", "done", "failed"}]
    BY DEF CdInit
  <2> QED
    BY <2>1, <2>2, <2>3, <2>4, <2>5 DEF CdShape
<1>2. CdVersionsInv /\ CdSyncInv /\ CdOpsInv /\ CdPlainInv /\ CdAloneInv
  BY DEF CdInit, CdVersionsInv, CdSyncInv, CdOpsInv, CdPlainInv, CdPlain, CdAloneInv, CdNoSync, CdNoProj
<1> QED
  BY <1>1, <1>2 DEF CdInv

\* A thread gets a turn, or is listed.
LEMMA CdTurnKeeps ==
  ASSUME CdInv, NEW t \in CdThreads, CdTurn(t) \/ CdIndexed(t)
  PROVE  CdInv'
<1>1. /\ cdState[t] = "open" /\ cdListed' = [cdListed EXCEPT ![t] = TRUE] /\ cdAlone' = FALSE
      /\ UNCHANGED <<cdState, cdProj, cdUpdated, cdSync, cdSyncs, cdClosed, cdPc, cdOp, cdHidden, cdOlder>>
  BY DEF CdTurn, CdIndexed, cdSyncVars, cdOpVars, cdHistoryVars
<1>2. /\ cdVersion' \in [CdThreads -> 0..CdVersions]
      /\ \A u \in CdThreads : cdVersion[u] <= cdVersion'[u] /\ (cdVersion'[u] = 0 <=> cdVersion[u] = 0)
      /\ cdVersion[t] > 0
  <2>1. cdVersion[t] \in 1..CdVersions /\ cdVersion \in [CdThreads -> 0..CdVersions]
    BY <1>1 DEF CdInv, CdShape, CdVersionsInv
  <2>2. CASE CdTurn(t)
    BY <2>1, <2>2, CdConstants DEF CdTurn
  <2>3. CASE CdIndexed(t)
    BY <2>1, <2>3, CdConstants DEF CdIndexed
  <2> QED
    BY <2>2, <2>3
<1>3. CdShape /\ cdListed' \in [CdThreads -> BOOLEAN] /\ \A u \in CdThreads : cdListed[u] => cdListed'[u]
  BY <1>1 DEF CdInv, CdShape
<1>4. CdShape'
  BY <1>1, <1>2, <1>3 DEF CdShape
<1>5. CdVersionsInv'
  BY <1>1, <1>2, <1>3, CdConstants DEF CdInv, CdVersionsInv, CdShape, CdProjs, CdNoProj
<1>6. CdSyncInv'
  BY <1>1, <1>2, <1>3, CdConstants DEF CdInv, CdSyncInv, CdShape
<1>7. CdOpsInv'
  <2> SUFFICES ASSUME NEW o \in CdOps, cdPc[o] = "write", NEW u \in cdOp[o].thread
               PROVE  /\ cdOp[o].kind \in CdKinds /\ cdOp[o].version \in 1..cdVersion'[u]
                      /\ cdOp[o].kind \in {"archive", "unarchive", "delete"} => u \in cdHidden
                      /\ cdOp[o].kind = "fork" => cdVersion'[u] > 1
                      /\ cdOp[o].kind = "refresh" => u \in cdHidden \/ cdVersion'[u] > 1 \/ cdProj[u] # CdNoProj
    BY <1>1 DEF CdOpsInv, CdNoProj
  <2>1. u \in CdThreads
    BY <1>3 DEF CdShape, CdCalls
  <2> QED
    BY <1>2, <2>1, CdConstants, <1>3 DEF CdInv, CdOpsInv, CdShape
<1>8. CdPlainInv'
  BY <1>1, <1>2, <1>3, CdConstants DEF CdInv, CdPlainInv, CdPlain, CdShape, CdNoProj
<1>9. CdAloneInv'
  BY <1>1 DEF CdAloneInv
<1> QED
  BY <1>4, <1>5, <1>6, <1>7, <1>8, <1>9 DEF CdInv

\* A call's native half.
LEMMA CdNativeKeeps ==
  ASSUME CdInv, NEW t \in CdThreads, NEW o \in CdOps, NEW kind \in CdKinds, CdNativeCall(o, kind, t)
  PROVE  CdInv'
<1>1. /\ cdPc[o] = "new" /\ cdAlone' = FALSE
      /\ UNCHANGED <<cdProj, cdUpdated, cdSync, cdSyncs, cdClosed, cdOlder>>
      /\ cdHidden' = IF kind \in {"archive", "delete"} THEN cdHidden \cup {t} ELSE cdHidden
      /\ cdOp' = [cdOp EXCEPT ![o] = [kind |-> kind, thread |-> {t}, version |-> cdVersion'[t]]]
      /\ kind = "refresh" => cdProj[t] # CdNoProj
  BY DEF CdNativeCall, cdSyncVars
<1>2. /\ cdPc' \in [CdOps -> {"new", "write", "done", "failed"}]
      /\ \A p \in CdOps \ {o} : cdPc'[p] = cdPc[p]
  BY DEF CdNativeCall, CdGoto, CdInv, CdShape
<1>3. /\ cdState' \in [CdThreads -> {"none", "open", "archived", "gone"}]
      /\ \A u \in CdThreads \ {t} : cdState'[u] = cdState[u]
      /\ kind \in {"start", "fork"} => cdState[t] = "none"
      /\ kind \in {"refresh", "archive"} => cdState[t] = "open"
      /\ kind = "unarchive" => cdState[t] = "archived"
      /\ kind = "delete" => cdState[t] \in {"open", "archived"}
      /\ cdState'[t] = CASE kind = "archive" -> "archived" [] kind = "delete" -> "gone" [] OTHER -> "open"
  BY DEF CdNativeCall, CdInv, CdShape, CdKinds
<1>4. /\ cdVersion' \in [CdThreads -> 0..CdVersions]
      /\ \A u \in CdThreads \ {t} : cdVersion'[u] = cdVersion[u]
      /\ cdVersion'[t] = CASE kind = "start" -> 1 [] kind = "fork" -> 2 [] OTHER -> cdVersion[t]
  BY CdConstants DEF CdNativeCall, CdInv, CdShape
<1>5. /\ cdListed' \in [CdThreads -> BOOLEAN]
      /\ \A u \in CdThreads \ {t} : cdListed'[u] = cdListed[u]
      /\ kind # "start" /\ cdListed[t] => cdListed'[t]
  BY DEF CdNativeCall, CdInv, CdShape
<1>6. /\ cdVersion[t] = 0 <=> kind \in {"start", "fork"}
      /\ cdVersion'[t] \in 1..CdVersions
      /\ \A u \in CdThreads : cdVersion[u] <= cdVersion'[u]
      /\ kind = "fork" => cdVersion'[t] > 1
      /\ kind = "unarchive" => t \in cdHidden
  <2>1. cdVersion[t] = 0 <=> kind \in {"start", "fork"}
    BY <1>3 DEF CdInv, CdVersionsInv, CdKinds
  <2>2. cdVersion'[t] \in 1..CdVersions /\ cdVersion[t] <= cdVersion'[t]
    BY <1>4, <2>1, CdConstants DEF CdInv, CdShape
  <2>3. kind = "unarchive" => t \in cdHidden
    BY <1>3 DEF CdInv, CdPlainInv
  <2>4. \A u \in CdThreads : cdVersion[u] <= cdVersion'[u]
    BY <1>4, <2>2, CdConstants DEF CdInv, CdShape
  <2> QED
    BY <1>4, <2>1, <2>2, <2>3, <2>4
<1>7. CdShape'
  <2>1. cdOp' \in [CdOps -> CdCalls]
    BY <1>1, <1>6, CdConstants DEF CdInv, CdShape, CdCalls
  <2>2. cdHidden' \subseteq CdThreads
    BY <1>1 DEF CdInv, CdShape
  <2> QED
    BY <1>1, <1>2, <1>3, <1>4, <1>5, <2>1, <2>2 DEF CdInv, CdShape
<1>8. CdVersionsInv'
  <2> SUFFICES ASSUME NEW u \in CdThreads
               PROVE  /\ cdState'[u] = "none" <=> cdVersion'[u] = 0
                      /\ cdProj[u].version <= cdVersion'[u] /\ cdUpdated[u] <= cdVersion'[u]
                      /\ cdSync.listing[u] <= cdVersion'[u]
                      /\ cdProj[u].version = 0 => cdProj[u] = CdNoProj
                      /\ cdProj[u] # CdNoProj /\ u \notin cdOlder => cdUpdated[u] <= cdProj[u].version
    BY <1>1 DEF CdVersionsInv, CdNoProj
  <2>1. cdState'[u] = "none" <=> cdVersion'[u] = 0
    BY <1>3, <1>4, <1>6 DEF CdInv, CdVersionsInv, CdKinds
  <2>2. cdVersion[u] \in Nat /\ cdVersion'[u] \in Nat /\ cdProj[u].version \in Nat /\ cdUpdated[u] \in Nat
        /\ cdSync.listing[u] \in Nat
    BY <1>4, CdConstants DEF CdInv, CdShape, CdProjs
  <2> QED
    BY <1>6, <2>1, <2>2 DEF CdInv, CdVersionsInv
<1>9. CdSyncInv'
  <2> SUFFICES ASSUME NEW u \in CdThreads
               PROVE  /\ u \in cdSync.now => cdSync.read <= cdVersion'[u]
                      /\ cdSync.listing[u] > 0 => cdListed'[u]
    BY <1>1 DEF CdInv, CdSyncInv
  <2>1. cdSync.read \in Nat /\ cdVersion[u] \in Nat /\ cdVersion'[u] \in Nat /\ cdSync.listing[u] \in Nat
    BY <1>4, CdConstants DEF CdInv, CdShape
  <2>2. u \in cdSync.now => cdSync.read <= cdVersion'[u]
    BY <1>6, <2>1 DEF CdInv, CdSyncInv
  <2>3. cdSync.listing[u] > 0 => cdListed'[u]
    BY <1>5, <1>6, <2>1 DEF CdInv, CdSyncInv, CdVersionsInv
  <2> QED
    BY <2>2, <2>3
<1>10. CdOpsInv'
  <2> SUFFICES ASSUME NEW p \in CdOps, cdPc'[p] = "write", NEW u \in cdOp'[p].thread
               PROVE  /\ cdOp'[p].kind \in CdKinds /\ cdOp'[p].version \in 1..cdVersion'[u]
                      /\ cdOp'[p].kind \in {"archive", "unarchive", "delete"} => u \in cdHidden'
                      /\ cdOp'[p].kind = "fork" => cdVersion'[u] > 1
                      /\ cdOp'[p].kind = "refresh" => u \in cdHidden' \/ cdVersion'[u] > 1 \/ cdProj[u] # CdNoProj
    BY <1>1 DEF CdOpsInv, CdNoProj
  <2>1. CASE p = o
    <3>1. cdOp'[p].kind = kind /\ cdOp'[p].version = cdVersion'[t] /\ u = t
      BY <1>1, <2>1 DEF CdInv, CdShape
    <3> QED
      BY <1>1, <1>6, <3>1
  <2>2. CASE p # o
    <3>1. cdOp'[p] = cdOp[p] /\ cdPc[p] = "write" /\ u \in CdThreads
      BY <1>1, <1>2, <2>2 DEF CdInv, CdShape, CdCalls
    <3>2. /\ cdOp[p].kind \in CdKinds /\ cdOp[p].version \in 1..cdVersion[u] /\ cdVersion[u] <= cdVersion'[u] /\ cdVersion'[u] \in Nat
          /\ cdVersion[u] \in Nat
          /\ cdOp[p].kind \in {"archive", "unarchive", "delete"} => u \in cdHidden
          /\ cdOp[p].kind = "fork" => cdVersion[u] > 1
          /\ cdOp[p].kind = "refresh" => u \in cdHidden \/ cdVersion[u] > 1 \/ cdProj[u] # CdNoProj
      BY <1>4, <1>6, <3>1, CdConstants DEF CdInv, CdShape, CdOpsInv
    <3>3. u \in cdHidden => u \in cdHidden'
      BY <1>1
    <3> QED
      BY <3>1, <3>2, <3>3
  <2> QED
    BY <2>1, <2>2
<1>11. CdPlainInv'
  <2> SUFFICES ASSUME NEW u \in CdThreads
               PROVE  /\ cdState'[u] \in {"archived", "gone"} => u \in cdHidden'
                      /\ CdPlain(u)' => /\ cdListed'[u]
                                        /\ cdSync.pc \in {"threads", "prune"} => cdSync.listing[u] > 0
    BY <1>1 DEF CdPlainInv, CdPlain
  <2>1. cdState'[u] \in {"archived", "gone"} => u \in cdHidden'
    BY <1>1, <1>3 DEF CdInv, CdPlainInv, CdKinds
  <2>2. ASSUME CdPlain(u)' PROVE CdPlain(u) /\ (u = t => kind \notin {"start", "fork"})
    <3>1. cdProj[u] # CdNoProj /\ ~cdProj[u].fresh /\ u \notin cdHidden /\ cdVersion'[u] <= 1
      BY <1>1, <2>2 DEF CdPlain, CdNoProj
    <3>2. cdVersion[u] <= 1 /\ cdVersion[u] # 0
      BY <1>4, <1>6, <3>1, CdConstants DEF CdInv, CdShape, CdVersionsInv, CdProjs
    <3> QED
      BY <1>6, <3>1, <3>2 DEF CdPlain
  <2>3. CdPlain(u)' => cdListed'[u] /\ (cdSync.pc \in {"threads", "prune"} => cdSync.listing[u] > 0)
    BY <1>5, <2>2 DEF CdInv, CdPlainInv
  <2> QED
    BY <2>1, <2>3
<1>12. CdAloneInv'
  BY <1>1 DEF CdAloneInv
<1> QED
  BY <1>7, <1>8, <1>9, <1>10, <1>11, <1>12 DEF CdInv

\* What materializing leaves of the projections.
LEMMA CdMaterialized ==
  ASSUME CdInv, NEW t \in CdThreads, NEW mode, NEW v \in 1..cdVersion[t], CdMaterialize(t, mode, v)
  PROVE  /\ cdProj' \in [CdThreads -> CdProjs]
         /\ \A u \in CdThreads \ {t} : cdProj'[u] = cdProj[u] /\ (u \in cdOlder' <=> u \in cdOlder)
         /\ cdProj'[t] # CdNoProj /\ cdProj'[t].version = v
         /\ t \notin cdOlder' => cdUpdated[t] <= v
         /\ cdProj'[t].fresh = CdFresh(t, mode, v)
<1>1. cdProj \in [CdThreads -> CdProjs] /\ v \in 0..CdVersions /\ v # 0 /\ cdUpdated[t] \in Nat
  BY CdConstants DEF CdInv, CdShape
<1>2. CdFresh(t, mode, v) \in BOOLEAN
  BY DEF CdFresh
<1> DEFINE p == [version |-> v, fresh |-> CdFresh(t, mode, v)]
<1>3. p \in CdProjs /\ p # CdNoProj /\ p.version = v /\ p.fresh = CdFresh(t, mode, v)
  BY <1>1, <1>2 DEF CdProjs, CdNoProj
<1>4. cdProj' = [cdProj EXCEPT ![t] = p] /\ cdOlder' = IF v < cdUpdated[t] THEN cdOlder \cup {t} ELSE cdOlder \ {t}
  BY DEF CdMaterialize
<1> HIDE DEF p
<1> QED
  BY <1>1, <1>3, <1>4, SMT

\* A call's write.
LEMMA CdWriteCallKeeps ==
  ASSUME CdInv, NEW t \in CdThreads, NEW o \in CdOps, CdWriteCall(o, t)
  PROVE  CdInv'
<1>1. /\ cdPc[o] = "write" /\ t \in cdOp[o].thread /\ cdAlone' = FALSE
      /\ UNCHANGED <<cdState, cdVersion, cdListed, cdUpdated, cdSync, cdSyncs, cdClosed, cdOp, cdHidden>>
  BY DEF CdWriteCall, cdSyncVars, cdNativeVars
<1>2. cdPc' \in [CdOps -> {"new", "write", "done", "failed"}] /\ \A p \in CdOps : cdPc'[p] = "write" => cdPc[p] = "write"
  BY DEF CdWriteCall, CdGoto, CdInv, CdShape
<1>3. /\ cdOp[o].version \in 1..cdVersion[t] /\ cdOp[o].kind \in CdKinds
      /\ cdOp[o].kind \in {"archive", "unarchive", "delete"} => t \in cdHidden
      /\ cdOp[o].kind = "fork" => cdVersion[t] > 1
      /\ cdOp[o].kind = "refresh" => t \in cdHidden \/ cdVersion[t] > 1 \/ cdProj[t] # CdNoProj
  BY <1>1 DEF CdInv, CdOpsInv, CdShape, CdCalls
<1>4. /\ cdProj' \in [CdThreads -> CdProjs]
      /\ \A u \in CdThreads \ {t} : cdProj'[u] = cdProj[u] /\ (u \in cdOlder' <=> u \in cdOlder)
      /\ cdProj'[t].version <= cdVersion[t]
      /\ cdProj'[t].version = 0 => cdProj'[t] = CdNoProj
      /\ cdProj'[t] # CdNoProj /\ t \notin cdOlder' => cdUpdated[t] <= cdProj'[t].version
      /\ CdPlain(t)' => CdPlain(t)
      /\ cdOp[o].kind = "refresh" => t \in cdHidden \/ cdProj'[t] # CdNoProj
      /\ cdProj'[t] = CdNoProj => t \in cdHidden
  <2>1. CASE cdOp[o].kind \in {"archive", "delete"}
    <3>1. cdProj' = [cdProj EXCEPT ![t] = CdNoProj] /\ cdOlder' = cdOlder
      BY <2>1 DEF CdWriteCall
    <3>2. CdNoProj \in CdProjs /\ CdNoProj.version = 0 /\ cdVersion[t] \in Nat /\ cdProj \in [CdThreads -> CdProjs]
      BY CdConstants DEF CdNoProj, CdProjs, CdInv, CdShape
    <3>3. cdProj' \in [CdThreads -> CdProjs] /\ cdProj'[t] = CdNoProj /\ \A u \in CdThreads \ {t} : cdProj'[u] = cdProj[u]
      BY <3>1, <3>2
    <3>4. ~CdPlain(t)'
      BY <3>3 DEF CdPlain, CdNoProj
    <3> QED
      BY <1>3, <2>1, <3>1, <3>2, <3>3, <3>4
  <2>2. CASE cdOp[o].kind \notin {"archive", "delete"}
    <3> DEFINE mode == IF cdOp[o].kind = "start" THEN "set" ELSE "preserve"
               v == cdOp[o].version
    <3>1. CdMaterialize(t, mode, v)
      BY <2>2 DEF CdWriteCall
    <3>2. /\ cdProj' \in [CdThreads -> CdProjs]
          /\ \A u \in CdThreads \ {t} : cdProj'[u] = cdProj[u] /\ (u \in cdOlder' <=> u \in cdOlder)
          /\ cdProj'[t] # CdNoProj /\ cdProj'[t].version = v
          /\ t \notin cdOlder' => cdUpdated[t] <= v
          /\ cdProj'[t].fresh = CdFresh(t, mode, v)
      BY <1>3, <3>1, CdMaterialized
    <3>3. v \in 1..cdVersion[t] /\ cdVersion[t] \in Nat
      BY <1>3, CdConstants DEF CdInv, CdShape
    <3>4. ASSUME CdPlain(t)' PROVE CdPlain(t)
      <4>1. ~cdProj'[t].fresh /\ t \notin cdHidden /\ cdVersion[t] <= 1
        BY <1>1, <3>4 DEF CdPlain
      <4>2. v <= 1
        BY <3>3, <4>1
      <4>3. mode # "set" /\ ~cdProj[t].fresh
        BY <3>2, <4>1, <4>2 DEF CdFresh
      <4>4. cdOp[o].kind = "refresh"
        BY <1>3, <2>2, <3>3, <4>1, <4>3 DEF CdKinds
      <4>5. cdProj[t] # CdNoProj
        BY <1>3, <3>3, <4>1, <4>4
      <4> QED
        BY <4>1, <4>3, <4>5 DEF CdPlain
    <3> QED
      BY <3>2, <3>3, <3>4
  <2> QED
    BY <2>1, <2>2
<1>5. CdShape'
  BY <1>1, <1>2, <1>4 DEF CdInv, CdShape
<1>6. CdVersionsInv'
  <2> SUFFICES ASSUME NEW u \in CdThreads
               PROVE  /\ cdState[u] = "none" <=> cdVersion[u] = 0
                      /\ cdProj'[u].version <= cdVersion[u] /\ cdUpdated[u] <= cdVersion[u]
                      /\ cdSync.listing[u] <= cdVersion[u]
                      /\ cdProj'[u].version = 0 => cdProj'[u] = CdNoProj
                      /\ cdProj'[u] # CdNoProj /\ u \notin cdOlder' => cdUpdated[u] <= cdProj'[u].version
    BY <1>1 DEF CdVersionsInv, CdNoProj
  <2> QED
    BY <1>4 DEF CdInv, CdVersionsInv
<1>7. CdSyncInv'
  BY <1>1 DEF CdInv, CdSyncInv
<1>8. CdOpsInv'
  <2> SUFFICES ASSUME NEW p \in CdOps, cdPc[p] = "write", NEW u \in cdOp[p].thread
               PROVE  /\ cdOp[p].kind \in CdKinds /\ cdOp[p].version \in 1..cdVersion[u]
                      /\ cdOp[p].kind \in {"archive", "unarchive", "delete"} => u \in cdHidden
                      /\ cdOp[p].kind = "fork" => cdVersion[u] > 1
                      /\ cdOp[p].kind = "refresh" => u \in cdHidden \/ cdVersion[u] > 1 \/ cdProj'[u] # CdNoProj
    BY <1>1, <1>2 DEF CdOpsInv, CdNoProj
  <2>1. u \in CdThreads
    BY DEF CdInv, CdShape, CdCalls
  <2> QED
    BY <1>4, <2>1 DEF CdInv, CdOpsInv
<1>9. CdPlainInv'
  <2> SUFFICES ASSUME NEW u \in CdThreads
               PROVE  /\ cdState[u] \in {"archived", "gone"} => u \in cdHidden
                      /\ CdPlain(u)' => /\ cdListed[u]
                                        /\ cdSync.pc \in {"threads", "prune"} => cdSync.listing[u] > 0
    BY <1>1 DEF CdPlainInv, CdPlain
  <2>1. CdPlain(u)' => CdPlain(u)
    BY <1>1, <1>4 DEF CdPlain, CdNoProj
  <2> QED
    BY <2>1 DEF CdInv, CdPlainInv
<1>10. CdAloneInv'
  BY <1>1 DEF CdAloneInv
<1> QED
  BY <1>5, <1>6, <1>7, <1>8, <1>9, <1>10 DEF CdInv

CdSyncRecords == [pc : {"idle", "list", "threads", "prune"}, initial : SUBSET CdThreads,
             listing : [CdThreads -> 0..CdVersions], todo : SUBSET CdThreads,
             now : SUBSET CdThreads, read : 0..CdVersions]

\* A Sync begins, gives up or ends; what was listed is kept of the threads it listed.
LEMMA CdRestKeeps ==
  ASSUME CdInv,
         cdState' = cdState, cdVersion' = cdVersion, cdListed' = cdListed, cdProj' = cdProj,
         cdPc' = cdPc, cdOp' = cdOp, cdHidden' = cdHidden, cdOlder' = cdOlder,
         cdSync' \in CdSyncRecords, cdUpdated' \in [CdThreads -> 0..CdVersions], cdAlone' \in BOOLEAN,
         \A t \in CdThreads : cdUpdated'[t] \in {0, cdUpdated[t]},
         \A t \in CdThreads :
           \/ cdSync'.listing[t] \in {0, cdSync.listing[t]}
           \/ t \in CdVisible /\ cdSync'.listing[t] = cdVersion[t]
  PROVE  CdShape' /\ CdVersionsInv' /\ CdOpsInv'
<1>1. CdShape'
  BY DEF CdInv, CdShape, CdSyncRecords
<1>2. CdVersionsInv'
  <2> SUFFICES ASSUME NEW t \in CdThreads
               PROVE  /\ cdState[t] = "none" <=> cdVersion[t] = 0
                      /\ cdProj[t].version <= cdVersion[t] /\ cdUpdated'[t] <= cdVersion[t]
                      /\ cdSync'.listing[t] <= cdVersion[t]
                      /\ cdProj[t].version = 0 => cdProj[t] = CdNoProj
                      /\ cdProj[t] # CdNoProj /\ t \notin cdOlder => cdUpdated'[t] <= cdProj[t].version
    BY DEF CdVersionsInv, CdNoProj
  <2>1. cdVersion[t] \in Nat /\ cdProj[t].version \in Nat /\ cdUpdated[t] \in Nat /\ cdSync.listing[t] \in Nat
    BY CdConstants DEF CdInv, CdShape, CdProjs
  <2> QED
    BY <2>1 DEF CdInv, CdVersionsInv
<1>3. CdOpsInv'
  BY DEF CdInv, CdOpsInv, CdNoProj
<1> QED
  BY <1>1, <1>2, <1>3

LEMMA CdBeginKeeps ==
  ASSUME CdInv, CdBegin
  PROVE  CdInv'
<1>1. /\ cdSync.pc = "idle" /\ cdSync' = [CdNoSync EXCEPT !.pc = "list", !.initial = CdProjected]
      /\ cdAlone' = CdOpsQuiet
      /\ UNCHANGED <<cdState, cdVersion, cdListed, cdProj, cdUpdated, cdPc, cdOp, cdHidden, cdOlder>>
  BY DEF CdBegin, CdAt, cdNativeVars, cdOpVars, cdHistoryVars
<1>2. /\ cdSync' \in CdSyncRecords /\ cdSync'.pc = "list" /\ cdSync'.initial = CdProjected
      /\ cdSync'.now = {} /\ cdSync'.todo = {}
      /\ \A t \in CdThreads : cdSync'.listing[t] = 0
  <2>1. CdNoSync \in CdSyncRecords /\ CdNoSync.now = {} /\ CdNoSync.todo = {} /\ \A t \in CdThreads : CdNoSync.listing[t] = 0
    BY CdConstants DEF CdNoSync, CdSyncRecords
  <2>2. CdProjected \in SUBSET CdThreads
    BY DEF CdProjected
  <2> QED
    BY <1>1, <2>1, <2>2 DEF CdSyncRecords
<1>3. CdOpsQuiet \in BOOLEAN
  BY DEF CdOpsQuiet
<1>4. CdShape' /\ CdVersionsInv' /\ CdOpsInv'
  <2>1. /\ cdUpdated' \in [CdThreads -> 0..CdVersions] /\ cdAlone' \in BOOLEAN
        /\ \A u \in CdThreads : cdUpdated'[u] \in {0, cdUpdated[u]}
        /\ \A u \in CdThreads : \/ cdSync'.listing[u] \in {0, cdSync.listing[u]}
                                \/ u \in CdVisible /\ cdSync'.listing[u] = cdVersion[u]
    BY <1>1, <1>2, <1>3 DEF CdInv, CdShape
  <2> QED
    BY <1>1, <1>2, <1>3, <2>1, CdRestKeeps
<1>5. CdSyncInv'
  BY <1>1, <1>2 DEF CdSyncInv
<1>6. CdPlainInv'
  BY <1>1, <1>2 DEF CdInv, CdPlainInv, CdPlain, CdNoProj
<1>7. CdAloneInv'
  <2>1. CdProjected' = CdProjected /\ (CdOpsQuiet <=> CdOpsQuiet')
    BY <1>1 DEF CdProjected, CdNoProj, CdOpsQuiet
  <2> QED
    BY <1>1, <1>2, <2>1 DEF CdAloneInv, CdSynced, CdAt
<1> QED
  BY <1>4, <1>5, <1>6, <1>7 DEF CdInv

LEMMA CdListKeeps ==
  ASSUME CdInv, CdList
  PROVE  CdInv'
<1>1. /\ cdSync.pc = "list"
      /\ UNCHANGED <<cdState, cdVersion, cdListed, cdProj, cdUpdated, cdPc, cdOp, cdHidden, cdOlder>>
  BY DEF CdList, CdAt, cdNativeVars, cdOpVars, cdHistoryVars
<1>2. CASE cdSync' = CdNoSync /\ cdAlone' = FALSE
  <2>1. /\ cdSync' \in CdSyncRecords /\ cdSync'.pc = "idle" /\ cdSync'.now = {}
        /\ \A t \in CdThreads : cdSync'.listing[t] = 0
    BY <1>2, CdConstants DEF CdNoSync, CdSyncRecords
  <2>2. CdShape' /\ CdVersionsInv' /\ CdOpsInv'
    <3>1. /\ cdUpdated' \in [CdThreads -> 0..CdVersions] /\ cdAlone' \in BOOLEAN
          /\ \A u \in CdThreads : cdUpdated'[u] \in {0, cdUpdated[u]}
          /\ \A u \in CdThreads : \/ cdSync'.listing[u] \in {0, cdSync.listing[u]}
                                  \/ u \in CdVisible /\ cdSync'.listing[u] = cdVersion[u]
      BY <1>1, <1>2, <2>1 DEF CdInv, CdShape
    <3> QED
      BY <1>1, <1>2, <2>1, <3>1, CdRestKeeps
  <2>3. CdSyncInv' /\ CdPlainInv' /\ CdAloneInv'
    BY <1>1, <1>2, <2>1 DEF CdInv, CdSyncInv, CdPlainInv, CdPlain, CdAloneInv, CdNoProj
  <2> QED
    BY <2>2, <2>3 DEF CdInv
<1>3. CASE /\ cdSync' = [cdSync EXCEPT !.pc = "threads", !.todo = CdVisible,
                          !.listing = [t \in CdThreads |-> IF t \in CdVisible THEN cdVersion[t] ELSE 0]]
           /\ cdAlone' = cdAlone
  <2>1. /\ cdSync' \in CdSyncRecords /\ cdSync'.pc = "threads" /\ cdSync'.todo = CdVisible
        /\ cdSync'.now = {} /\ cdSync'.initial = cdSync.initial
        /\ \A t \in CdThreads : cdSync'.listing[t] = IF t \in CdVisible THEN cdVersion[t] ELSE 0
    <3>1. [t \in CdThreads |-> IF t \in CdVisible THEN cdVersion[t] ELSE 0] \in [CdThreads -> 0..CdVersions]
      BY CdConstants DEF CdInv, CdShape
    <3>2. CdVisible \subseteq CdThreads
      BY DEF CdVisible
    <3>3. cdSync \in CdSyncRecords /\ cdSync.now = {}
      BY <1>1 DEF CdInv, CdShape, CdSyncRecords, CdSyncInv
    <3> QED
      BY <1>3, <3>1, <3>2, <3>3 DEF CdSyncRecords
  <2>2. CdShape' /\ CdVersionsInv' /\ CdOpsInv'
    <3>1. /\ cdUpdated' \in [CdThreads -> 0..CdVersions] /\ cdAlone' \in BOOLEAN
          /\ \A u \in CdThreads : cdUpdated'[u] \in {0, cdUpdated[u]}
          /\ \A u \in CdThreads : \/ cdSync'.listing[u] \in {0, cdSync.listing[u]}
                                  \/ u \in CdVisible /\ cdSync'.listing[u] = cdVersion[u]
      BY <1>1, <1>3, <2>1 DEF CdInv, CdShape
    <3> QED
      BY <1>1, <1>3, <2>1, <3>1, CdRestKeeps
  <2>3. \A t \in CdVisible : t \in CdThreads /\ cdListed[t] /\ cdVersion[t] > 0 /\ cdState[t] = "open"
    BY CdConstants DEF CdVisible, CdInv, CdVersionsInv, CdShape
  <2>4. CdSyncInv'
    BY <1>1, <2>1, <2>3 DEF CdSyncInv
  <2>5. CdPlainInv'
    <3> SUFFICES ASSUME NEW t \in CdThreads, CdPlain(t) PROVE cdListed[t] /\ cdSync'.listing[t] > 0
      BY <1>1, <2>1 DEF CdInv, CdPlainInv, CdPlain, CdNoProj
    <3>1. cdListed[t] /\ cdState[t] \notin {"archived", "gone"}
      BY DEF CdInv, CdPlainInv, CdPlain
    <3>2. cdProj[t].version # 0 /\ cdProj[t].version <= cdVersion[t] /\ cdProj[t].version \in Nat /\ cdVersion[t] \in Nat
      BY CdConstants DEF CdInv, CdShape, CdVersionsInv, CdPlain, CdProjs
    <3>3. cdState[t] = "open"
      BY <3>1, <3>2 DEF CdInv, CdShape, CdVersionsInv
    <3> QED
      BY <2>1, <2>3, <3>1, <3>3 DEF CdVisible
  <2>6. CdAloneInv'
    <3> SUFFICES ASSUME cdAlone PROVE CdAloneInv'
      BY <1>3 DEF CdAloneInv
    <3>1. CdVisible' = CdVisible /\ CdProjected' = CdProjected /\ (CdOpsQuiet' <=> CdOpsQuiet)
      BY <1>1 DEF CdVisible, CdProjected, CdNoProj, CdOpsQuiet
    <3>2. CdOpsQuiet /\ cdSync.initial = CdProjected
      BY <1>1 DEF CdInv, CdAloneInv
    <3> QED
      BY <1>1, <2>1, <3>1, <3>2 DEF CdAloneInv, CdSynced, CdAt
  <2> QED
    BY <2>2, <2>4, <2>5, <2>6 DEF CdInv
<1> QED
  BY <1>2, <1>3 DEF CdList, CdEndSync

LEMMA CdReadKeeps ==
  ASSUME CdInv, NEW t \in CdThreads, CdRead(t)
  PROVE  CdInv'
<1>1. /\ cdSync.pc = "threads" /\ t \in cdSync.todo /\ cdSync.now = {}
      /\ UNCHANGED <<cdState, cdVersion, cdListed, cdProj, cdUpdated, cdPc, cdOp, cdHidden, cdOlder>>
  BY DEF CdRead, CdAt, cdNativeVars, cdOpVars, cdHistoryVars
<1>2. /\ cdSync' \in CdSyncRecords /\ cdAlone' \in BOOLEAN /\ (cdAlone' => cdAlone)
      /\ cdSync'.pc = "threads" /\ cdSync'.todo = cdSync.todo \ {t}
      /\ cdSync'.listing = cdSync.listing /\ cdSync'.initial = cdSync.initial
      /\ \/ cdSync'.now = {} /\ (cdAlone' => CdUnchanged(t))
         \/ cdSync'.now = {t} /\ cdSync'.read = cdVersion[t]
  <2>1. cdSync \in CdSyncRecords /\ cdVersion[t] \in 0..CdVersions /\ cdAlone \in BOOLEAN
    BY DEF CdInv, CdShape, CdSyncRecords
  <2>2. CASE CdUnchanged(t)
    <3>1. cdSync' = [cdSync EXCEPT !.todo = @ \ {t}] /\ cdAlone' = cdAlone
      BY <2>2 DEF CdRead
    <3> QED
      BY <1>1, <2>1, <2>2, <3>1 DEF CdSyncRecords
  <2>3. CASE cdSync' = [cdSync EXCEPT !.todo = @ \ {t}] /\ cdAlone' = FALSE
    BY <1>1, <2>1, <2>3 DEF CdSyncRecords
  <2>4. CASE /\ cdSync' = [[cdSync EXCEPT !.todo = @ \ {t}] EXCEPT !.now = {t}, !.read = cdVersion[t]]
             /\ cdAlone' = cdAlone
    BY <1>1, <2>1, <2>4 DEF CdSyncRecords
  <2> QED
    BY <2>2, <2>3, <2>4 DEF CdRead
<1>3. CdShape' /\ CdVersionsInv' /\ CdOpsInv'
  <2>1. /\ cdUpdated' \in [CdThreads -> 0..CdVersions] /\ cdAlone' \in BOOLEAN
        /\ \A u \in CdThreads : cdUpdated'[u] \in {0, cdUpdated[u]}
        /\ \A u \in CdThreads : \/ cdSync'.listing[u] \in {0, cdSync.listing[u]}
                                \/ u \in CdVisible /\ cdSync'.listing[u] = cdVersion[u]
    BY <1>1, <1>2 DEF CdInv, CdShape
  <2> QED
    BY <1>1, <1>2, <2>1, CdRestKeeps
<1>4. CdSyncInv'
  <2>1. cdSync.listing[t] <= cdVersion[t] /\ cdUpdated[t] <= cdVersion[t] /\ cdVersion[t] \in Nat
    BY CdConstants DEF CdInv, CdVersionsInv, CdShape
  <2> SUFFICES ASSUME NEW u \in CdThreads
               PROVE  /\ u \in cdSync'.now => /\ cdSync'.now = {u} /\ cdSync'.listing[u] <= cdSync'.read
                              /\ cdUpdated[u] <= cdSync'.read /\ cdSync'.read <= cdVersion[u]
                              /\ u \notin cdSync'.todo
                      /\ u \in cdSync'.todo \cup cdSync'.now => cdSync'.listing[u] > 0
                      /\ cdSync'.listing[u] > 0 => cdListed[u]
    BY <1>1, <1>2 DEF CdSyncInv
  <2> QED
    BY <1>1, <1>2, <2>1 DEF CdInv, CdSyncInv
<1>5. CdPlainInv'
  BY <1>1, <1>2 DEF CdInv, CdPlainInv, CdPlain, CdNoProj
<1>6. CdAloneInv'
  <2> SUFFICES ASSUME cdAlone' PROVE CdAloneInv'
    BY DEF CdAloneInv
  <2>1. CdVisible' = CdVisible /\ CdProjected' = CdProjected /\ (CdOpsQuiet' <=> CdOpsQuiet)
        /\ \A u \in CdThreads : CdInStep(u)' <=> CdInStep(u)
    BY <1>1 DEF CdVisible, CdProjected, CdNoProj, CdOpsQuiet, CdInStep
  <2>2. /\ CdOpsQuiet
        /\ \A u \in CdThreads : cdSync.listing[u] = IF u \in CdVisible THEN cdVersion[u] ELSE 0
        /\ \A u \in CdVisible \ (cdSync.todo \cup cdSync.now) : CdInStep(u)
        /\ CdProjected \ CdVisible \subseteq cdSync.initial
    BY <1>1, <1>2 DEF CdInv, CdAloneInv
  <2>3. CdUnchanged(t) => CdInStep(t)
    <3> SUFFICES ASSUME CdUnchanged(t), t \notin cdOlder PROVE cdProj[t].version = cdVersion[t]
      BY DEF CdInStep
    <3>1. cdUpdated[t] = cdSync.listing[t] /\ cdProj[t] # CdNoProj /\ cdSync.listing[t] > 0
      BY <1>1 DEF CdUnchanged, CdInv, CdSyncInv
    <3>2. cdUpdated[t] = cdVersion[t]
      BY <2>2, <3>1
    <3>3. cdUpdated[t] <= cdProj[t].version /\ cdProj[t].version <= cdVersion[t]
          /\ cdProj[t].version \in Nat /\ cdVersion[t] \in Nat
      BY <3>1, CdConstants DEF CdInv, CdShape, CdVersionsInv, CdProjs
    <3> QED
      BY <3>2, <3>3
  <2>4. \A u \in CdVisible \ (cdSync'.todo \cup cdSync'.now) : CdInStep(u)
    BY <1>1, <1>2, <2>2, <2>3 DEF CdVisible
  <2>5. \A u \in cdSync'.now : cdSync'.read = cdVersion[u]
    BY <1>2
  <2>6. \A u \in CdVisible' \ (cdSync'.todo \cup cdSync'.now) : CdInStep(u)'
    BY <2>1, <2>4 DEF CdVisible
  <2> QED
    BY <1>1, <1>2, <2>1, <2>2, <2>5, <2>6 DEF CdAloneInv, CdSynced, CdAt
<1> QED
  BY <1>3, <1>4, <1>5, <1>6 DEF CdInv

LEMMA CdWriteKeeps ==
  ASSUME CdInv, NEW t \in CdThreads, CdWrite(t)
  PROVE  CdInv'
<1>1. /\ cdSync.pc = "threads" /\ t \in cdSync.now
      /\ cdSync' = [cdSync EXCEPT !.now = {}, !.read = 0]
      /\ UNCHANGED <<cdState, cdVersion, cdListed, cdPc, cdOp, cdHidden>>
  BY DEF CdWrite, CdAt, cdNativeVars, cdOpVars
<1>2. /\ cdSync' \in CdSyncRecords /\ cdSync'.pc = "threads" /\ cdSync'.now = {}
      /\ cdSync'.todo = cdSync.todo /\ cdSync'.listing = cdSync.listing /\ cdSync'.initial = cdSync.initial
  <2>1. cdSync \in CdSyncRecords /\ 0 \in 0..CdVersions
    BY CdConstants DEF CdInv, CdShape, CdSyncRecords
  <2> QED
    BY <1>1, <2>1 DEF CdSyncRecords
<1>3. /\ cdSync.listing[t] \in Nat /\ cdSync.read \in Nat /\ cdUpdated[t] \in Nat /\ cdVersion[t] \in Nat
      /\ 0 < cdSync.listing[t] /\ cdSync.listing[t] <= cdSync.read /\ cdSync.read <= cdVersion[t]
      /\ cdUpdated[t] <= cdSync.read /\ t \notin cdSync.todo /\ cdSync.now = {t}
      /\ cdSync.listing[t] <= cdVersion[t]
  BY <1>1, CdConstants DEF CdInv, CdShape, CdSyncInv, CdVersionsInv
<1>4. CASE cdAlone' = FALSE /\ UNCHANGED <<cdProj, cdUpdated, cdOlder>>
  <2>1. CdShape' /\ CdVersionsInv' /\ CdOpsInv'
    <3>1. /\ cdUpdated' \in [CdThreads -> 0..CdVersions] /\ cdAlone' \in BOOLEAN
          /\ \A u \in CdThreads : cdUpdated'[u] \in {0, cdUpdated[u]}
          /\ \A u \in CdThreads : cdSync'.listing[u] \in {0, cdSync.listing[u]}
      BY <1>2, <1>4 DEF CdInv, CdShape
    <3> QED
      BY <1>1, <1>2, <1>4, <3>1, CdRestKeeps
  <2>2. CdSyncInv'
    BY <1>1, <1>2, <1>4 DEF CdInv, CdSyncInv
  <2>3. CdPlainInv' /\ CdAloneInv'
    BY <1>1, <1>2, <1>4 DEF CdInv, CdPlainInv, CdPlain, CdNoProj, CdAloneInv
  <2> QED
    BY <2>1, <2>2, <2>3 DEF CdInv
<1>5. CASE /\ CdMaterialize(t, "clear", cdSync.read)
           /\ cdUpdated' = [cdUpdated EXCEPT ![t] = cdSync.listing[t]] /\ UNCHANGED cdAlone
  <2>1. /\ cdProj' \in [CdThreads -> CdProjs]
        /\ \A u \in CdThreads \ {t} : cdProj'[u] = cdProj[u] /\ (u \in cdOlder' <=> u \in cdOlder)
        /\ cdProj'[t] # CdNoProj /\ cdProj'[t].version = cdSync.read
    <3>1. cdSync.read \in 1..cdVersion[t]
      BY <1>3
    <3> QED
      BY <1>5, <3>1, CdMaterialized
  <2>2. /\ cdUpdated' \in [CdThreads -> 0..CdVersions] /\ cdUpdated'[t] = cdSync.listing[t]
        /\ \A u \in CdThreads \ {t} : cdUpdated'[u] = cdUpdated[u]
    BY <1>5 DEF CdInv, CdShape
  <2>3. CdShape'
    BY <1>1, <1>2, <1>5, <2>1, <2>2 DEF CdInv, CdShape, CdSyncRecords
  <2>4. CdVersionsInv'
    <3> SUFFICES ASSUME NEW u \in CdThreads
                 PROVE  /\ cdState[u] = "none" <=> cdVersion[u] = 0
                        /\ cdProj'[u].version <= cdVersion[u] /\ cdUpdated'[u] <= cdVersion[u]
                        /\ cdSync.listing[u] <= cdVersion[u]
                        /\ cdProj'[u].version = 0 => cdProj'[u] = CdNoProj
                        /\ cdProj'[u] # CdNoProj /\ u \notin cdOlder' => cdUpdated'[u] <= cdProj'[u].version
      BY <1>1, <1>2 DEF CdVersionsInv, CdNoProj
    <3>1. CASE u = t
      BY <1>3, <2>1, <2>2, <3>1 DEF CdInv, CdVersionsInv
    <3>2. CASE u # t
      BY <2>1, <2>2, <3>2 DEF CdInv, CdVersionsInv
    <3> QED
      BY <3>1, <3>2
  <2>5. CdSyncInv'
    BY <1>1, <1>2 DEF CdInv, CdSyncInv
  <2>6. CdOpsInv'
    <3> SUFFICES ASSUME NEW o \in CdOps, cdPc[o] = "write", NEW u \in cdOp[o].thread
                 PROVE  /\ cdOp[o].kind \in CdKinds /\ cdOp[o].version \in 1..cdVersion[u]
                        /\ cdOp[o].kind \in {"archive", "unarchive", "delete"} => u \in cdHidden
                        /\ cdOp[o].kind = "fork" => cdVersion[u] > 1
                        /\ cdOp[o].kind = "refresh" => u \in cdHidden \/ cdVersion[u] > 1 \/ cdProj'[u] # CdNoProj
      BY <1>1 DEF CdOpsInv, CdNoProj
    <3>1. u \in CdThreads
      BY DEF CdInv, CdShape, CdCalls
    <3> QED
      BY <2>1, <3>1 DEF CdInv, CdOpsInv
  <2>7. CdPlainInv'
    <3> SUFFICES ASSUME NEW u \in CdThreads
                 PROVE  /\ cdState[u] \in {"archived", "gone"} => u \in cdHidden
                        /\ CdPlain(u)' => cdListed[u] /\ cdSync.listing[u] > 0
      BY <1>1, <1>2 DEF CdPlainInv, CdPlain
    <3>1. CASE u = t
      BY <1>3, <3>1 DEF CdInv, CdPlainInv, CdSyncInv
    <3>2. CASE u # t
      <4>1. CdPlain(u)' => CdPlain(u)
        BY <1>1, <2>1, <3>2 DEF CdPlain, CdNoProj
      <4> QED
        BY <1>1, <4>1 DEF CdInv, CdPlainInv
    <3> QED
      BY <3>1, <3>2
  <2>8. CdAloneInv'
    <3> SUFFICES ASSUME cdAlone PROVE CdAloneInv'
      BY <1>5 DEF CdAloneInv
    <3>1. CdVisible' = CdVisible /\ (CdOpsQuiet' <=> CdOpsQuiet)
      BY <1>1 DEF CdVisible, CdOpsQuiet
    <3>2. /\ CdOpsQuiet
          /\ \A u \in CdThreads : cdSync.listing[u] = IF u \in CdVisible THEN cdVersion[u] ELSE 0
          /\ \A u \in cdSync.now : cdSync.read = cdVersion[u]
          /\ \A u \in CdVisible \ (cdSync.todo \cup cdSync.now) : CdInStep(u)
          /\ CdProjected \ CdVisible \subseteq cdSync.initial
      BY <1>1 DEF CdInv, CdAloneInv
    <3>3. t \in CdVisible /\ CdInStep(t)'
      BY <1>1, <1>3, <2>1, <3>2 DEF CdInStep
    <3>4. \A u \in CdThreads \ {t} : CdInStep(u) => CdInStep(u)'
      BY <1>1, <2>1 DEF CdInStep
    <3>5. \A u \in CdVisible' \ (cdSync'.todo \cup cdSync'.now) : CdInStep(u)'
      BY <1>2, <1>3, <3>1, <3>2, <3>3, <3>4 DEF CdVisible
    <3>6. CdProjected' \ CdVisible' \subseteq cdSync'.initial
      <4>1. CdProjected' \subseteq CdProjected \cup {t}
        BY <2>1 DEF CdProjected, CdNoProj
      <4> QED
        BY <1>2, <3>1, <3>2, <3>3, <4>1
    <3> QED
      BY <1>1, <1>2, <3>1, <3>2, <3>5, <3>6 DEF CdAloneInv, CdSynced, CdAt
  <2> QED
    BY <2>3, <2>4, <2>5, <2>6, <2>7, <2>8 DEF CdInv
<1> QED
  BY <1>4, <1>5 DEF CdWrite

LEMMA CdToPruneKeeps ==
  ASSUME CdInv, CdToPrune
  PROVE  CdInv'
<1>1. /\ cdSync.pc = "threads" /\ cdSync.todo = {} /\ cdSync.now = {}
      /\ UNCHANGED <<cdState, cdVersion, cdListed, cdProj, cdUpdated, cdPc, cdOp, cdHidden, cdOlder, cdAlone>>
  BY DEF CdToPrune, CdAt, cdNativeVars, cdOpVars, cdHistoryVars
<1>2. /\ cdSync' \in CdSyncRecords /\ cdSync'.pc = "prune" /\ cdSync'.now = {}
      /\ cdSync'.todo = {t \in cdSync.initial : cdSync.listing[t] = 0} /\ cdSync'.listing = cdSync.listing
  <2>1. cdSync \in CdSyncRecords
    BY DEF CdInv, CdShape, CdSyncRecords
  <2>2. {t \in cdSync.initial : cdSync.listing[t] = 0} \in SUBSET CdThreads
    BY <2>1 DEF CdSyncRecords
  <2>3. cdSync' = [cdSync EXCEPT !.pc = "prune", !.todo = {t \in cdSync.initial : cdSync.listing[t] = 0}]
    BY DEF CdToPrune
  <2> QED
    BY <1>1, <2>1, <2>2, <2>3 DEF CdSyncRecords
<1>3. CdShape' /\ CdVersionsInv' /\ CdOpsInv'
  <2>1. /\ cdUpdated' \in [CdThreads -> 0..CdVersions] /\ cdAlone' \in BOOLEAN
        /\ \A u \in CdThreads : cdUpdated'[u] \in {0, cdUpdated[u]}
        /\ \A u \in CdThreads : cdSync'.listing[u] \in {0, cdSync.listing[u]}
    BY <1>1, <1>2 DEF CdInv, CdShape
  <2> QED
    BY <1>1, <1>2, <2>1, CdRestKeeps
<1>4. CdSyncInv' /\ CdPlainInv'
  BY <1>1, <1>2 DEF CdInv, CdSyncInv, CdPlainInv, CdPlain, CdNoProj
<1>5. CdAloneInv'
  <2> SUFFICES ASSUME cdAlone PROVE CdAloneInv'
    BY <1>1 DEF CdAloneInv
  <2>1. CdVisible' = CdVisible /\ CdProjected' = CdProjected /\ (CdOpsQuiet' <=> CdOpsQuiet)
        /\ \A u \in CdThreads : CdInStep(u)' <=> CdInStep(u)
    BY <1>1 DEF CdVisible, CdProjected, CdNoProj, CdOpsQuiet, CdInStep
  <2>2. /\ CdOpsQuiet
        /\ \A u \in CdThreads : cdSync.listing[u] = IF u \in CdVisible THEN cdVersion[u] ELSE 0
        /\ \A u \in CdVisible : CdInStep(u)
        /\ CdProjected \ CdVisible \subseteq cdSync.initial
    BY <1>1 DEF CdInv, CdAloneInv
  <2>3. \A u \in CdVisible' : CdInStep(u)'
    BY <2>1, <2>2 DEF CdVisible
  <2>4. \A u \in CdProjected' \ CdVisible' : u \in cdSync'.todo
    BY <1>2, <2>1, <2>2 DEF CdProjected
  <2> QED
    BY <1>1, <1>2, <2>1, <2>2, <2>3, <2>4 DEF CdAloneInv, CdSynced, CdAt
<1> QED
  BY <1>3, <1>4, <1>5 DEF CdInv

LEMMA CdPruneKeeps ==
  ASSUME CdInv, NEW t \in CdThreads, CdPrune(t)
  PROVE  CdInv'
<1>1. /\ cdSync.pc = "prune" /\ t \in cdSync.todo /\ cdSync' = [cdSync EXCEPT !.todo = @ \ {t}]
      /\ UNCHANGED <<cdState, cdVersion, cdListed, cdUpdated, cdPc, cdOp, cdHidden, cdOlder, cdAlone>>
  BY DEF CdPrune, CdAt, cdNativeVars, cdOpVars, cdHistoryVars
<1>2. /\ cdSync' \in CdSyncRecords /\ cdSync'.pc = "prune" /\ cdSync'.now = cdSync.now
      /\ cdSync'.todo = cdSync.todo \ {t} /\ cdSync'.listing = cdSync.listing /\ cdSync'.read = cdSync.read
  <2>1. cdSync \in CdSyncRecords
    BY DEF CdInv, CdShape, CdSyncRecords
  <2> QED
    BY <1>1, <2>1 DEF CdSyncRecords
<1>3. /\ cdProj' \in [CdThreads -> CdProjs] /\ \A u \in CdThreads \ {t} : cdProj'[u] = cdProj[u]
      /\ IF cdProj[t].fresh THEN cdProj'[t] = cdProj[t] ELSE cdProj'[t] = CdNoProj
      /\ CdNoProj.version = 0
  <2>1. CdNoProj \in CdProjs /\ CdNoProj.version = 0 /\ cdProj \in [CdThreads -> CdProjs]
    BY CdConstants DEF CdNoProj, CdProjs, CdInv, CdShape
  <2> QED
    BY <2>1 DEF CdPrune
<1>4. cdSync.listing[t] = 0 /\ (cdProj'[t] = CdNoProj /\ cdProj[t] # CdNoProj => t \in cdHidden \/ cdVersion[t] > 1)
  <2>1. cdSync.listing[t] = 0 /\ ~CdPlain(t)
    BY <1>1 DEF CdInv, CdSyncInv, CdPlainInv
  <2>2. cdVersion[t] \in Nat /\ CdNoProj.fresh = FALSE
    BY CdConstants DEF CdInv, CdShape, CdNoProj
  <2> QED
    BY <1>3, <2>1, <2>2 DEF CdPlain
<1>5. CdShape'
  BY <1>1, <1>2, <1>3 DEF CdInv, CdShape, CdSyncRecords
<1>6. CdVersionsInv'
  <2> SUFFICES ASSUME NEW u \in CdThreads
               PROVE  /\ cdState[u] = "none" <=> cdVersion[u] = 0
                      /\ cdProj'[u].version <= cdVersion[u] /\ cdUpdated[u] <= cdVersion[u]
                      /\ cdSync.listing[u] <= cdVersion[u]
                      /\ cdProj'[u].version = 0 => cdProj'[u] = CdNoProj
                      /\ cdProj'[u] # CdNoProj /\ u \notin cdOlder => cdUpdated[u] <= cdProj'[u].version
    BY <1>1, <1>2 DEF CdVersionsInv, CdNoProj
  <2>1. cdVersion[u] \in Nat
    BY CdConstants DEF CdInv, CdShape
  <2> QED
    BY <1>3, <2>1 DEF CdInv, CdVersionsInv
<1>7. CdSyncInv'
  BY <1>1, <1>2 DEF CdInv, CdSyncInv
<1>8. CdOpsInv'
  <2> SUFFICES ASSUME NEW o \in CdOps, cdPc[o] = "write", NEW u \in cdOp[o].thread
               PROVE  /\ cdOp[o].kind \in CdKinds /\ cdOp[o].version \in 1..cdVersion[u]
                      /\ cdOp[o].kind \in {"archive", "unarchive", "delete"} => u \in cdHidden
                      /\ cdOp[o].kind = "fork" => cdVersion[u] > 1
                      /\ cdOp[o].kind = "refresh" => u \in cdHidden \/ cdVersion[u] > 1 \/ cdProj'[u] # CdNoProj
    BY <1>1 DEF CdOpsInv, CdNoProj
  <2>1. u \in CdThreads
    BY DEF CdInv, CdShape, CdCalls
  <2> QED
    BY <1>3, <1>4, <2>1 DEF CdInv, CdOpsInv
<1>9. CdPlainInv'
  <2> SUFFICES ASSUME NEW u \in CdThreads
               PROVE  /\ cdState[u] \in {"archived", "gone"} => u \in cdHidden
                      /\ CdPlain(u)' => cdListed[u] /\ cdSync.listing[u] > 0
    BY <1>1, <1>2 DEF CdPlainInv, CdPlain
  <2>1. CdPlain(u)' => CdPlain(u)
    BY <1>1, <1>3 DEF CdPlain, CdNoProj
  <2> QED
    BY <1>1, <2>1 DEF CdInv, CdPlainInv
<1>10. CdAloneInv'
  <2> SUFFICES ASSUME cdAlone PROVE CdAloneInv'
    BY <1>1 DEF CdAloneInv
  <2>1. CdVisible' = CdVisible /\ (CdOpsQuiet' <=> CdOpsQuiet)
    BY <1>1 DEF CdVisible, CdOpsQuiet
  <2>2. /\ CdOpsQuiet
        /\ \A u \in CdThreads : cdSync.listing[u] = IF u \in CdVisible THEN cdVersion[u] ELSE 0
        /\ \A u \in CdVisible : CdInStep(u)
        /\ \A u \in CdProjected \ CdVisible : u \in cdSync.todo \/ cdProj[u].fresh
    BY <1>1 DEF CdInv, CdAloneInv
  <2>3. t \notin CdVisible
    <3> SUFFICES ASSUME t \in CdVisible PROVE FALSE
      OBVIOUS
    <3>1. cdVersion[t] = 0 /\ cdState[t] = "open"
      BY <1>4, <2>2 DEF CdVisible
    <3> QED
      BY <3>1 DEF CdInv, CdVersionsInv
  <2>4. \A u \in CdVisible' : CdInStep(u)'
    BY <1>1, <1>3, <2>1, <2>2, <2>3 DEF CdVisible, CdInStep
  <2>5. \A u \in CdProjected' \ CdVisible' : u \in cdSync'.todo \/ cdProj'[u].fresh
    <3> SUFFICES ASSUME NEW u \in CdThreads, cdProj'[u] # CdNoProj, u \notin CdVisible
                 PROVE  u \in cdSync'.todo \/ cdProj'[u].fresh
      BY <2>1 DEF CdProjected, CdNoProj
    <3>1. CASE u = t
      BY <1>3, <3>1
    <3>2. CASE u # t
      BY <1>2, <1>3, <2>2, <3>2 DEF CdProjected
    <3> QED
      BY <3>1, <3>2
  <2> QED
    BY <1>1, <1>2, <2>1, <2>2, <2>4, <2>5 DEF CdAloneInv, CdSynced, CdAt
<1> QED
  BY <1>5, <1>6, <1>7, <1>8, <1>9, <1>10 DEF CdInv

LEMMA CdEndKeeps ==
  ASSUME CdInv, CdEnd
  PROVE  CdInv'
<1>1. /\ cdSync.pc = "prune" /\ cdSync.todo = {} /\ cdSync' = CdNoSync
      /\ cdUpdated' = [t \in CdThreads |-> IF cdSync.listing[t] = 0 THEN 0 ELSE cdUpdated[t]]
      /\ UNCHANGED <<cdState, cdVersion, cdListed, cdProj, cdPc, cdOp, cdHidden, cdOlder, cdAlone>>
  BY DEF CdEnd, CdAt, CdEndSync, cdNativeVars, cdOpVars, cdHistoryVars
<1>2. /\ cdSync' \in CdSyncRecords /\ cdSync'.pc = "idle" /\ cdSync'.now = {}
      /\ \A t \in CdThreads : cdSync'.listing[t] = 0
  BY <1>1, CdConstants DEF CdNoSync, CdSyncRecords
<1>3. CdShape' /\ CdVersionsInv' /\ CdOpsInv'
  <2>1. /\ cdUpdated' \in [CdThreads -> 0..CdVersions] /\ cdAlone' \in BOOLEAN
        /\ \A u \in CdThreads : cdUpdated'[u] \in {0, cdUpdated[u]}
        /\ \A u \in CdThreads : cdSync'.listing[u] \in {0, cdSync.listing[u]}
    BY <1>1, <1>2, CdConstants DEF CdInv, CdShape
  <2> QED
    BY <1>1, <1>2, <2>1, CdRestKeeps
<1>4. CdSyncInv' /\ CdPlainInv'
  BY <1>1, <1>2 DEF CdInv, CdSyncInv, CdPlainInv, CdPlain, CdNoProj
<1>5. CdAloneInv'
  <2> SUFFICES ASSUME cdAlone PROVE CdAloneInv'
    BY <1>1 DEF CdAloneInv
  <2>1. CdVisible' = CdVisible /\ CdProjected' = CdProjected
        /\ \A u \in CdThreads : CdInStep(u)' <=> CdInStep(u)
    BY <1>1 DEF CdVisible, CdProjected, CdNoProj, CdInStep
  <2>2. /\ \A u \in CdVisible : CdInStep(u)
        /\ \A u \in CdProjected \ CdVisible : cdProj[u].fresh
    BY <1>1 DEF CdInv, CdAloneInv
  <2>3. CdSynced'
    BY <1>1, <2>1, <2>2 DEF CdSynced, CdInStep
  <2> QED
    BY <1>2, <2>3 DEF CdAloneInv
<1> QED
  BY <1>3, <1>4, <1>5 DEF CdInv

LEMMA CdRests ==
  ASSUME CdInv, CdClose \/ UNCHANGED cdVars
  PROVE  CdInv'
<1>1. UNCHANGED <<cdState, cdVersion, cdListed, cdProj, cdUpdated, cdSync, cdPc, cdOp, cdHidden, cdOlder, cdAlone>>
  BY DEF CdClose, cdVars, cdNativeVars, cdSyncVars, cdOpVars, cdHistoryVars
<1>2. CdShape' /\ CdVersionsInv' /\ CdSyncInv' /\ CdOpsInv' /\ CdPlainInv'
  BY <1>1 DEF CdInv, CdShape, CdVersionsInv, CdSyncInv, CdOpsInv, CdPlainInv, CdPlain, CdNoProj
<1>3. CdVisible' = CdVisible /\ CdProjected' = CdProjected /\ (CdOpsQuiet' <=> CdOpsQuiet)
      /\ \A u : CdInStep(u)' <=> CdInStep(u)
  BY <1>1 DEF CdVisible, CdProjected, CdNoProj, CdOpsQuiet, CdInStep
<1>4. CdAloneInv'
  BY <1>1, <1>3 DEF CdInv, CdAloneInv, CdSynced, CdAt
<1> QED
  BY <1>2, <1>4 DEF CdInv

LEMMA CdKeeps == CdInv /\ [CdNext]_cdVars => CdInv'
<1> SUFFICES ASSUME CdInv, [CdNext]_cdVars PROVE CdInv'
  OBVIOUS
<1>1. ASSUME NEW t \in CdThreads, CdTurn(t) \/ CdIndexed(t) PROVE CdInv'
  BY <1>1, CdTurnKeeps
<1>2. ASSUME NEW t \in CdThreads, CdRead(t) PROVE CdInv'
  BY <1>2, CdReadKeeps
<1>3. ASSUME NEW t \in CdThreads, CdWrite(t) PROVE CdInv'
  BY <1>3, CdWriteKeeps
<1>4. ASSUME NEW t \in CdThreads, CdPrune(t) PROVE CdInv'
  BY <1>4, CdPruneKeeps
<1>5. ASSUME NEW t \in CdThreads, NEW o \in CdOps, CdWriteCall(o, t) PROVE CdInv'
  BY <1>5, CdWriteCallKeeps
<1>6. ASSUME NEW t \in CdThreads, NEW o \in CdOps, NEW kind \in CdKinds, CdNativeCall(o, kind, t) PROVE CdInv'
  BY <1>6, CdNativeKeeps
<1>7. CdBegin \/ CdList \/ CdToPrune \/ CdEnd \/ CdClose \/ UNCHANGED cdVars => CdInv'
  BY CdBeginKeeps, CdListKeeps, CdToPruneKeeps, CdEndKeeps, CdRests
<1> QED
  BY <1>1, <1>2, <1>3, <1>4, <1>5, <1>6, <1>7 DEF CdNext

LEMMA CdHolds == CdInv => CdTypeOK /\ CdSynced
<1> SUFFICES ASSUME CdInv PROVE CdTypeOK /\ CdSynced
  OBVIOUS
<1>1. CdSynced
  BY DEF CdInv, CdAloneInv, CdSynced
<1>2. Cardinality(cdSync.now) <= 1
  <2>1. CASE cdSync.now = {}
    BY <2>1, FS_EmptySet
  <2>2. CASE \E t \in CdThreads : cdSync.now = {t}
    <3>1. PICK t \in CdThreads : cdSync.now = {t}
      BY <2>2
    <3>2. Cardinality({t}) = 1
      BY FS_Singleton
    <3> QED
      BY <3>1, <3>2
  <2> QED
    BY <2>1, <2>2 DEF CdInv, CdShape, CdSyncInv
<1> QED
  BY <1>1, <1>2 DEF CdInv, CdShape, CdTypeOK, CdProjs

\* The projection of a session created here goes only with the session, or when a
\* listing after its first turn no longer shows it.
LEMMA CdIntentStays == CdInv /\ [CdNext]_cdVars => CdIntentKept
<1> SUFFICES ASSUME CdInv, [CdNext]_cdVars, NEW t \in CdThreads, cdProj[t] # CdNoProj, cdProj'[t] = CdNoProj
             PROVE  t \in cdHidden \/ cdVersion[t] > 1
  BY DEF CdIntentKept, CdNoProj
<1>1. PICK u \in CdThreads : CdWrite(u) \/ CdPrune(u) \/ \E o \in CdOps : CdWriteCall(o, u)
  <2>1. cdProj' # cdProj
    OBVIOUS
  <2>2. ASSUME NEW u \in CdThreads, CdTurn(u) \/ CdIndexed(u) \/ CdRead(u) PROVE cdProj' = cdProj
    BY <2>2 DEF CdTurn, CdIndexed, CdRead, cdSyncVars, cdOpVars, cdHistoryVars
  <2>3. ASSUME NEW u \in CdThreads, NEW o \in CdOps, NEW kind \in CdKinds, CdNativeCall(o, kind, u)
        PROVE  cdProj' = cdProj
    BY <2>3 DEF CdNativeCall, cdSyncVars, cdOpVars, cdHistoryVars
  <2>4. ASSUME CdBegin \/ CdList \/ CdToPrune \/ CdEnd \/ CdClose PROVE cdProj' = cdProj
    BY <2>4 DEF CdBegin, CdList, CdToPrune, CdEnd, CdClose, cdNativeVars, cdSyncVars, cdOpVars, cdHistoryVars
  <2>5. UNCHANGED cdVars => cdProj' = cdProj
    BY DEF cdVars
  <2> QED
    BY <2>1, <2>2, <2>3, <2>4, <2>5 DEF CdNext
<1>2. CASE CdWrite(u)
  <2>1. u \in cdSync.now
    BY <1>2 DEF CdWrite
  <2>2. cdSync.read \in 1..cdVersion[u]
    BY <2>1, CdConstants DEF CdInv, CdShape, CdSyncInv, CdWrite
  <2>3. CASE CdMaterialize(u, "clear", cdSync.read)
    BY <2>2, <2>3, CdMaterialized
  <2> QED
    BY <1>2, <2>3 DEF CdWrite
<1>3. CASE CdPrune(u)
  <2>1. cdSync.pc = "prune" /\ u \in cdSync.todo
        /\ cdProj' = IF cdProj[u].fresh THEN cdProj ELSE [cdProj EXCEPT ![u] = CdNoProj]
    BY <1>3 DEF CdPrune, CdAt
  <2>2. t = u /\ ~cdProj[t].fresh
    BY <2>1 DEF CdInv, CdShape
  <2>3. cdSync.listing[t] = 0 /\ ~CdPlain(t) /\ cdVersion[t] \in Nat
    BY <2>1, <2>2, CdConstants DEF CdInv, CdSyncInv, CdPlainInv, CdShape
  <2> QED
    BY <2>2, <2>3 DEF CdPlain
<1>4. ASSUME NEW o \in CdOps, CdWriteCall(o, u) PROVE t \in cdHidden \/ cdVersion[t] > 1
  <2>1. cdPc[o] = "write" /\ u \in cdOp[o].thread
    BY <1>4 DEF CdWriteCall
  <2>2. cdOp[o].version \in 1..cdVersion[u] /\ (cdOp[o].kind \in {"archive", "delete"} => u \in cdHidden)
    BY <2>1 DEF CdInv, CdOpsInv
  <2>3. CASE cdOp[o].kind \in {"archive", "delete"}
    <3>1. cdProj' = [cdProj EXCEPT ![u] = CdNoProj]
      BY <1>4, <2>3 DEF CdWriteCall
    <3> QED
      BY <2>2, <2>3, <3>1 DEF CdInv, CdShape
  <2>4. CASE cdOp[o].kind \notin {"archive", "delete"}
    <3>1. CdMaterialize(u, IF cdOp[o].kind = "start" THEN "set" ELSE "preserve", cdOp[o].version)
      BY <1>4, <2>4 DEF CdWriteCall
    <3> QED
      BY <2>2, <3>1, CdMaterialized
  <2> QED
    BY <2>3, <2>4
<1> QED
  BY <1>1, <1>2, <1>3, <1>4

=============================================================================
