--------------------------- MODULE ProjectionStore ---------------------------
(****************************************************************************)
(* The projections of one native session (projections/store.go): replaced   *)
(* from what the runtime says, appended to by the user's local changes, and *)
(* removed, all under one lock per identity that exists while it is in use. *)
(* A session that changed its directory has had more than one path.         *)
(*                                                                          *)
(* A file is its runtime content, its local entries and a stamp that stands *)
(* for size, times and inode.  A crash forgets everything but the files.    *)
(****************************************************************************)
EXTENDS Naturals, FiniteSets

CONSTANTS PsOps,       \* calls, each made once
          PsPaths,     \* paths the identity has had
          PsContents   \* what the runtime may say of the session

VARIABLES
  psFile,              \* the file at a path, PsNoFile where there is none
  psStamp,             \* the last stamp given
  psPrint,             \* projectionFingerprints: the stamp and content remembered of a path
  psEntry, psEntries,  \* identityLocks.locks: the entry of the identity, 0 for none; entries made
  psRefs, psHolder,    \* of each entry: refs and the holder of its mutex
  psMine,              \* the entry a call has got
  psPc, psDo,          \* where a call is; what it does
  psSeen,              \* what a Replace has read: paths and local entries
  psRemoved,           \* history: a Remove has succeeded
  psCrashed

psLockVars == <<psEntry, psEntries, psRefs, psHolder, psMine>>
psDiskVars == <<psFile, psStamp>>
psVars == <<psDiskVars, psPrint, psLockVars, psPc, psDo, psSeen, psRemoved, psCrashed>>

PsAbsent == "absent"
PsNobody == "nobody"
ASSUME PsOpsAssumption == IsFiniteSet(PsOps) /\ PsNobody \notin PsOps
PsNoFile == [stamp |-> 0, content |-> PsAbsent, local |-> {}]
PsNoJob == [kind |-> "none", path |-> PsAbsent, content |-> PsAbsent]
PsLockIds == 1..Cardinality(PsOps)
PsFilesAt == {path \in PsPaths : psFile[path] # PsNoFile}
\* readLocalEntries: the local entries of all the session's files, once each.
PsLocalsOf(paths) == UNION {psFile[path].local : path \in paths}
\* findIdentityPath: the path asked for, or wherever the session is now.
PsFound(path) == IF path \in PsFilesAt THEN {path} ELSE PsFilesAt
PsJobs ==
  [kind : {"replace"}, path : PsPaths, content : PsContents]
    \cup [kind : {"append", "remove"}, path : PsPaths, content : {PsAbsent}]

PsInit ==
  /\ psFile = [path \in PsPaths |-> PsNoFile] /\ psStamp = 0
  /\ psPrint = [path \in PsPaths |-> PsNoFile]
  /\ psEntry = 0 /\ psEntries = 0
  /\ psRefs = [l \in PsLockIds |-> 0] /\ psHolder = [l \in PsLockIds |-> PsNobody]
  /\ psMine = [o \in PsOps |-> 0]
  /\ psPc = [o \in PsOps |-> "new"] /\ psDo = [o \in PsOps |-> PsNoJob]
  /\ psSeen = [o \in PsOps |-> [paths |-> {}, local |-> {}]]
  /\ psRemoved = FALSE /\ psCrashed = FALSE

PsGoto(o, label) == psPc' = [psPc EXCEPT ![o] = label]
PsAt(o, label) == psPc[o] = label

-----------------------------------------------------------------------------
(* keyedLocker                                                              *)

\* A call begins; Rename, AutoTitle, Label and AppendLocal find their file first.
PsStart(o, job) ==
  /\ PsAt(o, "new")
  /\ psDo' = [psDo EXCEPT ![o] = job]
  /\ PsGoto(o, IF job.kind = "append" /\ psFile[job.path] = PsNoFile THEN "failed" ELSE "register")
  /\ UNCHANGED <<psDiskVars, psPrint, psLockVars, psSeen, psRemoved, psCrashed>>

PsRegister(o) ==
  /\ PsAt(o, "register")
  /\ LET entry == IF psEntry = 0 THEN psEntries + 1 ELSE psEntry IN
       /\ psEntry' = entry
       /\ psEntries' = IF psEntry = 0 THEN entry ELSE psEntries
       /\ psRefs' = [psRefs EXCEPT ![entry] = @ + 1]
       /\ psMine' = [psMine EXCEPT ![o] = entry]
  /\ PsGoto(o, "acquire")
  /\ UNCHANGED <<psDiskVars, psPrint, psHolder, psDo, psSeen, psRemoved, psCrashed>>

PsAcquire(o) ==
  /\ PsAt(o, "acquire") /\ psHolder[psMine[o]] = PsNobody
  /\ psHolder' = [psHolder EXCEPT ![psMine[o]] = o]
  /\ PsGoto(o, psDo[o].kind)
  /\ UNCHANGED <<psDiskVars, psPrint, psEntry, psEntries, psRefs, psMine, psDo, psSeen, psRemoved,
                 psCrashed>>

PsUnlock(o) ==
  /\ psPc[o] \in {"unlock ok", "unlock failed"}
  /\ psHolder' = [psHolder EXCEPT ![psMine[o]] = PsNobody]
  /\ PsGoto(o, IF PsAt(o, "unlock ok") THEN "release ok" ELSE "release failed")
  /\ UNCHANGED <<psDiskVars, psPrint, psEntry, psEntries, psRefs, psMine, psDo, psSeen, psRemoved,
                 psCrashed>>

\* The last one deletes the entry.
PsRelease(o) ==
  /\ psPc[o] \in {"release ok", "release failed"}
  /\ psRefs' = [psRefs EXCEPT ![psMine[o]] = @ - 1]
  /\ psEntry' = IF psRefs[psMine[o]] = 1 THEN 0 ELSE psEntry
  /\ PsGoto(o, IF PsAt(o, "release ok") THEN "ok" ELSE "failed")
  /\ UNCHANGED <<psDiskVars, psPrint, psEntries, psHolder, psMine, psDo, psSeen, psRemoved, psCrashed>>

-----------------------------------------------------------------------------
(* Replace.                                                                 *)

\* The fingerprint of a path is dropped: the next Replace reads the file itself.
PsForgotten(path) == psPrint' = [psPrint EXCEPT ![path] = PsNoFile]

\* projectionPaths, readLocalEntriesFrom, and the adapter's build.
PsScan(o) ==
  /\ PsAt(o, "replace")
  /\ psSeen' = [psSeen EXCEPT ![o] =
                 [paths |-> PsFilesAt, local |-> PsLocalsOf(PsFilesAt)]]
  /\ psPc' \in {[psPc EXCEPT ![o] = "write"], [psPc EXCEPT ![o] = "unlock failed"]}
  /\ UNCHANGED <<psDiskVars, psPrint, psLockVars, psDo, psRemoved, psCrashed>>

\* projectionUnchanged: the hash remembered for this very version, or the file's.
PsUnchanged(path, content, local) ==
  /\ psFile[path] # PsNoFile
  /\ IF psPrint[path].stamp = psFile[path].stamp
     THEN psPrint[path].content = content /\ psPrint[path].local = local
     ELSE psFile[path].content = content /\ psFile[path].local = local

\* WriteJSONLAtomic up to the rename: a temporary file takes the target's name.
PsWrite(o) ==
  /\ PsAt(o, "write")
  /\ LET target == psDo[o].path
         content == psDo[o].content
         local == psSeen[o].local IN
       IF PsUnchanged(target, content, local)
       THEN PsGoto(o, "dedupe") /\ UNCHANGED psDiskVars
       ELSE \/ /\ psStamp' = psStamp + 1
               /\ psFile' = [psFile EXCEPT ![target] =
                              [stamp |-> psStamp', content |-> content, local |-> local]]
               /\ PsGoto(o, "remember")
            \/ PsGoto(o, "unlock failed") /\ UNCHANGED psDiskVars
  /\ UNCHANGED <<psPrint, psLockVars, psDo, psSeen, psRemoved, psCrashed>>

\* After the rename: the version is remembered, or the directory's sync has failed.
PsRemember(o) ==
  /\ PsAt(o, "remember")
  /\ \/ /\ psPrint' = [psPrint EXCEPT ![psDo[o].path] = psFile[psDo[o].path]]
        /\ PsGoto(o, "dedupe")
     \/ PsGoto(o, "unlock failed") /\ UNCHANGED psPrint
  /\ UNCHANGED <<psDiskVars, psLockVars, psDo, psSeen, psRemoved, psCrashed>>

\* The other paths go one by one; what cannot be removed fails the call.
PsDedupe(o) ==
  /\ PsAt(o, "dedupe")
  /\ LET duplicates == (psSeen[o].paths \ {psDo[o].path}) \cap PsFilesAt IN
       IF duplicates = {} THEN PsGoto(o, "unlock ok") /\ UNCHANGED <<psFile, psPrint>>
       ELSE \E path \in duplicates :
              \/ /\ psFile' = [psFile EXCEPT ![path] = PsNoFile]
                 /\ PsForgotten(path)
                 /\ UNCHANGED psPc
              \/ PsGoto(o, "unlock failed") /\ UNCHANGED <<psFile, psPrint>>
  /\ UNCHANGED <<psStamp, psLockVars, psDo, psSeen, psRemoved, psCrashed>>

-----------------------------------------------------------------------------
(* mutate and Remove.                                                       *)

\* The file may have moved meanwhile; then the only file of the identity counts.  A
\* write whose sync fails stays in the file and is not forgotten in the fingerprints.
PsAppend(o) ==
  /\ PsAt(o, "append")
  /\ LET targets == PsFound(psDo[o].path) IN
       \/ /\ Cardinality(targets) = 1
          /\ \E path \in targets :
               /\ psStamp' = psStamp + 1
               /\ psFile' = [psFile EXCEPT ![path].local = @ \cup {o}, ![path].stamp = psStamp']
               /\ \/ PsGoto(o, "unlock ok") /\ PsForgotten(path)
                  \/ PsGoto(o, "unlock failed") /\ UNCHANGED psPrint
       \/ PsGoto(o, "unlock failed") /\ UNCHANGED <<psDiskVars, psPrint>>
  /\ UNCHANGED <<psLockVars, psDo, psSeen, psRemoved, psCrashed>>

PsRemove(o) ==
  /\ PsAt(o, "remove")
  /\ \/ /\ psDo[o].path \in PsFilesAt
        /\ psFile' = [psFile EXCEPT ![psDo[o].path] = PsNoFile]
        /\ PsForgotten(psDo[o].path)
        /\ psRemoved' = TRUE
        /\ PsGoto(o, "unlock ok")
     \/ PsGoto(o, "unlock failed") /\ UNCHANGED <<psFile, psPrint, psRemoved>>
  /\ UNCHANGED <<psStamp, psLockVars, psDo, psSeen, psCrashed>>

-----------------------------------------------------------------------------
\* The process ends between any two steps and is started again.
PsCrash ==
  /\ ~psCrashed
  /\ psCrashed' = TRUE
  /\ psPrint' = [path \in PsPaths |-> PsNoFile]
  /\ psEntry' = 0
  /\ psRefs' = [l \in PsLockIds |-> 0] /\ psHolder' = [l \in PsLockIds |-> PsNobody]
  /\ psPc' = [o \in PsOps |-> IF psPc[o] \in {"new", "ok"} THEN psPc[o] ELSE "failed"]
  /\ UNCHANGED <<psDiskVars, psEntries, psMine, psDo, psSeen, psRemoved>>

PsNext ==
  \/ \E o \in PsOps :
       \/ \E job \in PsJobs : PsStart(o, job)
       \/ PsRegister(o) \/ PsAcquire(o) \/ PsUnlock(o) \/ PsRelease(o)
       \/ PsScan(o) \/ PsWrite(o) \/ PsRemember(o) \/ PsDedupe(o)
       \/ PsAppend(o) \/ PsRemove(o)
  \/ PsCrash

PsSpec == PsInit /\ [][PsNext]_psVars

-----------------------------------------------------------------------------
(* Properties.                                                              *)

\* The variables keep their types.
PsTypeOK ==
  /\ \A path \in PsFilesAt :
       psFile[path].stamp \in 1..psStamp /\ psFile[path].content \in PsContents
  /\ psEntry \in 0..psEntries /\ psEntries <= Cardinality(PsOps)
  /\ psRefs \in [PsLockIds -> 0..Cardinality(PsOps)]
  /\ psHolder \in [PsLockIds -> PsOps \cup {PsNobody}]

\* A change the user was told of is in a projection of the session, whatever
\* Replace did since, where it stopped or crashed, and wherever the file moved;
\* only Remove takes it away.
PsLocalKept ==
  \A o \in PsOps :
    PsAt(o, "ok") /\ psDo[o].kind = "append" /\ ~psRemoved => \E path \in PsFilesAt : o \in psFile[path].local

\* A Replace that succeeds leaves one projection, with the content it was given.
PsReplacedWhole ==
  \A o \in PsOps :
    psDo[o].kind = "replace" /\ PsAt(o, "dedupe") /\ psPc'[o] = "unlock ok" =>
      /\ psFile'[psDo[o].path].content = psDo[o].content
      /\ \A path \in PsPaths \ {psDo[o].path} : psFile'[path] = PsNoFile
=============================================================================
