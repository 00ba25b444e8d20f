------------------------------ MODULE Curation ------------------------------
(*****************************************************************************)
(* What the user keeps of sessions and projects in the database              *)
(* (server/pins.go, archives.go, projects.go): pins, archives and project    *)
(* preferences, written by requests that overlap over one connection, and by *)
(* the server itself when it reaps orphans and records discovered projects.  *)
(*                                                                           *)
(* A transaction holds the connection and works on a copy of the two tables. *)
(* A crash ends every request.                                               *)
(*****************************************************************************)
EXTENDS Naturals, FiniteSets

CONSTANTS CuCalls,     \* requests, each made once
          CuSessions,
          CuProjects

VARIABLES
  cuExisting,           \* sessions that have a file
  cuPins, cuArchives,   \* session_pins and session_archives, committed
  cuPrefs,              \* project_prefs: the row of a project, CuNoRow without one
  cuHolder, cuCopy,     \* who has the connection in a transaction; its [pins, archives]
  cuPc, cuDo,           \* where a request is; what it does
  cuListed,             \* the sessions or projects it has listed
  cuDefault,            \* defaultEnabled of a sync
  cuCrashed

cuTables == <<cuPins, cuArchives>>
cuCallVars == <<cuPc, cuDo, cuListed, cuDefault>>
cuVars == <<cuExisting, cuTables, cuPrefs, cuHolder, cuCopy, cuCallVars, cuCrashed>>

CuRow(enabled, source) == [enabled |-> enabled, source |-> source]
CuNoRow == CuRow(FALSE, "no row")
CuNobody == "nobody"
ASSUME CuNobodyElse == CuNobody \notin CuCalls
CuNoCopy == [pins |-> {}, archives |-> {}]
CuNoJob == [kind |-> "none", about |-> CuNobody]
CuCurations == {"pin", "unpin", "archive", "unarchive"}
CuChoices == {"track", "enable", "disable", "untrack"}
CuSyncs == {"sync", "enable all", "disable all"}
CuJobs ==
  [kind : CuCurations, about : CuSessions] \cup [kind : CuChoices, about : CuProjects]
    \cup [kind : {"reap pins"} \cup CuSyncs, about : {CuNobody}]

CuInit ==
  /\ cuExisting \in SUBSET CuSessions
  /\ cuPins = {} /\ cuArchives = {}
  /\ cuPrefs = [p \in CuProjects |-> CuNoRow]
  /\ cuHolder = CuNobody /\ cuCopy = CuNoCopy
  /\ cuPc = [c \in CuCalls |-> "new"] /\ cuDo = [c \in CuCalls |-> CuNoJob]
  /\ cuListed = [c \in CuCalls |-> {}] /\ cuDefault = [c \in CuCalls |-> FALSE]
  /\ cuCrashed = FALSE

CuGoto(c, label) == cuPc' = [cuPc EXCEPT ![c] = label]
CuFree == cuHolder = CuNobody

\* A session's file appears or goes.
CuFiles ==
  /\ \E s \in CuSessions :
       cuExisting' = IF s \in cuExisting THEN cuExisting \ {s} ELSE cuExisting \cup {s}
  /\ UNCHANGED <<cuTables, cuPrefs, cuHolder, cuCopy, cuCallVars, cuCrashed>>

\* A request: what is pinned or archived must exist; reap and sync list first.
CuStart(c) ==
  /\ cuPc[c] = "new"
  /\ \E job \in CuJobs :
       /\ job.kind \in CuCurations => job.about \in cuExisting
       /\ cuDo' = [cuDo EXCEPT ![c] = job]
       /\ CuGoto(c, IF job.kind \in CuCurations THEN "begin"
                    ELSE IF job.kind \in CuChoices THEN "choose"
                    ELSE IF job.kind \in CuSyncs THEN "sync" ELSE "reap pins")
  /\ \E projects \in SUBSET CuProjects :
       cuListed' = [cuListed EXCEPT ![c] =
                     IF cuDo'[c].kind = "reap pins" THEN cuExisting
                     ELSE IF cuDo'[c].kind \in CuSyncs THEN projects ELSE {}]
  /\ UNCHANGED <<cuExisting, cuTables, cuPrefs, cuHolder, cuCopy, cuDefault, cuCrashed>>

-----------------------------------------------------------------------------
(* setSessionPinned and setSessionArchived.                                 *)

CuBegin(c) ==
  /\ cuPc[c] = "begin" /\ CuFree
  /\ cuHolder' = c /\ cuCopy' = [pins |-> cuPins, archives |-> cuArchives]
  /\ CuGoto(c, "first")
  /\ UNCHANGED <<cuExisting, cuTables, cuPrefs, cuDo, cuListed, cuDefault, cuCrashed>>

\* Each statement works on the transaction's copy.
CuStatement(c, label, next, copy) ==
  /\ cuPc[c] = label /\ CuGoto(c, next) /\ cuCopy' = copy
  /\ UNCHANGED <<cuExisting, cuTables, cuPrefs, cuHolder, cuDo, cuListed, cuDefault, cuCrashed>>

CuFirst(c) ==
  LET s == {cuDo[c].about} IN
    CuStatement(c, "first", "second",
      CASE cuDo[c].kind = "archive" -> [cuCopy EXCEPT !.archives = @ \cup s]
        [] cuDo[c].kind = "unpin" -> [cuCopy EXCEPT !.pins = @ \ s]
        [] OTHER -> [cuCopy EXCEPT !.archives = @ \ s])

CuSecond(c) ==
  LET s == {cuDo[c].about} IN
    CuStatement(c, "second", "commit",
      CASE cuDo[c].kind = "archive" -> [cuCopy EXCEPT !.pins = @ \ s]
        [] cuDo[c].kind = "pin" -> [cuCopy EXCEPT !.pins = @ \cup s]
        [] OTHER -> cuCopy)

\* A statement that fails rolls back what came before it.
CuCommit(c) ==
  /\ cuHolder = c
  /\ \/ cuPc[c] = "commit" /\ cuPins' = cuCopy.pins /\ cuArchives' = cuCopy.archives
     \/ UNCHANGED cuTables
  /\ cuHolder' = CuNobody /\ cuCopy' = CuNoCopy
  /\ CuGoto(c, "done")
  /\ UNCHANGED <<cuExisting, cuPrefs, cuDo, cuListed, cuDefault, cuCrashed>>

-----------------------------------------------------------------------------
(* reapOrphanedPins: the pins without a session in the list, one by one.     *)

CuSelectOrphans(c) ==
  /\ cuPc[c] = "reap pins" /\ CuFree
  /\ cuListed' = [cuListed EXCEPT ![c] = cuPins \ @]
  /\ CuGoto(c, "delete")
  /\ UNCHANGED <<cuExisting, cuTables, cuPrefs, cuHolder, cuCopy, cuDo, cuDefault, cuCrashed>>

CuDeleteOrphan(c) ==
  /\ cuPc[c] = "delete" /\ CuFree
  /\ IF cuListed[c] = {} THEN CuGoto(c, "done") /\ UNCHANGED <<cuPins, cuListed>>
     ELSE \E s \in cuListed[c] :
            /\ cuPins' = cuPins \ {s}
            /\ cuListed' = [cuListed EXCEPT ![c] = @ \ {s}]
            /\ UNCHANGED cuPc
  /\ UNCHANGED <<cuExisting, cuArchives, cuPrefs, cuHolder, cuCopy, cuDo, cuDefault, cuCrashed>>

-----------------------------------------------------------------------------
(* Project preferences.                                                     *)

\* What setAllProjectsEnabled goes on to do after its sync.
CuAfterSync(c) == CuGoto(c, IF cuDo[c].kind = "sync" THEN "done" ELSE "choose")

\* syncProjectPrefs: on an empty table what is discovered is enabled.
CuCount(c) ==
  /\ cuPc[c] = "sync" /\ CuFree
  /\ cuDefault' = [cuDefault EXCEPT ![c] = \A p \in CuProjects : cuPrefs[p] = CuNoRow]
  /\ IF cuListed[c] = {} THEN CuAfterSync(c) ELSE CuGoto(c, "insert")
  /\ UNCHANGED <<cuExisting, cuTables, cuPrefs, cuHolder, cuCopy, cuDo, cuListed, cuCrashed>>

\* ON CONFLICT DO NOTHING: a row that exists is left alone.
CuInsert(c) ==
  /\ cuPc[c] = "insert" /\ CuFree
  /\ \E p \in cuListed[c] :
       /\ cuPrefs' = IF cuPrefs[p] # CuNoRow THEN cuPrefs
                     ELSE [cuPrefs EXCEPT ![p] = CuRow(cuDefault[c], "discovered")]
       /\ cuListed' = [cuListed EXCEPT ![c] = @ \ {p}]
  /\ IF cuListed'[c] = {} THEN CuAfterSync(c) ELSE UNCHANGED cuPc
  /\ UNCHANGED <<cuExisting, cuTables, cuHolder, cuCopy, cuDo, cuDefault, cuCrashed>>

\* handleUpdateProject: the user's choice overwrites the row; only a project the
\* user registered is deleted.
CuChosen(kind, row) ==
  LET source == IF row = CuNoRow THEN "discovered" ELSE row.source IN
    CASE kind = "track" -> CuRow(TRUE, "registered")
      [] kind = "enable" -> CuRow(TRUE, source)
      [] kind = "disable" -> CuRow(FALSE, source)
      [] kind = "untrack" -> IF row.source = "registered" THEN CuNoRow ELSE row
      [] OTHER -> IF row = CuNoRow THEN row ELSE CuRow(kind = "enable all", row.source)

CuChoose(c) ==
  /\ cuPc[c] = "choose" /\ CuFree
  /\ cuPrefs' = [p \in CuProjects |-> IF cuDo[c].about \in {p, CuNobody}
                                      THEN CuChosen(cuDo[c].kind, cuPrefs[p]) ELSE cuPrefs[p]]
  /\ CuGoto(c, "done")
  /\ UNCHANGED <<cuExisting, cuTables, cuHolder, cuCopy, cuDo, cuListed, cuDefault, cuCrashed>>

CuCrash ==
  /\ ~cuCrashed /\ cuCrashed' = TRUE
  /\ cuHolder' = CuNobody /\ cuCopy' = CuNoCopy
  /\ cuPc' = [c \in CuCalls |-> IF cuPc[c] = "new" THEN "new" ELSE "done"]
  /\ UNCHANGED <<cuExisting, cuTables, cuPrefs, cuDo, cuListed, cuDefault>>

CuNext ==
  \/ CuFiles \/ CuCrash
  \/ \E c \in CuCalls :
       \/ CuStart(c) \/ CuBegin(c) \/ CuFirst(c) \/ CuSecond(c) \/ CuCommit(c)
       \/ CuSelectOrphans(c) \/ CuDeleteOrphan(c)
       \/ CuCount(c) \/ CuInsert(c) \/ CuChoose(c)

CuSpec == CuInit /\ [][CuNext]_cuVars

-----------------------------------------------------------------------------
(* Properties.                                                              *)

CuTypeOK ==
  /\ cuPins \subseteq CuSessions /\ cuArchives \subseteq CuSessions
  /\ \A p \in CuProjects : cuPrefs[p].source = "no row" => cuPrefs[p] = CuNoRow

\* "mutually exclusive curation states are never visible together", whatever
\* requests overlap, fail half-way or are cut off by a crash.
CuExclusive == cuPins \cap cuArchives = {}

\* A pin goes when the user takes it away or archives the session, or when the
\* session had no file at the time the server listed them.
CuPinsKept ==
  \A s \in cuPins \ cuPins' :
    \E c \in CuCalls :
      \/ cuDo[c].about = s /\ cuDo[c].kind \in {"unpin", "archive"} /\ cuPc'[c] # cuPc[c]
      \/ cuDo[c].kind = "reap pins" /\ s \in cuListed[c]

\* What the user has chosen for a project stands until the user chooses again,
\* although a sync counted the rows before the choice and inserts after it.
CuChoiceStands ==
  \A p \in CuProjects :
    cuPrefs[p] # CuNoRow /\ cuPrefs'[p] # cuPrefs[p] =>
      \E c \in CuCalls : cuDo[c].about \in {p, CuNobody} /\ cuPc[c] = "choose" /\ cuPc'[c] = "done"
=============================================================================
