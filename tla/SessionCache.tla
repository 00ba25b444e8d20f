---------------------------- MODULE SessionCache ----------------------------
(*********************************************************************************)
(* The cache of parsed sessions (sessions/cache.go, incremental.go): a call      *)
(* finds the path, looks at the file's time, and parses what is not cached for   *)
(* that time, extending the cached parse when the file seems only to have grown. *)
(*                                                                               *)
(* One session, which may move between paths.  A file is a sequence of lines:    *)
(* a numbered line of the runtime, ScLocal for one of pican's, ScHalf for a      *)
(* line still without its newline.  Every change of a file changes its time.     *)
(*********************************************************************************)
EXTENDS Integers, Sequences, FiniteSets

CONSTANTS ScCalls,   \* overlapping calls
          ScPaths,
          ScLines,   \* bound: lines of a file
          ScEdits,   \* bound: changes of the files
          ScKinds    \* of session: "append-only", a Pi file; "replaced", a projection

ASSUME ScConstants == ScEdits \in Nat \ {0} /\ ScLines \in Nat /\ ScKinds \subseteq {"append-only", "replaced"}

VARIABLES
  scKind,
  scFile, scStamp,    \* lines of a path's file, <<>> for none; its time
  scEdits,
  scEntry,            \* entries or sessionCache: what is cached of a path
  scIndex,            \* pathIndex: the path or ScNowhere
  scPc, scCall        \* where a call is; what it holds

scFileVars == <<scFile, scStamp, scEdits>>
scCacheVars == <<scEntry, scIndex>>
scVars == <<scKind, scFileVars, scCacheVars, scPc, scCall>>

ScLocal == 0
ScHalf == -1
ScNowhere == "nowhere"
ScNoEntry == [stamp |-> 0, offset |-> 0, size |-> 0, fold |-> <<>>]
ScNoCall == [path |-> ScNowhere, stamp |-> 0, prior |-> ScNoEntry, answer |-> <<>>,
             before |-> <<>>, load |-> FALSE]

ScFiles == {path \in ScPaths : scFile[path] # <<>>}
\* A half line is the last one.
ScComplete(lines) ==
  IF lines # <<>> /\ lines[Len(lines)] = ScHalf THEN SubSeq(lines, 1, Len(lines) - 1) ELSE lines
ScCount(lines, kind) == Cardinality({k \in DOMAIN lines : lines[k] \in kind})
ScLocals(lines) == [k \in 1..ScCount(lines, {ScLocal}) |-> ScLocal]

ScInit ==
  /\ scKind \in ScKinds
  /\ \E path \in ScPaths :
       /\ scFile = [p \in ScPaths |-> IF p = path THEN <<1>> ELSE <<>>]
       /\ scStamp = [p \in ScPaths |-> IF p = path THEN 1 ELSE 0]
  /\ scEdits = 1
  /\ scEntry = [path \in ScPaths |-> ScNoEntry] /\ scIndex = ScNowhere
  /\ scPc = [c \in ScCalls |-> "start"] /\ scCall = [c \in ScCalls |-> ScNoCall]

-----------------------------------------------------------------------------
(* The files.                                                               *)

ScChange(path, lines) ==
  /\ scEdits < ScEdits /\ Len(lines) <= ScLines
  /\ scEdits' = scEdits + 1
  /\ scFile' = [scFile EXCEPT ![path] = lines]
  /\ scStamp' = [scStamp EXCEPT ![path] = scEdits']
  /\ UNCHANGED <<scKind, scCacheVars, scPc, scCall>>

\* Pi appends whole or half lines; pican appends its own to either kind.
ScAppend(path) ==
  /\ path \in ScFiles
  /\ LET lines == ScComplete(scFile[path]) IN
       \/ /\ scKind = "append-only"
          /\ \E line \in {ScCount(lines, 1..ScLines) + 1, ScHalf} : ScChange(path, Append(lines, line))
       \/ scFile[path] = lines /\ ScChange(path, Append(lines, ScLocal))

\* A projection is replaced, local lines last, and may move.
ScReplace(path) ==
  /\ scKind = "replaced" /\ Cardinality(ScFiles) = 1
  /\ \E old \in ScFiles, n \in 1..ScLines :
       ScChange(path, [k \in 1..n |-> k] \o ScLocals(scFile[old]))

ScDedupe(path) ==
  /\ Cardinality(ScFiles) > 1 /\ \A other \in ScFiles : scStamp[other] <= scStamp[path]
  /\ scFile' = [other \in ScPaths |-> IF other = path THEN scFile[path] ELSE <<>>]
  /\ UNCHANGED <<scKind, scStamp, scEdits, scCacheVars, scPc, scCall>>

-----------------------------------------------------------------------------
(* Resolve, ResolveSummary, and LoadAll's work on one file.                 *)

ScStep(c, label, call) ==
  scPc' = [scPc EXCEPT ![c] = label] /\ scCall' = [scCall EXCEPT ![c] = call]

ScAnswer(c, answer) ==
  ScStep(c, "done", [ScNoCall EXCEPT !.path = scCall[c].path, !.before = scCall[c].before,
                                     !.answer = answer])

\* The path comes from the index, or from a walk that fills it; LoadAll lists.
ScFind(c) ==
  /\ scPc[c] \in {"start", "done", "error"}
  /\ \E load \in BOOLEAN, path \in ScPaths :
       /\ IF ~load /\ scIndex # ScNowhere THEN path = scIndex ELSE path \in ScFiles
       /\ scIndex' = IF load THEN scIndex ELSE path
       /\ ScStep(c, "stat", [ScNoCall EXCEPT !.path = path, !.load = load,
                                             !.before = ScComplete(scFile[path])])
  /\ UNCHANGED <<scKind, scFileVars, scEntry>>

ScForget(path) == scEntry' = [scEntry EXCEPT ![path] = ScNoEntry]

ScStat(c) ==
  /\ scPc[c] = "stat"
  /\ LET call == scCall[c] IN
       IF call.path \in ScFiles
       THEN ScStep(c, "look", [call EXCEPT !.stamp = scStamp[call.path]]) /\ UNCHANGED scCacheVars
       ELSE /\ ScStep(c, "error", ScNoCall)
            /\ IF call.load THEN UNCHANGED scCacheVars
               ELSE ScForget(call.path) /\ scIndex' = ScNowhere
  /\ UNCHANGED <<scKind, scFileVars>>

\* What is cached for this time is the answer, else the parse may start from it.
\* LoadAll also drops what it has not seen.
ScLook(c) ==
  /\ scPc[c] = "look"
  /\ LET call == scCall[c]
         entry == scEntry[call.path] IN
       /\ IF entry.stamp = call.stamp THEN ScAnswer(c, entry.fold)
          ELSE ScStep(c, "parse", [call EXCEPT !.prior = entry, !.load = FALSE])
       /\ \/ UNCHANGED scCacheVars
          \/ \E gone \in ScPaths \ (ScFiles \cup {call.path}) :
               call.load /\ ScForget(gone) /\ scIndex' = ScNowhere
  /\ UNCHANGED <<scKind, scFileVars>>

\* mutant: a half line is consumed.
ScConsumedAll(lines) == Len(lines)

\* scanAppendedLines stops before a line without its newline.
ScConsumed(lines) == Len(ScComplete(lines))

\* canExtend: the file is no shorter and begins with the same header.
ScCanExtend(prior, lines) == prior.offset > 0 /\ Len(lines) >= prior.size

ScFold(prior, lines) ==
  IF ScCanExtend(prior, lines)
  THEN prior.fold \o SubSeq(lines, prior.offset + 1, ScConsumed(lines))
  ELSE SubSeq(lines, 1, ScConsumed(lines))

ScParse(c) ==
  /\ scPc[c] = "parse"
  /\ LET call == scCall[c]
         lines == scFile[call.path] IN
       IF call.path \notin ScFiles THEN ScStep(c, "error", ScNoCall)
       ELSE ScStep(c, "store",
              [call EXCEPT !.answer = ScFold(call.prior, lines),
                           !.prior = [stamp |-> call.stamp, offset |-> ScConsumed(lines),
                                      size |-> Len(lines), fold |-> ScFold(call.prior, lines)]])
  /\ UNCHANGED <<scKind, scFileVars, scCacheVars>>

\* storeSessionEntryLocked: kept, or more than the byte budget retains.
ScStored(path, entry) == scEntry' \in {[scEntry EXCEPT ![path] = entry], [scEntry EXCEPT ![path] = ScNoEntry]}

ScStore(c) ==
  /\ scPc[c] = "store"
  /\ LET call == scCall[c] IN
       /\ ScAnswer(c, call.answer)
       /\ ScStored(call.path, call.prior)
       /\ scIndex' \in {scIndex, call.path}
  /\ UNCHANGED <<scKind, scFileVars>>

\* Invalidate, after a worker has replaced the projection.
ScInvalidate ==
  /\ scKind = "replaced" /\ scEntry # [path \in ScPaths |-> ScNoEntry]
  /\ scEntry' = [path \in ScPaths |-> ScNoEntry] /\ scIndex' = ScNowhere
  /\ UNCHANGED <<scKind, scFileVars, scPc, scCall>>

ScNext ==
  \/ \E path \in ScPaths : ScAppend(path) \/ ScReplace(path) \/ ScDedupe(path)
  \/ \E c \in ScCalls : ScFind(c) \/ ScStat(c) \/ ScLook(c) \/ ScParse(c) \/ ScStore(c)
  \/ ScInvalidate

ScSpec == ScInit /\ [][ScNext]_scVars

-----------------------------------------------------------------------------
(* Properties.                                                              *)

ScTypeOK ==
  /\ scEdits \in 1..ScEdits /\ scIndex \in ScPaths \cup {ScNowhere}
  /\ \A path \in ScPaths : scEntry[path].offset <= scEntry[path].size

ScPrefix(short, long) == Len(short) <= Len(long) /\ SubSeq(long, 1, Len(short)) = short

\* Whatever runs at once, the answer on a file that only grows has all the lines it
\* had when the call began, and no line twice, halved or out of order.
ScAnswersExact ==
  \A c \in ScCalls :
    scKind = "append-only" /\ scPc[c] = "done" =>
      /\ ScPrefix(scCall[c].before, scCall[c].answer)
      /\ ScPrefix(scCall[c].answer, ScComplete(scFile[scCall[c].path]))

\* incremental.go:23: files are "append-only once written", so size and header are
\* sufficient: a call that nothing overlaps answers what is in the file.  VIOLATED.
ScExtendsOnlyAppends ==
  \A c \in ScCalls :
    scPc[c] = "store" /\ scCall[c].path \in ScFiles
      /\ scCall[c].stamp = scStamp[scCall[c].path] =>
      scCall[c].answer = ScComplete(scFile[scCall[c].path])
=============================================================================
