---------------------------- MODULE SessionLines ----------------------------
(*****************************************************************************)
(* What is read out of a session's file (sessions/session.go): a list of     *)
(* lines, each but the header and a name an entry with an id and a parent.   *)
(* ParseSummary and ParseFile fold the lines separately; fork and clone copy *)
(* the entries from the root to one of them.                                 *)
(*                                                                           *)
(* An entry's id is its position.  Texts are left out: a name is the line it *)
(* comes from, SlFileName where there is none.                               *)
(*****************************************************************************)
EXTENDS Naturals, Sequences, FiniteSets

CONSTANTS SlModels,
          SlLines      \* bound: lines of a file

ASSUME SlConstants == SlLines \in Nat /\ SlLines >= 3

VARIABLES
  slLines,   \* the file
  slCopy     \* the entries a fork or clone has copied, in order; it ends a run

slVars == <<slLines, slCopy>>

SlNoModel == "noModel"
SlFileName == 0

\* A line; `about` is the call a result answers, or what a label is about.
SlLine == [kind |-> "session", parent |-> 0, model |-> SlNoModel, tool |-> "none", about |-> 0,
           awaiting |-> FALSE]
SlMessages == {"user", "assistant", "toolResult"}
SlHasId(line) == line.kind \notin {"session", "session_info"}
SlIds == {id \in DOMAIN slLines : SlHasId(slLines[id])}
SlParents == SlIds \cup {0}
SlCalls == {id \in SlIds : slLines[id].tool # "none"}

\* createSessionFileWithSettings: a header, the model and the thinking level.
SlCreated(model, thinking) ==
  <<SlLine>>
    \o (IF model = SlNoModel THEN <<>> ELSE <<[SlLine EXCEPT !.kind = "model_change", !.model = model]>>)
    \o (IF thinking THEN <<[SlLine EXCEPT !.kind = "thinking_level_change",
                                          !.parent = IF model = SlNoModel THEN 0 ELSE 2]>>
        ELSE <<>>)

\* A file pican has created, or the header of a projection, which has the model.
SlInit ==
  /\ \/ \E model \in SlModels \cup {SlNoModel}, thinking \in BOOLEAN :
          slLines = SlCreated(model, thinking)
     \/ \E model \in SlModels : slLines = <<[SlLine EXCEPT !.model = model]>>
  /\ slCopy = <<>>

-----------------------------------------------------------------------------
(* Lines are appended by the agent, anywhere in the tree, and by the user.   *)

SlAppend(line) ==
  /\ Len(slLines) < SlLines /\ slCopy = <<>>
  /\ slLines' = Append(slLines, line)
  /\ UNCHANGED slCopy

\* Pi writes the same header again when it opens a file anew.
SlHeader == slLines[1].model = SlNoModel /\ SlAppend(slLines[1])

SlMessage ==
  \E parent \in SlParents, model \in SlModels, tool \in {"none", "question", "other"} :
    \/ SlAppend([SlLine EXCEPT !.kind = "user", !.parent = parent])
    \/ SlAppend([SlLine EXCEPT !.kind = "assistant", !.parent = parent, !.model = model, !.tool = tool])

SlResult ==
  \E call \in SlCalls, awaiting \in BOOLEAN :
    SlAppend([SlLine EXCEPT !.kind = "toolResult", !.parent = call, !.about = call,
                            !.awaiting = awaiting])

SlModelChange ==
  \E parent \in SlParents, model \in SlModels :
    SlAppend([SlLine EXCEPT !.kind = "model_change", !.parent = parent, !.model = model])

\* appendSessionName.
SlRename == SlAppend([SlLine EXCEPT !.kind = "session_info"])

\* LabelSessionEntry: the parent is the last id of the file as it was read.
SlLabel ==
  \E target \in SlIds, parent \in SlIds :
    parent >= target /\ SlAppend([SlLine EXCEPT !.kind = "label", !.parent = parent, !.about = target])

-----------------------------------------------------------------------------
(* The two folds.                                                           *)

SlHeaders(lines, id) == {j \in 1..id : lines[j].kind = "session"}

\* applySummaryContext: session_info before the header's before the first message.
SlNamed(fs) == IF fs.info # 0 THEN fs.info ELSE IF fs.user # 0 THEN fs.user ELSE SlFileName

SlFoldStart == [info |-> 0, user |-> 0, model |-> SlNoModel, count |-> 0, pending |-> {}, entries |-> 0]

\* What both folds do with a line.
SlFoldCommon(fs, id, line) ==
  [fs EXCEPT
     !.info = IF line.kind = "session_info" THEN id ELSE @,
     !.user = IF line.kind = "user" /\ @ = 0 THEN id ELSE @,
     !.model = IF line.model # SlNoModel THEN line.model ELSE @,
     !.count = IF line.kind \in SlMessages THEN @ + 1 ELSE @]

\* foldToolActivity: a result that does not wait for a reply ends a call, a message
\* of the user every question.
SlFoldTools(pending, id, line) ==
  CASE line.kind = "toolResult" -> IF line.awaiting THEN pending ELSE pending \ {line.about}
    [] line.kind = "user" -> {call \in pending : slLines[call].tool # "question"}
    [] line.kind = "assistant" /\ line.tool # "none" -> pending \cup {id}
    [] OTHER -> pending

SlSummaryWith(fs, id) ==
  [SlFoldCommon(fs, id, slLines[id]) EXCEPT !.pending = SlFoldTools(@, id, slLines[id])]
SlSummary ==
  LET fold[id \in 0..Len(slLines)] == IF id = 0 THEN SlFoldStart ELSE SlSummaryWith(fold[id - 1], id)
  IN fold[Len(slLines)]

\* ParseFile keeps the entries and one header of each key.
SlFileWith(fs, id) ==
  IF slLines[id].kind = "session" /\ Cardinality(SlHeaders(slLines, id)) > 1 THEN fs
  ELSE [SlFoldCommon(fs, id, slLines[id]) EXCEPT !.entries = @ + 1]
SlFile ==
  LET fold[id \in 0..Len(slLines)] == IF id = 0 THEN SlFoldStart ELSE SlFileWith(fold[id - 1], id)
  IN fold[Len(slLines)]

\* finalize: the last call that is pending, if it is a question.
SlWaiting ==
  LET pending == SlSummary.pending IN
    {call \in pending : slLines[call].tool = "question" /\ \A other \in pending : other <= call}

-----------------------------------------------------------------------------
(* ForkSessionFile and CloneSessionFile.                                    *)

\* From the target through the parents, then reversed.
SlPath(lines, target) ==
  LET path[id \in 0..Len(lines)] ==
        IF id = 0 \/ ~SlHasId(lines[id]) THEN <<>> ELSE Append(path[lines[id].parent], id)
  IN path[target]

SlBranch ==
  \E target \in SlIds :
    slCopy = <<>> /\ slCopy' = SlPath(slLines, target) /\ UNCHANGED slLines

SlNext ==
  \/ SlHeader \/ SlMessage \/ SlResult \/ SlModelChange \/ SlRename \/ SlLabel
  \/ SlBranch

SlSpec == SlInit /\ [][SlNext]_slVars

-----------------------------------------------------------------------------
(* Properties.                                                              *)

SlTypeOK ==
  /\ Len(slLines) \in 1..SlLines
  /\ \A id \in SlIds : slLines[id].parent \in SlParents /\ slLines[id].parent < id

\* The index and the session's page, which fold the same file differently, agree.
SlFoldsAgree ==
  /\ SlSummary.model = SlFile.model /\ SlSummary.count = SlFile.count
  /\ SlNamed(SlSummary) = SlNamed(SlFile)

\* A question is shown exactly while it is the last call no one has answered: no
\* result ended it, no message of the user came after it, and no later call waits.
SlAnswered(call) ==
  \/ \E id \in SlIds : slLines[id].kind = "toolResult" /\ slLines[id].about = call /\ ~slLines[id].awaiting
  \/ slLines[call].tool = "question" /\ \E id \in SlIds : id > call /\ slLines[id].kind = "user"
SlQuestionExact ==
  \A call \in SlCalls :
    call \in SlWaiting <=>
      /\ slLines[call].tool = "question" /\ ~SlAnswered(call)
      /\ \A later \in SlCalls : later > call => SlAnswered(later)

\* A fork goes from a root to its target without a gap, and a result in it has its
\* call in it.
SlBranchWhole ==
  \A k \in DOMAIN slCopy :
    /\ slLines[slCopy[k]].parent = IF k = 1 THEN 0 ELSE slCopy[k - 1]
    /\ slLines[slCopy[k]].kind = "toolResult" => \E j \in 1..k : slCopy[j] = slLines[slCopy[k]].about
=============================================================================
