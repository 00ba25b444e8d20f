---------------------------- MODULE SessionTitles ----------------------------
(********************************************************************************)
(* Titling a session (server/auto_title.go, sessions/title.go): every change of *)
(* its file starts a pass, as does the user's "Regenerate title"; a pass reads  *)
(* the file, lets a model run for seconds, reads it again and appends a name,   *)
(* while messages arrive, the user renames and other passes run.                *)
(*                                                                              *)
(* One session, of a runtime that can rename; passes that fail to read or to    *)
(* write are left out.  A title stands for the number of messages it is about.  *)
(********************************************************************************)
EXTENDS Naturals, FiniteSets

CONSTANTS TiPasses,    \* goroutines at a time
          TiMessages,  \* bound: messages of the user
          TiRenames    \* bound: renames by the user, and requests to regenerate

ASSUME TiConstants == TiMessages \in Nat /\ TiRenames \in Nat
ASSUME TiPassesFinite == IsFiniteSet(TiPasses)

VARIABLES
  tiEachTurn,            \* autoTitleEachTurn
  tiUsers, tiName,       \* the file: messages of the user, the name
  tiRenames, tiAsked,    \* renames and requests so far
  tiOwed,                \* passes to start: "auto", "force"
  tiInFlight, tiTitled, tiCount, tiOwned,  \* autoTitle's maps, of this session
  tiPc, tiForce, tiInputs, \* of a pass: where it is, force, what it read: [users, name]
  tiRaced                \* history: two passes were past their second look at once

tiFileVars == <<tiUsers, tiName, tiRenames>>
tiMapVars == <<tiInFlight, tiTitled, tiCount, tiOwned>>
tiPassVars == <<tiPc, tiForce, tiInputs, tiRaced>>
tiVars == <<tiEachTurn, tiFileVars, tiAsked, tiOwed, tiMapVars, tiPassVars>>

TiNoName == [by |-> "nobody", n |-> 0]
TiUserNamed(name) == name.by = "user"
TiRead == [users |-> tiUsers, name |-> tiName]

TiInit ==
  /\ tiEachTurn \in BOOLEAN
  /\ tiUsers = 0 /\ tiName = TiNoName /\ tiRenames = 0 /\ tiAsked = 0
  /\ tiOwed = {}
  /\ tiInFlight = FALSE /\ tiTitled = FALSE /\ tiCount = 0 /\ tiOwned = FALSE
  /\ tiPc = [p \in TiPasses |-> "idle"] /\ tiForce = [p \in TiPasses |-> FALSE]
  /\ tiInputs = [p \in TiPasses |-> [users |-> 0, name |-> TiNoName]]
  /\ tiRaced = FALSE

TiGoto(p, label) == tiPc' = [tiPc EXCEPT ![p] = label]
TiMoves(p, from, label) ==
  /\ tiPc[p] = from /\ TiGoto(p, label)
  /\ tiRaced' = (tiRaced \/ Cardinality({q \in TiPasses : tiPc'[q] \in {"append", "commit"}}) > 1)
  /\ UNCHANGED <<tiEachTurn, tiForce, tiAsked>>

-----------------------------------------------------------------------------
(* Messages, renames and requests; a change of the file owes a pass.         *)

TiMessage ==
  /\ tiUsers < TiMessages
  /\ tiUsers' = tiUsers + 1
  /\ tiOwed' = tiOwed \cup {"auto"}
  /\ UNCHANGED <<tiEachTurn, tiName, tiRenames, tiAsked, tiMapVars, tiPassVars>>

TiRename ==
  /\ tiRenames < TiRenames
  /\ tiRenames' = tiRenames + 1
  /\ tiName' = [by |-> "user", n |-> tiRenames']
  /\ tiOwed' = tiOwed \cup {"auto"}
  /\ UNCHANGED <<tiEachTurn, tiUsers, tiAsked, tiMapVars, tiPassVars>>

TiRegenerate ==
  /\ tiAsked < TiRenames
  /\ tiAsked' = tiAsked + 1
  /\ tiOwed' = tiOwed \cup {"force"}
  /\ UNCHANGED <<tiEachTurn, tiFileVars, tiMapVars, tiPassVars>>

-----------------------------------------------------------------------------
(* titleSession.                                                            *)

TiStart(p) ==
  /\ tiPc[p] = "idle"
  /\ \E why \in tiOwed :
       /\ tiOwed' = tiOwed \ {why}
       /\ tiForce' = [tiForce EXCEPT ![p] = why = "force"]
  /\ TiGoto(p, "gate")
  /\ UNCHANGED <<tiEachTurn, tiFileVars, tiAsked, tiMapVars, tiInputs, tiRaced>>

\* The cheap gate before the file is read.
TiGate(p) ==
  /\ LET refused == tiInFlight \/ (~tiForce[p] /\ (tiOwned \/ (~tiEachTurn /\ tiTitled))) IN
       TiMoves(p, "gate", IF refused THEN "idle" ELSE "read")
  /\ UNCHANGED <<tiFileVars, tiOwed, tiMapVars, tiInputs>>

\* ReadTitleInputs; without a message there is nothing to name.
TiReads(p) ==
  /\ TiMoves(p, "read", IF tiUsers = 0 THEN "idle" ELSE "claim")
  /\ tiInputs' = [tiInputs EXCEPT ![p] = TiRead]
  /\ UNCHANGED <<tiFileVars, tiOwed, tiMapVars>>

\* A name pican did not write is the user's for good; else the once or each-turn
\* rule, and one pass at a time.
TiClaim(p) ==
  /\ LET inputs == tiInputs[p]
         done == IF tiEachTurn THEN inputs.users <= tiCount ELSE tiTitled \/ inputs.name.by = "auto" IN
       IF ~tiForce[p] /\ TiUserNamed(inputs.name)
       THEN TiMoves(p, "claim", "idle") /\ tiOwned' = TRUE /\ UNCHANGED tiInFlight
       ELSE IF (~tiForce[p] /\ done) \/ tiInFlight
       THEN TiMoves(p, "claim", "idle") /\ UNCHANGED <<tiInFlight, tiOwned>>
       ELSE TiMoves(p, "claim", "model") /\ tiInFlight' = TRUE /\ UNCHANGED tiOwned
  /\ UNCHANGED <<tiFileVars, tiOwed, tiTitled, tiCount, tiInputs>>

\* The model has run; the claim is given up before the second look.
TiModelEnds(p) ==
  /\ TiMoves(p, "model", "check")
  /\ tiInFlight' = FALSE
  /\ UNCHANGED <<tiFileVars, tiOwed, tiTitled, tiCount, tiOwned, tiInputs>>

\* A message that came meanwhile starts another pass; a rename that came ends this.
TiCheck(p) ==
  /\ LET before == tiInputs[p]
         kept == tiForce[p] /\ TiUserNamed(before.name) /\ tiName = before.name IN
       IF tiUsers # before.users
       THEN /\ TiMoves(p, "check", "idle")
            /\ tiOwed' = tiOwed \cup {IF tiForce[p] THEN "force" ELSE "auto"}
            /\ UNCHANGED tiOwned
       ELSE IF TiUserNamed(tiName) /\ ~kept
       THEN TiMoves(p, "check", "idle") /\ tiOwned' = TRUE /\ UNCHANGED tiOwed
       ELSE TiMoves(p, "check", "append") /\ UNCHANGED <<tiOwed, tiOwned>>
  /\ UNCHANGED <<tiFileVars, tiInFlight, tiTitled, tiCount, tiInputs>>

\* AutoTitleSession: the append, which the watcher sees.
TiAppend(p) ==
  /\ TiMoves(p, "append", "commit")
  /\ tiName' = [by |-> "auto", n |-> tiInputs[p].users]
  /\ tiOwed' = tiOwed \cup {"auto"}
  /\ UNCHANGED <<tiUsers, tiRenames, tiMapVars, tiInputs>>

TiCommit(p) ==
  /\ TiMoves(p, "commit", "idle")
  /\ tiTitled' = TRUE /\ tiCount' = tiInputs[p].users /\ tiOwned' = FALSE
  /\ UNCHANGED <<tiFileVars, tiOwed, tiInFlight, tiInputs>>

TiNext ==
  \/ TiMessage \/ TiRename \/ TiRegenerate
  \/ \E p \in TiPasses :
       \/ TiStart(p) \/ TiGate(p) \/ TiReads(p) \/ TiClaim(p) \/ TiModelEnds(p)
       \/ TiCheck(p) \/ TiAppend(p) \/ TiCommit(p)

TiSpec == TiInit /\ [][TiNext]_tiVars

-----------------------------------------------------------------------------
(* Properties.                                                              *)

TiTypeOK ==
  /\ tiUsers \in 0..TiMessages /\ tiCount \in 0..TiMessages /\ tiOwed \subseteq {"auto", "force"}
  /\ tiName.by \in {"nobody", "user", "auto"}

TiQuiet == tiOwed = {} /\ \A p \in TiPasses : tiPc[p] = "idle"

\* No claim is left behind: with nothing running a session can always be titled.
TiNoClaimLeft == tiInFlight <=> \E p \in TiPasses : tiPc[p] = "model"

\* With every pass over, a session that has a message and that the user did not
\* rename has a title, however passes gave way to each other; in each-turn mode it is
\* about all messages, unless a pass overtook another past its second look.
TiCoversAll ==
  TiQuiet /\ tiUsers > 0 /\ tiRenames = 0 =>
    tiName.by = "auto" /\ (tiEachTurn /\ ~tiRaced => tiName.n = tiUsers)

\* A name of the user's stands, unless a pass had taken its second look before the
\* rename, or the user asked for a title while the session had this very name.
TiManualStands ==
  \A p \in TiPasses :
    tiPc[p] = "check" /\ tiPc'[p] = "append" /\ TiUserNamed(tiName) =>
      tiForce[p] /\ tiInputs[p].name = tiName
=============================================================================
