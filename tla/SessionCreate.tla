---------------------------- MODULE SessionCreate ----------------------------
(*****************************************************************************)
(* Hosted session creation: the durable record of sessioncreate.Store        *)
(* (src/internal/sessioncreate/store.go) and the handler that drives it,     *)
(* handleIdempotentCodexCreate (src/internal/server/new_session.go).         *)
(*                                                                           *)
(* Every SQL statement is one step; only a mark that nothing can undo is one *)
(* with reading the row back.  Between statements a request may stop         *)
(* (its context ends, the database fails) and the process may die; codex     *)
(* may have acted on a call that reported an error.                          *)
(*****************************************************************************)
EXTENDS Naturals, FiniteSets

CONSTANTS Keys,       \* idempotency keys
          Requests,   \* slots for concurrent HTTP requests
          Payloads,   \* normalized request bodies; a fingerprint is its payload
          WithPrompt, \* the payloads that carry an initial prompt
          None,
          MaxFaults,  \* bound: statements that fail
          MaxCrashes  \* bound: crashes of the server

ASSUME PayloadAssumption == None \notin Payloads /\ WithPrompt \subseteq Payloads
ASSUME BoundsAssumption == MaxFaults \in Nat /\ MaxCrashes \in Nat

VARIABLES
  fingerprint, createState, promptState,  \* the row of a key
  threads,   \* native threads codex started for a key
  prompts,   \* initial prompts codex was given for a key
  pc, key, body,  \* a request: position, idempotency key, payload
  owners,  \* the requests whose claim.Owner is true
  rc, rp,    \* its copy of the row: record.CreateState, record.PromptState
  faults, crashes

rowVars == <<fingerprint, createState, promptState>>
codexVars == <<threads, prompts>>
reqVars == <<pc, key, body, owners, rc, rp>>
vars == <<rowVars, codexVars, reqVars, faults, crashes>>

Init ==
  /\ fingerprint = [k \in Keys |-> None]
  /\ createState = [k \in Keys |-> "missing"]
  /\ promptState = [k \in Keys |-> "missing"]
  /\ threads = [k \in Keys |-> 0]
  /\ prompts = [k \in Keys |-> 0]
  /\ pc = [r \in Requests |-> "idle"]
  /\ key = [r \in Requests |-> None]
  /\ body = [r \in Requests |-> None]
  /\ owners = {}
  /\ rc = [r \in Requests |-> "missing"]
  /\ rp = [r \in Requests |-> "missing"]
  /\ faults = 0
  /\ crashes = 0

Goto(r, label) == pc' = [pc EXCEPT ![r] = label]

\* record = the row as it is now (Get).
Read(r) ==
  /\ rc' = [rc EXCEPT ![r] = createState[key[r]]]
  /\ rp' = [rp EXCEPT ![r] = promptState[key[r]]]

\* The handler answers and its locals are gone.
Answer(r) ==
  /\ Goto(r, "idle")
  /\ key' = [key EXCEPT ![r] = None]
  /\ body' = [body EXCEPT ![r] = None]
  /\ owners' = owners \ {r}
  /\ rc' = [rc EXCEPT ![r] = "missing"]
  /\ rp' = [rp EXCEPT ![r] = "missing"]

Fault == faults < MaxFaults /\ faults' = faults + 1 /\ UNCHANGED crashes
NoFault == UNCHANGED <<faults, crashes>>

-----------------------------------------------------------------------------
(* Claiming the key.                                                        *)

Begin(r, k, b) ==
  /\ pc[r] = "idle"
  /\ Goto(r, "get")
  /\ key' = [key EXCEPT ![r] = k]
  /\ body' = [body EXCEPT ![r] = b]
  /\ NoFault /\ UNCHANGED <<rowVars, codexVars, owners, rc, rp>>

\* A key used for another payload is a conflict; a new key needs the capability,
\* which may be missing.
Lookup(r) ==
  /\ pc[r] = "get"
  /\ \/ /\ fingerprint[key[r]] \in {None, body[r]}
        /\ Goto(r, "insert") /\ UNCHANGED <<key, body, owners, rc, rp>>
     \/ fingerprint[key[r]] # body[r] /\ Answer(r)
  /\ NoFault /\ UNCHANGED <<rowVars, codexVars>>

\* mutant: INSERT OR REPLACE; every request owns its claim.
InsertReplacing(r) ==
  LET k == key[r] IN
  /\ pc[r] = "insert"
  /\ fingerprint' = [fingerprint EXCEPT ![k] = body[r]]
  /\ createState' = [createState EXCEPT ![k] = "creating"]
  /\ promptState' = [promptState EXCEPT ![k] =
                       IF body[r] \in WithPrompt THEN "pending" ELSE "not_requested"]
  /\ owners' = owners \cup {r}
  /\ Goto(r, "inserted")
  /\ NoFault /\ UNCHANGED <<codexVars, key, body, rc, rp>>

\* INSERT ... ON CONFLICT DO NOTHING: one request owns the claim.
Insert(r) ==
  LET k == key[r] IN
  /\ pc[r] = "insert"
  /\ IF createState[k] = "missing"
     THEN /\ fingerprint' = [fingerprint EXCEPT ![k] = body[r]]
          /\ createState' = [createState EXCEPT ![k] = "creating"]
          /\ promptState' = [promptState EXCEPT ![k] =
                               IF body[r] \in WithPrompt THEN "pending" ELSE "not_requested"]
          /\ owners' = owners \cup {r}
     ELSE UNCHANGED <<rowVars, owners>>
  /\ Goto(r, "inserted")
  /\ NoFault /\ UNCHANGED <<codexVars, key, body, rc, rp>>

\* Claim reads the row back; only the owner goes on to codex.
ReadClaim(r) ==
  /\ pc[r] = "inserted"
  /\ IF fingerprint[key[r]] # body[r] THEN Answer(r)
     ELSE /\ Read(r)
          /\ Goto(r, IF r \in owners THEN "start"
                     ELSE IF createState[key[r]] = "creating" THEN "wait"
                     ELSE "route")
          /\ UNCHANGED <<key, body, owners>>
  /\ NoFault /\ UNCHANGED <<rowVars, codexVars>>

-----------------------------------------------------------------------------
(* The owner creates the native thread.                                     *)

\* StartSession takes effect in codex.
StartThread(r) ==
  /\ pc[r] = "start"
  /\ threads' = [threads EXCEPT ![key[r]] = @ + 1]
  /\ Goto(r, "started")
  /\ NoFault /\ UNCHANGED <<rowVars, prompts, key, body, owners, rc, rp>>

\* It reports an error, before or after that (or the path cannot be prepared).
StartFails(r) ==
  /\ pc[r] \in {"start", "started"}
  /\ Goto(r, "failed")
  /\ NoFault /\ UNCHANGED <<rowVars, codexVars, key, body, owners, rc, rp>>

\* mutant: the handler answers and leaves the row as it is.
CreateLeftOpen(r) ==
  /\ pc[r] = "failed"
  /\ Answer(r)
  /\ NoFault /\ UNCHANGED <<rowVars, codexVars>>

MarkCreateUnknown(r) ==
  LET k == key[r] IN
  /\ pc[r] = "failed"
  /\ createState' = [createState EXCEPT ![k] = IF @ = "creating" THEN "unknown" ELSE @]
  /\ Answer(r)
  /\ NoFault /\ UNCHANGED <<fingerprint, promptState, codexVars>>

\* The update requires the row to be "creating" still.
MarkCreated(r) ==
  LET k == key[r] IN
  /\ pc[r] = "started"
  /\ IF createState[k] = "creating"
     THEN /\ createState' = [createState EXCEPT ![k] = "created"]
          /\ Goto(r, "marked") /\ UNCHANGED <<key, body, owners, rc, rp>>
     ELSE Answer(r) /\ UNCHANGED createState
  /\ NoFault /\ UNCHANGED <<fingerprint, promptState, codexVars>>

\* It reads the row back, in which another request may have moved on by now.
ReadMapping(r) ==
  /\ pc[r] = "marked"
  /\ Read(r)
  /\ Goto(r, "route")
  /\ NoFault /\ UNCHANGED <<rowVars, codexVars, key, body, owners>>

\* WaitForMapping: another request is creating.
WaitForMapping(r) ==
  /\ pc[r] = "wait" /\ createState[key[r]] # "creating"
  /\ Read(r)
  /\ Goto(r, "route")
  /\ NoFault /\ UNCHANGED <<rowVars, codexVars, key, body, owners>>

WaitTimesOut(r) ==
  /\ pc[r] = "wait"
  /\ Answer(r)
  /\ NoFault /\ UNCHANGED <<rowVars, codexVars>>

-----------------------------------------------------------------------------
(* Dispatching the initial prompt.                                          *)

\* What the handler does with the row it has; it may also find the session,
\* the workspace or the capability gone and answer with that.
Route(r) ==
  /\ pc[r] = "route"
  /\ \/ Answer(r)
     \/ /\ rc[r] = "created"
        /\ Goto(r, CASE rp[r] = "pending" -> "begin"
                     [] rp[r] = "dispatching" -> "waitPrompt"
                     [] OTHER -> "respond")
        /\ UNCHANGED <<key, body, owners, rc, rp>>
  /\ NoFault /\ UNCHANGED <<rowVars, codexVars>>

\* mutant: the dispatch is decided on the copy of the row, not by the update.
BeginUnconditionally(r) ==
  /\ pc[r] = "begin"
  /\ promptState' = [promptState EXCEPT ![key[r]] = "dispatching"]
  /\ Goto(r, "won")
  /\ NoFault /\ UNCHANGED <<fingerprint, createState, codexVars, key, body, owners, rc, rp>>

\* BeginPromptDispatch consumes the one dispatch opportunity of the key.
BeginPromptDispatch(r) ==
  LET k == key[r]
      won == createState[k] = "created" /\ promptState[k] = "pending" IN
  /\ pc[r] = "begin"
  /\ promptState' = [promptState EXCEPT ![k] = IF won THEN "dispatching" ELSE @]
  /\ Goto(r, IF won THEN "won" ELSE "beaten")
  /\ NoFault /\ UNCHANGED <<fingerprint, createState, codexVars, key, body, owners, rc, rp>>

\* It reads the row back; only the winner sends.
ReadDispatch(r) ==
  /\ pc[r] \in {"won", "beaten"}
  /\ Read(r)
  /\ Goto(r, IF pc[r] = "won" THEN "send"
             ELSE IF promptState[key[r]] = "dispatching" THEN "waitPrompt"
             ELSE "respond")
  /\ NoFault /\ UNCHANGED <<rowVars, codexVars, key, body, owners>>

\* Send takes effect in codex.
DeliverPrompt(r) ==
  /\ pc[r] = "send"
  /\ prompts' = [prompts EXCEPT ![key[r]] = @ + 1]
  /\ Goto(r, "sent")
  /\ NoFault /\ UNCHANGED <<rowVars, threads, key, body, owners, rc, rp>>

SendFails(r) ==
  /\ pc[r] \in {"send", "sent"}
  /\ Goto(r, "unsure")
  /\ NoFault /\ UNCHANGED <<rowVars, codexVars, key, body, owners, rc, rp>>

\* Both marks require the row to be "dispatching" still.  They are final: what is
\* read back after one is what it wrote.
MarkPrompt(r, from, state) ==
  LET k == key[r] IN
  /\ pc[r] = from
  /\ IF createState[k] = "created" /\ promptState[k] = "dispatching"
     THEN /\ promptState' = [promptState EXCEPT ![k] = state]
          /\ rp' = [rp EXCEPT ![r] = state]
          /\ Goto(r, "respond") /\ UNCHANGED <<key, body, owners, rc>>
     ELSE Answer(r) /\ UNCHANGED promptState
  /\ NoFault /\ UNCHANGED <<fingerprint, createState, codexVars>>

\* mutant: a failed Send leaves the prompt to the next retry.
MarkPromptPending(r) == MarkPrompt(r, "unsure", "pending")

MarkPromptAccepted(r) == MarkPrompt(r, "sent", "accepted")
MarkPromptUnknown(r) == MarkPrompt(r, "unsure", "unknown")

\* WaitForPromptResolution, or its time limit.
WaitForPromptResolution(r) ==
  /\ pc[r] = "waitPrompt"
  /\ \/ promptState[key[r]] # "dispatching" /\ Read(r)
     \/ UNCHANGED <<rc, rp>>
  /\ Goto(r, "respond")
  /\ NoFault /\ UNCHANGED <<rowVars, codexVars, key, body, owners>>

Respond(r) ==
  /\ pc[r] = "respond"
  /\ Answer(r)
  /\ NoFault /\ UNCHANGED <<rowVars, codexVars>>

-----------------------------------------------------------------------------
(* Failures.                                                                *)

\* A statement fails, or the request's context ends around it: the handler
\* answers with an error and the row stays as the last statement left it.
\* markPromptUnknown answers with the record it has instead.
StatementFails(r) ==
  /\ \/ /\ pc[r] \in {"get", "insert", "inserted", "failed", "started", "marked", "wait", "begin",
                      "won", "beaten", "sent", "waitPrompt"}
        /\ Answer(r)
     \/ /\ pc[r] = "unsure"
        /\ Goto(r, "respond") /\ UNCHANGED <<key, body, owners, rc, rp>>
  /\ Fault /\ UNCHANGED <<rowVars, codexVars>>

\* mutant: startup takes up prompts whose dispatch was interrupted.
RecoverToPending ==
  /\ createState' = [k \in Keys |->
       IF createState[k] = "creating" THEN "unknown" ELSE createState[k]]
  /\ promptState' = [k \in Keys |->
       IF createState[k] = "created" /\ promptState[k] = "dispatching"
       THEN "pending" ELSE promptState[k]]

\* mutant: the second update writes the column of the first.
RecoverMixedUp ==
  /\ createState' = [k \in Keys |->
       IF createState[k] = "creating" THEN "unknown" ELSE createState[k]]
  /\ promptState' = [k \in Keys |->
       IF createState[k] = "created" /\ promptState[k] = "dispatching"
       THEN "created" ELSE promptState[k]]

\* RecoverInterrupted, once, before the server serves requests again.
RecoverInterrupted ==
  /\ createState' = [k \in Keys |->
       IF createState[k] = "creating" THEN "unknown" ELSE createState[k]]
  /\ promptState' = [k \in Keys |->
       IF createState[k] = "created" /\ promptState[k] = "dispatching"
       THEN "unknown" ELSE promptState[k]]

\* The process dies with every request and starts again.
Restart ==
  /\ crashes < MaxCrashes
  /\ crashes' = crashes + 1
  /\ RecoverInterrupted
  /\ pc' = [r \in Requests |-> "idle"]
  /\ key' = [r \in Requests |-> None]
  /\ body' = [r \in Requests |-> None]
  /\ owners' = {}
  /\ rc' = [r \in Requests |-> "missing"]
  /\ rp' = [r \in Requests |-> "missing"]
  /\ UNCHANGED <<fingerprint, codexVars, faults>>

-----------------------------------------------------------------------------
\* The steps a request takes by itself.
Proceed(r) ==
  \/ Lookup(r) \/ Insert(r) \/ ReadClaim(r)
  \/ StartThread(r) \/ StartFails(r) \/ MarkCreateUnknown(r) \/ MarkCreated(r) \/ ReadMapping(r)
  \/ WaitForMapping(r) \/ WaitTimesOut(r) \/ Route(r)
  \/ BeginPromptDispatch(r) \/ ReadDispatch(r) \/ DeliverPrompt(r) \/ SendFails(r)
  \/ MarkPromptAccepted(r) \/ MarkPromptUnknown(r)
  \/ WaitForPromptResolution(r) \/ Respond(r)

Next ==
  \/ \E r \in Requests :
       \/ Proceed(r) \/ StatementFails(r)
       \/ \E k \in Keys, b \in Payloads : Begin(r, k, b)
  \/ Restart

Spec == Init /\ [][Next]_vars

\* Handlers run, and every wait and every call in them has a time limit.
FairSpec == Spec /\ \A r \in Requests : WF_vars(Proceed(r))

-----------------------------------------------------------------------------
(* Properties.                                                              *)

CreateStates == {"missing", "creating", "created", "unknown"}
PromptStates == {"missing", "not_requested", "pending", "dispatching", "accepted", "unknown"}
Labels == {"idle", "get", "insert", "inserted", "start", "started", "marked", "failed", "wait",
           "route", "begin", "won", "beaten", "send", "sent", "unsure", "waitPrompt",
           "respond"}

\* Type invariant.
TypeOK ==
  /\ fingerprint \in [Keys -> Payloads \cup {None}]
  /\ createState \in [Keys -> CreateStates]
  /\ promptState \in [Keys -> PromptStates]
  /\ threads \in [Keys -> Nat] /\ prompts \in [Keys -> Nat]
  /\ pc \in [Requests -> Labels]
  /\ key \in [Requests -> Keys \cup {None}]
  /\ body \in [Requests -> Payloads \cup {None}]
  /\ owners \subseteq Requests
  /\ rc \in [Requests -> CreateStates] /\ rp \in [Requests -> PromptStates]
  /\ faults \in 0..MaxFaults /\ crashes \in 0..MaxCrashes

\* One key starts at most one native thread and delivers its initial prompt at
\* most once, over concurrent requests, retries, failed statements and crashes.
AtMostOnce == \A k \in Keys : threads[k] <= 1 /\ prompts[k] <= 1

\* The row never claims what did not happen, and a prompt it offers for dispatch
\* has not been delivered.
RowTruthful ==
  \A k \in Keys :
    /\ createState[k] = "created" => threads[k] = 1
    /\ promptState[k] = "accepted" => prompts[k] = 1
    /\ promptState[k] \in {"missing", "not_requested", "pending"} => prompts[k] = 0

\* A request only acts on a row made for its own payload, and what it answers in
\* the end is true: a thread exists, an accepted prompt was delivered.
AnswersTruthful ==
  \A r \in Requests :
    /\ pc[r] \notin {"idle", "get", "insert", "inserted"} => fingerprint[key[r]] = body[r]
    /\ pc[r] = "respond" => threads[key[r]] = 1
    /\ pc[r] = "respond" /\ rp[r] = "accepted" => prompts[key[r]] = 1

Follows(from, to) ==
  <<from, to>> \in
    {<<"missing", "creating">>, <<"creating", "created">>, <<"creating", "unknown">>}
PromptFollows(from, to) ==
  <<from, to>> \in
    {<<"missing", "not_requested">>, <<"missing", "pending">>, <<"pending", "dispatching">>,
     <<"dispatching", "accepted">>, <<"dispatching", "unknown">>}

Forward ==
  \A k \in Keys :
    /\ createState'[k] = createState[k] \/ Follows(createState[k], createState'[k])
    /\ promptState'[k] = promptState[k] \/ PromptFollows(promptState[k], promptState'[k])
    /\ fingerprint[k] # None => fingerprint'[k] = fingerprint[k]

\* The row only moves forward: no step takes back an identity, reopens a
\* dispatch, or resolves what startup declared unknown.
RowMovesForward == [][Forward]_vars

\* As long as no statement fails, a creation and a dispatch in progress are
\* resolved, so that the requests waiting on them converge.
RowSettles ==
  [](faults = 0) =>
    \A k \in Keys :
      /\ createState[k] = "creating" ~> createState[k] # "creating"
      /\ promptState[k] = "dispatching" ~> promptState[k] # "dispatching"
=============================================================================
