---------------------------- MODULE QueueDrainer ----------------------------
(***************************************************************************)
(* The autonomous queue: the HTTP handlers of chat_queue.go, the drainer   *)
(* goroutine of chat_queue_drainer.go, the goroutines it and handleChat    *)
(* start for Send, browser tabs that take a row over ("send now"), and a   *)
(* server that can crash and start again on the same database.             *)
(*                                                                         *)
(* workers.Manager is seen through what the drainer asks of it: Status is  *)
(* running while a Send is reserved or the agent runs (see WorkerManager). *)
(***************************************************************************)
EXTENDS ChatQueue, Sequences

CONSTANTS Tabs,       \* browser tabs
          Drainer,    \* the drainer, as a sender of messages
          KickCap,    \* capacity of kickCh
          MaxCrashes, \* bound: crashes of the server
          MaxRuns     \* bound: agent runs started by other messages

ASSUME DrainerAssumption == Drainer \notin Tabs
ASSUME BoundsAssumption == KickCap \in Nat /\ MaxCrashes \in Nat /\ MaxRuns \in Nat

VARIABLES
  send,     \* per sender, session and position: how far its Send has come
  running,  \* the session's agent is running
  ready,    \* the session can be drained: resolved, chat available, ...
  kicks,    \* kickCh
  dpc,      \* where the drainer goroutine is
  todo,     \* sessions drainAll, or the kick it took, has yet to visit
  cur,      \* the session it visits
  seen,     \* pendingSends > 0 as Status read it under the lock
  crashes, runs,  \* counts for the bounds
  popsInPause     \* history: pops of a session since it was last paused

drainVars == <<kicks, dpc, todo, cur, seen>>
vars == <<storeVars, send, running, ready, drainVars, crashes, runs, popsInPause>>

Senders == Tabs \cup {Drainer}

\* none: not involved; asked: the tab's DELETE is on its way; claimed: the row
\* is out of the queue and this sender's; spawned: a goroutine will call Send;
\* reserved: Send reserved the session; landed: the agent has it; lost: never.
Stages == {"none", "asked", "claimed", "spawned", "reserved", "landed", "lost"}

Set(by, s, p, stage) == send' = [send EXCEPT ![by][s][p] = stage]

Reserved(s) == \E by \in Senders, p \in Positions : send[by][s][p] = "reserved"

Init ==
  /\ StoreInit
  /\ send = [by \in Senders |-> [s \in Sessions |-> [p \in Positions |-> "none"]]]
  /\ running = [s \in Sessions |-> FALSE]
  /\ ready = [s \in Sessions |-> TRUE]
  /\ kicks = <<>>
  /\ dpc = "boot"
  /\ todo = {}
  /\ cur \in Sessions
  /\ seen = FALSE
  /\ crashes = 0
  /\ runs = 0
  /\ popsInPause = [s \in Sessions |-> 0]

-----------------------------------------------------------------------------
(* Handlers.  The kick that follows a mutation only wakes the drainer, which *)
(* a tick may do at any time: both are one step.                             *)

KickUnbounded(s) == kicks' = Append(kicks, s)  \* mutant: never dropped

\* kick drops when the channel is full.
Kick(s) == kicks' = IF Len(kicks) < KickCap THEN Append(kicks, s) ELSE kicks

HandlePost(s) ==
  /\ Add(s)
  /\ Kick(s)
  /\ UNCHANGED <<send, running, ready, dpc, todo, cur, seen, crashes, runs, popsInPause>>

HandlePatch(s, flag) ==
  /\ SetPaused(s, flag)
  /\ Kick(s)
  /\ popsInPause' = [popsInPause EXCEPT ![s] = 0]
  /\ UNCHANGED <<send, running, ready, dpc, todo, cur, seen, crashes, runs>>

\* A tab asks for a row it displays, which may be gone by now.
AskRow(t, s, p) ==
  /\ p < nextPos[s] /\ send[t][s][p] = "none"
  /\ Set(t, s, p, "asked")
  /\ UNCHANGED <<storeVars, running, ready, drainVars, crashes, runs, popsInPause>>

\* mutant: any DELETE that succeeded counts as a claim.
ClaimBlindly(s, p) == "claimed"

\* What the answer makes of the tab's request: "removed" is a claim.
Claim(s, p) == IF Removed(s, p) THEN "claimed" ELSE "none"

HandleDelete(t, s, p) ==
  /\ send[t][s][p] = "asked"
  /\ Remove(s, p)
  /\ Set(t, s, p, Claim(s, p))
  /\ Kick(s)
  /\ UNCHANGED <<running, ready, dpc, todo, cur, seen, crashes, runs, popsInPause>>

RequestFails(t, s, p) ==
  /\ send[t][s][p] = "asked"
  /\ Set(t, s, p, "none")
  /\ UNCHANGED <<storeVars, running, ready, drainVars, crashes, runs, popsInPause>>

\* sendNow goes on to POST /api/chat and handleChat starts the Send.  Or it does
\* not come to that: the answer was lost, the tab closed, the chat refused.
HandleChat(t, s, p) ==
  /\ send[t][s][p] = "claimed"
  /\ \E stage \in {"spawned", "lost"} : Set(t, s, p, stage)
  /\ UNCHANGED <<storeVars, running, ready, drainVars, crashes, runs, popsInPause>>

-----------------------------------------------------------------------------
(* The Send goroutines and the agent.                                       *)

Reserve(by, s, p) ==
  /\ send[by][s][p] = "spawned"
  /\ Set(by, s, p, "reserved")
  /\ UNCHANGED <<storeVars, running, ready, drainVars, crashes, runs, popsInPause>>

Land(by, s, p) ==
  /\ send[by][s][p] = "reserved"
  /\ Set(by, s, p, "landed")
  /\ running' = [running EXCEPT ![s] = TRUE]
  /\ UNCHANGED <<storeVars, ready, drainVars, crashes, runs, popsInPause>>

\* Timeout, factory error, rejected prompt: logged, the message is not requeued.
SendFails(by, s, p) ==
  /\ send[by][s][p] = "reserved"
  /\ Set(by, s, p, "lost")
  /\ UNCHANGED <<storeVars, running, ready, drainVars, crashes, runs, popsInPause>>

\* The agent works on a message that was never queued.
OtherRun(s) ==
  /\ ~running[s] /\ runs < MaxRuns
  /\ running' = [running EXCEPT ![s] = TRUE]
  /\ runs' = runs + 1
  /\ UNCHANGED <<storeVars, send, ready, drainVars, crashes, popsInPause>>

\* recomputeAndBroadcastStatus kicks when it sees the transition, if it does.
RunEnds(s) ==
  /\ running[s]
  /\ running' = [running EXCEPT ![s] = FALSE]
  /\ Kick(s) \/ UNCHANGED kicks
  /\ UNCHANGED <<storeVars, send, ready, dpc, todo, cur, seen, crashes, runs, popsInPause>>

\* The working directory or the runtime disappears, or is back.
ReadyChanges(s) ==
  /\ ready' = [ready EXCEPT ![s] = ~@]
  /\ UNCHANGED <<storeVars, send, running, drainVars, crashes, runs, popsInPause>>

-----------------------------------------------------------------------------
(* The drainer goroutine.                                                   *)

senderVars == <<send, running, ready, crashes, runs, popsInPause>>

\* mutant: drainAll runs at startup only.
DrainAtBootOnly ==
  /\ dpc = "boot"
  /\ todo' = SessionsWithItems
  /\ dpc' = "next"
  /\ UNCHANGED <<storeVars, senderVars, kicks, cur, seen>>

\* drainAll at startup and on every tick.
DrainAll ==
  /\ dpc = "boot" \/ (dpc = "select" /\ SessionsWithItems # {})
  /\ todo' = SessionsWithItems
  /\ dpc' = "next"
  /\ UNCHANGED <<storeVars, senderVars, kicks, cur, seen>>

TakeKick ==
  /\ dpc = "select" /\ kicks # <<>>
  /\ todo' = {kicks[1]}
  /\ kicks' = Tail(kicks)
  /\ dpc' = "next"
  /\ UNCHANGED <<storeVars, senderVars, cur, seen>>

\* mutant: the pause is read for the whole list, not per session.
VisitUnchecked(s) ==
  /\ dpc = "next" /\ s \in todo
  /\ cur' = s
  /\ todo' = todo \ {s}
  /\ dpc' = "status"
  /\ UNCHANGED <<storeVars, senderVars, kicks, seen>>

\* drainSession begins with IsPaused.
Visit(s) ==
  /\ dpc = "next" /\ s \in todo
  /\ cur' = s
  /\ todo' = todo \ {s}
  /\ dpc' = IF paused[s] THEN "next" ELSE "status"
  /\ UNCHANGED <<storeVars, senderVars, kicks, seen>>

VisitedAll ==
  /\ dpc = "next" /\ todo = {}
  /\ dpc' = "select"
  /\ UNCHANGED <<storeVars, senderVars, kicks, todo, cur, seen>>

\* Status reads the count under the lock and asks the worker after it.
StatusPending ==
  /\ dpc = "status"
  /\ seen' = Reserved(cur)
  /\ dpc' = "worker"
  /\ UNCHANGED <<storeVars, senderVars, kicks, todo, cur>>

StatusWorker ==
  /\ dpc = "worker"
  /\ dpc' = IF seen \/ running[cur] THEN "next" ELSE "pop"
  /\ UNCHANGED <<storeVars, senderVars, kicks, todo, cur, seen>>

\* The remaining checks, then PopHead commits.
Pop ==
  /\ dpc = "pop" /\ ready[cur]
  /\ PopHead(cur)
  /\ Set(Drainer, cur, HeadPos(cur), "claimed")
  /\ popsInPause' = [popsInPause EXCEPT ![cur] = IF paused[cur] THEN @ + 1 ELSE 0]
  /\ dpc' = "spawn"
  /\ UNCHANGED <<running, ready, crashes, runs, kicks, todo, cur, seen>>

NothingToPop ==
  /\ dpc = "pop" /\ (~ready[cur] \/ rows[cur] = {})
  /\ dpc' = "next"
  /\ UNCHANGED <<storeVars, senderVars, kicks, todo, cur, seen>>

\* go func() { Send }: the loop goes on before that goroutine has run.
Spawn ==
  /\ dpc = "spawn"
  /\ \E p \in Positions :
       /\ send[Drainer][cur][p] = "claimed"
       /\ Set(Drainer, cur, p, "spawned")
  /\ dpc' = "next"
  /\ UNCHANGED <<storeVars, running, ready, crashes, runs, popsInPause, kicks, todo, cur, seen>>

\* What a crash leaves of a Send: tabs keep what they claimed and ask again.
Interrupted(by, stage) ==
  IF stage \in {"spawned", "reserved"} \/ (by = Drainer /\ stage = "claimed")
  THEN "lost" ELSE stage

\* The process dies and a new one opens the same database.
Crash ==
  /\ crashes < MaxCrashes
  /\ crashes' = crashes + 1
  /\ send' = [by \in Senders |-> [s \in Sessions |-> [p \in Positions |->
                Interrupted(by, send[by][s][p])]]]
  /\ running' = [s \in Sessions |-> FALSE]
  /\ kicks' = <<>>
  /\ dpc' = "boot"
  /\ todo' = {}
  /\ UNCHANGED <<storeVars, ready, cur, seen, runs, popsInPause>>

-----------------------------------------------------------------------------
Loop ==
  \/ TakeKick \/ VisitedAll \/ (\E s \in Sessions : Visit(s))
  \/ StatusPending \/ StatusWorker \/ Pop \/ NothingToPop \/ Spawn

Sending(by, s, p) == Reserve(by, s, p) \/ Land(by, s, p) \/ SendFails(by, s, p)

Next ==
  \/ DrainAll \/ Loop \/ Crash
  \/ \E s \in Sessions :
       \/ HandlePost(s) \/ HandlePatch(s, TRUE) \/ HandlePatch(s, FALSE)
       \/ OtherRun(s) \/ RunEnds(s) \/ ReadyChanges(s)
       \/ \E p \in Positions :
            \/ \E by \in Senders : Sending(by, s, p)
            \/ \E t \in Tabs : \/ AskRow(t, s, p) \/ HandleDelete(t, s, p)
                               \/ RequestFails(t, s, p) \/ HandleChat(t, s, p)

Spec == Init /\ [][Next]_vars

\* The drainer's goroutine runs; select takes a tick that keeps coming; a Send
\* ends (dispatchTimeout); the agent finishes its runs.
Fairness ==
  /\ WF_vars(Loop) /\ WF_vars(dpc = "boot" /\ DrainAll) /\ SF_vars(DrainAll)
  /\ \A s \in Sessions :
       /\ WF_vars(RunEnds(s))
       /\ \A p \in Positions, by \in Senders : WF_vars(Sending(by, s, p))

FairSpec == Spec /\ Fairness

-----------------------------------------------------------------------------
(* Properties.                                                              *)

\* Type invariant.
TypeOK ==
  /\ StoreTypeOK
  /\ send \in [Senders -> [Sessions -> [Positions -> Stages]]]
  /\ running \in [Sessions -> BOOLEAN] /\ ready \in [Sessions -> BOOLEAN]
  /\ kicks \in Seq(Sessions) /\ Len(kicks) <= KickCap
  /\ dpc \in {"boot", "select", "next", "status", "worker", "pop", "spawn"}
  /\ todo \subseteq Sessions /\ cur \in Sessions /\ seen \in BOOLEAN
  /\ crashes \in 0..MaxCrashes /\ runs \in 0..MaxRuns
  /\ popsInPause \in [Sessions -> Nat]

Owners(s, p) == {by \in Senders : send[by][s][p] \notin {"none", "asked"}}

\* A position that was handed out is in the queue or has exactly one owner: the
\* drainer and the tabs never claim the same message, and none disappears
\* without somebody having claimed it (chatqueue.go:198-202, 221-226).
ClaimedOnce ==
  \A s \in Sessions, p \in Positions :
    Cardinality(Owners(s, p)) =
      IF p < nextPos[s] /\ p \notin rows[s] THEN 1 ELSE 0

\* The drainer takes a session's messages in the order they were queued.
DrainedInOrder ==
  \A s \in Sessions, p, q \in Positions :
    send[Drainer][s][p] # "none" /\ q \in rows[s] => p < q

\* After the user paused a session the drainer takes one more message at most:
\* the one it was already looking at.
PauseHolds == \A s \in Sessions : paused[s] => popsInPause[s] <= 1

\* "We rely on ChatSender.Status (cheap) to avoid double-dispatching while a
\* previous Send is still streaming" (chat_queue_drainer.go:28-30): the drainer
\* has one Send of a session under way at a time.
OneDispatchAtATime ==
  \A s \in Sessions :
    Cardinality({p \in Positions : send[Drainer][s][p] \in {"claimed", "spawned", "reserved"}}) <= 1

\* A message of a session that is in the end neither paused nor unavailable
\* leaves the queue, whatever kicks were dropped and whenever the server died.
QueueDrains ==
  \A s \in Sessions, p \in Positions :
    <>[](ready[s] /\ ~paused[s]) => (p \in rows[s] ~> p \notin rows[s])

Deliveries(s, p) == {by \in Senders : send[by][s][p] = "landed"}

Fate(s, p) ==
  IF p \in rows[s] THEN "queued"
  ELSE IF p >= nextPos[s] THEN "absent"
  ELSE IF Deliveries(s, p) # {} THEN "delivered"
  ELSE IF \E by \in Senders : send[by][s][p] \in {"claimed", "spawned", "reserved"} THEN "claimed"
  ELSE "lost"

Delivery == INSTANCE MessageDelivery WITH
  Messages <- Sessions \X Positions,
  fate <- [m \in Sessions \X Positions |-> Fate(m[1], m[2])],
  deliveries <- [m \in Sessions \X Positions |-> Cardinality(Deliveries(m[1], m[2]))]

\* The queue implements at-most-once delivery.
DeliverySpec == Delivery!Spec
=============================================================================
