------------------------------ MODULE ChatQueue ------------------------------
(****************************************************************************)
(* chatqueue.Store (src/internal/chatqueue/chatqueue.go): the durable queue *)
(* of each session, two SQLite tables on one connection, so that every      *)
(* method is one atomic step.  A queued message is known by its position.   *)
(* The operators are steps on the store alone; QueueDrainer composes them   *)
(* with the handlers and with the drainer.                                  *)
(****************************************************************************)
EXTENDS Naturals, FiniteSetsExt

CONSTANTS Sessions, MaxItems  \* bound: messages ever queued in a session

ASSUME MaxItemsAssumption == MaxItems \in Nat \ {0}

VARIABLES
  rows,    \* chat_queue_items: the positions queued in a session
  nextPos, \* chat_queue_state.next_position
  paused   \* chat_queue_state.paused

storeVars == <<rows, nextPos, paused>>

Positions == 1..MaxItems

StoreInit ==
  /\ rows = [s \in Sessions |-> {}]
  /\ nextPos = [s \in Sessions |-> 1]
  /\ paused = [s \in Sessions |-> FALSE]

\* mutant: the position after the last queued one, so a freed one comes again.
AddAfterLast(s) ==
  LET pos == IF rows[s] = {} THEN 1 ELSE Max(rows[s]) + 1 IN
  /\ nextPos[s] \in Positions
  /\ rows' = [rows EXCEPT ![s] = @ \cup {pos}]
  /\ nextPos' = [nextPos EXCEPT ![s] = pos + 1]
  /\ UNCHANGED paused

\* Add takes the session's counter, which no removal ever moves back.
Add(s) ==
  /\ nextPos[s] \in Positions
  /\ rows' = [rows EXCEPT ![s] = @ \cup {nextPos[s]}]
  /\ nextPos' = [nextPos EXCEPT ![s] = @ + 1]
  /\ UNCHANGED paused

\* Remove reports through Removed whether the row was still there.
Removed(s, pos) == pos \in rows[s]

Remove(s, pos) ==
  /\ rows' = [rows EXCEPT ![s] = @ \ {pos}]
  /\ UNCHANGED <<nextPos, paused>>

\* PopHead deletes the row it returns.
LastPos(s) == Max(rows[s])  \* mutant: ORDER BY position DESC
HeadPos(s) == Min(rows[s])

PopHead(s) ==
  /\ rows[s] # {}
  /\ rows' = [rows EXCEPT ![s] = @ \ {HeadPos(s)}]
  /\ UNCHANGED <<nextPos, paused>>

SetPaused(s, flag) ==
  /\ paused' = [paused EXCEPT ![s] = flag]
  /\ UNCHANGED <<rows, nextPos>>

\* SessionsWithItems: what drainAll visits.
SessionsWithItems == {s \in Sessions : rows[s] # {} /\ ~paused[s]}

StoreTypeOK ==
  /\ rows \in [Sessions -> SUBSET Positions]
  /\ nextPos \in [Sessions -> 1..(MaxItems + 1)]
  /\ paused \in [Sessions -> BOOLEAN]
=============================================================================
