------------------------------- MODULE SseHub -------------------------------
(*****************************************************************************)
(* The event hub of the server (server.go 516-701) and the handler of one    *)
(* /events connection (events.go): every client has a bounded mailbox of     *)
(* tokens.  A keyless event is its own token and is dropped when the         *)
(* mailbox is full; a keyed one waits in pending, where a newer one replaces *)
(* it, and has at most one token.                                            *)
(*                                                                           *)
(* Clients are the connections subscribed to one topic.  A keyed payload is  *)
(* known by its number, a keyless one not at all.                            *)
(*****************************************************************************)
EXTENDS Naturals, Sequences, FiniteSets

CONSTANTS Clients,       \* connections: each is opened at most once
          Broadcasters,  \* goroutines in broadcast
          Keys,          \* results of eventKey other than ""
          NoKey,         \* the result ""
          Cap,           \* capacity of sseClient.ch
          MaxEvents      \* bound: events ever broadcast

ASSUME KeyAssumption == NoKey \notin Keys
ASSUME CapAssumption == Cap \in Nat \ {0}
ASSUME EventsAssumption == MaxEvents \in Nat

VARIABLES
  members,   \* s.clients
  left,      \* clients a broadcast has yet to visit; it holds clientsMu.RLock
  event,     \* what it broadcasts: a key and a number
  made,      \* events broadcast so far
  ch,        \* sseClient.ch
  pending,   \* sseClient.pending; 0 is absent
  signaled,  \* sseClient.signaled
  conn,      \* where the handler of the connection is
  token,     \* the token it received, the message it writes
  closed,    \* clients whose ch is closed
  sent, got  \* history: last payload handed to send, last one written

hubVars == <<members, left, event, made>>
boxVars == <<ch, pending, signaled>>
connVars == <<conn, token, closed>>
vars == <<hubVars, boxVars, connVars, sent, got>>

Nothing == <<NoKey, 0>>

Active(b) == event[b] # <<>>

\* clientsMu.Lock: no broadcast holds the read lock.
Exclusive == \A b \in Broadcasters : ~Active(b)

\* mutant: one token too many.
RoomAtCap(c) == Len(ch[c]) <= Cap

Room(c) == Len(ch[c]) < Cap

Init ==
  /\ members = {}
  /\ left = [b \in Broadcasters |-> {}]
  /\ event = [b \in Broadcasters |-> <<>>]
  /\ made = 0
  /\ ch = [c \in Clients |-> <<>>]
  /\ pending = [c \in Clients |-> [k \in Keys |-> 0]]
  /\ signaled = [c \in Clients |-> {}]
  /\ conn = [c \in Clients |-> "new"]
  /\ token = [c \in Clients |-> Nothing]
  /\ closed = {}
  /\ sent = [c \in Clients |-> [k \in Keys |-> 0]]
  /\ got = [c \in Clients |-> [k \in Keys |-> 0]]

-----------------------------------------------------------------------------
(* broadcast and send.                                                      *)

Broadcast(b, k) ==
  /\ ~Active(b)
  /\ made < MaxEvents
  /\ made' = made + 1
  /\ event' = [event EXCEPT ![b] = <<k, IF k \in Keys THEN made + 1 ELSE 0>>]
  /\ left' = [left EXCEPT ![b] = members]
  /\ UNCHANGED <<members, boxVars, connVars, sent, got>>

\* Keyless: the payload goes onto the channel, or nowhere.
SendKeyless(b, c) ==
  /\ Active(b) /\ event[b][1] = NoKey /\ c \in left[b]
  /\ ch' = [ch EXCEPT ![c] = IF Room(c) THEN Append(@, NoKey) ELSE @]
  /\ left' = [left EXCEPT ![b] = @ \ {c}]
  /\ UNCHANGED <<members, event, made, pending, signaled, connVars, sent, got>>

\* mutant: a key that is signaled keeps the payload it has.
SendOldest(b, c) ==
  LET k == event[b][1]
      push == k \notin signaled[c] /\ Room(c) IN
  /\ Active(b) /\ k \in Keys /\ c \in left[b] /\ conn[c] # "flush"
  /\ pending' = [pending EXCEPT ![c][k] = IF k \in signaled[c] THEN @ ELSE event[b][2]]
  /\ ch' = [ch EXCEPT ![c] = IF push THEN Append(@, k) ELSE @]
  /\ signaled' = [signaled EXCEPT ![c] = IF push THEN @ \cup {k} ELSE @]
  /\ sent' = [sent EXCEPT ![c][k] = event[b][2]]
  /\ left' = [left EXCEPT ![b] = @ \ {c}]
  /\ UNCHANGED <<members, event, made, connVars, got>>

\* mutant: the key counts as signaled although its token found no room.
SendMarked(b, c) ==
  LET k == event[b][1]
      push == k \notin signaled[c] /\ Room(c) IN
  /\ Active(b) /\ k \in Keys /\ c \in left[b] /\ conn[c] # "flush"
  /\ pending' = [pending EXCEPT ![c][k] = event[b][2]]
  /\ ch' = [ch EXCEPT ![c] = IF push THEN Append(@, k) ELSE @]
  /\ signaled' = [signaled EXCEPT ![c] = @ \cup {k}]
  /\ sent' = [sent EXCEPT ![c][k] = event[b][2]]
  /\ left' = [left EXCEPT ![b] = @ \ {c}]
  /\ UNCHANGED <<members, event, made, connVars, got>>

\* Keyed, under c.mu: replace the payload, and queue a token if there is none.
SendKeyed(b, c) ==
  LET k == event[b][1]
      push == k \notin signaled[c] /\ Room(c) IN
  /\ Active(b) /\ k \in Keys /\ c \in left[b] /\ conn[c] # "flush"
  /\ pending' = [pending EXCEPT ![c][k] = event[b][2]]
  /\ ch' = [ch EXCEPT ![c] = IF push THEN Append(@, k) ELSE @]
  /\ signaled' = [signaled EXCEPT ![c] = IF push THEN @ \cup {k} ELSE @]
  /\ sent' = [sent EXCEPT ![c][k] = event[b][2]]
  /\ left' = [left EXCEPT ![b] = @ \ {c}]
  /\ UNCHANGED <<members, event, made, connVars, got>>

BroadcastReturns(b) ==
  /\ Active(b) /\ left[b] = {}
  /\ event' = [event EXCEPT ![b] = <<>>]
  /\ UNCHANGED <<members, left, made, boxVars, connVars, sent, got>>

-----------------------------------------------------------------------------
(* The handler of a connection.                                             *)

Goto(c, label) == conn' = [conn EXCEPT ![c] = label]

AddClient(c) ==
  /\ conn[c] = "new" /\ Exclusive
  /\ members' = members \cup {c}
  /\ Goto(c, "greet")
  /\ UNCHANGED <<left, event, made, boxVars, token, closed, sent, got>>

\* ":ok" and the initial status have been written.
Greet(c) ==
  /\ conn[c] = "greet"
  /\ Goto(c, "select")
  /\ UNCHANGED <<hubVars, boxVars, token, closed, sent, got>>

Receive(c) ==
  /\ conn[c] = "select" /\ ch[c] # <<>>
  /\ token' = [token EXCEPT ![c] = <<Head(ch[c]), 0>>]
  /\ ch' = [ch EXCEPT ![c] = Tail(@)]
  /\ Goto(c, "resolve")
  /\ UNCHANGED <<hubVars, pending, signaled, closed, sent, got>>

\* mutant: the key stays signaled.
ResolveSignaled(c) ==
  LET k == token[c][1] IN
  /\ conn[c] = "resolve"
  /\ IF k \in Keys /\ pending[c][k] # 0
     THEN /\ token' = [token EXCEPT ![c] = <<k, pending[c][k]>>]
          /\ pending' = [pending EXCEPT ![c][k] = 0]
     ELSE UNCHANGED <<token, pending>>
  /\ Goto(c, "resolved")
  /\ UNCHANGED <<hubVars, ch, signaled, closed, sent, got>>

\* The first locked section of resolveToken; flushPending takes c.mu again.
Resolve(c) ==
  LET k == token[c][1] IN
  /\ conn[c] = "resolve"
  /\ IF k \in Keys /\ pending[c][k] # 0
     THEN /\ token' = [token EXCEPT ![c] = <<k, pending[c][k]>>]
          /\ pending' = [pending EXCEPT ![c][k] = 0]
          /\ signaled' = [signaled EXCEPT ![c] = @ \ {k}]
     ELSE UNCHANGED <<token, pending, signaled>>
  /\ Goto(c, "resolved")
  /\ UNCHANGED <<hubVars, ch, closed, sent, got>>

\* mutant: nobody retries the keys that found the mailbox full.
FlushNothing(c) ==
  /\ conn[c] = "resolved"
  /\ Goto(c, "write")
  /\ UNCHANGED <<hubVars, boxVars, token, closed, sent, got>>

FlushPending(c) ==
  /\ conn[c] = "resolved"
  /\ Goto(c, "flush")
  /\ UNCHANGED <<hubVars, boxVars, token, closed, sent, got>>

Unsignaled(c) == {k \in Keys : pending[c][k] # 0} \ signaled[c]

\* The loop holds c.mu, but keyless events may still take the room it needs.
FlushOne(c, k) ==
  /\ conn[c] = "flush" /\ k \in Unsignaled(c) /\ Room(c)
  /\ ch' = [ch EXCEPT ![c] = Append(@, k)]
  /\ signaled' = [signaled EXCEPT ![c] = @ \cup {k}]
  /\ UNCHANGED <<hubVars, pending, connVars, sent, got>>

FlushReturns(c) ==
  /\ conn[c] = "flush" /\ (Unsignaled(c) = {} \/ ~Room(c))
  /\ Goto(c, "write")
  /\ UNCHANGED <<hubVars, boxVars, token, closed, sent, got>>

Write(c) ==
  LET k == token[c][1] IN
  /\ conn[c] = "write"
  /\ got' = IF k \in Keys THEN [got EXCEPT ![c][k] = token[c][2]] ELSE got
  /\ token' = [token EXCEPT ![c] = Nothing]
  /\ Goto(c, "select")
  /\ UNCHANGED <<hubVars, boxVars, closed, sent>>

\* A write or a flush fails, the request is over: the handler returns.
Disconnect(c) ==
  /\ conn[c] \in {"greet", "select", "write"}
  /\ Goto(c, "leave")
  /\ UNCHANGED <<hubVars, boxVars, token, closed, sent, got>>

\* mutant: the list is changed without waiting for broadcasts to finish.
RemoveUnlocked(c) ==
  /\ conn[c] = "leave"
  /\ members' = members \ {c}
  /\ Goto(c, "close")
  /\ UNCHANGED <<left, event, made, boxVars, token, closed, sent, got>>

RemoveClient(c) ==
  /\ conn[c] = "leave" /\ Exclusive
  /\ members' = members \ {c}
  /\ Goto(c, "close")
  /\ UNCHANGED <<left, event, made, boxVars, token, closed, sent, got>>

CloseChannel(c) ==
  /\ conn[c] = "close"
  /\ closed' = closed \cup {c}
  /\ Goto(c, "gone")
  /\ UNCHANGED <<hubVars, boxVars, token, sent, got>>

-----------------------------------------------------------------------------
Visit(b) ==
  BroadcastReturns(b) \/ \E c \in Clients : SendKeyless(b, c) \/ SendKeyed(b, c)

Handle(c) ==
  \/ Greet(c) \/ Receive(c) \/ Resolve(c) \/ FlushPending(c)
  \/ (\E k \in Keys : FlushOne(c, k)) \/ FlushReturns(c) \/ Write(c)
  \/ RemoveClient(c) \/ CloseChannel(c)

Next ==
  \/ \E b \in Broadcasters : Visit(b) \/ \E k \in Keys \cup {NoKey} : Broadcast(b, k)
  \/ \E c \in Clients : Handle(c) \/ AddClient(c) \/ Disconnect(c)

Spec == Init /\ [][Next]_vars

\* Goroutines run: a broadcast under way returns, and the handler of an open
\* connection goes on.  That events keep coming is not assumed.
FairSpec ==
  /\ Spec
  /\ \A b \in Broadcasters : WF_vars(Visit(b))
  /\ \A c \in Clients : WF_vars(Handle(c))

-----------------------------------------------------------------------------
(* Properties.                                                              *)

Payloads == 0..MaxEvents

Labels ==
  {"new", "greet", "select", "resolve", "resolved", "flush", "write", "leave", "close", "gone"}

\* Type invariant: no mailbox exceeds its capacity.
TypeOK ==
  /\ members \subseteq Clients /\ closed \subseteq Clients
  /\ left \in [Broadcasters -> SUBSET Clients]
  /\ event \in [Broadcasters -> {<<>>} \cup ((Keys \cup {NoKey}) \X Payloads)]
  /\ made \in Payloads
  /\ ch \in [Clients -> Seq(Keys \cup {NoKey})] /\ \A c \in Clients : Len(ch[c]) <= Cap
  /\ pending \in [Clients -> [Keys -> Payloads]]
  /\ signaled \in [Clients -> SUBSET Keys]
  /\ conn \in [Clients -> Labels]
  /\ token \in [Clients -> (Keys \cup {NoKey}) \X Payloads]
  /\ sent \in [Clients -> [Keys -> Payloads]] /\ got \in [Clients -> [Keys -> Payloads]]

Tokens(c, k) ==
  {i \in DOMAIN ch[c] : ch[c][i] = k}
    \cup (IF conn[c] = "resolve" /\ token[c][1] = k THEN {0} ELSE {})

\* "At most one token per key is ever queued" (server.go:524-525), exactly while
\* the key is signaled, and a token always finds its payload.
OneTokenPerKey ==
  \A c \in Clients, k \in Keys :
    /\ Cardinality(Tokens(c, k)) = IF k \in signaled[c] THEN 1 ELSE 0
    /\ k \in signaled[c] => pending[c][k] # 0

Serving(c) == conn[c] \in {"greet", "select", "resolve", "resolved", "flush", "write"}

\* A payload without a token is not forgotten: there is something to receive, or
\* the handler has yet to come to its flush.
NoStuckKey ==
  \A c \in Clients :
    Serving(c) /\ Unsignaled(c) # {} =>
      ch[c] # <<>> \/ conn[c] \in {"resolve", "resolved", "flush"}

Newest(c, k) ==
  IF pending[c][k] # 0 THEN pending[c][k]
  ELSE IF conn[c] \in {"resolved", "flush", "write"} /\ token[c][1] = k THEN token[c][2]
  ELSE got[c][k]

\* "A keyed event is delayed by backpressure, never silently lost"
\* (server.go:526-527): the newest payload of a key waits, is being written, or
\* is the last one the browser received.
NewestKept == \A c \in Clients, k \in Keys : Serving(c) => sent[c][k] = Newest(c, k)

\* No broadcast sends on a channel removeClient has closed, which would panic.
NoSendOnClosed == \A b \in Broadcasters : left[b] \cap closed = {}

\* "A keyed event is delayed by backpressure, never silently lost": in a pause of
\* the events the browser of a connection that stays open receives the newest
\* payload of every key, with no later event to push it out.
KeyedDelivered ==
  \A c \in Clients, k \in Keys :
    Serving(c) /\ got[c][k] # sent[c][k] ~> ~Serving(c) \/ got[c][k] = sent[c][k]
=============================================================================
