---------------------------- MODULE SseHubProofs ----------------------------
(****************************************************************************)
(* What holds of SseHub for every number of connections, broadcasters, keys *)
(* and events and every capacity, proved.  HubInv says who is on the list   *)
(* and who may still be visited, TokenInv where the one token of a signaled *)
(* key is, and with them the properties are inductive.                      *)
(****************************************************************************)
EXTENDS SseHub, FiniteSetTheorems, TLAPS

\* A broadcast visits members only, and a connection is a member from its
\* AddClient to its RemoveClient.
HubInv ==
  /\ \A b \in Broadcasters :
       /\ left[b] \subseteq members
       /\ event[b] = <<>> => left[b] = {}
       /\ event[b] # <<>> /\ event[b][1] \in Keys => event[b][2] # 0
  /\ \A c \in Clients :
       /\ c \in members <=> Serving(c) \/ conn[c] = "leave"
       /\ c \in closed <=> conn[c] = "gone"

\* A key's token is in the mailbox at most once, or in the handler's hands.
InBox(c, k) == \E i \in 1..Len(ch[c]) : ch[c][i] = k
InHand(c, k) == conn[c] = "resolve" /\ token[c][1] = k

TokenAt(c, k) ==
  /\ k \in signaled[c] <=> InBox(c, k) \/ InHand(c, k)
  /\ ~(InBox(c, k) /\ InHand(c, k))
  /\ \A i, j \in 1..Len(ch[c]) : ch[c][i] = k /\ ch[c][j] = k => i = j
  /\ k \in signaled[c] => pending[c][k] # 0

TokenInv == \A c \in Clients, k \in Keys : TokenAt(c, k)

\* Nothing was sent to a connection that is not open yet.
FreshAt(c, k) ==
  conn[c] = "new" => pending[c][k] = 0 /\ sent[c][k] = 0 /\ got[c][k] = 0

FreshInv == \A c \in Clients, k \in Keys : FreshAt(c, k)

KeptAt(c, k) == Serving(c) => sent[c][k] = Newest(c, k)

IInv == TypeOK /\ HubInv /\ TokenInv /\ FreshInv /\ NewestKept /\ NoStuckKey

-----------------------------------------------------------------------------
\* What Append and Tail do to the entries of a mailbox.
LEMMA AppendFacts ==
  ASSUME NEW S, NEW s \in Seq(S), NEW x \in S
  PROVE  /\ Append(s, x) \in Seq(S) /\ Append(s, x) # <<>>
         /\ Len(s) \in Nat /\ Len(Append(s, x)) = Len(s) + 1
         /\ \A i \in 1..Len(s) : Append(s, x)[i] = s[i]
         /\ Append(s, x)[Len(s) + 1] = x
  OBVIOUS

LEMMA TailFacts ==
  ASSUME NEW S, NEW s \in Seq(S), s # <<>>
  PROVE  /\ Tail(s) \in Seq(S) /\ Head(s) = s[1] /\ Head(s) \in S
         /\ Len(s) \in Nat \ {0} /\ Len(Tail(s)) = Len(s) - 1
         /\ \A i \in 1..(Len(s) - 1) : Tail(s)[i] = s[i + 1]
  OBVIOUS

\* What the steps that touch a mailbox do to one key of one client.
BoxType ==
  /\ ch \in [Clients -> Seq(Keys \cup {NoKey})]
  /\ pending \in [Clients -> [Keys -> Payloads]]
  /\ signaled \in [Clients -> SUBSET Keys]
  /\ conn \in [Clients -> Labels]
  /\ token \in [Clients -> (Keys \cup {NoKey}) \X Payloads]
  /\ sent \in [Clients -> [Keys -> Payloads]]
  /\ got \in [Clients -> [Keys -> Payloads]]

LEMMA Boxes == TypeOK => BoxType
  BY DEF TypeOK, BoxType

LEMMA SendKeyedEffect ==
  ASSUME TypeOK, NEW b \in Broadcasters, NEW c \in Clients, SendKeyed(b, c),
         NEW k, NEW n, event[b][1] = k, event[b][2] = n,
         NEW d \in Clients, NEW q \in Keys
  PROVE  /\ pending'[d][q] = IF d = c /\ q = k THEN n ELSE pending[d][q]
         /\ sent'[d][q] = IF d = c /\ q = k THEN n ELSE sent[d][q]
         /\ d = c /\ k \notin signaled[c] /\ Room(c) =>
              ch'[d] = Append(ch[d], k) /\ (q \in signaled'[d] <=> q \in signaled[d] \/ q = k)
         /\ ~(d = c /\ k \notin signaled[c] /\ Room(c)) =>
              ch'[d] = ch[d] /\ (q \in signaled'[d] <=> q \in signaled[d])
<1>1. BoxType
  BY Boxes
<1>2. /\ pending' = [pending EXCEPT ![c] = [pending[c] EXCEPT ![k] = n]]
      /\ sent' = [sent EXCEPT ![c] = [sent[c] EXCEPT ![k] = n]]
  BY DEF SendKeyed
<1>3. /\ ch' = [ch EXCEPT ![c] = IF k \notin signaled[c] /\ Room(c)
                               THEN Append(ch[c], k) ELSE ch[c]]
      /\ signaled' = [signaled EXCEPT ![c] = IF k \notin signaled[c] /\ Room(c)
                                             THEN signaled[c] \cup {k} ELSE signaled[c]]
  BY DEF SendKeyed
<1>4. QED
  BY <1>1, <1>2, <1>3 DEF BoxType

LEMMA ResolveEffect ==
  ASSUME TypeOK, NEW c \in Clients, Resolve(c), NEW d \in Clients, NEW q \in Keys
  PROVE  LET hit == d = c /\ q = token[c][1] /\ pending[c][q] # 0 IN
         /\ conn[c] = "resolve" /\ conn' = [conn EXCEPT ![c] = "resolved"]
         /\ pending'[d][q] = IF hit THEN 0 ELSE pending[d][q]
         /\ q \in signaled'[d] <=> q \in signaled[d] /\ ~hit
         /\ token'[d][1] = token[d][1]
         /\ hit => token'[d][2] = pending[d][q]
         /\ d # c => token'[d] = token[d]
<1> DEFINE k == token[c][1]
<1>1. BoxType
  BY Boxes
<1>2. CASE k \in Keys /\ pending[c][k] # 0
  <2>1. /\ pending' = [pending EXCEPT ![c] = [pending[c] EXCEPT ![k] = 0]]
        /\ signaled' = [signaled EXCEPT ![c] = signaled[c] \ {k}]
        /\ token' = [token EXCEPT ![c] = <<k, pending[c][k]>>]
    BY <1>2 DEF Resolve
  <2>2. QED
    BY <1>1, <1>2, <2>1 DEF Resolve, Goto, BoxType
<1>3. CASE ~(k \in Keys /\ pending[c][k] # 0)
  <2>1. UNCHANGED <<pending, signaled, token>>
    BY <1>3 DEF Resolve
  <2>2. QED
    BY <1>3, <2>1 DEF Resolve, Goto
<1>4. QED
  BY <1>2, <1>3

LEMMA FlushOneEffect ==
  ASSUME TypeOK, NEW c \in Clients, NEW k \in Keys, FlushOne(c, k),
         NEW d \in Clients, NEW q \in Keys
  PROVE  /\ conn[c] = "flush" /\ k \notin signaled[c] /\ pending[c][k] # 0
         /\ q \in signaled'[d] <=> q \in signaled[d] \/ (d = c /\ q = k)
         /\ ch'[d] = IF d = c THEN Append(ch[d], k) ELSE ch[d]
  BY Boxes DEF FlushOne, Unsignaled, BoxType

LEMMA AppendedBox ==
  ASSUME BoxType, NEW d \in Clients, NEW k \in Keys \cup {NoKey}
  PROVE  Append(ch[d], k) # <<>>
<1> DEFINE s == ch[d]
<1>1. s \in Seq(Keys \cup {NoKey})
  BY DEF BoxType
<1> HIDE DEF s
<1>2. Append(s, k) # <<>>
  BY <1>1
<1>3. QED
  BY <1>2 DEF s

\* Every step keeps the type invariant.
LEMMA TypeStep ==
  ASSUME TypeOK, HubInv, Next PROVE TypeOK'
<1>1. ASSUME NEW b \in Broadcasters, NEW k \in Keys \cup {NoKey}, Broadcast(b, k) PROVE TypeOK'
  BY <1>1, EventsAssumption DEF Broadcast, boxVars, connVars, TypeOK, Payloads
<1>2. ASSUME NEW b \in Broadcasters, NEW c \in Clients, SendKeyless(b, c) PROVE TypeOK'
  BY <1>2, CapAssumption DEF SendKeyless, Room, connVars, TypeOK
<1>3. ASSUME NEW b \in Broadcasters, NEW c \in Clients, SendKeyed(b, c) PROVE TypeOK'
  BY <1>3, CapAssumption DEF SendKeyed, Room, connVars, TypeOK, HubInv
<1>4. ASSUME NEW b \in Broadcasters, BroadcastReturns(b) PROVE TypeOK'
  BY <1>4 DEF BroadcastReturns, boxVars, connVars, TypeOK
<1>5. ASSUME NEW c \in Clients, AddClient(c) PROVE TypeOK'
  BY <1>5 DEF AddClient, Goto, boxVars, TypeOK, Labels
<1>6. ASSUME NEW c \in Clients, Greet(c) PROVE TypeOK'
  BY <1>6 DEF Greet, Goto, hubVars, boxVars, TypeOK, Labels
<1>7. ASSUME NEW c \in Clients, Receive(c) PROVE TypeOK'
  BY <1>7, CapAssumption, EventsAssumption DEF Receive, Goto, hubVars, TypeOK, Payloads, Labels
<1>8. ASSUME NEW c \in Clients, Resolve(c) PROVE TypeOK'
  <2>1. CASE token[c][1] \in Keys /\ pending[c][token[c][1]] # 0
    <3> DEFINE k == token[c][1]
               n == pending[c][k]
    <3>1. n \in Payloads /\ token' = [token EXCEPT ![c] = <<k, n>>]
          /\ pending' = [pending EXCEPT ![c] = [pending[c] EXCEPT ![k] = 0]]
          /\ signaled' = [signaled EXCEPT ![c] = signaled[c] \ {k}]
      BY <1>8, <2>1, Boxes DEF Resolve, BoxType
    <3>2. k \in Keys /\ 0 \in Payloads
      BY <2>1, EventsAssumption DEF Payloads
    <3>3. conn' = [conn EXCEPT ![c] = "resolved"] /\ UNCHANGED <<ch, sent, got>>
      BY <1>8 DEF Resolve, Goto
    <3> HIDE DEF k, n
    <3>4. token' \in [Clients -> (Keys \cup {NoKey}) \X Payloads]
      BY <3>1, <3>2, Boxes DEF BoxType
    <3>5. pending' \in [Clients -> [Keys -> Payloads]]
      BY <3>1, <3>2, Boxes DEF BoxType
    <3>6. signaled' \in [Clients -> SUBSET Keys] /\ conn' \in [Clients -> Labels]
      BY <3>1, <3>3, Boxes DEF BoxType, Labels
    <3>7. BoxType'
      BY <3>3, <3>4, <3>5, <3>6, Boxes DEF BoxType
    <3>8. QED
      BY <1>8, <3>7 DEF Resolve, Goto, TypeOK, BoxType, hubVars
  <2>2. CASE ~(token[c][1] \in Keys /\ pending[c][token[c][1]] # 0)
    <3>1. UNCHANGED <<token, pending, signaled, hubVars, ch, closed, sent, got>>
      BY <1>8, <2>2 DEF Resolve
    <3>2. conn' \in [Clients -> Labels]
      BY <1>8, Boxes DEF Resolve, Goto, BoxType, Labels
    <3>3. QED
      BY <3>1, <3>2 DEF TypeOK, hubVars
  <2>3. QED
    BY <2>1, <2>2
<1>9. ASSUME NEW c \in Clients, FlushPending(c) PROVE TypeOK'
  BY <1>9 DEF FlushPending, Goto, hubVars, boxVars, TypeOK, Labels
<1>10. ASSUME NEW c \in Clients, NEW k \in Keys, FlushOne(c, k) PROVE TypeOK'
  BY <1>10, CapAssumption DEF FlushOne, Room, hubVars, connVars, TypeOK
<1>11. ASSUME NEW c \in Clients, FlushReturns(c) PROVE TypeOK'
  BY <1>11 DEF FlushReturns, Goto, hubVars, boxVars, TypeOK, Labels
<1>12. ASSUME NEW c \in Clients, Write(c) PROVE TypeOK'
  BY <1>12, EventsAssumption
     DEF Write, Goto, Nothing, hubVars, boxVars, TypeOK, Payloads, Labels
<1>13. ASSUME NEW c \in Clients, Disconnect(c) PROVE TypeOK'
  BY <1>13 DEF Disconnect, Goto, hubVars, boxVars, TypeOK, Labels
<1>14. ASSUME NEW c \in Clients, RemoveClient(c) PROVE TypeOK'
  BY <1>14 DEF RemoveClient, Goto, boxVars, TypeOK, Labels
<1>15. ASSUME NEW c \in Clients, CloseChannel(c) PROVE TypeOK'
  BY <1>15 DEF CloseChannel, Goto, hubVars, boxVars, TypeOK, Labels
<1>16. QED
  BY <1>1, <1>2, <1>3, <1>4, <1>5, <1>6, <1>7, <1>8, <1>9, <1>10,
     <1>11, <1>12, <1>13, <1>14, <1>15 DEF Next, Visit, Handle

\* Every step keeps the list and those who may be visited.
LEMMA HubStep ==
  ASSUME TypeOK, HubInv, Next PROVE HubInv'
<1>1. ASSUME NEW b \in Broadcasters, NEW k \in Keys \cup {NoKey}, Broadcast(b, k) PROVE HubInv'
  BY <1>1 DEF Broadcast, connVars, TypeOK, Payloads, HubInv, Serving
<1>2. ASSUME NEW b \in Broadcasters, NEW c \in Clients, SendKeyless(b, c) PROVE HubInv'
  BY <1>2 DEF SendKeyless, connVars, HubInv, Serving
<1>3. ASSUME NEW b \in Broadcasters, NEW c \in Clients, SendKeyed(b, c) PROVE HubInv'
  BY <1>3 DEF SendKeyed, connVars, HubInv, Serving
<1>4. ASSUME NEW b \in Broadcasters, BroadcastReturns(b) PROVE HubInv'
  BY <1>4 DEF BroadcastReturns, connVars, HubInv, Serving
<1>5. ASSUME NEW c \in Clients, AddClient(c) PROVE HubInv'
  BY <1>5 DEF AddClient, Goto, TypeOK, HubInv, Serving
<1>6. ASSUME NEW c \in Clients, Greet(c) PROVE HubInv'
  BY <1>6 DEF Greet, Goto, hubVars, HubInv, Serving
<1>7. ASSUME NEW c \in Clients, Receive(c) PROVE HubInv'
  BY <1>7 DEF Receive, Goto, hubVars, HubInv, Serving
<1>8. ASSUME NEW c \in Clients, Resolve(c) PROVE HubInv'
  BY <1>8 DEF Resolve, Goto, hubVars, HubInv, Serving
<1>9. ASSUME NEW c \in Clients, FlushPending(c) PROVE HubInv'
  BY <1>9 DEF FlushPending, Goto, hubVars, HubInv, Serving
<1>10. ASSUME NEW c \in Clients, NEW k \in Keys, FlushOne(c, k) PROVE HubInv'
  BY <1>10 DEF FlushOne, hubVars, connVars, HubInv, Serving
<1>11. ASSUME NEW c \in Clients, FlushReturns(c) PROVE HubInv'
  BY <1>11 DEF FlushReturns, Goto, hubVars, HubInv, Serving
<1>12. ASSUME NEW c \in Clients, Write(c) PROVE HubInv'
  BY <1>12 DEF Write, Goto, hubVars, HubInv, Serving
<1>13. ASSUME NEW c \in Clients, Disconnect(c) PROVE HubInv'
  BY <1>13 DEF Disconnect, Goto, hubVars, HubInv, Serving
<1>14. ASSUME NEW c \in Clients, RemoveClient(c) PROVE HubInv'
  BY <1>14 DEF RemoveClient, Goto, Exclusive, TypeOK, Active, HubInv, Serving
<1>15. ASSUME NEW c \in Clients, CloseChannel(c) PROVE HubInv'
  BY <1>15 DEF CloseChannel, Goto, hubVars, TypeOK, HubInv, Serving
<1>16. QED
  BY <1>1, <1>2, <1>3, <1>4, <1>5, <1>6, <1>7, <1>8, <1>9, <1>10,
     <1>11, <1>12, <1>13, <1>14, <1>15 DEF Next, Visit, Handle

\* A token that joins the mailbox of client d keeps the tokens of key q: it is
\* another key's, or q had none.
LEMMA PushToken ==
  ASSUME TypeOK, NEW d \in Clients, NEW q \in Keys, TokenAt(d, q),
         NEW k \in Keys \cup {NoKey}, ch'[d] = Append(ch[d], k),
         conn'[d] = conn[d], token'[d] = token[d],
         q # k => (q \in signaled'[d] <=> q \in signaled[d]) /\ pending'[d][q] = pending[d][q],
         q = k => q \notin signaled[d] /\ q \in signaled'[d] /\ pending'[d][q] # 0
  PROVE  TokenAt(d, q)'
<1> DEFINE len == Len(ch[d])
<1>1. /\ len \in Nat /\ Len(ch'[d]) = len + 1 /\ ch'[d][len + 1] = k
      /\ \A i \in 1..len : ch'[d][i] = ch[d][i]
  BY AppendFacts, Boxes DEF BoxType
<1>2. InBox(d, q)' <=> InBox(d, q) \/ q = k
  BY <1>1 DEF InBox
<1>3. InHand(d, q)' <=> InHand(d, q)
  BY DEF InHand
<1>4. ASSUME NEW i \in 1..Len(ch'[d]), NEW j \in 1..Len(ch'[d]), ch'[d][i] = q, ch'[d][j] = q
      PROVE  i = j
  BY <1>1, <1>4 DEF TokenAt, InBox
<1>5. QED
  BY <1>2, <1>3, <1>4 DEF TokenAt

\* Every step keeps the tokens.
LEMMA TokenStep ==
  ASSUME TypeOK, HubInv, TokenInv, Next PROVE TokenInv'
<1>1. ASSUME NEW b \in Broadcasters, NEW k \in Keys \cup {NoKey}, Broadcast(b, k) PROVE TokenInv'
  BY <1>1 DEF Broadcast, boxVars, connVars, TokenInv, TokenAt, InBox, InHand
<1>2. ASSUME NEW b \in Broadcasters, NEW c \in Clients, SendKeyless(b, c) PROVE TokenInv'
  <2> SUFFICES ASSUME NEW d \in Clients, NEW q \in Keys PROVE TokenAt(d, q)'
    BY DEF TokenInv
  <2>1. /\ TokenAt(d, q)
        /\ UNCHANGED <<conn, token, signaled, pending>>
    BY <1>2 DEF SendKeyless, connVars, TokenInv
  <2>2. CASE ch'[d] = ch[d]
    BY <2>1, <2>2 DEF TokenAt, InBox, InHand
  <2>3. CASE ch'[d] = Append(ch[d], NoKey)
    <3>1. q # NoKey
      BY KeyAssumption
    <3>2. QED
      BY <2>1, <2>3, <3>1, PushToken
  <2>4. QED
    BY <1>2, <2>2, <2>3, Boxes DEF SendKeyless, BoxType
<1>3. ASSUME NEW b \in Broadcasters, NEW c \in Clients, SendKeyed(b, c) PROVE TokenInv'
  <2> SUFFICES ASSUME NEW d \in Clients, NEW q \in Keys PROVE TokenAt(d, q)'
    BY DEF TokenInv
  <2>1. PICK k \in Keys, n \in Payloads : event[b][1] = k /\ event[b][2] = n /\ n # 0
    BY <1>3 DEF SendKeyed, HubInv, Active, TypeOK
  <2>2. conn[c] # "flush" /\ conn' = conn /\ token' = token
    BY <1>3 DEF SendKeyed, connVars
  <2>3. TokenAt(d, q) /\ TokenAt(c, k)
    BY DEF TokenInv
  <2>4. CASE d = c /\ k \notin signaled[c] /\ Room(c)
    <3>1. ch'[d] = Append(ch[d], k) /\ (q \in signaled'[d] <=> q \in signaled[d] \/ q = k)
          /\ pending'[d][q] = IF q = k THEN n ELSE pending[d][q]
      BY <1>3, <2>1, <2>4, SendKeyedEffect
    <3>2. QED
      BY <2>1, <2>2, <2>3, <2>4, <3>1, PushToken
  <2>5. CASE ~(d = c /\ k \notin signaled[c] /\ Room(c))
    <3>1. ch'[d] = ch[d] /\ (q \in signaled'[d] <=> q \in signaled[d])
          /\ pending'[d][q] = IF d = c /\ q = k THEN n ELSE pending[d][q]
      BY <1>3, <2>1, <2>5, SendKeyedEffect
    <3>2. QED
      BY <2>1, <2>2, <2>3, <3>1 DEF TokenAt, InBox, InHand
  <2>6. QED
    BY <2>4, <2>5
<1>4. ASSUME NEW b \in Broadcasters, BroadcastReturns(b) PROVE TokenInv'
  BY <1>4 DEF BroadcastReturns, boxVars, connVars, TokenInv, TokenAt, InBox, InHand
<1>5. ASSUME NEW c \in Clients, AddClient(c) PROVE TokenInv'
  BY <1>5 DEF AddClient, Goto, boxVars, TokenInv, TokenAt, InBox, InHand
<1>6. ASSUME NEW c \in Clients, Greet(c) PROVE TokenInv'
  BY <1>6 DEF Greet, Goto, boxVars, TokenInv, TokenAt, InBox, InHand
<1>7. ASSUME NEW c \in Clients, Receive(c) PROVE TokenInv'
  <2> SUFFICES ASSUME NEW d \in Clients, NEW q \in Keys PROVE TokenAt(d, q)'
    BY DEF TokenInv
  <2>1. TokenAt(d, q) /\ BoxType
    BY Boxes DEF TokenInv
  <2>2. /\ ch[c] # <<>> /\ conn[c] = "select" /\ signaled' = signaled /\ pending' = pending
        /\ ch' = [ch EXCEPT ![c] = Tail(ch[c])]
        /\ token' = [token EXCEPT ![c] = <<Head(ch[c]), 0>>]
        /\ conn' = [conn EXCEPT ![c] = "resolve"]
    BY <1>7 DEF Receive, Goto
  <2>3. CASE d # c
    <3>1. ch'[d] = ch[d] /\ token'[d] = token[d] /\ conn'[d] = conn[d]
      BY <2>1, <2>2, <2>3 DEF BoxType
    <3>2. QED
      BY <2>1, <2>2, <3>1 DEF TokenAt, InBox, InHand
  <2>4. CASE d = c
    <3>1. ch'[c] = Tail(ch[c]) /\ token'[c][1] = Head(ch[c]) /\ conn'[c] = "resolve" 
      BY <2>1, <2>2 DEF BoxType
    <3>2. /\ Head(ch[c]) = ch[c][1] /\ Len(ch[c]) \in Nat \ {0} /\ Len(ch'[c]) = Len(ch[c]) - 1
          /\ \A i \in 1..(Len(ch[c]) - 1) : ch'[c][i] = ch[c][i + 1]
      BY <2>1, <2>2, <3>1, TailFacts DEF BoxType
    <3> DEFINE len == Len(ch[c])
               s == ch[c]
               t == ch'[c]
    <3>3. InBox(c, q) <=> InBox(c, q)' \/ InHand(c, q)'
      <4>1. ASSUME NEW i \in 1..len, s[i] = q PROVE InBox(c, q)' \/ InHand(c, q)'
        <5>1. CASE i = 1
          BY <3>1, <3>2, <4>1, <5>1 DEF InHand
        <5>2. CASE i # 1
          <6>1. i - 1 \in 1..Len(t) /\ t[i - 1] = s[(i - 1) + 1] /\ (i - 1) + 1 = i
            BY <3>2, <5>2
          <6>2. QED
            BY <4>1, <6>1 DEF InBox
        <5>3. QED
          BY <5>1, <5>2
      <4>2. ASSUME NEW i \in 1..Len(t), t[i] = q PROVE InBox(c, q)
        <5>1. i + 1 \in 1..len /\ s[i + 1] = q
          BY <3>2, <4>2
        <5>2. QED
          BY <5>1 DEF InBox
      <4>3. InHand(c, q)' => InBox(c, q)
        BY <3>1, <3>2 DEF InHand, InBox
      <4>4. QED
        BY <4>1, <4>2, <4>3 DEF InBox
    <3>4. ~(InBox(c, q)' /\ InHand(c, q)')
      <4>1. ASSUME NEW i \in 1..Len(t), t[i] = q, s[1] = q PROVE FALSE
        <5>1. 1 \in 1..len /\ i + 1 \in 1..len /\ s[i + 1] = q /\ 1 # i + 1
          BY <3>2, <4>1
        <5>2. QED
          BY <2>1, <2>4, <4>1, <5>1 DEF TokenAt
      <4>2. QED
        BY <3>1, <3>2, <4>1 DEF InBox, InHand
    <3>5. ASSUME NEW i \in 1..Len(t), NEW j \in 1..Len(t), t[i] = q, t[j] = q PROVE i = j
      <4>1. i + 1 \in 1..len /\ j + 1 \in 1..len /\ s[i + 1] = q /\ s[j + 1] = q
        BY <3>2, <3>5
      <4>2. i + 1 = j + 1
        BY <2>1, <2>4, <4>1 DEF TokenAt
      <4>3. QED
        BY <4>2
    <3>6. ~InHand(c, q)
      BY <2>2 DEF InHand
    <3>7. (q \in signaled[c] <=> InBox(c, q)) /\ (q \in signaled[c] => pending[c][q] # 0)
      BY <2>1, <2>4, <3>6 DEF TokenAt
    <3>8. signaled'[c] = signaled[c] /\ pending'[c] = pending[c]
      BY <2>2
    <3>9. QED
      BY <2>4, <3>3, <3>4, <3>5, <3>7, <3>8 DEF TokenAt
  <2>5. QED
    BY <2>3, <2>4
<1>8. ASSUME NEW c \in Clients, Resolve(c) PROVE TokenInv'
  <2> SUFFICES ASSUME NEW d \in Clients, NEW q \in Keys PROVE TokenAt(d, q)'
    BY DEF TokenInv
  <2>1. TokenAt(d, q) /\ ch' = ch
    BY <1>8 DEF TokenInv, Resolve
  <2>2. /\ conn[c] = "resolve" /\ conn'[d] = IF d = c THEN "resolved" ELSE conn[d]
        /\ token'[d][1] = token[d][1]
    BY <1>8, ResolveEffect, Boxes DEF BoxType
  <2>3. LET hit == d = c /\ q = token[c][1] /\ pending[c][q] # 0 IN
        /\ pending'[d][q] = IF hit THEN 0 ELSE pending[d][q]
        /\ q \in signaled'[d] <=> q \in signaled[d] /\ ~hit
    BY <1>8, ResolveEffect
  <2>4. QED
    BY <2>1, <2>2, <2>3 DEF TokenAt, InBox, InHand
<1>9. ASSUME NEW c \in Clients, FlushPending(c) PROVE TokenInv'
  BY <1>9 DEF FlushPending, Goto, boxVars, TokenInv, TokenAt, InBox, InHand
<1>10. ASSUME NEW c \in Clients, NEW k \in Keys, FlushOne(c, k) PROVE TokenInv'
  <2> SUFFICES ASSUME NEW d \in Clients, NEW q \in Keys PROVE TokenAt(d, q)'
    BY DEF TokenInv
  <2>1. conn' = conn /\ token' = token /\ pending' = pending
    BY <1>10 DEF FlushOne, connVars
  <2>2. TokenAt(d, q) /\ TokenAt(c, k)
    BY DEF TokenInv
  <2>3. /\ k \notin signaled[c] /\ pending[c][k] # 0
        /\ q \in signaled'[d] <=> q \in signaled[d] \/ (d = c /\ q = k)
        /\ ch'[d] = IF d = c THEN Append(ch[d], k) ELSE ch[d]
    BY <1>10, FlushOneEffect
  <2>4. CASE d = c
    BY <2>1, <2>2, <2>3, <2>4, PushToken
  <2>5. CASE d # c
    BY <2>1, <2>2, <2>3, <2>5 DEF TokenAt, InBox, InHand
  <2>6. QED
    BY <2>4, <2>5
<1>11. ASSUME NEW c \in Clients, FlushReturns(c) PROVE TokenInv'
  BY <1>11 DEF FlushReturns, Goto, boxVars, TokenInv, TokenAt, InBox, InHand
<1>12. ASSUME NEW c \in Clients, Write(c) PROVE TokenInv'
  <2>1. UNCHANGED boxVars /\ conn[c] = "write" /\ conn' = [conn EXCEPT ![c] = "select"]
        /\ token' = [token EXCEPT ![c] = Nothing]
    BY <1>12 DEF Write, Goto
  <2>2. ASSUME NEW d \in Clients, NEW q \in Keys PROVE InHand(d, q)' <=> InHand(d, q)
    BY <2>1, Boxes DEF InHand, BoxType
  <2>3. QED
    BY <2>1, <2>2 DEF TokenInv, TokenAt, InBox, boxVars
<1>13. ASSUME NEW c \in Clients, Disconnect(c) PROVE TokenInv'
  BY <1>13 DEF Disconnect, Goto, boxVars, TokenInv, TokenAt, InBox, InHand
<1>14. ASSUME NEW c \in Clients, RemoveClient(c) PROVE TokenInv'
  BY <1>14 DEF RemoveClient, Goto, boxVars, TokenInv, TokenAt, InBox, InHand
<1>15. ASSUME NEW c \in Clients, CloseChannel(c) PROVE TokenInv'
  BY <1>15 DEF CloseChannel, Goto, boxVars, TokenInv, TokenAt, InBox, InHand
<1>16. QED
  BY <1>1, <1>2, <1>3, <1>4, <1>5, <1>6, <1>7, <1>8, <1>9, <1>10,
     <1>11, <1>12, <1>13, <1>14, <1>15 DEF Next, Visit, Handle

\* Every step keeps the newest payload of every key.
LEMMA KeptStep ==
  ASSUME TypeOK, HubInv, TokenInv, FreshInv, NewestKept, Next PROVE FreshInv' /\ NewestKept'
<1>1. ASSUME NEW b \in Broadcasters, NEW k \in Keys \cup {NoKey}, Broadcast(b, k)
      PROVE FreshInv' /\ NewestKept'
  BY <1>1 DEF Broadcast, boxVars, connVars, FreshInv, NewestKept, FreshAt, Newest, Serving
<1>2. ASSUME NEW b \in Broadcasters, NEW c \in Clients, SendKeyless(b, c)
      PROVE FreshInv' /\ NewestKept'
  BY <1>2 DEF SendKeyless, connVars, FreshInv, NewestKept, FreshAt, Newest, Serving
<1>3. ASSUME NEW b \in Broadcasters, NEW c \in Clients, SendKeyed(b, c)
      PROVE FreshInv' /\ NewestKept'
  <2> SUFFICES ASSUME NEW d \in Clients, NEW q \in Keys PROVE FreshAt(d, q)' /\ KeptAt(d, q)'
    BY DEF FreshInv, NewestKept, KeptAt
  <2>0. FreshAt(d, q) /\ KeptAt(d, q) /\ BoxType
    BY Boxes DEF FreshInv, NewestKept, KeptAt
  <2>1. PICK k \in Keys, n \in Payloads : event[b][1] = k /\ event[b][2] = n /\ n # 0
    BY <1>3 DEF SendKeyed, HubInv, Active, TypeOK
  <2>2. conn[c] # "new" /\ conn' = conn /\ token' = token /\ got' = got
    BY <1>3 DEF SendKeyed, connVars, HubInv, Active, Serving
  <2>3. /\ pending'[d][q] = IF d = c /\ q = k THEN n ELSE pending[d][q]
        /\ sent'[d][q] = IF d = c /\ q = k THEN n ELSE sent[d][q]
    BY <1>3, <2>1, SendKeyedEffect
  <2>4. QED
    BY <2>0, <2>1, <2>2, <2>3 DEF FreshAt, KeptAt, Newest, Serving
<1>4. ASSUME NEW b \in Broadcasters, BroadcastReturns(b) PROVE FreshInv' /\ NewestKept'
  BY <1>4
     DEF BroadcastReturns, boxVars, connVars, FreshInv, NewestKept, FreshAt, Newest, Serving
<1>5. ASSUME NEW c \in Clients, AddClient(c) PROVE FreshInv' /\ NewestKept'
  BY <1>5 DEF AddClient, Goto, boxVars, FreshInv, NewestKept, FreshAt, Newest, Serving
<1>6. ASSUME NEW c \in Clients, Greet(c) PROVE FreshInv' /\ NewestKept'
  BY <1>6 DEF Greet, Goto, boxVars, FreshInv, NewestKept, FreshAt, Newest, Serving
<1>7. ASSUME NEW c \in Clients, Receive(c) PROVE FreshInv' /\ NewestKept'
  BY <1>7 DEF Receive, Goto, FreshInv, NewestKept, FreshAt, Newest, Serving
<1>8. ASSUME NEW c \in Clients, Resolve(c) PROVE FreshInv' /\ NewestKept'
  <2> SUFFICES ASSUME NEW d \in Clients, NEW q \in Keys PROVE FreshAt(d, q)' /\ KeptAt(d, q)'
    BY DEF FreshInv, NewestKept, KeptAt
  <2>0. FreshAt(d, q) /\ KeptAt(d, q) /\ BoxType
    BY Boxes DEF FreshInv, NewestKept, KeptAt
  <2>1. sent' = sent /\ got' = got
    BY <1>8 DEF Resolve
  <2>2. LET hit == d = c /\ q = token[c][1] /\ pending[c][q] # 0 IN
        /\ conn[c] = "resolve" /\ conn'[d] = IF d = c THEN "resolved" ELSE conn[d]
        /\ pending'[d][q] = IF hit THEN 0 ELSE pending[d][q]
        /\ token'[d][1] = token[d][1]
        /\ hit => token'[d][2] = pending[d][q]
        /\ d # c => token'[d] = token[d]
    BY <1>8, <2>0, ResolveEffect DEF BoxType
  <2>3. d = c /\ q = token[c][1] => pending[c][q] # 0
    BY <2>2 DEF TokenInv, TokenAt, InHand
  <2>4. QED
    BY <2>0, <2>1, <2>2, <2>3 DEF FreshAt, KeptAt, Newest, Serving
<1>9. ASSUME NEW c \in Clients, FlushPending(c) PROVE FreshInv' /\ NewestKept'
  BY <1>9 DEF FlushPending, Goto, boxVars, FreshInv, NewestKept, FreshAt, Newest, Serving
<1>10. ASSUME NEW c \in Clients, NEW k \in Keys, FlushOne(c, k) PROVE FreshInv' /\ NewestKept'
  <2>1. UNCHANGED <<pending, conn, token, sent, got>>
    BY <1>10 DEF FlushOne, connVars
  <2>2. QED
    BY <2>1 DEF FreshInv, NewestKept, FreshAt, Newest, Serving
<1>11. ASSUME NEW c \in Clients, FlushReturns(c) PROVE FreshInv' /\ NewestKept'
  BY <1>11 DEF FlushReturns, Goto, boxVars, FreshInv, NewestKept, FreshAt, Newest, Serving
<1>12. ASSUME NEW c \in Clients, Write(c) PROVE FreshInv' /\ NewestKept'
  <2> SUFFICES ASSUME NEW d \in Clients, NEW q \in Keys PROVE FreshAt(d, q)' /\ KeptAt(d, q)'
    BY DEF FreshInv, NewestKept, KeptAt
  <2>0. FreshAt(d, q) /\ KeptAt(d, q) /\ BoxType
    BY Boxes DEF FreshInv, NewestKept, KeptAt
  <2> DEFINE k == token[c][1]
  <2>1. /\ conn[c] = "write" /\ conn'[d] = IF d = c THEN "select" ELSE conn[d]
        /\ sent' = sent /\ pending' = pending
        /\ d # c => token'[d] = token[d]
    BY <1>12, <2>0 DEF Write, Goto, boxVars, BoxType
  <2>2. got'[d][q] = IF d = c /\ q = k THEN token[c][2] ELSE got[d][q]
    <3>1. CASE k \in Keys
      <4>1. got' = [got EXCEPT ![c] = [got[c] EXCEPT ![k] = token[c][2]]]
        BY <1>12, <3>1 DEF Write
      <4>2. QED
        BY <2>0, <3>1, <4>1 DEF BoxType
    <3>2. CASE k \notin Keys
      BY <1>12, <3>2 DEF Write
    <3>3. QED
      BY <3>1, <3>2
  <2>3. QED
    BY <2>0, <2>1, <2>2 DEF FreshAt, KeptAt, Newest, Serving
<1>13. ASSUME NEW c \in Clients, Disconnect(c) PROVE FreshInv' /\ NewestKept'
  BY <1>13 DEF Disconnect, Goto, boxVars, FreshInv, NewestKept, FreshAt, Newest, Serving
<1>14. ASSUME NEW c \in Clients, RemoveClient(c) PROVE FreshInv' /\ NewestKept'
  BY <1>14 DEF RemoveClient, Goto, boxVars, FreshInv, NewestKept, FreshAt, Newest, Serving
<1>15. ASSUME NEW c \in Clients, CloseChannel(c) PROVE FreshInv' /\ NewestKept'
  BY <1>15 DEF CloseChannel, Goto, boxVars, FreshInv, NewestKept, FreshAt, Newest, Serving
<1>16. QED
  BY <1>1, <1>2, <1>3, <1>4, <1>5, <1>6, <1>7, <1>8, <1>9, <1>10,
     <1>11, <1>12, <1>13, <1>14, <1>15 DEF Next, Visit, Handle

\* No step strands a payload.
LEMMA StuckStep ==
  ASSUME TypeOK, HubInv, TokenInv, FreshInv, NoStuckKey, Next PROVE NoStuckKey'
<1>1. ASSUME NEW b \in Broadcasters, NEW k \in Keys \cup {NoKey}, Broadcast(b, k) PROVE NoStuckKey'
  BY <1>1 DEF Broadcast, boxVars, connVars, NoStuckKey, Serving, Unsignaled
<1>2. ASSUME NEW b \in Broadcasters, NEW c \in Clients, SendKeyless(b, c) PROVE NoStuckKey'
  <2>1. conn' = conn /\ pending' = pending /\ signaled' = signaled
    BY <1>2 DEF SendKeyless, connVars
  <2>2. ASSUME NEW d \in Clients, ch[d] # <<>> PROVE ch'[d] # <<>>
    <3>1. Append(ch[d], NoKey) # <<>>
      BY AppendedBox, Boxes
    <3>2. QED
      BY <1>2, <2>2, <3>1, Boxes DEF SendKeyless, BoxType
  <2>3. QED
    BY <2>1, <2>2 DEF NoStuckKey, Serving, Unsignaled
<1>3. ASSUME NEW b \in Broadcasters, NEW c \in Clients, SendKeyed(b, c) PROVE NoStuckKey'
  <2> SUFFICES ASSUME NEW d \in Clients, Serving(d), ch'[d] = <<>>,
                      ~(conn[d] \in {"resolve", "resolved", "flush"}),
                      NEW q \in Keys, pending'[d][q] # 0
               PROVE  q \in signaled'[d]
    BY <1>3 DEF NoStuckKey, Serving, Unsignaled, SendKeyed, connVars
  <2>1. PICK k \in Keys, n \in Payloads : event[b][1] = k /\ event[b][2] = n
    BY <1>3 DEF SendKeyed, Active, TypeOK
  <2>2. Append(ch[d], k) # <<>>
    BY AppendedBox, Boxes
  <2>3. /\ pending'[d][q] = IF d = c /\ q = k THEN n ELSE pending[d][q]
        /\ ~(d = c /\ k \notin signaled[c] /\ Room(c))
        /\ ch[d] = <<>> /\ (q \in signaled'[d] <=> q \in signaled[d])
    BY <1>3, <2>1, <2>2, SendKeyedEffect
  <2>4. d = c => k \in signaled[c]
    BY <2>3, CapAssumption DEF Room
  <2>5. Unsignaled(d) = {}
    BY <2>3 DEF NoStuckKey
  <2>6. QED
    BY <2>3, <2>4, <2>5 DEF Unsignaled
<1>4. ASSUME NEW b \in Broadcasters, BroadcastReturns(b) PROVE NoStuckKey'
  BY <1>4 DEF BroadcastReturns, boxVars, connVars, NoStuckKey, Serving, Unsignaled
<1>5. ASSUME NEW c \in Clients, AddClient(c) PROVE NoStuckKey'
  BY <1>5 DEF AddClient, Goto, boxVars, FreshInv, FreshAt, NoStuckKey, Serving, Unsignaled
<1>6. ASSUME NEW c \in Clients, Greet(c) PROVE NoStuckKey'
  BY <1>6 DEF Greet, Goto, boxVars, NoStuckKey, Serving, Unsignaled
<1>7. ASSUME NEW c \in Clients, Receive(c) PROVE NoStuckKey'
  BY <1>7 DEF Receive, Goto, TypeOK, NoStuckKey, Serving, Unsignaled
<1>8. ASSUME NEW c \in Clients, Resolve(c) PROVE NoStuckKey'
  BY <1>8 DEF Resolve, Goto, TypeOK, NoStuckKey, Serving, Unsignaled
<1>9. ASSUME NEW c \in Clients, FlushPending(c) PROVE NoStuckKey'
  BY <1>9 DEF FlushPending, Goto, boxVars, NoStuckKey, Serving, Unsignaled
<1>10. ASSUME NEW c \in Clients, NEW k \in Keys, FlushOne(c, k) PROVE NoStuckKey'
  BY <1>10 DEF FlushOne, connVars, NoStuckKey, Serving, Unsignaled
<1>11. ASSUME NEW c \in Clients, FlushReturns(c) PROVE NoStuckKey'
  <2> SUFFICES ASSUME NEW d \in Clients, Serving(d)', Unsignaled(d)' # {}, ch'[d] = <<>>,
                      ~(conn'[d] \in {"resolve", "resolved", "flush"})
               PROVE  FALSE
    BY DEF NoStuckKey
  <2>1. /\ UNCHANGED <<ch, pending, signaled>> /\ conn[c] = "flush"
        /\ conn' = [conn EXCEPT ![c] = "write"]
        /\ Unsignaled(c) = {} \/ ~Room(c)
    BY <1>11 DEF FlushReturns, Goto, boxVars
  <2>2. CASE d = c
    BY <2>1, <2>2, CapAssumption DEF Room, Unsignaled
  <2>3. CASE d # c
    <3>1. conn'[d] = conn[d]
      BY <2>1, <2>3, Boxes DEF BoxType
    <3>2. QED
      BY <2>1, <3>1 DEF NoStuckKey, Serving, Unsignaled
  <2>4. QED
    BY <2>2, <2>3
<1>12. ASSUME NEW c \in Clients, Write(c) PROVE NoStuckKey'
  BY <1>12 DEF Write, Goto, boxVars, NoStuckKey, Serving, Unsignaled
<1>13. ASSUME NEW c \in Clients, Disconnect(c) PROVE NoStuckKey'
  BY <1>13 DEF Disconnect, Goto, boxVars, NoStuckKey, Serving, Unsignaled
<1>14. ASSUME NEW c \in Clients, RemoveClient(c) PROVE NoStuckKey'
  BY <1>14 DEF RemoveClient, Goto, boxVars, NoStuckKey, Serving, Unsignaled
<1>15. ASSUME NEW c \in Clients, CloseChannel(c) PROVE NoStuckKey'
  BY <1>15 DEF CloseChannel, Goto, boxVars, NoStuckKey, Serving, Unsignaled
<1>16. QED
  BY <1>1, <1>2, <1>3, <1>4, <1>5, <1>6, <1>7, <1>8, <1>9, <1>10,
     <1>11, <1>12, <1>13, <1>14, <1>15 DEF Next, Visit, Handle
-----------------------------------------------------------------------------
LEMMA InitInv == Init => IInv
<1> SUFFICES ASSUME Init PROVE IInv
  OBVIOUS
<1> USE KeyAssumption, CapAssumption, EventsAssumption DEF Init, Nothing
<1>1. TypeOK
  BY DEF TypeOK, Payloads, Labels
<1>2. HubInv /\ FreshInv
  BY DEF HubInv, FreshInv, FreshAt, Serving
<1>3. TokenInv
  BY DEF TokenInv, TokenAt, InBox, InHand
<1>4. NewestKept /\ NoStuckKey
  BY DEF NewestKept, Newest, NoStuckKey, Serving, Unsignaled
<1>5. QED
  BY <1>1, <1>2, <1>3, <1>4 DEF IInv

LEMMA StutterInv == IInv /\ UNCHANGED vars => IInv'
  BY DEF IInv, vars, hubVars, boxVars, connVars, TypeOK, HubInv, TokenInv, TokenAt, InBox, InHand,
         FreshInv, FreshAt, NewestKept, Newest, NoStuckKey, Serving, Unsignaled

\* The invariant holds in every reachable state.
THEOREM Invariance == Spec => []IInv
<1>1. IInv /\ Next => IInv'
  BY TypeStep, HubStep, TokenStep, KeptStep, StuckStep DEF IInv
<1>2. QED
  BY <1>1, InitInv, StutterInv, PTL DEF Spec

\* Every variable keeps its type and no mailbox exceeds its capacity.
THEOREM TypeCorrect == Spec => []TypeOK
  BY Invariance, PTL DEF IInv

\* The newest payload of a key waits, is being written, or was written last.
THEOREM KeepsNewest == Spec => []NewestKept
  BY Invariance, PTL DEF IInv

\* A payload without a token is never left with nothing to wake the handler.
THEOREM NeverStuck == Spec => []NoStuckKey
  BY Invariance, PTL DEF IInv

\* No broadcast sends on a closed channel.
THEOREM NeverOnClosed == Spec => []NoSendOnClosed
<1>1. IInv => NoSendOnClosed
  BY DEF IInv, TypeOK, HubInv, NoSendOnClosed, Serving
<1>2. QED
  BY <1>1, Invariance, PTL

\* There is exactly one token of a key while it is signaled, and none otherwise.
THEOREM SingleToken == Spec => []OneTokenPerKey
<1>1. ASSUME IInv, NEW c \in Clients, NEW k \in Keys
      PROVE  /\ Cardinality(Tokens(c, k)) = IF k \in signaled[c] THEN 1 ELSE 0
             /\ k \in signaled[c] => pending[c][k] # 0
  <2> DEFINE Box == {i \in 1..Len(ch[c]) : ch[c][i] = k}
  <2>1. TokenAt(c, k) /\ BoxType
    BY <1>1, Boxes DEF IInv, TokenInv
  <2>2. Tokens(c, k) = Box \cup (IF InHand(c, k) THEN {0} ELSE {})
    BY <2>1 DEF BoxType, Tokens, InHand
  <2>3. InBox(c, k) <=> Box # {}
    BY DEF InBox
  <2>4. CASE k \notin signaled[c]
    <3>1. Tokens(c, k) = {}
      BY <2>1, <2>2, <2>3, <2>4 DEF TokenAt
    <3>2. QED
      BY <2>4, <3>1, FS_EmptySet
  <2>5. CASE k \in signaled[c] /\ InHand(c, k)
    <3>1. Tokens(c, k) = {0}
      BY <2>1, <2>2, <2>3, <2>5 DEF TokenAt
    <3>2. QED
      BY <2>1, <2>5, <3>1, FS_Singleton DEF TokenAt
  <2>6. CASE k \in signaled[c] /\ ~InHand(c, k)
    <3>1. PICK i \in 1..Len(ch[c]) : ch[c][i] = k
      BY <2>1, <2>6 DEF TokenAt, InBox
    <3>2. Box = {i}
      BY <2>1, <3>1 DEF TokenAt
    <3>3. Tokens(c, k) = {i}
      BY <2>2, <2>6, <3>2
    <3>4. QED
      BY <2>1, <2>6, <3>3, FS_Singleton DEF TokenAt
  <2>7. QED
    BY <2>4, <2>5, <2>6
<1>2. IInv => OneTokenPerKey
  BY <1>1 DEF OneTokenPerKey
<1>3. QED
  BY <1>2, Invariance, PTL
=============================================================================
