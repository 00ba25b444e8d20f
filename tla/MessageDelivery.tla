--------------------------- MODULE MessageDelivery ---------------------------
(***************************************************************************)
(* What the chat queue promises of each queued message, whoever sends it:  *)
(* it is queued once, claimed by one sender, and reaches the agent at most *)
(* once.  A claimed message may be lost; it is never queued again.         *)
(***************************************************************************)
EXTENDS Naturals

CONSTANT Messages

VARIABLES fate,       \* where a message is
          deliveries  \* how often the agent received it

vars == <<fate, deliveries>>

Init ==
  /\ fate = [m \in Messages |-> "absent"]
  /\ deliveries = [m \in Messages |-> 0]

Move(m, from, to) == fate[m] = from /\ fate' = [fate EXCEPT ![m] = to]

Enqueue(m) == Move(m, "absent", "queued") /\ UNCHANGED deliveries

Claim(m) == Move(m, "queued", "claimed") /\ UNCHANGED deliveries

Deliver(m) ==
  /\ Move(m, "claimed", "delivered")
  /\ deliveries' = [deliveries EXCEPT ![m] = @ + 1]

\* A crash loses every claimed message it interrupts.
Lose ==
  \E lost \in SUBSET {m \in Messages : fate[m] = "claimed"} :
    fate' = [m \in Messages |-> IF m \in lost THEN "lost" ELSE fate[m]]
    /\ UNCHANGED deliveries

Next == Lose \/ \E m \in Messages : Enqueue(m) \/ Claim(m) \/ Deliver(m)

Spec == Init /\ [][Next]_vars

TypeOK ==
  /\ fate \in [Messages -> {"absent", "queued", "claimed", "delivered", "lost"}]
  /\ deliveries \in [Messages -> Nat]

\* A message reaches the agent at most once.
AtMostOnce == \A m \in Messages : deliveries[m] <= 1
=============================================================================
