------------------------------- MODULE AppRun -------------------------------
(********************************************************************************)
(* app.Run: what the process starts, in order, and takes down again in reverse  *)
(* order, after a start that failed half-way or when it is told to stop.  Serve *)
(* returns as soon as the shutdown of the HTTP server begins, so requests are   *)
(* still running while the rest is taken down, and use the manager meanwhile.   *)
(********************************************************************************)
EXTENDS Naturals, Sequences, FiniteSets

CONSTANTS
  ArMaxRequests,  \* requests in flight at a time
  ArMaxFlips      \* times the OpenCode child goes or comes back

ASSUME ArBounds == ArMaxRequests \in Nat /\ ArMaxFlips \in Nat

VARIABLES
  arHosted,       \* hosted mode: codex only
  arPhase,        \* "starting", "serving", "closing" or "returned"
  arTodo,         \* what is still to be started
  arStack,        \* the cleanup stack
  arUp,           \* what is running
  arCancelled,    \* the context is over
  arRequests,     \* requests in flight
  arWorkers,      \* whether workers of the manager are open
  arFlips

arStartVars == <<arHosted, arPhase, arTodo, arStack>>
arRunVars == <<arUp, arCancelled, arRequests, arWorkers, arFlips>>
arVars == <<arStartVars, arRunVars>>

-----------------------------------------------------------------------------
(* The order in which Run starts its parts.                                 *)

ArNative == <<"events", "supervisor", "child">>
ArCatalogs == <<"codexSyncer", "claudeSyncer", "opencodeSyncer", "claudeWatcher">>
ArServing == <<"manager", "server", "stateFile", "listener">>
ArStages(hosted) ==
  IF hosted THEN <<"codexSyncer">> \o ArServing ELSE ArNative \o ArCatalogs \o ArServing

\* What is left out without its runtime, or if it cannot start.
ArOptional == {"child", "codexSyncer", "claudeSyncer", "opencodeSyncer", "claudeWatcher"}

\* Whose calls end up in a part: it has to outlive them.
ArUses ==
  [part \in {"supervisor", "child", "opencodeSyncer", "server", "listener"} |->
     CASE part = "supervisor" -> {"events"}
       [] part \in {"child", "opencodeSyncer"} -> {"supervisor"}
       [] part = "server" -> {"manager"}
       [] part = "listener" -> {"server"}]

ArInit ==
  /\ arHosted \in BOOLEAN
  /\ arPhase = "starting" /\ arTodo = ArStages(arHosted) /\ arStack = <<>>
  /\ arUp = {} /\ arCancelled = FALSE /\ arRequests = 0 /\ arWorkers = FALSE /\ arFlips = 0

-----------------------------------------------------------------------------
(* Starting.  The supervisor's cleanup is on the stack before the child runs.  *)

ArStart ==
  /\ arPhase = "starting" /\ arTodo # <<>>
  /\ arTodo' = Tail(arTodo) /\ arUp' = arUp \cup {Head(arTodo)}
  /\ arStack' = IF Head(arTodo) = "child" THEN arStack ELSE Append(arStack, Head(arTodo))
  /\ UNCHANGED <<arHosted, arPhase, arCancelled, arRequests, arWorkers, arFlips>>

ArSkip ==
  /\ arPhase = "starting" /\ arTodo # <<>> /\ Head(arTodo) \in ArOptional
  /\ arTodo' = Tail(arTodo)
  /\ UNCHANGED <<arHosted, arPhase, arStack, arRunVars>>

\* Run returns with an error, here or between two parts.
ArStartFails ==
  /\ arPhase = "starting"
  /\ arPhase' = "closing"
  /\ UNCHANGED <<arHosted, arTodo, arStack, arRunVars>>

ArServe ==
  /\ arPhase = "starting" /\ arTodo = <<>>
  /\ arPhase' = "serving"
  /\ UNCHANGED <<arHosted, arTodo, arStack, arRunVars>>

-----------------------------------------------------------------------------
(* Running.                                                                 *)

ArCancel ==
  /\ ~arCancelled /\ arCancelled' = TRUE
  /\ UNCHANGED <<arStartVars, arUp, arRequests, arWorkers, arFlips>>

ArRequest ==
  /\ arPhase = "serving" /\ "listener" \in arUp /\ arRequests < ArMaxRequests
  /\ arRequests' = arRequests + 1
  /\ UNCHANGED <<arStartVars, arUp, arCancelled, arWorkers, arFlips>>

\* A request starts a worker; the manager that is closed refuses.
ArRequestSends ==
  /\ arRequests > 0 /\ arPhase # "returned"
  /\ arWorkers' = ("manager" \in arUp)
  /\ UNCHANGED <<arStartVars, arUp, arCancelled, arRequests, arFlips>>

ArRequestEnds ==
  /\ arRequests > 0 /\ arRequests' = arRequests - 1
  /\ UNCHANGED <<arStartVars, arUp, arCancelled, arWorkers, arFlips>>

\* The child ends, or the supervisor has another one running.
ArChildFlips ==
  /\ "supervisor" \in arUp /\ arFlips < ArMaxFlips
  /\ "child" \notin {arTodo[i] : i \in DOMAIN arTodo}
  /\ arFlips' = arFlips + 1
  /\ arUp' = IF "child" \in arUp THEN arUp \ {"child"} ELSE arUp \cup {"child"}
  /\ UNCHANGED <<arStartVars, arCancelled, arRequests, arWorkers>>

-----------------------------------------------------------------------------
(* Stopping.                                                                *)

\* serveUntilCanceled: the listener is closed first; or Serve fails.
ArServeEnds ==
  /\ arPhase = "serving" /\ arPhase' = "closing"
  /\ IF arCancelled THEN arUp' = arUp \ {"listener"} ELSE UNCHANGED arUp
  /\ UNCHANGED <<arHosted, arTodo, arStack, arCancelled, arRequests, arWorkers, arFlips>>

\* What goes with a part.
ArTakenDown(part) == IF part = "supervisor" THEN {part, "child"} ELSE {part}

\* The cleanup that is run next.
ArNextDown == arStack[Len(arStack)]
ArStackLeft == SubSeq(arStack, 1, Len(arStack) - 1)

ArCloseNext ==
  /\ arPhase = "closing" /\ arStack # <<>>
  /\ arStack' = ArStackLeft
  /\ arUp' = arUp \ ArTakenDown(ArNextDown)
  /\ arWorkers' = (arWorkers /\ ArNextDown # "manager")
  /\ UNCHANGED <<arHosted, arPhase, arTodo, arCancelled, arRequests, arFlips>>

\* The process ends and cuts off the requests that are left.
ArReturn ==
  /\ arPhase = "closing" /\ arStack = <<>>
  /\ arPhase' = "returned" /\ arRequests' = 0
  /\ UNCHANGED <<arHosted, arTodo, arStack, arUp, arCancelled, arWorkers, arFlips>>

ArNext ==
  \/ ArStart \/ ArSkip \/ ArStartFails \/ ArServe
  \/ ArCancel \/ ArRequest \/ ArRequestSends \/ ArRequestEnds \/ ArChildFlips
  \/ ArServeEnds \/ ArCloseNext \/ ArReturn

ArSpec == ArInit /\ [][ArNext]_arVars

-----------------------------------------------------------------------------
(* Properties.                                                              *)

ArTypeOK ==
  /\ arPhase \in {"starting", "serving", "closing", "returned"}
  /\ arRequests \in 0..ArMaxRequests /\ arFlips \in 0..ArMaxFlips
  /\ Len(arStack) <= Len(ArStages(arHosted))

\* Wherever the start fails and whenever the child goes or comes, nothing is taken
\* down while what calls into it runs.
ArUsersFirst == \A part \in arUp \cap DOMAIN ArUses : ArUses[part] \subseteq arUp

\* When Run has returned nothing it started is left, not even what a request that
\* outlived the HTTP server started meanwhile.
ArTornDown == arPhase = "returned" => arUp = {} /\ ~arWorkers
=============================================================================
