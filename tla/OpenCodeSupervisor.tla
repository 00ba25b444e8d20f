------------------------- MODULE OpenCodeSupervisor -------------------------
(******************************************************************************)
(* The supervisor of the one OpenCode server (opencode/supervisor.go): run    *)
(* launches a child, waits until it ends, and launches the next, while Start  *)
(* waits for the first, Close ends it all, and workers subscribe to whether   *)
(* the server is available.                                                   *)
(*                                                                            *)
(* Children are numbered; a child's exit, its event stream's end, a timer or  *)
(* an HTTP answer comes whenever it likes.  The context is cancelled by Close *)
(* alone, in the step that sets closed, so closed stands for it too.  An      *)
(* availability is the number of its publication.                             *)
(******************************************************************************)
EXTENDS Naturals, Sequences

CONSTANTS OsSubscribers, \* workers that subscribe to availability
          OsMaxAttempts, \* MaxRestartAttempts
          OsChanCap,     \* capacity of a subscription's channel
          OsMaxLaunches  \* bound: children started

ASSUME OsConstants ==
  OsMaxAttempts \in Nat \ {0} /\ OsChanCap \in Nat \ {0} /\ OsMaxLaunches \in Nat

VARIABLES
  osStarted, osClosed,   \* s.started, s.closed
  osProcess,             \* s.process: the number of a child, 0 for nil
  osClient,              \* s.client is set
  osAvailable,           \* s.availability: the last publication
  osUp,                  \* whether the last publication says Available
  osLaunched, osAlive,   \* children started; the last one lives
  osStream,              \* its event stream: "off", "open" or "ended"
  osRun,                 \* where run is
  osFailures, osStable,  \* run: failures; stable
  osInitial,             \* what was sent to the channel initial, in order
  osStart,               \* where the call of Start is
  osClose, osCaptured,   \* where Close is; the process it has read
  osSub,                 \* where a subscription is
  osChan, osFirst,       \* its channel; the value read before the lock is released
  osSeen                 \* what it has taken last

osServerVars == <<osProcess, osClient, osLaunched, osAlive, osStream>>
osLoopVars == <<osRun, osFailures, osStable>>
osCallVars == <<osStarted, osClosed, osStart, osClose, osCaptured>>
osSubVars == <<osSub, osChan, osFirst, osSeen>>
osNewsVars == <<osAvailable, osUp>>
osVars == <<osServerVars, osLoopVars, osCallVars, osInitial, osNewsVars, osSubVars>>

OsInit ==
  /\ osStarted = FALSE /\ osClosed = FALSE /\ osProcess = 0 /\ osClient = FALSE
  /\ osAvailable = 0 /\ osUp = FALSE
  /\ osLaunched = 0 /\ osAlive = FALSE /\ osStream = "off"
  /\ osRun = "off" /\ osFailures = 0 /\ osStable = FALSE
  /\ osInitial = <<>> /\ osStart = "idle" /\ osClose = "idle" /\ osCaptured = 0
  /\ osSub = [s \in OsSubscribers |-> "none"] /\ osChan = [s \in OsSubscribers |-> <<>>]
  /\ osFirst = [s \in OsSubscribers |-> 0] /\ osSeen = [s \in OsSubscribers |-> 0]

\* killOpenCodeCommand ends a child that still lives; its stream breaks off.
OsKill(child) ==
  /\ osAlive' = (osAlive /\ child # osLaunched)
  /\ osStream' = IF child = osLaunched /\ osStream = "open" THEN "ended" ELSE osStream

OsRunAt(from, to) == osRun = from /\ osRun' = to

-----------------------------------------------------------------------------
(* The child and its stream.                                                *)

OsChildExits ==
  /\ osAlive
  /\ osAlive' = FALSE
  /\ osStream' = IF osStream = "open" THEN "ended" ELSE osStream
  /\ UNCHANGED <<osProcess, osClient, osLaunched, osLoopVars, osCallVars, osInitial, osNewsVars,
                 osSubVars>>

\* The stream ends by itself, or because the context it runs in is cancelled.
OsStreamEnds ==
  /\ osStream = "open"
  /\ osStream' = "ended"
  /\ UNCHANGED <<osProcess, osClient, osLaunched, osAlive, osLoopVars, osCallVars, osInitial,
                 osNewsVars, osSubVars>>

-----------------------------------------------------------------------------
(* Start.                                                                   *)

OsStart ==
  /\ osStart = "idle" /\ ~osClosed /\ ~osStarted
  /\ osStarted' = TRUE /\ osStart' = "waiting" /\ osRun' = "top"
  /\ UNCHANGED <<osServerVars, osFailures, osStable, osClosed, osClose, osCaptured, osInitial,
                 osNewsVars, osSubVars>>

\* What run sends first is the answer; a caller that gives up closes everything.
OsStarted ==
  /\ osStart = "waiting"
  /\ osStart' = IF osInitial # <<>> THEN Head(osInitial) ELSE "givenUp"
  /\ UNCHANGED <<osServerVars, osLoopVars, osStarted, osClosed, osClose, osCaptured, osInitial,
                 osNewsVars, osSubVars>>

-----------------------------------------------------------------------------
(* publishAvailability.                                                     *)

\* mutant: nothing is dropped.
OsPublishGrows(queue, news) == Append(queue, news)

\* publishAvailability: a full channel loses its oldest value.
OsPublishTo(queue, news) ==
  IF Len(queue) < OsChanCap THEN Append(queue, news) ELSE Append(Tail(queue), news)

OsPublish(up) ==
  LET news == osAvailable + 1 IN
    /\ osAvailable' = news /\ osUp' = up
    /\ osChan' = [s \in OsSubscribers |->
                    IF osSub[s] \in {"first", "open"} THEN OsPublishTo(osChan[s], news)
                    ELSE osChan[s]]
    /\ UNCHANGED <<osSub, osFirst, osSeen>>

-----------------------------------------------------------------------------
(* run and launch.                                                          *)

OsSendInitial(answer) ==
  osInitial' = IF osInitial = <<>> THEN <<answer>> ELSE osInitial

\* The head of the loop.
OsTop ==
  /\ osRun = "top"
  /\ IF osClosed THEN osRun' = "done" /\ OsSendInitial("error")
     ELSE osRun' = "launch" /\ UNCHANGED osInitial
  /\ UNCHANGED <<osServerVars, osFailures, osStable, osCallVars, osNewsVars, osSubVars>>

\* launch starts the child, or cannot.
OsLaunch ==
  /\ osRun = "launch"
  /\ \/ /\ osLaunched < OsMaxLaunches
        /\ osLaunched' = osLaunched + 1 /\ osAlive' = TRUE /\ osStream' = "off"
        /\ osRun' = "known"
     \/ osRun' = "notLaunched" /\ UNCHANGED <<osLaunched, osAlive, osStream>>
  /\ UNCHANGED <<osProcess, osClient, osFailures, osStable, osCallVars, osInitial, osNewsVars,
                 osSubVars>>

OsKnown ==
  /\ OsRunAt("known", "health")
  /\ osProcess' = osLaunched
  /\ UNCHANGED <<osClient, osLaunched, osAlive, osStream, osFailures, osStable, osCallVars,
                 osInitial, osNewsVars, osSubVars>>

\* mutant: a child that is not ready is left to itself.
OsGiveUpAlone == osRun' = "notLaunched" /\ UNCHANGED <<osAlive, osStream>>

\* Every failure after the start kills the child and waits for its end.
OsGiveUp == osRun' = "notLaunched" /\ OsKill(osLaunched)

\* awaitHealth: healthy, or the child has ended, or the time or the context is over.
OsHealth ==
  /\ osRun = "health"
  /\ \/ osAlive /\ ~osClosed /\ osRun' = "connect" /\ UNCHANGED <<osAlive, osStream>>
     \/ OsGiveUp
  /\ UNCHANGED <<osProcess, osClient, osLaunched, osFailures, osStable, osCallVars, osInitial,
                 osNewsVars, osSubVars>>

\* The event stream is connected before the native state is read.
OsConnect ==
  /\ osRun = "connect"
  /\ \/ osAlive /\ ~osClosed /\ osStream' = "open" /\ osRun' = "reconcile" /\ UNCHANGED osAlive
     \/ OsGiveUp
  /\ UNCHANGED <<osProcess, osClient, osLaunched, osFailures, osStable, osCallVars, osInitial,
                 osNewsVars, osSubVars>>

\* Reconcile, then the check that neither stream nor child has ended meanwhile.
OsReconcile ==
  /\ osRun = "reconcile"
  /\ \/ osRun' = "check" /\ UNCHANGED <<osAlive, osStream>>
     \/ OsGiveUp
  /\ UNCHANGED <<osProcess, osClient, osLaunched, osFailures, osStable, osCallVars, osInitial,
                 osNewsVars, osSubVars>>

OsCheck ==
  /\ osRun = "check"
  /\ IF osAlive /\ osStream = "open" THEN osRun' = "up" /\ UNCHANGED <<osAlive, osStream>>
     ELSE OsGiveUp
  /\ UNCHANGED <<osProcess, osClient, osLaunched, osFailures, osStable, osCallVars, osInitial,
                 osNewsVars, osSubVars>>

\* launch has failed; one failure too many ends run.
OsNotLaunched ==
  /\ osRun = "notLaunched"
  /\ osClient' = FALSE /\ osProcess' = 0
  /\ osFailures' = osFailures + 1
  /\ OsPublish(FALSE)
  /\ IF osFailures' >= OsMaxAttempts THEN osRun' = "done" /\ OsSendInitial("error")
     ELSE osRun' = "launchBackoff" /\ UNCHANGED osInitial
  /\ UNCHANGED <<osLaunched, osAlive, osStream, osStable, osCallVars>>

\* waitContext.
OsBackoff ==
  /\ osRun \in {"launchBackoff", "backoff"}
  /\ \/ osRun' = "top" /\ UNCHANGED osInitial
     \/ /\ osClosed /\ osRun' = "done"
        /\ IF osRun = "launchBackoff" THEN OsSendInitial("error") ELSE UNCHANGED osInitial
  /\ UNCHANGED <<osServerVars, osFailures, osStable, osCallVars, osNewsVars, osSubVars>>

OsReady ==
  /\ OsRunAt("up", "publish")
  /\ osClient' = TRUE
  /\ UNCHANGED <<osProcess, osLaunched, osAlive, osStream, osFailures, osStable, osCallVars,
                 osInitial, osNewsVars, osSubVars>>

OsPublishUp ==
  /\ OsRunAt("publish", "serving")
  /\ OsPublish(TRUE)
  /\ OsSendInitial("ok")
  /\ osStable' = FALSE
  /\ UNCHANGED <<osServerVars, osFailures, osCallVars>>

OsStabilises ==
  /\ osRun = "serving" /\ ~osStable
  /\ osStable' = TRUE /\ osFailures' = 0
  /\ UNCHANGED <<osServerVars, osRun, osCallVars, osInitial, osNewsVars, osSubVars>>

\* waitGeneration: the child's end, the stream's end or the context's, whichever
\* is picked of those that have come.
OsGenerationEnds ==
  /\ osRun = "serving"
  /\ \/ ~osAlive /\ osRun' = "ended" /\ UNCHANGED <<osAlive, osStream>>
     \/ /\ osStream = "ended" /\ osRun' = "ended"
        /\ IF osClosed THEN UNCHANGED <<osAlive, osStream>> ELSE OsKill(osProcess)
     \/ osClosed /\ osRun' = "stopping" /\ OsKill(osProcess)
  /\ UNCHANGED <<osProcess, osClient, osLaunched, osFailures, osStable, osCallVars, osInitial,
                 osNewsVars, osSubVars>>

\* A generation that was not stable counts as a failure.
OsEnded ==
  /\ osRun \in {"ended", "stopping"}
  /\ osClient' = FALSE /\ osProcess' = 0
  /\ IF osClosed
     THEN osRun' = "done" /\ UNCHANGED <<osFailures, osNewsVars, osSubVars>>
     ELSE /\ osFailures' = IF osStable THEN osFailures ELSE osFailures + 1
          /\ OsPublish(FALSE)
          /\ osRun' = IF ~osStable /\ osFailures' >= OsMaxAttempts THEN "done" ELSE "backoff"
  /\ UNCHANGED <<osLaunched, osAlive, osStream, osStable, osCallVars, osInitial>>

-----------------------------------------------------------------------------
(* Close.                                                                   *)

OsCloseBegins ==
  /\ osClose = "idle" /\ ~osClosed
  /\ osClosed' = TRUE /\ osCaptured' = osProcess /\ osClose' = "kill"
  /\ UNCHANGED <<osServerVars, osLoopVars, osStarted, osStart, osInitial, osNewsVars, osSubVars>>

OsCloseKills ==
  /\ osClose = "kill"
  /\ IF osCaptured = 0 THEN UNCHANGED <<osAlive, osStream>> ELSE OsKill(osCaptured)
  /\ osClose' = "wait"
  /\ UNCHANGED <<osProcess, osClient, osLaunched, osLoopVars, osStarted, osClosed, osStart,
                 osCaptured, osInitial, osNewsVars, osSubVars>>

\* Once run has ended, the subscriptions' channels are closed.
OsCloseEnds ==
  /\ osClose = "wait" /\ (osStarted => osRun = "done")
  /\ osClose' = "done" /\ osProcess' = 0 /\ osClient' = FALSE
  /\ osAvailable' = osAvailable + 1 /\ osUp' = FALSE
  /\ osSub' = [s \in OsSubscribers |->
                 CASE osSub[s] = "open" -> "closed" [] osSub[s] = "first" -> "firstClosed"
                   [] OTHER -> osSub[s]]
  /\ UNCHANGED <<osLaunched, osAlive, osStream, osLoopVars, osStarted, osClosed, osStart,
                 osCaptured, osInitial, osChan, osFirst, osSeen>>

-----------------------------------------------------------------------------
(* SubscribeAvailability and the worker that reads the channel.             *)

OsSubscribe(s) ==
  /\ osSub[s] = "none"
  /\ IF osClosed THEN osSub' = [osSub EXCEPT ![s] = "closed"] /\ UNCHANGED osFirst
     ELSE /\ osSub' = [osSub EXCEPT ![s] = "first"]
          /\ osFirst' = [osFirst EXCEPT ![s] = osAvailable]
  /\ UNCHANGED <<osServerVars, osLoopVars, osCallVars, osInitial, osNewsVars, osChan, osSeen>>

\* The first value is sent after the unlock: it waits for room, and finds the
\* channel closed if Close was quicker.
OsSendFirst(s) ==
  /\ \/ /\ osSub[s] = "first" /\ Len(osChan[s]) < OsChanCap
        /\ osChan' = [osChan EXCEPT ![s] = Append(@, osFirst[s])]
        /\ osSub' = [osSub EXCEPT ![s] = "open"]
     \/ /\ osSub[s] = "firstClosed"
        /\ osSub' = [osSub EXCEPT ![s] = "panic"] /\ UNCHANGED osChan
  /\ UNCHANGED <<osServerVars, osLoopVars, osCallVars, osInitial, osNewsVars, osFirst, osSeen>>

OsTake(s) ==
  /\ osSub[s] \in {"open", "closed"} /\ osChan[s] # <<>>
  /\ osSeen' = [osSeen EXCEPT ![s] = Head(osChan[s])]
  /\ osChan' = [osChan EXCEPT ![s] = Tail(@)]
  /\ UNCHANGED <<osServerVars, osLoopVars, osCallVars, osInitial, osNewsVars, osSub, osFirst>>

OsUnsubscribe(s) ==
  /\ osSub[s] = "open"
  /\ osSub' = [osSub EXCEPT ![s] = "gone"]
  /\ UNCHANGED <<osServerVars, osLoopVars, osCallVars, osInitial, osNewsVars, osChan, osFirst, osSeen>>

OsNext ==
  \/ OsChildExits \/ OsStreamEnds \/ OsStart \/ OsStarted
  \/ OsTop \/ OsLaunch \/ OsKnown \/ OsHealth \/ OsConnect \/ OsReconcile \/ OsCheck
  \/ OsNotLaunched \/ OsBackoff \/ OsReady \/ OsPublishUp \/ OsStabilises \/ OsGenerationEnds
  \/ OsEnded \/ OsCloseBegins \/ OsCloseKills \/ OsCloseEnds
  \/ \E s \in OsSubscribers : OsSubscribe(s) \/ OsSendFirst(s) \/ OsTake(s) \/ OsUnsubscribe(s)

OsSpec == OsInit /\ [][OsNext]_osVars

-----------------------------------------------------------------------------
(* Properties.                                                              *)

OsTypeOK ==
  /\ osProcess \in 0..osLaunched /\ osLaunched <= OsMaxLaunches
  /\ osFailures \in 0..OsMaxAttempts
  /\ \A s \in OsSubscribers : Len(osChan[s]) <= OsChanCap

\* When Close has returned, and between two children, none lives: no path out of
\* launch or of a generation leaves a server behind.
OsNoOrphan ==
  /\ osClose = "done" => ~osAlive
  /\ osRun \in {"top", "launch", "launchBackoff", "backoff"} => ~osAlive

\* Start always gets its answer, and only one is sent to a channel for one.
OsStartAnswered == osRun = "done" => Len(osInitial) = 1

\* A subscriber whose first value was not overtaken, and that has taken all it
\* was sent, knows the last publication.
OsSubscriberCaughtUp ==
  \A s \in OsSubscribers :
    osSub[s] = "open" /\ osChan[s] = <<>> /\ osSeen[s] # osFirst[s] => osSeen[s] = osAvailable
=============================================================================
