---------------------------- MODULE AgentWorkers ----------------------------
(****************************************************************************)
(* One session's worker, whichever runtime its record names                 *)
(* (runtimes/registry.go): Pi, Codex over its client, Claude or OpenCode.   *)
(* The server knows a worker by its interface only, so what it relies on is *)
(* stated here for all runtimes at once: calls return, a turn that is over  *)
(* leaves the worker ready for the next prompt, the newest content is what  *)
(* is shown, and nothing goes back.                                         *)
(****************************************************************************)
EXTENDS PiWorker, CodexClient, CodexWorker, ClaudeWorker, OpenCodeWorker

VARIABLE runtime   \* the runtime of the session; it never changes

workerVars == <<piVars, ccVars, cxVars, clVars, ocVars, runtime>>

Runtimes == {"pi", "codex client", "codex", "claude", "opencode"}

Init ==
  /\ runtime \in Runtimes
  /\ PiInit /\ CcInit /\ CxInit /\ ClInit /\ OcInit

Next ==
  /\ UNCHANGED runtime
  /\ \/ runtime = "pi" /\ PiNext /\ UNCHANGED <<ccVars, cxVars, clVars, ocVars>>
     \/ runtime = "codex client" /\ CcNext /\ UNCHANGED <<piVars, cxVars, clVars, ocVars>>
     \/ runtime = "codex" /\ CxNext /\ UNCHANGED <<piVars, ccVars, clVars, ocVars>>
     \/ runtime = "claude" /\ ClNext /\ UNCHANGED <<piVars, ccVars, cxVars, ocVars>>
     \/ runtime = "opencode" /\ OcNext /\ UNCHANGED <<piVars, ccVars, cxVars, clVars>>

Spec == Init /\ [][Next]_workerVars

-----------------------------------------------------------------------------
\* The variables of the session's runtime keep their types, its queues their capacity.
WorkersTypeOK ==
  CASE runtime = "pi" -> PiTypeOK
    [] runtime = "codex client" -> CcTypeOK
    [] runtime = "codex" -> CxTypeOK
    [] runtime = "claude" -> ClTypeOK
    [] runtime = "opencode" -> OcTypeOK

\* A call is answered once, by the reader, by the failure of the worker or not at
\* all because its caller gave up; none waits for a worker that has ended.
CallsAnswered == PiCallsAnswered /\ CcCallsAnswered /\ ClCallsAnswered

\* When a turn is over and everything said about it has been handled, the worker
\* does not claim to run: the manager would refuse every later prompt and the
\* queue would not drain.
TurnsSettle == PiSettles /\ CxSettles /\ ClSettles /\ OcSettles

\* Previews, notifications, status and projection are up to date once nothing is
\* on its way: no throttle, wake-up, overwritten channel or refresh loses the last.
ShownIsNewest == PiPreviewComplete /\ CcNotesDispatched /\ CxLatestTold /\ OcShowsAll

\* A worker that has failed stays failed whatever its turn, its callers and its
\* timers still do; the projection never returns to an older revision.
NeverBack == [][ClFatalIsFinal /\ OcErrorIsFinal /\ CxProjectionForward]_workerVars
=============================================================================
