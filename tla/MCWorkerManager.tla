-------------------------- MODULE MCWorkerManager --------------------------
(* Instances of WorkerManager for TLC. *)
EXTENDS WorkerManager, TLC

\* Calls and workers are interchangeable; no liveness is checked with it.
Symmetry == Permutations(Calls) \cup Permutations(Procs)

\* A status is read only while the worker is published or about to be, and a
\* Send's context only before Prompt: elsewhere both are forgotten.
Watched(w) ==
  \/ state[w] = "none" \/ w \in Published
  \/ \E c \in Calls : pc[c] = "publish" /\ held[c] = w

Relevant ==
  <<mgrVars, downVars, owner, shut, pc, op, sess, held, targets,
    [w \in Procs |-> IF Watched(w) THEN state[w] ELSE "any"],
    [c \in Calls |-> ctxDone[c] /\ pc[c] \notin {"prompt", "await", "finish"}]>>
=============================================================================
