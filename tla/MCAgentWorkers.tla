--------------------------- MODULE MCAgentWorkers ---------------------------
(* Instances of AgentWorkers for TLC; calls that may choose any method are      *)
(* interchangeable.                                                          *)
EXTENDS AgentWorkers, TLC

Symmetry == Permutations(CxCalls)
=============================================================================
