------------------------------ MODULE MCSseHub ------------------------------
(* Instances of SseHub for TLC. *)
EXTENDS SseHub
=============================================================================
