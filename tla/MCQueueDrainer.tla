--------------------------- MODULE MCQueueDrainer ---------------------------
(* Instances of QueueDrainer for TLC. *)
EXTENDS QueueDrainer
=============================================================================
