--------------------------- MODULE MCQueueSystem ---------------------------
(***************************************************************************)
(* Model of QueueSystem: four items pass through two queues, so that a     *)
(* remove() meets the only item, the first, the last and one with two      *)
(* neighbours, and an item can move from one queue to the other.           *)
(***************************************************************************)
EXTENDS QueueSystem
=============================================================================
