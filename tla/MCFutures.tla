------------------------------- MODULE MCFutures -------------------------------
(* Two completers and two listeners' futures.                              *)
EXTENDS Futures

Queue == INSTANCE MicrotaskQueue WITH queue <- Pending(micro), priority <- PriorityCount(micro)

(* The linked list with its two tails is a queue: microtasks are called in *)
(* the order of their scheduling, those that report errors before others.  *)
ImplementsMicrotaskQueue == Queue!Spec
================================================================================
