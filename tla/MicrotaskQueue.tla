---------------------------- MODULE MicrotaskQueue ----------------------------
(***************************************************************************)
(* What schedule_microtask.dart promises: microtasks are called in the     *)
(* order in which they were scheduled; priority callbacks come before all  *)
(* others, those of one callback in the order of their scheduling.         *)
(***************************************************************************)
EXTENDS Integers, Sequences

VARIABLES
    queue,      \* the microtasks to be called
    priority    \* how many at the front were put there by this callback

Init == queue = << >> /\ priority = 0

(* queue' is queue with a microtask more in place n.                       *)
Inserted(n) ==
    /\ Len(queue') = Len(queue) + 1
    /\ queue = SubSeq(queue', 1, n - 1) \o SubSeq(queue', n + 1, Len(queue'))

Schedule == Inserted(Len(queue) + 1) /\ UNCHANGED priority

SchedulePriority == Inserted(priority + 1) /\ priority' = priority + 1

Call == queue # << >> /\ queue' = Tail(queue) /\ priority' = 0

(* The loop ends: the queue is empty, or a microtask has thrown.           *)
LoopEnds == priority' = 0 /\ UNCHANGED queue

Next == Schedule \/ SchedulePriority \/ Call \/ LoopEnds

Spec == Init /\ [][Next]_<<queue, priority>>
===============================================================================
