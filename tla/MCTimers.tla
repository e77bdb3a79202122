------------------------------- MODULE MCTimers -------------------------------
(* Timers with its constants given values.                                 *)
EXTENDS Timers

CONSTANTS i1, i2, t1, t2, t3

MCTimersOf(i) == IF i = i1 THEN <<t1, t2>> ELSE <<t3>>

(***************************************************************************)
(* add and remove of _TimerHeap keep the timers in heap order, for every   *)
(* order in which six timers are added and whichever one is then removed.  *)
(* This does not depend on the state; it is evaluated in the initial one.  *)
(***************************************************************************)
HeapKeepsOrderOfSix == Init => HeapKeepsOrder(6)
================================================================================
