------------------------------- MODULE TimerHeap -------------------------------
(***************************************************************************)
(* The binary heap of the timers of an isolate (class _TimerHeap of        *)
(* runtime/lib/timer_impl.dart). A heap state h is a record: h.list is the *)
(* used part of _list, h.timer the timer objects. A timer knows its place: *)
(* _indexOrNext is its index (from 0) while it is in the heap.             *)
(***************************************************************************)
EXTENDS Integers, Sequences, SequencesExt

CONSTANTS Null

(* Timers are ordered by wake-up time, then by the order they were added.  *)
Earlier(a, b) ==
    \/ a.wakeupTime < b.wakeupTime
    \/ a.wakeupTime = b.wakeupTime /\ a.id < b.id

Before(timer, a, b) == Earlier(timer[a], timer[b])

IndexOf(h, t) == h.timer[t].indexOrNext
IsFirst(h, t) == IndexOf(h, t) = 0
At(h, index) == h.list[index + 1]
Parent(h, t) == At(h, (IndexOf(h, t) - 1) \div 2)

(* Puts t at an index, in the list and in the timer.                       *)
Place(h, t, index) ==
    [list |-> [h.list EXCEPT ![index + 1] = t],
     timer |-> [h.timer EXCEPT ![t].indexOrNext = index]]

Swap(h, a, b) == Place(Place(h, a, IndexOf(h, b)), b, IndexOf(h, a))

RECURSIVE BubbleUp(_, _)
BubbleUp(h, t) ==
    IF IsFirst(h, t) \/ ~Before(h.timer, t, Parent(h, t))
    THEN h
    ELSE BubbleUp(Swap(h, t, Parent(h, t)), t)

(* Mutant: the right child is never looked at.                             *)
LeftOnly(h, t) ==
    LET left == 2 * IndexOf(h, t) + 1
    IN IF left < Len(h.list) /\ Before(h.timer, At(h, left), t) THEN At(h, left) ELSE t

(* The least of t and its children.                                        *)
Newest(h, t) ==
    LET left == 2 * IndexOf(h, t) + 1
        Children == {At(h, c) : c \in {left, left + 1} \cap (0 .. Len(h.list) - 1)}
    IN CHOOSE u \in Children \cup {t} :
          \A v \in (Children \cup {t}) \ {u} : Before(h.timer, u, v)

RECURSIVE BubbleDown(_, _)
BubbleDown(h, t) ==
    IF Newest(h, t) = t THEN h ELSE BubbleDown(Swap(h, Newest(h, t), t), t)

HeapAdd(h, t) ==
    LET added == [h EXCEPT !.list = Append(@, t),
                           !.timer[t].indexOrNext = Len(h.list)]
    IN BubbleUp(added, t)

Forget(h, t) == [h EXCEPT !.timer[t].indexOrNext = Null]

(* The last timer takes the place of the removed one, and then moves.      *)
HeapRemove(h, t) ==
    LET last == At(h, Len(h.list) - 1)
        shorter == [h EXCEPT !.list = SubSeq(@, 1, Len(@) - 1)]
        moved == Place(shorter, last, IndexOf(h, t))
    IN IF last = t THEN Forget(shorter, t)
       ELSE IF Before(h.timer, last, t) THEN Forget(BubbleUp(moved, last), t)
       ELSE Forget(BubbleDown(moved, last), t)

(* removeFirst, as long as the first timer comes before a limit.          *)
RECURSIVE RemoveBefore(_, _, _)
RemoveBefore(h, removed, limit) ==
    IF h.list = <<>> \/ ~Earlier(h.timer[h.list[1]], limit)
    THEN [heap |-> h, removed |-> removed]
    ELSE RemoveBefore(HeapRemove(h, h.list[1]), Append(removed, h.list[1]), limit)

(***************************************************************************)
(* Every timer of the heap is at the index it believes to be at, and no    *)
(* timer comes before its parent: _heap.first is the next one to expire.   *)
(***************************************************************************)
IsHeap(h) ==
    \A k \in 1 .. Len(h.list) :
        /\ h.timer[h.list[k]].indexOrNext = k - 1
        /\ k > 1 => ~Before(h.timer, h.list[k], h.list[k \div 2])

(* n timers that are added to a heap one after the other; timers p and q   *)
(* with the same rank[p] \div 2 wake up at the same time.                  *)
Filled(n, rank) ==
    LET timer == [t \in 1 .. n |-> [wakeupTime |-> rank[t] \div 2, id |-> t, indexOrNext |-> Null]]
    IN FoldLeft(HeapAdd, [list |-> <<>>, timer |-> timer], [t \in 1 .. n |-> t])

(* Whatever the order in which n timers are added and whichever of them is *)
(* then removed, the heap holds the others and is still a heap.            *)
HeapKeepsOrder(n) ==
    \A rank \in Permutations(1 .. n) :
        LET full == Filled(n, rank)
        IN /\ IsHeap(full) /\ Range(full.list) = 1 .. n /\ Len(full.list) = n
           /\ \A t \in 1 .. n :
                LET left == HeapRemove(full, t)
                IN /\ IsHeap(left) /\ Len(left.list) = n - 1
                   /\ Range(left.list) = (1 .. n) \ {t}
                   /\ left.timer[t].indexOrNext = Null
================================================================================
