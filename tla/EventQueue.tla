------------------------------ MODULE EventQueue ------------------------------
(***************************************************************************)
(* What a message queue promises: first in, first out, except that a       *)
(* control message posted before_events overtakes every pending event but  *)
(* none of the control messages at the front.                              *)
(***************************************************************************)
EXTENDS Integers, Sequences

CONSTANTS
    Events,     \* messages to a port of the isolate
    Controls    \* messages of the isolate library to the isolate itself

VARIABLE queue

Init == queue = << >>

Post(m) == queue' = Append(queue, m)

(* The place of the first event, or the end.                               *)
FirstEvent ==
    CHOOSE i \in 1 .. Len(queue) + 1 :
        /\ i <= Len(queue) => queue[i] \in Events
        /\ \A j \in 1 .. i - 1 : queue[j] \notin Events

PostBeforeEvents(m) ==
    queue' = Append(SubSeq(queue, 1, FirstEvent - 1), m) \o SubSeq(queue, FirstEvent, Len(queue))

Deliver == queue # << >> /\ queue' = Tail(queue)

DropAll == queue' = << >>

Queued == {queue[i] : i \in DOMAIN queue}

Next ==
    \/ \E m \in (Events \cup Controls) \ Queued : Post(m)
    \/ \E m \in Controls \ Queued : PostBeforeEvents(m)
    \/ Deliver
    \/ DropAll

Spec == Init /\ [][Next]_queue

===============================================================================
