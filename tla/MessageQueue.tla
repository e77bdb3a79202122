----------------------------- MODULE MessageQueue -----------------------------
(***************************************************************************)
(* The linked list that holds the messages of an isolate                   *)
(* (runtime/vm/message.cc).  Its owner calls it with the monitor_ of the   *)
(* message handler held, so each call is one step.  A message is a cell    *)
(* with a next_ pointer; after delivery it is deleted, and its cell may    *)
(* hold a new message later.                                               *)
(***************************************************************************)
EXTENDS LinkedLists, FiniteSets

CONSTANTS
    Events,     \* messages to a port of the isolate
    Controls,   \* messages with dest_port kIllegalPort, for the isolate itself
    NULL

ASSUME MessagesAssumption ==
    /\ IsFiniteSet(Events \cup Controls)
    /\ Events \cap Controls = {} /\ NULL \notin Events \cup Controls

Messages == Events \cup Controls

VARIABLES head_, tail_, next_

vars == <<head_, tail_, next_>>

Init == head_ = NULL /\ tail_ = NULL /\ next_ = [m \in Messages |-> NULL]

-----------------------------------------------------------------------------
(* The messages Iterator yields.                                           *)
Contents == Chain(Messages, NULL, head_, next_)

Pending == Range(Contents)

EnqueueFirst(m) ==
    /\ head_ = NULL
    /\ head_' = m /\ tail_' = m /\ UNCHANGED next_

AppendAtTail(m) ==
    next_' = [next_ EXCEPT ![tail_] = m] /\ tail_' = m /\ UNCHANGED head_

PrependAtHead(m) ==
    next_' = [next_ EXCEPT ![m] = head_] /\ head_' = m /\ UNCHANGED tail_

SpliceAfter(cur, m) ==
    next_' = [next_ EXCEPT ![m] = next_[cur], ![cur] = m] /\ UNCHANGED <<head_, tail_>>

(* Where the walk over the control messages at the front stops: at the     *)
(* last of them.                                                           *)
LastControlAtFront ==
    LET queue == Contents IN
    queue[CHOOSE n \in DOMAIN queue :
            /\ \A k \in 1 .. n : queue[k] \in Controls
            /\ n < Len(queue) => queue[n + 1] \in Events]

(* Mutant: in front of everything.                                         *)
AlwaysPrepend(m) == PrependAtHead(m)

EnqueueBeforeEvents(m) ==
    IF head_ \in Events THEN PrependAtHead(m)
    ELSE IF next_[LastControlAtFront] # NULL THEN SpliceAfter(LastControlAtFront, m)
    ELSE AppendAtTail(m)

(* A message is new, with next_ NULL, when it is enqueued.                 *)
Enqueue(m, before_events) ==
    /\ m \notin Pending
    /\ \/ EnqueueFirst(m)
       \/ head_ # NULL /\ ~before_events /\ AppendAtTail(m)
       \/ head_ # NULL /\ before_events /\ EnqueueBeforeEvents(m)

TailAfterDequeue(head) == IF head = NULL THEN NULL ELSE tail_

(* Dequeue; the message is handled and deleted.                            *)
Dequeue ==
    /\ head_ # NULL
    /\ head_' = next_[head_]
    /\ tail_' = TailAfterDequeue(next_[head_])
    /\ next_' = [next_ EXCEPT ![head_] = NULL]

(* Clear deletes what is left; no message asks for a delivery failure.     *)
Clear == head_' = NULL /\ tail_' = NULL /\ next_' = [m \in Messages |-> NULL]

-----------------------------------------------------------------------------
Next ==
    \/ \E m \in Messages : Enqueue(m, FALSE)
    \/ \E m \in Controls : Enqueue(m, TRUE)
    \/ Dequeue
    \/ Clear

Spec == Init /\ [][Next]_vars

-----------------------------------------------------------------------------
(* The list is a queue in which control messages posted before_events      *)
(* overtake the pending events and nothing else is reordered, lost or      *)
(* delivered twice.                                                        *)
Abstract == INSTANCE EventQueue WITH queue <- Contents
ImplementsQueue == Abstract!Spec

===============================================================================
