------------------------------ MODULE Microtasks ------------------------------
(***************************************************************************)
(* The microtasks of an isolate (sdk/lib/async/schedule_microtask.dart,    *)
(* runtime/lib/isolate_patch.dart): a linked list of callbacks with a head *)
(* and two tails.  The list is a record                                    *)
(*   nextCallback, lastCallback, lastPriorityCallback   entries or Null    *)
(*   entry               the callback and the link of each entry           *)
(*   isInCallbackLoop    whether the loop runs                             *)
(*   immediate           _pendingImmediateCallback is the loop             *)
(*   twice               history: it was scheduled when it already was     *)
(* and an operation maps a list to a list.  Entries that are in no list    *)
(* are used again.                                                         *)
(***************************************************************************)
EXTENDS Integers, Sequences, FiniteSets

CONSTANTS
    Null,
    Entries     \* bound: the entries there are at one time, 1 .. n

NoEntry == [callback |-> Null, next |-> Null]

NoMicrotasks ==
    [nextCallback |-> Null, lastCallback |-> Null, lastPriorityCallback |-> Null,
     entry |-> [e \in Entries |-> NoEntry], isInCallbackLoop |-> FALSE,
     immediate |-> FALSE, twice |-> FALSE]

(* _AsyncCallbackEntry: the first entry that is not in the list.           *)
Unused(m) == {e \in Entries : m.entry[e].callback = Null}
NewEntry(m) == CHOOSE e \in Unused(m) : \A f \in Unused(m) : e <= f

(* _isolateScheduleImmediate, which asserts that nothing is pending.       *)
ScheduleImmediate(m) == [m EXCEPT !.immediate = TRUE, !.twice = @ \/ m.immediate]

(* Add entry e, which holds its callback, at the end.                      *)
Enqueue(m, e) ==
    IF m.nextCallback = Null
      THEN LET first == [m EXCEPT !.nextCallback = e, !.lastCallback = e]
           IN  IF m.isInCallbackLoop THEN first ELSE ScheduleImmediate(first)
      ELSE [m EXCEPT !.entry[m.lastCallback].next = e, !.lastCallback = e]

ScheduleAsyncCallback(m, callback) ==
    LET e == NewEntry(m)
    IN  Enqueue([m EXCEPT !.entry[e].callback = callback], e)

(* Mutant: the tail of the list does not follow its last entry.            *)
TailLeft(m, e) == m

(* An entry added after the last priority callback may be the last of all. *)
FollowTail(m, e) == IF m.entry[e].next = Null THEN [m EXCEPT !.lastCallback = e] ELSE m

SchedulePriorityAsyncCallback(m, callback) ==
    LET e == NewEntry(m)
        n == [m EXCEPT !.entry[e].callback = callback]
        p == m.lastPriorityCallback
    IN  CASE m.nextCallback = Null ->
               [Enqueue(n, e) EXCEPT !.lastPriorityCallback = e]
          [] m.nextCallback # Null /\ p = Null ->
               [n EXCEPT !.entry[e].next = m.nextCallback, !.nextCallback = e,
                         !.lastPriorityCallback = e]
          [] m.nextCallback # Null /\ p # Null ->
               FollowTail([n EXCEPT !.entry[e].next = m.entry[p].next, !.entry[p].next = e,
                                    !.lastPriorityCallback = e], e)

(* _runPendingImmediateCallback calls _microtaskLoopEntry.                 *)
EnterLoop(m) == [m EXCEPT !.immediate = FALSE, !.isInCallbackLoop = TRUE]

(* A turn of _microtaskLoop, which then calls FirstCallback(m).            *)
FirstCallback(m) == m.entry[m.nextCallback].callback
TakeFirst(m) ==
    LET e == m.nextCallback
        next == m.entry[e].next
    IN  [m EXCEPT !.lastPriorityCallback = Null, !.nextCallback = next,
                  !.lastCallback = IF next = Null THEN Null ELSE @,
                  !.entry[e] = NoEntry]

(* Mutant: the rest of the list is not scheduled after an exception.       *)
LeaveQuietly(m) == [m EXCEPT !.lastPriorityCallback = Null, !.isInCallbackLoop = FALSE]

(* The finally block of _microtaskLoopEntry.                               *)
LeaveLoop(m) ==
    LET out == [m EXCEPT !.lastPriorityCallback = Null, !.isInCallbackLoop = FALSE]
    IN  IF m.nextCallback # Null THEN ScheduleImmediate(out) ELSE out

-----------------------------------------------------------------------------
(* The callbacks of the list, as they will be called.                      *)
Pending(m) ==
    LET Rest[n \in 0 .. Cardinality(Entries), e \in Entries \cup {Null}] ==
            IF n = 0 \/ e = Null THEN << >>
            ELSE <<m.entry[e].callback>> \o Rest[n - 1, m.entry[e].next]
    IN  Rest[Cardinality(Entries), m.nextCallback]

(* How many of them come up to the last priority callback.                 *)
PriorityCount(m) ==
    LET Upto[n \in 0 .. Cardinality(Entries), e \in Entries \cup {Null}] ==
            IF n = 0 \/ e = Null THEN 0
            ELSE IF e = m.lastPriorityCallback THEN 1 ELSE 1 + Upto[n - 1, m.entry[e].next]
    IN  IF m.lastPriorityCallback = Null THEN 0 ELSE Upto[Cardinality(Entries), m.nextCallback]
===============================================================================
