-------------------------------- MODULE Timers --------------------------------
(***************************************************************************)
(* Timers of isolates (class _Timer of runtime/lib/timer_impl.dart)        *)
(* composed with the event handler thread that wakes them (TimeoutQueue).  *)
(* Every isolate keeps its timers with a duration in a heap and those      *)
(* without one in a list; it opens a port for wake-ups while it has any.   *)
(* A wake-up collects the timers that have expired and runs their          *)
(* callbacks, which may create and cancel timers, or throw.                *)
(***************************************************************************)
EXTENDS TimerHeap, TimeoutQueue, FiniteSets

CONSTANTS
    Isolates,
    TimersOf(_),    \* the timers each isolate may create, in that order
    Mortal,         \* isolates that may be killed
    Delays,         \* bound: durations in milliseconds
    MaxTime         \* bound: when the clock stops

Timers == UNION {Range(TimersOf(i)) : i \in Isolates}

VARIABLES
    timer,          \* timer objects
    isolate         \* static fields of _Timer, the mail of its port, and
                    \* what _runTimers is doing, for each isolate

vars == <<now, handlervars, timer, isolate>>

NoTimerObject ==
    [created |-> FALSE, callback |-> FALSE, wakeupTime |-> 0, milliSeconds |-> 0,
     repeating |-> FALSE, id |-> 0, indexOrNext |-> Null]

NewIsolate ==
    [heap |-> <<>>, firstZeroTimer |-> Null, lastZeroTimer |-> Null, idCount |-> 0,
     sendPort |-> Null, scheduledWakeupTime |-> NoTimer,
     handlingCallbacks |-> FALSE, mail |-> <<>>, pending |-> <<>>, current |-> Null,
     phase |-> "idle"]

Init ==
    /\ HandlerInit
    /\ timer = [t \in Timers |-> NoTimerObject]
    /\ isolate = [i \in Isolates |-> NewIsolate]

-----------------------------------------------------------------------------
(* An operation of isolate i computes on a record s: s.iso is isolate[i],  *)
(* s.timer the timer objects, s.sent the commands for the event handler.   *)
Now(i) == [iso |-> isolate[i], timer |-> timer, sent |-> <<>>]

(* A timer that is over: no part of the isolate refers to its fields.      *)
Over(i, s, t) ==
    /\ t \in Range(TimersOf(i)) /\ s.timer[t].created /\ ~s.timer[t].callback
    /\ s.timer[t].indexOrNext = Null
    /\ t \notin Range(s.iso.pending) \cup {s.iso.current}
    /\ s.iso.firstZeroTimer # Null => s.iso.lastZeroTimer # t

Effect(i, s) ==
    /\ UNCHANGED <<now, timeouts_, timer_fd_>>
    /\ isolate' = [isolate EXCEPT ![i] = s.iso]
    /\ timer' = [t \in Timers |-> IF Over(i, s, t)
                                  THEN [NoTimerObject EXCEPT !.created = TRUE]
                                  ELSE s.timer[t]]
    /\ interrupt_fds' = interrupt_fds \o s.sent

Heap(s) == [list |-> s.iso.heap, timer |-> s.timer]
WithHeap(s, h) == [s EXCEPT !.iso.heap = h.list, !.timer = h.timer]

(* A new port is none that the event handler still has to do with, so that *)
(* its messages for a port that has been closed are lost.                  *)
NewPort(i) ==
    LET known == {command.port[2] : command \in
                   {c \in Range(interrupt_fds \o timeouts_) : c.port[1] = i}}
    IN CHOOSE n \in 1 .. Cardinality(known) + 1 : n \notin known

CreateTimerHandler(i, s) ==
    IF s.iso.sendPort # Null THEN s
    ELSE [s EXCEPT !.iso.sendPort = NewPort(i), !.iso.scheduledWakeupTime = NoTimer]

ShutdownTimerHandler(s) ==
    [s EXCEPT !.iso.sendPort = Null, !.iso.mail = <<>>,
              !.iso.scheduledWakeupTime = NoTimer]

SendData(i, s, data) ==
    [s EXCEPT !.sent = Append(@, [port |-> <<i, s.iso.sendPort>>, data |-> data]),
              !.iso.scheduledWakeupTime = data]

CancelWakeup(i, s) == SendData(i, s, NoTimer)
ScheduleWakeup(i, s, time) == SendData(i, CreateTimerHandler(i, s), time)

(* Asks for the wake-up the timers need now: none while callbacks run.     *)
NotifyEventHandler(i, s) ==
    LET first == s.timer[s.iso.heap[1]].wakeupTime
    IN IF s.iso.handlingCallbacks THEN s
       ELSE IF s.iso.heap = <<>> /\ s.iso.firstZeroTimer = Null
       THEN IF s.iso.sendPort = Null THEN s ELSE ShutdownTimerHandler(CancelWakeup(i, s))
       ELSE IF s.iso.heap = <<>> THEN CancelWakeup(i, s)
       ELSE IF s.iso.scheduledWakeupTime = first THEN s
       ELSE ScheduleWakeup(i, s, first)

NotifyZeroHandler(i, s) == [CreateTimerHandler(i, s) EXCEPT !.iso.mail = Append(@, "zero")]

(* Puts a timer at the end of the zero timers, or into the heap.           *)
Enqueue(i, s, t) ==
    LET added == WithHeap(s, HeapAdd(Heap(s), t))
        linked == IF s.iso.firstZeroTimer = Null
                  THEN [s EXCEPT !.iso.firstZeroTimer = t, !.iso.lastZeroTimer = t]
                  ELSE [s EXCEPT !.timer[s.iso.lastZeroTimer].indexOrNext = t,
                                 !.iso.lastZeroTimer = t]
    IN IF s.timer[t].milliSeconds = 0 THEN NotifyZeroHandler(i, linked)
       ELSE IF added.iso.heap[1] = t THEN NotifyEventHandler(i, added)
       ELSE added

NextId(s) == [s EXCEPT !.iso.idCount = @ + 1]

(* Code of the program runs: in no callback, in one, or in a microtask.    *)
Running(i) == isolate[i].phase \in {"idle", "callback", "microtasks"}

CreateTimer(i, milliSeconds, repeating) ==
    LET unused == SelectSeq(TimersOf(i), LAMBDA t : ~timer[t].created)
        t == unused[1]
        object == [created |-> TRUE, callback |-> TRUE, milliSeconds |-> milliSeconds,
                   wakeupTime |-> IF milliSeconds = 0 THEN now ELSE now + 1 + milliSeconds,
                   repeating |-> repeating, id |-> isolate[i].idCount,
                   indexOrNext |-> Null]
    IN /\ Running(i) /\ unused # <<>>
       /\ now + 1 + milliSeconds <= MaxTime
       /\ repeating => milliSeconds > 0
       /\ Effect(i, Enqueue(i, [NextId(Now(i)) EXCEPT !.timer[t] = object], t))

InHeap(t) == timer[t].indexOrNext \in 0 .. Cardinality(Timers)

(* Mutant: the wake-up of the cancelled timer stays.                       *)
CancelQuietly(i, t) ==
    LET s == [Now(i) EXCEPT !.timer[t].callback = FALSE]
    IN /\ Running(i) /\ t \in Range(TimersOf(i)) /\ timer[t].callback
       /\ Effect(i, IF InHeap(t) THEN WithHeap(s, HeapRemove(Heap(s), t)) ELSE s)

(* Only timers of the heap are removed, a zero timer waits for its event.  *)
Cancel(i, t) ==
    LET s == [Now(i) EXCEPT !.timer[t].callback = FALSE]
        removed == WithHeap(s, HeapRemove(Heap(s), t))
    IN /\ Running(i) /\ t \in Range(TimersOf(i)) /\ timer[t].callback
       /\ Effect(i, IF ~InHeap(t) THEN s
                    ELSE IF IsFirst(Heap(s), t) THEN NotifyEventHandler(i, removed)
                    ELSE removed)

-----------------------------------------------------------------------------
(* What a wake-up collects: a record of what is left and what is to run.   *)

(* Mutant: the timers taken stay in the heap.                              *)
CollectCopies(s, limit) ==
    [s |-> s, pending |-> RemoveBefore(Heap(s), <<>>, limit).removed]

(* Takes the timers of the heap that come before a limit.                  *)
Collect(s, limit) ==
    LET taken == RemoveBefore(Heap(s), <<>>, limit)
    IN [s |-> WithHeap(s, taken.heap), pending |-> taken.removed]

(* Mutant: the timers of the heap that expire earlier are forgotten.       *)
FirstZeroOnly(s) ==
    LET t == s.iso.firstZeroTimer
    IN [s |-> [s EXCEPT !.iso.firstZeroTimer = s.timer[t].indexOrNext,
                        !.timer[t].indexOrNext = Null],
        pending |-> <<t>>]

(* The first zero timer, and before it what expires earlier.               *)
QueueFromZeroEvent(s) ==
    LET t == s.iso.firstZeroTimer
        earlier == Collect(s, s.timer[t])
    IN [s |-> [earlier.s EXCEPT !.iso.firstZeroTimer = s.timer[t].indexOrNext,
                                !.timer[t].indexOrNext = Null],
        pending |-> Append(earlier.pending, t)]

(* What comes before the first zero timer or, if there is none, what has   *)
(* expired: comes before anything that expires a millisecond later.        *)
QueueFromTimeoutEvent(s) ==
    Collect(s, IF s.iso.firstZeroTimer # Null THEN s.timer[s.iso.firstZeroTimer]
               ELSE [wakeupTime |-> now + 1, id |-> 0])

(* The loop of _runTimers, up to the next callback or to its end.          *)
RECURSIVE RunTimers(_, _)
RunTimers(i, s) ==
    LET t == Head(s.iso.pending)
        rest == [s EXCEPT !.iso.pending = Tail(@), !.timer[t].indexOrNext = Null]
    IN IF s.iso.pending = <<>>
       THEN NotifyEventHandler(i, [s EXCEPT !.iso.handlingCallbacks = FALSE,
                                            !.iso.current = Null, !.iso.phase = "idle"])
       ELSE IF ~s.timer[t].callback THEN RunTimers(i, rest)
       ELSE [rest EXCEPT !.timer[t].callback = s.timer[t].repeating,
                         !.iso.current = t, !.iso.phase = "callback"]

(* The ids start again when no timer is left, then the timers run.         *)
BeginRunTimers(i, queue) ==
    LET s == [queue.s EXCEPT !.iso.handlingCallbacks = TRUE, !.iso.pending = queue.pending]
    IN RunTimers(i, IF s.iso.heap = <<>> /\ s.iso.firstZeroTimer = Null
                    THEN [s EXCEPT !.iso.idCount = 0] ELSE s)

HandleMessage(i) ==
    LET read == [Now(i) EXCEPT !.iso.mail = Tail(@)]
        timeout == [read EXCEPT !.iso.scheduledWakeupTime = NoTimer]
    IN /\ isolate[i].phase = "idle" /\ isolate[i].mail # <<>>
       /\ Effect(i, BeginRunTimers(i, IF Head(isolate[i].mail) = "zero"
                                      THEN QueueFromZeroEvent(read)
                                      ELSE QueueFromTimeoutEvent(timeout)))

(* A repeating timer that was not cancelled is put back, and the           *)
(* microtasks run.                                                         *)
CallbackReturns(i) ==
    LET t == isolate[i].current
        s == [Now(i) EXCEPT !.iso.phase = "microtasks"]
        advanced == [NextId(s) EXCEPT !.timer[t].id = s.iso.idCount,
                                      !.timer[t].wakeupTime = @ + timer[t].milliSeconds]
    IN /\ isolate[i].phase = "callback"
       /\ Effect(i, IF timer[t].repeating /\ timer[t].callback
                    THEN Enqueue(i, advanced, t) ELSE s)

(* The loop goes on; it ends with the wake-up for the timers that are left.*)
MicrotasksDone(i) ==
    /\ isolate[i].phase = "microtasks"
    /\ Effect(i, RunTimers(i, Now(i)))

(* An uncaught error of a callback or a microtask leaves _runTimers and    *)
(* _handleMessage by the finally clause, in an isolate that survives it.   *)
CallbackThrows(i) ==
    /\ isolate[i].phase \in {"callback", "microtasks"}
    /\ Effect(i, [Now(i) EXCEPT !.iso.handlingCallbacks = FALSE, !.iso.pending = <<>>,
                                !.iso.current = Null, !.iso.phase = "idle"])

(* The isolate is killed, or ends with a fatal error: its port is closed,  *)
(* its timers are gone, and the event handler is not told.                 *)
Dies(i) ==
    /\ i \in Mortal /\ isolate[i].phase # "dead"
    /\ Effect(i, [iso |-> [NewIsolate EXCEPT !.phase = "dead"], sent |-> <<>>,
                  timer |-> [t \in Timers |-> IF t \in Range(TimersOf(i))
                                             THEN NoTimerObject ELSE timer[t]]])

-----------------------------------------------------------------------------
(* The event handler; a message for a port that is closed is lost.         *)
PostNull(ports) ==
    isolate' = [i \in Isolates |-> IF <<i, isolate[i].sendPort>> \in ports
                                   THEN [isolate[i] EXCEPT !.mail = Append(@, "timeout")]
                                   ELSE isolate[i]]

TimerEvent == HandleTimerFd /\ PostNull(CurrentPort) /\ UNCHANGED timer
InterruptEvent == HandleInterruptFd /\ UNCHANGED <<timer, isolate>>
ClockTick == Tick(MaxTime) /\ UNCHANGED <<timer, isolate>>

Busy(i) ==
    \/ isolate[i].phase = "idle" /\ isolate[i].mail # <<>>
    \/ isolate[i].phase \in {"callback", "microtasks"}

Step(i) == HandleMessage(i) \/ CallbackReturns(i) \/ MicrotasksDone(i)

Next ==
    \/ TimerEvent \/ InterruptEvent \/ ClockTick
    \/ \E i \in Isolates :
        \/ HandleMessage(i) \/ CallbackReturns(i) \/ MicrotasksDone(i)
        \/ Dies(i)
        \/ \E milliSeconds \in Delays, repeating \in BOOLEAN :
                CreateTimer(i, milliSeconds, repeating)
        \/ \E t \in Timers : Cancel(i, t)

Spec == Init /\ [][Next]_vars

(* The clock goes on, the event handler reads what is ready, and isolates  *)
(* handle their messages with callbacks that return (weak fairness of Step:*)
(* it can be taken exactly when the isolate is Busy).                      *)
FairSpec ==
    /\ Spec
    /\ WF_vars(ClockTick) /\ WF_vars(TimerEvent \/ InterruptEvent)
    /\ \A i \in Isolates : <>[]Busy(i) => []<><<Step(i)>>_vars

(* Callbacks may throw in isolates whose errors are not fatal.             *)
ThrowingSpec == Init /\ [][Next \/ \E i \in Isolates : CallbackThrows(i)]_vars

-----------------------------------------------------------------------------
(* Properties.                                                             *)

(* The zero timers, from _firstZeroTimer along the links.                  *)
RECURSIVE ZeroTimers(_)
ZeroTimers(t) == IF t = Null THEN <<>> ELSE <<t>> \o ZeroTimers(timer[t].indexOrNext)

Zeros(i) == ZeroTimers(isolate[i].firstZeroTimer)

(***************************************************************************)
(* The heap is a heap, its timers know their places, and a timer is in at  *)
(* most one of the heap, the list of zero timers and the batch that is     *)
(* being run (_TimerHeap, _enqueue, _runTimers).                           *)
(***************************************************************************)
TimersInPlace ==
    \A i \in Isolates :
        LET iso == isolate[i]
            all == iso.heap \o Zeros(i) \o iso.pending
        IN /\ IsHeap([list |-> iso.heap, timer |-> timer])
           /\ Cardinality(Range(all)) = Len(all)

(* What the event handler will have as the timeout of a port once it has   *)
(* read the pipe.                                                          *)
Requested(port) ==
    LET list == FoldLeft(UpdateTimeout, timeouts_, interrupt_fds)
    IN {list[k].data : k \in TimeoutsOf(list, port)}

(***************************************************************************)
(* An isolate that is not running timers has asked for exactly the wake-up *)
(* its first timer needs: the event handler knows of it, or will when it   *)
(* has read its pipe, or the wake-up is in the mail already                *)
(* (_notifyEventHandler and its callers).                                  *)
(***************************************************************************)
WakeupIsScheduled ==
    \A i \in Isolates :
        LET iso == isolate[i]
            first == {timer[t].wakeupTime : t \in {iso.heap[k] : k \in 1 .. Len(iso.heap) \cap {1}}}
        IN iso.phase = "idle" =>
             \/ "timeout" \in Range(iso.mail)
             \/ iso.sendPort = Null /\ first = {}
             \/ Requested(<<i, iso.sendPort>>) = first

(***************************************************************************)
(* A batch holds timers in the order of their expiration, and nothing that *)
(* stays behind expires before any of them (_runTimers: timers are         *)
(* notified in FIFO order).                                                *)
(***************************************************************************)
BatchesInOrder ==
    [][\A i \in Isolates :
        LET batch == <<isolate'[i].current>> \o isolate'[i].pending
        IN isolate[i].phase = "idle" /\ isolate'[i].phase = "callback" =>
             /\ \A j, k \in 1 .. Len(batch) : j < k => Before(timer, batch[j], batch[k])
             /\ \A t \in Range(isolate'[i].heap \o Zeros(i)) \ Range(batch) :
                   timer[t].callback => Before(timer, batch[Len(batch)], t)]_vars

(***************************************************************************)
(* The promise of Timer: a timer whose time comes is called, unless it is  *)
(* cancelled or its own isolate has died.                                  *)
(***************************************************************************)
TimersFire ==
    \A i \in Isolates : \A t \in Range(TimersOf(i)) :
        timer[t].callback /\ timer[t].wakeupTime <= MaxTime
            ~> isolate[i].current = t \/ ~timer[t].callback \/ isolate[i].phase = "dead"

(***************************************************************************)
(* As long as no isolate dies, every timer whose time comes is called:     *)
(* HandleTimerFd leaves the descriptor unarmed, and it is the isolate it   *)
(* woke that has it armed again, for the timers of all isolates            *)
(* (_handleMessage ends with _notifyEventHandler).                         *)
(***************************************************************************)
TimersFireIfAllLive ==
    [](\A i \in Isolates : isolate[i].phase # "dead") => TimersFire
================================================================================
