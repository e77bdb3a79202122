-------------------------------- MODULE Futures --------------------------------
(***************************************************************************)
(* Futures (sdk/lib/async/future_impl.dart) in the root zone, the          *)
(* microtasks they use, and the handling of messages that runs both        *)
(* (runtime/lib/isolate_patch.dart).  The calls in progress are a stack:   *)
(* a callback may complete futures and add listeners, and completing a     *)
(* future calls its listeners.  A future is known by its number; the       *)
(* listener that completes it is part of its source until it is called.    *)
(***************************************************************************)
EXTENDS Microtasks
LOCAL INSTANCE SequencesExt
LOCAL INSTANCE FiniteSetsExt

CONSTANTS
    AsyncCompleters, SyncCompleters,    \* futures with a completer
    Results,        \* bound: futures made by then, catchError, whenComplete
    Kinds,          \* the listeners users add
    MaxEvents       \* bound: messages that are handled

Completers == AsyncCompleters \cup SyncCompleters
Future == Completers \cup Results

VARIABLES
    fut,            \* _state, _resultOrListeners of each future
    micro,          \* the microtasks
    stack,          \* the calls in progress, the innermost first
    errorsFatal,    \* Isolate.setErrorsFatal
    dead,           \* an uncaught error has ended the isolate
    uncaught,       \* history: an error has reached the event loop
    overtaken,      \* history: an event was handled before a microtask
    on,             \* history: the future each listener was added to
    events

vars == <<fut, micro, stack, errorsFatal, dead, uncaught, overtaken, on, events>>

(* The state says whether there is a value or an error, not which.         *)
NewFuture == [state |-> "incomplete", listeners |-> << >>]
NoFuture == [NewFuture EXCEPT !.state = "none"]

Init ==
    /\ fut = [f \in Future |-> IF f \in Completers THEN NewFuture ELSE NoFuture]
    /\ micro = NoMicrotasks /\ stack = << >>
    /\ errorsFatal \in BOOLEAN /\ dead = FALSE /\ uncaught = FALSE /\ overtaken = FALSE
    /\ on = [r \in Results |-> Null] /\ events = 0

IsComplete(w, f) == w.fut[f].state \in {"value", "error"}

-----------------------------------------------------------------------------
(* The methods of _Future, on a record w of fut, micro and stack.          *)

World == [fut |-> fut, micro |-> micro, stack |-> stack]
Becomes(w) == fut' = w.fut /\ micro' = w.micro /\ stack' = w.stack

(* A listener, a microtask, a call of _propagateToListeners or a callback. *)
Listener(kind, result) == [kind |-> kind, result |-> result, source |-> Null]
Task(do, f, l) == [do |-> do, future |-> f, listener |-> l]
Frame(at, f, ls) == [at |-> at, future |-> f, listeners |-> ls]
NoListener == Listener("none", Null)

Microtask(w, task) == [w EXCEPT !.micro = ScheduleAsyncCallback(@, task)]

(* _rootHandleUncaughtError: a priority callback throws the error.         *)
HandleUncaughtError(w, f) ==
    [w EXCEPT !.micro = SchedulePriorityAsyncCallback(@, Task("throw", f, NoListener))]

Call(w, f, ls) == [w EXCEPT !.stack = <<Frame("propagate", f, ls)>> \o @]
Return(w) == [w EXCEPT !.stack = Tail(@)]

(* Mutant: a listener that comes late waits for the completion.            *)
AlwaysStore(w, f, l) == [w EXCEPT !.fut[f].listeners = <<l>> \o @]

AddListener(w, f, l) ==
    IF IsComplete(w, f)
      THEN Microtask(w, Task("propagate", f, l))
      ELSE [w EXCEPT !.fut[f].listeners = <<l>> \o @]

(* Mutant: the listeners stay in the order of the list.                    *)
LatestFirst(ls) == ls

(* _removeListeners: in the order of subscription.                         *)
InOrder(ls) == Reverse(ls)

(* Mutant: the result takes the place of the listeners before they are     *)
(* removed.                                                                *)
SetBeforeRemove(w, f, state) ==
    Call([w EXCEPT !.fut[f] = [state |-> state, listeners |-> << >>]], f, << >>)

(* _completeWithValue, _completeError, and the end of a propagation.       *)
Settle(w, f, state) ==
    Call([w EXCEPT !.fut[f] = [state |-> state, listeners |-> << >>]],
         f, InOrder(w.fut[f].listeners))

ChainCoreFuture(w, source, target) ==
    LET chained == [w EXCEPT !.fut[target].state = "chained"]
        l == Listener("chain", target)
    IN  IF IsComplete(w, source) THEN Call(chained, source, <<l>>)
        ELSE AddListener(chained, source, l)

-----------------------------------------------------------------------------
(* What user code does: handlers of events and callbacks of futures.       *)

Top == stack[1]
InUserCode == stack # << >> /\ Top.at \in {"event", "callback"}
Made == {f \in Future : fut[f].state # "none"}
SameLoop == UNCHANGED <<errorsFatal, dead, uncaught, overtaken, events>>

(* then, catchError and whenComplete.                                      *)
Listen(f, kind) ==
    LET r == Min({q \in Results : fut[q].state = "none"} \cup {Max(Results) + 1})
    IN  /\ InUserCode /\ f \in Made /\ r \in Results
        /\ Becomes(AddListener([World EXCEPT !.fut[r] = NewFuture], f, Listener(kind, r)))
        /\ on' = [on EXCEPT ![r] = f]
        /\ SameLoop

(* _mayComplete: the completers throw a StateError otherwise.              *)
MayComplete(f) == fut[f].state = "incomplete"

(* _markPendingCompletion, and the completion in a microtask.              *)
Pend(w, f, task) == Microtask([w EXCEPT !.fut[f].state = "pending"], task)

(* complete(value) and completeError.                                      *)
CompleteWith(f, state) ==
    /\ InUserCode /\ f \in Completers /\ MayComplete(f)
    /\ Becomes(IF f \in SyncCompleters THEN Settle(World, f, state)
               ELSE Pend(World, f, Task(state, f, Listener("self", f))))
    /\ UNCHANGED on /\ SameLoop

(* complete(future).                                                       *)
CompleteWithFuture(f, g) ==
    /\ InUserCode /\ f \in Completers /\ MayComplete(f) /\ g \in Made
    /\ Becomes(IF f \in AsyncCompleters /\ fut[g].state = "error"
                 THEN Pend(World, f, Task("chain", g, Listener("self", f)))
                 ELSE ChainCoreFuture(World, g, f))
    /\ UNCHANGED on /\ SameLoop

-----------------------------------------------------------------------------
(* _propagateToListeners, from one callback to the next.                   *)

Propagating == stack # << >> /\ Top.at = "propagate"
Single == Propagating /\ Len(Top.listeners) = 1
HasError == fut[Top.future].state = "error"
Only == Top.listeners[1]
SameUser == UNCHANGED on /\ SameLoop

(* No listener: an error is reported.                                      *)
PropagateToNobody ==
    /\ Propagating /\ Top.listeners = << >>
    /\ Becomes(IF HasError THEN HandleUncaughtError(Return(World), Top.future) ELSE Return(World))
    /\ SameUser

(* Several listeners: a recursive call for the first.                      *)
PropagateToFirst ==
    /\ Propagating /\ Len(Top.listeners) > 1
    /\ Becomes(Call([World EXCEPT !.stack[1].listeners = Tail(@)], Top.future, <<Only>>))
    /\ SameUser

HandlesValue(l) == l.kind \in {"then", "thenOnError"}
HandlesError(l) == l.kind \in {"thenOnError", "catchError"}
HandlesComplete(l) == l.kind = "whenComplete"
HasCallback(l) == HandlesComplete(l) \/ (IF HasError THEN HandlesError(l) ELSE HandlesValue(l))

(* The callback of the listener is called.                                 *)
CallBack ==
    /\ Single /\ HasCallback(Only)
    /\ Becomes([World EXCEPT !.stack[1].at = "callback"])
    /\ SameUser

(* The result of the listener gets the outcome; its listeners are next.    *)
PassOn(l, state) == Becomes(Settle(Return(World), l.result, state)) /\ SameUser

(* No callback for this outcome, or the test of catchError fails.          *)
CopyOutcome ==
    /\ Single /\ Only.kind # "resume"
    /\ ~HasCallback(Only) \/ Only.kind = "catchError"
    /\ PassOn(Only, fut[Top.future].state)

(* The callbacks that handleWhenCompleteCallback gives to then.            *)
Resume ==
    /\ Single /\ Only.kind = "resume"
    /\ Becomes(Call(Return(World), IF HasError THEN Top.future ELSE Only.source,
                    <<Listener("chain", Only.result)>>))
    /\ SameUser

InCallback == stack # << >> /\ Top.at = "callback"

CallbackReturnsValue ==
    /\ InCallback
    /\ PassOn(Only, IF HandlesComplete(Only) THEN fut[Top.future].state ELSE "value")

CallbackThrows == InCallback /\ PassOn(Only, "error")

CallbackReturnsFuture(g) ==
    /\ InCallback /\ g \in Made
    /\ LET w == Return(World)
           r == Only.result
       IN  Becomes(IF HandlesComplete(Only)
                     THEN AddListener([w EXCEPT !.fut[r].state = "chained"], g,
                                      [Listener("resume", r) EXCEPT !.source = Top.future])
                     ELSE ChainCoreFuture(w, g, r))
    /\ SameUser

-----------------------------------------------------------------------------
(* _handleMessage, _runPendingImmediateCallback and _microtaskLoop.        *)

SameFutures == UNCHANGED <<fut, on, errorsFatal>>

(* The VM delivers the next message.                                       *)
Event ==
    /\ stack = << >> /\ ~dead /\ events < MaxEvents
    /\ events' = events + 1
    /\ stack' = <<Frame("event", Null, << >>)>>
    /\ overtaken' = (overtaken \/ micro.nextCallback # Null)
    /\ SameFutures /\ UNCHANGED <<micro, dead, uncaught>>

(* An unhandled exception is back in MessageHandler: with fatal errors it  *)
(* ends the isolate, otherwise the next message is handled.                *)
Unhandled ==
    /\ stack' = << >> /\ uncaught' = TRUE /\ dead' = errorsFatal
    /\ UNCHANGED <<on, errorsFatal, overtaken, events>>

EventThrows ==
    /\ stack # << >> /\ Top.at = "event"
    /\ Unhandled /\ UNCHANGED <<fut, micro>>

EventReturns ==
    /\ stack # << >> /\ Top.at = "event"
    /\ IF micro.immediate
         THEN micro' = EnterLoop(micro) /\ stack' = <<Frame("loop", Null, << >>)>>
         ELSE stack' = << >> /\ UNCHANGED micro
    /\ SameFutures /\ UNCHANGED <<dead, uncaught, overtaken, events>>

InLoop == stack # << >> /\ Top.at = "loop"

LoopEnds ==
    /\ InLoop /\ micro.nextCallback = Null
    /\ micro' = LeaveLoop(micro) /\ stack' = << >>
    /\ SameFutures /\ UNCHANGED <<dead, uncaught, overtaken, events>>

(* A microtask of a future.                                                *)
RunMicrotask ==
    LET w == [World EXCEPT !.micro = TakeFirst(@)]
        t == FirstCallback(micro)
    IN  /\ InLoop /\ micro.nextCallback # Null /\ t.do # "throw"
        /\ Becomes(CASE t.do = "propagate" -> Call(w, t.future, <<t.listener>>)
                     [] t.do = "chain" -> ChainCoreFuture(w, t.future, t.listener.result)
                     [] OTHER -> Settle(w, t.future, t.do))
        /\ UNCHANGED on /\ SameLoop

(* The microtask of handleUncaughtError throws out of the loop.            *)
RunThrow ==
    /\ InLoop /\ micro.nextCallback # Null /\ FirstCallback(micro).do = "throw"
    /\ micro' = LeaveLoop(TakeFirst(micro))
    /\ Unhandled /\ UNCHANGED fut

User ==
    \/ \E f \in Future, kind \in Kinds : Listen(f, kind)
    \/ \E f \in Completers, state \in {"value", "error"} : CompleteWith(f, state)
    \/ \E f \in Completers, g \in Future : CompleteWithFuture(f, g)

Run ==
    \/ PropagateToNobody \/ PropagateToFirst \/ CallBack \/ CopyOutcome \/ Resume
    \/ CallbackReturnsValue \/ CallbackThrows
    \/ \E g \in Future : CallbackReturnsFuture(g)
    \/ EventThrows \/ EventReturns \/ RunMicrotask \/ RunThrow \/ LoopEnds

Next == User \/ Run \/ Event

Spec == Init /\ [][Next]_vars

(* Calls return and the loop goes on; user code adds a bounded number of   *)
(* listeners, so that a callback that keeps running does return.           *)
FairSpec == Spec /\ WF_vars(Run)

-----------------------------------------------------------------------------
(* The places that hold the listener, or the microtask, that completes f.  *)
Numbers == 1 .. Cardinality(Future)
Holds(ls, i, f) == i \in DOMAIN ls /\ ls[i].result = f
Places(f) ==
    LET tasks == Pending(micro)
    IN  {p \in Future \X Numbers : Holds(fut[p[1]].listeners, p[2], f)}
          \cup {<<"stack", p>> : p \in {q \in (DOMAIN stack) \X Numbers :
                                          Holds(stack[q[1]].listeners, q[2], f)}}
          \cup {<<"task", i>> : i \in {j \in DOMAIN tasks : tasks[j].listener.result = f}}

(* The listener that makes r is not called yet.                            *)
Waiting(r) ==
    \/ \E i \in Numbers : on[r] # Null /\ Holds(fut[on[r]].listeners, i, r)
                              /\ fut[on[r]].listeners[i].kind \in Kinds
    \/ \E i \in DOMAIN stack, j \in Numbers :
          Holds(stack[i].listeners, j, r) /\ stack[i].at = "propagate"
              /\ stack[i].listeners[j].kind \in Kinds
    \/ \E e \in Entries :
          LET t == micro.entry[e].callback
          IN  t # Null /\ t.listener.result = r /\ t.listener.kind \in Kinds

(* The loop is scheduled whenever microtasks are left and it does not run, *)
(* and never twice (_isolateScheduleImmediate asserts that); so, if errors *)
(* are fatal, no event is handled before a microtask that was there.       *)
LoopIsScheduled ==
    /\ micro.immediate <=> (micro.nextCallback # Null /\ ~micro.isInCallbackLoop)
    /\ ~micro.twice
    /\ micro.isInCallbackLoop <=> (\E i \in DOMAIN stack : stack[i].at = "loop")
    /\ errorsFatal => ~overtaken

(* A future that is to be completed by a listener or a microtask is held   *)
(* by exactly one, whatever callbacks complete, chain and listen to in the *)
(* middle of _propagateToListeners; a completed future by none.            *)
NoListenerLost ==
    \A f \in Future :
        Cardinality(Places(f)) =
            IF fut[f].state \in {"none", "value", "error"}
                 \/ (f \in Completers /\ fut[f].state = "incomplete")
              THEN 0 ELSE 1

(* The listeners of a future are called in the order in which they were    *)
(* added, those that were added after its completion included.             *)
ListenersInOrder ==
    \A r, q \in Results :
        r < q /\ on[r] # Null /\ on[r] = on[q] /\ Waiting(r) => Waiting(q)

(* A listener of a completed future is called, unless an error reaches the *)
(* event loop.                                                             *)
ListenersAreCalled ==
    \A r \in Results :
        (on[r] # Null /\ Waiting(r) /\ fut[on[r]].state \in {"value", "error"})
            ~> (~Waiting(r) \/ uncaught)

(* Microtasks are guaranteed to run before other asynchronous events.      *)
MicrotasksFirst == ~overtaken
================================================================================
