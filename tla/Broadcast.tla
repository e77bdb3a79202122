------------------------------- MODULE Broadcast -------------------------------
(***************************************************************************)
(* A broadcast stream: the three controllers of                            *)
(* sdk/lib/async/broadcast_stream_controller.dart with their listeners,    *)
(* each a buffering subscription of stream_impl.dart whose hooks for pause *)
(* and resume do nothing.  Handlers and hooks are user code that may call  *)
(* the controller and every subscription again.  The linked list of        *)
(* listeners is a sequence; the calls in progress are a stack; microtasks  *)
(* are the queue that MicrotaskQueue describes, apart from those of        *)
(* handleUncaughtError, which come first and are only counted.             *)
(***************************************************************************)
EXTENDS Integers, Sequences

CONSTANTS
    Null,
    Kinds,          \* of controllers: "async", "sync" and "asBroadcast"
    Sub,            \* 1 .. n: subscriptions, in the order of their creation
    CancelOnError,  \* those that an error cancels
    MaxAdds,        \* bound: data and errors that are added
    MaxPauses,      \* bound: calls of pause
    MaxThrows,      \* bound: errors that wait to be thrown
    MaxMessages     \* bound: messages that no error ends

VARIABLES
    ctl,        \* the controller; next is its list of listeners
    sub,        \* the subscriptions
    queue,      \* microtasks, known by the subscription they are for
    stack,      \* the calls in progress, the innermost first
    throws,     \* priority microtasks, each of which throws an uncaught error
    told,       \* history: the last hook called
    due,        \* history: for each subscription the events sent while it was listening
    heard,      \* history: the events given to its handlers
    quit,       \* history: how many it had heard when the user canceled it, see UserCancel
    adds, pauses, messages

vars == <<ctl, sub, queue, stack, throws, told, due, heard, quit, adds, pauses, messages>>

Init ==
    /\ \E kind \in Kinds :
          ctl = [kind |-> kind, firing |-> FALSE, eventId |-> 0, closed |-> FALSE,
                 done |-> "none", next |-> << >>, pending |-> << >>]
    /\ sub = [s \in Sub |->
                 [created |-> FALSE, eventId |-> 0, firing |-> FALSE, removeAfterFiring |-> FALSE,
                  canceled |-> FALSE, waitForCancel |-> FALSE, inCallback |-> FALSE,
                  hasPending |-> FALSE, pauseCount |-> 0, events |-> << >>,
                  state |-> "unscheduled"]]
    /\ queue = << >> /\ stack = << >> /\ throws = 0 /\ told = "none"
    /\ due = [s \in Sub |-> << >>] /\ heard = [s \in Sub |-> << >>] 
    /\ quit = [s \in Sub |-> Null]
    /\ adds = 0 /\ pauses = 0 /\ messages = 0

World ==
    [ctl |-> ctl, sub |-> sub, queue |-> queue, stack |-> stack, told |-> told,
     due |-> due, heard |-> heard]
Becomes(w) ==
    /\ ctl' = w.ctl /\ sub' = w.sub /\ queue' = w.queue /\ stack' = w.stack
    /\ told' = w.told /\ due' = w.due /\ heard' = w.heard

(* A call in progress.  sub is the subscription it is for, in a loop over  *)
(* the listeners the one that is next.                                     *)
Frame(at, s, event) == [at |-> at, sub |-> s, event |-> event, id |-> 0]
Push(w, frame) == [w EXCEPT !.stack = <<frame>> \o @]
Pop(w) == [w EXCEPT !.stack = Tail(@)]

Elements(list) == {list[i] : i \in DOMAIN list}
Listeners(w) == Elements(w.ctl.next)
IsEmpty(w) == w.ctl.next = << >>
(* The listener after s, Null for the controller itself.                   *)
After(list, s) ==
    LET later == {i \in DOMAIN list : i > 1 /\ list[i - 1] = s}
    IN  IF later = {} THEN Null ELSE list[CHOOSE i \in later : TRUE]

-----------------------------------------------------------------------------
(* _BufferingStreamSubscription, with the hooks of _BroadcastSubscription. *)

CanFire(b) == ~b.inCallback /\ ~b.hasPending /\ b.pauseCount = 0

Schedule(w, s) ==
    CASE w.sub[s].state = "scheduled" -> w
      [] w.sub[s].state = "canceled" -> [w EXCEPT !.sub[s].state = "scheduled"]
      [] OTHER -> [w EXCEPT !.sub[s].state = "scheduled", !.queue = Append(@, s)]

CancelSchedule(b) == IF b.state = "scheduled" THEN [b EXCEPT !.state = "canceled"] ELSE b

(* _addPending of every subscription in a list, with schedule.             *)
AddPending(w, list, event) ==
    LET starts(b) == ~b.hasPending /\ b.pauseCount = 0
        added(b) == [b EXCEPT !.events = Append(@, event), !.hasPending = TRUE,
                              !.state = IF starts(b) THEN "scheduled" ELSE @]
        fresh(s) == starts(w.sub[s]) /\ w.sub[s].state = "unscheduled"
    IN  [w EXCEPT !.sub = [s \in Sub |-> IF s \in Elements(list) THEN added(@[s]) ELSE @[s]],
                  !.queue = @ \o SelectSeq(list, fresh)]

CheckState(w, s) ==
    LET b == w.sub[s]
        v == [w EXCEPT !.sub[s].hasPending = b.events # << >>]
    IN  CASE b.canceled -> [v EXCEPT !.sub[s].events = << >>]
          [] OTHER -> IF b.events # << >> /\ b.pauseCount = 0 THEN Schedule(v, s) ELSE v

(* The call of a handler.                                                  *)
Handler(w, s, at, event) ==
    Push([w EXCEPT !.sub[s].inCallback = TRUE, !.heard[s] = Append(@, event)],
         Frame(at, s, event))

-----------------------------------------------------------------------------
(* _BroadcastStreamController: listeners that go.                          *)

CallOnCancel(w) ==
    LET completes == w.ctl.closed /\ w.ctl.done = "incomplete"
    IN  Push([w EXCEPT !.ctl.done = IF completes THEN "complete" ELSE @,
                       !.ctl.pending = << >>, !.told = "onCancel"],
             Frame("onCancel", Null, Null))

RemoveListener(w, s) == [w EXCEPT !.ctl.next = SelectSeq(@, LAMBDA t : t # s)]

RecordCancel(w, s) ==
    LET removed == RemoveListener(w, s)
    IN  CASE s \notin Listeners(w) -> w
          [] s \in Listeners(w) /\ w.sub[s].firing ->
               [w EXCEPT !.sub[s].removeAfterFiring = TRUE]
          [] OTHER -> IF ~w.ctl.firing /\ IsEmpty(removed) THEN CallOnCancel(removed) ELSE removed

(* _cancel of the subscription, with _onCancel.                            *)
Cancel(w, s) ==
    LET b == w.sub[s]
        off == IF b.hasPending THEN CancelSchedule(b) ELSE b
    IN  RecordCancel([w EXCEPT !.sub[s] = [off EXCEPT !.canceled = TRUE,
                                               !.events = IF b.inCallback THEN @ ELSE << >>]], s)

(* _sendData, _sendError and _sendDone of the subscription.                *)
Send(w, s, event) ==
    CASE event[1] = "done" -> Cancel(Push(w, Frame("last", s, event)), s)
      [] event[1] = "error" /\ s \in CancelOnError ->
           Cancel(Push([w EXCEPT !.sub[s].waitForCancel = TRUE], Frame("last", s, event)), s)
      [] OTHER -> Handler(w, s, "handler", event)

(* Its _add, _addError and _close.                                         *)
Receive(w, s, event) ==
    CASE w.sub[s].canceled -> w
      [] ~w.sub[s].canceled /\ CanFire(w.sub[s]) -> Send(w, s, event)
      [] OTHER -> AddPending(w, <<s>>, event)

-----------------------------------------------------------------------------
(* _BroadcastStreamController: events.                                     *)

(* History: the listeners at this time are to hear the event.              *)
Owe(w, event) ==
    [w EXCEPT !.due = [s \in Sub |-> IF s \in Listeners(w) THEN Append(@[s], event) ELSE @[s]]]

(* Mutant: listeners that are added while an event is fired expect it.     *)
FireToNewListeners(w, event) ==
    Push([w EXCEPT !.ctl.firing = TRUE],
         [Frame("firing", Head(w.ctl.next), event) EXCEPT !.id = w.ctl.eventId])

(* _forEachListener up to its loop.                                        *)
ForEachListener(w, event) ==
    Push([w EXCEPT !.ctl.eventId = 1 - @, !.ctl.firing = TRUE],
         [Frame("firing", Head(w.ctl.next), event) EXCEPT !.id = w.ctl.eventId])

(* The case of one listener in _sendData of the synchronous controller.    *)
SendToOne(w, event) ==
    Receive(Push([w EXCEPT !.ctl.firing = TRUE], Frame("firing", Null, event)),
            Head(w.ctl.next), event)

(* _sendData, _sendError and _sendDone of the controllers.  The future of  *)
(* done is completed once, as an assertion says.                           *)
Dispatch(w, event) ==
    CASE IsEmpty(w) /\ event[1] # "done" -> w
      [] IsEmpty(w) /\ event[1] = "done" ->
           [w EXCEPT !.ctl.done = IF @ = "incomplete" THEN "complete" ELSE "twice"]
      [] ~IsEmpty(w) /\ w.ctl.kind = "async" -> AddPending(Owe(w, event), w.ctl.next, event)
      [] OTHER -> IF event[1] = "data" /\ Len(w.ctl.next) = 1
                    THEN SendToOne(Owe(w, event), event)
                    ELSE ForEachListener(Owe(w, event), event)

EnsureDoneFuture(w) == [w EXCEPT !.ctl.done = IF @ = "none" THEN "incomplete" ELSE @]

Top == stack[1]
InternalCalls == {"loop", "firing", "fired", "drain", "last"}
InUserCode == stack # << >> /\ Top.at \notin InternalCalls
HasSubscription(s) ==
    sub[s].created /\ \A i \in DOMAIN stack : stack[i].at = "onListen" => stack[i].sub # s
SameUser == UNCHANGED <<quit, adds, pauses, messages>>
Same == SameUser /\ UNCHANGED throws

(* While an event is fired the synchronous controller throws, and that of  *)
(* asBroadcastStream keeps what is added.                                  *)
MayAddEvent == ~ctl.closed /\ (ctl.kind = "sync" => ~ctl.firing)
AddPendingEvent(w, event) == [w EXCEPT !.ctl.pending = Append(@, event)]

(* add and addError.                                                       *)
Add(what) ==
    LET event == <<what, adds + 1>>
    IN  /\ InUserCode /\ MayAddEvent /\ adds < MaxAdds
        /\ adds' = adds + 1
        /\ Becomes(CASE ctl.kind # "asBroadcast" -> Dispatch(World, event)
                     [] ctl.kind = "asBroadcast" /\ ctl.firing -> AddPendingEvent(World, event)
                     [] OTHER -> Dispatch(Push(World, Frame("drain", Null, Null)), event))
        /\ UNCHANGED <<quit, pauses, messages, throws>>

Close ==
    LET event == <<"done", 0>>
        w == EnsureDoneFuture([World EXCEPT !.ctl.closed = TRUE])
    IN  /\ InUserCode /\ MayAddEvent
        /\ Becomes(IF ctl.firing THEN AddPendingEvent(w, event) ELSE Dispatch(w, event))
        /\ Same

(* The getter done.                                                        *)
Done ==
    /\ InUserCode /\ ctl.done = "none"
    /\ Becomes(EnsureDoneFuture(World))
    /\ Same

(* The loop of _forEachListener: up to the action on a listener, from      *)
(* there, and what follows the loop, also for a single listener.           *)
FireNext ==
    LET s == Top.sub
    IN  /\ stack # << >> /\ Top.at = "firing" /\ Top.sub # Null
        /\ Becomes(IF sub[s].eventId = Top.id
                     THEN Receive([World EXCEPT !.sub[s].firing = TRUE, !.stack[1].at = "fired"],
                                  s, Top.event)
                     ELSE [World EXCEPT !.stack[1].sub = After(ctl.next, s)])
        /\ Same

Fired ==
    LET s == Top.sub
        w == [World EXCEPT !.sub[s].eventId = 1 - @, !.sub[s].firing = FALSE,
                           !.stack[1].at = "firing", !.stack[1].sub = After(ctl.next, s)]
    IN  /\ stack # << >> /\ Top.at = "fired"
        /\ Becomes(IF sub[s].removeAfterFiring THEN RemoveListener(w, s) ELSE w)
        /\ Same

(* Mutant: nobody looks for listeners that were canceled meanwhile.        *)
FireEndOnly ==
    /\ stack # << >> /\ Top.at = "firing" /\ Top.sub = Null
    /\ Becomes([Pop(World) EXCEPT !.ctl.firing = FALSE])
    /\ Same

FireEnd ==
    LET w == [Pop(World) EXCEPT !.ctl.firing = FALSE]
    IN  /\ stack # << >> /\ Top.at = "firing" /\ Top.sub = Null
        /\ Becomes(IF IsEmpty(w) THEN CallOnCancel(w) ELSE w)
        /\ Same

(* The loop over events that came while another was fired.                 *)
Drain ==
    /\ stack # << >> /\ Top.at = "drain"
    /\ Becomes(IF ctl.pending = << >> THEN Pop(World)
               ELSE Dispatch([World EXCEPT !.ctl.pending = Tail(@)], Head(ctl.pending)))
    /\ Same

-----------------------------------------------------------------------------
(* Users of subscriptions.  Hooks for pause and resume do nothing, so that *)
(* the calls of _checkState around them find nothing to do.                *)

AddListener(w, s) ==
    [w EXCEPT !.sub[s].created = TRUE, !.sub[s].eventId = w.ctl.eventId,
              !.ctl.next = Append(@, s)]

(* _subscribe.  After close it returns a subscription of its own that the  *)
(* controller does not know.                                               *)
Listen(s) ==
    LET w == AddListener(World, s)
    IN  /\ InUserCode /\ ~ctl.closed
        /\ ~sub[s].created /\ \A r \in Sub : r < s => sub[r].created
        /\ Becomes(IF Len(w.ctl.next) = 1
                     THEN Push([w EXCEPT !.told = "onListen"], Frame("onListen", s, Null))
                     ELSE w)
        /\ Same

Pause(s) ==
    LET b == [sub[s] EXCEPT !.pauseCount = @ + 1]
    IN  /\ InUserCode /\ HasSubscription(s) /\ ~sub[s].canceled /\ pauses < MaxPauses
        /\ pauses' = pauses + 1
        /\ Becomes([World EXCEPT !.sub[s] = IF sub[s].pauseCount = 0 THEN CancelSchedule(b) ELSE b])
        /\ UNCHANGED <<quit, adds, messages, throws>>

Resume(s) ==
    LET w == [World EXCEPT !.sub[s].pauseCount = @ - 1]
    IN  /\ InUserCode /\ HasSubscription(s) /\ ~sub[s].canceled /\ sub[s].pauseCount > 0
        /\ Becomes(IF sub[s].pauseCount = 1 /\ sub[s].events # << >> THEN Schedule(w, s) ELSE w)
        /\ Same

(* cancel, which also discards an error that waits for onCancel.  Only     *)
(* _sendDone sets waitForCancel after _cancel, so that a call from within  *)
(* the onCancel of a done event has no effect and is not counted in quit.  *)
UserCancel(s) ==
    LET w == [World EXCEPT !.sub[s].waitForCancel = FALSE]
        ending == \E i \in DOMAIN stack :
                      stack[i].at = "last" /\ stack[i].sub = s /\ stack[i].event[1] = "done"
    IN  /\ InUserCode /\ HasSubscription(s)
        /\ quit' = IF quit[s] = Null /\ ~ending THEN [quit EXCEPT ![s] = Len(heard[s])] ELSE quit
        /\ Becomes(IF sub[s].canceled THEN w ELSE Cancel(w, s))
        /\ UNCHANGED <<adds, pauses, messages, throws>>

(* _rootHandleUncaughtError: a microtask before all others is to throw the *)
(* error.                                                                  *)
HandleUncaughtError == throws < MaxThrows /\ throws' = throws + 1

(* A handler or a hook returns.  If it throws, the error is reported       *)
(* (runUnaryGuarded, _runGuarded) and the rest is the same.                *)
CallbackReturns ==
    LET s == Top.sub
        left == [Pop(World) EXCEPT !.sub[s].inCallback = FALSE]
    IN  /\ stack # << >>
        /\ CASE Top.at = "handler" -> Becomes(CheckState(left, s))
             [] Top.at = "lastHandler" -> Becomes(left)
             [] Top.at \in {"onListen", "onCancel"} -> Becomes(Pop(World))
             [] OTHER -> FALSE
        /\ UNCHANGED throws \/ HandleUncaughtError
        /\ SameUser

(* sendError after cancelOnError and sendDone, when onCancel has returned. *)
SendLast ==
    LET s == Top.sub
        w == [Pop(World) EXCEPT !.sub[s].waitForCancel = @ \/ Top.event[1] = "done"]
    IN  /\ stack # << >> /\ Top.at = "last"
        /\ Becomes(IF w.sub[s].waitForCancel THEN Handler(w, s, "lastHandler", Top.event) ELSE w)
        /\ Same

-----------------------------------------------------------------------------
(* The event loop.  Microtasks that an error has left are run after the    *)
(* handler of the next message.                                            *)

Message ==
    /\ stack = << >> /\ messages < MaxMessages
    /\ Becomes([World EXCEPT !.stack = <<Frame("message", Null, Null)>>])
    /\ Same

MessageReturns ==
    /\ stack # << >> /\ Top.at = "message"
    /\ Becomes([World EXCEPT !.stack = <<Frame("loop", Null, Null)>>])
    /\ Same

(* An unhandled exception is back in the MessageHandler of the VM, for     *)
(* which this message is done.  If errors are fatal the isolate ends, and  *)
(* no other message comes.                                                 *)
Unhandled == Becomes([World EXCEPT !.stack = << >>]) /\ SameUser

MessageThrows ==
    /\ stack # << >> /\ Top.at = "message"
    /\ Unhandled /\ UNCHANGED throws

LoopEnds ==
    /\ stack # << >> /\ Top.at = "loop" /\ throws = 0 /\ queue = << >>
    /\ Becomes([World EXCEPT !.stack = << >>])
    /\ messages' = messages + 1
    /\ UNCHANGED <<quit, adds, pauses, throws>>

(* The microtask of handleUncaughtError throws out of the loop.            *)
RunThrow ==
    /\ stack # << >> /\ Top.at = "loop" /\ throws > 0
    /\ throws' = throws - 1
    /\ Unhandled

(* The microtask of schedule, with handleNext.                             *)
HandleNext ==
    LET s == Head(queue)
        w == [World EXCEPT !.queue = Tail(@), !.sub[s].state = "unscheduled"]
    IN  /\ stack # << >> /\ Top.at = "loop" /\ throws = 0 /\ queue # << >>
        /\ Becomes(IF sub[s].state = "canceled" THEN w
                   ELSE Send([w EXCEPT !.sub[s].events = Tail(@)], s, Head(sub[s].events)))
        /\ Same

User ==
    \/ \E what \in {"data", "error"} : Add(what)
    \/ Close \/ Done
    \/ \E s \in Sub : Listen(s) \/ Pause(s) \/ Resume(s) \/ UserCancel(s)

Run ==
    \/ CallbackReturns \/ SendLast \/ FireNext \/ Fired \/ FireEnd \/ Drain
    \/ MessageReturns \/ MessageThrows \/ LoopEnds \/ RunThrow \/ HandleNext

Next == User \/ Run \/ Message
Spec == Init /\ [][Next]_vars

-----------------------------------------------------------------------------
(* What the loop of _forEachListener still brings to a listener.           *)
Coming(s) ==
    LET here(f) == /\ f.at \in {"firing", "fired"} /\ f.sub # Null
                   /\ s \in Listeners(World) /\ sub[s].eventId = f.id
                   /\ f.at = "fired" => f.sub # s
        loops == SelectSeq(stack, here)
    IN  [i \in DOMAIN loops |-> loops[i].event]

(* stream_controller.dart:103: events go to "all currently subscribed      *)
(* listeners".  Whoever is added, canceled or paused by callbacks while an *)
(* event is fired, each subscription hears just the events sent while it   *)
(* was a listener, in order, and none after it was canceled.               *)
ListenersHearAll ==
    \A s \in Sub :
        /\ IF sub[s].canceled THEN heard[s] = SubSeq(due[s], 1, Len(heard[s]))
           ELSE heard[s] \o sub[s].events \o Coming(s) = due[s]
        /\ quit[s] # Null => Len(heard[s]) = quit[s]

(* stream_controller.dart:134: when no event is fired, the last hook that  *)
(* was called is onListen if and only if somebody listens, and after close *)
(* its future has been completed, once, if and only if nobody does.        *)
SourceKnowsListeners ==
    ~ctl.firing =>
        /\ told = "onListen" <=> ~IsEmpty(World)
        /\ ctl.closed => ctl.done = IF IsEmpty(World) THEN "complete" ELSE "incomplete"

(* The same line says more: onListen is called again only after onCancel.  *)
(* This does not hold for a listener that cancels itself and listens again *)
(* in its handler, if it was the only one of a synchronous controller.     *)
HooksTakeTurns ==
    [][\A s \in Sub : ctl'.next = <<s>> /\ ctl.next = << >> => told # "onListen"]_vars
================================================================================
