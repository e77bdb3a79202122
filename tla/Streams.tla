-------------------------------- MODULE Streams --------------------------------
(***************************************************************************)
(* A single-subscription stream: the controller of                         *)
(* sdk/lib/async/stream_controller.dart and the buffering subscription of  *)
(* sdk/lib/async/stream_impl.dart, with the handlers and hooks of users    *)
(* that call both of them again.  The calls in progress are a stack; the   *)
(* microtasks are the queue that MicrotaskQueue describes, apart from      *)
(* those of handleUncaughtError, which come first and are only counted.    *)
(***************************************************************************)
EXTENDS Integers, Sequences

CONSTANTS
    Null,
    MaxAdds,        \* bound: data and errors that are added
    MaxPauses,      \* bound: calls of pause
    MaxThrows,      \* bound: errors that wait to be thrown
    MaxMessages     \* bound: messages the isolate handles

VARIABLES
    ctl,        \* the controller
    sub,        \* the subscription
    pending,    \* its _PendingEvents, before listen the controller's
    queue,      \* microtasks
    stack,      \* the calls in progress, the innermost first
    throws,     \* priority microtasks, each of which throws an uncaught error
    told,       \* history: the last hook called was onPause
    sent,       \* history: the events the controller has accepted
    heard,      \* history: the events given to the handlers
    quit,       \* history: the user has called cancel, see UserCancel
    pauses, messages

vars == <<ctl, sub, pending, queue, stack, throws, told, sent, heard, quit, pauses,
          messages>>

Init ==
    /\ \E sync \in BOOLEAN :
          ctl = [sync |-> sync, state |-> "initial", closed |-> FALSE, done |-> "none"]
    /\ \E cancelOnError \in BOOLEAN :
          sub = [cancelOnError |-> cancelOnError, inputPaused |-> FALSE, canceled |-> FALSE,
                 waitForCancel |-> FALSE, inCallback |-> FALSE, hasPending |-> FALSE,
                 pauseCount |-> 0, last |-> Null, cancelFuture |-> "none"]
    /\ pending = [events |-> << >>, state |-> "unscheduled"]
    /\ queue = << >> /\ stack = << >> /\ throws = 0
    /\ told = FALSE /\ sent = << >> /\ heard = << >> /\ quit = FALSE
    /\ pauses = 0 /\ messages = 0

World ==
    [ctl |-> ctl, sub |-> sub, pending |-> pending, queue |-> queue, stack |-> stack,
     told |-> told, heard |-> heard]
Becomes(w) ==
    /\ ctl' = w.ctl /\ sub' = w.sub /\ pending' = w.pending /\ queue' = w.queue
    /\ stack' = w.stack /\ told' = w.told /\ heard' = w.heard

(* A call of user code.  was is wasInputPaused, event what is sent after   *)
(* onCancel.                                                               *)
Frame(at, was, event) == [at |-> at, was |-> was, event |-> event]
Push(w, frame) == [w EXCEPT !.stack = <<frame>> \o @]
Enter(w, frame) == Push([w EXCEPT !.sub.inCallback = TRUE], frame)
Leave(w) == [w EXCEPT !.sub.inCallback = FALSE, !.stack = Tail(@)]

-----------------------------------------------------------------------------
(* _PendingEvents and _BufferingStreamSubscription.                        *)

Schedule(w) ==
    CASE w.pending.state = "scheduled" -> w
      [] w.pending.state = "canceled" -> [w EXCEPT !.pending.state = "scheduled"]
      [] OTHER -> [w EXCEPT !.pending.state = "scheduled", !.queue = Append(@, "handleNext")]

CancelSchedule(w) ==
    IF w.pending.state = "scheduled" THEN [w EXCEPT !.pending.state = "canceled"] ELSE w

AddPending(w, event) ==
    LET added == [w EXCEPT !.pending.events = Append(@, event), !.sub.hasPending = TRUE]
    IN  IF ~w.sub.hasPending /\ w.sub.pauseCount = 0 THEN Schedule(added) ELSE added

(* Mutant: pending events are overtaken.                                   *)
NotPaused(w) == ~w.sub.inCallback /\ w.sub.pauseCount = 0

(* Mutant: a pause is forgotten.                                           *)
FiresWhilePaused(w) == ~w.sub.inCallback /\ ~w.sub.hasPending

CanFire(w) == ~w.sub.inCallback /\ ~w.sub.hasPending /\ w.sub.pauseCount = 0

(* _guardCallback of onPause or onResume, and the same call in _checkState. *)
Hook(w, at) ==
    LET paused == w.sub.inputPaused
    IN  [Enter(w, Frame(at, paused, Null)) EXCEPT !.told = paused]

(* Mutant: changes made by the hook are not looked at.                     *)
TellOnce(w, was) ==
    CASE w.sub.canceled -> [w EXCEPT !.pending.events = << >>]
      [] ~w.sub.canceled /\ was # w.sub.inputPaused -> Hook(w, "last")
      [] OTHER -> IF w.sub.hasPending /\ w.sub.pauseCount = 0 THEN Schedule(w) ELSE w

(* The loop of _checkState: tell the source what has changed.              *)
TellSource(w, was) ==
    CASE w.sub.canceled -> [w EXCEPT !.pending.events = << >>]
      [] ~w.sub.canceled /\ was # w.sub.inputPaused -> Hook(w, "again")
      [] OTHER -> IF w.sub.hasPending /\ w.sub.pauseCount = 0 THEN Schedule(w) ELSE w

CheckState(w, was) ==
    LET empty == w.sub.hasPending /\ w.pending.events = << >>
        resumes == empty /\ w.sub.pauseCount = 0
    IN  TellSource([w EXCEPT !.sub.hasPending = @ /\ ~empty,
                             !.sub.inputPaused = @ /\ ~resumes], was)

(* _cancel, with _recordCancel up to the call of onCancel; event is sent   *)
(* after it.                                                               *)
Cancel(w, event) ==
    LET off == IF w.sub.hasPending THEN CancelSchedule(w) ELSE w
    IN  Push([off EXCEPT !.sub.canceled = TRUE,
                         !.pending.events = IF w.sub.inCallback THEN @ ELSE << >>,
                         !.ctl.state = "canceled"],
             Frame("onCancel", FALSE, event))

(* _sendData, _sendError and _sendDone.                                    *)
Send(w, event) ==
    CASE event[1] = "done" -> Cancel(w, event)
      [] event[1] = "error" /\ w.sub.cancelOnError ->
           Cancel([w EXCEPT !.sub.waitForCancel = TRUE], event)
      [] OTHER -> Enter([w EXCEPT !.heard = Append(@, event)],
                        Frame("handler", w.sub.inputPaused, event))

(* The function complete of _recordCancel, then sendError or sendDone,     *)
(* once onCancel is through.                                               *)
AfterOnCancel(w, event) ==
    LET v == [w EXCEPT !.ctl.done = IF @ = "incomplete" THEN "complete" ELSE @]
    IN  IF event # Null /\ w.sub.waitForCancel
          THEN Enter([v EXCEPT !.heard = Append(@, event)], Frame("last", FALSE, event))
          ELSE v

-----------------------------------------------------------------------------
(* What user code does, in the handler of a message or in a callback.      *)

Top == stack[1]
InUserCode == stack # << >> /\ Top.at # "loop"
HasSubscription == ctl.state # "initial" /\ \A i \in DOMAIN stack : stack[i].at # "onListen"
SameUser == UNCHANGED <<sent, quit, pauses, messages>>
Same == SameUser /\ UNCHANGED throws

(* _ensureDoneFuture.                                                      *)
EnsureDoneFuture(w) ==
    IF w.ctl.done # "none" THEN w
    ELSE [w EXCEPT !.ctl.done = IF w.ctl.state = "canceled" THEN "complete" ELSE "incomplete"]

(* _add, _addError and _closeUnchecked, with the dispatch of both kinds.   *)
AddEvent(w, event) ==
    CASE w.ctl.state = "initial" -> [w EXCEPT !.pending.events = Append(@, event)]
      [] w.ctl.state = "canceled" -> w
      [] OTHER -> IF w.ctl.sync /\ CanFire(w) THEN Send(w, event) ELSE AddPending(w, event)

Accepted(event) == sent' = IF ctl.state = "canceled" THEN sent ELSE Append(sent, event)

(* The controller's add and addError.                                      *)
Add(kind) ==
    LET event == <<kind, Len(sent) + 1>>
    IN  /\ InUserCode /\ ~ctl.closed /\ Len(sent) < MaxAdds
        /\ Becomes(AddEvent(World, event)) /\ Accepted(event)
        /\ UNCHANGED <<quit, pauses, messages, throws>>

Close ==
    LET event == <<"done", Len(sent) + 1>>
    IN  /\ InUserCode /\ ~ctl.closed
        /\ Becomes(EnsureDoneFuture(AddEvent([World EXCEPT !.ctl.closed = TRUE], event)))
        /\ Accepted(event)
        /\ UNCHANGED <<quit, pauses, messages, throws>>

(* The getter done, and close once more.                                   *)
Done ==
    /\ InUserCode /\ ctl.done = "none"
    /\ Becomes(EnsureDoneFuture(World))
    /\ Same

(* _subscribe, with _setPendingEvents and the call of onListen.            *)
Listen ==
    LET w == [World EXCEPT !.ctl.state = "subscribed"]
        ready == IF pending.events = << >> THEN w
                 ELSE Schedule([w EXCEPT !.sub.hasPending = TRUE])
    IN  /\ InUserCode /\ ctl.state = "initial"
        /\ Becomes(Enter(ready, Frame("onListen", FALSE, Null)))
        /\ Same

Pause ==
    LET w == [World EXCEPT !.sub.pauseCount = @ + 1, !.sub.inputPaused = TRUE]
        off == IF sub.pauseCount = 0 THEN CancelSchedule(w) ELSE w
    IN  /\ InUserCode /\ HasSubscription /\ ~sub.canceled /\ pauses < MaxPauses
        /\ pauses' = pauses + 1
        /\ Becomes(IF ~sub.inputPaused /\ ~sub.inCallback THEN Hook(off, "onPause") ELSE off)
        /\ UNCHANGED <<sent, quit, messages, throws>>

Resume ==
    LET w == [World EXCEPT !.sub.pauseCount = @ - 1]
        open == [w EXCEPT !.sub.inputPaused = FALSE]
    IN  /\ InUserCode /\ HasSubscription /\ ~sub.canceled /\ sub.pauseCount > 0
        /\ Becomes(CASE sub.pauseCount > 1 -> w
                     [] sub.pauseCount = 1 /\ sub.hasPending /\ pending.events # << >> -> Schedule(w)
                     [] OTHER -> IF sub.inCallback THEN open ELSE Hook(open, "onResume"))
        /\ Same

(* cancel, which also discards an event that waits for onCancel.  Only     *)
(* _sendDone sets waitForCancel after _cancel, so that a call from within  *)
(* the onCancel of a done event has no effect and is not counted in quit.  *)
OnCancelOfDone == \E i \in DOMAIN stack : stack[i].at = "onCancel" /\ stack[i].event # Null
                                              /\ stack[i].event[1] = "done"
UserCancel ==
    LET w == [World EXCEPT !.sub.waitForCancel = FALSE]
    IN  /\ InUserCode /\ HasSubscription
        /\ quit' = (quit \/ ~OnCancelOfDone)
        /\ Becomes(IF sub.canceled THEN w ELSE Cancel(w, Null))
        /\ UNCHANGED <<sent, pauses, messages, throws>>

(* _rootHandleUncaughtError: a microtask before all others is to throw the *)
(* error.                                                                  *)
HandleUncaughtError == throws < MaxThrows /\ throws' = throws + 1

(* A handler or a hook returns.  If it throws, the error is reported       *)
(* (runUnaryGuarded, _runGuarded) and the rest is the same.                *)
CallbackReturns ==
    /\ stack # << >>
    /\ CASE Top.at \in {"handler", "onListen", "onPause", "onResume"} ->
              Becomes(CheckState(Leave(World), Top.was))
         [] Top.at = "again" -> Becomes(TellSource(Leave(World), Top.was))
         [] Top.at = "last" -> Becomes(Leave(World))
         [] OTHER -> FALSE
    /\ UNCHANGED throws \/ HandleUncaughtError
    /\ SameUser

(* onCancel returns no future, one that is not complete, or one that has a *)
(* value or an error; if it throws, _recordCancel makes one with an error. *)
OnCancelReturns(result) ==
    LET event == Top.event
        w == [World EXCEPT !.stack = Tail(@),
                           !.sub.waitForCancel = @ \/ (event # Null /\ event[1] = "done")]
        waits == [w EXCEPT !.sub.cancelFuture = result, !.sub.last = event]
    IN  /\ stack # << >> /\ Top.at = "onCancel"
        /\ Becomes(CASE result = "none" -> AfterOnCancel(w, event)
                     [] result = "incomplete" -> waits
                     [] OTHER -> [waits EXCEPT !.queue = Append(@, "canceled")])
        /\ Same

(* The user completes the future of onCancel, which takes a microtask.     *)
CompleteCancelFuture(result) ==
    /\ stack = << >> /\ sub.cancelFuture = "incomplete"
    /\ Becomes([World EXCEPT !.sub.cancelFuture = result, !.queue = Append(@, "canceled"),
                             !.stack = <<Frame("loop", FALSE, Null)>>])
    /\ Same

-----------------------------------------------------------------------------
(* The event loop.  Microtasks that an error has left are run after the    *)
(* handler of the next message.                                            *)

Message ==
    /\ stack = << >> /\ messages < MaxMessages
    /\ messages' = messages + 1
    /\ Becomes([World EXCEPT !.stack = <<Frame("message", FALSE, Null)>>])
    /\ UNCHANGED <<sent, quit, pauses, throws>>

MessageReturns ==
    /\ stack # << >> /\ Top.at = "message"
    /\ Becomes([World EXCEPT !.stack = <<Frame("loop", FALSE, Null)>>])
    /\ Same

(* Mutant: the rest of the microtasks is not scheduled after an exception. *)
ForgetMicrotasks == Becomes([World EXCEPT !.stack = << >>, !.queue = << >>]) /\ SameUser

(* An unhandled exception is back in the MessageHandler of the VM, for     *)
(* which this message is done.  If errors are fatal the isolate ends, and  *)
(* no other message comes.                                                 *)
Unhandled == Becomes([World EXCEPT !.stack = << >>]) /\ SameUser

MessageThrows ==
    /\ stack # << >> /\ Top.at = "message"
    /\ Unhandled /\ UNCHANGED throws

(* The next turn of _microtaskLoop, or its end.                            *)
LoopRuns(microtask) ==
    /\ stack # << >> /\ Top.at = "loop" /\ throws = 0
    /\ queue # << >> /\ Head(queue) = microtask

LoopEnds ==
    /\ stack # << >> /\ Top.at = "loop" /\ throws = 0 /\ queue = << >>
    /\ Becomes([World EXCEPT !.stack = << >>])
    /\ Same

(* The microtask of handleUncaughtError throws out of the loop.            *)
RunThrow ==
    /\ stack # << >> /\ Top.at = "loop" /\ throws > 0
    /\ throws' = throws - 1
    /\ Unhandled

(* The microtask of schedule, with handleNext.                             *)
HandleNext ==
    LET w == [World EXCEPT !.queue = Tail(@), !.pending.state = "unscheduled"]
    IN  /\ LoopRuns("handleNext")
        /\ Becomes(IF pending.state = "canceled" THEN w
                   ELSE Send([w EXCEPT !.pending.events = Tail(@)], Head(pending.events)))
        /\ Same

(* The microtask that completes the future of onCancel.  An error is       *)
(* passed on to the future of whenComplete: nobody listens to that of      *)
(* _sendError and _sendDone, users may to that of cancel.                  *)
CancelCompleted ==
    LET w == [World EXCEPT !.queue = Tail(@), !.sub.last = Null, !.sub.cancelFuture = "complete"]
    IN  /\ LoopRuns("canceled")
        /\ Becomes(AfterOnCancel(w, sub.last))
        /\ \/ sub.cancelFuture = "error" /\ HandleUncaughtError
           \/ (sub.cancelFuture = "error" => sub.last = Null) /\ UNCHANGED throws
        /\ SameUser

User ==
    \/ \E kind \in {"data", "error"} : Add(kind)
    \/ Close \/ Done \/ Listen \/ Pause \/ Resume \/ UserCancel

Futures == {"none", "incomplete", "value", "error"}

Run ==
    \/ CallbackReturns \/ (\E result \in Futures : OnCancelReturns(result))
    \/ MessageReturns \/ MessageThrows \/ LoopEnds \/ RunThrow
    \/ HandleNext \/ CancelCompleted

Next ==
    \/ User \/ Run \/ Message
    \/ \E result \in {"value", "error"} : CompleteCancelFuture(result)
Spec == Init /\ [][Next]_vars

(* Calls return or throw, and the loop goes on until it ends or a          *)
(* microtask throws.  Nothing says that another message comes.             *)
FairSpec == Spec /\ WF_vars(Run)

-----------------------------------------------------------------------------
(* No event is lost, repeated or out of order, be it sent at once or kept  *)
(* until the subscription is listened to, resumed or out of a callback:    *)
(* the events heard and those pending are the events sent, and those heard *)
(* begin them after the subscription is canceled.                          *)
EventsInOrder ==
    IF sub.canceled THEN heard = SubSeq(sent, 1, Len(heard)) ELSE heard \o pending.events = sent

(* A handler is called only if the subscription is not paused, none of its *)
(* callbacks is running (the assertions of _sendData and its like) and the *)
(* user has not called cancel.  A cancel made within the onCancel of the   *)
(* done event is not recorded by the code and does not count in quit.      *)
QuietWhenAsked ==
    [][heard' # heard => sub.pauseCount = 0 /\ ~sub.inCallback /\ ~quit]_vars

(* The source is told of every change, changes that its hooks and other    *)
(* callbacks make included: outside of callbacks the last hook called is   *)
(* onPause if and only if the input is paused (_checkState).               *)
SourceIsTold ==
    ~sub.inCallback /\ ~sub.canceled => told = sub.inputPaused

(* What is left to do: to give an event to the handlers, unless the user   *)
(* has paused or canceled the subscription or an error has ended it; to    *)
(* complete the future of close when the subscription is over.  Both wait  *)
(* for the future of onCancel and, if an uncaught error has ended the loop *)
(* with microtasks left, for the next message.                             *)
LeftByError == stack = << >> /\ queue # << >>
EndedByError == sub.cancelOnError /\ heard # << >> /\ heard[Len(heard)][1] = "error"
Owed ==
    /\ ~LeftByError /\ sub.cancelFuture # "incomplete"
    /\ \/ /\ ctl.state # "initial" /\ Len(heard) < Len(sent)
          /\ sub.pauseCount = 0 /\ ~quit /\ ~EndedByError
       \/ ctl.done = "incomplete" /\ sub.canceled

(* All of it is done: as only so many events are added, there comes a time *)
(* when every one has been heard.  schedule, cancelSchedule, the microtask *)
(* that cannot be recalled and those left by an error never leave events   *)
(* behind.                                                                 *)
EventsAreHeard == []<>~Owed
================================================================================
