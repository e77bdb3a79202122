----------------------------- MODULE StreamsProofs -----------------------------
(***************************************************************************)
(* Proofs about Streams, for any number of events, pauses and messages.    *)
(* The argument: the calls in progress always have one of six shapes       *)
(* (StackInv), because a callback of a subscription is never entered from  *)
(* within another one and onCancel is called once; a microtask is          *)
(* scheduled only while there is an event that may be sent (PendingInv);   *)
(* and an event that waits for onCancel is the next one to be heard and    *)
(* cannot be let through after a call of cancel (HeldInv, OrderInv).       *)
(***************************************************************************)
EXTENDS Streams, SequenceTheorems, TLAPS

Events == {"data", "error", "done"} \X Nat
Bottom == {"message", "loop"}
Callbacks == {"handler", "onListen", "onPause", "onResume", "again"}
Frames == [at : Bottom \cup Callbacks \cup {"onCancel", "last"}, was : BOOLEAN,
           event : Events \cup {Null}]

Ctls == [sync : BOOLEAN, state : {"initial", "subscribed", "canceled"}, closed : BOOLEAN,
         done : {"none", "incomplete", "complete"}]
Subs == [cancelOnError : BOOLEAN, inputPaused : BOOLEAN, canceled : BOOLEAN,
         waitForCancel : BOOLEAN, inCallback : BOOLEAN, hasPending : BOOLEAN,
         pauseCount : Nat, last : Events \cup {Null},
         cancelFuture : Futures \cup {"complete"}]
Pendings == [events : Seq(Events), state : {"unscheduled", "scheduled", "canceled"}]
Worlds == [ctl : Ctls, sub : Subs, pending : Pendings, queue : Seq({"handleNext", "canceled"}),
           stack : Seq(Frames), told : BOOLEAN, heard : Seq(Events)]

(* The shapes of the stack.                                                *)
Running(w) == Len(w.stack) = 1 /\ w.stack[1].at \in Bottom /\ ~w.sub.inCallback
Calling(w) ==
    /\ Len(w.stack) = 2 /\ w.stack[1].at \in Callbacks /\ w.stack[2].at \in Bottom
    /\ w.sub.inCallback
    /\ ~w.sub.canceled => w.told = w.stack[1].was
Canceling(w) ==
    /\ Len(w.stack) = 2 /\ w.stack[1].at = "onCancel" /\ w.stack[2].at \in Bottom
    /\ ~w.sub.inCallback /\ w.sub.canceled /\ w.sub.last = Null
    /\ w.stack[1].event # Null => w.sub.pauseCount = 0
CancelingInside(w) ==
    /\ Len(w.stack) = 3 /\ w.stack[1].at = "onCancel" /\ w.stack[2].at \in Callbacks
    /\ w.stack[3].at \in Bottom /\ w.stack[1].event = Null
    /\ w.sub.inCallback /\ w.sub.canceled /\ w.sub.last = Null
Ending(w) ==
    /\ Len(w.stack) = 2 /\ w.stack[1].at = "last" /\ w.stack[2].at \in Bottom
    /\ w.sub.inCallback /\ w.sub.canceled /\ w.sub.last = Null

StackInv(w) ==
    \/ w.stack = << >> /\ ~w.sub.inCallback
    \/ Running(w) \/ Calling(w) \/ Canceling(w) \/ CancelingInside(w) \/ Ending(w)

StateInv(w) ==
    /\ w.sub.canceled <=> w.ctl.state = "canceled"
    /\ w.ctl.state = "initial" =>
          /\ ~w.sub.inCallback /\ ~w.sub.hasPending /\ w.sub.pauseCount = 0
          /\ ~w.sub.inputPaused /\ ~w.told
          /\ w.pending.state = "unscheduled" /\ w.heard = << >>
    /\ ~w.sub.inCallback /\ ~w.sub.canceled => w.told = w.sub.inputPaused

InHandler(w) == w.stack # << >> /\ w.stack[1].at = "handler"

PendingInv(w) ==
    /\ w.pending.state = "scheduled" =>
          /\ ~w.sub.canceled /\ w.sub.hasPending /\ w.sub.pauseCount = 0
          /\ w.pending.events # << >>
    /\ w.sub.hasPending /\ ~w.sub.canceled /\ ~InHandler(w) => w.pending.events # << >>
    /\ ~w.sub.hasPending /\ w.ctl.state = "subscribed" => w.pending.events = << >>

(* There is at most one microtask, and none while it is unscheduled.       *)
QueueInv(w) ==
    \A i \in 1 .. Len(w.queue) :
        w.queue[i] = "handleNext" =>
            /\ w.pending.state # "unscheduled"
            /\ \A j \in 1 .. Len(w.queue) : w.queue[j] = "handleNext" => i = j

(* q is quit.                                                              *)
OnCancelOf(w, kind) ==
    /\ w.stack # << >> /\ w.stack[1].at = "onCancel"
    /\ w.stack[1].event # Null /\ w.stack[1].event[1] = kind
HeldInv(w, q) ==
    /\ w.sub.last # Null => w.sub.canceled /\ w.sub.pauseCount = 0
    /\ q => w.sub.canceled /\ ~w.sub.waitForCancel /\ ~OnCancelOf(w, "done")

(* s is sent: e comes after the events heard; events are the rest.         *)
Begins(h, s) == Len(h) <= Len(s) /\ \A i \in 1 .. Len(h) : h[i] = s[i]
NextIs(h, e, s) == Len(h) < Len(s) /\ s[Len(h) + 1] = e
RestIs(h, events, s) ==
    /\ Len(s) = Len(h) + Len(events)
    /\ \A i \in 1 .. Len(events) : events[i] = s[Len(h) + i]
OrderInv(w, s) ==
    /\ Begins(w.heard, s)
    /\ ~w.sub.canceled => RestIs(w.heard, w.pending.events, s)
    /\ w.sub.last # Null => NextIs(w.heard, w.sub.last, s)
    /\ (w.stack # << >> /\ w.stack[1].at = "onCancel" /\ w.stack[1].event # Null)
          => NextIs(w.heard, w.stack[1].event, s)

Good(w, s, q) ==
    /\ w \in Worlds /\ StackInv(w) /\ StateInv(w) /\ PendingInv(w) /\ QueueInv(w)
    /\ HeldInv(w, q) /\ OrderInv(w, s)

Inv == sent \in Seq(Events) /\ quit \in BOOLEAN /\ Good(World, sent, quit)

-----------------------------------------------------------------------------
(* What the helpers do to a world.                                         *)

SameButStack(v, w) ==
    /\ v.ctl = w.ctl /\ v.pending = w.pending /\ v.queue = w.queue
    /\ v.told = w.told /\ v.heard = w.heard

LEMMA PushFacts ==
    ASSUME NEW w \in Worlds, NEW f \in Frames
    PROVE  /\ Push(w, f) \in Worlds
           /\ SameButStack(Push(w, f), w) /\ Push(w, f).sub = w.sub
           /\ Len(Push(w, f).stack) = Len(w.stack) + 1
           /\ Push(w, f).stack[1] = f
           /\ \A i \in 1 .. Len(w.stack) : Push(w, f).stack[i + 1] = w.stack[i]
  <1> DEFINE st == <<f>> \o w.stack
  <1>1. w.stack \in Seq(Frames)
    BY DEF Worlds
  <1>2. /\ st \in Seq(Frames) /\ Len(st) = Len(w.stack) + 1 /\ st[1] = f
        /\ \A i \in 1 .. Len(w.stack) : st[i + 1] = w.stack[i]
    BY <1>1
  <1>3. Push(w, f) = [w EXCEPT !.stack = st]
    BY DEF Push
  <1> HIDE DEF st
  <1>. QED BY Zenon, <1>2, <1>3 DEF Worlds, SameButStack

LEMMA EnterFacts ==
    ASSUME NEW w \in Worlds, NEW f \in Frames
    PROVE  /\ Enter(w, f) \in Worlds
           /\ SameButStack(Enter(w, f), w)
           /\ Enter(w, f).sub = [w.sub EXCEPT !.inCallback = TRUE]
           /\ Len(Enter(w, f).stack) = Len(w.stack) + 1
           /\ Enter(w, f).stack[1] = f
           /\ \A i \in 1 .. Len(w.stack) : Enter(w, f).stack[i + 1] = w.stack[i]
  <1> DEFINE v == [w EXCEPT !.sub.inCallback = TRUE]
  <1>1. /\ v \in Worlds /\ SameButStack(v, w) /\ v.stack = w.stack
        /\ v.sub = [w.sub EXCEPT !.inCallback = TRUE]
    BY Zenon DEF Worlds, Subs, SameButStack
  <1>2. Enter(w, f) = Push(v, f)
    BY DEF Enter
  <1> HIDE DEF v
  <1>3. /\ Push(v, f) \in Worlds
        /\ SameButStack(Push(v, f), v) /\ Push(v, f).sub = v.sub
        /\ Len(Push(v, f).stack) = Len(v.stack) + 1
        /\ Push(v, f).stack[1] = f
        /\ \A i \in 1 .. Len(v.stack) : Push(v, f).stack[i + 1] = v.stack[i]
    BY Zenon, <1>1, PushFacts
  <1> DEFINE p == Push(v, f)
  <1> HIDE DEF p
  <1>4. SameButStack(p, w)
    BY <1>1, <1>3 DEF SameButStack, p
  <1>5. p \in Worlds /\ p.sub = [w.sub EXCEPT !.inCallback = TRUE]
    BY <1>1, <1>3 DEF p
  <1>6. /\ Len(p.stack) = Len(w.stack) + 1 /\ p.stack[1] = f
        /\ \A i \in 1 .. Len(w.stack) : p.stack[i + 1] = w.stack[i]
    BY <1>1, <1>3 DEF p
  <1>7. Enter(w, f) = p
    BY <1>2 DEF p
  <1>. QED BY <1>4, <1>5, <1>6, <1>7

LEMMA LeaveFacts ==
    ASSUME NEW w \in Worlds, w.stack # << >>
    PROVE  /\ Leave(w) \in Worlds
           /\ SameButStack(Leave(w), w)
           /\ Leave(w).sub = [w.sub EXCEPT !.inCallback = FALSE]
           /\ Len(Leave(w).stack) = Len(w.stack) - 1
           /\ \A i \in 1 .. Len(w.stack) - 1 : Leave(w).stack[i] = w.stack[i + 1]
  <1> DEFINE st == Tail(w.stack)
             b == [w.sub EXCEPT !.inCallback = FALSE]
  <1>1. w.stack \in Seq(Frames) /\ w.sub \in Subs
    BY DEF Worlds
  <1>2. /\ st \in Seq(Frames) /\ Len(st) = Len(w.stack) - 1
        /\ \A i \in 1 .. Len(w.stack) - 1 : st[i] = w.stack[i + 1]
    BY <1>1
  <1>3. b \in Subs
    BY Zenon, <1>1 DEF Subs
  <1>4. Leave(w) = [w EXCEPT !.sub = b, !.stack = st]
    BY <1>1 DEF Leave, Worlds
  <1> HIDE DEF st, b
  <1>5. /\ Leave(w) \in Worlds /\ SameButStack(Leave(w), w)
        /\ Leave(w).sub = b /\ Leave(w).stack = st
    BY Zenon, <1>2, <1>3, <1>4 DEF Worlds, SameButStack
  <1>. QED BY <1>2, <1>5 DEF b

SameButSchedule(v, w) ==
    /\ v.ctl = w.ctl /\ v.sub = w.sub /\ v.stack = w.stack /\ v.told = w.told
    /\ v.heard = w.heard /\ v.pending.events = w.pending.events

LEMMA ScheduleFacts ==
    ASSUME NEW w \in Worlds
    PROVE  /\ Schedule(w) \in Worlds /\ SameButSchedule(Schedule(w), w)
           /\ Schedule(w).pending.state = "scheduled"
           /\ QueueInv(w) => QueueInv(Schedule(w))
  <1> DEFINE p == [w.pending EXCEPT !.state = "scheduled"]
             u == Append(w.queue, "handleNext")
  <1>1. /\ w.pending \in Pendings /\ p \in Pendings /\ p.events = w.pending.events
        /\ p.state = "scheduled"
    BY DEF Worlds, Pendings
  <1>2. u \in Seq({"handleNext", "canceled"})
    BY DEF Worlds
  <1>3. CASE w.pending.state = "scheduled"
    BY <1>3 DEF Schedule, SameButSchedule
  <1>4. CASE w.pending.state = "canceled"
    <2> DEFINE v == [w EXCEPT !.pending = p]
    <2>1. Schedule(w) = v
      BY <1>4 DEF Schedule, Worlds
    <2> HIDE DEF p
    <2>2. v \in Worlds /\ SameButSchedule(v, w) /\ v.queue = w.queue /\ v.pending = p
      BY Zenon, <1>1 DEF Worlds, SameButSchedule
    <2> HIDE DEF v
    <2>3. QueueInv(w) => QueueInv(v)
      BY <1>1, <2>2 DEF QueueInv
    <2>. QED BY <1>1, <2>1, <2>2, <2>3
  <1>5. CASE w.pending.state \notin {"scheduled", "canceled"}
    <2> DEFINE v == [w EXCEPT !.pending = p, !.queue = u]
    <2>1. Schedule(w) = v
      BY <1>5 DEF Schedule, Worlds
    <2>2. /\ w.queue \in Seq({"handleNext", "canceled"}) /\ Len(u) = Len(w.queue) + 1
          /\ \A i \in 1 .. Len(w.queue) : u[i] = w.queue[i]
      BY DEF Worlds
    <2> HIDE DEF p, u
    <2>3. v \in Worlds /\ SameButSchedule(v, w) /\ v.queue = u /\ v.pending = p
      BY Zenon, <1>1, <1>2 DEF Worlds, SameButSchedule
    <2> HIDE DEF v
    <2>4. QueueInv(w) => QueueInv(v)
      <3>1. w.pending.state = "unscheduled"
        BY <1>1, <1>5 DEF Pendings
      <3>2. SUFFICES ASSUME QueueInv(w), NEW i \in 1 .. Len(u), u[i] = "handleNext"
                     PROVE  i = Len(u)
        BY <1>1, <2>3, <3>2 DEF QueueInv
      <3>. QED BY SMTT(40), <2>2, <3>1, <3>2 DEF QueueInv
    <2>. QED BY <1>1, <2>1, <2>3, <2>4
  <1>. QED BY <1>3, <1>4, <1>5

LEMMA CancelScheduleFacts ==
    ASSUME NEW w \in Worlds
    PROVE  /\ CancelSchedule(w) \in Worlds /\ SameButSchedule(CancelSchedule(w), w)
           /\ CancelSchedule(w).pending.state # "scheduled"
           /\ QueueInv(w) => QueueInv(CancelSchedule(w))
  <1> DEFINE p == [w.pending EXCEPT !.state = "canceled"]
  <1>1. /\ w.pending \in Pendings /\ p \in Pendings /\ p.events = w.pending.events
        /\ p.state = "canceled"
    BY DEF Worlds, Pendings
  <1>2. CASE w.pending.state = "scheduled"
    <2> DEFINE v == [w EXCEPT !.pending = p]
    <2>1. CancelSchedule(w) = v
      BY <1>2 DEF CancelSchedule, Worlds
    <2> HIDE DEF p
    <2>2. v \in Worlds /\ SameButSchedule(v, w) /\ v.queue = w.queue /\ v.pending = p
      BY Zenon, <1>1 DEF Worlds, SameButSchedule
    <2> HIDE DEF v
    <2>3. QueueInv(w) => QueueInv(v)
      BY <1>1, <2>2 DEF QueueInv
    <2>. QED BY <1>1, <2>1, <2>2, <2>3
  <1>3. CASE w.pending.state # "scheduled"
    BY <1>3 DEF CancelSchedule, SameButSchedule
  <1>. QED BY <1>2, <1>3

(* A hook is called: the frame keeps what the source is told.              *)
LEMMA HookFacts ==
    ASSUME NEW w \in Worlds, NEW at \in {"onPause", "onResume", "again"}
    PROVE  /\ Hook(w, at) \in Worlds
           /\ Hook(w, at).ctl = w.ctl /\ Hook(w, at).pending = w.pending
           /\ Hook(w, at).heard = w.heard /\ Hook(w, at).queue = w.queue
           /\ Hook(w, at).sub = [w.sub EXCEPT !.inCallback = TRUE]
           /\ Hook(w, at).told = w.sub.inputPaused
           /\ Len(Hook(w, at).stack) = Len(w.stack) + 1
           /\ Hook(w, at).stack[1] = Frame(at, w.sub.inputPaused, Null)
           /\ \A i \in 1 .. Len(w.stack) : Hook(w, at).stack[i + 1] = w.stack[i]
  <1> DEFINE f == Frame(at, w.sub.inputPaused, Null)
             v == Enter(w, f)
  <1>1. f \in Frames /\ w.sub.inputPaused \in BOOLEAN
    BY DEF Frame, Frames, Callbacks, Worlds, Subs
  <1>2. Hook(w, at) = [v EXCEPT !.told = w.sub.inputPaused]
    BY DEF Hook
  <1> HIDE DEF f
  <1>3. /\ v \in Worlds /\ SameButStack(v, w)
        /\ v.sub = [w.sub EXCEPT !.inCallback = TRUE]
        /\ Len(v.stack) = Len(w.stack) + 1 /\ v.stack[1] = f
        /\ \A i \in 1 .. Len(w.stack) : v.stack[i + 1] = w.stack[i]
    BY <1>1, EnterFacts
  <1> HIDE DEF v
  <1> DEFINE u == [v EXCEPT !.told = w.sub.inputPaused]
  <1>4. /\ u \in Worlds /\ u.ctl = v.ctl /\ u.pending = v.pending /\ u.heard = v.heard
        /\ u.sub = v.sub /\ u.told = w.sub.inputPaused /\ u.stack = v.stack
        /\ u.queue = v.queue
    BY Zenon, <1>1, <1>3 DEF Worlds
  <1> HIDE DEF u
  <1>5. /\ u \in Worlds /\ u.ctl = w.ctl /\ u.pending = w.pending /\ u.heard = w.heard
        /\ u.told = w.sub.inputPaused /\ u.queue = w.queue
    BY <1>3, <1>4 DEF SameButStack
  <1>6. /\ u.sub = [w.sub EXCEPT !.inCallback = TRUE]
        /\ Len(u.stack) = Len(w.stack) + 1 /\ u.stack[1] = f
        /\ \A i \in 1 .. Len(w.stack) : u.stack[i + 1] = w.stack[i]
    BY <1>3, <1>4
  <1>7. Hook(w, at) = u
    BY <1>2 DEF u
  <1>. QED BY <1>5, <1>6, <1>7 DEF f

-----------------------------------------------------------------------------
(* The operations keep the invariant.                                      *)

(* A callback may be entered when none is running.                         *)
LEMMA HookGood ==
    ASSUME NEW w \in Worlds, NEW at \in {"onPause", "onResume", "again"},
           NEW s \in Seq(Events), NEW q \in BOOLEAN,
           Running(w), ~w.sub.canceled, w.ctl.state = "subscribed",
           PendingInv(w), QueueInv(w), HeldInv(w, q), OrderInv(w, s)
    PROVE  Good(Hook(w, at), s, q) /\ Hook(w, at).heard = w.heard
  <1> DEFINE v == Hook(w, at)
  <1>1. /\ v \in Worlds /\ v.ctl = w.ctl /\ v.pending = w.pending /\ v.heard = w.heard
        /\ v.queue = w.queue
        /\ v.sub = [w.sub EXCEPT !.inCallback = TRUE] /\ v.told = w.sub.inputPaused
        /\ Len(v.stack) = Len(w.stack) + 1
        /\ v.stack[1] = Frame(at, w.sub.inputPaused, Null)
        /\ \A i \in 1 .. Len(w.stack) : v.stack[i + 1] = w.stack[i]
    BY ZenonT(40), HookFacts
  <1> HIDE DEF v
  <1>2. /\ w.sub \in Subs /\ v.sub.inCallback /\ v.sub.canceled = w.sub.canceled
        /\ v.sub.hasPending = w.sub.hasPending /\ v.sub.pauseCount = w.sub.pauseCount
        /\ v.sub.last = w.sub.last /\ v.sub.waitForCancel = w.sub.waitForCancel
    BY <1>1 DEF Worlds, Subs
  <1>3. /\ Len(v.stack) = 2 /\ v.stack # << >> /\ v.stack[2] = w.stack[1]
        /\ v.stack[1].at = at /\ v.stack[1].was = w.sub.inputPaused
        /\ v.stack[1].event = Null
    BY <1>1 DEF Running, Frame, Worlds
  <1>4. StackInv(v)
    BY <1>1, <1>2, <1>3 DEF StackInv, Calling, Callbacks, Running
  <1>5. StateInv(v)
    BY <1>1, <1>2 DEF StateInv
  <1>6. PendingInv(v)
    BY <1>1, <1>2, <1>3 DEF PendingInv, InHandler, Running, Bottom
  <1>7. HeldInv(v, q)
    BY <1>1, <1>2, <1>3 DEF HeldInv, OnCancelOf
  <1>8. OrderInv(v, s)
    BY <1>1, <1>2, <1>3 DEF OrderInv
  <1>9. QueueInv(v)
    BY <1>1 DEF QueueInv
  <1>. QED BY <1>1, <1>4, <1>5, <1>6, <1>7, <1>8, <1>9 DEF Good, v

LEMMA TellSourceGood ==
    ASSUME NEW w \in Worlds, NEW was \in BOOLEAN, NEW s \in Seq(Events), NEW q \in BOOLEAN,
           Running(w), w.sub.canceled <=> w.ctl.state = "canceled", w.ctl.state # "initial",
           ~w.sub.canceled => w.told = was,
           PendingInv(w), QueueInv(w), HeldInv(w, q), OrderInv(w, s)
    PROVE  Good(TellSource(w, was), s, q) /\ TellSource(w, was).heard = w.heard
  <1>1. /\ w.sub \in Subs /\ w.ctl \in Ctls /\ w.pending \in Pendings
        /\ w.stack \in Seq(Frames) /\ ~InHandler(w)
        /\ w.stack # << >> /\ w.stack[1].at # "onCancel"
    BY DEF Worlds, Running, InHandler, Bottom
  <1>2. CASE w.sub.canceled
    <2> DEFINE p == [w.pending EXCEPT !.events = << >>]
               v == [w EXCEPT !.pending = p]
    <2>1. TellSource(w, was) = v
      BY <1>2 DEF TellSource, Worlds
    <2>2. p \in Pendings /\ p.state = w.pending.state
      <3>1. << >> \in Seq(Events)
        OBVIOUS
      <3>. QED BY Zenon, <1>1, <3>1 DEF Pendings
    <2> HIDE DEF p
    <2>3. /\ v \in Worlds /\ v.ctl = w.ctl /\ v.sub = w.sub /\ v.stack = w.stack
          /\ v.told = w.told /\ v.heard = w.heard /\ v.pending = p /\ v.queue = w.queue
      BY Zenon, <2>2 DEF Worlds
    <2> HIDE DEF v
    <2>4. StackInv(v) /\ StateInv(v)
      BY <1>2, <2>3 DEF StackInv, StateInv, Running
    <2>5. PendingInv(v)
      BY <1>1, <1>2, <2>2, <2>3 DEF PendingInv
    <2>6. HeldInv(v, q) /\ OrderInv(v, s)
      BY <1>2, <2>3 DEF HeldInv, OrderInv, OnCancelOf
    <2>7. QueueInv(v)
      BY <2>2, <2>3 DEF QueueInv
    <2>. QED BY <2>1, <2>3, <2>4, <2>5, <2>6, <2>7 DEF Good
  <1>3. CASE ~w.sub.canceled /\ was # w.sub.inputPaused
    <2>1. TellSource(w, was) = Hook(w, "again")
      BY <1>3 DEF TellSource
    <2>2. w.ctl.state = "subscribed"
      BY <1>1, <1>3 DEF Ctls
    <2>. QED BY <1>3, <2>1, <2>2, HookGood
  <1>4. CASE ~w.sub.canceled /\ was = w.sub.inputPaused
    <2>1. StackInv(w) /\ StateInv(w)
      BY <1>1, <1>4 DEF StackInv, StateInv, Running
    <2>2. Good(w, s, q)
      BY <2>1 DEF Good
    <2>3. CASE w.sub.hasPending /\ w.sub.pauseCount = 0
      <3> DEFINE v == Schedule(w)
      <3>1. TellSource(w, was) = v
        BY <1>4, <2>3 DEF TellSource
      <3>2. v \in Worlds /\ SameButSchedule(v, w) /\ QueueInv(v)
        BY ZenonT(40), ScheduleFacts
      <3> HIDE DEF v
      <3>3. StackInv(v) /\ HeldInv(v, q) /\ OrderInv(v, s)
        BY <2>1, <3>2 DEF SameButSchedule, StackInv, Running, Calling, Canceling,
              CancelingInside, Ending, HeldInv, OrderInv, OnCancelOf
      <3>4. StateInv(v)
        BY <1>4, <2>1, <3>2 DEF SameButSchedule, StateInv
      <3>5. PendingInv(v)
        BY <1>1, <1>4, <2>3, <3>2 DEF SameButSchedule, PendingInv, InHandler
      <3>. QED BY <3>1, <3>2, <3>3, <3>4, <3>5 DEF Good, SameButSchedule
    <2>4. CASE ~(w.sub.hasPending /\ w.sub.pauseCount = 0)
      BY <1>4, <2>2, <2>4 DEF TellSource
    <2>. QED BY <2>3, <2>4
  <1>5. w.sub.canceled \in BOOLEAN /\ w.sub.inputPaused \in BOOLEAN
    BY <1>1 DEF Subs
  <1>. QED BY <1>2, <1>3, <1>4, <1>5

(* PendingInv, while _checkState has not yet looked at what is pending.    *)
Unchecked(w) ==
    /\ w.pending.state = "scheduled" =>
          /\ ~w.sub.canceled /\ w.sub.hasPending /\ w.sub.pauseCount = 0
          /\ w.pending.events # << >>
    /\ ~w.sub.hasPending /\ w.ctl.state = "subscribed" => w.pending.events = << >>

LEMMA CheckStateGood ==
    ASSUME NEW w \in Worlds, NEW was \in BOOLEAN, NEW s \in Seq(Events), NEW q \in BOOLEAN,
           Running(w), w.sub.canceled <=> w.ctl.state = "canceled", w.ctl.state # "initial",
           ~w.sub.canceled => w.told = was,
           Unchecked(w), QueueInv(w), HeldInv(w, q), OrderInv(w, s)
    PROVE  Good(CheckState(w, was), s, q) /\ CheckState(w, was).heard = w.heard
  <1> DEFINE empty == w.sub.hasPending /\ w.pending.events = << >>
             resumes == empty /\ w.sub.pauseCount = 0
             b == [w.sub EXCEPT !.hasPending = @ /\ ~empty, !.inputPaused = @ /\ ~resumes]
             v == [w EXCEPT !.sub = b]
  <1>1. w.sub \in Subs /\ w.ctl \in Ctls
    BY DEF Worlds
  <1>2. CheckState(w, was) = TellSource(v, was)
    BY Zenon, <1>1 DEF CheckState, Worlds, Subs
  <1>3. /\ b \in Subs /\ b.canceled = w.sub.canceled /\ b.inCallback = w.sub.inCallback
        /\ b.pauseCount = w.sub.pauseCount /\ b.last = w.sub.last
        /\ b.waitForCancel = w.sub.waitForCancel
        /\ b.hasPending = (w.sub.hasPending /\ w.pending.events # << >>)
    BY ZenonT(40), <1>1 DEF Subs
  <1> HIDE DEF b
  <1>4. /\ v \in Worlds /\ v.ctl = w.ctl /\ v.sub = b /\ v.stack = w.stack
        /\ v.told = w.told /\ v.heard = w.heard /\ v.pending = w.pending /\ v.queue = w.queue
    BY Zenon, <1>3 DEF Worlds
  <1> HIDE DEF v
  <1>5. Running(v) /\ v.ctl.state # "initial"
    BY <1>3, <1>4 DEF Running
  <1>6. PendingInv(v) /\ QueueInv(v)
    <2>1. PendingInv(v)
      BY Zenon, <1>3, <1>4 DEF PendingInv, Unchecked
    <2>2. QueueInv(v)
      BY <1>4 DEF QueueInv
    <2>. QED BY <2>1, <2>2
  <1>7. HeldInv(v, q) /\ OrderInv(v, s)
    BY <1>3, <1>4 DEF HeldInv, OrderInv, OnCancelOf
  <1>8. /\ v.sub.canceled <=> v.ctl.state = "canceled"
        /\ ~v.sub.canceled => v.told = was
    BY <1>3, <1>4
  <1>. QED BY <1>2, <1>4, <1>5, <1>6, <1>7, <1>8, TellSourceGood

(* The event e, if any, waits for onCancel.                                *)
LEMMA CancelGood ==
    ASSUME NEW w \in Worlds, NEW e \in Events \cup {Null}, NEW s \in Seq(Events),
           NEW q \in BOOLEAN,
           Running(w) \/ Calling(w), w.sub.last = Null,
           e # Null => Running(w) /\ w.sub.pauseCount = 0 /\ NextIs(w.heard, e, s),
           w.pending.state = "scheduled" => w.sub.hasPending, QueueInv(w),
           Begins(w.heard, s), q => e = Null /\ ~w.sub.waitForCancel
    PROVE  Good(Cancel(w, e), s, q) /\ Cancel(w, e).heard = w.heard
  <1> DEFINE off == IF w.sub.hasPending THEN CancelSchedule(w) ELSE w
             b == [off.sub EXCEPT !.canceled = TRUE]
             p == [off.pending EXCEPT !.events = IF w.sub.inCallback THEN @ ELSE << >>]
             c == [off.ctl EXCEPT !.state = "canceled"]
             f == Frame("onCancel", FALSE, e)
             u == [off EXCEPT !.sub = b, !.pending = p, !.ctl = c]
             v == Push(u, f)
  <1>1. /\ off \in Worlds /\ off.sub = w.sub /\ off.stack = w.stack /\ off.heard = w.heard
        /\ off.pending.state # "scheduled" /\ QueueInv(off)
    BY CancelScheduleFacts DEF SameButSchedule
  <1>2. Cancel(w, e) = v
    BY <1>1 DEF Cancel, Worlds
  <1> HIDE DEF off
  <1>3. off.sub \in Subs /\ off.pending \in Pendings /\ off.ctl \in Ctls
    BY <1>1 DEF Worlds
  <1>4. /\ b \in Subs /\ b.canceled /\ b.inCallback = w.sub.inCallback
        /\ b.pauseCount = w.sub.pauseCount /\ b.last = w.sub.last
        /\ b.waitForCancel = w.sub.waitForCancel
    BY Zenon, <1>1, <1>3 DEF Subs
  <1>5. p \in Pendings /\ p.state = off.pending.state
    <2>1. << >> \in Seq(Events)
      OBVIOUS
    <2>. QED BY Zenon, <1>1, <1>3, <2>1 DEF Pendings
  <1>6. c \in Ctls /\ c.state = "canceled"
    BY <1>3 DEF Ctls
  <1>7. f \in Frames /\ f.at = "onCancel" /\ f.event = e
    BY DEF Frames, Frame
  <1> HIDE DEF b, p, c, f
  <1>8. /\ u \in Worlds /\ u.ctl = c /\ u.sub = b /\ u.pending = p /\ u.stack = w.stack
        /\ u.heard = w.heard /\ u.queue = off.queue
    BY ZenonT(40), <1>1, <1>4, <1>5, <1>6 DEF Worlds
  <1> HIDE DEF u
  <1>9. /\ v \in Worlds /\ SameButStack(v, u) /\ v.sub = u.sub
        /\ Len(v.stack) = Len(w.stack) + 1 /\ v.stack[1] = f
        /\ \A i \in 1 .. Len(w.stack) : v.stack[i + 1] = w.stack[i]
    BY SMTT(40), <1>7, <1>8, PushFacts
  <1> HIDE DEF v
  <1>10. /\ v.ctl.state = "canceled" /\ v.sub = b /\ v.heard = w.heard
         /\ v.pending.state = off.pending.state /\ v.queue = off.queue
         /\ v.stack # << >> /\ v.stack[1].at = "onCancel" /\ v.stack[1].event = e
    BY <1>5, <1>6, <1>7, <1>8, <1>9 DEF SameButStack
  <1>11. StackInv(v)
    <2>1. CASE Running(w)
      BY <1>4, <1>9, <1>10, <2>1 DEF StackInv, Canceling, Running
    <2>2. CASE Calling(w) /\ ~Running(w)
      <3>1. Len(v.stack) = 3 /\ v.stack[2] = w.stack[1] /\ v.stack[3] = w.stack[2]
        BY <1>9, <2>2 DEF Calling
      <3>2. CancelingInside(v)
        BY ZenonT(40), <1>4, <1>10, <2>2, <3>1 DEF CancelingInside, Calling
      <3>. QED BY <3>2 DEF StackInv
    <2>. QED BY <2>1, <2>2
  <1>12. StateInv(v) /\ PendingInv(v) /\ QueueInv(v)
    BY SMTT(40), <1>1, <1>4, <1>10 DEF StateInv, PendingInv, QueueInv
  <1>13. HeldInv(v, q)
    BY <1>4, <1>10 DEF HeldInv, OnCancelOf
  <1>14. OrderInv(v, s)
    BY <1>4, <1>10 DEF OrderInv
  <1>. QED BY <1>2, <1>9, <1>10, <1>11, <1>12, <1>13, <1>14 DEF Good

(* Nothing keeps an event from being sent.                                 *)
MaySend(w) ==
    /\ Running(w) /\ StateInv(w) /\ ~w.sub.canceled /\ w.sub.pauseCount = 0
    /\ w.ctl.state = "subscribed" /\ w.sub.last = Null /\ w.pending.state # "scheduled"
    /\ ~w.sub.hasPending => w.pending.events = << >>
    /\ QueueInv(w)

LEMMA SendGood ==
    ASSUME NEW w \in Worlds, NEW e \in Events, NEW s \in Seq(Events), MaySend(w),
           Begins(w.heard, s), NextIs(w.heard, e, s),
           RestIs(Append(w.heard, e), w.pending.events, s)
    PROVE  Good(Send(w, e), s, FALSE)
  <1>1. w.sub \in Subs /\ w.heard \in Seq(Events)
    BY DEF Worlds
  <1>2. CASE e[1] = "done"
    <2>1. Send(w, e) = Cancel(w, e)
      BY <1>2 DEF Send
    <2>. QED BY Zenon, <2>1, CancelGood DEF MaySend
  <1>3. CASE e[1] = "error" /\ w.sub.cancelOnError
    <2> DEFINE b == [w.sub EXCEPT !.waitForCancel = TRUE]
               v == [w EXCEPT !.sub = b]
    <2>1. Send(w, e) = Cancel(v, e)
      BY <1>3 DEF Send, Worlds
    <2>2. /\ b \in Subs /\ b.inCallback = w.sub.inCallback /\ b.last = w.sub.last
          /\ b.pauseCount = w.sub.pauseCount
      BY Zenon, <1>1 DEF Subs
    <2> HIDE DEF b
    <2>3. /\ v \in Worlds /\ v.sub = b /\ v.stack = w.stack /\ v.heard = w.heard
          /\ v.pending = w.pending /\ v.queue = w.queue
      BY ZenonT(40), <2>2 DEF Worlds
    <2> HIDE DEF v
    <2>4. Running(v) /\ v.sub.last = Null /\ v.pending.state # "scheduled" /\ QueueInv(v)
      BY <2>2, <2>3 DEF Running, MaySend, QueueInv
    <2>5. /\ v.sub.pauseCount = 0 /\ NextIs(v.heard, e, s) /\ Begins(v.heard, s)
      BY <2>2, <2>3 DEF MaySend
    <2>. QED BY Zenon, <2>1, <2>3, <2>4, <2>5, CancelGood
  <1>4. CASE e[1] # "done" /\ ~(e[1] = "error" /\ w.sub.cancelOnError)
    <2> DEFINE h == Append(w.heard, e)
               u == [w EXCEPT !.heard = h]
               f == Frame("handler", w.sub.inputPaused, e)
               v == Enter(u, f)
    <2>1. Send(w, e) = v
      BY <1>4 DEF Send
    <2>2. h \in Seq(Events) /\ Begins(h, s)
      BY <1>1 DEF Begins, NextIs
    <2>3. RestIs(h, w.pending.events, s)
      OBVIOUS
    <2> HIDE DEF h
    <2>4. /\ u \in Worlds /\ u.heard = h /\ u.ctl = w.ctl /\ u.sub = w.sub
          /\ u.pending = w.pending /\ u.told = w.told /\ u.stack = w.stack
          /\ u.queue = w.queue
      BY Zenon, <2>2 DEF Worlds
    <2>5. f \in Frames /\ f.at = "handler" /\ f.was = w.sub.inputPaused
      BY <1>1 DEF Frames, Frame, Callbacks, Subs
    <2> HIDE DEF u, f
    <2>6. /\ v \in Worlds /\ SameButStack(v, u)
          /\ v.sub = [w.sub EXCEPT !.inCallback = TRUE]
          /\ Len(v.stack) = Len(w.stack) + 1 /\ v.stack[1] = f
          /\ \A i \in 1 .. Len(w.stack) : v.stack[i + 1] = w.stack[i]
      BY <2>4, <2>5, EnterFacts
    <2> HIDE DEF v
    <2>7. /\ v.sub.inCallback /\ v.sub.canceled = w.sub.canceled
          /\ v.sub.hasPending = w.sub.hasPending /\ v.sub.pauseCount = w.sub.pauseCount
          /\ v.sub.last = w.sub.last
      BY <1>1, <2>6 DEF Subs
    <2>8. /\ v.ctl = w.ctl /\ v.pending = w.pending /\ v.told = w.told /\ v.heard = h
          /\ v.queue = w.queue
          /\ Len(v.stack) = 2 /\ v.stack # << >> /\ v.stack[2] = w.stack[1]
          /\ v.stack[1].at = "handler" /\ v.stack[1].was = w.sub.inputPaused
      BY <2>4, <2>5, <2>6 DEF SameButStack, MaySend, Running
    <2>9. Calling(v)
      BY Zenon, <2>7, <2>8 DEF Calling, Callbacks, MaySend, StateInv, Running
    <2>10. StackInv(v) /\ StateInv(v)
      BY ZenonT(40), <2>7, <2>8, <2>9 DEF StackInv, StateInv, MaySend
    <2>11. PendingInv(v) /\ QueueInv(v)
      BY SMTT(40), <2>7, <2>8 DEF PendingInv, InHandler, MaySend, QueueInv
    <2>12. HeldInv(v, FALSE) /\ OrderInv(v, s)
      BY SMTT(40), <2>2, <2>3, <2>7, <2>8 DEF HeldInv, OrderInv, MaySend
    <2>. QED BY Zenon, <2>1, <2>6, <2>10, <2>11, <2>12 DEF Good
  <1>. QED BY Zenon, <1>2, <1>3, <1>4

(* onCancel is through, and e is let through unless cancel was called.     *)
LEMMA AfterOnCancelGood ==
    ASSUME NEW w \in Worlds, NEW e \in Events \cup {Null}, NEW s \in Seq(Events),
           NEW q \in BOOLEAN,
           Running(w) \/ (Calling(w) /\ e = Null),
           w.sub.canceled, w.ctl.state = "canceled", w.sub.last = Null,
           w.pending.state # "scheduled", QueueInv(w), HeldInv(w, q), Begins(w.heard, s),
           e # Null => NextIs(w.heard, e, s)
    PROVE  /\ Good(AfterOnCancel(w, e), s, q)
           /\ AfterOnCancel(w, e).heard # w.heard => e # Null /\ w.sub.waitForCancel
  <1> DEFINE c == [w.ctl EXCEPT !.done = IF @ = "incomplete" THEN "complete" ELSE @]
             v == [w EXCEPT !.ctl = c]
  <1>1. /\ w.sub \in Subs /\ w.ctl \in Ctls /\ w.heard \in Seq(Events)
        /\ w.stack \in Seq(Frames)
    BY DEF Worlds
  <1>2. c \in Ctls /\ c.state = "canceled"
    BY Zenon, <1>1 DEF Ctls
  <1>3. AfterOnCancel(w, e) =
           IF e # Null /\ w.sub.waitForCancel
           THEN Enter([v EXCEPT !.heard = Append(@, e)], Frame("last", FALSE, e)) ELSE v
    BY DEF AfterOnCancel, Worlds
  <1> HIDE DEF c
  <1>4. /\ v \in Worlds /\ v.ctl = c /\ v.sub = w.sub /\ v.pending = w.pending
        /\ v.heard = w.heard /\ v.stack = w.stack /\ v.told = w.told /\ v.queue = w.queue
    BY Zenon, <1>2 DEF Worlds
  <1> HIDE DEF v
  <1>5. CASE ~(e # Null /\ w.sub.waitForCancel)
    <2>1. v.stack # << >> /\ v.stack[1].at # "onCancel"
      BY SMTT(40), <1>1, <1>4 DEF Running, Calling, Bottom, Callbacks
    <2>2. StackInv(v)
      BY ZenonT(40), <1>4 DEF StackInv, Running, Calling
    <2>3. StateInv(v) /\ PendingInv(v) /\ QueueInv(v) /\ HeldInv(v, q) /\ OrderInv(v, s)
      <3>1. StateInv(v) /\ PendingInv(v)
        <4>1. v.sub.canceled /\ v.pending.state # "scheduled" /\ v.ctl.state = "canceled"
          BY <1>2, <1>4
        <4>2. v.ctl.state # "initial" /\ v.ctl.state # "subscribed"
          BY <4>1
        <4>. QED BY Zenon, <4>1, <4>2 DEF StateInv, PendingInv
      <3>2. QueueInv(v)
        BY <1>4 DEF QueueInv
      <3>3. HeldInv(v, q)
        BY Zenon, <1>4, <2>1 DEF HeldInv, OnCancelOf
      <3>4. OrderInv(v, s)
        BY Zenon, <1>4, <2>1 DEF OrderInv
      <3>. QED BY Zenon, <3>1, <3>2, <3>3, <3>4
    <2>. QED BY ZenonT(40), <1>3, <1>4, <1>5, <2>2, <2>3 DEF Good
  <1>6. CASE e # Null /\ w.sub.waitForCancel
    <2> DEFINE h == Append(w.heard, e)
               u == [v EXCEPT !.heard = h]
               f == Frame("last", FALSE, e)
               x == Enter(u, f)
    <2>1. AfterOnCancel(w, e) = x
      BY <1>3, <1>4, <1>6
    <2>2. h \in Seq(Events) /\ Begins(h, s)
      BY <1>1, <1>6 DEF Begins, NextIs
    <2> HIDE DEF h
    <2>3. /\ u \in Worlds /\ u.heard = h /\ u.ctl = c /\ u.sub = w.sub
          /\ u.pending = w.pending /\ u.stack = w.stack /\ u.queue = w.queue
      BY Zenon, <1>4, <2>2 DEF Worlds
    <2>4. f \in Frames /\ f.at = "last"
      BY DEF Frames, Frame
    <2> HIDE DEF u, f
    <2>5. /\ x \in Worlds /\ SameButStack(x, u)
          /\ x.sub = [w.sub EXCEPT !.inCallback = TRUE]
          /\ Len(x.stack) = Len(w.stack) + 1 /\ x.stack[1] = f
          /\ \A i \in 1 .. Len(w.stack) : x.stack[i + 1] = w.stack[i]
      BY <2>3, <2>4, EnterFacts
    <2> HIDE DEF x
    <2>6. /\ x.sub.inCallback /\ x.sub.canceled /\ x.sub.last = Null
          /\ x.sub.waitForCancel
      BY <1>1, <1>6, <2>5 DEF Subs
    <2>7. /\ x.ctl.state = "canceled" /\ x.pending = w.pending /\ x.queue = w.queue
          /\ x.heard = h
          /\ Len(x.stack) = 2 /\ x.stack # << >> /\ x.stack[2] = w.stack[1]
          /\ x.stack[1].at = "last"
      <3>1. Len(w.stack) = 1
        BY <1>6 DEF Running
      <3>2. Len(x.stack) = 2 /\ x.stack # << >> /\ x.stack[2] = w.stack[1]
        BY <2>5, <3>1
      <3>3. x.ctl = c /\ x.pending = w.pending /\ x.heard = h /\ x.queue = w.queue
        BY <2>3, <2>5 DEF SameButStack
      <3>4. x.stack[1].at = "last"
        BY Zenon, <2>4, <2>5
      <3>. QED BY <1>2, <3>2, <3>3, <3>4
    <2>8. StackInv(x) /\ StateInv(x) /\ PendingInv(x)
      BY ZenonT(40), <1>6, <2>6, <2>7 DEF StackInv, Ending, Running, StateInv, PendingInv
    <2>9. HeldInv(x, q) /\ OrderInv(x, s)
      BY <1>6, <2>2, <2>6, <2>7 DEF HeldInv, OrderInv
    <2>10. QueueInv(x)
      BY <2>7 DEF QueueInv
    <2>. QED BY <1>6, <2>1, <2>5, <2>8, <2>9, <2>10 DEF Good
  <1>. QED BY <1>5, <1>6

LEMMA OrderFacts ==
    ASSUME NEW h \in Seq(Events), NEW r \in Seq(Events), NEW s \in Seq(Events),
           NEW e \in Events, Begins(h, s)
    PROVE  /\ Begins(h, Append(s, e))
           /\ RestIs(h, r, s) => RestIs(h, Append(r, e), Append(s, e))
           /\ RestIs(h, << >>, s) =>
                 NextIs(h, e, Append(s, e)) /\ RestIs(Append(h, e), << >>, Append(s, e))
           /\ (RestIs(h, r, s) /\ r # << >>) =>
                 NextIs(h, Head(r), s) /\ RestIs(Append(h, Head(r)), Tail(r), s)
  <1>1. Begins(h, Append(s, e))
    BY DEF Begins
  <1>2. RestIs(h, r, s) => RestIs(h, Append(r, e), Append(s, e))
    BY SMTT(40) DEF RestIs
  <1>3. RestIs(h, << >>, s) =>
           NextIs(h, e, Append(s, e)) /\ RestIs(Append(h, e), << >>, Append(s, e))
    BY DEF RestIs, NextIs
  <1>4. (RestIs(h, r, s) /\ r # << >>) =>
           NextIs(h, Head(r), s) /\ RestIs(Append(h, Head(r)), Tail(r), s)
    BY DEF RestIs, NextIs
  <1>. QED BY <1>1, <1>2, <1>3, <1>4

(* Fields of the controller other than its state do not matter.            *)
LEMMA ControllerGood ==
    ASSUME NEW w, NEW s \in Seq(Events), NEW q \in BOOLEAN, Good(w, s, q),
           NEW c \in Ctls, c.state = w.ctl.state
    PROVE  LET v == [w EXCEPT !.ctl = c]
           IN  /\ Good(v, s, q) /\ v.stack = w.stack /\ v.ctl = c
               /\ v.sub = w.sub /\ v.heard = w.heard
  <1> DEFINE v == [w EXCEPT !.ctl = c]
  <1>1. /\ v \in Worlds /\ v.ctl = c /\ v.sub = w.sub /\ v.pending = w.pending
        /\ v.heard = w.heard /\ v.stack = w.stack /\ v.told = w.told /\ v.queue = w.queue
    BY Zenon DEF Worlds, Good
  <1> HIDE DEF v
  <1>2. StackInv(v) /\ OrderInv(v, s)
    BY ZenonT(40), <1>1 DEF Good, StackInv, Running, Calling, Canceling, CancelingInside, Ending, OrderInv
  <1>3. StateInv(v) /\ PendingInv(v) /\ QueueInv(v) /\ HeldInv(v, q)
    <2>1. StateInv(w) /\ PendingInv(w) /\ QueueInv(w) /\ HeldInv(w, q)
      BY Zenon DEF Good
    <2>2. StateInv(v) /\ PendingInv(v)
      BY Zenon, <1>1, <2>1 DEF StateInv, PendingInv, InHandler
    <2>3. QueueInv(v)
      BY Zenon, <1>1, <2>1 DEF QueueInv
    <2>4. HeldInv(v, q)
      BY Zenon, <1>1, <2>1 DEF HeldInv, OnCancelOf
    <2>. QED BY Zenon, <2>2, <2>3, <2>4
  <1>4. Good(v, s, q)
    BY Zenon, <1>1, <1>2, <1>3 DEF Good
  <1>. QED BY <1>1, <1>4 DEF v

LEMMA AddPendingGood ==
    ASSUME NEW w, NEW s \in Seq(Events), NEW q \in BOOLEAN, Good(w, s, q), NEW e \in Events,
           w.ctl.state = "subscribed"
    PROVE  Good(AddPending(w, e), Append(s, e), q) /\ AddPending(w, e).heard = w.heard
  <1> DEFINE p == [w.pending EXCEPT !.events = Append(@, e)]
             b == [w.sub EXCEPT !.hasPending = TRUE]
             u == [w EXCEPT !.pending = p, !.sub = b]
             v == AddPending(w, e)
  <1>1. /\ w \in Worlds /\ w.sub \in Subs /\ w.pending \in Pendings /\ w.heard \in Seq(Events)
        /\ w.pending.events \in Seq(Events) /\ ~w.sub.canceled /\ Begins(w.heard, s)
        /\ RestIs(w.heard, w.pending.events, s)
    BY DEF Good, Worlds, Pendings, StateInv, OrderInv
  <1>2. v = IF ~w.sub.hasPending /\ w.sub.pauseCount = 0 THEN Schedule(u) ELSE u
    BY <1>1 DEF AddPending, Worlds
  <1>3. /\ p \in Pendings /\ p.events = Append(w.pending.events, e) /\ p.events # << >>
        /\ p.state = w.pending.state
    <2>1. Append(w.pending.events, e) \in Seq(Events) /\ Append(w.pending.events, e) # << >>
      BY SMTT(40), <1>1
    <2>. QED BY Zenon, <1>1, <2>1 DEF Pendings
  <1>4. /\ b \in Subs /\ b.hasPending /\ b.canceled = w.sub.canceled
        /\ b.inCallback = w.sub.inCallback /\ b.pauseCount = w.sub.pauseCount
        /\ b.last = w.sub.last /\ b.waitForCancel = w.sub.waitForCancel
        /\ b.inputPaused = w.sub.inputPaused
    BY Zenon, <1>1 DEF Subs
  <1> HIDE DEF p, b
  <1>5. /\ u \in Worlds /\ u.ctl = w.ctl /\ u.sub = b /\ u.pending = p
        /\ u.heard = w.heard /\ u.stack = w.stack /\ u.told = w.told /\ u.queue = w.queue
    BY Zenon, <1>1, <1>3, <1>4 DEF Worlds
  <1> HIDE DEF u
  <1>12. QueueInv(u)
    <2>1. QueueInv(w)
      BY Zenon DEF Good
    <2>. QED BY Zenon, <1>3, <1>5, <2>1 DEF QueueInv
  <1>6. /\ v \in Worlds /\ v.ctl = w.ctl /\ v.sub = b /\ v.pending.events = p.events
        /\ v.heard = w.heard /\ v.stack = w.stack /\ v.told = w.told
        /\ v.pending.state = "scheduled" =>
              w.pending.state = "scheduled" \/ w.sub.pauseCount = 0
        /\ QueueInv(v)
    <2>1. CASE ~w.sub.hasPending /\ w.sub.pauseCount = 0
      <3>1. v = Schedule(u)
        BY <1>2, <2>1
      <3>2. v \in Worlds /\ SameButSchedule(v, u) /\ QueueInv(v)
        BY Zenon, <1>5, <1>12, <3>1, ScheduleFacts
      <3>. QED BY SMTT(40), <1>5, <2>1, <3>2 DEF SameButSchedule
    <2>2. CASE ~(~w.sub.hasPending /\ w.sub.pauseCount = 0)
      BY Zenon, <1>2, <1>3, <1>5, <1>12, <2>2
    <2>. QED BY ZenonT(40), <2>1, <2>2
  <1> HIDE DEF v
  <1>7. StackInv(v)
    BY ZenonT(40), <1>4, <1>6 DEF Good, StackInv, Running, Calling, Canceling, CancelingInside, Ending
  <1>8. StateInv(v)
    BY Zenon, <1>4, <1>6 DEF Good, StateInv
  <1>9. PendingInv(v)
    BY Zenon, <1>1, <1>3, <1>4, <1>6 DEF Good, PendingInv
  <1>10. HeldInv(v, q)
    BY ZenonT(40), <1>4, <1>6 DEF Good, HeldInv, OnCancelOf
  <1>11. OrderInv(v, Append(s, e))
    <2>1. Begins(w.heard, Append(s, e)) /\ RestIs(w.heard, p.events, Append(s, e))
      BY Zenon, <1>1, <1>3, OrderFacts
    <2>2. v.sub.last = Null /\ ~(v.stack # << >> /\ v.stack[1].at = "onCancel")
      BY Zenon, <1>1, <1>4, <1>6 DEF Good, HeldInv, StackInv, Running, Calling, Canceling,
            CancelingInside, Ending, Bottom, Callbacks
    <2>. QED BY Zenon, <1>6, <2>1, <2>2 DEF OrderInv
  <1>. QED BY ZenonT(40), <1>6, <1>7, <1>8, <1>9, <1>10, <1>11 DEF Good, v

(* add, addError and close: s is sent before the call.  An event is heard  *)
(* only when it may be, q again is quit.                                   *)
Quiet(v, w, q) ==
    v.heard # w.heard => w.sub.pauseCount = 0 /\ ~w.sub.inCallback /\ ~q
SentAfter(w, e, s) == IF w.ctl.state = "canceled" THEN s ELSE Append(s, e)

LEMMA AddEventGood ==
    ASSUME NEW w, NEW s \in Seq(Events), NEW q \in BOOLEAN, Good(w, s, q), NEW e \in Events,
           w.stack # << >>
    PROVE  Good(AddEvent(w, e), SentAfter(w, e, s), q) /\ Quiet(AddEvent(w, e), w, q)
  <1>1. /\ w \in Worlds /\ w.sub \in Subs /\ w.ctl \in Ctls /\ w.pending \in Pendings
        /\ w.heard \in Seq(Events) /\ w.pending.events \in Seq(Events)
        /\ StateInv(w) /\ PendingInv(w) /\ HeldInv(w, q) /\ OrderInv(w, s) /\ Begins(w.heard, s)
        /\ QueueInv(w)
    BY ZenonT(40) DEF Good, Worlds, Pendings, OrderInv
  <1>2. CASE w.ctl.state = "initial"
    <2> DEFINE p == [w.pending EXCEPT !.events = Append(@, e)]
               v == [w EXCEPT !.pending = p]
    <2>1. AddEvent(w, e) = v
      BY <1>1, <1>2 DEF AddEvent, Worlds
    <2>2. p \in Pendings /\ p.events = Append(w.pending.events, e) /\ p.state = w.pending.state
      <3>1. Append(w.pending.events, e) \in Seq(Events)
        BY <1>1
      <3>. QED BY Zenon, <1>1, <3>1 DEF Pendings
    <2> HIDE DEF p
    <2>3. /\ v \in Worlds /\ v.ctl = w.ctl /\ v.sub = w.sub /\ v.pending = p
          /\ v.heard = w.heard /\ v.stack = w.stack /\ v.told = w.told /\ v.queue = w.queue
      BY ZenonT(40), <1>1, <2>2 DEF Worlds
    <2> HIDE DEF v
    <2>4. Running(w) /\ w.sub.last = Null /\ ~w.sub.canceled
      BY <1>1, <1>2 DEF Good, StackInv, Calling, CancelingInside, Ending, Canceling, StateInv,
            HeldInv
    <2>5. w.stack[1].at # "onCancel"
      BY SMTT(40), <2>4 DEF Running, Bottom
    <2>6. StackInv(v) /\ StateInv(v)
      BY ZenonT(40), <1>1, <2>2, <2>3, <2>4 DEF StackInv, Running, StateInv
    <2>7. PendingInv(v) /\ HeldInv(v, q) /\ QueueInv(v)
      BY Zenon, <1>1, <1>2, <2>2, <2>3 DEF PendingInv, StateInv, HeldInv, OnCancelOf, QueueInv
    <2>8. RestIs(w.heard, p.events, Append(s, e)) /\ Begins(w.heard, Append(s, e))
      BY ZenonT(40), <1>1, <2>2, <2>4, OrderFacts DEF OrderInv
    <2>9. OrderInv(v, Append(s, e))
      BY <2>3, <2>4, <2>5, <2>8 DEF OrderInv
    <2>. QED BY <1>2, <2>1, <2>3, <2>6, <2>7, <2>9 DEF Good, SentAfter, Quiet
  <1>3. CASE w.ctl.state = "canceled"
    BY <1>3 DEF AddEvent, SentAfter, Quiet
  <1>4. CASE w.ctl.state = "subscribed"
    <2>1. SentAfter(w, e, s) = Append(s, e) /\ Append(s, e) \in Seq(Events)
      BY <1>4 DEF SentAfter
    <2>2. CASE w.ctl.sync /\ CanFire(w)
      <3>1. AddEvent(w, e) = Send(w, e)
        BY Zenon, <1>4, <2>2 DEF AddEvent
      <3>2. ~w.sub.canceled /\ ~w.sub.inCallback /\ ~w.sub.hasPending /\ w.sub.pauseCount = 0
        BY Zenon, <1>1, <1>4, <2>2 DEF CanFire, StateInv
      <3>3. Running(w)
        BY Zenon, <3>2 DEF Good, StackInv, Calling, Canceling, CancelingInside, Ending
      <3>4. MaySend(w) /\ w.pending.events = << >> /\ q = FALSE
        BY ZenonT(40), <1>1, <1>4, <3>2, <3>3 DEF MaySend, PendingInv, HeldInv
      <3>5. /\ NextIs(w.heard, e, Append(s, e)) /\ Begins(w.heard, Append(s, e))
            /\ RestIs(Append(w.heard, e), w.pending.events, Append(s, e))
        <4>1. Begins(w.heard, s) /\ RestIs(w.heard, << >>, s)
          BY Zenon, <1>1, <3>2, <3>4 DEF OrderInv
        <4>2. w.heard \in Seq(Events) /\ << >> \in Seq(Events)
          BY <1>1 DEF Worlds
        <4>. QED BY Zenon, <3>4, <4>1, <4>2, OrderFacts
      <3>6. Good(Send(w, e), Append(s, e), FALSE)
        BY ZenonT(40), <1>1, <2>1, <3>4, <3>5, SendGood
      <3>. QED BY ZenonT(40), <2>1, <3>1, <3>2, <3>4, <3>6 DEF Quiet
    <2>3. CASE ~(w.ctl.sync /\ CanFire(w))
      <3>1. AddEvent(w, e) = AddPending(w, e)
        BY <1>4, <2>3 DEF AddEvent
      <3>. QED BY <1>4, <2>1, <3>1, AddPendingGood DEF Quiet
    <2>. QED BY <2>2, <2>3
  <1>. QED BY Zenon, <1>1, <1>2, <1>3, <1>4 DEF Ctls

LEMMA EnsureDoneFutureGood ==
    ASSUME NEW w, NEW s \in Seq(Events), NEW q \in BOOLEAN, Good(w, s, q)
    PROVE  Good(EnsureDoneFuture(w), s, q) /\ EnsureDoneFuture(w).heard = w.heard
  <1>1. CASE w.ctl.done # "none"
    BY <1>1 DEF EnsureDoneFuture
  <1>2. CASE w.ctl.done = "none"
    <2> DEFINE c == [w.ctl EXCEPT !.done = IF w.ctl.state = "canceled" THEN "complete"
                                           ELSE "incomplete"]
    <2>1. w \in Worlds /\ w.ctl \in Ctls
      BY DEF Good, Worlds
    <2>2. c \in Ctls /\ c.state = w.ctl.state
      BY <2>1 DEF Ctls
    <2>3. EnsureDoneFuture(w) = [w EXCEPT !.ctl = c]
      BY <1>2, <2>1 DEF EnsureDoneFuture, Worlds
    <2> HIDE DEF c
    <2>. QED BY <2>2, <2>3, ControllerGood
  <1>. QED BY <1>1, <1>2

-----------------------------------------------------------------------------
(* The actions keep the invariant, and no handler is called that must not  *)
(* be.                                                                     *)

Kept == Inv' /\ Quiet(World', World, quit)

LEMMA WorldFacts ==
    /\ World.ctl = ctl /\ World.sub = sub /\ World.pending = pending /\ World.queue = queue
    /\ World.stack = stack /\ World.told = told /\ World.heard = heard
  BY DEF World

LEMMA KeptBy ==
    ASSUME NEW w, Becomes(w), Good(w, sent', quit'), sent' \in Seq(Events),
           quit' \in BOOLEAN, Quiet(w, World, quit)
    PROVE  Kept
  <1>1. World' = w
    BY DEF Becomes, World, Good, Worlds
  <1>. QED BY Zenon, <1>1 DEF Kept, Inv

LEMMA InitGood == Init => Inv
  <1> SUFFICES ASSUME Init PROVE Inv
    OBVIOUS
  <1> DEFINE w == World
  <1>1. PICK sync \in BOOLEAN :
           ctl = [sync |-> sync, state |-> "initial", closed |-> FALSE, done |-> "none"]
    BY ZenonT(40) DEF Init
  <1>2. PICK cancelOnError \in BOOLEAN :
           sub = [cancelOnError |-> cancelOnError, inputPaused |-> FALSE, canceled |-> FALSE,
                  waitForCancel |-> FALSE, inCallback |-> FALSE, hasPending |-> FALSE,
                  pauseCount |-> 0, last |-> Null, cancelFuture |-> "none"]
    BY DEF Init
  <1>3. ctl \in Ctls /\ sub \in Subs
    BY ZenonT(40), <1>1, <1>2 DEF Ctls, Subs, Futures
  <1>4. /\ pending = [events |-> << >>, state |-> "unscheduled"] /\ queue = << >>
        /\ stack = << >> /\ told = FALSE /\ sent = << >> /\ heard = << >> /\ quit = FALSE
    BY DEF Init
  <1>5. /\ << >> \in Seq(Events) /\ << >> \in Seq(Frames)
        /\ << >> \in Seq({"handleNext", "canceled"}) /\ Len(<< >>) = 0
    OBVIOUS
  <1>6. pending \in Pendings
    BY <1>4, <1>5 DEF Pendings
  <1>7. w \in Worlds
    BY Zenon, <1>3, <1>4, <1>5, <1>6 DEF Worlds, World
  <1>8. /\ w.ctl = ctl /\ w.sub = sub /\ w.pending = pending /\ w.queue = queue
        /\ w.stack = stack /\ w.told = told /\ w.heard = heard
    BY WorldFacts
  <1> HIDE DEF w
  <1>9. StackInv(w) /\ StateInv(w)
    <2>1. /\ ctl.state = "initial" /\ ctl.state # "canceled"
          /\ sub.inCallback = FALSE /\ sub.canceled = FALSE /\ sub.hasPending = FALSE
          /\ sub.inputPaused = FALSE /\ sub.pauseCount = 0
          /\ pending.state = "unscheduled"
      BY ZenonT(40), <1>1, <1>2, <1>4
    <2>2. StackInv(w)
      BY <1>4, <1>8, <2>1 DEF StackInv
    <2>3. StateInv(w)
      BY ZenonT(40), <1>4, <1>8, <2>1 DEF StateInv
    <2>. QED BY Zenon, <2>2, <2>3
  <1>10. PendingInv(w) /\ HeldInv(w, FALSE)
    BY <1>1, <1>2, <1>4, <1>8 DEF PendingInv, HeldInv
  <1>11. QueueInv(w)
    BY <1>4, <1>5, <1>8 DEF QueueInv
  <1>12. OrderInv(w, << >>)
    BY <1>2, <1>4, <1>5, <1>8 DEF OrderInv, Begins, RestIs
  <1>. QED BY Zenon, <1>4, <1>5, <1>7, <1>9, <1>10, <1>11, <1>12 DEF Inv, Good, w

LEMMA AddKept ==
    ASSUME Inv, NEW kind \in {"data", "error"}, Add(kind)
    PROVE  Kept
  <1> DEFINE e == <<kind, Len(sent) + 1>>
             v == AddEvent(World, e)
  <1>1. sent \in Seq(Events) /\ quit \in BOOLEAN /\ Good(World, sent, quit)
    BY DEF Inv
  <1>2. e \in Events /\ World.stack # << >> /\ World.ctl = ctl
    BY <1>1, WorldFacts DEF Events, Add, InUserCode
  <1>3. Becomes(v) /\ sent' = SentAfter(World, e, sent) /\ quit' = quit
    BY Zenon, <1>2 DEF Add, Accepted, SentAfter
  <1> HIDE DEF e
  <1>4. Good(v, sent', quit) /\ Quiet(v, World, quit)
    BY Zenon, <1>1, <1>2, <1>3, AddEventGood
  <1>5. sent' \in Seq(Events)
    BY <1>1, <1>2, <1>3 DEF SentAfter
  <1>. QED BY <1>1, <1>3, <1>4, <1>5, KeptBy

LEMMA CloseKept ==
    ASSUME Inv, Close
    PROVE  Kept
  <1> DEFINE e == <<"done", Len(sent) + 1>>
             c == [ctl EXCEPT !.closed = TRUE]
             u == [World EXCEPT !.ctl = c]
             v == AddEvent(u, e)
  <1>1. sent \in Seq(Events) /\ quit \in BOOLEAN /\ Good(World, sent, quit)
    BY DEF Inv
  <1>2. e \in Events /\ World.stack # << >> /\ World.ctl = ctl /\ World.sub = sub
    BY <1>1, WorldFacts DEF Events, Close, InUserCode
  <1>3. ctl \in Ctls /\ c \in Ctls /\ c.state = ctl.state
    BY Zenon, <1>1, <1>2 DEF Good, Worlds, Ctls
  <1>4. u = [World EXCEPT !.ctl.closed = TRUE]
    BY DEF World
  <1>5. Becomes(EnsureDoneFuture(v)) /\ sent' = SentAfter(World, e, sent) /\ quit' = quit
    BY <1>2, <1>4 DEF Close, Accepted, SentAfter
  <1> HIDE DEF e, c
  <1>6. /\ Good(u, sent, quit) /\ u.stack # << >> /\ u.ctl = c /\ u.sub = World.sub
        /\ u.heard = World.heard
    BY <1>1, <1>2, <1>3, ControllerGood
  <1> HIDE DEF u
  <1>7. SentAfter(u, e, sent) = sent'
    BY Zenon, <1>2, <1>3, <1>5, <1>6 DEF SentAfter
  <1>8. sent' \in Seq(Events)
    BY <1>1, <1>2, <1>5 DEF SentAfter
  <1>9. Good(v, sent', quit) /\ Quiet(v, u, quit)
    BY <1>1, <1>2, <1>6, <1>7, AddEventGood
  <1> HIDE DEF v
  <1>10. Good(EnsureDoneFuture(v), sent', quit) /\ EnsureDoneFuture(v).heard = v.heard
    BY ZenonT(40), <1>1, <1>8, <1>9, EnsureDoneFutureGood
  <1>11. Quiet(EnsureDoneFuture(v), World, quit)
    BY <1>6, <1>9, <1>10 DEF Quiet
  <1>. QED BY <1>1, <1>5, <1>8, <1>10, <1>11, KeptBy

LEMMA DoneKept ==
    ASSUME Inv, Done
    PROVE  Kept
  <1>1. sent \in Seq(Events) /\ quit \in BOOLEAN /\ Good(World, sent, quit)
    BY DEF Inv
  <1>2. Becomes(EnsureDoneFuture(World)) /\ sent' = sent /\ quit' = quit
    BY DEF Done, Same, SameUser
  <1>3. /\ Good(EnsureDoneFuture(World), sent, quit)
        /\ EnsureDoneFuture(World).heard = World.heard
    BY <1>1, EnsureDoneFutureGood
  <1>4. Quiet(EnsureDoneFuture(World), World, quit)
    BY Zenon, <1>3 DEF Quiet
  <1>. QED BY <1>1, <1>2, <1>3, <1>4, KeptBy

(* User code that runs before the subscription is canceled.                *)
LEMMA LiveFacts ==
    ASSUME NEW w, NEW s, NEW q \in BOOLEAN, Good(w, s, q), w.stack # << >>, ~w.sub.canceled
    PROVE  /\ ~w.sub.inCallback => Running(w)
           /\ w.sub.inCallback => Calling(w)
           /\ w.sub.last = Null /\ w.stack[1].at # "onCancel" /\ q = FALSE
  <1>1. Running(w) \/ Calling(w)
    BY DEF Good, StackInv, Canceling, CancelingInside, Ending
  <1>2. /\ ~w.sub.inCallback => Running(w)
        /\ w.sub.inCallback => Calling(w)
    BY <1>1 DEF Running, Calling
  <1>3. w.stack[1].at # "onCancel"
    BY <1>1 DEF Running, Calling, Bottom, Callbacks
  <1>4. w.sub.last = Null /\ q = FALSE
    BY SMTT(40) DEF Good, HeldInv
  <1>. QED BY ZenonT(40), <1>2, <1>3, <1>4

LEMMA SameScheduleFacts ==
    ASSUME NEW v, NEW w, NEW s, NEW q, SameButSchedule(v, w)
    PROVE  /\ Running(w) => Running(v)
           /\ StackInv(w) => StackInv(v)
           /\ HeldInv(w, q) => HeldInv(v, q)
           /\ OrderInv(w, s) => OrderInv(v, s)
  BY ZenonT(40) DEF SameButSchedule, StackInv, Running, Calling, Canceling, CancelingInside, Ending,
        HeldInv, OrderInv, OnCancelOf

(* pause and resume change the count and the state of the input.           *)
WithSub(w, b) == [w EXCEPT !.sub = b]

LEMMA PauseFacts ==
    ASSUME NEW w, NEW s \in Seq(Events), NEW q \in BOOLEAN, Good(w, s, q), w.stack # << >>,
           ~w.sub.canceled, NEW b \in Subs,
           b.inCallback = w.sub.inCallback, b.canceled = w.sub.canceled,
           b.hasPending = w.sub.hasPending, b.last = w.sub.last,
           b.waitForCancel = w.sub.waitForCancel
    PROVE  LET v == WithSub(w, b)
           IN  /\ v \in Worlds /\ v.ctl = w.ctl /\ v.pending = w.pending /\ v.sub = b
               /\ v.heard = w.heard /\ v.stack = w.stack /\ v.told = w.told
               /\ Running(w) => Running(v)
               /\ StackInv(v) /\ QueueInv(v) /\ HeldInv(v, q) /\ OrderInv(v, s)
  <1> DEFINE v == [w EXCEPT !.sub = b]
  <1>1. w \in Worlds
    BY DEF Good
  <1>3. /\ v \in Worlds /\ v.ctl = w.ctl /\ v.pending = w.pending /\ v.queue = w.queue
        /\ v.heard = w.heard /\ v.stack = w.stack /\ v.told = w.told /\ v.sub = b
    BY Zenon, <1>1 DEF Worlds
  <1> HIDE DEF v
  <1>4. /\ ~w.sub.inCallback => Running(w)
        /\ w.sub.inCallback => Calling(w)
        /\ w.sub.last = Null /\ w.stack[1].at # "onCancel" /\ q = FALSE
    BY ZenonT(40), LiveFacts
  <1>5. Running(w) => Running(v)
    BY Zenon, <1>3 DEF Running
  <1>6. StackInv(v)
    BY Zenon, <1>3, <1>4, <1>5 DEF StackInv, Calling
  <1>7. QueueInv(v)
    BY ZenonT(40), <1>3 DEF QueueInv, Good
  <1>8. HeldInv(v, q)
    BY SMTT(40), <1>3, <1>4 DEF HeldInv
  <1>9. OrderInv(v, s)
    BY Zenon, <1>3, <1>4 DEF OrderInv, Good
  <1>. QED BY <1>3, <1>5, <1>6, <1>7, <1>8, <1>9 DEF v, WithSub

LEMMA PauseKept ==
    ASSUME Inv, Pause
    PROVE  Kept
  <1> DEFINE w == World
             b == [sub EXCEPT !.pauseCount = @ + 1, !.inputPaused = TRUE]
             v == WithSub(w, b)
             off == IF sub.pauseCount = 0 THEN CancelSchedule(v) ELSE v
  <1>1. sent \in Seq(Events) /\ quit \in BOOLEAN /\ Good(w, sent, quit)
    BY DEF Inv
  <1>2. /\ w.stack # << >> /\ w.sub = sub /\ ~w.sub.canceled /\ w.ctl = ctl /\ w.heard = heard
        /\ sub \in Subs /\ w.ctl.state = "subscribed"
    BY <1>1, WorldFacts DEF Pause, InUserCode, HasSubscription, Good, Worlds, Ctls, StateInv
  <1>3. v = [World EXCEPT !.sub.pauseCount = @ + 1, !.sub.inputPaused = TRUE]
    BY Zenon DEF World, WithSub
  <1>4. /\ Becomes(IF ~sub.inputPaused /\ ~sub.inCallback THEN Hook(off, "onPause") ELSE off)
        /\ sent' = sent /\ quit' = quit
    BY <1>3 DEF Pause
  <1>12. /\ b.pauseCount = sub.pauseCount + 1 /\ b.inputPaused = TRUE
         /\ b.inCallback = sub.inCallback /\ b.canceled = sub.canceled
         /\ b.hasPending = sub.hasPending /\ b.last = sub.last
         /\ b.waitForCancel = sub.waitForCancel /\ sub.pauseCount \in Nat
    BY <1>2 DEF Subs
  <1>13. b \in Subs
    <2> DEFINE a == [sub EXCEPT !.pauseCount = @ + 1]
    <2>1. a \in Subs
      BY <1>2 DEF Subs
    <2>2. b = [a EXCEPT !.inputPaused = TRUE]
      BY <1>2 DEF Subs
    <2> HIDE DEF a, b
    <2>. QED BY Zenon, <2>1, <2>2 DEF Subs
  <1>11. /\ b \in Subs /\ b.pauseCount = sub.pauseCount + 1 /\ b.inputPaused = TRUE
         /\ b.inCallback = sub.inCallback /\ b.canceled = sub.canceled
         /\ b.hasPending = sub.hasPending /\ b.last = sub.last
         /\ b.waitForCancel = sub.waitForCancel /\ sub.pauseCount \in Nat
    BY SMTT(40), <1>12, <1>13
  <1> HIDE DEF w, b
  <1>5. /\ v \in Worlds /\ v.ctl = w.ctl /\ v.pending = w.pending /\ v.sub = b
        /\ v.heard = w.heard /\ v.stack = w.stack /\ v.told = w.told
        /\ Running(w) => Running(v)
        /\ StackInv(v) /\ QueueInv(v) /\ HeldInv(v, quit) /\ OrderInv(v, sent)
    BY ZenonT(40), <1>1, <1>2, <1>11, PauseFacts
  <1> HIDE DEF v
  <1>6. /\ off \in Worlds /\ SameButSchedule(off, v) /\ QueueInv(off)
        /\ off.pending.state # "scheduled"
    <2>1. CASE sub.pauseCount = 0
      BY SMTT(40), <1>5, <2>1, CancelScheduleFacts
    <2>2. CASE sub.pauseCount # 0
      BY ZenonT(40), <1>1, <1>2, <1>5, <1>11, <2>2 DEF Good, PendingInv, SameButSchedule
    <2>. QED BY ZenonT(40), <2>1, <2>2
  <1> HIDE DEF off
  <1>7. /\ Running(w) => Running(off)
        /\ StackInv(off) /\ HeldInv(off, quit) /\ OrderInv(off, sent)
    BY ZenonT(40), <1>5, <1>6, SameScheduleFacts
  <1>8. PendingInv(off)
    BY ZenonT(40), <1>1, <1>2, <1>5, <1>6, <1>11 DEF SameButSchedule, Good, PendingInv, InHandler
  <1>9. CASE ~sub.inputPaused /\ ~sub.inCallback
    <2>1. Running(off) /\ ~off.sub.canceled /\ off.ctl.state = "subscribed" /\ off.heard = w.heard
      BY ZenonT(40), <1>1, <1>2, <1>5, <1>6, <1>7, <1>9, <1>11, LiveFacts DEF SameButSchedule
    <2>2. Good(Hook(off, "onPause"), sent, quit) /\ Hook(off, "onPause").heard = off.heard
      BY ZenonT(40), <1>1, <1>6, <1>7, <1>8, <2>1, HookGood
    <2>3. Quiet(Hook(off, "onPause"), World, quit)
      BY Zenon, <2>1, <2>2 DEF Quiet, w
    <2>. QED BY <1>1, <1>4, <1>9, <2>2, <2>3, KeptBy
  <1>10. CASE ~(~sub.inputPaused /\ ~sub.inCallback)
    <2>1. StateInv(off)
      BY ZenonT(40), <1>1, <1>2, <1>5, <1>6, <1>10, <1>11 DEF SameButSchedule, StateInv, Good
    <2>2. Good(off, sent, quit)
      BY Zenon, <1>6, <1>7, <1>8, <2>1 DEF Good
    <2>3. Quiet(off, World, quit)
      BY <1>5, <1>6 DEF Quiet, w, SameButSchedule
    <2>. QED BY SMTT(40), <1>1, <1>4, <1>10, <2>2, <2>3, KeptBy
  <1>. QED BY <1>9, <1>10

LEMMA ResumeKept ==
    ASSUME Inv, Resume
    PROVE  Kept
  <1> DEFINE w == World
             b == [sub EXCEPT !.pauseCount = @ - 1]
             c == [b EXCEPT !.inputPaused = FALSE]
             v == WithSub(w, b)
             open == WithSub(w, c)
  <1>1. sent \in Seq(Events) /\ quit \in BOOLEAN /\ Good(w, sent, quit)
    BY DEF Inv
  <1>2. /\ w.stack # << >> /\ w.sub = sub /\ ~w.sub.canceled /\ w.ctl = ctl /\ w.heard = heard
        /\ w.pending = pending /\ sub \in Subs /\ w.ctl.state = "subscribed"
    BY <1>1, WorldFacts DEF Resume, InUserCode, HasSubscription, Good, Worlds, Ctls, StateInv
  <1>3. sub.pauseCount \in Nat /\ sub.pauseCount > 0
    BY <1>2 DEF Resume, Subs
  <1>4. v = [World EXCEPT !.sub.pauseCount = @ - 1]
    BY DEF World, WithSub
  <1>5. open = [v EXCEPT !.sub.inputPaused = FALSE]
    BY ZenonT(40) DEF World, WithSub
  <1>15. /\ b \in Subs /\ b.pauseCount = sub.pauseCount - 1
         /\ b.inCallback = sub.inCallback /\ b.canceled = sub.canceled
         /\ b.hasPending = sub.hasPending /\ b.last = sub.last
         /\ b.waitForCancel = sub.waitForCancel
    BY <1>2, <1>3 DEF Subs
  <1>19. b.inputPaused = sub.inputPaused
    BY <1>2 DEF Subs
  <1> HIDE DEF b
  <1>17. /\ c.pauseCount = b.pauseCount /\ c.inputPaused = FALSE
         /\ c.inCallback = b.inCallback /\ c.canceled = b.canceled
         /\ c.hasPending = b.hasPending /\ c.last = b.last
         /\ c.waitForCancel = b.waitForCancel
    BY <1>15 DEF Subs
  <1>18. c \in Subs
    BY Zenon, <1>15 DEF Subs
  <1>16. /\ c \in Subs /\ c.pauseCount = sub.pauseCount - 1 /\ c.inputPaused = FALSE
         /\ c.inCallback = sub.inCallback /\ c.canceled = sub.canceled
         /\ c.hasPending = sub.hasPending /\ c.last = sub.last
         /\ c.waitForCancel = sub.waitForCancel
    BY <1>15, <1>17, <1>18
  <1> HIDE DEF c, w
  <1>7. /\ v \in Worlds /\ v.ctl = w.ctl /\ v.pending = w.pending /\ v.sub = b
        /\ v.heard = w.heard /\ v.stack = w.stack /\ v.told = w.told
        /\ Running(w) => Running(v)
        /\ StackInv(v) /\ QueueInv(v) /\ HeldInv(v, quit) /\ OrderInv(v, sent)
    BY ZenonT(40), <1>1, <1>2, <1>15, PauseFacts
  <1>8. /\ open \in Worlds /\ open.ctl = w.ctl /\ open.pending = w.pending /\ open.sub = c
        /\ open.heard = w.heard /\ open.stack = w.stack /\ open.told = w.told
        /\ Running(w) => Running(open)
        /\ StackInv(open) /\ QueueInv(open) /\ HeldInv(open, quit) /\ OrderInv(open, sent)
    BY ZenonT(40), <1>1, <1>2, <1>16, PauseFacts
  <1> HIDE DEF v, open
  <1>6. /\ Becomes(CASE sub.pauseCount > 1 -> v
                    [] sub.pauseCount = 1 /\ sub.hasPending /\ pending.events # << >> -> Schedule(v)
                    [] OTHER -> IF sub.inCallback THEN open ELSE Hook(open, "onResume"))
        /\ sent' = sent /\ quit' = quit
    BY SMTT(40), <1>4, <1>5 DEF Resume, Same, SameUser
  <1>9. w.pending.state # "scheduled" /\ PendingInv(w) /\ StateInv(w)
    <2>1. PendingInv(w) /\ StateInv(w)
      BY Zenon, <1>1 DEF Good
    <2>2. w.pending.state = "scheduled" => w.sub.pauseCount = 0
      BY Zenon, <2>1 DEF PendingInv
    <2>3. w.sub.pauseCount # 0
      BY <1>2, <1>3
    <2>. QED BY <2>1, <2>2, <2>3
  <1>10. PendingInv(v) /\ PendingInv(open)
    BY ZenonT(40), <1>2, <1>7, <1>8, <1>9, <1>15, <1>16 DEF PendingInv, InHandler
  <1>11. StateInv(v)
    BY <1>2, <1>7, <1>9, <1>15, <1>19 DEF StateInv
  <1>12. CASE sub.pauseCount > 1
    <2>1. Good(v, sent, quit) /\ Quiet(v, World, quit)
      BY <1>7, <1>10, <1>11 DEF Good, Quiet, w
    <2>2. Becomes(v)
      BY <1>3, <1>6, <1>12
    <2>. QED BY ZenonT(40), <1>1, <1>6, <2>1, <2>2, KeptBy
  <1>13. CASE sub.pauseCount = 1 /\ sub.hasPending /\ pending.events # << >>
    <2> DEFINE x == Schedule(v)
    <2>1. Becomes(x)
      <3>1. ~(sub.pauseCount > 1)
        BY <1>13
      <3>. QED BY ZenonT(40), <1>6, <1>13, <3>1
    <2>2. x \in Worlds /\ SameButSchedule(x, v) /\ QueueInv(x)
      BY ZenonT(40), <1>7, ScheduleFacts
    <2> HIDE DEF x
    <2>3. StackInv(x) /\ HeldInv(x, quit) /\ OrderInv(x, sent)
      BY <1>7, <2>2, SameScheduleFacts
    <2>4. PendingInv(x)
      <3>1. /\ x.sub = b /\ b.pauseCount = 0 /\ b.hasPending /\ ~b.canceled
            /\ x.pending.events # << >>
        <4>1. b.pauseCount = 0
          BY <1>13, <1>15
        <4>2. x.sub = v.sub /\ x.pending.events = v.pending.events
          BY Zenon, <2>2 DEF SameButSchedule
        <4>. QED BY Zenon, <1>2, <1>7, <1>13, <1>15, <4>1, <4>2
      <3>. QED BY ZenonT(40), <3>1 DEF PendingInv
    <2>5. StateInv(x)
      BY ZenonT(40), <1>2, <1>7, <1>11, <2>2 DEF StateInv, SameButSchedule
    <2>6. Good(x, sent, quit) /\ Quiet(x, World, quit)
      BY <1>7, <2>2, <2>3, <2>4, <2>5 DEF Good, Quiet, w, SameButSchedule
    <2>. QED BY <1>1, <1>6, <2>1, <2>6, KeptBy
  <1>14. CASE ~(sub.pauseCount > 1) /\ ~(sub.pauseCount = 1 /\ sub.hasPending /\ pending.events # << >>)
    <2>1. Becomes(IF sub.inCallback THEN open ELSE Hook(open, "onResume"))
      BY <1>6, <1>14
    <2>2. CASE sub.inCallback
      <3>1. StateInv(open)
        BY ZenonT(40), <1>2, <1>8, <1>9, <1>16, <2>2 DEF StateInv
      <3>2. Good(open, sent, quit) /\ Quiet(open, World, quit)
        BY <1>8, <1>10, <3>1 DEF Good, Quiet, w
      <3>. QED BY ZenonT(40), <1>1, <1>6, <2>1, <2>2, <3>2, KeptBy
    <2>3. CASE ~sub.inCallback
      <3>1. Running(open) /\ ~open.sub.canceled /\ open.ctl.state = "subscribed"
        BY ZenonT(40), <1>1, <1>2, <1>8, <1>16, <2>3, LiveFacts
      <3>2. Good(Hook(open, "onResume"), sent, quit) /\ Hook(open, "onResume").heard = open.heard
        BY ZenonT(40), <1>1, <1>8, <1>10, <3>1, HookGood
      <3>3. Quiet(Hook(open, "onResume"), World, quit)
        BY Zenon, <1>8, <3>2 DEF Quiet, w
      <3>. QED BY SMTT(40), <1>1, <1>6, <2>1, <2>3, <3>2, <3>3, KeptBy
    <2>. QED BY <2>2, <2>3
  <1>. QED BY <1>12, <1>13, <1>14

(* The event loop begins or ends a message or a microtask.                 *)
SameState(b, c) ==
    /\ b.canceled = c.canceled /\ b.inCallback = c.inCallback /\ b.hasPending = c.hasPending
    /\ b.pauseCount = c.pauseCount /\ b.inputPaused = c.inputPaused
    /\ b.last = c.last /\ b.waitForCancel = c.waitForCancel

LEMMA LoopGood ==
    ASSUME NEW w, NEW s \in Seq(Events), NEW q \in BOOLEAN, Good(w, s, q),
           w.stack = << >> \/ Running(w), NEW v \in Worlds,
           v.ctl = w.ctl, v.pending = w.pending, v.told = w.told, v.heard = w.heard,
           SameState(v.sub, w.sub), QueueInv(v),
           v.stack = << >> \/ (Len(v.stack) = 1 /\ v.stack[1].at \in Bottom)
    PROVE  Good(v, s, q)
  <1>1. ~w.sub.inCallback /\ ~v.sub.inCallback
    <2>1. ~w.sub.inCallback
      <3>1. CASE w.stack = << >>
        <4>1. Len(w.stack) # 1 /\ Len(w.stack) # 2 /\ Len(w.stack) # 3
          <5>1. Len(<< >>) = 0
            OBVIOUS
          <5>. QED BY <3>1, <5>1
        <4>. QED BY Zenon, <4>1 DEF Good, StackInv, Running, Calling, Canceling, CancelingInside, Ending
      <3>. QED BY Zenon, <3>1 DEF Running
    <2>. QED BY ZenonT(40), <2>1 DEF SameState
  <1>2. StackInv(v)
    BY <1>1 DEF StackInv, Running
  <1>3. v.stack # << >> => v.stack[1].at \notin {"onCancel", "handler"}
    BY DEF Bottom
  <1>4. w.stack # << >> => w.stack[1].at \notin {"onCancel", "handler"}
    BY SMTT(40) DEF Bottom, Running
  <1>5. StateInv(v)
    BY ZenonT(40), <1>1 DEF Good, StateInv, SameState
  <1>6. PendingInv(v)
    BY ZenonT(40), <1>3, <1>4 DEF Good, PendingInv, InHandler, SameState
  <1>7. HeldInv(v, q)
    BY ZenonT(40), <1>3 DEF Good, HeldInv, OnCancelOf, SameState
  <1>8. OrderInv(v, s)
    BY Zenon, <1>3 DEF Good, OrderInv, SameState
  <1>. QED BY Zenon, <1>2, <1>5, <1>6, <1>7, <1>8 DEF Good

LEMMA StackKept ==
    ASSUME Inv, NEW st \in Seq(Frames), st = << >> \/ (Len(st) = 1 /\ st[1].at \in Bottom),
           stack = << >> \/ Running(World), Becomes([World EXCEPT !.stack = st]),
           sent' = sent, quit' = quit
    PROVE  Kept
  <1> DEFINE w == World
             v == [w EXCEPT !.stack = st]
  <1>1. sent \in Seq(Events) /\ quit \in BOOLEAN /\ Good(w, sent, quit) /\ Becomes(v)
    BY DEF Inv
  <1>2. w.stack = << >> \/ Running(w)
    BY WorldFacts
  <1> HIDE DEF w
  <1>3. /\ v \in Worlds /\ v.ctl = w.ctl /\ v.pending = w.pending /\ v.told = w.told
        /\ v.heard = w.heard /\ v.sub = w.sub /\ v.queue = w.queue /\ v.stack = st
    BY Zenon, <1>1 DEF Good, Worlds
  <1> HIDE DEF v
  <1>4. QueueInv(v)
    BY <1>1, <1>3 DEF Good, QueueInv
  <1>5. SameState(v.sub, w.sub)
    BY <1>3 DEF SameState
  <1>6. Good(v, sent, quit)
    BY <1>1, <1>2, <1>3, <1>4, <1>5, LoopGood
  <1>7. Quiet(v, World, quit)
    BY <1>3 DEF Quiet, w
  <1>. QED BY <1>1, <1>6, <1>7, KeptBy

LEMMA TopIsBottom ==
    ASSUME Inv, stack # << >>, stack[1].at \in Bottom
    PROVE  Running(World) /\ stack \in Seq(Frames)
  BY Zenon, WorldFacts DEF Inv, Good, Worlds, StackInv, Calling, Canceling, CancelingInside, Ending,
        Bottom, Callbacks

LEMMA MessageKept ==
    ASSUME Inv, Message \/ MessageReturns \/ MessageThrows \/ LoopEnds \/ RunThrow
    PROVE  Kept
  <1> DEFINE begin(at) == <<Frame(at, FALSE, Null)>>
  <1>1. \A at \in Bottom : /\ begin(at) \in Seq(Frames) /\ Len(begin(at)) = 1
                           /\ begin(at)[1].at \in Bottom
    BY DEF Frame, Frames
  <1>2. "message" \in Bottom /\ "loop" \in Bottom /\ << >> \in Seq(Frames)
    BY DEF Bottom
  <1>3. CASE Message
    <2>1. Becomes([World EXCEPT !.stack = begin("message")]) /\ stack = << >>
      BY <1>3 DEF Message
    <2>2. sent' = sent /\ quit' = quit
      BY <1>3 DEF Message
    <2> HIDE DEF begin
    <2>. QED BY <1>1, <1>2, <2>1, <2>2, StackKept
  <1>4. CASE MessageReturns
    <2>1. Becomes([World EXCEPT !.stack = begin("loop")]) /\ Running(World)
      BY <1>2, <1>4, TopIsBottom DEF MessageReturns, Top
    <2>2. sent' = sent /\ quit' = quit
      BY <1>4 DEF MessageReturns, Same, SameUser
    <2> HIDE DEF begin
    <2>. QED BY <1>1, <1>2, <2>1, <2>2, StackKept
  <1>5. CASE LoopEnds
    <2>1. Becomes([World EXCEPT !.stack = << >>]) /\ Running(World)
      BY <1>2, <1>5, TopIsBottom DEF LoopEnds, Top
    <2>2. sent' = sent /\ quit' = quit
      BY <1>5 DEF LoopEnds, Same, SameUser
    <2>. QED BY Zenon, <1>2, <2>1, <2>2, StackKept
  <1>6. CASE MessageThrows \/ RunThrow
    <2>1. Becomes([World EXCEPT !.stack = << >>]) /\ Running(World)
      BY <1>2, <1>6, TopIsBottom DEF MessageThrows, RunThrow, Unhandled, Top
    <2>2. sent' = sent /\ quit' = quit
      BY <1>6 DEF MessageThrows, RunThrow, Unhandled, SameUser
    <2>. QED BY Zenon, <1>2, <2>1, <2>2, StackKept
  <1>. QED BY <1>3, <1>4, <1>5, <1>6

LEMMA CompleteCancelFutureKept ==
    ASSUME Inv, NEW result \in {"value", "error"}, CompleteCancelFuture(result)
    PROVE  Kept
  <1> DEFINE w == World
             b == [sub EXCEPT !.cancelFuture = result]
             u == Append(queue, "canceled")
             st == <<Frame("loop", FALSE, Null)>>
             v == [w EXCEPT !.sub = b, !.queue = u, !.stack = st]
  <1>1. sent \in Seq(Events) /\ quit \in BOOLEAN /\ Good(w, sent, quit)
    BY DEF Inv
  <1>2. /\ w.stack = << >> /\ w.sub = sub /\ w.queue = queue /\ sub \in Subs
        /\ queue \in Seq({"handleNext", "canceled"})
    BY <1>1, WorldFacts DEF CompleteCancelFuture, Good, Worlds
  <1>3. v = [World EXCEPT !.sub.cancelFuture = result, !.queue = Append(@, "canceled"),
                          !.stack = <<Frame("loop", FALSE, Null)>>]
    BY DEF World
  <1>4. Becomes(v) /\ sent' = sent /\ quit' = quit
    BY <1>3 DEF CompleteCancelFuture, Same, SameUser
  <1>5. b \in Subs /\ SameState(b, sub)
    BY <1>2 DEF Subs, SameState, Futures
  <1>6. /\ u \in Seq({"handleNext", "canceled"}) /\ Len(u) = Len(queue) + 1
        /\ u[Len(queue) + 1] = "canceled" /\ \A i \in 1 .. Len(queue) : u[i] = queue[i]
    BY <1>2
  <1>7. st \in Seq(Frames) /\ Len(st) = 1 /\ st[1].at \in Bottom
    BY DEF Frame, Frames, Bottom
  <1> HIDE DEF w, b, u, st
  <1>8. /\ v \in Worlds /\ v.ctl = w.ctl /\ v.pending = w.pending /\ v.told = w.told
        /\ v.heard = w.heard /\ v.sub = b /\ v.queue = u /\ v.stack = st
    BY ZenonT(40), <1>1, <1>5, <1>6, <1>7 DEF Good, Worlds
  <1> HIDE DEF v
  <1>9. QueueInv(v)
    <2>1. QueueInv(w)
      BY Zenon, <1>1 DEF Good
    <2>2. ASSUME NEW i \in 1 .. Len(u), u[i] = "handleNext"
          PROVE  i \in 1 .. Len(queue) /\ queue[i] = "handleNext"
      BY <1>2, <1>6, <2>2
    <2>. QED BY Zenon, <1>2, <1>8, <2>1, <2>2 DEF QueueInv
  <1>10. Good(v, sent, quit)
    BY ZenonT(40), <1>1, <1>2, <1>5, <1>7, <1>8, <1>9, LoopGood
  <1>11. Quiet(v, World, quit)
    BY ZenonT(40), <1>8 DEF Quiet, w
  <1>. QED BY <1>1, <1>4, <1>10, <1>11, KeptBy

LEMMA ListenKept ==
    ASSUME Inv, Listen
    PROVE  Kept
  <1> DEFINE w == World
             c == [ctl EXCEPT !.state = "subscribed"]
             b == [sub EXCEPT !.hasPending = TRUE]
             u == [w EXCEPT !.ctl = c]
             a == [u EXCEPT !.sub = b]
             ready == IF pending.events = << >> THEN u ELSE Schedule(a)
             f == Frame("onListen", FALSE, Null)
             v == Enter(ready, f)
  <1>1. sent \in Seq(Events) /\ quit \in BOOLEAN /\ Good(w, sent, quit)
    BY DEF Inv
  <1>2. /\ w.stack # << >> /\ w.sub = sub /\ w.ctl = ctl /\ w.pending = pending
        /\ ctl.state = "initial" /\ sub \in Subs /\ ctl \in Ctls /\ w \in Worlds
    BY <1>1, WorldFacts DEF Listen, InUserCode, Good, Worlds
  <1>3. u = [World EXCEPT !.ctl.state = "subscribed"] /\ a = [u EXCEPT !.sub.hasPending = TRUE]
    BY DEF World
  <1>4. Becomes(v) /\ sent' = sent /\ quit' = quit
    BY Zenon, <1>3 DEF Listen, Same, SameUser
  <1>5. c \in Ctls /\ c.state = "subscribed"
    BY <1>2 DEF Ctls
  <1>6. /\ b \in Subs /\ b.hasPending /\ b.canceled = sub.canceled
        /\ b.inCallback = sub.inCallback /\ b.pauseCount = sub.pauseCount
        /\ b.last = sub.last
    BY ZenonT(40), <1>2 DEF Subs
  <1>7. f \in Frames /\ f.at = "onListen" /\ f.was = FALSE
    BY Zenon DEF Frame, Frames, Callbacks
  <1>8. ~sub.canceled
    BY ZenonT(40), <1>1, <1>2 DEF Good, StateInv
  <1>9. /\ ~sub.inCallback /\ ~sub.hasPending /\ sub.pauseCount = 0 /\ w.told = FALSE
        /\ pending.state = "unscheduled" /\ sub.last = Null /\ quit = FALSE
    <2>1. StateInv(w) /\ HeldInv(w, quit) /\ w.sub.last \in Events \cup {Null}
      BY Zenon, <1>1 DEF Good, Worlds, Subs
    <2>2. /\ ~sub.inCallback /\ ~sub.hasPending /\ sub.pauseCount = 0 /\ ~w.told
          /\ pending.state = "unscheduled"
      BY Zenon, <1>2, <2>1 DEF StateInv
    <2>3. sub.last = Null /\ ~quit
      BY Zenon, <1>2, <1>8, <2>1 DEF HeldInv
    <2>4. w.told \in BOOLEAN /\ quit \in BOOLEAN
      BY Zenon, <1>1 DEF Good, Worlds
    <2>. QED BY Zenon, <2>2, <2>3, <2>4
  <1>10. Running(w)
    BY Zenon, <1>1, <1>2, <1>8, <1>9, LiveFacts
  <1> HIDE DEF w, c, b, f
  <1>11. /\ u \in Worlds /\ u.ctl = c /\ u.sub = sub /\ u.pending = pending /\ u.told = w.told
         /\ u.heard = w.heard /\ u.stack = w.stack /\ u.queue = w.queue
    BY <1>2, <1>5 DEF Worlds
  <1> HIDE DEF u
  <1>12. /\ a \in Worlds /\ a.ctl = c /\ a.sub = b /\ a.pending = pending /\ a.told = w.told
         /\ a.heard = w.heard /\ a.stack = w.stack /\ a.queue = w.queue
    BY ZenonT(40), <1>6, <1>11 DEF Worlds
  <1> HIDE DEF a
  <1>13. QueueInv(u) /\ QueueInv(a)
    BY ZenonT(40), <1>1, <1>2, <1>11, <1>12 DEF Good, QueueInv
  <1>14. /\ ready \in Worlds /\ ready.ctl = c /\ ready.told = w.told
         /\ ready.heard = w.heard /\ ready.stack = w.stack
         /\ ready.pending.events = pending.events /\ QueueInv(ready)
         /\ ready.sub = IF pending.events = << >> THEN sub ELSE b
         /\ pending.events = << >> => ready.pending.state = "unscheduled"
    <2>1. CASE pending.events = << >>
      BY Zenon, <1>9, <1>11, <1>13, <2>1
    <2>2. CASE pending.events # << >>
      <3>1. ready = Schedule(a)
        BY ZenonT(40), <2>2
      <3> HIDE DEF ready
      <3>2. ready \in Worlds /\ SameButSchedule(ready, a) /\ QueueInv(ready)
        BY <1>12, <1>13, <3>1, ScheduleFacts
      <3>. QED BY <1>12, <2>2, <3>2 DEF SameButSchedule
    <2>. QED BY Zenon, <2>1, <2>2
  <1> HIDE DEF ready
  <1>15. /\ v \in Worlds /\ SameButStack(v, ready)
         /\ v.sub = [ready.sub EXCEPT !.inCallback = TRUE]
         /\ Len(v.stack) = Len(ready.stack) + 1 /\ v.stack[1] = f
         /\ \A i \in 1 .. Len(ready.stack) : v.stack[i + 1] = ready.stack[i]
    BY Zenon, <1>7, <1>14, EnterFacts
  <1> HIDE DEF v
  <1>16. /\ ready.sub \in Subs /\ ~ready.sub.canceled /\ ready.sub.pauseCount = 0
         /\ ready.sub.last = Null
         /\ ready.sub.hasPending <=> pending.events # << >>
    BY ZenonT(40), <1>2, <1>6, <1>8, <1>9, <1>14
  <1>17. /\ v.sub.inCallback /\ ~v.sub.canceled /\ v.sub.pauseCount = 0 /\ v.sub.last = Null
         /\ v.sub.hasPending <=> pending.events # << >>
    <2>1. /\ v.sub.inCallback /\ v.sub.canceled = ready.sub.canceled
          /\ v.sub.pauseCount = ready.sub.pauseCount /\ v.sub.last = ready.sub.last
          /\ v.sub.hasPending = ready.sub.hasPending
      BY <1>15, <1>16 DEF Subs
    <2>. QED BY <1>16, <2>1
  <1>18. /\ v.ctl = c /\ v.told = FALSE /\ v.heard = w.heard /\ v.pending = ready.pending
         /\ v.queue = ready.queue
    BY <1>9, <1>14, <1>15 DEF SameButStack
  <1>19. /\ Len(v.stack) = 2 /\ v.stack # << >> /\ v.stack[2] = w.stack[1]
         /\ v.stack[1].at = "onListen" /\ v.stack[1].was = FALSE
    BY SMTT(40), <1>7, <1>10, <1>14, <1>15 DEF Running
  <1>20. StackInv(v)
    BY Zenon, <1>10, <1>17, <1>18, <1>19 DEF StackInv, Calling, Running, Callbacks
  <1>21. StateInv(v)
    BY Zenon, <1>5, <1>17, <1>18 DEF StateInv
  <1>22. PendingInv(v)
    BY Zenon, <1>14, <1>17, <1>18 DEF PendingInv
  <1>23. QueueInv(v)
    BY ZenonT(40), <1>14, <1>18 DEF QueueInv
  <1>24. HeldInv(v, quit)
    BY SMTT(40), <1>9, <1>17 DEF HeldInv
  <1>25. OrderInv(v, sent)
    BY ZenonT(40), <1>1, <1>2, <1>8, <1>14, <1>17, <1>18, <1>19 DEF Good, OrderInv
  <1>26. Good(v, sent, quit)
    BY ZenonT(40), <1>15, <1>20, <1>21, <1>22, <1>23, <1>24, <1>25 DEF Good
  <1>27. Quiet(v, World, quit)
    BY <1>18 DEF Quiet, w
  <1>. QED BY <1>1, <1>4, <1>26, <1>27, KeptBy

LEMMA UserCancelKept ==
    ASSUME Inv, UserCancel
    PROVE  Kept
  <1> DEFINE w == World
             b == [sub EXCEPT !.waitForCancel = FALSE]
             v == [w EXCEPT !.sub = b]
  <1>1. sent \in Seq(Events) /\ quit \in BOOLEAN /\ Good(w, sent, quit)
    BY DEF Inv
  <1>2. /\ w.stack # << >> /\ w.stack = stack /\ w.sub = sub /\ w.ctl = ctl
        /\ ctl.state # "initial" /\ sub \in Subs /\ w \in Worlds /\ stack \in Seq(Frames)
    BY <1>1, WorldFacts DEF UserCancel, InUserCode, HasSubscription, Good, Worlds
  <1>3. v = [World EXCEPT !.sub.waitForCancel = FALSE]
    BY DEF World
  <1>4. Becomes(IF sub.canceled THEN v ELSE Cancel(v, Null)) /\ sent' = sent
    BY <1>3 DEF UserCancel
  <1>5. quit' \in BOOLEAN /\ (quit' => quit \/ ~OnCancelOfDone)
    BY <1>1 DEF UserCancel
  <1>6. /\ b \in Subs /\ b.waitForCancel = FALSE /\ b.canceled = sub.canceled
        /\ b.inCallback = sub.inCallback /\ b.hasPending = sub.hasPending
        /\ b.pauseCount = sub.pauseCount /\ b.last = sub.last
        /\ b.inputPaused = sub.inputPaused
    BY ZenonT(40), <1>2 DEF Subs
  <1> HIDE DEF w, b
  <1>7. /\ v \in Worlds /\ v.ctl = w.ctl /\ v.sub = b /\ v.pending = w.pending
        /\ v.told = w.told /\ v.heard = w.heard /\ v.stack = w.stack /\ v.queue = w.queue
    BY Zenon, <1>2, <1>6 DEF Worlds
  <1> HIDE DEF v
  <1>8. QueueInv(v)
    BY <1>1, <1>7 DEF Good, QueueInv
  <1>9. CASE sub.canceled
    <2>1. Becomes(v)
      BY SMTT(40), <1>4, <1>9
    <2>2. StackInv(v)
      BY ZenonT(40), <1>1, <1>2, <1>6, <1>7 DEF Good, StackInv, Running, Calling, Canceling,
            CancelingInside, Ending
    <2>3. StateInv(v) /\ PendingInv(v)
      BY ZenonT(40), <1>1, <1>2, <1>6, <1>7, <1>9 DEF Good, StateInv, PendingInv
    <2>4. OrderInv(v, sent)
      BY ZenonT(40), <1>1, <1>2, <1>6, <1>7 DEF Good, OrderInv
    <2>5. OnCancelOf(v, "done") => OnCancelOfDone /\ OnCancelOf(w, "done")
      BY SMTT(40), <1>2, <1>7 DEF OnCancelOf, OnCancelOfDone
    <2>6. HeldInv(v, quit')
      BY ZenonT(40), <1>1, <1>2, <1>5, <1>6, <1>7, <1>9, <2>5 DEF Good, HeldInv
    <2>7. Good(v, sent, quit') /\ Quiet(v, World, quit)
      BY ZenonT(40), <1>7, <1>8, <2>2, <2>3, <2>4, <2>6 DEF Good, Quiet, w
    <2>. QED BY <1>1, <1>4, <1>5, <2>1, <2>7, KeptBy
  <1>10. CASE ~sub.canceled
    <2>1. Becomes(Cancel(v, Null))
      BY SMTT(40), <1>4, <1>10
    <2>2. /\ ~w.sub.inCallback => Running(w)
          /\ w.sub.inCallback => Calling(w)
          /\ w.sub.last = Null
      BY ZenonT(40), <1>1, <1>2, <1>10, LiveFacts
    <2>3. Running(v) \/ Calling(v)
      BY <1>2, <1>6, <1>7, <2>2 DEF Running, Calling
    <2>4. /\ v.sub.last = Null /\ ~v.sub.waitForCancel /\ Begins(v.heard, sent)
          /\ v.pending.state = "scheduled" => v.sub.hasPending
      BY ZenonT(40), <1>1, <1>2, <1>6, <1>7, <2>2 DEF Good, PendingInv, OrderInv
    <2>5. Good(Cancel(v, Null), sent, quit') /\ Cancel(v, Null).heard = v.heard
      BY ZenonT(40), <1>1, <1>5, <1>7, <1>8, <2>3, <2>4, CancelGood
    <2>6. Quiet(Cancel(v, Null), World, quit)
      BY ZenonT(40), <1>7, <2>5 DEF Quiet, w
    <2>. QED BY ZenonT(40), <1>1, <1>4, <1>5, <2>1, <2>5, <2>6, KeptBy
  <1>. QED BY <1>9, <1>10

LEMMA CallbackReturnsKept ==
    ASSUME Inv, CallbackReturns
    PROVE  Kept
  <1> DEFINE w == World
             was == stack[1].was
             v == Leave(w)
  <1>1. sent \in Seq(Events) /\ quit \in BOOLEAN /\ Good(w, sent, quit)
    BY DEF Inv
  <1>2. /\ w.stack # << >> /\ w.stack = stack /\ w \in Worlds /\ w.sub \in Subs
        /\ stack \in Seq(Frames) /\ stack[1] \in Frames /\ was \in BOOLEAN
    <2>1. w.stack # << >> /\ w.stack = stack /\ w \in Worlds
      BY <1>1, WorldFacts DEF CallbackReturns, Good
    <2>2. stack \in Seq(Frames) /\ w.sub \in Subs
      BY <2>1 DEF Worlds
    <2>3. stack[1] \in Frames
      BY <2>1, <2>2
    <2>. QED BY <2>1, <2>2, <2>3 DEF Frames
  <1>3. sent' = sent /\ quit' = quit
    BY DEF CallbackReturns, SameUser
  <1>4. \/ stack[1].at \in {"handler", "onListen", "onPause", "onResume"}
             /\ Becomes(CheckState(v, was))
        \/ stack[1].at = "again" /\ Becomes(TellSource(v, was))
        \/ stack[1].at = "last" /\ Becomes(v)
    BY SMTT(40) DEF CallbackReturns, Top
  <1>5. stack[1].at = "last" => Ending(w)
    BY ZenonT(40), <1>1, <1>2 DEF Good, StackInv, Running, Calling, Canceling, CancelingInside, Ending,
          Bottom, Callbacks
  <1>6. stack[1].at \in Callbacks => Calling(w)
    BY ZenonT(40), <1>1, <1>2 DEF Good, StackInv, Running, Calling, Canceling, CancelingInside, Ending,
          Bottom, Callbacks
  <1>7. Calling(w) \/ Ending(w)
    BY <1>4, <1>5, <1>6 DEF Callbacks
  <1>8. /\ v \in Worlds /\ SameButStack(v, w)
        /\ v.sub = [w.sub EXCEPT !.inCallback = FALSE]
        /\ Len(v.stack) = Len(w.stack) - 1
        /\ \A i \in 1 .. Len(w.stack) - 1 : v.stack[i] = w.stack[i + 1]
    BY <1>2, LeaveFacts
  <1> HIDE DEF w, was, v
  <1>9. /\ v.sub.inCallback = FALSE /\ v.sub.canceled = w.sub.canceled
        /\ v.sub.hasPending = w.sub.hasPending /\ v.sub.pauseCount = w.sub.pauseCount
        /\ v.sub.last = w.sub.last /\ v.sub.waitForCancel = w.sub.waitForCancel
    BY <1>2, <1>8 DEF Subs
  <1>10. /\ v.ctl = w.ctl /\ v.pending = w.pending /\ v.queue = w.queue /\ v.told = w.told
         /\ v.heard = w.heard
    BY <1>8 DEF SameButStack
  <1>11. /\ Len(v.stack) = 1 /\ v.stack[1] = w.stack[2] /\ v.stack[1].at \in Bottom
         /\ v.stack # << >>
    BY SMTT(40), <1>7, <1>8 DEF Calling, Ending
  <1>12. Running(v)
    BY <1>9, <1>11 DEF Running
  <1>13. v.stack[1].at # "onCancel"
    BY Zenon, <1>11 DEF Bottom
  <1>14. QueueInv(v)
    BY Zenon, <1>1, <1>10 DEF Good, QueueInv
  <1>15. HeldInv(v, quit)
    BY ZenonT(40), <1>1, <1>9, <1>13 DEF Good, HeldInv, OnCancelOf
  <1>16. OrderInv(v, sent)
    BY <1>1, <1>9, <1>10, <1>13 DEF Good, OrderInv
  <1>17. w.sub.inCallback
    BY Zenon, <1>7 DEF Calling, Ending
  <1>18. (v.sub.canceled <=> v.ctl.state = "canceled") /\ v.ctl.state # "initial"
    BY Zenon, <1>1, <1>9, <1>10, <1>17 DEF Good, StateInv
  <1>19. CASE stack[1].at \in {"handler", "onListen", "onPause", "onResume"}
    <2>1. Becomes(CheckState(v, was))
      BY <1>4, <1>19
    <2>2. Calling(w)
      BY SMTT(40), <1>6, <1>19 DEF Callbacks
    <2>3. ~v.sub.canceled => v.told = was
      BY ZenonT(40), <1>2, <1>9, <1>10, <2>2 DEF Calling, was
    <2>4. Unchecked(v)
      BY <1>1, <1>9, <1>10 DEF Good, PendingInv, Unchecked
    <2>5. Good(CheckState(v, was), sent, quit) /\ CheckState(v, was).heard = v.heard
      BY ZenonT(40), <1>1, <1>2, <1>8, <1>12, <1>14, <1>15, <1>16, <1>18, <2>3, <2>4, CheckStateGood
    <2>6. Quiet(CheckState(v, was), World, quit)
      BY <1>10, <2>5 DEF Quiet, w
    <2>. QED BY ZenonT(40), <1>1, <1>3, <2>1, <2>5, <2>6, KeptBy
  <1>20. CASE stack[1].at = "again"
    <2>1. Becomes(TellSource(v, was))
      BY <1>4, <1>20
    <2>2. Calling(w)
      BY <1>6, <1>20 DEF Callbacks
    <2>3. ~v.sub.canceled => v.told = was
      BY <1>2, <1>9, <1>10, <2>2 DEF Calling, was
    <2>4. PendingInv(v)
      BY ZenonT(40), <1>1, <1>2, <1>9, <1>10, <1>20 DEF Good, PendingInv, InHandler
    <2>5. Good(TellSource(v, was), sent, quit) /\ TellSource(v, was).heard = v.heard
      BY ZenonT(40), <1>1, <1>2, <1>8, <1>12, <1>14, <1>15, <1>16, <1>18, <2>3, <2>4, TellSourceGood
    <2>6. Quiet(TellSource(v, was), World, quit)
      BY <1>10, <2>5 DEF Quiet, w
    <2>. QED BY <1>1, <1>3, <2>1, <2>5, <2>6, KeptBy
  <1>21. CASE stack[1].at = "last"
    <2>1. Becomes(v)
      BY <1>4, <1>21
    <2>2. v.sub.canceled
      BY Zenon, <1>5, <1>9, <1>21 DEF Ending
    <2>3. StackInv(v) /\ StateInv(v)
      BY <1>12, <1>18, <2>2 DEF StackInv, StateInv
    <2>4. PendingInv(v)
      BY Zenon, <1>1, <1>9, <1>10, <1>18, <2>2 DEF Good, PendingInv
    <2>5. Good(v, sent, quit) /\ Quiet(v, World, quit)
      BY <1>8, <1>10, <1>14, <1>15, <1>16, <2>3, <2>4 DEF Good, Quiet, w
    <2>. QED BY <1>1, <1>3, <2>1, <2>5, KeptBy
  <1>. QED BY SMTT(40), <1>4, <1>19, <1>20, <1>21

(* The microtask of a completed future of onCancel disturbs nothing.       *)
LEMMA CanceledGood ==
    ASSUME NEW w, NEW s \in Seq(Events), NEW q \in BOOLEAN, Good(w, s, q)
    PROVE  LET v == [w EXCEPT !.queue = Append(@, "canceled")]
           IN  Good(v, s, q) /\ v.heard = w.heard
  <1> DEFINE u == Append(w.queue, "canceled")
             v == [w EXCEPT !.queue = Append(@, "canceled")]
  <1>1. w \in Worlds /\ w.queue \in Seq({"handleNext", "canceled"})
    BY Zenon DEF Good, Worlds
  <1>2. /\ u \in Seq({"handleNext", "canceled"}) /\ Len(u) = Len(w.queue) + 1
        /\ u[Len(w.queue) + 1] = "canceled"
        /\ \A i \in 1 .. Len(w.queue) : u[i] = w.queue[i]
    BY <1>1
  <1>3. v = [w EXCEPT !.queue = u]
    BY Zenon
  <1> HIDE DEF u, v
  <1>4. /\ v \in Worlds /\ v.ctl = w.ctl /\ v.sub = w.sub /\ v.pending = w.pending
        /\ v.told = w.told /\ v.heard = w.heard /\ v.stack = w.stack /\ v.queue = u
    BY ZenonT(40), <1>1, <1>2, <1>3 DEF Worlds
  <1>5. /\ StackInv(w) /\ StateInv(w) /\ PendingInv(w) /\ QueueInv(w)
        /\ HeldInv(w, q) /\ OrderInv(w, s)
    BY Zenon DEF Good
  <1>6. QueueInv(v)
    <2>1. ASSUME NEW i \in 1 .. Len(u), u[i] = "handleNext"
          PROVE  i \in 1 .. Len(w.queue) /\ w.queue[i] = "handleNext"
      BY SMTT(40), <1>1, <1>2, <2>1
    <2>. QED BY ZenonT(40), <1>4, <1>5, <2>1 DEF QueueInv
  <1>7. StackInv(v) /\ StateInv(v)
    BY ZenonT(40), <1>4, <1>5 DEF StackInv, StateInv, Running, Calling, Canceling,
                            CancelingInside, Ending
  <1>8. PendingInv(v) /\ HeldInv(v, q) /\ OrderInv(v, s)
    <2>1. PendingInv(v)
      BY ZenonT(40), <1>4, <1>5 DEF PendingInv, InHandler
    <2>2. HeldInv(v, q)
      BY ZenonT(40), <1>4, <1>5 DEF HeldInv, OnCancelOf
    <2>3. OrderInv(v, s)
      BY ZenonT(40), <1>4, <1>5 DEF OrderInv
    <2>. QED BY Zenon, <2>1, <2>2, <2>3
  <1>9. Good(v, s, q)
    BY Zenon, <1>4, <1>6, <1>7, <1>8 DEF Good
  <1>. QED BY Zenon, <1>4, <1>9 DEF v

LEMMA OnCancelReturnsKept ==
    ASSUME Inv, NEW result \in Futures, OnCancelReturns(result)
    PROVE  Kept
  <1> DEFINE w == World
             e == stack[1].event
             b == [sub EXCEPT !.waitForCancel = @ \/ (e # Null /\ e[1] = "done")]
             st == Tail(stack)
             v == [w EXCEPT !.sub = b, !.stack = st]
             a == [b EXCEPT !.cancelFuture = result, !.last = e]
             x == [v EXCEPT !.sub = a]
  <1>1. sent \in Seq(Events) /\ quit \in BOOLEAN /\ Good(w, sent, quit)
    BY DEF Inv
  <1>2. /\ w.stack # << >> /\ w.stack = stack /\ w.sub = sub /\ w \in Worlds /\ sub \in Subs
        /\ stack \in Seq(Frames) /\ e \in Events \cup {Null} /\ stack[1].at = "onCancel"
    <2>1. w.stack # << >> /\ w.stack = stack /\ w.sub = sub /\ w \in Worlds
      BY <1>1, WorldFacts DEF OnCancelReturns, Good
    <2>2. stack \in Seq(Frames) /\ sub \in Subs
      BY <2>1 DEF Worlds
    <2>3. stack[1] \in Frames
      BY <2>1, <2>2
    <2>. QED BY <2>1, <2>2, <2>3 DEF Frames, OnCancelReturns, Top
  <1>3. sent' = sent /\ quit' = quit
    BY DEF OnCancelReturns, Same, SameUser
  <1>4. v = [World EXCEPT !.stack = Tail(@),
                          !.sub.waitForCancel = @ \/ (e # Null /\ e[1] = "done")]
    BY Zenon DEF World
  <1>5. x = [v EXCEPT !.sub.cancelFuture = result, !.sub.last = e]
    BY ZenonT(40) DEF World
  <1>6. Becomes(CASE result = "none" -> AfterOnCancel(v, e)
                  [] result = "incomplete" -> x
                  [] OTHER -> [x EXCEPT !.queue = Append(@, "canceled")])
    BY Zenon, <1>4, <1>5 DEF OnCancelReturns, Top
  <1>7. /\ b \in Subs /\ b.canceled = sub.canceled /\ b.inCallback = sub.inCallback
        /\ b.hasPending = sub.hasPending /\ b.pauseCount = sub.pauseCount
        /\ b.last = sub.last
        /\ b.waitForCancel => sub.waitForCancel \/ (e # Null /\ e[1] = "done")
    BY ZenonT(40), <1>2 DEF Subs
  <1>8. /\ st \in Seq(Frames) /\ Len(st) = Len(stack) - 1
        /\ \A i \in 1 .. Len(stack) - 1 : st[i] = stack[i + 1]
    BY <1>2
  <1>9. Canceling(w) \/ CancelingInside(w)
    BY Zenon, <1>1, <1>2 DEF Good, StackInv, Running, Calling, Ending, Bottom, Callbacks
  <1>10. /\ sub.canceled /\ sub.last = Null /\ w.ctl.state = "canceled"
         /\ w.pending.state # "scheduled" /\ Begins(w.heard, sent)
         /\ e # Null => sub.pauseCount = 0 /\ ~sub.inCallback /\ Canceling(w)
         /\ e # Null => NextIs(w.heard, e, sent)
    <2>1. sub.canceled /\ sub.last = Null
      BY Zenon, <1>2, <1>9 DEF Canceling, CancelingInside
    <2>2. w.ctl.state = "canceled" /\ w.pending.state # "scheduled"
      BY ZenonT(40), <1>1, <1>2, <2>1 DEF Good, StateInv, PendingInv
    <2>3. e # Null => sub.pauseCount = 0 /\ ~sub.inCallback /\ Canceling(w)
      BY SMTT(40), <1>2, <1>9 DEF Canceling, CancelingInside
    <2>4. Begins(w.heard, sent) /\ (e # Null => NextIs(w.heard, e, sent))
      BY ZenonT(40), <1>1, <1>2 DEF Good, OrderInv
    <2>. QED BY ZenonT(40), <2>1, <2>2, <2>3, <2>4
  <1>11. quit => ~sub.waitForCancel /\ ~(e # Null /\ e[1] = "done")
    BY <1>1, <1>2 DEF Good, HeldInv, OnCancelOf
  <1> HIDE DEF w, e, b, st
  <1>12. /\ v \in Worlds /\ v.ctl = w.ctl /\ v.pending = w.pending /\ v.queue = w.queue
         /\ v.told = w.told /\ v.heard = w.heard /\ v.sub = b /\ v.stack = st
    BY ZenonT(40), <1>2, <1>7, <1>8 DEF Worlds
  <1> HIDE DEF v
  <1>13. Running(v) \/ (Calling(v) /\ e = Null)
    <2>1. CASE Canceling(w)
      BY <1>2, <1>7, <1>8, <1>12, <2>1 DEF Canceling, Running
    <2>2. CASE CancelingInside(w)
      <3>1. Len(st) = 2 /\ st[1] = stack[2] /\ st[2] = stack[3]
        BY <1>2, <1>8, <2>2 DEF CancelingInside
      <3>. QED BY ZenonT(40), <1>2, <1>7, <1>12, <2>2, <3>1 DEF CancelingInside, Calling, e
    <2>. QED BY ZenonT(40), <1>9, <2>1, <2>2
  <1>14. v.stack[1].at # "onCancel" /\ v.stack # << >>
    BY <1>13 DEF Running, Calling, Bottom, Callbacks
  <1>15. QueueInv(v)
    BY <1>1, <1>12 DEF Good, QueueInv
  <1>16. HeldInv(v, quit)
    BY ZenonT(40), <1>7, <1>10, <1>11, <1>12, <1>14 DEF HeldInv, OnCancelOf
  <1>17. /\ v.sub.canceled /\ v.ctl.state = "canceled" /\ v.sub.last = Null
         /\ v.pending.state # "scheduled" /\ Begins(v.heard, sent)
         /\ e # Null => NextIs(v.heard, e, sent)
    BY ZenonT(40), <1>7, <1>10, <1>12
  <1>18. CASE result = "none"
    <2>1. Becomes(AfterOnCancel(v, e))
      BY SMTT(40), <1>6, <1>18
    <2>2. /\ Good(AfterOnCancel(v, e), sent, quit)
          /\ AfterOnCancel(v, e).heard # v.heard => e # Null /\ v.sub.waitForCancel
      BY ZenonT(40), <1>1, <1>2, <1>12, <1>13, <1>15, <1>16, <1>17, AfterOnCancelGood
    <2>3. Quiet(AfterOnCancel(v, e), World, quit)
      BY Zenon, <1>2, <1>7, <1>10, <1>11, <1>12, <2>2 DEF Quiet, w
    <2>. QED BY <1>1, <1>3, <2>1, <2>2, <2>3, KeptBy
  <1>19. CASE result # "none"
    <2>1. /\ a \in Subs /\ a.canceled = b.canceled /\ a.inCallback = b.inCallback
          /\ a.pauseCount = b.pauseCount /\ a.last = e /\ a.waitForCancel = b.waitForCancel
      BY ZenonT(40), <1>2, <1>7 DEF Subs
    <2> HIDE DEF a
    <2>2. /\ x \in Worlds /\ x.ctl = v.ctl /\ x.pending = v.pending /\ x.queue = v.queue
          /\ x.told = v.told /\ x.heard = v.heard /\ x.sub = a /\ x.stack = v.stack
      BY ZenonT(40), <1>12, <2>1 DEF Worlds
    <2> HIDE DEF x
    <2>3. StackInv(x)
      BY <1>12, <1>13, <2>1, <2>2 DEF StackInv, Running, Calling
    <2>4. StateInv(x) /\ PendingInv(x)
      BY ZenonT(40), <1>12, <1>17, <2>1, <2>2 DEF StateInv, PendingInv
    <2>5. QueueInv(x)
      BY <1>15, <2>2 DEF QueueInv
    <2>6. HeldInv(x, quit)
      BY ZenonT(40), <1>7, <1>10, <1>12, <1>14, <1>16, <2>1, <2>2 DEF HeldInv, OnCancelOf
    <2>7. OrderInv(x, sent)
      BY ZenonT(40), <1>12, <1>14, <1>17, <2>1, <2>2 DEF OrderInv
    <2>8. Good(x, sent, quit) /\ x.heard = World.heard
      BY Zenon, <1>12, <2>2, <2>3, <2>4, <2>5, <2>6, <2>7 DEF Good, w
    <2>9. CASE result = "incomplete"
      <3>1. Becomes(x)
        BY SMTT(40), <1>6, <2>9
      <3>2. Quiet(x, World, quit)
        BY Zenon, <2>8 DEF Quiet
      <3>. QED BY <1>1, <1>3, <2>8, <3>1, <3>2, KeptBy
    <2>10. CASE result # "incomplete"
      <3> DEFINE y == [x EXCEPT !.queue = Append(@, "canceled")]
      <3>1. Becomes(y)
        BY SMTT(40), <1>6, <1>19, <2>10
      <3>2. Good(y, sent, quit) /\ y.heard = x.heard
        BY Zenon, <1>1, <2>8, CanceledGood
      <3> HIDE DEF y
      <3>3. Quiet(y, World, quit)
        BY Zenon, <2>8, <3>2 DEF Quiet
      <3>. QED BY <1>1, <1>3, <3>1, <3>2, <3>3, KeptBy
    <2>. QED BY <2>9, <2>10
  <1>. QED BY <1>18, <1>19

LEMMA TailQueue ==
    ASSUME NEW w \in Worlds, QueueInv(w), w.queue # << >>, NEW v \in Worlds,
           v.queue = Tail(w.queue),
           v.pending.state = w.pending.state \/ Head(w.queue) = "handleNext"
    PROVE  QueueInv(v)
  <1>1. /\ w.queue \in Seq({"handleNext", "canceled"}) /\ Len(v.queue) = Len(w.queue) - 1
        /\ \A i \in 1 .. Len(v.queue) : v.queue[i] = w.queue[i + 1]
        /\ 1 \in 1 .. Len(w.queue) /\ Head(w.queue) = w.queue[1]
    BY DEF Worlds
  <1>2. CASE Head(w.queue) = "handleNext"
    <2>1. \A i \in 1 .. Len(v.queue) : v.queue[i] # "handleNext"
      BY SMTT(40), <1>1, <1>2 DEF QueueInv
    <2>. QED BY Zenon, <2>1 DEF QueueInv
  <1>3. CASE v.pending.state = w.pending.state
    BY <1>1, <1>3 DEF QueueInv
  <1>. QED BY <1>2, <1>3

LEMMA HandleNextKept ==
    ASSUME Inv, HandleNext
    PROVE  Kept
  <1> DEFINE w == World
             p == [pending EXCEPT !.state = "unscheduled"]
             g == [p EXCEPT !.events = Tail(@)]
             u == Tail(queue)
             v == [w EXCEPT !.queue = u, !.pending = p]
             x == [v EXCEPT !.pending = g]
             e == Head(pending.events)
  <1>1. sent \in Seq(Events) /\ quit \in BOOLEAN /\ Good(w, sent, quit)
    BY DEF Inv
  <1>2. /\ w.stack # << >> /\ w.queue = queue /\ w.pending = pending /\ w \in Worlds
        /\ queue # << >> /\ Head(queue) = "handleNext" /\ Running(w)
    BY ZenonT(40), <1>1, WorldFacts, TopIsBottom DEF HandleNext, LoopRuns, Good, Top, Bottom
  <1>3. /\ pending \in Pendings /\ pending.events \in Seq(Events)
        /\ queue \in Seq({"handleNext", "canceled"}) /\ w.heard \in Seq(Events)
        /\ w.sub \in Subs /\ w.ctl \in Ctls
    BY <1>2 DEF Worlds, Pendings
  <1>4. sent' = sent /\ quit' = quit
    BY DEF HandleNext, Same, SameUser
  <1>5. v = [World EXCEPT !.queue = Tail(@), !.pending.state = "unscheduled"]
    BY DEF World
  <1>6. x = [v EXCEPT !.pending.events = Tail(@)]
    BY Zenon DEF World
  <1>7. Becomes(IF pending.state = "canceled" THEN v ELSE Send(x, e))
    BY Zenon, <1>5, <1>6 DEF HandleNext
  <1>8. p \in Pendings /\ p.state = "unscheduled" /\ p.events = pending.events
    BY <1>3 DEF Pendings
  <1>9. u \in Seq({"handleNext", "canceled"})
    BY SMTT(40), <1>2, <1>3
  <1>10. pending.state # "unscheduled"
    <2>1. QueueInv(w)
      BY Zenon, <1>1 DEF Good
    <2>2. 1 \in 1 .. Len(queue) /\ queue[1] = "handleNext"
      BY <1>2, <1>3
    <2>. QED BY Zenon, <1>2, <2>1, <2>2 DEF QueueInv
  <1> HIDE DEF w, p
  <1>11. /\ v \in Worlds /\ v.ctl = w.ctl /\ v.sub = w.sub /\ v.pending = p /\ v.queue = u
         /\ v.told = w.told /\ v.heard = w.heard /\ v.stack = w.stack
    BY Zenon, <1>2, <1>8, <1>9 DEF Worlds
  <1>12. QueueInv(v)
    BY ZenonT(40), <1>1, <1>2, <1>11, TailQueue DEF Good
  <1>13. CASE pending.state = "canceled"
    <2> HIDE DEF v
    <2>1. Becomes(v)
      BY SMTT(40), <1>7, <1>13
    <2>2. StackInv(v) /\ StateInv(v)
      BY ZenonT(40), <1>1, <1>2, <1>8, <1>11 DEF Good, StackInv, Running, StateInv
    <2>3. PendingInv(v)
      BY ZenonT(40), <1>1, <1>2, <1>8, <1>11 DEF Good, PendingInv, InHandler
    <2>4. HeldInv(v, quit) /\ OrderInv(v, sent)
      BY ZenonT(40), <1>1, <1>2, <1>8, <1>11 DEF Good, HeldInv, OrderInv, OnCancelOf
    <2>5. Good(v, sent, quit) /\ Quiet(v, World, quit)
      BY ZenonT(40), <1>11, <1>12, <2>2, <2>3, <2>4 DEF Good, Quiet, w
    <2>. QED BY <1>1, <1>4, <2>1, <2>5, KeptBy
  <1>14. CASE pending.state # "canceled"
    <2>1. Becomes(Send(x, e))
      BY <1>7, <1>14
    <2>2. /\ ~w.sub.canceled /\ w.sub.hasPending /\ w.sub.pauseCount = 0
          /\ pending.events # << >>
      BY ZenonT(40), <1>1, <1>2, <1>3, <1>10, <1>14 DEF Good, PendingInv, Pendings
    <2>3. w.sub.last = Null /\ quit = FALSE /\ w.ctl.state = "subscribed"
      BY ZenonT(40), <1>1, <1>3, <2>2 DEF Good, HeldInv, StateInv, Ctls
    <2>4. e \in Events /\ Tail(pending.events) \in Seq(Events)
      BY <1>3, <2>2
    <2>5. g \in Pendings /\ g.state = "unscheduled" /\ g.events = Tail(pending.events)
      BY Zenon, <1>8, <2>4 DEF Pendings
    <2> HIDE DEF g
    <2>6. /\ x \in Worlds /\ x.ctl = w.ctl /\ x.sub = w.sub /\ x.pending = g /\ x.queue = u
          /\ x.told = w.told /\ x.heard = w.heard /\ x.stack = w.stack
      BY Zenon, <1>11, <2>5 DEF Worlds
    <2> HIDE DEF x, v
    <2>7. QueueInv(x)
      BY ZenonT(40), <1>1, <1>2, <2>6, TailQueue DEF Good
    <2>8. Running(x) /\ StateInv(x)
      BY ZenonT(40), <1>1, <1>2, <2>3, <2>6 DEF Good, Running, StateInv
    <2>9. MaySend(x)
      BY ZenonT(40), <2>2, <2>3, <2>5, <2>6, <2>7, <2>8 DEF MaySend
    <2>10. Begins(w.heard, sent) /\ RestIs(w.heard, pending.events, sent)
      BY ZenonT(40), <1>1, <1>2, <2>2 DEF Good, OrderInv
    <2>11. NextIs(w.heard, e, sent) /\ RestIs(Append(w.heard, e), Tail(pending.events), sent)
      BY Zenon, <1>1, <1>3, <2>2, <2>4, <2>10, OrderFacts
    <2> HIDE DEF e
    <2>12. Good(Send(x, e), sent, FALSE)
      BY ZenonT(40), <1>1, <2>4, <2>5, <2>6, <2>9, <2>10, <2>11, SendGood
    <2>13. Quiet(Send(x, e), World, quit)
      BY <1>2, <2>2, <2>3 DEF Quiet, w, Running
    <2>. QED BY ZenonT(40), <1>1, <1>4, <2>1, <2>3, <2>12, <2>13, KeptBy
  <1>. QED BY <1>13, <1>14

LEMMA CancelCompletedKept ==
    ASSUME Inv, CancelCompleted
    PROVE  Kept
  <1> DEFINE w == World
             e == sub.last
             b == [sub EXCEPT !.last = Null, !.cancelFuture = "complete"]
             u == Tail(queue)
             v == [w EXCEPT !.queue = u, !.sub = b]
  <1>1. sent \in Seq(Events) /\ quit \in BOOLEAN /\ Good(w, sent, quit)
    BY DEF Inv
  <1>2. /\ w.stack # << >> /\ w.queue = queue /\ w.sub = sub /\ w \in Worlds
        /\ queue # << >> /\ Running(w)
    BY SMTT(40), <1>1, WorldFacts, TopIsBottom DEF CancelCompleted, LoopRuns, Good, Top, Bottom
  <1>3. /\ queue \in Seq({"handleNext", "canceled"}) /\ sub \in Subs
        /\ e \in Events \cup {Null}
    BY <1>2 DEF Worlds, Subs
  <1>4. sent' = sent /\ quit' = quit
    BY DEF CancelCompleted, SameUser
  <1>5. v = [World EXCEPT !.queue = Tail(@), !.sub.last = Null, !.sub.cancelFuture = "complete"]
    BY DEF World
  <1>6. Becomes(AfterOnCancel(v, e))
    BY Zenon, <1>5 DEF CancelCompleted
  <1>7. /\ b \in Subs /\ b.last = Null /\ b.canceled = sub.canceled
        /\ b.inCallback = sub.inCallback /\ b.hasPending = sub.hasPending
        /\ b.pauseCount = sub.pauseCount /\ b.inputPaused = sub.inputPaused
        /\ b.waitForCancel = sub.waitForCancel
    BY ZenonT(40), <1>3 DEF Subs
  <1>8. u \in Seq({"handleNext", "canceled"})
    BY <1>2, <1>3
  <1> HIDE DEF w, b
  <1>9. /\ v \in Worlds /\ v.ctl = w.ctl /\ v.sub = b /\ v.pending = w.pending
        /\ v.queue = u /\ v.told = w.told /\ v.heard = w.heard /\ v.stack = w.stack
    BY ZenonT(40), <1>2, <1>7, <1>8 DEF Worlds
  <1> HIDE DEF v
  <1>10. QueueInv(v)
    BY Zenon, <1>1, <1>2, <1>9, TailQueue DEF Good
  <1> HIDE DEF u, e
  <1>11. Running(v)
    BY Zenon, <1>2, <1>7, <1>9 DEF Running
  <1>12. CASE e = Null
    <2> DEFINE c == [v.ctl EXCEPT !.done = IF @ = "incomplete" THEN "complete" ELSE @]
               x == [v EXCEPT !.ctl = c]
    <2>1. AfterOnCancel(v, e) = x
      BY ZenonT(40), <1>9, <1>12 DEF AfterOnCancel, Worlds
    <2>2. SameState(v.sub, w.sub)
      BY SMTT(40), <1>2, <1>7, <1>9, <1>12 DEF SameState, e
    <2>3. Len(v.stack) = 1 /\ v.stack[1].at \in Bottom
      BY ZenonT(40), <1>11 DEF Running
    <2>4. Good(v, sent, quit)
      BY <1>1, <1>2, <1>9, <1>10, <2>2, <2>3, LoopGood
    <2>5. c \in Ctls /\ c.state = v.ctl.state
      <3>1. v.ctl \in Ctls
        BY <1>9 DEF Worlds
      <3>. QED BY <3>1 DEF Ctls
    <2>8. x = [v EXCEPT !.ctl = c]
      OBVIOUS
    <2> HIDE DEF c, x
    <2>6. Good(x, sent, quit) /\ x.heard = v.heard
      <3>1. sent \in Seq(Events) /\ quit \in BOOLEAN
        BY Zenon, <1>1
      <3>. QED BY SMTT(40), <2>4, <2>5, <2>8, <3>1, ControllerGood
    <2>7. Quiet(x, World, quit)
      BY Zenon, <1>9, <2>6 DEF Quiet, w
    <2>. QED BY ZenonT(40), <1>1, <1>4, <1>6, <2>1, <2>6, <2>7, KeptBy
  <1>13. CASE e # Null
    <2>1. sub.canceled /\ sub.pauseCount = 0
      BY Zenon, <1>1, <1>2, <1>13 DEF Good, HeldInv, e
    <2>2. w.ctl.state = "canceled" /\ w.pending.state # "scheduled"
      BY ZenonT(40), <1>1, <1>2, <2>1 DEF Good, StateInv, PendingInv
    <2>3. Begins(w.heard, sent) /\ NextIs(w.heard, e, sent)
      BY ZenonT(40), <1>1, <1>2, <1>13 DEF Good, OrderInv, e
    <2>4. v.stack[1].at # "onCancel"
      BY SMTT(40), <1>11 DEF Running, Bottom
    <2>5. HeldInv(v, quit)
      BY ZenonT(40), <1>1, <1>2, <1>7, <1>9, <2>4 DEF Good, HeldInv, OnCancelOf
    <2>6. /\ v.sub.canceled /\ v.ctl.state = "canceled" /\ v.sub.last = Null
          /\ v.pending.state # "scheduled" /\ Begins(v.heard, sent)
          /\ NextIs(v.heard, e, sent)
      BY ZenonT(40), <1>7, <1>9, <2>1, <2>2, <2>3
    <2>7. /\ Good(AfterOnCancel(v, e), sent, quit)
          /\ AfterOnCancel(v, e).heard # v.heard => v.sub.waitForCancel
      BY ZenonT(40), <1>1, <1>3, <1>9, <1>10, <1>11, <2>5, <2>6, AfterOnCancelGood
    <2>8. quit => ~v.sub.waitForCancel
      BY SMTT(40), <2>5 DEF HeldInv
    <2>9. Quiet(AfterOnCancel(v, e), World, quit)
      BY <1>2, <1>9, <2>1, <2>7, <2>8 DEF Quiet, w, Running
    <2>. QED BY ZenonT(40), <1>1, <1>4, <1>6, <2>7, <2>9, KeptBy
  <1>. QED BY <1>12, <1>13

-----------------------------------------------------------------------------
LEMMA NextKept ==
    ASSUME Inv, [Next]_vars
    PROVE  Kept
  <1>1. CASE Next
    <2>1. CASE User
      <3>1. ASSUME NEW kind \in {"data", "error"}, Add(kind) PROVE Kept
        BY <3>1, AddKept
      <3>. QED BY ZenonT(40), <2>1, <3>1, CloseKept, DoneKept, ListenKept, PauseKept, ResumeKept,
                  UserCancelKept DEF User
    <2>2. CASE Run
      <3>1. ASSUME NEW result \in Futures, OnCancelReturns(result) PROVE Kept
        BY <3>1, OnCancelReturnsKept
      <3>. QED BY <2>2, <3>1, CallbackReturnsKept, MessageKept, HandleNextKept,
                  CancelCompletedKept DEF Run
    <2>3. ASSUME NEW result \in {"value", "error"}, CompleteCancelFuture(result) PROVE Kept
      BY <2>3, CompleteCancelFutureKept
    <2>. QED BY ZenonT(40), <1>1, <2>1, <2>2, <2>3, MessageKept DEF Next
  <1>2. CASE UNCHANGED vars
    <2>1. World' = World /\ sent' = sent /\ quit' = quit
      BY <1>2 DEF vars, World
    <2>2. Inv'
      BY <2>1 DEF Inv
    <2>. QED BY ZenonT(40), <2>1, <2>2 DEF Kept, Quiet
  <1>. QED BY <1>1, <1>2

LEMMA InvHolds == Spec => []Inv
  <1>1. Inv /\ [Next]_vars => Inv'
    BY NextKept DEF Kept
  <1>. QED BY <1>1, InitGood, PTL DEF Spec

(* The order of events, from what Begins and RestIs say of each of them.   *)
LEMMA InvOrder ==
    ASSUME Inv
    PROVE  EventsInOrder
  <1>1. /\ sent \in Seq(Events) /\ World \in Worlds /\ OrderInv(World, sent)
    BY SMTT(40) DEF Inv, Good
  <1>2. /\ heard \in Seq(Events) /\ pending.events \in Seq(Events) /\ Begins(heard, sent)
        /\ ~sub.canceled => RestIs(heard, pending.events, sent)
    BY Zenon, <1>1, WorldFacts DEF Worlds, Pendings, OrderInv
  <1>3. heard = SubSeq(sent, 1, Len(heard))
    <2> DEFINE t == SubSeq(sent, 1, Len(heard))
    <2>1. \A i \in 1 .. Len(heard) : sent[i] \in Events
      BY SMTT(40), <1>1, <1>2 DEF Begins
    <2>2. /\ t \in Seq(Events) /\ Len(t) = Len(heard)
          /\ \A i \in 1 .. Len(heard) : t[i] = sent[i]
      BY <1>2, <2>1, SubSeqProperties
    <2> HIDE DEF t
    <2>3. heard = t
      BY <1>2, <2>2, SeqEqual DEF Begins
    <2>. QED BY ZenonT(40), <2>3 DEF t
  <1>4. ~sub.canceled => heard \o pending.events = sent
    <2> SUFFICES ASSUME ~sub.canceled PROVE heard \o pending.events = sent
      OBVIOUS
    <2> DEFINE t == heard \o pending.events
    <2>1. /\ t \in Seq(Events) /\ Len(t) = Len(heard) + Len(pending.events)
          /\ \A i \in 1 .. Len(heard) + Len(pending.events) :
                t[i] = IF i <= Len(heard) THEN heard[i] ELSE pending.events[i - Len(heard)]
      BY <1>2, ConcatProperties
    <2>2. Len(sent) = Len(heard) + Len(pending.events)
      BY <1>2 DEF RestIs
    <2> HIDE DEF t
    <2>3. ASSUME NEW i \in 1 .. Len(t) PROVE t[i] = sent[i]
      <3>1. CASE i <= Len(heard)
        BY SMTT(40), <1>2, <2>1, <3>1 DEF Begins
      <3>2. CASE ~(i <= Len(heard))
        <4>1. i - Len(heard) \in 1 .. Len(pending.events)
          <5>1. Len(heard) \in Nat /\ Len(pending.events) \in Nat
            BY <1>2
          <5>. QED BY <2>1, <3>2, <5>1
        <4>2. pending.events[i - Len(heard)] = sent[Len(heard) + (i - Len(heard))]
          BY ZenonT(40), <1>2, <4>1 DEF RestIs
        <4>. QED BY SMTT(40), <1>2, <2>1, <3>2, <4>2
      <3>. QED BY ZenonT(40), <3>1, <3>2
    <2>4. t = sent
      BY <1>1, <2>1, <2>2, <2>3, SeqEqual
    <2>. QED BY <2>4 DEF t
  <1>. QED BY <1>3, <1>4 DEF EventsInOrder

(* No event that a controller has accepted is lost, repeated or overtaken  *)
(* on its way to the handlers, whether it is sent at once, by handleNext   *)
(* or after onCancel.                                                      *)
THEOREM EventsComeInOrder == Spec => []EventsInOrder
  <1>1. Inv => EventsInOrder
    BY ZenonT(40), InvOrder
  <1>. QED BY <1>1, InvHolds, PTL

(* Outside of its callbacks a subscription has told the source, by onPause *)
(* and onResume, whether its input is paused (_checkState).                *)
THEOREM SourceKnowsOfPauses == Spec => []SourceIsTold
  <1>1. Inv => SourceIsTold
    BY WorldFacts DEF Inv, Good, StateInv, SourceIsTold
  <1>. QED BY <1>1, InvHolds, PTL

(* The assertions of _sendData, _sendError and _sendDone hold, and cancel  *)
(* is the last that is heard of a stream.                                  *)
THEOREM HandlersAreCalledWhenAllowed == Spec => QuietWhenAsked
  <1>1. Inv /\ [Next]_vars =>
           [heard' # heard => sub.pauseCount = 0 /\ ~sub.inCallback /\ ~quit]_vars
    <2> SUFFICES ASSUME Inv, [Next]_vars
                 PROVE  heard' # heard => sub.pauseCount = 0 /\ ~sub.inCallback /\ ~quit
      OBVIOUS
    <2>1. Quiet(World', World, quit)
      BY ZenonT(40), NextKept DEF Kept
    <2>2. World'.heard = heard'
      BY DEF World
    <2>. QED BY <2>1, <2>2, WorldFacts DEF Quiet
  <1>. QED BY <1>1, InvHolds, PTL DEF Spec, QuietWhenAsked

================================================================================
