---------------------------- MODULE MessageHandler ----------------------------
(***************************************************************************)
(* A message handler on the thread pool (runtime/vm/message_handler.cc):   *)
(* PostMessage and Run schedule a MessageHandlerTask, TaskCallback runs    *)
(* the start callback, handles messages, pauses at start and at exit, and  *)
(* runs the end callback; a thread that runs Dart code polls for           *)
(* interrupts and handles out-of-band (OOB) messages in between.           *)
(*                                                                         *)
(* A message is known by its priority only, so a queue is its length.      *)
(* What HandleMessage may do to the handler is taken from                  *)
(* IsolateMessageHandler (isolate.cc).  The pool is external here: a task  *)
(* given to it is run once (module TaskPool).                              *)
(***************************************************************************)
EXTENDS Integers

CONSTANTS
    Posters,        \* threads that post messages
    Workers,        \* threads of the pool
    Embedder,       \* the thread that runs the handler without the pool
    NULL,           \* no thread
    MaxPosts,       \* bound: messages posted
    MaxPaused,      \* bound: resume capabilities
    MaxLive,        \* bound: live ports
    MaxRuns,        \* bound: calls of Run
    PauseFlags      \* the values --pause_isolates_on_start and _on_exit may have

ASSUME BoundsAssumption ==
    MaxPosts \in Nat /\ MaxPaused \in Nat /\ MaxLive \in Nat /\ MaxRuns \in Nat

ASSUME PauseFlagsAssumption == PauseFlags \subseteq BOOLEAN

ASSUME ThreadsAssumption == Embedder \notin Workers /\ NULL \notin Workers \cup {Embedder}

VARIABLES
    queue_, oob_queue_,     \* number of messages waiting
    oob_message_handling_allowed_,
    live_ports_, paused_,
    pause_on_start_, pause_on_exit_, paused_on_start_, paused_on_exit_,
    pool_, task_,           \* is the pointer not NULL?
    start_callback_, end_callback_,
    monitor_,               \* the thread that holds monitor_ across steps, or NULL
    scheduled,              \* tasks handed to the pool that no worker has begun
    pc,                     \* where each thread is in TaskCallback
    ret,                    \* where its call of HandleMessages returns to
    min_priority,           \* the least priority that call takes a message of
    msg,                    \* priority of the message it handles ("service": an OOB
                            \* message that acquired the queues), or "none"
    ok,                     \* result of its call of HandleMessages or the start callback
    nested,                 \* it is in HandleOOBMessages, called by HandleInterrupts
    interrupt,              \* kMessageInterrupt is scheduled
    notify,                 \* what each poster still has to MessageNotify
    deleted,                \* the handler is deleted
    posted, handled,        \* OOB messages posted and handled, and all posts
    failed,                 \* an error was reported since the handler was started
    runs, ended             \* calls of Run and of the end callback

queues == <<queue_, oob_queue_, oob_message_handling_allowed_>>
flags == <<pause_on_start_, pause_on_exit_, paused_on_start_, paused_on_exit_>>
callbacks == <<start_callback_, end_callback_>>
call == <<ret, min_priority>>
thread == <<pc, call, msg, ok, nested>>
post == <<interrupt, notify, posted>>
history == <<handled, failed, runs, ended>>
vars == <<queues, live_ports_, paused_, flags, pool_, task_, callbacks, monitor_, scheduled,
          thread, post, deleted, history>>

Threads == Workers \cup {Embedder}

(* pc: "begin" TaskCallback entered the monitor; "notify_start" and        *)
(* "notify_exit" in NotifyPauseOn..., monitor released; "hm" at the head   *)
(* of HandleMessages' loop; "handling" in HandleMessage, monitor released; *)
(* "after_start", "after_main", "after_exit", "returned" after the calls   *)
(* of HandleMessages; "start_cb" before and "starting" in the start        *)
(* callback; "exit" about to stop; "end_cb" in the end callback.           *)
Returns == {"after_start", "after_main", "after_exit", "returned"}
Labels == Returns \cup {"idle", "begin", "notify_start", "hm", "handling", "start_cb",
                        "starting", "notify_exit", "exit", "end_cb"}

(* The end callback tells the kinds of handlers apart: a spawned isolate   *)
(* has a start callback and is shut down at the end; the embedder's own    *)
(* isolate has only an end callback, Dart_RunLoop's; a native port has     *)
(* neither.                                                                *)
EndCallbacks == {"none", "loop", "shutdown"}

Init ==
    /\ queue_ = 0 /\ oob_queue_ = 0 /\ oob_message_handling_allowed_ = TRUE
    /\ live_ports_ \in {0, 1} /\ paused_ = 0
    /\ pause_on_start_ \in PauseFlags /\ pause_on_exit_ \in PauseFlags
    /\ paused_on_start_ = FALSE /\ paused_on_exit_ = FALSE
    /\ pool_ = FALSE /\ task_ = FALSE
    /\ start_callback_ = FALSE /\ end_callback_ \in EndCallbacks
    /\ monitor_ = NULL /\ scheduled = 0
    /\ pc = [t \in Threads |-> "idle"]
    /\ ret = [t \in Threads |-> "returned"]
    /\ min_priority = [t \in Threads |-> "oob"]
    /\ msg = [t \in Threads |-> "none"]
    /\ ok = [t \in Threads |-> TRUE]
    /\ nested = [t \in Threads |-> FALSE]
    /\ interrupt = FALSE
    /\ notify = [p \in Posters |-> "none"]
    /\ deleted = FALSE
    /\ posted = [oob |-> 0, all |-> 0] /\ handled = 0 /\ failed = FALSE
    /\ runs = 0 /\ ended = 0
    /\ end_callback_ = "none" => live_ports_ = 1 /\ ~pause_on_start_ /\ ~pause_on_exit_

Goto(t, l) == pc' = [pc EXCEPT ![t] = l]
Acquire(t) == monitor_ = NULL /\ monitor_' = t
Release(t) == monitor_' = NULL

-----------------------------------------------------------------------------
(* Run, PostMessage and MessageNotify.                                     *)

(* The callbacks are those of the handler's kind, see EndCallbacks.  The   *)
(* embedder must not be handling messages itself; it runs its isolate's    *)
(* loop as often as it likes.                                              *)
Run ==
    /\ runs < MaxRuns /\ ended = runs /\ ~deleted
    /\ monitor_ = NULL /\ pc[Embedder] = "idle"
    /\ end_callback_ = "loop" \/ runs = 0
    /\ ~pool_
    /\ pool_' = TRUE
    /\ start_callback_' = (end_callback_ = "shutdown")
    /\ task_' = TRUE /\ scheduled' = scheduled + 1
    /\ runs' = runs + 1 /\ failed' = FALSE
    /\ UNCHANGED <<queues, live_ports_, paused_, flags, end_callback_, monitor_, thread, post,
                   deleted, handled, ended>>

(* Mutant: a task is started for each message.                             *)
AlwaysStarts == pool_

PostStartsTask == pool_ /\ ~task_

PostMessage(p, priority) ==
    /\ posted.all < MaxPosts /\ notify[p] = "none" /\ ~deleted
    /\ priority = "oob" => end_callback_ # "none"
    /\ monitor_ = NULL
    /\ posted' = [oob |-> posted.oob + (IF priority = "oob" THEN 1 ELSE 0), all |-> posted.all + 1]
    /\ oob_queue_' = oob_queue_ + (IF priority = "oob" THEN 1 ELSE 0)
    /\ queue_' = queue_ + (IF priority = "normal" THEN 1 ELSE 0)
    /\ task_' = (task_ \/ PostStartsTask)
    /\ scheduled' = scheduled + (IF PostStartsTask THEN 1 ELSE 0)
    /\ notify' = [notify EXCEPT ![p] = priority]
    /\ UNCHANGED <<oob_message_handling_allowed_, live_ports_, paused_, flags, pool_, callbacks,
                   monitor_, thread, interrupt, deleted, history>>

(* Mutant: no interrupt is scheduled.                                      *)
NoInterrupt(p) == UNCHANGED interrupt

ScheduleInterrupts(p) == interrupt' = (interrupt \/ notify[p] = "oob")

MessageNotify(p) ==
    /\ notify[p] # "none"
    /\ ScheduleInterrupts(p)
    /\ notify' = [notify EXCEPT ![p] = "none"]
    /\ UNCHANGED <<queues, live_ports_, paused_, flags, pool_, task_, callbacks, monitor_,
                   scheduled, thread, posted, deleted, history>>

-----------------------------------------------------------------------------
(* HandleMessages, HandleMessage.                                          *)

AllowNormal(return) == return \in {"after_main", "returned"}
AllowMultipleNormal(t) == ret[t] = "after_main"

(* min_priority: a paused isolate only takes OOB messages.                 *)
MinPriority(return, paused) == IF AllowNormal(return) /\ paused = 0 THEN "normal" ELSE "oob"

CallHandleMessages(t, return, paused) ==
    /\ ret' = [ret EXCEPT ![t] = return]
    /\ min_priority' = [min_priority EXCEPT ![t] = MinPriority(return, paused)]
    /\ ok' = [ok EXCEPT ![t] = TRUE]
    /\ Goto(t, "hm")

(* The head of the loop: an OOB message first, a normal one if allowed,    *)
(* else the loop ends.                                                     *)
DequeueOOB(t) ==
    /\ pc[t] = "hm" /\ oob_queue_ > 0
    /\ oob_queue_' = oob_queue_ - 1
    /\ msg' = [msg EXCEPT ![t] = "oob"]
    /\ Goto(t, "handling") /\ Release(t)
    /\ UNCHANGED <<queue_, oob_message_handling_allowed_, live_ports_, paused_, flags, pool_,
                   task_, callbacks, scheduled, call, ok, nested, post, deleted, history>>

DequeueNormal(t) ==
    /\ pc[t] = "hm" /\ oob_queue_ = 0
    /\ min_priority[t] = "normal" /\ queue_ > 0
    /\ queue_' = queue_ - 1
    /\ msg' = [msg EXCEPT ![t] = "normal"]
    /\ Goto(t, "handling") /\ Release(t)
    /\ UNCHANGED <<oob_queue_, oob_message_handling_allowed_, live_ports_, paused_, flags, pool_,
                   task_, callbacks, scheduled, call, ok, nested, post, deleted, history>>

DequeueNothing(t) ==
    /\ pc[t] = "hm" /\ oob_queue_ = 0
    /\ min_priority[t] = "normal" => queue_ = 0
    /\ Goto(t, ret[t])
    /\ UNCHANGED <<queues, live_ports_, paused_, flags, pool_, task_, callbacks, monitor_,
                   scheduled, call, msg, ok, nested, post, deleted, history>>

(* What an OOB message does to the handler, and HandleMessage's result:    *)
(* pause, resume, the service's resume, kill, kill by the VM, or nothing   *)
(* that matters here.                                                      *)
PauseMsg == paused_ < MaxPaused /\ paused_' = paused_ + 1 /\ UNCHANGED flags
ResumeMsg == paused_ > 0 /\ paused_' = paused_ - 1 /\ UNCHANGED flags
ServiceResume ==
    /\ paused_on_start_ \/ paused_on_exit_
    /\ pause_on_start_' = (pause_on_start_ /\ ~paused_on_start_)
    /\ pause_on_exit_' = (pause_on_exit_ /\ paused_on_start_)
    /\ UNCHANGED <<paused_, paused_on_start_, paused_on_exit_>>
InternalKillMsg ==
    /\ pause_on_start_' = FALSE /\ pause_on_exit_' = FALSE
    /\ UNCHANGED <<paused_, paused_on_start_, paused_on_exit_>>
OtherMsg == UNCHANGED <<paused_, flags>>

OOBMessage(result) ==
    \/ result /\ (PauseMsg \/ ResumeMsg \/ ServiceResume \/ OtherMsg)
    \/ ~result /\ (InternalKillMsg \/ OtherMsg)

(* Back in the monitor after HandleMessage: an error, or a normal message  *)
(* when only one is wanted, ends the loop.                                 *)
LoopContinues(t, result) == result /\ (msg[t] = "normal" => AllowMultipleNormal(t))

(* Mutant: what min_priority was when the loop was entered is used for all *)
(* of its messages.                                                        *)
EvaluatedOnce(t, paused) == min_priority[t]

(* Handling the message may have paused or resumed the isolate.            *)
Reevaluated(t, paused) == MinPriority(ret[t], paused)

Handled(t, result) ==
    /\ pc[t] = "handling" /\ ~nested[t]
    /\ Acquire(t)
    /\ ok[t] \/ ~result
    /\ ok' = [ok EXCEPT ![t] = result]
    /\ failed' = (failed \/ ~result)
    /\ Goto(t, IF LoopContinues(t, result) THEN "hm" ELSE ret[t])
    /\ min_priority' = [min_priority EXCEPT
                          ![t] = IF LoopContinues(t, result) THEN Reevaluated(t, paused_') ELSE @]
    /\ msg' = [msg EXCEPT ![t] = "none"]
    /\ UNCHANGED <<queues, pool_, task_, callbacks, scheduled, ret, nested, post, deleted,
                   runs, ended>>

HandledOOB(t) ==
    /\ msg[t] \in {"oob", "service"}
    /\ \E result \in BOOLEAN : OOBMessage(result) /\ Handled(t, result)
    /\ handled' = handled + 1
    /\ UNCHANGED live_ports_

(* AcquireQueues and Reset: a service message looks at the queues.  Its    *)
(* thread holds the monitor meanwhile, and an interrupt it polls then is   *)
(* cleared but not served.                                                 *)
AcquireQueues(t) ==
    /\ pc[t] = "handling" /\ msg[t] = "oob" /\ ~nested[t]
    /\ oob_message_handling_allowed_' = FALSE
    /\ msg' = [msg EXCEPT ![t] = "service"]
    /\ Acquire(t)
    /\ UNCHANGED <<queue_, oob_queue_, live_ports_, paused_, flags, pool_, task_, callbacks,
                   scheduled, pc, call, ok, nested, post, deleted, history>>

InterruptNotServed(t) ==
    /\ monitor_ = t /\ ~oob_message_handling_allowed_
    /\ interrupt
    /\ interrupt' = FALSE
    /\ UNCHANGED <<queues, live_ports_, paused_, flags, pool_, task_, callbacks, monitor_,
                   scheduled, thread, notify, posted, deleted, history>>

ReleaseQueues(t) ==
    /\ monitor_ = t /\ ~oob_message_handling_allowed_
    /\ oob_message_handling_allowed_' = TRUE
    /\ Release(t)
    /\ UNCHANGED <<queue_, oob_queue_, live_ports_, paused_, flags, pool_, task_, callbacks,
                   scheduled, thread, post, deleted, history>>

(* A normal message runs Dart code, which may open or close ports; a       *)
(* native port's function does neither, and never fails.                   *)
HandledNormal(t) ==
    /\ msg[t] = "normal"
    /\ UNCHANGED <<handled, paused_, flags>>
    /\ \E result \in BOOLEAN : Handled(t, result) /\ (end_callback_ = "none" => result)
    /\ live_ports_' \in {live_ports_ - 1, live_ports_, live_ports_ + 1} \cap (0 .. MaxLive)
    /\ end_callback_ = "none" => UNCHANGED live_ports_

(* HandleInterrupts, in Dart code: clear the interrupt and handle the OOB  *)
(* messages there are.  An error unwinds the Dart code, so that the call   *)
(* that is in progress fails too.                                          *)
RunsDart(t) == pc[t] = "starting" \/ (pc[t] = "handling" /\ msg[t] = "normal")

HandleInterrupts(t) ==
    /\ RunsDart(t) /\ ~nested[t] /\ ok[t]
    /\ interrupt
    /\ interrupt' = FALSE
    /\ nested' = [nested EXCEPT ![t] = TRUE]
    /\ UNCHANGED <<queues, live_ports_, paused_, flags, pool_, task_, callbacks, monitor_,
                   scheduled, pc, call, msg, ok, notify, posted, deleted, history>>

NestedContinues(t, result) == result

NestedHandleOOB(t) ==
    /\ nested[t] /\ monitor_ = NULL
    /\ oob_queue_ > 0
    /\ oob_queue_' = oob_queue_ - 1
    /\ handled' = handled + 1
    /\ \E result \in BOOLEAN :
          /\ OOBMessage(result)
          /\ ok' = [ok EXCEPT ![t] = result]
          /\ nested' = [nested EXCEPT ![t] = NestedContinues(t, result)]
          /\ failed' = (failed \/ ~result)
    /\ UNCHANGED <<queue_, oob_message_handling_allowed_, live_ports_, pool_, task_, callbacks,
                   monitor_, scheduled, pc, call, msg, post, deleted, runs, ended>>

NestedReturns(t) ==
    /\ nested[t] /\ monitor_ = NULL
    /\ oob_queue_ = 0
    /\ nested' = [nested EXCEPT ![t] = FALSE]
    /\ UNCHANGED <<queues, live_ports_, paused_, flags, pool_, task_, callbacks, monitor_,
                   scheduled, pc, call, msg, ok, post, deleted, history>>

-----------------------------------------------------------------------------
(* TaskCallback.  The steps from "begin" to the release of the monitor     *)
(* hold it; they are separate steps only to keep each one short.           *)

TaskBegin(t) ==
    /\ t \in Workers /\ pc[t] = "idle" /\ scheduled > 0
    /\ Acquire(t)
    /\ scheduled' = scheduled - 1
    /\ Goto(t, "begin")
    /\ UNCHANGED <<queues, live_ports_, paused_, flags, pool_, task_, callbacks,
                   call, msg, ok, nested, post, deleted, history>>

NoPauseOnStart(t) ==
    /\ pc[t] = "begin" /\ ~pause_on_start_
    /\ Goto(t, "start_cb")
    /\ UNCHANGED <<queues, live_ports_, paused_, flags, pool_, task_, callbacks, monitor_,
                   scheduled, call, msg, ok, nested, post, deleted, history>>

PauseOnStart(t) ==
    /\ pc[t] = "begin" /\ pause_on_start_ /\ ~paused_on_start_
    /\ paused_on_start_' = TRUE
    /\ Goto(t, "notify_start") /\ Release(t)
    /\ UNCHANGED <<queues, live_ports_, paused_, pause_on_start_, pause_on_exit_, paused_on_exit_,
                   pool_, task_, callbacks, scheduled, call, msg, ok, nested, post, deleted, history>>

(* Already paused at start, or back from NotifyPauseOnStart.               *)
HandleWhilePausedOnStart(t) ==
    /\ \/ pc[t] = "begin" /\ pause_on_start_ /\ paused_on_start_ /\ UNCHANGED monitor_
       \/ pc[t] = "notify_start" /\ Acquire(t)
    /\ CallHandleMessages(t, "after_start", paused_)
    /\ UNCHANGED <<queues, live_ports_, paused_, flags, pool_, task_, callbacks,
                   scheduled, msg, nested, post, deleted, history>>

(* The end of TaskCallback: task_ = NULL, and the monitor is left.         *)
TaskEnds(t, l) == task_' = FALSE /\ Release(t) /\ Goto(t, l)

StillPausedOnStart(t) ==
    /\ pc[t] = "after_start" /\ pause_on_start_
    /\ TaskEnds(t, "idle")
    /\ UNCHANGED <<queues, live_ports_, paused_, flags, pool_, callbacks,
                   scheduled, call, msg, ok, nested, post, deleted, history>>

ResumedOnStart(t) ==
    /\ pc[t] = "after_start" /\ ~pause_on_start_
    /\ paused_on_start_' = FALSE
    /\ Goto(t, "start_cb")
    /\ UNCHANGED <<queues, live_ports_, paused_, pause_on_start_, pause_on_exit_, paused_on_exit_,
                   pool_, task_, callbacks, monitor_, scheduled, call, msg, ok, nested, post,
                   deleted, history>>

StartCallback(t) ==
    /\ pc[t] = "start_cb" /\ start_callback_
    /\ Release(t)
    /\ ok' = [ok EXCEPT ![t] = TRUE]
    /\ Goto(t, "starting")
    /\ UNCHANGED <<queues, live_ports_, paused_, flags, pool_, task_, callbacks,
                   scheduled, call, msg, nested, post, deleted, history>>

(* RunIsolate: main() may open ports, and the isolate may start paused.    *)
StartCallbackReturns(t) ==
    /\ pc[t] = "starting" /\ ~nested[t]
    /\ Acquire(t)
    /\ start_callback_' = FALSE
    /\ live_ports_' \in {live_ports_, live_ports_ + 1} \cap (0 .. MaxLive)
    /\ paused_' \in {paused_, paused_ + 1} \cap (0 .. MaxPaused)
    /\ \/ ok[t] /\ CallHandleMessages(t, "after_main", paused_') /\ UNCHANGED failed
       \/ /\ ok' = [ok EXCEPT ![t] = FALSE] /\ failed' = TRUE
          /\ Goto(t, "after_main") /\ UNCHANGED call
    /\ UNCHANGED <<queues, flags, pool_, task_, end_callback_,
                   scheduled, msg, nested, post, deleted, handled, runs, ended>>

HandlePending(t) ==
    /\ pc[t] = "start_cb" /\ ~start_callback_
    /\ CallHandleMessages(t, "after_main", paused_)
    /\ UNCHANGED <<queues, live_ports_, paused_, flags, pool_, task_, callbacks, monitor_,
                   scheduled, msg, nested, post, deleted, history>>

ShouldStop(t) == ~ok[t] \/ live_ports_ = 0

TaskDone(t) ==
    /\ pc[t] = "after_main" /\ ~ShouldStop(t)
    /\ TaskEnds(t, "idle")
    /\ UNCHANGED <<queues, live_ports_, paused_, flags, pool_, callbacks,
                   scheduled, call, msg, ok, nested, post, deleted, history>>

NoPauseOnExit(t) ==
    /\ pc[t] = "after_main" /\ ShouldStop(t) /\ ~pause_on_exit_
    /\ Goto(t, "exit")
    /\ UNCHANGED <<queues, live_ports_, paused_, flags, pool_, task_, callbacks, monitor_,
                   scheduled, call, msg, ok, nested, post, deleted, history>>

PauseOnExit(t) ==
    /\ pc[t] = "after_main" /\ ShouldStop(t) /\ pause_on_exit_ /\ ~paused_on_exit_
    /\ paused_on_exit_' = TRUE
    /\ Goto(t, "notify_exit") /\ Release(t)
    /\ UNCHANGED <<queues, live_ports_, paused_, pause_on_start_, pause_on_exit_, paused_on_start_,
                   pool_, task_, callbacks, scheduled, call, msg, ok, nested, post, deleted, history>>

HandleWhilePausedOnExit(t) ==
    /\ \/ /\ pc[t] = "after_main" /\ ShouldStop(t) /\ pause_on_exit_ /\ paused_on_exit_
          /\ UNCHANGED monitor_
       \/ pc[t] = "notify_exit" /\ Acquire(t)
    /\ CallHandleMessages(t, "after_exit", paused_)
    /\ UNCHANGED <<queues, live_ports_, paused_, flags, pool_, task_, callbacks,
                   scheduled, msg, nested, post, deleted, history>>

StillPausedOnExit(t) ==
    /\ pc[t] = "after_exit" /\ pause_on_exit_
    /\ TaskEnds(t, "idle")
    /\ UNCHANGED <<queues, live_ports_, paused_, flags, pool_, callbacks,
                   scheduled, call, msg, ok, nested, post, deleted, history>>

ResumedOnExit(t) ==
    /\ pc[t] = "after_exit" /\ ~pause_on_exit_
    /\ paused_on_exit_' = FALSE
    /\ Goto(t, "exit")
    /\ UNCHANGED <<queues, live_ports_, paused_, pause_on_start_, pause_on_exit_, paused_on_start_,
                   pool_, task_, callbacks, monitor_, scheduled, call, msg, ok, nested, post,
                   deleted, history>>

(* Mutant: pool_ is not reset, so a later message starts a task again.     *)
PoolKept == UNCHANGED pool_

LeavePool == pool_' = FALSE

Stop(t) ==
    /\ pc[t] = "exit"
    /\ LeavePool
    /\ TaskEnds(t, "end_cb")
    /\ UNCHANGED <<queues, live_ports_, paused_, flags, callbacks,
                   scheduled, call, msg, ok, nested, post, deleted, history>>

(* The end callback: Dart_RunLoop is told; a spawned isolate shuts down,   *)
(* which closes its ports (no post is in progress after that, see PortMap) *)
(* with CloseAllPorts and deletes the handler.                             *)
EndCallback(t) ==
    /\ pc[t] = "end_cb" /\ end_callback_ # "shutdown"
    /\ ended' = ended + 1
    /\ Goto(t, "idle")
    /\ UNCHANGED <<queues, live_ports_, paused_, flags, pool_, task_, callbacks, monitor_,
                   scheduled, call, msg, ok, nested, post, deleted, handled, failed, runs>>

EndCallbackShutdown(t) ==
    /\ pc[t] = "end_cb" /\ end_callback_ = "shutdown"
    /\ monitor_ = NULL /\ \A p \in Posters : notify[p] = "none"
    /\ queue_' = 0 /\ oob_queue_' = 0
    /\ deleted' = TRUE
    /\ ended' = ended + 1
    /\ Goto(t, "idle")
    /\ UNCHANGED <<oob_message_handling_allowed_, live_ports_, paused_, flags, pool_, task_,
                   callbacks, monitor_, scheduled, call, msg, ok, nested, post, handled, failed, runs>>

-----------------------------------------------------------------------------
(* HandleNextMessage: the embedder's thread handles one normal message     *)
(* when the handler is not on the pool.                                    *)
HandleNextMessage ==
    /\ end_callback_ = "loop" /\ pc[Embedder] = "idle" /\ ~pool_ /\ ended = runs
    /\ oob_queue_ + queue_ > 0
    /\ Acquire(Embedder)
    /\ CallHandleMessages(Embedder, "returned", paused_)
    /\ failed' = FALSE
    /\ UNCHANGED <<queues, live_ports_, paused_, flags, pool_, task_, callbacks,
                   scheduled, msg, nested, post, deleted, handled, runs, ended>>

HandleNextReturns ==
    /\ pc[Embedder] = "returned"
    /\ Release(Embedder)
    /\ Goto(Embedder, "idle")
    /\ UNCHANGED <<queues, live_ports_, paused_, flags, pool_, task_, callbacks,
                   scheduled, call, msg, ok, nested, post, deleted, history>>

-----------------------------------------------------------------------------
(* The steps a thread takes by itself, apart from returning from Dart code.*)
ThreadStep(t) ==
    \/ TaskBegin(t)
    \/ NoPauseOnStart(t) \/ PauseOnStart(t) \/ HandleWhilePausedOnStart(t)
    \/ StillPausedOnStart(t) \/ ResumedOnStart(t) \/ StartCallback(t)
    \/ HandlePending(t) \/ DequeueOOB(t) \/ DequeueNormal(t) \/ DequeueNothing(t)
    \/ HandledOOB(t) \/ AcquireQueues(t) \/ InterruptNotServed(t) \/ ReleaseQueues(t)
    \/ HandleInterrupts(t) \/ NestedHandleOOB(t) \/ NestedReturns(t)
    \/ TaskDone(t) \/ NoPauseOnExit(t) \/ PauseOnExit(t) \/ HandleWhilePausedOnExit(t)
    \/ StillPausedOnExit(t) \/ ResumedOnExit(t) \/ Stop(t)
    \/ EndCallback(t) \/ EndCallbackShutdown(t)

DartReturns(t) == HandledNormal(t) \/ StartCallbackReturns(t)

(* No thread is in the handler and no message is on its way: the only      *)
(* state in which everything may stop.                                     *)
Quiescent ==
    /\ scheduled = 0
    /\ \A t \in Threads : pc[t] = "idle"
    /\ \A p \in Posters : notify[p] = "none"
    /\ UNCHANGED vars

Next ==
    \/ Run
    \/ \E p \in Posters : MessageNotify(p) \/ \E k \in {"normal", "oob"} : PostMessage(p, k)
    \/ \E t \in Threads : ThreadStep(t) \/ DartReturns(t)
    \/ HandleNextMessage \/ HandleNextReturns
    \/ Quiescent

Spec == Init /\ [][Next]_vars

(* Threads that can run do run; Dart code polls for interrupts but need    *)
(* not return.                                                             *)
Fairness ==
    /\ \A t \in Threads : WF_vars(ThreadStep(t))
    /\ \A p \in Posters : WF_vars(MessageNotify(p))
    /\ WF_vars(HandleNextReturns)

FairSpec == Spec /\ Fairness

(* What Dart code may be asked for in addition.                            *)
DartCodeReturns == \A t \in Threads : WF_vars(DartReturns(t))

-----------------------------------------------------------------------------
(* Every field holds a value of its type, and the counters stay in their   *)
(* bounds.                                                                 *)
TypeOK ==
    /\ queue_ \in Nat /\ oob_queue_ \in Nat /\ oob_message_handling_allowed_ \in BOOLEAN
    /\ live_ports_ \in 0 .. MaxLive + 1 /\ paused_ \in 0 .. MaxPaused
    /\ pause_on_start_ \in BOOLEAN /\ pause_on_exit_ \in BOOLEAN
    /\ paused_on_start_ \in BOOLEAN /\ paused_on_exit_ \in BOOLEAN
    /\ pool_ \in BOOLEAN /\ task_ \in BOOLEAN
    /\ start_callback_ \in BOOLEAN /\ end_callback_ \in EndCallbacks
    /\ monitor_ \in Threads \cup {NULL}
    /\ scheduled \in Nat
    /\ pc \in [Threads -> Labels]
    /\ ret \in [Threads -> Returns]
    /\ min_priority \in [Threads -> {"normal", "oob"}]
    /\ msg \in [Threads -> {"none", "normal", "oob", "service"}]
    /\ ok \in [Threads -> BOOLEAN]
    /\ nested \in [Threads -> BOOLEAN]
    /\ interrupt \in BOOLEAN
    /\ notify \in [Posters -> {"none", "normal", "oob"}]
    /\ deleted \in BOOLEAN
    /\ posted \in [oob : Nat, all : Nat] /\ handled \in Nat /\ failed \in BOOLEAN
    /\ runs \in Nat /\ ended \in Nat

Active(t) == pc[t] \notin {"idle", "end_cb"}

(* task_ stands for one task: PostMessage never schedules a second one     *)
(* while one waits in the pool or runs TaskCallback, so two threads never  *)
(* run the same isolate; task_ is cleared last (message_handler.cc:329).   *)
OneTaskAtATime ==
    /\ scheduled \in {0, 1}
    /\ \A t, u \in Threads : Active(t) /\ Active(u) => t = u
    /\ scheduled = 1 => \A t \in Threads : ~Active(t)
    /\ task_ <=> (scheduled = 1 \/ \E t \in Workers : Active(t))

(* The handler ends without live ports or after an error only, its end     *)
(* callback runs once for each Run, and once that has deleted the handler  *)
(* no thread uses it.                                                      *)
EndsOnce ==
    /\ \A t \in Workers : pc[t] = "exit" => live_ports_ = 0 \/ failed
    /\ ended <= runs /\ (pool_ => ended < runs)
    /\ deleted => scheduled = 0 /\ ~pool_ /\ \A t \in Threads : pc[t] = "idle"

(* Whether events are taken follows from paused_ as it is now, although    *)
(* pauses and resumes arrive between messages and in the middle of one.    *)
(* HandleMessages takes none while the isolate is paused; and a handler    *)
(* that waits for a message without a task, so that nobody looks at its    *)
(* queues until the next one is posted, has left nothing in them: events   *)
(* only of a paused isolate, OOB messages only after an error that it met  *)
(* while paused at its start or exit.                                      *)
NothingIsStranded ==
    LET pausedAtEnds == paused_on_start_ \/ paused_on_exit_
    IN  /\ \A t \in Threads : pc[t] = "hm" /\ min_priority[t] = "normal" => paused_ = 0
        /\ pool_ /\ ~task_ => /\ queue_ > 0 => paused_ > 0 \/ pausedAtEnds
                              /\ oob_queue_ > 0 => failed /\ pausedAtEnds

(* message_handler.h:36: "Abnormal termination occurs when HandleMessage() *)
(* indicates that an error has occurred during message processing": after  *)
(* an error the handler neither runs its start callback nor goes on to     *)
(* handle messages.                                                        *)
ErrorEndsHandling ==
    failed => \A t \in Workers :
       pc[t] # "start_cb" /\ ~(pc[t] = "hm" /\ ret[t] = "after_main")

(* No message is forgotten.  An OOB message is handled even if the Dart    *)
(* code that runs when it arrives never returns (ScheduleInterrupts), and  *)
(* normal ones if Dart code returns, unless the isolate is or was to be    *)
(* paused, by the task that PostMessage starts or one that exists.         *)
MessagesHandled ==
    /\ \A n \in 1 .. MaxPosts :
          pool_ /\ posted.oob >= n ~> handled >= n \/ failed \/ ~pool_
    /\ DartCodeReturns =>
          (pool_ /\ queue_ > 0 ~>
             queue_ = 0 \/ paused_ > 0 \/ pause_on_start_ \/ pause_on_exit_ \/ ~pool_)

=============================================================================
