------------------------- MODULE MessageHandlerProofs -------------------------
(***************************************************************************)
(* What holds of a message handler for any number of posters, pool threads *)
(* and messages: at most one task exists for it and runs it (TaskInv), it  *)
(* ends once and is not used after that (LifeInv), for a reason (ExitInv), *)
(* and it leaves no message behind that it could have taken (LeftInv).     *)
(***************************************************************************)
EXTENDS MessageHandler, TLAPS

(* The embedder's thread only ever runs HandleMessages, and returns from   *)
(* it to HandleNextMessage.                                                *)
EmbedderInv ==
    /\ pc[Embedder] \in {"idle", "hm", "handling", "returned"}
    /\ ret[Embedder] = "returned"

(* OneTaskAtATime is inductive with what ties it to pool_: a task exists   *)
(* only on the pool, and the embedder handles messages only off the pool.  *)
TaskInv ==
    /\ OneTaskAtATime
    /\ EmbedderInv
    /\ task_ => pool_
    /\ pool_ => ~Active(Embedder)

(* TypeOK in three parts: the flags and the monitor, the counters, and     *)
(* what each thread keeps.                                                 *)
FlagsOK ==
    /\ oob_message_handling_allowed_ \in BOOLEAN
    /\ pause_on_start_ \in BOOLEAN /\ pause_on_exit_ \in BOOLEAN
    /\ paused_on_start_ \in BOOLEAN /\ paused_on_exit_ \in BOOLEAN
    /\ pool_ \in BOOLEAN /\ task_ \in BOOLEAN
    /\ start_callback_ \in BOOLEAN /\ end_callback_ \in EndCallbacks
    /\ monitor_ \in Threads \cup {NULL}
    /\ interrupt \in BOOLEAN /\ deleted \in BOOLEAN /\ failed \in BOOLEAN

CountsOK ==
    /\ queue_ \in Nat /\ oob_queue_ \in Nat
    /\ live_ports_ \in 0 .. MaxLive + 1 /\ paused_ \in 0 .. MaxPaused
    /\ scheduled \in Nat
    /\ posted \in [oob : Nat, all : Nat] /\ handled \in Nat
    /\ runs \in Nat /\ ended \in Nat

ThreadsOK ==
    /\ pc \in [Threads -> Labels]
    /\ ret \in [Threads -> Returns]
    /\ min_priority \in [Threads -> {"normal", "oob"}]
    /\ msg \in [Threads -> {"none", "normal", "oob", "service"}]
    /\ ok \in [Threads -> BOOLEAN]
    /\ nested \in [Threads -> BOOLEAN]
    /\ notify \in [Posters -> {"none", "normal", "oob"}]

(* The initial states have the types.                                      *)
LEMMA InitTypeOK == Init => TypeOK
<1> SUFFICES ASSUME Init PROVE TypeOK
  OBVIOUS
<1>1. live_ports_ \in 0 .. MaxLive + 1 /\ paused_ \in 0 .. MaxPaused
  BY BoundsAssumption DEF Init
<1>2. pause_on_start_ \in BOOLEAN /\ pause_on_exit_ \in BOOLEAN
  BY PauseFlagsAssumption DEF Init
<1>3. posted \in [oob : Nat, all : Nat]
  BY DEF Init
<1>4. pc \in [Threads -> Labels] /\ ret \in [Threads -> Returns]
  BY DEF Init, Labels, Returns
<1> QED
  BY Zenon, <1>1, <1>2, <1>3, <1>4 DEF Init, TypeOK

(* Whatever an OOB message does leaves the pause counter in its bounds and *)
(* the pause flags Boolean.                                                *)
LEMMA OOBMessageTypes ==
  ASSUME TypeOK, NEW result \in BOOLEAN, OOBMessage(result)
  PROVE  /\ paused_' \in 0 .. MaxPaused
         /\ pause_on_start_' \in BOOLEAN /\ pause_on_exit_' \in BOOLEAN
         /\ paused_on_start_' \in BOOLEAN /\ paused_on_exit_' \in BOOLEAN
<1> USE DEF TypeOK, flags
<1>1. CASE PauseMsg
  BY <1>1, BoundsAssumption DEF PauseMsg
<1>2. CASE ResumeMsg
  BY <1>2, BoundsAssumption DEF ResumeMsg
<1>3. CASE ServiceResume
  BY <1>3 DEF ServiceResume
<1>4. CASE InternalKillMsg
  BY Zenon, <1>4 DEF InternalKillMsg
<1>5. CASE OtherMsg
  BY <1>5 DEF OtherMsg
<1> QED
  BY <1>1, <1>2, <1>3, <1>4, <1>5 DEF OOBMessage

(* The labels, one by one.                                                 *)
LEMMA LabelsAndReturns ==
  /\ "idle" \in Labels /\ "begin" \in Labels /\ "notify_start" \in Labels /\ "hm" \in Labels
  /\ "handling" \in Labels /\ "start_cb" \in Labels /\ "starting" \in Labels
  /\ "notify_exit" \in Labels /\ "exit" \in Labels /\ "end_cb" \in Labels
  /\ "after_main" \in Labels
  /\ "after_start" \in Returns /\ "after_main" \in Returns /\ "after_exit" \in Returns
  /\ "returned" \in Returns
  /\ Returns \subseteq Labels
  BY DEF Labels, Returns

(* Every step preserves the types of the flags and of monitor_.            *)
LEMMA NextFlagsOK == TypeOK /\ [Next]_vars => FlagsOK'
<1> SUFFICES ASSUME TypeOK, [Next]_vars PROVE FlagsOK'
  OBVIOUS
<1> FlagsOK
  BY DEF TypeOK, FlagsOK
<1> USE DEF FlagsOK, queues, flags, callbacks, post, history, Acquire, Release
<1>1. CASE UNCHANGED vars
  BY <1>1 DEF vars
<1>2. CASE Run
  <2>1. start_callback_' = (end_callback_ = "shutdown")
    BY <1>2, Zenon DEF Run
  <2>2. start_callback_' \in BOOLEAN
    BY <2>1, Zenon
  <2> QED
    BY <1>2, <2>2, Zenon DEF Run
<1>3. ASSUME NEW p \in Posters, MessageNotify(p) PROVE FlagsOK'
  BY <1>3 DEF MessageNotify, ScheduleInterrupts
<1>4. ASSUME NEW p \in Posters, NEW k \in {"normal", "oob"}, PostMessage(p, k)
      PROVE  FlagsOK'
  BY <1>4 DEF PostMessage, PostStartsTask
<1>5. CASE HandleNextMessage
  BY Zenon, <1>5 DEF HandleNextMessage, Threads
<1>6. CASE HandleNextReturns
  BY <1>6 DEF HandleNextReturns, Threads
<1>7. ASSUME NEW t \in Threads, ThreadStep(t) \/ DartReturns(t) PROVE FlagsOK'
  <2>1. CASE TaskBegin(t)
    BY <2>1 DEF TaskBegin
  <2>2. CASE NoPauseOnStart(t)
    BY <2>2 DEF NoPauseOnStart
  <2>3. CASE PauseOnStart(t)
    BY <2>3 DEF PauseOnStart
  <2>4. CASE HandleWhilePausedOnStart(t)
    BY <2>4 DEF HandleWhilePausedOnStart
  <2>5. CASE StillPausedOnStart(t)
    BY Zenon, <2>5 DEF StillPausedOnStart, TaskEnds
  <2>6. CASE ResumedOnStart(t)
    BY ZenonT(40), <2>6 DEF ResumedOnStart
  <2>7. CASE StartCallback(t)
    BY <2>7 DEF StartCallback
  <2>8. CASE HandlePending(t)
    BY <2>8 DEF HandlePending
  <2>9. CASE DequeueOOB(t)
    BY <2>9 DEF DequeueOOB
  <2>10. CASE DequeueNormal(t)
    BY <2>10 DEF DequeueNormal
  <2>11. CASE DequeueNothing(t)
    BY <2>11 DEF DequeueNothing
  <2>12. CASE HandledOOB(t)
    <3>1. PICK result \in BOOLEAN : OOBMessage(result) /\ Handled(t, result)
      BY <2>12 DEF HandledOOB
    <3> QED
      BY <2>12, <3>1, OOBMessageTypes, Zenon DEF HandledOOB, Handled
  <2>13. CASE AcquireQueues(t)
    BY ZenonT(40), <2>13 DEF AcquireQueues
  <2>14. CASE InterruptNotServed(t)
    BY ZenonT(40), <2>14 DEF InterruptNotServed
  <2>15. CASE ReleaseQueues(t)
    BY <2>15 DEF ReleaseQueues
  <2>16. CASE HandleInterrupts(t)
    <3>1. interrupt' \in BOOLEAN
      BY Zenon, <2>16 DEF HandleInterrupts
    <3>2. UNCHANGED <<queues, live_ports_, paused_, flags, pool_, task_, callbacks, monitor_,
                      scheduled, posted, deleted, history>>
      BY <2>16 DEF HandleInterrupts
    <3> QED
      BY <3>1, <3>2
  <2>17. CASE NestedHandleOOB(t)
    <3>1. PICK result \in BOOLEAN : OOBMessage(result) /\ failed' = (failed \/ ~result)
      BY <2>17 DEF NestedHandleOOB
    <3> QED
      BY <2>17, <3>1, OOBMessageTypes, Zenon DEF NestedHandleOOB
  <2>18. CASE NestedReturns(t)
    BY <2>18 DEF NestedReturns
  <2>19. CASE TaskDone(t)
    BY ZenonT(40), <2>19 DEF TaskDone, TaskEnds
  <2>20. CASE NoPauseOnExit(t)
    BY <2>20 DEF NoPauseOnExit
  <2>21. CASE PauseOnExit(t)
    BY <2>21 DEF PauseOnExit
  <2>22. CASE HandleWhilePausedOnExit(t)
    BY <2>22 DEF HandleWhilePausedOnExit
  <2>23. CASE StillPausedOnExit(t)
    BY Zenon, <2>23 DEF StillPausedOnExit, TaskEnds
  <2>24. CASE ResumedOnExit(t)
    BY ZenonT(40), <2>24 DEF ResumedOnExit
  <2>25. CASE Stop(t)
    BY Zenon, <2>25 DEF Stop, TaskEnds, LeavePool
  <2>26. CASE EndCallback(t)
    BY <2>26 DEF EndCallback
  <2>27. CASE EndCallbackShutdown(t)
    BY <2>27 DEF EndCallbackShutdown
  <2>28. CASE HandledNormal(t)
    BY <2>28 DEF HandledNormal, Handled
  <2>29. CASE StartCallbackReturns(t)
    BY ZenonT(40), <2>29 DEF StartCallbackReturns, CallHandleMessages
  <2> HIDE DEF FlagsOK, queues, flags, callbacks, post, history, Acquire, Release
  <2> QED
    BY <1>7,
       <2>1, <2>2, <2>3, <2>4, <2>5, <2>6, <2>7, <2>8, <2>9, <2>10,
       <2>11, <2>12, <2>13, <2>14, <2>15, <2>16, <2>17, <2>18, <2>19, <2>20,
       <2>21, <2>22, <2>23, <2>24, <2>25, <2>26, <2>27, <2>28, <2>29
    DEF ThreadStep, DartReturns
<1> HIDE DEF FlagsOK, queues, flags, callbacks, post, history, Acquire, Release
<1> QED
  BY <1>1, <1>2, <1>3, <1>4, <1>5, <1>6, <1>7 DEF Next, Quiescent

(* Every step preserves the types of the counters.                         *)
LEMMA NextCountsOK == TypeOK /\ [Next]_vars => CountsOK'
<1> SUFFICES ASSUME TypeOK, [Next]_vars PROVE CountsOK'
  OBVIOUS
<1> CountsOK
  BY DEF TypeOK, CountsOK
<1> USE DEF CountsOK, queues, post, history
<1>1. CASE UNCHANGED vars
  BY <1>1 DEF vars
<1>2. CASE Run
  BY <1>2 DEF Run
<1>3. ASSUME NEW p \in Posters, MessageNotify(p) PROVE CountsOK'
  BY <1>3 DEF MessageNotify, ScheduleInterrupts
<1>4. ASSUME NEW p \in Posters, NEW k \in {"normal", "oob"}, PostMessage(p, k)
      PROVE  CountsOK'
  BY <1>4 DEF PostMessage, PostStartsTask
<1>5. CASE HandleNextMessage
  BY <1>5 DEF HandleNextMessage, Threads
<1>6. CASE HandleNextReturns
  BY <1>6 DEF HandleNextReturns, Threads
<1>7. ASSUME NEW t \in Threads, ThreadStep(t) \/ DartReturns(t) PROVE CountsOK'
  <2>1. CASE TaskBegin(t)
    BY <2>1 DEF TaskBegin
  <2>2. CASE NoPauseOnStart(t)
    BY <2>2 DEF NoPauseOnStart
  <2>3. CASE PauseOnStart(t)
    BY <2>3 DEF PauseOnStart
  <2>4. CASE HandleWhilePausedOnStart(t)
    BY <2>4 DEF HandleWhilePausedOnStart
  <2>5. CASE StillPausedOnStart(t)
    BY <2>5 DEF StillPausedOnStart, TaskEnds
  <2>6. CASE ResumedOnStart(t)
    BY <2>6 DEF ResumedOnStart
  <2>7. CASE StartCallback(t)
    BY <2>7 DEF StartCallback
  <2>8. CASE HandlePending(t)
    BY <2>8 DEF HandlePending
  <2>9. CASE DequeueOOB(t)
    BY <2>9 DEF DequeueOOB
  <2>10. CASE DequeueNormal(t)
    BY <2>10 DEF DequeueNormal
  <2>11. CASE DequeueNothing(t)
    BY Zenon, <2>11 DEF DequeueNothing
  <2>12. CASE HandledOOB(t)
    <3>1. PICK result \in BOOLEAN : OOBMessage(result) /\ Handled(t, result)
      BY Zenon, <2>12 DEF HandledOOB
    <3> QED
      BY <2>12, <3>1, OOBMessageTypes DEF HandledOOB, Handled
  <2>13. CASE AcquireQueues(t)
    BY <2>13 DEF AcquireQueues
  <2>14. CASE InterruptNotServed(t)
    BY <2>14 DEF InterruptNotServed
  <2>15. CASE ReleaseQueues(t)
    BY <2>15 DEF ReleaseQueues
  <2>16. CASE HandleInterrupts(t)
    BY <2>16 DEF HandleInterrupts
  <2>17. CASE NestedHandleOOB(t)
    <3>1. PICK result \in BOOLEAN : OOBMessage(result)
      BY <2>17 DEF NestedHandleOOB
    <3> QED
      BY <2>17, <3>1, OOBMessageTypes DEF NestedHandleOOB
  <2>18. CASE NestedReturns(t)
    BY <2>18 DEF NestedReturns
  <2>19. CASE TaskDone(t)
    BY <2>19 DEF TaskDone, TaskEnds
  <2>20. CASE NoPauseOnExit(t)
    BY <2>20 DEF NoPauseOnExit
  <2>21. CASE PauseOnExit(t)
    BY <2>21 DEF PauseOnExit
  <2>22. CASE HandleWhilePausedOnExit(t)
    BY <2>22 DEF HandleWhilePausedOnExit
  <2>23. CASE StillPausedOnExit(t)
    BY <2>23 DEF StillPausedOnExit, TaskEnds
  <2>24. CASE ResumedOnExit(t)
    BY <2>24 DEF ResumedOnExit
  <2>25. CASE Stop(t)
    BY <2>25 DEF Stop, TaskEnds, LeavePool
  <2>26. CASE EndCallback(t)
    BY <2>26 DEF EndCallback
  <2>27. CASE EndCallbackShutdown(t)
    BY <2>27 DEF EndCallbackShutdown
  <2>28. CASE HandledNormal(t)
    <3>1. /\ UNCHANGED <<queues, scheduled, post, handled, paused_, runs, ended>>
          /\ live_ports_' \in 0 .. MaxLive
      BY Zenon, <2>28 DEF HandledNormal, Handled
    <3> QED
      BY SMT, <3>1, BoundsAssumption
  <2>29. CASE StartCallbackReturns(t)
    <3>1. /\ UNCHANGED <<queues, scheduled, post, handled, runs, ended>>
          /\ live_ports_' \in 0 .. MaxLive /\ paused_' \in 0 .. MaxPaused
      BY Zenon, <2>29 DEF StartCallbackReturns
    <3> QED
      BY SMT, <3>1, BoundsAssumption
  <2> HIDE DEF CountsOK, queues, post, history
  <2> QED
    BY <1>7,
       <2>1, <2>2, <2>3, <2>4, <2>5, <2>6, <2>7, <2>8, <2>9, <2>10,
       <2>11, <2>12, <2>13, <2>14, <2>15, <2>16, <2>17, <2>18, <2>19, <2>20,
       <2>21, <2>22, <2>23, <2>24, <2>25, <2>26, <2>27, <2>28, <2>29
    DEF ThreadStep, DartReturns
<1> HIDE DEF CountsOK, queues, post, history
<1> QED
  BY <1>1, <1>2, <1>3, <1>4, <1>5, <1>6, <1>7 DEF Next, Quiescent

(* Every step preserves the types of what each thread keeps.              *)
LEMMA NextThreadsOK == TypeOK /\ [Next]_vars => ThreadsOK'
<1> SUFFICES ASSUME TypeOK, [Next]_vars PROVE ThreadsOK'
  OBVIOUS
<1> ThreadsOK
  BY DEF TypeOK, ThreadsOK
<1> USE LabelsAndReturns DEF ThreadsOK, call, thread, post, Goto
<1>1. CASE UNCHANGED vars
  BY <1>1 DEF vars
<1>2. CASE Run
  BY <1>2 DEF Run
<1>3. ASSUME NEW p \in Posters, MessageNotify(p) PROVE ThreadsOK'
  BY <1>3 DEF MessageNotify, ScheduleInterrupts
<1>4. ASSUME NEW p \in Posters, NEW k \in {"normal", "oob"}, PostMessage(p, k)
      PROVE  ThreadsOK'
  BY <1>4 DEF PostMessage, PostStartsTask
<1>5. CASE HandleNextMessage
  BY <1>5 DEF HandleNextMessage, CallHandleMessages, MinPriority, Threads
<1>6. CASE HandleNextReturns
  BY Zenon, <1>6 DEF HandleNextReturns, Threads
<1>7. ASSUME NEW t \in Threads, ThreadStep(t) \/ DartReturns(t) PROVE ThreadsOK'
  <2>1. CASE TaskBegin(t)
    BY <2>1 DEF TaskBegin
  <2>2. CASE NoPauseOnStart(t)
    BY <2>2 DEF NoPauseOnStart
  <2>3. CASE PauseOnStart(t)
    BY <2>3 DEF PauseOnStart
  <2>4. CASE HandleWhilePausedOnStart(t)
    BY <2>4 DEF HandleWhilePausedOnStart, CallHandleMessages, MinPriority
  <2>5. CASE StillPausedOnStart(t)
    BY <2>5 DEF StillPausedOnStart, TaskEnds
  <2>6. CASE ResumedOnStart(t)
    BY <2>6 DEF ResumedOnStart
  <2>7. CASE StartCallback(t)
    BY <2>7 DEF StartCallback
  <2>8. CASE HandlePending(t)
    BY <2>8 DEF HandlePending, CallHandleMessages, MinPriority
  <2>9. CASE DequeueOOB(t)
    BY <2>9 DEF DequeueOOB
  <2>10. CASE DequeueNormal(t)
    BY <2>10 DEF DequeueNormal
  <2>11. CASE DequeueNothing(t)
    BY <2>11 DEF DequeueNothing
  <2>12. CASE HandledOOB(t)
    <3>1. PICK result \in BOOLEAN : Handled(t, result)
      BY <2>12 DEF HandledOOB
    <3> QED
      BY <3>1 DEF Handled, Reevaluated, MinPriority
  <2>13. CASE AcquireQueues(t)
    BY <2>13 DEF AcquireQueues
  <2>14. CASE InterruptNotServed(t)
    BY <2>14 DEF InterruptNotServed
  <2>15. CASE ReleaseQueues(t)
    BY <2>15 DEF ReleaseQueues
  <2>16. CASE HandleInterrupts(t)
    BY <2>16 DEF HandleInterrupts
  <2>17. CASE NestedHandleOOB(t)
    BY <2>17 DEF NestedHandleOOB, NestedContinues
  <2>18. CASE NestedReturns(t)
    BY <2>18 DEF NestedReturns
  <2>19. CASE TaskDone(t)
    BY <2>19 DEF TaskDone, TaskEnds
  <2>20. CASE NoPauseOnExit(t)
    BY <2>20 DEF NoPauseOnExit
  <2>21. CASE PauseOnExit(t)
    BY <2>21 DEF PauseOnExit
  <2>22. CASE HandleWhilePausedOnExit(t)
    BY <2>22 DEF HandleWhilePausedOnExit, CallHandleMessages, MinPriority
  <2>23. CASE StillPausedOnExit(t)
    BY <2>23 DEF StillPausedOnExit, TaskEnds
  <2>24. CASE ResumedOnExit(t)
    BY <2>24 DEF ResumedOnExit
  <2>25. CASE Stop(t)
    BY <2>25 DEF Stop, TaskEnds, LeavePool
  <2>26. CASE EndCallback(t)
    BY <2>26 DEF EndCallback
  <2>27. CASE EndCallbackShutdown(t)
    BY <2>27 DEF EndCallbackShutdown
  <2>28. CASE HandledNormal(t)
    <3>1. PICK result \in BOOLEAN : Handled(t, result)
      BY Zenon, <2>28 DEF HandledNormal
    <3> QED
      BY <3>1 DEF Handled, Reevaluated, MinPriority
  <2>29. CASE StartCallbackReturns(t)
    <3>1. CASE ok[t] /\ CallHandleMessages(t, "after_main", paused_')
      BY <2>29, <3>1 DEF StartCallbackReturns, CallHandleMessages, MinPriority
    <3>2. CASE /\ ok' = [ok EXCEPT ![t] = FALSE] /\ failed' = TRUE
               /\ Goto(t, "after_main") /\ UNCHANGED call
      BY <2>29, <3>2 DEF StartCallbackReturns
    <3> QED
      BY Zenon, <2>29, <3>1, <3>2 DEF StartCallbackReturns
  <2> HIDE DEF ThreadsOK, call, thread, post, Goto
  <2> QED
    BY Zenon, <1>7,
       <2>1, <2>2, <2>3, <2>4, <2>5, <2>6, <2>7, <2>8, <2>9, <2>10,
       <2>11, <2>12, <2>13, <2>14, <2>15, <2>16, <2>17, <2>18, <2>19, <2>20,
       <2>21, <2>22, <2>23, <2>24, <2>25, <2>26, <2>27, <2>28, <2>29
    DEF ThreadStep, DartReturns
<1> HIDE DEF ThreadsOK, call, thread, post, Goto
<1> QED
  BY <1>1, <1>2, <1>3, <1>4, <1>5, <1>6, <1>7 DEF Next, Quiescent

(* Every step preserves the types.                                         *)
LEMMA NextTypeOK == TypeOK /\ [Next]_vars => TypeOK'
<1>1. TypeOK' <=> FlagsOK' /\ CountsOK' /\ ThreadsOK'
  BY DEF TypeOK, FlagsOK, CountsOK, ThreadsOK
<1> QED
  BY <1>1, NextFlagsOK, NextCountsOK, NextThreadsOK

(* Every step preserves TaskInv.                                           *)
LEMMA NextTaskInv == TypeOK /\ TaskInv /\ [Next]_vars => TaskInv'
<1> SUFFICES ASSUME TypeOK, TaskInv, [Next]_vars PROVE TaskInv'
  OBVIOUS
<1> /\ pc \in [Threads -> Labels] /\ ret \in [Threads -> Returns]
    /\ scheduled \in Nat /\ pool_ \in BOOLEAN /\ task_ \in BOOLEAN
  BY Zenon DEF TypeOK
<1> USE ThreadsAssumption
    DEF TaskInv, OneTaskAtATime, EmbedderInv, Active, Threads, call, thread, Goto, Labels, Returns
<1>1. CASE UNCHANGED vars
  BY Zenon, <1>1 DEF vars
<1>2. CASE Run
  <2>1. /\ ~pool_ /\ pc[Embedder] = "idle"
        /\ pool_' /\ task_' /\ scheduled' = scheduled + 1 /\ UNCHANGED <<pc, ret>>
    BY Zenon, <1>2 DEF Run
  <2>2. scheduled = 0 /\ \A t \in Threads : ~Active(t)
    BY <2>1
  <2> QED
    BY <2>1, <2>2
<1>3. ASSUME NEW p \in Posters, MessageNotify(p) PROVE TaskInv'
  BY Zenon, <1>3 DEF MessageNotify, ScheduleInterrupts
<1>4. ASSUME NEW p \in Posters, NEW k \in {"normal", "oob"}, PostMessage(p, k)
      PROVE  TaskInv'
  <2>1. UNCHANGED <<pool_, pc, ret>>
    BY <1>4 DEF PostMessage
  <2>2. CASE PostStartsTask
    <3>1. task_' = TRUE /\ scheduled' = scheduled + 1
      BY Zenon, <1>4, <2>2 DEF PostMessage
    <3>2. scheduled = 0 /\ \A t \in Threads : ~Active(t)
      BY <2>2 DEF PostStartsTask
    <3> QED
      BY <2>1, <2>2, <3>1, <3>2 DEF PostStartsTask
  <2>3. CASE ~PostStartsTask
    <3>1. task_' = task_ /\ scheduled' = scheduled
      <4> HIDE DEF TaskInv, OneTaskAtATime, EmbedderInv, Active, Threads, call, thread, Goto, Labels,
                   Returns
      <4>1. task_' = (task_ \/ PostStartsTask) /\ scheduled' = scheduled + (IF PostStartsTask THEN 1 ELSE 0)
        BY Zenon, <1>4 DEF PostMessage
      <4>2. task_ \in BOOLEAN /\ scheduled \in Nat
        BY Zenon DEF TypeOK
      <4> QED
        BY <2>3, <4>1, <4>2
    <3> QED
      BY Zenon, <2>1, <3>1
  <2> QED
    BY Zenon, <2>2, <2>3
<1>5. CASE HandleNextMessage
  BY <1>5 DEF HandleNextMessage, CallHandleMessages
<1>6. CASE HandleNextReturns
  BY Zenon, <1>6 DEF HandleNextReturns
<1>7. ASSUME NEW t \in Threads, ThreadStep(t) \/ DartReturns(t) PROVE TaskInv'
  <2>1. CASE TaskBegin(t)
    <3>1. t \in Workers /\ scheduled = 1 /\ scheduled' = 0 /\ pc' = [pc EXCEPT ![t] = "begin"]
      BY <2>1 DEF TaskBegin
    <3>2. UNCHANGED <<pool_, task_, ret>>
      BY <2>1 DEF TaskBegin
    <3>3. \A u \in Threads : Active(u)' <=> u = t
      <4>1. \A u \in Threads : ~Active(u)
        BY <3>1
      <4> QED
        BY Zenon, <3>1, <3>2, <4>1, LabelsAndReturns
    <3>4. EmbedderInv'
      BY Zenon, <3>1, <3>2
    <3> HIDE DEF Active, EmbedderInv, Labels, Returns
    <3> QED
      BY <3>1, <3>2, <3>3, <3>4
  <2>2. CASE NoPauseOnStart(t)
    BY Zenon, <2>2 DEF NoPauseOnStart
  <2>3. CASE PauseOnStart(t)
    BY Zenon, <2>3 DEF PauseOnStart
  <2>4. CASE HandleWhilePausedOnStart(t)
    BY Zenon, <2>4 DEF HandleWhilePausedOnStart, CallHandleMessages
  <2>5. CASE StillPausedOnStart(t)
    BY Zenon, <2>5 DEF StillPausedOnStart, TaskEnds
  <2>6. CASE ResumedOnStart(t)
    BY Zenon, <2>6 DEF ResumedOnStart
  <2>7. CASE StartCallback(t)
    BY Zenon, <2>7 DEF StartCallback
  <2>8. CASE HandlePending(t)
    BY Zenon, <2>8 DEF HandlePending, CallHandleMessages
  <2>9. CASE DequeueOOB(t)
    BY Zenon, <2>9 DEF DequeueOOB
  <2>10. CASE DequeueNormal(t)
    BY Zenon, <2>10 DEF DequeueNormal
  <2>11. CASE DequeueNothing(t)
    BY Zenon, <2>11 DEF DequeueNothing
  <2>12. CASE HandledOOB(t)
    <3>1. PICK result \in BOOLEAN : Handled(t, result)
      BY Zenon, <2>12 DEF HandledOOB
    <3>2. pc[t] = "handling" /\ \E l \in {"hm", ret[t]} : pc' = [pc EXCEPT ![t] = l]
      BY Zenon, <3>1 DEF Handled
    <3>3. UNCHANGED <<pool_, task_, scheduled, ret>>
      BY <3>1 DEF Handled
    <3>4. \A u \in Threads : Active(u)' <=> Active(u)
      BY <3>2
    <3>5. EmbedderInv'
      BY Zenon, <3>2, <3>3
    <3> HIDE DEF Active, EmbedderInv, Labels, Returns
    <3> QED
      BY Zenon, <3>3, <3>4, <3>5
  <2>13. CASE AcquireQueues(t)
    BY Zenon, <2>13 DEF AcquireQueues
  <2>14. CASE InterruptNotServed(t)
    BY Zenon, <2>14 DEF InterruptNotServed
  <2>15. CASE ReleaseQueues(t)
    BY Zenon, <2>15 DEF ReleaseQueues
  <2>16. CASE HandleInterrupts(t)
    BY ZenonT(40), <2>16 DEF HandleInterrupts
  <2>17. CASE NestedHandleOOB(t)
    BY Zenon, <2>17 DEF NestedHandleOOB, NestedContinues
  <2>18. CASE NestedReturns(t)
    BY Zenon, <2>18 DEF NestedReturns
  <2>19. CASE TaskDone(t)
    BY Zenon, <2>19 DEF TaskDone, TaskEnds
  <2>20. CASE NoPauseOnExit(t)
    BY Zenon, <2>20 DEF NoPauseOnExit
  <2>21. CASE PauseOnExit(t)
    BY Zenon, <2>21 DEF PauseOnExit
  <2>22. CASE HandleWhilePausedOnExit(t)
    BY Zenon, <2>22 DEF HandleWhilePausedOnExit, CallHandleMessages
  <2>23. CASE StillPausedOnExit(t)
    BY Zenon, <2>23 DEF StillPausedOnExit, TaskEnds
  <2>24. CASE ResumedOnExit(t)
    BY Zenon, <2>24 DEF ResumedOnExit
  <2>25. CASE Stop(t)
    BY Zenon, <2>25 DEF Stop, TaskEnds, LeavePool
  <2>26. CASE EndCallback(t)
    BY Zenon, <2>26 DEF EndCallback
  <2>27. CASE EndCallbackShutdown(t)
    BY Zenon, <2>27 DEF EndCallbackShutdown
  <2>28. CASE HandledNormal(t)
    <3>1. PICK result \in BOOLEAN : Handled(t, result)
      BY Zenon, <2>28 DEF HandledNormal
    <3>2. pc[t] = "handling" /\ \E l \in {"hm", ret[t]} : pc' = [pc EXCEPT ![t] = l]
      BY <3>1 DEF Handled
    <3>3. UNCHANGED <<pool_, task_, scheduled, ret>>
      BY <3>1 DEF Handled
    <3>4. \A u \in Threads : Active(u)' <=> Active(u)
      BY <3>2
    <3>5. EmbedderInv'
      BY <3>2, <3>3
    <3> HIDE DEF Active, EmbedderInv, Labels, Returns
    <3> QED
      BY <3>3, <3>4, <3>5
  <2>29. CASE StartCallbackReturns(t)
    BY ZenonT(40), <2>29 DEF StartCallbackReturns, CallHandleMessages
  <2> HIDE DEF TaskInv, OneTaskAtATime, EmbedderInv, Active, Threads, call, thread, Goto, Labels, Returns
  <2> QED
    BY Zenon, <1>7,
       <2>1, <2>2, <2>3, <2>4, <2>5, <2>6, <2>7, <2>8, <2>9, <2>10,
       <2>11, <2>12, <2>13, <2>14, <2>15, <2>16, <2>17, <2>18, <2>19, <2>20,
       <2>21, <2>22, <2>23, <2>24, <2>25, <2>26, <2>27, <2>28, <2>29
    DEF ThreadStep, DartReturns
<1> HIDE DEF TaskInv, OneTaskAtATime, EmbedderInv, Active, Threads, call, thread, Goto, Labels, Returns
<1> QED
  BY <1>1, <1>2, <1>3, <1>4, <1>5, <1>6, <1>7 DEF Next, Quiescent

(* The fields of the handler always hold values of their types, whatever   *)
(* the messages do to them (message_handler.cc, TaskCallback).             *)
THEOREM TypeCorrect == Spec => []TypeOK
  BY InitTypeOK, NextTypeOK, PTL DEF Spec

(* Init establishes TaskInv: there is no task and no thread is active.     *)
LEMMA InitTaskInv == Init => TaskInv
  BY ThreadsAssumption DEF Init, TaskInv, OneTaskAtATime, EmbedderInv, Active, Threads

(* PostMessage and Run never start a second task, and task_ is not NULL    *)
(* exactly while one waits or runs: the isolate is run by one thread at a  *)
(* time, for any number of posters and pool threads.                       *)
THEOREM OneTask == Spec => []OneTaskAtATime
<1>1. Init => TypeOK /\ TaskInv
  BY InitTypeOK, InitTaskInv
<1>2. (TypeOK /\ TaskInv) /\ [Next]_vars => (TypeOK /\ TaskInv)'
  BY NextTypeOK, NextTaskInv
<1>3. TaskInv => OneTaskAtATime
  BY Zenon DEF TaskInv
<1> QED
  BY <1>1, <1>2, <1>3, PTL DEF Spec

-----------------------------------------------------------------------------
(* The life of the handler.  A Run that has not been answered by the end   *)
(* callback is on the pool or in the end callback, which one thread runs;  *)
(* nobody else uses the handler then, and nobody uses a deleted one.       *)
Ending(t) == pc[t] = "end_cb"

LifeInv ==
    /\ \A t, u \in Threads : Ending(t) /\ Ending(u) => t = u
    /\ pool_ => \A t \in Threads : ~Ending(t)
    /\ pool_ \/ (\E t \in Threads : Ending(t)) => runs = ended + 1
    /\ ~pool_ /\ (\A t \in Threads : ~Ending(t)) => runs = ended
    /\ (\E t \in Threads : Ending(t)) => ~Active(Embedder)
    /\ deleted => ~pool_ /\ end_callback_ = "shutdown" /\ \A t \in Threads : pc[t] = "idle"

PausedAtExit(t) ==
    \/ pc[t] \in {"exit", "notify_exit", "after_exit"}
    \/ pc[t] \in {"hm", "handling"} /\ ret[t] = "after_exit"

(* Why a worker is on its way out: the result it has seen was an error, or *)
(* it has found no live port, and while it is paused at exit no message    *)
(* that could change this is handled.                                      *)
ExitsWell(t) ==
    /\ pc[t] \in {"starting", "hm", "handling", "after_start", "after_main", "after_exit"}
       /\ ~ok[t] => failed
    /\ PausedAtExit(t) => live_ports_ = 0 \/ failed
    /\ pc[t] = "hm" /\ min_priority[t] = "normal" => AllowNormal(ret[t])
    /\ pc[t] = "handling" /\ msg[t] = "normal" => AllowNormal(ret[t])

ExitInv == \A t \in Workers : ExitsWell(t)

(* A step of a thread that is in the handler and stays there, or leaves it *)
(* without ending it.                                                      *)
Works(t) ==
    /\ Active(t) /\ \E l \in Labels \ {"end_cb"} : pc' = [pc EXCEPT ![t] = l]
    /\ UNCHANGED <<pool_, runs, ended, deleted, end_callback_>>

LEMMA WorkingSteps ==
  ASSUME TypeOK, NEW t \in Threads,
         \/ NoPauseOnStart(t) \/ PauseOnStart(t) \/ HandleWhilePausedOnStart(t)
         \/ StillPausedOnStart(t) \/ ResumedOnStart(t) \/ StartCallback(t)
         \/ HandlePending(t) \/ DequeueOOB(t) \/ DequeueNormal(t)
         \/ DequeueNothing(t) \/ HandledOOB(t) \/ TaskDone(t)
         \/ NoPauseOnExit(t) \/ PauseOnExit(t) \/ HandleWhilePausedOnExit(t)
         \/ StillPausedOnExit(t) \/ ResumedOnExit(t) \/ HandledNormal(t)
         \/ StartCallbackReturns(t)
  PROVE  Works(t)
<1> ret \in [Threads -> Returns]
  BY DEF TypeOK
<1> USE LabelsAndReturns DEF Works, Active, Goto, callbacks, history, Returns
<1>1. CASE NoPauseOnStart(t)
  BY <1>1, Zenon DEF NoPauseOnStart
<1>2. CASE PauseOnStart(t)
  BY <1>2, Zenon DEF PauseOnStart
<1>3. CASE HandleWhilePausedOnStart(t)
  BY <1>3, Zenon DEF HandleWhilePausedOnStart, CallHandleMessages
<1>4. CASE StillPausedOnStart(t)
  BY <1>4, Zenon DEF StillPausedOnStart, TaskEnds
<1>5. CASE ResumedOnStart(t)
  BY <1>5, Zenon DEF ResumedOnStart
<1>6. CASE StartCallback(t)
  BY <1>6, Zenon DEF StartCallback
<1>7. CASE HandlePending(t)
  BY <1>7, Zenon DEF HandlePending, CallHandleMessages
<1>8. CASE DequeueOOB(t)
  BY <1>8, Zenon DEF DequeueOOB
<1>9. CASE DequeueNormal(t)
  BY <1>9, Zenon DEF DequeueNormal
<1>10. CASE DequeueNothing(t)
  BY <1>10, Zenon DEF DequeueNothing
<1>11. CASE HandledOOB(t)
  <2>1. PICK result \in BOOLEAN : Handled(t, result)
    BY <1>11 DEF HandledOOB
  <2>2. pc[t] = "handling" /\ pc' = [pc EXCEPT ![t] = IF LoopContinues(t, result) THEN "hm" ELSE ret[t]]
    BY <2>1, Zenon DEF Handled
  <2>3. \E l \in Labels \ {"end_cb"} : pc' = [pc EXCEPT ![t] = l]
    BY <2>2, Zenon
  <2> QED
    BY <2>1, <2>2, <2>3, Zenon DEF Handled
<1>12. CASE TaskDone(t)
  BY <1>12, Zenon DEF TaskDone, TaskEnds
<1>13. CASE NoPauseOnExit(t)
  BY <1>13, Zenon DEF NoPauseOnExit
<1>14. CASE PauseOnExit(t)
  BY <1>14, Zenon DEF PauseOnExit
<1>15. CASE HandleWhilePausedOnExit(t)
  BY <1>15, Zenon DEF HandleWhilePausedOnExit, CallHandleMessages
<1>16. CASE StillPausedOnExit(t)
  BY <1>16, Zenon DEF StillPausedOnExit, TaskEnds
<1>17. CASE ResumedOnExit(t)
  BY <1>17, Zenon DEF ResumedOnExit
<1>18. CASE HandledNormal(t)
  <2>1. PICK result \in BOOLEAN : Handled(t, result)
    BY Zenon, <1>18 DEF HandledNormal
  <2>2. pc[t] = "handling" /\ pc' = [pc EXCEPT ![t] = IF LoopContinues(t, result) THEN "hm" ELSE ret[t]]
    BY <2>1, Zenon DEF Handled
  <2>3. \E l \in Labels \ {"end_cb"} : pc' = [pc EXCEPT ![t] = l]
    BY <2>2, Zenon
  <2> QED
    BY <2>1, <2>2, <2>3, Zenon DEF Handled
<1>19. CASE StartCallbackReturns(t)
  BY <1>19 DEF StartCallbackReturns, CallHandleMessages
<1> QED
  BY ZenonT(40), <1>1, <1>2, <1>3, <1>4, <1>5, <1>6, <1>7, <1>8, <1>9, <1>10, <1>11, <1>12, <1>13, <1>14, <1>15, <1>16, <1>17, <1>18, <1>19

LEMMA NextLifeInv == TypeOK /\ TaskInv /\ LifeInv /\ [Next]_vars => LifeInv'
<1> SUFFICES ASSUME TypeOK, TaskInv, LifeInv, [Next]_vars PROVE LifeInv'
  OBVIOUS
<1> pc \in [Threads -> Labels] /\ runs \in Nat /\ ended \in Nat /\ Embedder \in Threads
  BY Zenon DEF TypeOK, Threads
<1>1. CASE UNCHANGED <<pc, pool_, runs, ended, deleted, end_callback_>>
  BY Zenon, <1>1 DEF LifeInv, Ending, Active
<1>2. ASSUME NEW t \in Threads, Works(t) PROVE LifeInv'
  BY <1>2 DEF LifeInv, Works, Ending, Active
<1>3. ASSUME pool_ \/ scheduled > 0 \/ \E t \in Workers : Active(t)
      PROVE  pool_ /\ ~Active(Embedder) /\ ~deleted /\ \A t \in Threads : ~Ending(t)
  <2>1. scheduled > 0 => scheduled = 1
    BY DEF TaskInv, OneTaskAtATime
  <2>2. pool_
    BY Zenon, <1>3, <2>1 DEF TaskInv, OneTaskAtATime
  <2> QED
    BY <2>2 DEF TaskInv, LifeInv
<1>4. CASE Run
  <2>1. \A t \in Threads : ~Ending(t)
    BY <1>4 DEF Run, LifeInv
  <2> QED
    BY Zenon, <1>4, <2>1 DEF Run, LifeInv, Ending, Active, thread
<1>5. ASSUME NEW t \in Threads, TaskBegin(t) PROVE LifeInv'
  <2>1. pool_ /\ ~deleted /\ \A u \in Threads : ~Ending(u)
    BY <1>3, <1>5 DEF TaskBegin
  <2>2. pc' = [pc EXCEPT ![t] = "begin"] /\ UNCHANGED <<pool_, runs, ended, deleted>>
    BY Zenon, <1>5 DEF TaskBegin, Goto, history
  <2> QED
    BY <2>1, <2>2 DEF LifeInv, Ending
<1>6. ASSUME NEW t \in Threads, Stop(t) PROVE LifeInv'
  <2>1. t \in Workers /\ Active(t)
    BY Zenon, <1>6 DEF Stop, TaskInv, EmbedderInv, Active, Threads
  <2>2. pool_ /\ ~Active(Embedder) /\ ~deleted /\ \A u \in Threads : ~Ending(u)
    BY <1>3, <2>1
  <2>3. pc' = [pc EXCEPT ![t] = "end_cb"] /\ ~pool_' /\ UNCHANGED <<runs, ended, deleted>>
    BY <1>6 DEF Stop, LeavePool, TaskEnds, Goto, history
  <2>4. t # Embedder
    BY Zenon, <2>1, ThreadsAssumption
  <2> QED
    BY Zenon, <2>2, <2>3, <2>4 DEF LifeInv, Ending, Active
<1>7. ASSUME NEW t \in Threads, EndCallback(t) \/ EndCallbackShutdown(t) PROVE LifeInv'
  <2>1. Ending(t) /\ pc' = [pc EXCEPT ![t] = "idle"] /\ ended' = ended + 1
        /\ UNCHANGED <<pool_, runs, end_callback_>>
        /\ (deleted' => deleted \/ end_callback_ = "shutdown")
    <3>1. CASE EndCallback(t)
      BY SMT, <3>1 DEF EndCallback, Ending, Goto, callbacks
    <3>2. CASE EndCallbackShutdown(t)
      BY SMT, <3>2 DEF EndCallbackShutdown, Ending, Goto, callbacks
    <3> QED
      BY Zenon, <1>7, <3>1, <3>2
  <2>2. ~pool_ /\ runs = ended + 1 /\ ~deleted /\ \A u \in Threads : Ending(u) => u = t
    BY Zenon, <2>1 DEF LifeInv, Ending
  <2>3. \A u \in Threads : ~Active(u)
    BY <1>3, <2>1, <2>2 DEF LifeInv, Threads
  <2>4. \A u \in Threads : pc'[u] = "idle"
    BY Zenon, <2>1, <2>2, <2>3 DEF Ending, Active
  <2> QED
    BY Zenon, <2>1, <2>2, <2>4 DEF LifeInv, Ending, Active
<1>8. CASE HandleNextMessage
  <2>1. ~pool_ /\ ~deleted /\ \A u \in Threads : ~Ending(u)
    BY <1>8 DEF HandleNextMessage, LifeInv
  <2>2. pc' = [pc EXCEPT ![Embedder] = "hm"] /\ UNCHANGED <<pool_, runs, ended, deleted>>
    BY <1>8 DEF HandleNextMessage, CallHandleMessages, Goto
  <2> QED
    BY <2>1, <2>2 DEF LifeInv, Ending
<1>9. CASE HandleNextReturns
  <2>1. Works(Embedder)
    BY <1>9, LabelsAndReturns, Zenon DEF HandleNextReturns, Works, Active, Goto, callbacks, history
  <2> QED
    BY <1>2, <2>1
<1>10. ASSUME NEW p \in Posters, MessageNotify(p) \/ \E k \in {"normal", "oob"} : PostMessage(p, k)
       PROVE  LifeInv'
  BY Zenon, <1>1, <1>10 DEF MessageNotify, PostMessage, thread, callbacks, history
<1>11. ASSUME NEW t \in Threads,
              \/ AcquireQueues(t) \/ InterruptNotServed(t) \/ ReleaseQueues(t)
              \/ HandleInterrupts(t) \/ NestedHandleOOB(t) \/ NestedReturns(t)
       PROVE  LifeInv'
  BY ZenonT(40), <1>1, <1>11
  DEF AcquireQueues, InterruptNotServed, ReleaseQueues, HandleInterrupts, NestedHandleOOB,
      NestedReturns, thread, callbacks, history
<1>12. CASE Quiescent \/ UNCHANGED vars
  BY Zenon, <1>1, <1>12 DEF Quiescent, vars, thread, callbacks, history
<1>13. ASSUME NEW t \in Threads, ThreadStep(t) \/ DartReturns(t) PROVE LifeInv'
  BY Zenon, <1>2, <1>5, <1>6, <1>7, <1>11, <1>13, WorkingSteps DEF ThreadStep, DartReturns
<1> QED
  BY <1>4, <1>8, <1>9, <1>10, <1>12, <1>13 DEF Next

(* A thread keeps what it knows when it takes a step.                      *)
LEMMA ExitsWellSteps ==
  ASSUME TypeOK, NEW t \in Threads, ExitsWell(t), ThreadStep(t) \/ DartReturns(t)
  PROVE  ExitsWell(t)'
<1> /\ pc \in [Threads -> Labels] /\ ret \in [Threads -> Returns]
    /\ msg \in [Threads -> {"none", "normal", "oob", "service"}]
    /\ min_priority \in [Threads -> {"normal", "oob"}]
    /\ ok \in [Threads -> BOOLEAN] /\ failed \in BOOLEAN
  BY Zenon DEF TypeOK
<1> USE DEF ExitsWell, PausedAtExit, Goto, history, call, thread, Returns, AllowNormal
<1>1. CASE TaskBegin(t)
  BY Zenon, <1>1 DEF TaskBegin
<1>2. CASE NoPauseOnStart(t)
  BY Zenon, <1>2 DEF NoPauseOnStart
<1>3. CASE PauseOnStart(t)
  BY Zenon, <1>3 DEF PauseOnStart
<1>4. CASE HandleWhilePausedOnStart(t)
  BY Zenon, <1>4 DEF HandleWhilePausedOnStart, CallHandleMessages, MinPriority
<1>5. CASE StillPausedOnStart(t)
  BY Zenon, <1>5 DEF StillPausedOnStart, TaskEnds
<1>6. CASE ResumedOnStart(t)
  BY Zenon, <1>6 DEF ResumedOnStart
<1>7. CASE StartCallback(t)
  BY Zenon, <1>7 DEF StartCallback
<1>8. CASE HandlePending(t)
  BY Zenon, <1>8 DEF HandlePending, CallHandleMessages, MinPriority
<1>9. CASE DequeueOOB(t)
  BY Zenon, <1>9 DEF DequeueOOB
<1>10. CASE DequeueNormal(t)
  BY Zenon, <1>10 DEF DequeueNormal
<1>11. CASE DequeueNothing(t)
  BY Zenon, <1>11 DEF DequeueNothing
<1>12. CASE HandledOOB(t)
  <2>1. PICK result \in BOOLEAN : Handled(t, result)
    BY Zenon, <1>12 DEF HandledOOB
  <2>2. UNCHANGED live_ports_
    BY Zenon, <1>12 DEF HandledOOB
  <2> QED
    BY ZenonT(40), <2>1, <2>2 DEF Handled, Reevaluated, MinPriority
<1>13. CASE AcquireQueues(t)
  BY Zenon, <1>13 DEF AcquireQueues
<1>14. CASE HandleInterrupts(t)
  BY ZenonT(40), <1>14 DEF HandleInterrupts
<1>15. CASE NestedHandleOOB(t)
  BY Zenon, <1>15 DEF NestedHandleOOB, NestedContinues
<1>16. CASE NestedReturns(t)
  BY ZenonT(40), <1>16 DEF NestedReturns
<1>17. CASE TaskDone(t)
  BY ZenonT(40), <1>17 DEF TaskDone, TaskEnds, ShouldStop
<1>18. CASE NoPauseOnExit(t)
  BY Zenon, <1>18 DEF NoPauseOnExit, ShouldStop
<1>19. CASE PauseOnExit(t)
  BY Zenon, <1>19 DEF PauseOnExit, ShouldStop
<1>20. CASE HandleWhilePausedOnExit(t)
  BY Zenon, <1>20 DEF HandleWhilePausedOnExit, CallHandleMessages, MinPriority, ShouldStop
<1>21. CASE StillPausedOnExit(t)
  BY Zenon, <1>21 DEF StillPausedOnExit, TaskEnds
<1>22. CASE ResumedOnExit(t)
  BY Zenon, <1>22 DEF ResumedOnExit
<1>23. CASE Stop(t)
  BY Zenon, <1>23 DEF Stop, TaskEnds
<1>24. CASE EndCallback(t)
  BY Zenon, <1>24 DEF EndCallback
<1>25. CASE EndCallbackShutdown(t)
  BY Zenon, <1>25 DEF EndCallbackShutdown
<1>26. CASE HandledNormal(t)
  <2>1. PICK result \in BOOLEAN : Handled(t, result)
    BY Zenon, <1>26 DEF HandledNormal
  <2>2. msg[t] = "normal"
    BY Zenon, <1>26 DEF HandledNormal
  <2> QED
    BY ZenonT(40), <2>1, <2>2 DEF Handled, Reevaluated, MinPriority
<1>27. CASE StartCallbackReturns(t)
  BY ZenonT(40), <1>27 DEF StartCallbackReturns, CallHandleMessages, MinPriority
<1>28. CASE InterruptNotServed(t) \/ ReleaseQueues(t)
  BY Zenon, <1>28 DEF InterruptNotServed, ReleaseQueues
<1> HIDE DEF ExitsWell
<1> QED
  BY Zenon, <1>1, <1>2, <1>3, <1>4, <1>5, <1>6, <1>7, <1>8, <1>9, <1>10, <1>11, <1>12, <1>13, <1>14, <1>15, <1>16, <1>17, <1>18, <1>19, <1>20, <1>21, <1>22, <1>23, <1>24, <1>25, <1>26, <1>27, <1>28
  DEF ThreadStep, DartReturns

(* To the others a step does little: only a thread in the handler changes  *)
(* the number of ports, and errors are not forgotten.                      *)
LEMMA OthersKeep ==
  ASSUME TypeOK, NEW t \in Threads, ThreadStep(t) \/ DartReturns(t), NEW u \in Threads, u # t
  PROVE  /\ pc'[u] = pc[u] /\ ok'[u] = ok[u] /\ ret'[u] = ret[u] /\ msg'[u] = msg[u]
         /\ min_priority'[u] = min_priority[u] /\ nested'[u] = nested[u]
         /\ failed => failed'
         /\ live_ports_' = live_ports_ \/ Active(t)
<1> DEFINE Kept == /\ pc'[u] = pc[u] /\ ok'[u] = ok[u] /\ ret'[u] = ret[u] /\ msg'[u] = msg[u]
                   /\ min_priority'[u] = min_priority[u] /\ nested'[u] = nested[u]
                   /\ failed => failed'
                   /\ live_ports_' = live_ports_ \/ Active(t)
<1> SUFFICES Kept
  OBVIOUS
<1> /\ pc \in [Threads -> Labels] /\ ret \in [Threads -> Returns]
    /\ msg \in [Threads -> {"none", "normal", "oob", "service"}]
    /\ min_priority \in [Threads -> {"normal", "oob"}]
    /\ ok \in [Threads -> BOOLEAN] /\ nested \in [Threads -> BOOLEAN]
  BY DEF TypeOK
<1> USE DEF Goto, history, call, thread
<1>1. CASE NoPauseOnStart(t) \/ PauseOnStart(t)
  <2>1. CASE NoPauseOnStart(t)
    BY Zenon, <2>1 DEF NoPauseOnStart
  <2>2. CASE PauseOnStart(t)
    BY Zenon, <2>2 DEF PauseOnStart
  <2> QED
    BY Zenon, <1>1, <2>1, <2>2
<1>2. CASE HandleWhilePausedOnStart(t)
  BY Zenon, <1>2 DEF HandleWhilePausedOnStart, CallHandleMessages
<1>3. CASE StillPausedOnStart(t) \/ ResumedOnStart(t)
  <2>1. CASE StillPausedOnStart(t)
    BY Zenon, <2>1 DEF StillPausedOnStart, TaskEnds
  <2>2. CASE ResumedOnStart(t)
    BY Zenon, <2>2 DEF ResumedOnStart
  <2> QED
    BY Zenon, <1>3, <2>1, <2>2
<1>4. CASE StartCallback(t) \/ HandlePending(t)
  <2>1. CASE StartCallback(t)
    BY Zenon, <2>1 DEF StartCallback
  <2>2. CASE HandlePending(t)
    BY Zenon, <2>2 DEF HandlePending, CallHandleMessages
  <2> QED
    BY Zenon, <1>4, <2>1, <2>2
<1>5. CASE TaskBegin(t) \/ DequeueNothing(t)
  <2>1. CASE TaskBegin(t)
    BY Zenon, <2>1 DEF TaskBegin
  <2>2. CASE DequeueNothing(t)
    BY Zenon, <2>2 DEF DequeueNothing
  <2> QED
    BY Zenon, <1>5, <2>1, <2>2
<1>6. CASE DequeueOOB(t) \/ DequeueNormal(t)
  <2>1. CASE DequeueOOB(t)
    BY Zenon, <2>1 DEF DequeueOOB
  <2>2. CASE DequeueNormal(t)
    BY Zenon, <2>2 DEF DequeueNormal
  <2> QED
    BY Zenon, <1>6, <2>1, <2>2
<1>7. CASE AcquireQueues(t) \/ InterruptNotServed(t) \/ ReleaseQueues(t)
  <2>1. CASE AcquireQueues(t)
    BY Zenon, <2>1 DEF AcquireQueues
  <2>2. CASE InterruptNotServed(t)
    BY Zenon, <2>2 DEF InterruptNotServed
  <2>3. CASE ReleaseQueues(t)
    BY Zenon, <2>3 DEF ReleaseQueues
  <2> QED
    BY Zenon, <1>7, <2>1, <2>2, <2>3
<1>8. CASE HandleInterrupts(t) \/ NestedReturns(t)
  <2>1. CASE HandleInterrupts(t)
    BY Zenon, <2>1 DEF HandleInterrupts
  <2>2. CASE NestedReturns(t)
    BY Zenon, <2>2 DEF NestedReturns
  <2> QED
    BY Zenon, <1>8, <2>1, <2>2
<1>9. CASE TaskDone(t) \/ NoPauseOnExit(t) \/ PauseOnExit(t)
  <2>1. CASE TaskDone(t)
    BY Zenon, <2>1 DEF TaskDone, TaskEnds
  <2>2. CASE NoPauseOnExit(t)
    BY Zenon, <2>2 DEF NoPauseOnExit
  <2>3. CASE PauseOnExit(t)
    BY Zenon, <2>3 DEF PauseOnExit
  <2> QED
    BY Zenon, <1>9, <2>1, <2>2, <2>3
<1>10. CASE HandleWhilePausedOnExit(t) \/ StillPausedOnExit(t)
  <2>1. CASE HandleWhilePausedOnExit(t)
    BY Zenon, <2>1 DEF HandleWhilePausedOnExit, CallHandleMessages
  <2>2. CASE StillPausedOnExit(t)
    BY Zenon, <2>2 DEF StillPausedOnExit, TaskEnds
  <2> QED
    BY Zenon, <1>10, <2>1, <2>2
<1>11. CASE ResumedOnExit(t) \/ Stop(t)
  <2>1. CASE ResumedOnExit(t)
    BY Zenon, <2>1 DEF ResumedOnExit, TaskEnds
  <2>2. CASE Stop(t)
    BY Zenon, <2>2 DEF Stop, TaskEnds
  <2> QED
    BY Zenon, <1>11, <2>1, <2>2
<1>12. CASE EndCallback(t) \/ EndCallbackShutdown(t)
  <2>1. CASE EndCallback(t)
    BY Zenon, <2>1 DEF EndCallback, TaskEnds
  <2>2. CASE EndCallbackShutdown(t)
    BY Zenon, <2>2 DEF EndCallbackShutdown, TaskEnds
  <2> QED
    BY Zenon, <1>12, <2>1, <2>2
<1>13. CASE HandledOOB(t)
  BY <1>13, Zenon DEF HandledOOB, Handled
<1>14. CASE HandledNormal(t)
  BY <1>14, Zenon DEF HandledNormal, Handled, Active
<1>15. CASE StartCallbackReturns(t)
  <2>1. Active(t)
    BY <1>15 DEF StartCallbackReturns, Active
  <2>2. CASE CallHandleMessages(t, "after_main", paused_') /\ UNCHANGED failed
    <3>1. UNCHANGED <<msg, nested>>
      BY Zenon, <1>15 DEF StartCallbackReturns
    <3> QED
      BY Zenon, <2>1, <2>2, <3>1 DEF CallHandleMessages
  <2>3. CASE ok' = [ok EXCEPT ![t] = FALSE] /\ failed' = TRUE /\ Goto(t, "after_main") /\ UNCHANGED call
    <3>1. UNCHANGED <<msg, nested>>
      BY Zenon, <1>15 DEF StartCallbackReturns
    <3> QED
      BY Zenon, <2>1, <2>3, <3>1
  <2> QED
    BY Zenon, <1>15, <2>2, <2>3 DEF StartCallbackReturns
<1>16. CASE NestedHandleOOB(t)
  BY <1>16, Zenon DEF NestedHandleOOB
<1> HIDE DEF Kept, Goto, history, call, thread
<1> QED
  BY Zenon, <1>1, <1>2, <1>3, <1>4, <1>5, <1>6, <1>7, <1>8, <1>9, <1>10, <1>11, <1>12, <1>13, <1>14, <1>15, <1>16 DEF ThreadStep, DartReturns

LEMMA NextExitInv == TypeOK /\ TaskInv /\ ExitInv /\ [Next]_vars => ExitInv'
<1> SUFFICES ASSUME TypeOK, TaskInv, ExitInv, [Next]_vars, NEW u \in Workers PROVE ExitsWell(u)'
  BY DEF ExitInv
<1> ExitsWell(u) /\ u \in Threads
  BY DEF ExitInv, Threads
<1>1. CASE UNCHANGED <<pc, ok, ret, min_priority, msg, failed, live_ports_>>
  BY ZenonT(40), <1>1 DEF ExitsWell, PausedAtExit
<1>2. CASE pc'[u] \in {"idle", "end_cb"}
  BY <1>2 DEF ExitsWell, PausedAtExit
<1>3. CASE Run \/ HandleNextMessage
  <2>1. ~pool_
    BY <1>3 DEF Run, HandleNextMessage
  <2>2. ~Active(u)
    BY Zenon, <2>1 DEF TaskInv, OneTaskAtATime
  <2>3. pc'[u] = pc[u]
    BY ZenonT(40), <1>3, ThreadsAssumption DEF Run, HandleNextMessage, CallHandleMessages, Goto, thread, TypeOK
  <2> QED
    BY Zenon, <1>2, <2>2, <2>3 DEF Active
<1>4. ASSUME NEW p \in Posters, MessageNotify(p) \/ \E k \in {"normal", "oob"} : PostMessage(p, k)
      PROVE  ExitsWell(u)'
  BY Zenon, <1>1, <1>4 DEF MessageNotify, PostMessage, call, thread, history
<1>5. CASE HandleNextReturns
  <2>1. pc'[u] = pc[u] /\ UNCHANGED <<ok, ret, min_priority, msg, failed, live_ports_>>
    BY Zenon, <1>5, ThreadsAssumption DEF HandleNextReturns, Goto, history, call, TypeOK
  <2> QED
    BY ZenonT(40), <2>1 DEF ExitsWell, PausedAtExit
<1>6. CASE Quiescent \/ UNCHANGED vars
  BY <1>1, <1>6 DEF Quiescent, vars, call, thread, history
<1>7. ASSUME NEW t \in Threads, ThreadStep(t) \/ DartReturns(t) PROVE ExitsWell(u)'
  <2>1. CASE t = u
    BY <1>7, <2>1, ExitsWellSteps
  <2>2. CASE t # u
    <3>1. /\ pc'[u] = pc[u] /\ ok'[u] = ok[u] /\ ret'[u] = ret[u] /\ msg'[u] = msg[u]
          /\ min_priority'[u] = min_priority[u]
          /\ failed => failed'
          /\ live_ports_' = live_ports_ \/ Active(t)
      BY ZenonT(40), <1>7, <2>2, OthersKeep
    <3>2. CASE Active(t)
      <4>1. ~Active(u)
        BY Zenon, <2>2, <3>2 DEF TaskInv, OneTaskAtATime
      <4> QED
        BY Zenon, <1>2, <3>1, <4>1 DEF Active
    <3>3. CASE ~Active(t)
      BY Zenon, <3>1, <3>3 DEF ExitsWell, PausedAtExit
    <3> QED
      BY Zenon, <3>2, <3>3
  <2> QED
    BY <2>1, <2>2
<1> QED
  BY <1>3, <1>4, <1>5, <1>6, <1>7 DEF Next

(* A handler ends only without live ports or after an error, its end       *)
(* callback runs once for each Run, and when that has deleted the handler  *)
(* no thread uses it, for any number of posters, pool threads, messages    *)
(* and calls of Run.                                                       *)
THEOREM TheEndComesOnce == Spec => []EndsOnce
<1>1. Init => TypeOK /\ TaskInv /\ LifeInv /\ ExitInv
  <2>1. Init => LifeInv
    BY ZenonT(40) DEF Init, LifeInv, Ending, Active
  <2>2. Init => ExitInv
    BY ZenonT(40) DEF Init, ExitInv, ExitsWell, PausedAtExit, Threads
  <2> QED
    BY Zenon, <2>1, <2>2, InitTypeOK, InitTaskInv
<1>2. (TypeOK /\ TaskInv /\ LifeInv /\ ExitInv) /\ [Next]_vars
      => (TypeOK /\ TaskInv /\ LifeInv /\ ExitInv)'
  BY NextTypeOK, NextTaskInv, NextLifeInv, NextExitInv
<1>3. TypeOK /\ TaskInv /\ LifeInv /\ ExitInv => EndsOnce
  <2> SUFFICES ASSUME TypeOK, TaskInv, LifeInv, ExitInv PROVE EndsOnce
    OBVIOUS
  <2>1. \A t \in Workers : pc[t] = "exit" => live_ports_ = 0 \/ failed
    BY Zenon DEF ExitInv, ExitsWell, PausedAtExit
  <2>2. ended <= runs /\ (pool_ => ended < runs)
    BY DEF TypeOK, LifeInv
  <2>3. deleted => scheduled = 0 /\ ~pool_ /\ \A t \in Threads : pc[t] = "idle"
    BY Zenon DEF LifeInv, TaskInv, OneTaskAtATime
  <2> QED
    BY <2>1, <2>2, <2>3 DEF EndsOnce
<1> QED
  BY <1>1, <1>2, <1>3, PTL DEF Spec

-----------------------------------------------------------------------------
(* What is left in the queues.  The monitor is held from the moment that   *)
(* HandleMessages finds nothing to take to the end of the task, so no      *)
(* message comes in between.  AcquireQueues holds it in HandleMessage.     *)
Held == {"begin", "hm", "start_cb", "exit"} \cup Returns

MonitorInv ==
    /\ \A t \in Threads : pc[t] \in Held => monitor_ = t
    /\ ~oob_message_handling_allowed_ => \E t \in Threads : monitor_ = t /\ pc[t] = "handling"

(* What a thread knows of the queues: min_priority is that of the pauses   *)
(* there are, HandleMessages returns without an error only when nothing is *)
(* left that it may take, and the handler is paused at its start or exit   *)
(* when it is run for that.                                                *)
InCall(t, return) == pc[t] \in {"hm", "handling"} /\ ret[t] = return

Knows(t) ==
    /\ nested[t] => pc[t] \in {"starting", "handling"}
    /\ pc[t] = "hm" => min_priority[t] = MinPriority(ret[t], paused_)
    /\ pc[t] = "after_main" /\ ok[t] => oob_queue_ = 0 /\ (queue_ = 0 \/ paused_ # 0)
    /\ pc[t] \in {"after_start", "after_exit"} => oob_queue_ = 0 \/ failed
    /\ InCall(t, "after_start") \/ pc[t] \in {"notify_start", "after_start"} => paused_on_start_
    /\ InCall(t, "after_exit") \/ pc[t] \in {"notify_exit", "after_exit"} => paused_on_exit_

StrandInv ==
    pool_ /\ ~task_ => /\ queue_ = 0 \/ paused_ # 0 \/ paused_on_start_ \/ paused_on_exit_
                       /\ oob_queue_ = 0 \/ (failed /\ (paused_on_start_ \/ paused_on_exit_))

LeftInv == MonitorInv /\ (\A t \in Threads : Knows(t)) /\ StrandInv

(* A step of a thread is one of TaskCallback or HandleMessages, begins a   *)
(* task or ends the handler; nobody else is in the handler then.           *)
LEMMA OneAtWork ==
  ASSUME TaskInv, LifeInv, MonitorInv, NEW t \in Threads, Knows(t), ThreadStep(t) \/ DartReturns(t)
  PROVE  /\ Active(t) \/ TaskBegin(t) \/ Ending(t)
         /\ \A u \in Threads : u # t => ~Active(u)
         /\ ~(pool_ /\ ~task_)
<1>1. Active(t) \/ TaskBegin(t) \/ Ending(t)
  <2>1. CASE \/ NoPauseOnStart(t) \/ PauseOnStart(t) \/ HandleWhilePausedOnStart(t)
             \/ StillPausedOnStart(t) \/ ResumedOnStart(t) \/ StartCallback(t)
             \/ HandlePending(t) \/ DequeueOOB(t) \/ DequeueNormal(t) \/ DequeueNothing(t)
    <3>1. pc[t] \in {"begin", "notify_start", "after_start", "start_cb", "hm"}
      BY ZenonT(40), <2>1
      DEF NoPauseOnStart, PauseOnStart, HandleWhilePausedOnStart, StillPausedOnStart,
          ResumedOnStart, StartCallback, HandlePending, DequeueOOB, DequeueNormal, DequeueNothing
    <3> QED
      BY <3>1 DEF Active
  <2>2. CASE \/ HandledOOB(t) \/ HandledNormal(t) \/ AcquireQueues(t) \/ StartCallbackReturns(t)
             \/ TaskDone(t) \/ NoPauseOnExit(t) \/ PauseOnExit(t) \/ HandleWhilePausedOnExit(t)
             \/ StillPausedOnExit(t) \/ ResumedOnExit(t) \/ Stop(t)
    <3>1. pc[t] \in {"handling", "starting", "after_main", "notify_exit", "after_exit", "exit"}
      BY ZenonT(40), <2>2
      DEF HandledOOB, HandledNormal, Handled, AcquireQueues, StartCallbackReturns, TaskDone,
          NoPauseOnExit, PauseOnExit, HandleWhilePausedOnExit, StillPausedOnExit, ResumedOnExit,
          Stop
    <3> QED
      BY <3>1 DEF Active
  <2>3. CASE \/ InterruptNotServed(t) \/ ReleaseQueues(t)
             \/ HandleInterrupts(t) \/ NestedHandleOOB(t) \/ NestedReturns(t)
    <3>1. (monitor_ = t /\ ~oob_message_handling_allowed_) \/ RunsDart(t) \/ nested[t]
      BY ZenonT(40), <2>3
      DEF InterruptNotServed, ReleaseQueues, HandleInterrupts, NestedHandleOOB, NestedReturns
    <3>2. pc[t] \in {"starting", "handling"}
      BY ZenonT(40), <3>1 DEF MonitorInv, RunsDart, Knows
    <3> QED
      BY <3>2 DEF Active
  <2>4. CASE EndCallback(t) \/ EndCallbackShutdown(t)
    BY Zenon, <2>4 DEF EndCallback, EndCallbackShutdown, Ending
  <2> QED
    BY ZenonT(40), <2>1, <2>2, <2>3, <2>4 DEF ThreadStep, DartReturns
<1>2. Embedder \in Threads /\ Workers \subseteq Threads
  BY DEF Threads
<1>3. CASE Active(t)
  <2>1. \A u \in Threads : u # t => ~Active(u)
    BY Zenon, <1>3 DEF TaskInv, OneTaskAtATime
  <2>2. t = Embedder => ~pool_
    BY Zenon, <1>3 DEF TaskInv
  <2>3. t \in Workers => task_
    BY Zenon, <1>3 DEF TaskInv, OneTaskAtATime
  <2> QED
    BY Zenon, <1>1, <2>1, <2>2, <2>3 DEF Threads
<1>4. CASE TaskBegin(t)
  <2>1. scheduled = 1
    BY <1>4 DEF TaskBegin, TaskInv, OneTaskAtATime
  <2> QED
    BY Zenon, <1>1, <2>1 DEF TaskInv, OneTaskAtATime
<1>5. CASE Ending(t)
  <2>1. ~pool_ /\ ~Active(Embedder)
    BY Zenon, <1>5 DEF LifeInv
  <2>2. \A u \in Workers : ~Active(u)
    BY Zenon, <2>1 DEF TaskInv, OneTaskAtATime
  <2> QED
    BY Zenon, <1>1, <2>1, <2>2 DEF Threads
<1> QED
  BY <1>1, <1>3, <1>4, <1>5

(* How a step of a thread uses the monitor.                                *)
HasMonitor(t) == UNCHANGED monitor_ /\ pc[t] \in Held /\ \E l \in Held : Goto(t, l)
TakesMonitor(t) == Acquire(t) /\ \E l \in Labels : Goto(t, l)
LeavesMonitor(t) == pc[t] \in Held /\ Release(t) /\ \E l \in Labels \ Held : Goto(t, l)

LEMMA MonitorSteps ==
  ASSUME TypeOK, NEW t \in Threads, ThreadStep(t) \/ DartReturns(t)
  PROVE  \/ UNCHANGED <<monitor_, pc, oob_message_handling_allowed_>>
         \/ AcquireQueues(t) \/ ReleaseQueues(t)
         \/ /\ HasMonitor(t) \/ TakesMonitor(t) \/ LeavesMonitor(t)
            /\ UNCHANGED oob_message_handling_allowed_
         \/ Ending(t) /\ Goto(t, "idle") /\ UNCHANGED <<monitor_, oob_message_handling_allowed_>>
<1> DEFINE Steps ==
      \/ UNCHANGED <<monitor_, pc, oob_message_handling_allowed_>>
      \/ AcquireQueues(t) \/ ReleaseQueues(t)
      \/ /\ HasMonitor(t) \/ TakesMonitor(t) \/ LeavesMonitor(t)
         /\ UNCHANGED oob_message_handling_allowed_
      \/ Ending(t) /\ Goto(t, "idle") /\ UNCHANGED <<monitor_, oob_message_handling_allowed_>>
<1> SUFFICES Steps
  OBVIOUS
<1>1. ret[t] \in Returns
  BY DEF TypeOK
<1>2. /\ {"begin", "hm", "start_cb", "exit", "after_start", "after_main", "after_exit"} \subseteq Held
      /\ Returns \subseteq Held /\ Held \subseteq Labels
      /\ {"idle", "notify_start", "handling", "starting", "notify_exit", "end_cb"}
            \subseteq Labels \ Held
  BY DEF Held, Labels, Returns
<1>3. CASE NoPauseOnStart(t) \/ ResumedOnStart(t) \/ HandlePending(t)
  <2>1. UNCHANGED <<monitor_, oob_message_handling_allowed_>>
    BY ZenonT(40), <1>3 DEF NoPauseOnStart, ResumedOnStart, HandlePending, queues
  <2>2. pc[t] \in {"begin", "after_start", "start_cb"} /\ \E l \in {"start_cb", "hm"} : Goto(t, l)
    BY ZenonT(40), <1>3 DEF NoPauseOnStart, ResumedOnStart, HandlePending, CallHandleMessages
  <2> QED
    BY Zenon, <1>2, <2>1, <2>2 DEF HasMonitor
<1>4. CASE DequeueNothing(t) \/ NoPauseOnExit(t) \/ ResumedOnExit(t)
  <2>1. UNCHANGED <<monitor_, oob_message_handling_allowed_>>
    BY ZenonT(40), <1>4 DEF DequeueNothing, NoPauseOnExit, ResumedOnExit, queues
  <2>2. /\ pc[t] \in {"hm", "after_main", "after_exit"}
        /\ \E l \in Returns \cup {"exit"} : Goto(t, l)
    BY ZenonT(40), <1>1, <1>4 DEF DequeueNothing, NoPauseOnExit, ResumedOnExit
  <2> QED
    BY Zenon, <1>2, <2>1, <2>2 DEF HasMonitor
<1>5. CASE HandleWhilePausedOnStart(t) \/ HandleWhilePausedOnExit(t)
  <2>1. Goto(t, "hm") /\ UNCHANGED oob_message_handling_allowed_
    BY ZenonT(40), <1>5
    DEF HandleWhilePausedOnStart, HandleWhilePausedOnExit, CallHandleMessages, queues
  <2>2. (pc[t] \in {"begin", "after_main"} /\ UNCHANGED monitor_) \/ Acquire(t)
    BY ZenonT(40), <1>5 DEF HandleWhilePausedOnStart, HandleWhilePausedOnExit
  <2> QED
    BY Zenon, <1>2, <2>1, <2>2, LabelsAndReturns DEF HasMonitor, TakesMonitor
<1>6. CASE TaskBegin(t) \/ StartCallbackReturns(t)
  <2>1. Acquire(t) /\ UNCHANGED oob_message_handling_allowed_
    BY ZenonT(40), <1>6 DEF TaskBegin, StartCallbackReturns, queues
  <2>2. \E l \in {"begin", "hm", "after_main"} : Goto(t, l)
    BY ZenonT(40), <1>6 DEF TaskBegin, StartCallbackReturns, CallHandleMessages
  <2> QED
    BY Zenon, <2>1, <2>2, LabelsAndReturns DEF TakesMonitor
<1>7. CASE HandledOOB(t) \/ HandledNormal(t)
  <2>1. PICK result \in BOOLEAN : Handled(t, result)
    BY ZenonT(40), <1>7 DEF HandledOOB, HandledNormal
  <2>2. Acquire(t) /\ UNCHANGED oob_message_handling_allowed_
    BY Zenon, <2>1 DEF Handled, queues
  <2>3. \E l \in Labels : Goto(t, l)
    BY Zenon, <1>1, <2>1, LabelsAndReturns DEF Handled
  <2> QED
    BY Zenon, <2>2, <2>3 DEF TakesMonitor
<1>8. CASE DequeueOOB(t) \/ DequeueNormal(t) \/ PauseOnStart(t) \/ StartCallback(t) \/ PauseOnExit(t)
  <2>1. Release(t) /\ UNCHANGED oob_message_handling_allowed_
    BY ZenonT(40), <1>8
    DEF DequeueOOB, DequeueNormal, PauseOnStart, StartCallback, PauseOnExit, queues
  <2>2. /\ pc[t] \in {"hm", "begin", "start_cb", "after_main"}
        /\ \E l \in {"handling", "notify_start", "starting", "notify_exit"} : Goto(t, l)
    BY ZenonT(40), <1>8 DEF DequeueOOB, DequeueNormal, PauseOnStart, StartCallback, PauseOnExit
  <2> QED
    BY Zenon, <1>2, <2>1, <2>2 DEF LeavesMonitor
<1>9. CASE StillPausedOnStart(t) \/ TaskDone(t) \/ StillPausedOnExit(t) \/ Stop(t)
  <2>1. UNCHANGED oob_message_handling_allowed_
    BY ZenonT(40), <1>9 DEF StillPausedOnStart, TaskDone, StillPausedOnExit, Stop, queues
  <2>2. /\ pc[t] \in {"after_start", "after_main", "after_exit", "exit"}
        /\ \E l \in {"idle", "end_cb"} : TaskEnds(t, l)
    BY ZenonT(40), <1>9 DEF StillPausedOnStart, TaskDone, StillPausedOnExit, Stop
  <2> QED
    BY Zenon, <1>2, <2>1, <2>2 DEF LeavesMonitor, TaskEnds
<1>10. CASE InterruptNotServed(t) \/ HandleInterrupts(t) \/ NestedHandleOOB(t) \/ NestedReturns(t)
  BY ZenonT(40), <1>10
  DEF InterruptNotServed, HandleInterrupts, NestedHandleOOB, NestedReturns, thread, queues
<1>11. CASE EndCallback(t) \/ EndCallbackShutdown(t)
  BY ZenonT(40), <1>11 DEF EndCallback, EndCallbackShutdown, Ending, queues
<1> HIDE DEF Steps
<1>12. AcquireQueues(t) \/ ReleaseQueues(t) => Steps
  BY Zenon DEF Steps
<1> QED
  BY ZenonT(40), <1>3, <1>4, <1>5, <1>6, <1>7, <1>8, <1>9, <1>10, <1>11, <1>12
  DEF ThreadStep, DartReturns

LEMMA MonitorKept ==
  ASSUME TypeOK, MonitorInv, NEW t \in Threads,
         HasMonitor(t) \/ TakesMonitor(t) \/ LeavesMonitor(t), UNCHANGED oob_message_handling_allowed_
  PROVE  MonitorInv'
<1> pc \in [Threads -> Labels] /\ NULL \notin Threads /\ "handling" \notin Held
  BY ThreadsAssumption DEF TypeOK, Threads, Held, Returns
<1>1. PICK l \in Labels : pc' = [pc EXCEPT ![t] = l]
  <2>1. Held \subseteq Labels
    BY DEF Held, Labels
  <2> QED
    BY ZenonT(40), <2>1 DEF HasMonitor, TakesMonitor, LeavesMonitor, Goto
<1>2. pc'[t] = l /\ \A u \in Threads : u # t => pc'[u] = pc[u]
  BY Zenon, <1>1
<1>3. CASE HasMonitor(t)
  <2>1. monitor_' = monitor_ /\ pc[t] \in Held
    BY <1>3 DEF HasMonitor
  <2>2. monitor_ = t /\ oob_message_handling_allowed_
    BY ZenonT(40), <2>1 DEF MonitorInv
  <2> QED
    BY ZenonT(40), <1>2, <2>1, <2>2 DEF MonitorInv
<1>4. CASE TakesMonitor(t)
  <2>1. monitor_ = NULL /\ monitor_' = t
    BY <1>4 DEF TakesMonitor, Acquire
  <2> QED
    BY ZenonT(40), <1>2, <2>1 DEF MonitorInv
<1>5. CASE LeavesMonitor(t)
  <2>1. pc[t] \in Held /\ pc'[t] \notin Held
    BY Zenon, <1>5 DEF LeavesMonitor, Goto
  <2>2. monitor_ = t /\ oob_message_handling_allowed_
    BY ZenonT(40), <2>1 DEF MonitorInv
  <2> QED
    BY ZenonT(40), <1>2, <2>1, <2>2 DEF MonitorInv
<1> QED
  BY <1>3, <1>4, <1>5

LEMMA NextMonitorInv == TypeOK /\ TaskInv /\ MonitorInv /\ [Next]_vars => MonitorInv'
<1> SUFFICES ASSUME TypeOK, TaskInv, MonitorInv, [Next]_vars PROVE MonitorInv'
  OBVIOUS
<1> pc \in [Threads -> Labels] /\ Embedder \in Threads /\ NULL \notin Threads
  BY ThreadsAssumption DEF TypeOK, Threads
<1>1. CASE UNCHANGED <<monitor_, pc, oob_message_handling_allowed_>>
  BY Zenon, <1>1 DEF MonitorInv
<1>2. CASE Run \/ Quiescent \/ UNCHANGED vars
  BY ZenonT(40), <1>1, <1>2 DEF Run, Quiescent, vars, thread, queues
<1>3. ASSUME NEW p \in Posters, MessageNotify(p) \/ \E k \in {"normal", "oob"} : PostMessage(p, k)
      PROVE  MonitorInv'
  BY ZenonT(40), <1>1, <1>3 DEF MessageNotify, PostMessage, thread, queues
<1>4. CASE HandleNextMessage
  <2>1. TakesMonitor(Embedder) /\ UNCHANGED oob_message_handling_allowed_
    BY ZenonT(40), <1>4, LabelsAndReturns
    DEF HandleNextMessage, CallHandleMessages, TakesMonitor, queues
  <2> QED
    BY Zenon, <2>1, MonitorKept
<1>5. CASE HandleNextReturns
  <2>1. "returned" \in Held /\ "idle" \in Labels \ Held
    BY DEF Held, Labels, Returns
  <2>2. LeavesMonitor(Embedder) /\ UNCHANGED oob_message_handling_allowed_
    BY ZenonT(40), <1>5, <2>1 DEF HandleNextReturns, LeavesMonitor, queues
  <2> QED
    BY Zenon, <2>2, MonitorKept
<1>6. ASSUME NEW t \in Threads, ThreadStep(t) \/ DartReturns(t) PROVE MonitorInv'
  <2>1. CASE AcquireQueues(t)
    <3>1. monitor_ = NULL /\ monitor_' = t /\ pc[t] = "handling" /\ UNCHANGED pc
      BY <2>1 DEF AcquireQueues, Acquire
    <3> QED
      BY ZenonT(40), <3>1 DEF MonitorInv
  <2>2. CASE ReleaseQueues(t)
    <3>1. monitor_ = t /\ ~oob_message_handling_allowed_ /\ oob_message_handling_allowed_'
          /\ UNCHANGED pc
      BY <2>2 DEF ReleaseQueues, thread
    <3>2. pc[t] = "handling"
      BY Zenon, <3>1 DEF MonitorInv
    <3>3. "handling" \notin Held
      BY DEF Held, Returns
    <3> QED
      BY ZenonT(40), <3>1, <3>2, <3>3 DEF MonitorInv
  <2>3. CASE Ending(t) /\ Goto(t, "idle") /\ UNCHANGED <<monitor_, oob_message_handling_allowed_>>
    <3>1. pc[t] # "handling" /\ pc'[t] = "idle" /\ \A u \in Threads : u # t => pc'[u] = pc[u]
      BY <2>3 DEF Ending, Goto
    <3>2. "idle" \notin Held
      BY DEF Held, Returns
    <3> QED
      BY ZenonT(40), <2>3, <3>1, <3>2 DEF MonitorInv
  <2> QED
    BY ZenonT(40), <1>1, <1>6, <2>1, <2>2, <2>3, MonitorSteps, MonitorKept
<1> QED
  BY ZenonT(40), <1>2, <1>3, <1>4, <1>5, <1>6 DEF Next

(* The messages do not end the pauses at start and exit by themselves.     *)
LEMMA OOBMessageKeeps ==
  ASSUME NEW result \in BOOLEAN, OOBMessage(result)
  PROVE  UNCHANGED <<paused_on_start_, paused_on_exit_>>
  BY ZenonT(40)
  DEF OOBMessage, PauseMsg, ResumeMsg, ServiceResume, InternalKillMsg, OtherMsg, flags

(* A thread keeps what it knows of the queues when it takes a step.        *)
LEMMA KnowsSteps ==
  ASSUME TypeOK, NEW t \in Threads, Knows(t), ExitsWell(t) \/ ret[t] = "returned",
         ThreadStep(t) \/ DartReturns(t)
  PROVE  Knows(t)'
<1> /\ pc \in [Threads -> Labels] /\ ret \in [Threads -> Returns]
    /\ msg \in [Threads -> {"none", "normal", "oob", "service"}]
    /\ min_priority \in [Threads -> {"normal", "oob"}]
    /\ ok \in [Threads -> BOOLEAN] /\ nested \in [Threads -> BOOLEAN] /\ failed \in BOOLEAN
  BY Zenon DEF TypeOK
<1> USE DEF Knows, InCall, Goto, history, call, thread, flags, queues
<1>1. CASE TaskBegin(t)
  BY ZenonT(40), <1>1 DEF TaskBegin
<1>2. CASE NoPauseOnStart(t)
  BY ZenonT(40), <1>2 DEF NoPauseOnStart
<1>3. CASE PauseOnStart(t)
  BY ZenonT(40), <1>3 DEF PauseOnStart
<1>4. CASE HandleWhilePausedOnStart(t)
  BY ZenonT(40), <1>4 DEF HandleWhilePausedOnStart, CallHandleMessages
<1>5. CASE StillPausedOnStart(t)
  BY ZenonT(40), <1>5 DEF StillPausedOnStart, TaskEnds
<1>6. CASE ResumedOnStart(t)
  BY ZenonT(40), <1>6 DEF ResumedOnStart
<1>7. CASE StartCallback(t)
  BY ZenonT(40), <1>7 DEF StartCallback
<1>8. CASE HandlePending(t)
  BY ZenonT(40), <1>8 DEF HandlePending, CallHandleMessages
<1>9. CASE DequeueOOB(t)
  BY ZenonT(40), <1>9 DEF DequeueOOB
<1>10. CASE DequeueNormal(t)
  BY ZenonT(40), <1>10 DEF DequeueNormal
<1>11. CASE DequeueNothing(t)
  BY ZenonT(40), <1>11 DEF DequeueNothing, MinPriority, AllowNormal, Returns
<1>12. CASE HandledOOB(t) \/ HandledNormal(t)
  <2>1. PICK result \in BOOLEAN : Handled(t, result)
    BY ZenonT(40), <1>12 DEF HandledOOB, HandledNormal
  <2>2. UNCHANGED <<paused_on_start_, paused_on_exit_>>
    BY ZenonT(40), <1>12, OOBMessageKeeps DEF HandledOOB, HandledNormal
  <2>3. CASE LoopContinues(t, result)
    BY ZenonT(40), <2>1, <2>2, <2>3 DEF Handled, Reevaluated
  <2>4. CASE ~LoopContinues(t, result)
    <3>1. pc[t] = "handling" /\ ~nested[t] /\ pc' = [pc EXCEPT ![t] = ret[t]]
          /\ ok' = [ok EXCEPT ![t] = result] /\ failed' = (failed \/ ~result)
          /\ UNCHANGED <<ret, nested>>
      BY ZenonT(40), <2>1, <2>4 DEF Handled
    <3>2. ~result \/ ret[t] = "returned"
      BY ZenonT(40), <2>4, <3>1 DEF LoopContinues, AllowMultipleNormal, ExitsWell, AllowNormal
    <3> QED
      BY ZenonT(40), <2>2, <3>1, <3>2 DEF Returns
  <2> QED
    BY Zenon, <2>3, <2>4
<1>13. CASE AcquireQueues(t)
  BY ZenonT(40), <1>13 DEF AcquireQueues
<1>14. CASE HandleInterrupts(t)
  BY ZenonT(40), <1>14 DEF HandleInterrupts, RunsDart
<1>15. CASE NestedHandleOOB(t)
  <2>1. pc[t] \in {"starting", "handling"} /\ UNCHANGED <<pc, ret>>
    BY Zenon, <1>15 DEF NestedHandleOOB
  <2>2. UNCHANGED <<paused_on_start_, paused_on_exit_>>
    BY ZenonT(40), <1>15, OOBMessageKeeps DEF NestedHandleOOB
  <2> QED
    BY ZenonT(40), <2>1, <2>2
<1>16. CASE NestedReturns(t)
  BY ZenonT(40), <1>16 DEF NestedReturns
<1>17. CASE TaskDone(t)
  BY ZenonT(40), <1>17 DEF TaskDone, TaskEnds
<1>18. CASE NoPauseOnExit(t)
  BY ZenonT(40), <1>18 DEF NoPauseOnExit
<1>19. CASE PauseOnExit(t)
  BY ZenonT(40), <1>19 DEF PauseOnExit
<1>20. CASE HandleWhilePausedOnExit(t)
  BY ZenonT(40), <1>20 DEF HandleWhilePausedOnExit, CallHandleMessages
<1>21. CASE StillPausedOnExit(t)
  BY ZenonT(40), <1>21 DEF StillPausedOnExit, TaskEnds
<1>22. CASE ResumedOnExit(t)
  BY ZenonT(40), <1>22 DEF ResumedOnExit
<1>23. CASE Stop(t)
  BY ZenonT(40), <1>23 DEF Stop, TaskEnds
<1>24. CASE EndCallback(t) \/ EndCallbackShutdown(t)
  BY ZenonT(40), <1>24 DEF EndCallback, EndCallbackShutdown
<1>25. CASE StartCallbackReturns(t)
  <2>1. ~nested'[t]
    BY Zenon, <1>25 DEF StartCallbackReturns
  <2>2. CASE CallHandleMessages(t, "after_main", paused_')
    <3>1. /\ pc'[t] = "hm" /\ ret'[t] = "after_main"
          /\ min_priority'[t] = MinPriority("after_main", paused_')
      BY Zenon, <2>2 DEF CallHandleMessages
    <3> QED
      BY ZenonT(40), <2>1, <3>1
  <2>3. CASE ok' = [ok EXCEPT ![t] = FALSE] /\ Goto(t, "after_main")
    BY ZenonT(40), <2>1, <2>3
  <2> QED
    BY Zenon, <1>25, <2>2, <2>3 DEF StartCallbackReturns
<1>26. CASE InterruptNotServed(t) \/ ReleaseQueues(t)
  BY ZenonT(40), <1>26 DEF InterruptNotServed, ReleaseQueues
<1> HIDE DEF Knows
<1> QED
  BY ZenonT(40), <1>1, <1>2, <1>3, <1>4, <1>5, <1>6, <1>7, <1>8, <1>9, <1>10, <1>11, <1>12, <1>13,
     <1>14, <1>15, <1>16, <1>17, <1>18, <1>19, <1>20, <1>21, <1>22, <1>23, <1>24, <1>25, <1>26
  DEF ThreadStep, DartReturns

(* A thread that is not in the handler knows nothing.                      *)
LEMMA KnowsOutside ==
  ASSUME NEW u \in Threads, Knows(u), ~Active(u), pc'[u] = pc[u], nested'[u] = nested[u]
  PROVE  Knows(u)'
  BY ZenonT(40) DEF Knows, InCall, Active

(* Others may only add messages, and only while nobody has the monitor.    *)
LEMMA NextKnows ==
  ASSUME TypeOK, TaskInv, LifeInv, ExitInv, LeftInv, [Next]_vars, NEW u \in Threads
  PROVE  Knows(u)'
<1> /\ pc \in [Threads -> Labels] /\ Embedder \in Threads /\ NULL \notin Threads
    /\ Knows(u) /\ MonitorInv
  BY ThreadsAssumption DEF TypeOK, Threads, LeftInv
<1>1. CASE /\ monitor_ = NULL /\ pc'[u] = pc[u]
           /\ UNCHANGED <<ret, msg, nested, paused_on_start_, paused_on_exit_>>
  <2>1. pc[u] \notin Held
    BY Zenon, <1>1 DEF MonitorInv
  <2>2. pc[u] \notin {"hm", "after_main", "after_start", "after_exit"}
    BY <2>1 DEF Held, Returns
  <2> QED
    BY ZenonT(40), <1>1, <2>2 DEF Knows, InCall
<1>2. CASE UNCHANGED <<thread, queues, paused_, flags, failed>>
  BY ZenonT(40), <1>2 DEF thread, call, queues, flags, Knows, InCall
<1>3. CASE Run
  BY ZenonT(40), <1>1, <1>3 DEF Run, thread, call, flags
<1>4. CASE Quiescent \/ UNCHANGED vars
  BY ZenonT(40), <1>2, <1>4 DEF Quiescent, vars, history
<1>5. ASSUME NEW p \in Posters, NEW k \in {"normal", "oob"}, PostMessage(p, k) PROVE Knows(u)'
  BY ZenonT(40), <1>1, <1>5 DEF PostMessage, thread, call, flags
<1>6. ASSUME NEW p \in Posters, MessageNotify(p) PROVE Knows(u)'
  BY ZenonT(40), <1>2, <1>6 DEF MessageNotify, history
<1>7. CASE HandleNextMessage
  <2>1. CASE u = Embedder
    <3>1. /\ pc[u] = "idle" /\ pc'[u] = "hm" /\ ret'[u] = "returned" /\ UNCHANGED <<nested, paused_>>
          /\ min_priority'[u] = MinPriority("returned", paused_)
      BY ZenonT(40), <1>7, <2>1 DEF HandleNextMessage, CallHandleMessages, Goto, TypeOK
    <3> QED
      BY ZenonT(40), <3>1 DEF Knows, InCall
  <2>2. CASE u # Embedder
    <3>1. u \in Workers /\ ~pool_
      BY Zenon, <1>7, <2>2 DEF Threads, HandleNextMessage
    <3>2. ~Active(u)
      BY Zenon, <3>1 DEF TaskInv, OneTaskAtATime
    <3>3. pc'[u] = pc[u] /\ nested'[u] = nested[u]
      BY ZenonT(40), <1>7, <2>2 DEF HandleNextMessage, CallHandleMessages, Goto
    <3> QED
      BY Zenon, <3>2, <3>3, KnowsOutside
  <2> QED
    BY Zenon, <2>1, <2>2
<1>8. CASE HandleNextReturns
  <2>1. pc' = [pc EXCEPT ![Embedder] = "idle"] /\ UNCHANGED nested /\ pc[Embedder] = "returned"
    BY Zenon, <1>8 DEF HandleNextReturns, Goto
  <2>2. CASE u = Embedder
    <3>1. pc'[u] = "idle" /\ ~nested'[u]
      BY <2>1, <2>2 DEF Knows
    <3> QED
      BY ZenonT(40), <3>1 DEF Knows, InCall
  <2>3. CASE u # Embedder
    <3>1. Active(Embedder)
      BY <2>1 DEF Active
    <3>2. ~Active(u)
      BY Zenon, <2>3, <3>1 DEF TaskInv, OneTaskAtATime
    <3> QED
      BY Zenon, <2>1, <2>3, <3>2, KnowsOutside
  <2> QED
    BY Zenon, <2>2, <2>3
<1>9. ASSUME NEW t \in Threads, ThreadStep(t) \/ DartReturns(t) PROVE Knows(u)'
  <2>1. CASE t = u
    <3>1. ExitsWell(u) \/ ret[u] = "returned"
      BY Zenon DEF ExitInv, Threads, TaskInv, EmbedderInv
    <3> QED
      BY Zenon, <1>9, <2>1, <3>1, KnowsSteps
  <2>2. CASE t # u
    <3>1. Knows(t)
      BY Zenon DEF LeftInv
    <3>2. ~Active(u)
      BY Zenon, <1>9, <2>2, <3>1, OneAtWork
    <3>3. pc'[u] = pc[u] /\ nested'[u] = nested[u]
      BY Zenon, <1>9, <2>2, OthersKeep
    <3> QED
      BY Zenon, <3>2, <3>3, KnowsOutside
  <2> QED
    BY Zenon, <2>1, <2>2
<1> QED
  BY ZenonT(40), <1>3, <1>4, <1>5, <1>6, <1>7, <1>8, <1>9 DEF Next

(* The steps that change task_ or pool_.                                   *)
LEMMA TaskSteps ==
  ASSUME NEW t \in Threads, ThreadStep(t) \/ DartReturns(t)
  PROVE  \/ UNCHANGED <<pool_, task_>>
         \/ StillPausedOnStart(t) \/ StillPausedOnExit(t) \/ TaskDone(t) \/ Stop(t)
<1>1. CASE \/ TaskBegin(t) \/ NoPauseOnStart(t) \/ PauseOnStart(t)
           \/ HandleWhilePausedOnStart(t) \/ ResumedOnStart(t) \/ StartCallback(t)
           \/ HandlePending(t) \/ DequeueOOB(t) \/ DequeueNormal(t) \/ DequeueNothing(t)
  BY ZenonT(40), <1>1
  DEF TaskBegin, NoPauseOnStart, PauseOnStart, HandleWhilePausedOnStart, ResumedOnStart,
      StartCallback, HandlePending, DequeueOOB, DequeueNormal, DequeueNothing
<1>2. CASE \/ HandledOOB(t) \/ HandledNormal(t) \/ StartCallbackReturns(t) \/ AcquireQueues(t)
           \/ InterruptNotServed(t) \/ ReleaseQueues(t)
  BY ZenonT(40), <1>2
  DEF HandledOOB, HandledNormal, Handled, StartCallbackReturns, AcquireQueues,
      InterruptNotServed, ReleaseQueues
<1>3. CASE \/ HandleInterrupts(t) \/ NestedHandleOOB(t) \/ NestedReturns(t)
           \/ NoPauseOnExit(t) \/ PauseOnExit(t) \/ HandleWhilePausedOnExit(t) \/ ResumedOnExit(t)
           \/ EndCallback(t) \/ EndCallbackShutdown(t)
  BY ZenonT(40), <1>3
  DEF HandleInterrupts, NestedHandleOOB, NestedReturns, NoPauseOnExit, PauseOnExit,
      HandleWhilePausedOnExit, ResumedOnExit, EndCallback, EndCallbackShutdown
<1> QED
  BY ZenonT(40), <1>1, <1>2, <1>3 DEF ThreadStep, DartReturns

(* A handler that waits without a task is left alone until a message is    *)
(* posted, which starts one; a task that ends knows what it leaves.        *)
LEMMA NextStrandInv ==
  ASSUME TypeOK, TaskInv, LifeInv, LeftInv, [Next]_vars
  PROVE  StrandInv'
<1> StrandInv /\ MonitorInv /\ Embedder \in Threads
  BY Zenon DEF LeftInv, Threads
<1>1. CASE UNCHANGED <<queues, paused_, flags, pool_, task_, failed>>
  BY ZenonT(40), <1>1 DEF StrandInv, queues, flags
<1>2. CASE task_' \/ ~pool_'
  BY Zenon, <1>2 DEF StrandInv
<1>3. CASE Run
  BY Zenon, <1>2, <1>3 DEF Run
<1>4. CASE Quiescent \/ UNCHANGED vars
  BY ZenonT(40), <1>1, <1>4 DEF Quiescent, vars, history
<1>5. ASSUME NEW p \in Posters, NEW k \in {"normal", "oob"}, PostMessage(p, k) PROVE StrandInv'
  <2>1. task_' \/ ~pool_'
    BY ZenonT(40), <1>5 DEF PostMessage, PostStartsTask
  <2> QED
    BY Zenon, <1>2, <2>1
<1>6. ASSUME NEW p \in Posters, MessageNotify(p) PROVE StrandInv'
  BY ZenonT(40), <1>1, <1>6 DEF MessageNotify, history
<1>7. CASE HandleNextMessage
  BY Zenon, <1>2, <1>7 DEF HandleNextMessage
<1>8. CASE HandleNextReturns
  BY ZenonT(40), <1>1, <1>8 DEF HandleNextReturns, history
<1>9. ASSUME NEW t \in Threads, ThreadStep(t) \/ DartReturns(t) PROVE StrandInv'
  <2>1. Knows(t) /\ ~(pool_ /\ ~task_)
    <3>1. Knows(t)
      BY Zenon DEF LeftInv
    <3> QED
      BY Zenon, <1>9, <3>1, OneAtWork
  <2>2. CASE UNCHANGED <<pool_, task_>>
    BY Zenon, <1>2, <2>1, <2>2
  <2>3. CASE StillPausedOnStart(t) \/ StillPausedOnExit(t)
    <3>1. pc[t] \in {"after_start", "after_exit"} /\ UNCHANGED <<queues, paused_, flags, failed>>
      BY ZenonT(40), <2>3 DEF StillPausedOnStart, StillPausedOnExit, history
    <3>2. (oob_queue_ = 0 \/ failed) /\ (paused_on_start_ \/ paused_on_exit_)
      BY ZenonT(40), <2>1, <3>1 DEF Knows
    <3> QED
      BY ZenonT(40), <3>1, <3>2 DEF StrandInv, queues, flags
  <2>4. CASE TaskDone(t)
    <3>1. pc[t] = "after_main" /\ ok[t] /\ UNCHANGED <<queues, paused_, flags, failed>>
      BY ZenonT(40), <2>4 DEF TaskDone, ShouldStop, history
    <3>2. oob_queue_ = 0 /\ (queue_ = 0 \/ paused_ # 0)
      BY ZenonT(40), <2>1, <3>1 DEF Knows
    <3> QED
      BY ZenonT(40), <3>1, <3>2 DEF StrandInv, queues, flags
  <2>5. CASE Stop(t)
    BY Zenon, <1>2, <2>5 DEF Stop, LeavePool
  <2>6. \/ UNCHANGED <<pool_, task_>>
        \/ StillPausedOnStart(t) \/ StillPausedOnExit(t) \/ TaskDone(t) \/ Stop(t)
    BY <1>9, TaskSteps
  <2> QED
    BY Zenon, <2>2, <2>3, <2>4, <2>5, <2>6
<1> QED
  BY ZenonT(40), <1>3, <1>4, <1>5, <1>6, <1>7, <1>8, <1>9 DEF Next

(* Events are taken only while the isolate is not paused, and nothing that *)
(* could be taken is left in the queues of a handler that has no task, for *)
(* any number of posters, pool threads, pauses and messages.               *)
THEOREM NoneIsStranded == Spec => []NothingIsStranded
<1> DEFINE IInv == TypeOK /\ TaskInv /\ LifeInv /\ ExitInv /\ LeftInv
<1>1. Init => IInv
  <2>1. Init => LifeInv /\ ExitInv
    BY ZenonT(40) DEF Init, LifeInv, ExitInv, ExitsWell, PausedAtExit, Ending, Active, Threads
  <2>2. Init => LeftInv
    <3> SUFFICES ASSUME Init PROVE LeftInv
      OBVIOUS
    <3>1. "idle" \notin Held
      BY DEF Held, Returns
    <3>2. MonitorInv /\ StrandInv
      BY ZenonT(40), <3>1 DEF Init, MonitorInv, StrandInv
    <3>3. \A t \in Threads : Knows(t)
      BY ZenonT(40) DEF Init, Knows, InCall
    <3> QED
      BY Zenon, <3>2, <3>3 DEF LeftInv
  <2> QED
    BY Zenon, <2>1, <2>2, InitTypeOK, InitTaskInv
<1>2. IInv /\ [Next]_vars => IInv'
  <2> SUFFICES ASSUME IInv, [Next]_vars PROVE IInv'
    OBVIOUS
  <2>1. TypeOK' /\ TaskInv' /\ LifeInv' /\ ExitInv'
    BY Zenon, NextTypeOK, NextTaskInv, NextLifeInv, NextExitInv
  <2>2. MonitorInv'
    BY Zenon, NextMonitorInv DEF LeftInv
  <2>3. \A u \in Threads : Knows(u)'
    BY Zenon, NextKnows
  <2>4. StrandInv'
    BY Zenon, NextStrandInv
  <2> QED
    BY Zenon, <2>1, <2>2, <2>3, <2>4 DEF LeftInv
<1>3. IInv => NothingIsStranded
  <2> SUFFICES ASSUME IInv PROVE NothingIsStranded
    OBVIOUS
  <2>1. \A t \in Threads : pc[t] = "hm" /\ min_priority[t] = "normal" => paused_ = 0
    BY DEF LeftInv, Knows, MinPriority
  <2>2. StrandInv /\ queue_ \in Nat /\ oob_queue_ \in Nat /\ paused_ \in Nat
    BY DEF LeftInv, TypeOK
  <2> QED
    BY <2>1, <2>2 DEF NothingIsStranded, StrandInv
<1> QED
  BY <1>1, <1>2, <1>3, PTL DEF Spec

=============================================================================
