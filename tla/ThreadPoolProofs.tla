--------------------------- MODULE ThreadPoolProofs ---------------------------
(***************************************************************************)
(* Proofs about ThreadPool, for any number of workers, callers and tasks.  *)
(* The argument: until Shutdown begins a worker that is told to stop was   *)
(* released, and a worker that Run hands a task to is in no list, so that  *)
(* nobody releases it; after that no call of Run gets a worker any more,   *)
(* and a worker stays alive until Shutdown has told it to stop.            *)
(***************************************************************************)
EXTENDS ThreadPool, BasicLemmas

(* Workers that have not been told to leave, those that have no task, and  *)
(* those that are over with no help of Shutdown.                           *)
Idling == {"reap", "wait", "woken", "timedout"}
Alive == {"new", "started", "run"} \cup Idling
Leaving == {"exit", "listed"}
Ended == {"released", "deleted", "gone"}

TypeOK ==
    /\ shutting_down_ \in BOOLEAN
    /\ all_workers_ \in Seq(Workers) /\ idle_workers_ \in Seq(Workers)
    /\ join_list_ \in Seq(Workers) /\ shutting_down_workers_ \in Seq(Workers)
    /\ task_ \in [Workers -> Tasks \cup {NULL}]
    /\ done_ \in [Workers -> BOOLEAN]
    /\ pc \in [Workers -> WorkerStates]
    /\ current \in [Workers -> Tasks \cup {NULL}]
    /\ reap \in [Workers -> Seq(Workers)] /\ \A w \in Workers : pc[w] = "reap" => reap[w] # << >>
    /\ call \in [Threads -> Calls \cup {NULL}]
    /\ sd \in ShutdownStates /\ saved \in Seq(Workers)
    /\ raced \in BOOLEAN

(* The lists of workers, before and during Shutdown.                       *)
ListsInv ==
    /\ IsInjective(all_workers_) /\ IsInjective(idle_workers_) /\ IsInjective(saved)
    /\ \A w \in Range(all_workers_) \cup Range(saved) : pc[w] \in Alive /\ ~done_[w]
    /\ \A w \in Range(idle_workers_) : pc[w] \in Idling /\ task_[w] = NULL
    /\ shutting_down_ <=> sd # "no"
    /\ IF shutting_down_ THEN all_workers_ = << >> /\ idle_workers_ = << >>
       ELSE /\ saved = << >> /\ ~raced
            /\ \A w \in Workers : /\ pc[w] \notin Leaving
                                  /\ done_[w] => pc[w] \in Ended

JoinInv ==
    /\ ~shutting_down_ => \A w \in Range(join_list_) : pc[w] \in Ended
    /\ \A v \in Workers : \A w \in Range(reap[v]) : pc[w] \in Ended

(* A call of Run that has its worker has it for itself.                    *)
Unasked(w) ==
    /\ task_[w] = NULL /\ w \notin Range(idle_workers_)
    /\ pc[w] \in Idling \cup (IF shutting_down_ THEN Leaving \cup Ended ELSE {})
HandedOver(c) ==
    IF c.new_worker THEN pc[c.worker] = "new" /\ (c.set <=> task_[c.worker] # NULL)
    ELSE ~c.set /\ Unasked(c.worker)
CallInv ==
    /\ \A t \in Threads : call[t] # NULL => HandedOver(call[t])
    /\ \A t, u \in Threads : call[t] # NULL /\ call[u] # NULL /\ t # u
                                => call[t].worker # call[u].worker
    /\ shutting_down_ /\ ~raced => \A t \in Threads : call[t] = NULL
    /\ \A w \in Workers : pc[w] \in {"none", "run"} => task_[w] = NULL

PoolInv == TypeOK /\ ListsInv /\ JoinInv /\ CallInv

(* Where the tasks are: in one place each.                                 *)
TaskInv ==
    /\ \A w \in Workers :
          /\ pc[w] = "run" <=> current[w] # NULL
          /\ pc[w] = "started" => task_[w] # NULL
          /\ task_[w] # NULL => raced \/ pc[w] \in Alive
    /\ \A v, w \in Workers :
          /\ task_[w] # NULL => task_[w] # current[v] /\ (v # w => task_[w] # task_[v])
          /\ current[w] # NULL /\ v # w => current[w] # current[v]
    /\ \A t \in Handing :
          /\ \A w \in Workers : call[t].task # task_[w] /\ call[t].task # current[w]
          /\ \A u \in Handing \ {t} : call[t].task # call[u].task

(* Every worker is in a list until it is over.                             *)
ExitInv ==
    /\ \A w \in Workers :
          pc[w] \in Alive \cup Leaving =>
             w \in Range(all_workers_) \cup Range(saved) \cup Range(shutting_down_workers_)
    /\ sd # "visit" => saved = << >>
    /\ sd \in {"join", "joining", "done"} => shutting_down_workers_ = << >>

-----------------------------------------------------------------------------
LEMMA TypeStep ==
    ASSUME TypeOK, Next
    PROVE  TypeOK'
  <1>. USE DEF TypeOK, pool, counts, fields, threads, shutdown
  <1>1. ASSUME NEW t \in Threads, NEW k \in Tasks, RunRejected(t, k) PROVE TypeOK'
    BY <1>1 DEF RunRejected
  <1>2. ASSUME NEW t \in Threads, NEW k \in Tasks, NEW w \in Workers, RunNewWorker(t, k, w)
        PROVE  TypeOK'
    <2>1. all_workers_' \in Seq(Workers)
      BY <1>2, ConsElements DEF RunNewWorker
    <2>2. [task |-> k, worker |-> w, new_worker |-> TRUE, set |-> FALSE] \in Calls
      BY DEF Calls
    <2>. QED  BY <1>2, <2>1, <2>2 DEF RunNewWorker, WorkerStates
  <1>3. ASSUME NEW t \in Threads, NEW k \in Tasks, RunIdleWorker(t, k) PROVE TypeOK'
    <2>1. idle_workers_' \in Seq(Workers) /\ Head(idle_workers_) \in Workers
      BY <1>3, TailElements DEF RunIdleWorker
    <2>2. [task |-> k, worker |-> Head(idle_workers_), new_worker |-> FALSE, set |-> FALSE] \in Calls
      BY <2>1 DEF Calls
    <2>. QED  BY <1>3, <2>1, <2>2 DEF RunIdleWorker
  <1>4. ASSUME NEW t \in Threads, SetTask(t) PROVE TypeOK'
    <2>1. call[t] \in Calls
      BY <1>4 DEF SetTask
    <2>2. [call[t] EXCEPT !.set = TRUE] \in Calls /\ call[t].task \in Tasks /\ call[t].worker \in Workers
      BY ZenonT(40), <2>1 DEF Calls
    <2>. QED  BY <1>4, <2>2 DEF SetTask, Notify, WorkerStates
  <1>5. ASSUME NEW t \in Threads, StartThread(t) PROVE TypeOK'
    BY ZenonT(40), <1>5 DEF StartThread, WorkerStates
  <1>6. ASSUME NEW w \in Workers, MainStart(w) \/ WakeWithTask(w) PROVE TypeOK'
    BY ZenonT(40), <1>6 DEF MainStart, WakeWithTask, TakeTask, WorkerStates
  <1>7. ASSUME NEW w \in Workers, LoopDone(w) \/ SetIdleDuringShutdown(w) PROVE TypeOK'
    BY ZenonT(40), <1>7 DEF LoopDone, SetIdleDuringShutdown, TaskFinished, WorkerStates
  <1>8. ASSUME NEW w \in Workers, SetIdleAndReapExited(w) PROVE TypeOK'
    <2>1. idle_workers_' \in Seq(Workers)
      BY <1>8, ConsElements DEF SetIdleAndReapExited
    <2>. QED  BY <1>8, <2>1 DEF SetIdleAndReapExited, TaskFinished, WorkerStates
  <1>9. ASSUME NEW w \in Workers, ReapExited(w) PROVE TypeOK'
    <2>1. Tail(reap[w]) \in Seq(Workers)
      BY <1>9, TailElements DEF ReapExited
    <2>. QED  BY ZenonT(40), <1>9, <2>1 DEF ReapExited, WorkerStates
  <1>10. ASSUME NEW w \in Workers,
                \/ WakeDone(w) \/ WaitAgain(w) \/ DeleteReleased(w) \/ ThreadEnds(w)
                \/ SpuriousWakeup(w) \/ WaitTimesOut(w)
         PROVE  TypeOK'
    BY ZenonT(40), <1>10 DEF WakeDone, WaitAgain, DeleteReleased, ThreadEnds, SpuriousWakeup, WaitTimesOut,
                 WorkerStates
  <1>11. ASSUME NEW w \in Workers, ReleaseIdleWorker(w) PROVE TypeOK'
    <2>1. PICK i \in DOMAIN idle_workers_ : idle_workers_' = RemoveAt(idle_workers_, i)
      BY <1>11 DEF ReleaseIdleWorker
    <2>2. PICK j \in DOMAIN all_workers_ :
             all_workers_' = RemoveAt(all_workers_, j) /\ done_' = [done_ EXCEPT ![w] = (j = 1)]
      BY ZenonT(40), <1>11 DEF ReleaseIdleWorker
    <2>3. idle_workers_' \in Seq(Workers) /\ all_workers_' \in Seq(Workers)
      BY <2>1, <2>2, RemoveAtElements
    <2>4. join_list_' \in Seq(Workers)
      BY <1>11, ConsElements DEF ReleaseIdleWorker
    <2>. QED  BY ZenonT(40), <1>11, <2>2, <2>3, <2>4 DEF ReleaseIdleWorker, WorkerStates
  <1>12. ASSUME NEW w \in Workers, MainListExit(w) PROVE TypeOK'
    <2>1. join_list_' \in Seq(Workers)
      BY <1>12, ConsElements DEF MainListExit
    <2>. QED  BY <1>12, <2>1 DEF MainListExit, WorkerStates
  <1>13. ASSUME NEW w \in Workers, MainDeleteWorker(w) PROVE TypeOK'
    <2>1. shutting_down_workers_' \in Seq(Workers)
      BY <1>13, RemoveFirstElements DEF MainDeleteWorker
    <2>. QED  BY <1>13, <2>1 DEF MainDeleteWorker, NotifyShutdown, WorkerStates, ShutdownStates
  <1>14. CASE ShutdownBegin
    BY <1>14 DEF ShutdownBegin, ShutdownStates
  <1>15. CASE ShutdownVisit
    <2>1. Head(saved) \in Workers /\ saved' \in Seq(Workers)
      BY <1>15, TailElements DEF ShutdownVisit
    <2>2. shutting_down_workers_' \in Seq(Workers)
      BY ZenonT(40), <1>15, <2>1, ConsElements DEF ShutdownVisit
    <2>. QED  BY Zenon, <1>15, <2>1, <2>2 DEF ShutdownVisit, Notify, WorkerStates
  <1>16. CASE ShutdownWait
    BY <1>16 DEF ShutdownWait, ShutdownStates
  <1>17. CASE ShutdownTakeJoinList
    BY <1>17 DEF ShutdownTakeJoinList, ShutdownStates
  <1>18. CASE ShutdownJoin
    BY <1>18 DEF ShutdownJoin, ShutdownStates
  <1>19. CASE ShutdownReturns
    BY <1>19 DEF ShutdownReturns, ShutdownStates
  <1>20. CASE Terminated
    BY <1>20 DEF Terminated, vars
  <1>. QED
    BY ZenonT(40), <1>1, <1>2, <1>3, <1>4, <1>5, <1>6, <1>7, <1>8, <1>9, <1>10, <1>11, <1>12, <1>13, <1>14,
       <1>15, <1>16, <1>17, <1>18, <1>19, <1>20
    DEF Next, RunStep, CallStep, WorkerStep, ShutdownStep

-----------------------------------------------------------------------------
LEMMA InLists ==
    ASSUME TypeOK
    PROVE  /\ Range(all_workers_) \subseteq Workers /\ Range(idle_workers_) \subseteq Workers
           /\ Range(saved) \subseteq Workers /\ Range(join_list_) \subseteq Workers
           /\ \A w \in Workers : Range(reap[w]) \subseteq Workers
  BY DEF TypeOK, Range

LEMMA CallFacts ==
    ASSUME TypeOK, CallInv, NEW t \in Threads, call[t] # NULL
    PROVE  /\ call[t].worker \in Workers /\ call[t].task \in Tasks
           /\ call[t].new_worker \in BOOLEAN /\ call[t].set \in BOOLEAN
           /\ HandedOver(call[t])
  <1>1. call[t] \in Calls
    BY DEF TypeOK
  <1>. QED  BY <1>1 DEF Calls, CallInv

(* What a step that changes no list may do to a worker.                    *)
LEMMA ListsKept ==
    ASSUME TypeOK, ListsInv,
           UNCHANGED <<shutting_down_, all_workers_, idle_workers_, saved, done_, raced>>,
           shutting_down_' <=> sd' # "no",
           \A w \in Workers :
              /\ pc[w] \in Alive /\ ~done_[w] => pc'[w] \in Alive
              /\ w \in Range(idle_workers_) => pc'[w] \in Idling /\ task_'[w] = NULL
              /\ ~shutting_down_ => pc'[w] \notin Leaving /\ (pc[w] \in Ended => pc'[w] \in Ended)
    PROVE  ListsInv'
  BY InLists DEF ListsInv

LEMMA ListsStep ==
    ASSUME PoolInv, Next
    PROVE  ListsInv'
  <1>. USE DEF PoolInv, pool, counts, fields, threads, shutdown
  <1>. DEFINE Goal == ListsInv'
  <1>1. ASSUME NEW t \in Threads, NEW k \in Tasks, RunRejected(t, k) PROVE Goal
    BY <1>1 DEF RunRejected, ListsInv
  <1>2. ASSUME NEW t \in Threads, NEW k \in Tasks, NEW w \in Workers, RunNewWorker(t, k, w)
        PROVE  Goal
    <2>1. w \notin Range(all_workers_)
      BY <1>2 DEF RunNewWorker, ListsInv, Alive, Idling
    <2>2. Range(all_workers_') = {w} \cup Range(all_workers_) /\ IsInjective(all_workers_')
      BY Zenon, <1>2, <2>1, ConsElements DEF RunNewWorker, TypeOK, ListsInv
    <2>3. pc' = [pc EXCEPT ![w] = "new"] /\ pc \in [Workers -> WorkerStates] /\ ~done_[w]
      BY ZenonT(40), <1>2 DEF RunNewWorker, TypeOK, ListsInv, Ended
    <2>4. UNCHANGED <<shutting_down_, idle_workers_, saved, done_, raced, sd, task_>>
      BY <1>2 DEF RunNewWorker
    <2>5. \A v \in Workers : v # w => pc'[v] = pc[v]
      BY <2>3
    <2>6. pc'[w] = "new" /\ pc[w] = "none" /\ ~shutting_down_
      BY <1>2, <2>3 DEF RunNewWorker
    <2>. QED  BY Zenon, <2>2, <2>3, <2>4, <2>5, <2>6, InLists DEF ListsInv, Alive, Idling, Leaving, Ended
  <1>3. ASSUME NEW t \in Threads, NEW k \in Tasks, RunIdleWorker(t, k) PROVE Goal
    <2>1. Range(idle_workers_') \subseteq Range(idle_workers_) /\ IsInjective(idle_workers_')
      BY <1>3, TailElements DEF RunIdleWorker, TypeOK, ListsInv
    <2>. QED  BY <1>3, <2>1 DEF RunIdleWorker, ListsInv
  <1>4. ASSUME NEW t \in Threads, SetTask(t) PROVE Goal
    <2>1. PICK w \in Workers : /\ w \notin Range(idle_workers_) /\ Notify(w)
                              /\ task_' = [task_ EXCEPT ![w] = call[t].task]
      BY ZenonT(40), <1>4, CallFacts DEF SetTask, HandedOver, Unasked, ListsInv, Idling
    <2>2. \A v \in Workers : pc'[v] = pc[v] \/ (pc[v] = "wait" /\ pc'[v] = "woken")
      BY Zenon, <2>1 DEF Notify, TypeOK
    <2>3. \A v \in Range(idle_workers_) : task_'[v] = NULL
      BY <2>1, InLists DEF ListsInv, TypeOK
    <2>4. UNCHANGED <<shutting_down_, all_workers_, idle_workers_, saved, done_, raced, sd>>
      BY Zenon, <1>4 DEF SetTask
    <2>. QED  BY <2>2, <2>3, <2>4, ListsKept DEF ListsInv, Alive, Idling, Leaving, Ended
  <1>5. ASSUME NEW t \in Threads, StartThread(t) PROVE Goal
    <2>1. PICK w \in Workers : pc[w] = "new" /\ pc' = [pc EXCEPT ![w] = "started"]
      BY ZenonT(40), <1>5, CallFacts DEF StartThread, HandedOver
    <2>2. \A v \in Workers : pc'[v] = pc[v] \/ (pc[v] = "new" /\ pc'[v] = "started")
      BY <2>1 DEF TypeOK
    <2>3. UNCHANGED <<shutting_down_, all_workers_, idle_workers_, saved, done_, raced, sd, task_>>
      BY Zenon, <1>5 DEF StartThread
    <2>. QED  BY <2>2, <2>3, ListsKept DEF ListsInv, Alive, Idling, Leaving, Ended
  <1>6. ASSUME NEW w \in Workers, MainStart(w) \/ WakeWithTask(w) PROVE Goal
    <2>1. /\ pc[w] \in {"started", "woken", "timedout"} /\ w \notin Range(idle_workers_)
          /\ pc' = [pc EXCEPT ![w] = "run"] /\ task_' = [task_ EXCEPT ![w] = NULL]
      BY <1>6 DEF MainStart, WakeWithTask, OutOfWait, TakeTask, ListsInv, Idling
    <2>2. \A v \in Workers : v # w => pc'[v] = pc[v] /\ task_'[v] = task_[v]
      BY <2>1 DEF TypeOK
    <2>3. pc'[w] = "run" /\ task_'[w] = NULL
      BY <2>1 DEF TypeOK
    <2>4. UNCHANGED <<shutting_down_, all_workers_, idle_workers_, saved, done_, raced, sd>>
      BY Zenon, <1>6 DEF MainStart, WakeWithTask
    <2>. QED  BY ZenonT(40), <2>1, <2>2, <2>3, <2>4, ListsKept DEF ListsInv, Alive, Idling, Leaving, Ended
  <1>7. ASSUME NEW w \in Workers, LoopDone(w) \/ SetIdleDuringShutdown(w) PROVE Goal
    <2>1. pc[w] = "run" /\ shutting_down_ /\ (pc'[w] = "wait" \/ done_[w])
      BY ZenonT(40), <1>7 DEF LoopDone, SetIdleDuringShutdown, TaskFinished, ListsInv, Ended, TypeOK
    <2>2. \A v \in Workers : v # w => pc'[v] = pc[v]
      BY Zenon, <1>7 DEF LoopDone, SetIdleDuringShutdown, TypeOK
    <2>3. UNCHANGED <<shutting_down_, all_workers_, idle_workers_, saved, done_, raced, sd, task_>>
      BY Zenon, <1>7 DEF LoopDone, SetIdleDuringShutdown
    <2>4. w \notin Range(idle_workers_)
      BY Zenon, <2>1 DEF ListsInv, Idling
    <2>. QED  BY <2>1, <2>2, <2>3, <2>4, ListsKept DEF ListsInv, Alive, Idling
  <1>8. ASSUME NEW w \in Workers, SetIdleAndReapExited(w) PROVE Goal
    <2>1. pc[w] = "run" /\ pc'[w] \in {"wait", "reap"} /\ task_' = task_
      BY <1>8 DEF SetIdleAndReapExited, TaskFinished, TypeOK
    <2>2. \A v \in Workers : v # w => pc'[v] = pc[v]
      BY Zenon, <1>8 DEF SetIdleAndReapExited, TypeOK
    <2>3. w \notin Range(idle_workers_)
      BY <2>1 DEF ListsInv, Idling
    <2>4. Range(idle_workers_') = {w} \cup Range(idle_workers_) /\ IsInjective(idle_workers_')
      BY ZenonT(40), <1>8, <2>3, ConsElements DEF SetIdleAndReapExited, TypeOK, ListsInv
    <2>5. task_[w] = NULL
      BY <2>1 DEF CallInv
    <2>6. UNCHANGED <<shutting_down_, all_workers_, saved, done_, raced, sd>> /\ ~shutting_down_
      BY Zenon, <1>8 DEF SetIdleAndReapExited
    <2>. QED  BY Zenon, <2>1, <2>2, <2>4, <2>5, <2>6, InLists DEF ListsInv, Alive, Idling, Leaving, Ended

  <1>9. ASSUME NEW w \in Workers,
               \/ ReapExited(w) \/ WaitAgain(w) \/ DeleteReleased(w) \/ ThreadEnds(w)
               \/ SpuriousWakeup(w) \/ WaitTimesOut(w)
        PROVE  Goal
    <2>1. \/ pc[w] \in Idling /\ pc'[w] \in Idling
          \/ pc[w] \in Ended /\ pc'[w] \in Ended
      BY Zenon, <1>9 DEF ReapExited, WaitAgain, DeleteReleased, ThreadEnds, SpuriousWakeup, WaitTimesOut,
                  OutOfWait, TypeOK, Idling, Ended
    <2>2. \A v \in Workers : v # w => pc'[v] = pc[v]
      BY Zenon, <1>9 DEF ReapExited, WaitAgain, DeleteReleased, ThreadEnds, SpuriousWakeup, WaitTimesOut,
                  TypeOK
    <2>3. UNCHANGED <<shutting_down_, all_workers_, idle_workers_, saved, done_, raced, sd, task_>>
      BY <1>9 DEF ReapExited, WaitAgain, DeleteReleased, ThreadEnds, SpuriousWakeup, WaitTimesOut
    <2>. QED  BY Zenon, <2>1, <2>2, <2>3, ListsKept DEF ListsInv, Alive, Idling, Leaving, Ended
  <1>10. ASSUME NEW w \in Workers, WakeDone(w) PROVE Goal
    <2>1. pc[w] \in Idling /\ done_[w] /\ shutting_down_
      BY ZenonT(40), <1>10 DEF WakeDone, OutOfWait, ListsInv, Idling, Ended
    <2>2. \A v \in Workers : v # w => pc'[v] = pc[v]
      BY <1>10 DEF WakeDone, TypeOK
    <2>3. UNCHANGED <<shutting_down_, all_workers_, idle_workers_, saved, done_, raced, sd, task_>>
      BY Zenon, <1>10 DEF WakeDone
    <2>4. w \notin Range(idle_workers_)
      BY Zenon, <2>1 DEF ListsInv, Range
    <2>. QED  BY ZenonT(40), <2>1, <2>2, <2>3, <2>4, ListsKept DEF ListsInv
  <1>11. ASSUME NEW w \in Workers, ReleaseIdleWorker(w) PROVE Goal
    <2>1. PICK i \in DOMAIN idle_workers_ :
             idle_workers_[i] = w /\ idle_workers_' = RemoveAt(idle_workers_, i)
      BY <1>11 DEF ReleaseIdleWorker
    <2>2. PICK j \in DOMAIN all_workers_ :
             /\ all_workers_[j] = w /\ all_workers_' = RemoveAt(all_workers_, j)
             /\ done_' = [done_ EXCEPT ![w] = (j = 1)]
      BY ZenonT(40), <1>11 DEF ReleaseIdleWorker
    <2>3. /\ Range(idle_workers_') \subseteq Range(idle_workers_) \ {w} /\ IsInjective(idle_workers_')
          /\ Range(all_workers_') \subseteq Range(all_workers_) \ {w} /\ IsInjective(all_workers_')
      <3>1. i \in 1 .. Len(idle_workers_) /\ j \in 1 .. Len(all_workers_)
        BY SMTT(60) DEF TypeOK
      <3>2. Range(idle_workers_') \subseteq Range(idle_workers_) \ {w} /\ IsInjective(idle_workers_')
        BY <2>1, <3>1, RemoveAtElements DEF TypeOK, ListsInv
      <3>3. Range(all_workers_') \subseteq Range(all_workers_) \ {w} /\ IsInjective(all_workers_')
        BY <2>2, <3>1, RemoveAtElements DEF TypeOK, ListsInv
      <3>. QED  BY <3>2, <3>3
    <2>4. /\ pc'[w] = "released"
          /\ \A v \in Workers : v # w => pc'[v] = pc[v] /\ done_'[v] = done_[v]
      BY <1>11, <2>2 DEF ReleaseIdleWorker, TypeOK
    <2>5. UNCHANGED <<shutting_down_, saved, raced, sd, task_>> /\ ~shutting_down_
      BY ZenonT(40), <1>11 DEF ReleaseIdleWorker, MayRelease
    <2>6. Range(saved) = {}
      BY SMTT(60), <2>5 DEF ListsInv, Range
    <2>. QED  BY Zenon, <2>3, <2>4, <2>5, <2>6, InLists DEF ListsInv, Leaving, Ended
  <1>12. ASSUME NEW w \in Workers, MainListExit(w) \/ MainDeleteWorker(w) PROVE Goal
    <2>1. pc[w] \in Leaving /\ shutting_down_
      BY ZenonT(40), <1>12 DEF MainListExit, MainDeleteWorker, ListsInv, Leaving
    <2>2. \A v \in Workers : v # w => pc'[v] = pc[v]
      BY Zenon, <1>12 DEF MainListExit, MainDeleteWorker, TypeOK
    <2>3. UNCHANGED <<shutting_down_, all_workers_, idle_workers_, saved, done_, raced, task_>>
      BY <1>12 DEF MainListExit, MainDeleteWorker
    <2>4. sd # "no" /\ sd' # "no"
      BY ZenonT(40), <1>12, <2>1 DEF MainListExit, MainDeleteWorker, NotifyShutdown, ListsInv
    <2>5. pc[w] \notin Alive /\ Range(idle_workers_) = {}
      BY <2>1 DEF ListsInv, Alive, Idling, Leaving, Range
    <2>6. \A v \in Workers : pc[v] \in Alive /\ ~done_[v] => pc'[v] \in Alive
      BY Zenon, <2>2, <2>5
    <2>. QED  BY Zenon, <2>1, <2>3, <2>4, <2>5, <2>6, ListsKept
  <1>13. CASE ShutdownBegin
    BY <1>13 DEF ShutdownBegin, ListsInv, Range
  <1>14. CASE ShutdownVisit
    <2>. DEFINE w == Head(saved)
    <2>1. /\ w \in Workers /\ Range(saved') \subseteq Range(saved) \ {w} /\ IsInjective(saved')
      BY SMTT(60), <1>14, TailElements DEF ShutdownVisit, TypeOK, ListsInv
    <2>2. /\ \A v \in Workers : v # w => done_'[v] = done_[v] /\ pc'[v] = pc[v]
          /\ shutting_down_
      BY <1>14, <2>1 DEF ShutdownVisit, Notify, TypeOK, ListsInv
    <2>3. UNCHANGED <<shutting_down_, all_workers_, idle_workers_, sd, task_>>
      BY Zenon, <1>14 DEF ShutdownVisit
    <2>. HIDE DEF w
    <2>. QED  BY <2>1, <2>2, <2>3, InLists DEF ListsInv, Range
  <1>15. CASE ShutdownWait \/ ShutdownTakeJoinList \/ ShutdownJoin \/ ShutdownReturns
    <2>1. sd # "no" /\ sd' # "no"
      BY Zenon, <1>15 DEF ShutdownWait, ShutdownTakeJoinList, ShutdownJoin, ShutdownReturns
    <2>2. UNCHANGED <<shutting_down_, all_workers_, idle_workers_, saved, done_, raced, task_, pc>>
      BY <1>15 DEF ShutdownWait, ShutdownTakeJoinList, ShutdownJoin, ShutdownReturns
    <2>. QED  BY Zenon, <2>1, <2>2 DEF ListsInv
  <1>16. CASE Terminated
    BY ZenonT(40), <1>16 DEF Terminated, vars, ListsInv
  <1>. QED
    BY Zenon, <1>1, <1>2, <1>3, <1>4, <1>5, <1>6, <1>7, <1>8, <1>9, <1>10, <1>11, <1>12, <1>13, <1>14,
       <1>15, <1>16
    DEF Next, RunStep, CallStep, WorkerStep, ShutdownStep


-----------------------------------------------------------------------------
(* A worker that has ended stays so.                                       *)
LEMMA EndedForGood ==
    ASSUME PoolInv, Next
    PROVE  \A w \in Workers : pc[w] \in Ended => pc'[w] \in Ended
  <1>. SUFFICES ASSUME NEW v \in Workers, pc[v] \in Ended PROVE pc'[v] \in Ended
    BY Zenon
  <1>. USE DEF PoolInv, pool, counts, fields, threads, shutdown, TypeOK, Ended
  <1>1. ASSUME NEW t \in Threads, RunStep(t) PROVE pc'[v] \in Ended
    BY Zenon, <1>1 DEF RunStep, RunRejected, RunNewWorker, RunIdleWorker
  <1>2. ASSUME NEW t \in Threads, SetTask(t) PROVE pc'[v] \in Ended
    <2>1. Notify(call[t].worker) /\ call[t].worker \in Workers
      BY <1>2, CallFacts DEF SetTask
    <2>. QED  BY <2>1 DEF Notify
  <1>3. ASSUME NEW t \in Threads, StartThread(t) PROVE pc'[v] \in Ended
    <2>1. PICK w \in Workers : pc[w] = "new" /\ pc' = [pc EXCEPT ![w] = "started"]
      BY ZenonT(40), <1>3, CallFacts DEF StartThread, HandedOver
    <2>. QED  BY <2>1
  <1>4. ASSUME NEW w \in Workers, MainStart(w) \/ WakeWithTask(w) PROVE pc'[v] \in Ended
    BY Zenon, <1>4 DEF MainStart, WakeWithTask, OutOfWait, TakeTask
  <1>5. ASSUME NEW w \in Workers, LoopDone(w) \/ SetIdleAndReapExited(w) \/ SetIdleDuringShutdown(w)
        PROVE  pc'[v] \in Ended
    BY Zenon, <1>5 DEF LoopDone, SetIdleAndReapExited, SetIdleDuringShutdown, TaskFinished
  <1>6. ASSUME NEW w \in Workers,
               ReapExited(w) \/ WakeDone(w) \/ WaitAgain(w) \/ SpuriousWakeup(w) \/ WaitTimesOut(w)
        PROVE  pc'[v] \in Ended
    BY Zenon, <1>6 DEF ReapExited, WakeDone, WaitAgain, OutOfWait, SpuriousWakeup, WaitTimesOut
  <1>7. ASSUME NEW w \in Workers,
               \/ ReleaseIdleWorker(w) \/ DeleteReleased(w)
               \/ MainListExit(w) \/ MainDeleteWorker(w) \/ ThreadEnds(w)
        PROVE  pc'[v] \in Ended
    BY <1>7 DEF ReleaseIdleWorker, OutOfWait, DeleteReleased, MainListExit, MainDeleteWorker,
                ThreadEnds
  <1>8. CASE ShutdownVisit
    <2>1. Notify(Head(saved)) /\ Head(saved) \in Workers
      BY <1>8, TailElements DEF ShutdownVisit
    <2>. QED  BY Zenon, <2>1 DEF Notify
  <1>9. CASE \/ ShutdownBegin \/ ShutdownWait \/ ShutdownTakeJoinList \/ ShutdownJoin
             \/ ShutdownReturns \/ Terminated
    BY ZenonT(40), <1>9 DEF ShutdownBegin, ShutdownWait, ShutdownTakeJoinList, ShutdownJoin, ShutdownReturns,
                Terminated, vars
  <1>. QED  BY Zenon, <1>1, <1>2, <1>3, <1>4, <1>5, <1>6, <1>7, <1>8, <1>9
            DEF Next, CallStep, WorkerStep, ShutdownStep

LEMMA JoinStep ==
    ASSUME PoolInv, Next
    PROVE  JoinInv'
  <1>1. \A w \in Workers : pc[w] \in Ended => pc'[w] \in Ended
    BY Zenon, EndedForGood
  <1>2. CASE UNCHANGED <<shutting_down_, join_list_, reap>>
    BY Zenon, <1>1, <1>2, InLists DEF PoolInv, JoinInv
  <1>. USE DEF PoolInv, pool, counts, fields, threads, shutdown
  <1>3. ASSUME NEW w \in Workers, SetIdleAndReapExited(w) PROVE JoinInv'
    <2>1. /\ ~shutting_down_ /\ shutting_down_' = shutting_down_
          /\ reap' = [reap EXCEPT ![w] = join_list_] /\ join_list_' = << >>
      BY <1>3 DEF SetIdleAndReapExited
    <2>2. \A v \in Workers : reap'[v] = reap[v] \/ reap'[v] = join_list_
      BY <2>1 DEF TypeOK
    <2>3. Range(join_list_') = {}
      BY <2>1 DEF Range
    <2>. QED  BY Zenon, <1>1, <2>1, <2>2, <2>3, InLists DEF JoinInv
  <1>4. ASSUME NEW w \in Workers, ReapExited(w) PROVE JoinInv'
    <2>1. Range(reap'[w]) \subseteq Range(reap[w])
      <3>1. reap'[w] = Tail(reap[w]) /\ reap[w] \in Seq(Workers) /\ reap[w] # << >>
        BY Zenon, <1>4 DEF ReapExited, TypeOK
      <3>. QED  BY Zenon, <3>1, TailElements
    <2>2. \A v \in Workers : v # w => reap'[v] = reap[v]
      BY <1>4 DEF ReapExited, TypeOK
    <2>3. \A v \in Workers : Range(reap'[v]) \subseteq Range(reap[v])
      BY <2>1, <2>2
    <2>4. UNCHANGED <<shutting_down_, join_list_>>
      BY Zenon, <1>4 DEF ReapExited
    <2>. QED  BY <1>1, <2>3, <2>4, InLists DEF JoinInv
  <1>5. ASSUME NEW w \in Workers, ReleaseIdleWorker(w) \/ MainListExit(w) PROVE JoinInv'
    <2>1. join_list_' = Cons(w, join_list_) /\ UNCHANGED <<shutting_down_, reap>>
      BY <1>5 DEF ReleaseIdleWorker, MainListExit
    <2>2. Range(join_list_') = {w} \cup Range(join_list_)
      BY ZenonT(40), <2>1, ConsElements DEF TypeOK
    <2>3. shutting_down_ \/ pc'[w] \in Ended
      BY Zenon, <1>5 DEF ReleaseIdleWorker, MainListExit, ListsInv, Leaving, Ended, TypeOK
    <2>. QED  BY Zenon, <1>1, <2>1, <2>2, <2>3, InLists DEF JoinInv
  <1>6. CASE ShutdownBegin \/ ShutdownTakeJoinList
    <2>1. shutting_down_' /\ reap' = reap
      BY ZenonT(40), <1>6 DEF ShutdownBegin, ShutdownTakeJoinList, ListsInv
    <2>. QED  BY <1>1, <2>1, InLists DEF JoinInv
  <1>7. ASSUME NEW t \in Threads, RunStep(t) \/ CallStep(t) PROVE JoinInv'
    BY <1>2, <1>7 DEF RunStep, CallStep, RunRejected, RunNewWorker, RunIdleWorker, SetTask, StartThread
  <1>8. ASSUME NEW w \in Workers,
               \/ MainStart(w) \/ LoopDone(w) \/ SetIdleDuringShutdown(w) \/ WakeWithTask(w)
               \/ WakeDone(w) \/ WaitAgain(w) \/ DeleteReleased(w) \/ MainDeleteWorker(w)
               \/ ThreadEnds(w) \/ SpuriousWakeup(w) \/ WaitTimesOut(w)
        PROVE  JoinInv'
    BY ZenonT(40), <1>2, <1>8 DEF MainStart, LoopDone, SetIdleDuringShutdown, WakeWithTask, WakeDone, WaitAgain,
                DeleteReleased, MainDeleteWorker, ThreadEnds, SpuriousWakeup, WaitTimesOut
  <1>9. CASE ShutdownVisit \/ ShutdownWait \/ ShutdownJoin \/ ShutdownReturns \/ Terminated
    BY <1>2, <1>9 DEF ShutdownVisit, ShutdownWait, ShutdownJoin, ShutdownReturns, Terminated, vars
  <1>. QED  BY Zenon, <1>3, <1>4, <1>5, <1>6, <1>7, <1>8, <1>9 DEF Next, WorkerStep, ShutdownStep


-----------------------------------------------------------------------------
(* What a step that leaves the calls of Run alone may do to a worker.      *)
LEMMA CallsKept ==
    ASSUME TypeOK, CallInv, UNCHANGED <<shutting_down_, call, raced>>,
           \A w \in Workers :
              /\ pc[w] = "new" => pc'[w] = "new" /\ task_'[w] = task_[w]
              /\ Unasked(w) => Unasked(w)'
              /\ pc'[w] \in {"none", "run"} => task_'[w] = NULL
    PROVE  CallInv'
  <1>1. ASSUME NEW t \in Threads, call[t] # NULL PROVE HandedOver(call[t])'
    <2>1. HandedOver(call[t]) /\ call[t].worker \in Workers
      BY <1>1, CallFacts
    <2>2. call'[t] = call[t]
      OBVIOUS
    <2>. QED  BY ZenonT(40), <2>1, <2>2 DEF HandedOver
  <1>2. \A t \in Threads : call'[t] # NULL => HandedOver(call[t])'
    BY Zenon, <1>1
  <1>. QED  BY ZenonT(40), <1>2 DEF CallInv

LEMMA CallsStep ==
    ASSUME PoolInv, Next
    PROVE  CallInv'
  <1>. USE DEF PoolInv, pool, counts, fields, threads, shutdown
  <1>1. ASSUME NEW t \in Threads, NEW k \in Tasks, RunRejected(t, k) PROVE CallInv'
    BY ZenonT(40), <1>1, CallsKept DEF RunRejected, CallInv, Unasked
  <1>2. ASSUME NEW w \in Workers,
               \/ ReapExited(w) \/ WaitAgain(w) \/ DeleteReleased(w) \/ ThreadEnds(w)
               \/ SpuriousWakeup(w) \/ WaitTimesOut(w)
        PROVE  CallInv'
    <2>1. UNCHANGED <<shutting_down_, call, raced, task_, idle_workers_>>
      BY ZenonT(40), <1>2 DEF ReapExited, WaitAgain, DeleteReleased, ThreadEnds, SpuriousWakeup, WaitTimesOut
    <2>2. \A v \in Workers : v # w => pc'[v] = pc[v]
      BY <1>2 DEF ReapExited, WaitAgain, DeleteReleased, ThreadEnds, SpuriousWakeup, WaitTimesOut,
                  TypeOK
    <2>3. \/ pc[w] \in Idling /\ pc'[w] \in Idling
          \/ pc[w] \in Ended /\ pc'[w] \in Ended
      BY <1>2 DEF ReapExited, WaitAgain, DeleteReleased, ThreadEnds, SpuriousWakeup, WaitTimesOut,
                  OutOfWait, TypeOK, Idling, Ended
    <2>4. \A v \in Workers : /\ pc[v] = "new" => pc'[v] = "new"
                             /\ Unasked(v) => Unasked(v)'
                             /\ pc'[v] \in {"none", "run"} => pc[v] = pc'[v]
      BY ZenonT(40), <2>1, <2>2, <2>3 DEF Unasked, Idling, Leaving, Ended
    <2>. QED  BY ZenonT(40), <2>1, <2>4, CallsKept DEF CallInv
  <1>3. ASSUME NEW w \in Workers, WakeDone(w) \/ MainListExit(w) \/ MainDeleteWorker(w)
        PROVE  CallInv'
    <2>1. UNCHANGED <<shutting_down_, call, raced, task_, idle_workers_>>
      BY Zenon, <1>3 DEF WakeDone, MainListExit, MainDeleteWorker
    <2>2. \A v \in Workers : v # w => pc'[v] = pc[v]
      BY <1>3 DEF WakeDone, MainListExit, MainDeleteWorker, TypeOK
    <2>3. shutting_down_ /\ pc[w] # "new" /\ pc'[w] \in Leaving \cup Ended
      BY ZenonT(40), <1>3 DEF WakeDone, OutOfWait, MainListExit, MainDeleteWorker, TypeOK, ListsInv, Leaving, Ended
    <2>4. \A v \in Workers : /\ pc[v] = "new" => pc'[v] = "new"
                             /\ Unasked(v) => Unasked(v)'
                             /\ pc'[v] \in {"none", "run"} => pc[v] = pc'[v]
      BY ZenonT(40), <2>1, <2>2, <2>3 DEF Unasked, Leaving, Ended
    <2>. QED  BY ZenonT(40), <2>1, <2>4, CallsKept DEF CallInv
  <1>4. ASSUME NEW w \in Workers, MainStart(w) \/ WakeWithTask(w) PROVE CallInv'
    <2>1. /\ UNCHANGED <<shutting_down_, call, raced, idle_workers_>>
          /\ task_' = [task_ EXCEPT ![w] = NULL] /\ pc' = [pc EXCEPT ![w] = "run"]
      BY ZenonT(40), <1>4 DEF MainStart, WakeWithTask, TakeTask
    <2>2. pc[w] \in {"started", "woken", "timedout"} /\ ~Unasked(w)
      BY ZenonT(40), <1>4 DEF MainStart, WakeWithTask, OutOfWait, Unasked, Idling, Leaving, Ended
    <2>3. \A v \in Workers : v # w => pc'[v] = pc[v] /\ task_'[v] = task_[v]
      BY Zenon, <2>1 DEF TypeOK
    <2>4. task_'[w] = NULL
      BY <2>1 DEF TypeOK
    <2>. QED  BY <2>1, <2>2, <2>3, <2>4, CallsKept DEF CallInv, Unasked
  <1>5. ASSUME NEW w \in Workers, LoopDone(w) \/ SetIdleDuringShutdown(w) \/ SetIdleAndReapExited(w)
        PROVE  CallInv'
    <2>1. UNCHANGED <<shutting_down_, call, raced, task_>>
      BY ZenonT(40), <1>5 DEF LoopDone, SetIdleDuringShutdown, SetIdleAndReapExited
    <2>2. \A v \in Workers : v # w => pc'[v] = pc[v]
      BY Zenon, <1>5 DEF LoopDone, SetIdleDuringShutdown, SetIdleAndReapExited, TypeOK
    <2>3. pc[w] = "run" /\ pc'[w] \notin {"none", "run"}
      BY Zenon, <1>5 DEF LoopDone, SetIdleDuringShutdown, SetIdleAndReapExited, TaskFinished, TypeOK
    <2>4. Range(idle_workers_') \subseteq {w} \cup Range(idle_workers_)
      BY ZenonT(40), <1>5, ConsElements DEF LoopDone, SetIdleDuringShutdown, SetIdleAndReapExited, TypeOK
    <2>5. \A v \in Workers : /\ pc[v] = "new" => pc'[v] = "new"
                             /\ Unasked(v) => Unasked(v)'
                             /\ pc'[v] \in {"none", "run"} => pc[v] = pc'[v]
      BY ZenonT(40), <2>1, <2>2, <2>3, <2>4 DEF Unasked, Idling, Leaving, Ended
    <2>. QED  BY ZenonT(40), <2>1, <2>5, CallsKept DEF CallInv
  <1>6. ASSUME NEW w \in Workers, ReleaseIdleWorker(w) PROVE CallInv'
    <2>1. UNCHANGED <<shutting_down_, call, raced, task_>>
      BY ZenonT(40), <1>6 DEF ReleaseIdleWorker
    <2>2. \A v \in Workers : v # w => pc'[v] = pc[v]
      BY <1>6 DEF ReleaseIdleWorker, TypeOK
    <2>3. pc[w] = "timedout" /\ pc'[w] = "released" /\ w \in Range(idle_workers_)
      BY ZenonT(40), <1>6 DEF ReleaseIdleWorker, MayRelease, TypeOK, Range
    <2>4. Range(idle_workers_') \subseteq Range(idle_workers_)
      <3>1. PICK i \in 1 .. Len(idle_workers_) : idle_workers_' = RemoveAt(idle_workers_, i)
        BY SMTT(60), <1>6 DEF ReleaseIdleWorker, TypeOK
      <3>. QED  BY Zenon, <3>1, RemoveAtElements DEF TypeOK
    <2>5. \A v \in Workers : /\ pc[v] = "new" => pc'[v] = "new"
                             /\ Unasked(v) => Unasked(v)'
                             /\ pc'[v] \in {"none", "run"} => pc[v] = pc'[v]
      BY ZenonT(40), <2>1, <2>2, <2>3, <2>4 DEF Unasked
    <2>. QED  BY ZenonT(40), <2>1, <2>5, CallsKept DEF CallInv

  <1>7. ASSUME NEW t \in Threads, NEW k \in Tasks, NEW w \in Workers, RunNewWorker(t, k, w)
        PROVE  CallInv'
    <2>1. /\ UNCHANGED <<shutting_down_, raced, task_, idle_workers_>> /\ ~shutting_down_
          /\ pc' = [pc EXCEPT ![w] = "new"] /\ pc[w] = "none"
      BY Zenon, <1>7 DEF RunNewWorker
    <2>2. \A v \in Workers : v # w => pc'[v] = pc[v]
      BY Zenon, <2>1 DEF TypeOK
    <2>3. pc'[w] = "new" /\ task_[w] = NULL
      BY Zenon, <2>1 DEF TypeOK, CallInv
    <2>4. call' = [call EXCEPT ![t] = [task |-> k, worker |-> w, new_worker |-> TRUE, set |-> FALSE]]
      BY Zenon, <1>7 DEF RunNewWorker
    <2>5. call'[t].worker = w /\ call'[t].new_worker /\ ~call'[t].set
      BY Zenon, <2>4 DEF TypeOK
    <2>6. \A u \in Threads : u # t => call'[u] = call[u]
      BY <2>4 DEF TypeOK
    <2>7. ASSUME NEW u \in Threads, u # t, call[u] # NULL
          PROVE  HandedOver(call[u])' /\ call[u].worker # w
      <3>1. HandedOver(call[u]) /\ call[u].worker \in Workers
        BY <2>7, CallFacts
      <3>2. call[u].worker # w
        BY ZenonT(40), <2>1, <3>1 DEF HandedOver, Unasked, Idling
      <3>. QED  BY ZenonT(40), <2>1, <2>2, <2>6, <2>7, <3>1, <3>2 DEF HandedOver, Unasked
    <2>8. HandedOver(call[t])'
      BY <2>1, <2>3, <2>5 DEF HandedOver
    <2>9. \A u \in Threads : call'[u] # NULL => HandedOver(call[u])'
      BY Zenon, <2>6, <2>7, <2>8
    <2>10. \A u, v \in Threads : call'[u] # NULL /\ call'[v] # NULL /\ u # v
                                    => call'[u].worker # call'[v].worker
      <3>1. \A u, v \in Threads : call[u] # NULL /\ call[v] # NULL /\ u # v
                                     => call[u].worker # call[v].worker
        BY Zenon DEF CallInv
      <3>. QED  BY ZenonT(40), <2>5, <2>6, <2>7, <3>1
    <2>11. \A v \in Workers : pc'[v] \in {"none", "run"} => task_'[v] = NULL
      BY Zenon, <2>1, <2>2, <2>3 DEF CallInv
    <2>. QED  BY Zenon, <2>1, <2>9, <2>10, <2>11 DEF CallInv
  <1>8. ASSUME NEW t \in Threads, NEW k \in Tasks, RunIdleWorker(t, k) PROVE CallInv'
    <2>1. PICK w \in Workers :
             /\ w \in Range(idle_workers_) /\ Range(idle_workers_') \subseteq Range(idle_workers_) \ {w}
             /\ call' = [call EXCEPT ![t] = [task |-> k, worker |-> w, new_worker |-> FALSE,
                                             set |-> FALSE]]
      <3>1. /\ Head(idle_workers_) \in Workers /\ Head(idle_workers_) \in Range(idle_workers_)
            /\ Range(idle_workers_') \subseteq Range(idle_workers_) \ {Head(idle_workers_)}
        <4>1. /\ idle_workers_ \in Seq(Workers) /\ IsInjective(idle_workers_)
              /\ idle_workers_ # << >> /\ idle_workers_' = Tail(idle_workers_)
          BY Zenon, <1>8 DEF RunIdleWorker, TypeOK, ListsInv
        <4>2. /\ Head(idle_workers_) \in Workers
              /\ Range(idle_workers_) = {Head(idle_workers_)} \cup Range(Tail(idle_workers_))
              /\ Head(idle_workers_) \notin Range(Tail(idle_workers_))
          BY Zenon, <4>1, TailElements
        <4>. QED  BY Zenon, <4>1, <4>2
      <3>2. call' = [call EXCEPT ![t] = [task |-> k, worker |-> Head(idle_workers_),
                                         new_worker |-> FALSE, set |-> FALSE]]
        BY ZenonT(40), <1>8 DEF RunIdleWorker
      <3>. QED  BY ZenonT(40), <3>1, <3>2
    <2>2. UNCHANGED <<shutting_down_, raced, task_, pc>> /\ ~shutting_down_
      BY Zenon, <1>8 DEF RunIdleWorker
    <2>3. call'[t].worker = w /\ ~call'[t].new_worker /\ ~call'[t].set
      BY Zenon, <2>1 DEF TypeOK
    <2>4. \A u \in Threads : u # t => call'[u] = call[u]
      BY <2>1 DEF TypeOK
    <2>5. pc[w] \in Idling /\ Unasked(w)'
      BY ZenonT(40), <2>1, <2>2 DEF ListsInv, Unasked
    <2>6. ASSUME NEW u \in Threads, u # t, call[u] # NULL
          PROVE  HandedOver(call[u])' /\ call[u].worker # w
      <3>1. HandedOver(call[u]) /\ call[u].worker \in Workers
        BY <2>6, CallFacts
      <3>2. call[u].worker # w
        BY ZenonT(40), <2>1, <2>5, <3>1 DEF HandedOver, Unasked, Idling
      <3>. QED  BY ZenonT(40), <2>1, <2>2, <2>4, <2>6, <3>1, <3>2 DEF HandedOver, Unasked
    <2>7. HandedOver(call[t])'
      BY ZenonT(40), <2>3, <2>5 DEF HandedOver
    <2>. QED  BY ZenonT(40), <2>2, <2>3, <2>4, <2>6, <2>7 DEF CallInv
  <1>9. ASSUME NEW t \in Threads, SetTask(t) \/ StartThread(t) PROVE CallInv'
    <2>1. call[t] # NULL /\ UNCHANGED <<shutting_down_, raced, idle_workers_>>
      BY Zenon, <1>9 DEF SetTask, StartThread
    <2>2. PICK w \in Workers : w = call[t].worker
      BY Zenon, <2>1, CallFacts
    <2>3. HandedOver(call[t]) /\ call[t].task # NULL
      BY Zenon, <2>1, CallFacts, NullAssumption
    <2>4. \A v \in Workers : v # w => pc'[v] = pc[v] /\ task_'[v] = task_[v]
      BY <1>9, <2>2 DEF SetTask, Notify, StartThread, TypeOK
    <2>5. \A u \in Threads : u # t => call'[u] = call[u]
      BY <1>9 DEF SetTask, StartThread, TypeOK
    <2>6. ASSUME NEW u \in Threads, u # t, call[u] # NULL
          PROVE  HandedOver(call[u])' /\ call[u].worker # w
      <3>1. HandedOver(call[u]) /\ call[u].worker \in Workers
        BY <2>6, CallFacts
      <3>2. call[u].worker # w
        BY ZenonT(40), <2>1, <2>2, <2>6 DEF CallInv
      <3>. QED  BY ZenonT(40), <2>1, <2>4, <2>5, <2>6, <3>1, <3>2 DEF HandedOver, Unasked
    <2>7. pc'[w] \notin {"none", "run"}
      BY <1>9, <2>2, <2>3 DEF SetTask, Notify, StartThread, HandedOver, Unasked, TypeOK,
                              Idling, Leaving, Ended
    <2>8. call'[t] # NULL => HandedOver(call[t])' /\ call'[t].worker = w
      <3>1. CASE StartThread(t)
        BY <3>1 DEF StartThread, TypeOK
      <3>2. CASE SetTask(t) /\ ~call[t].new_worker
        BY Zenon, <3>2 DEF SetTask, TypeOK
      <3>3. CASE SetTask(t) /\ call[t].new_worker
        <4>1. call'[t] = [call[t] EXCEPT !.set = TRUE] /\ call[t] \in Calls
          BY <2>1, <3>3 DEF SetTask, TypeOK
        <4>2. call'[t].worker = w /\ call'[t].new_worker /\ call'[t].set
          BY Zenon, <2>2, <3>3, <4>1 DEF Calls
        <4>3. pc[w] = "new" /\ pc' = pc /\ task_'[w] # NULL
          BY Zenon, <2>2, <2>3, <3>3 DEF HandedOver, SetTask, Notify, TypeOK
        <4>. QED  BY <4>2, <4>3 DEF HandedOver
      <3>. QED  BY Zenon, <1>9, <3>1, <3>2, <3>3
    <2>9. \A u \in Threads : call'[u] # NULL => HandedOver(call[u])'
      BY Zenon, <2>5, <2>6, <2>8
    <2>10. \A u, v \in Threads : call'[u] # NULL /\ call'[v] # NULL /\ u # v
                                    => call'[u].worker # call'[v].worker
      BY ZenonT(40), <2>5, <2>6, <2>8 DEF CallInv
    <2>11. \A v \in Workers : pc'[v] \in {"none", "run"} => task_'[v] = NULL
      BY Zenon, <2>4, <2>7 DEF CallInv
    <2>. QED  BY Zenon, <2>1, <2>9, <2>10, <2>11 DEF CallInv
  <1>10. CASE ShutdownBegin
    <2>1. /\ shutting_down_' /\ UNCHANGED <<call, task_, pc>> /\ idle_workers_' = << >>
          /\ raced' = \E t \in Threads : call[t] # NULL
      BY Zenon, <1>10 DEF ShutdownBegin
    <2>2. \A w \in Workers : Unasked(w) => Unasked(w)'
      BY SMTT(60), <2>1 DEF Unasked, Range
    <2>3. ASSUME NEW t \in Threads, call[t] # NULL PROVE HandedOver(call[t])'
      BY Zenon, <2>1, <2>2, <2>3, CallFacts DEF HandedOver
    <2>. QED  BY Zenon, <2>1, <2>3 DEF CallInv
  <1>11. CASE ShutdownVisit
    <2>1. PICK w \in Workers : Notify(w)
      BY Zenon, <1>11, TailElements DEF ShutdownVisit, TypeOK
    <2>2. \A v \in Workers : pc'[v] = pc[v] \/ (pc[v] = "wait" /\ pc'[v] = "woken")
      BY Zenon, <2>1 DEF Notify, TypeOK
    <2>3. UNCHANGED <<shutting_down_, call, raced, task_, idle_workers_>>
      BY <1>11 DEF ShutdownVisit
    <2>4. \A v \in Workers : /\ pc[v] = "new" => pc'[v] = "new"
                             /\ Unasked(v) => Unasked(v)'
                             /\ pc'[v] \in {"none", "run"} => pc[v] = pc'[v]
      BY ZenonT(40), <2>2, <2>3 DEF Unasked, Idling
    <2>. QED  BY ZenonT(40), <2>3, <2>4, CallsKept DEF CallInv
  <1>12. CASE ShutdownWait \/ ShutdownTakeJoinList \/ ShutdownJoin \/ ShutdownReturns \/ Terminated
    <2>1. UNCHANGED <<shutting_down_, call, raced, task_, idle_workers_, pc>>
      BY <1>12 DEF ShutdownWait, ShutdownTakeJoinList, ShutdownJoin, ShutdownReturns, Terminated, vars
    <2>. QED  BY ZenonT(40), <2>1, CallsKept DEF CallInv, Unasked
  <1>. QED  BY Zenon, <1>1, <1>2, <1>3, <1>4, <1>5, <1>6, <1>7, <1>8, <1>9, <1>10, <1>11, <1>12
            DEF Next, RunStep, CallStep, WorkerStep, ShutdownStep


-----------------------------------------------------------------------------
LEMMA PoolInit ==
    ASSUME Init
    PROVE  PoolInv
  <1>1. TypeOK
    <2>1. << >> \in Seq(Workers)
      OBVIOUS
    <2>2. \A w \in Workers : pc[w] = "none"
      BY Zenon DEF Init
    <2>. QED  BY ZenonT(40), <2>1, <2>2 DEF Init, TypeOK, WorkerStates, ShutdownStates
  <1>2. ListsInv
    <2>1. Range(<< >>) = {} /\ IsInjective(<< >>)
      BY DEF Range, IsInjective
    <2>. QED  BY <2>1 DEF Init, ListsInv, Leaving
  <1>3. JoinInv
    BY DEF Init, JoinInv, Range
  <1>4. CallInv
    BY DEF Init, CallInv
  <1>. QED  BY <1>1, <1>2, <1>3, <1>4 DEF PoolInv

LEMMA PoolStep ==
    ASSUME PoolInv, [Next]_vars
    PROVE  PoolInv'
  <1>1. CASE Next
    BY <1>1, TypeStep, ListsStep, JoinStep, CallsStep DEF PoolInv
  <1>2. CASE UNCHANGED vars
    <2>1. UNCHANGED <<shutting_down_, all_workers_, idle_workers_, join_list_, shutting_down_workers_,
                      task_, done_, pc, current, reap, call, sd, saved, raced>>
      BY Zenon, <1>2 DEF vars, pool, fields, threads, shutdown
    <2>2. TypeOK' /\ ListsInv' /\ JoinInv'
      BY <2>1 DEF PoolInv, TypeOK, ListsInv, JoinInv
    <2>3. CallInv'
      BY ZenonT(40), <2>1, CallsKept DEF PoolInv, CallInv, Unasked
    <2>. QED  BY Zenon, <2>2, <2>3 DEF PoolInv
  <1>. QED  BY <1>1, <1>2

(* The pool's lists, and the calls of Run in progress, are what PoolInv    *)
(* says in every state.                                                    *)
THEOREM PoolInvariant == Spec => []PoolInv
  BY PoolInit, PoolStep, PTL DEF Spec

(* Whatever the workers, callers and Shutdown do, a worker that joins      *)
(* exited threads while it holds its monitor_ joins only threads that      *)
(* need no lock any more (SetIdleAndReapExited, thread_pool.cc).           *)
THEOREM JoiningIsSafe == Spec => []ReapedThreadsNeedNoLock
  <1>1. PoolInv => ReapedThreadsNeedNoLock
    BY DEF PoolInv, JoinInv, TypeOK, ReapedThreadsNeedNoLock, Range, Ended
  <1>. QED  BY <1>1, PoolInvariant, PTL

(* Run hands tasks only to workers that exist, unless Shutdown began in    *)
(* the middle of the call, and Shutdown visits only such workers.          *)
THEOREM WorkersOutliveTheirUse == Spec => []WorkersInUseAreAlive
  <1>1. ASSUME PoolInv PROVE WorkersInUseAreAlive
    <2>. USE <1>1 DEF PoolInv
    <2>1. ASSUME ~raced, NEW t \in Threads, call[t] # NULL, ~call[t].set
          PROVE  ~Freed(call[t].worker)
      <3>1. ~shutting_down_
        BY Zenon, <2>1 DEF CallInv, TypeOK
      <3>2. HandedOver(call[t])
        BY Zenon, <2>1, CallFacts
      <3>. QED  BY Zenon, <3>1, <3>2 DEF HandedOver, Unasked, Freed, Idling
    <2>2. \A i \in DOMAIN saved :
             ~Freed(saved[i]) /\ pc[saved[i]] \notin {"released", "exit", "listed"}
      BY DEF ListsInv, Range, Alive, Idling, Freed
    <2>. QED  BY Zenon, <2>1, <2>2 DEF WorkersInUseAreAlive, HandoverWorkerIsAlive, Handing
  <1>. QED  BY <1>1, PoolInvariant, PTL


-----------------------------------------------------------------------------
(* Run takes a new task: it is nowhere else.                               *)
LEMMA CallBegins ==
    ASSUME TypeOK, NEW t \in Threads, NEW k \in Tasks,
           RunIdleWorker(t, k) \/ \E w \in Workers : RunNewWorker(t, k, w)
    PROVE  /\ UNCHANGED <<task_, current, deleted, raced, shutting_down_, sd>> /\ ~shutting_down_
           /\ call[t] = NULL /\ call'[t] # NULL /\ ~call'[t].set /\ call'[t].task = k
           /\ \A u \in Threads : u # t => call'[u] = call[u]
           /\ Handing' = Handing \cup {t}
           /\ k \notin Held \cup deleted
           /\ \A v \in Workers : pc'[v] = pc[v] \/ (pc[v] = "none" /\ pc'[v] = "new")
  <1>. USE DEF pool, counts, fields, threads, shutdown
  <1>1. PICK v \in Workers, b \in BOOLEAN :
           call' = [call EXCEPT ![t] = [task |-> k, worker |-> v, new_worker |-> b, set |-> FALSE]]
    <2>1. CASE RunIdleWorker(t, k)
      <3>1. Head(idle_workers_) \in Workers
        BY ZenonT(40), <2>1, TailElements DEF RunIdleWorker, TypeOK
      <3>. QED  BY ZenonT(40), <2>1, <3>1 DEF RunIdleWorker
    <2>2. CASE \E w \in Workers : RunNewWorker(t, k, w)
      BY ZenonT(40), <2>2 DEF RunNewWorker
    <2>. QED  BY <2>1, <2>2
  <1>. DEFINE c == [task |-> k, worker |-> v, new_worker |-> b, set |-> FALSE]
  <1>2. c \in Calls /\ c.task = k /\ ~c.set
    BY Zenon DEF Calls
  <1>. HIDE DEF c
  <1>3. call'[t] = c /\ \A u \in Threads : u # t => call'[u] = call[u]
    BY Zenon, <1>1 DEF TypeOK, c
  <1>4. c # NULL
    BY <1>2, NullAssumption
  <1>5. /\ UNCHANGED <<task_, current, deleted, raced, shutting_down_, sd>> /\ ~shutting_down_
        /\ call[t] = NULL /\ k \notin Held \cup deleted
    BY ZenonT(40) DEF RunNewWorker, RunIdleWorker, MayCallRun, Fresh
  <1>6. Handing' = Handing \cup {t}
    BY ZenonT(40), <1>2, <1>3, <1>4, <1>5 DEF Handing
  <1>7. \A x \in Workers : pc'[x] = pc[x] \/ (pc[x] = "none" /\ pc'[x] = "new")
    BY ZenonT(40) DEF RunNewWorker, RunIdleWorker, TypeOK
  <1>. QED  BY ZenonT(40), <1>2, <1>3, <1>4, <1>5, <1>6, <1>7

(* SetTask moves the task from the call to its worker.                     *)
LEMMA TaskIsSet ==
    ASSUME TypeOK, CallInv, NEW t \in Threads, SetTask(t)
    PROVE  \E w \in Workers :
              /\ UNCHANGED <<current, deleted, raced, shutting_down_, sd>>
              /\ t \in Handing /\ Handing' = Handing \ {t}
              /\ \A u \in Threads : u # t => call'[u] = call[u]
              /\ task_[w] = NULL /\ task_' = [task_ EXCEPT ![w] = call[t].task]
              /\ call[t].task \in Tasks /\ pc[w] \notin {"none", "run", "started"}
              /\ raced \/ pc[w] \in Alive
              /\ \A v \in Workers : pc'[v] = pc[v] \/ (pc[v] = "wait" /\ pc'[v] = "woken")
  <1>. USE DEF pool, counts, fields, threads, shutdown
  <1>1. /\ call[t] # NULL /\ ~call[t].set /\ Notify(call[t].worker)
        /\ UNCHANGED <<current, deleted, raced, shutting_down_, sd>>
        /\ task_' = [task_ EXCEPT ![call[t].worker] = call[t].task]
        /\ call' = [call EXCEPT ![t] = IF @.new_worker THEN [@ EXCEPT !.set = TRUE] ELSE NULL]
    BY DEF SetTask
  <1>2. PICK w \in Workers : w = call[t].worker
    BY <1>1, CallFacts
  <1>3. HandedOver(call[t]) /\ call[t].task \in Tasks /\ call[t] \in Calls
    BY Zenon, <1>1, CallFacts DEF TypeOK
  <1>4. task_[w] = NULL /\ pc[w] \in {"new"} \cup Idling \cup Leaving \cup Ended
    BY Zenon, <1>1, <1>2, <1>3 DEF HandedOver, Unasked
  <1>5. raced \/ pc[w] \in Alive
    BY Zenon, <1>1, <1>2, <1>3 DEF HandedOver, Unasked, CallInv, TypeOK, Alive
  <1>6. \A u \in Threads : u # t => call'[u] = call[u]
    BY <1>1 DEF TypeOK
  <1>7. call'[t] = NULL \/ call'[t].set
    BY <1>1, <1>3 DEF TypeOK, Calls
  <1>8. t \in Handing /\ Handing' = Handing \ {t}
    BY Zenon, <1>1, <1>6, <1>7 DEF Handing
  <1>9. \A v \in Workers : pc'[v] = pc[v] \/ (pc[v] = "wait" /\ pc'[v] = "woken")
    BY Zenon, <1>1, <1>2 DEF Notify, TypeOK
  <1>. QED  BY ZenonT(40), <1>1, <1>2, <1>3, <1>4, <1>5, <1>6, <1>8, <1>9 DEF Idling, Leaving, Ended


(* What a step that moves no task may do to a worker.                      *)
LEMMA TasksKept ==
    ASSUME TaskInv, UNCHANGED <<task_, current>>, Handing' = Handing, raced => raced',
           \A t \in Handing : call'[t] = call[t],
           \A w \in Workers :
              /\ pc[w] = "run" <=> pc'[w] = "run"
              /\ pc'[w] = "started" => pc[w] = "started" \/ task_[w] # NULL
              /\ task_[w] # NULL /\ pc[w] \in Alive => pc'[w] \in Alive
    PROVE  TaskInv'
  <1>1. \A w \in Workers : /\ pc'[w] = "run" <=> current'[w] # NULL
                           /\ pc'[w] = "started" => task_'[w] # NULL
                           /\ task_'[w] # NULL => raced' \/ pc'[w] \in Alive
    BY Zenon DEF TaskInv
  <1>2. \A v, w \in Workers :
           /\ task_'[w] # NULL => task_'[w] # current'[v] /\ (v # w => task_'[w] # task_'[v])
           /\ current'[w] # NULL /\ v # w => current'[w] # current'[v]
    BY Zenon DEF TaskInv
  <1>3. \A t \in Handing :
           /\ \A w \in Workers : call'[t].task # task_'[w] /\ call'[t].task # current'[w]
           /\ \A u \in Handing \ {t} : call'[t].task # call'[u].task
    <2>1. \A t \in Handing :
             /\ \A w \in Workers : call[t].task # task_[w] /\ call[t].task # current[w]
             /\ \A u \in Handing \ {t} : call[t].task # call[u].task
      BY Zenon DEF TaskInv
    <2>. QED  BY SMT, <2>1
  <1>. QED  BY Zenon, <1>1, <1>2, <1>3 DEF TaskInv

LEMMA TasksStep ==
    ASSUME PoolInv, TaskInv, Next
    PROVE  TaskInv'
  <1>. USE DEF PoolInv, pool, counts, fields, threads, shutdown
  <1>1. ASSUME NEW t \in Threads, NEW k \in Tasks, RunRejected(t, k) PROVE TaskInv'
    BY <1>1, TasksKept DEF RunRejected, Handing
  <1>2. ASSUME NEW t \in Threads, NEW k \in Tasks,
               RunIdleWorker(t, k) \/ \E w \in Workers : RunNewWorker(t, k, w)
        PROVE  TaskInv'
    <2>1. /\ UNCHANGED <<task_, current, raced>> /\ t \notin Handing
          /\ call'[t].task = k /\ \A u \in Threads : u # t => call'[u] = call[u]
          /\ Handing' = Handing \cup {t}
          /\ \A v \in Workers : pc'[v] = pc[v] \/ (pc[v] = "none" /\ pc'[v] = "new")
      BY ZenonT(40), <1>2, CallBegins DEF Handing
    <2>2. k \notin Held
      BY <1>2, CallBegins
    <2>3. k # NULL
      BY NullAssumption
    <2>4. /\ \A w \in Workers : k # task_[w] /\ k # current[w]
          /\ \A u \in Handing : k # call[u].task
      BY <2>2, <2>3 DEF Held, Assigned, Running
    <2>5. \A u \in Handing : u \in Threads
      BY DEF Handing
    <2>6. \A v \in Workers : task_'[v] # NULL => raced' \/ pc'[v] \in Alive
      BY Zenon, <2>1 DEF TaskInv, Alive
    <2>7. \A v \in Workers : /\ pc'[v] = "run" <=> current'[v] # NULL
                             /\ pc'[v] = "started" => task_'[v] # NULL
      <3>1. \A v \in Workers : /\ pc'[v] = "run" <=> pc[v] = "run"
                               /\ pc'[v] = "started" => pc[v] = "started"
        BY SMT, <2>1
      <3>2. \A v \in Workers : /\ pc[v] = "run" <=> current[v] # NULL
                               /\ pc[v] = "started" => task_[v] # NULL
        BY Zenon DEF TaskInv
      <3>. QED  BY Zenon, <2>1, <3>1, <3>2
    <2>8. ASSUME NEW u \in Handing'
          PROVE  /\ \A w \in Workers : call'[u].task # task_'[w] /\ call'[u].task # current'[w]
                 /\ \A x \in Handing' \ {u} : call'[u].task # call'[x].task
      <3>1. \A x \in Handing : /\ call'[x] = call[x]
                               /\ \A w \in Workers : call[x].task # task_[w] /\ call[x].task # current[w]
                               /\ \A y \in Handing \ {x} : call[x].task # call[y].task
        BY Zenon, <2>1, <2>5 DEF TaskInv
      <3>2. CASE u = t
        <4>1. \A x \in Handing' \ {u} : x \in Handing
          BY Zenon, <2>1, <3>2
        <4>2. call'[u].task = k /\ task_' = task_ /\ current' = current
          BY Zenon, <2>1, <3>2
        <4>. QED  BY SMT, <2>4, <3>1, <4>1, <4>2
      <3>3. CASE u # t
        <4>1. u \in Handing
          BY Zenon, <2>1, <2>8, <3>3
        <4>. QED  BY SMT, <2>1, <2>4, <3>1, <4>1
      <3>. QED  BY Zenon, <3>2, <3>3
    <2>. QED  BY ZenonT(40), <2>1, <2>6, <2>7, <2>8 DEF TaskInv
  <1>3. ASSUME NEW t \in Threads, SetTask(t) PROVE TaskInv'
    <2>. DEFINE k == call[t].task
    <2>1. PICK w \in Workers :
              /\ UNCHANGED <<current, raced>>
              /\ t \in Handing /\ Handing' = Handing \ {t}
              /\ \A u \in Threads : u # t => call'[u] = call[u]
              /\ task_[w] = NULL /\ task_' = [task_ EXCEPT ![w] = k]
              /\ k \in Tasks /\ pc[w] \notin {"none", "run", "started"}
              /\ raced \/ pc[w] \in Alive
              /\ \A v \in Workers : pc'[v] = pc[v] \/ (pc[v] = "wait" /\ pc'[v] = "woken")
      BY ZenonT(40), <1>3, TaskIsSet
    <2>2. /\ \A v \in Workers : k # task_[v] /\ k # current[v]
          /\ \A u \in Handing \ {t} : k # call[u].task
      BY ZenonT(40), <2>1 DEF TaskInv
    <2>3. k # NULL
      BY Zenon, <2>1, NullAssumption
    <2>. HIDE DEF k
    <2>4. task_'[w] = k /\ \A v \in Workers : v # w => task_'[v] = task_[v]
      BY Zenon, <2>1 DEF TypeOK
    <2>5. \A u \in Handing : u \in Threads
      BY DEF Handing
    <2>6. \A v \in Workers : /\ pc'[v] = "run" <=> current'[v] # NULL
                             /\ pc'[v] = "started" => task_'[v] # NULL
      <3>1. \A v \in Workers : /\ pc'[v] = "run" <=> pc[v] = "run"
                               /\ pc'[v] = "started" => pc[v] = "started"
        BY <2>1
      <3>2. \A v \in Workers : /\ pc[v] = "run" <=> current[v] # NULL
                               /\ pc[v] = "started" => task_[v] # NULL
        BY Zenon DEF TaskInv
      <3>. QED  BY Zenon, <2>1, <2>3, <2>4, <3>1, <3>2
    <2>7. \A v \in Workers : task_'[v] # NULL => raced' \/ pc'[v] \in Alive
      <3>1. \A v \in Workers : pc[v] \in Alive => pc'[v] \in Alive
        BY <2>1 DEF Alive, Idling
      <3>2. \A v \in Workers : task_[v] # NULL => raced \/ pc[v] \in Alive
        BY Zenon DEF TaskInv
      <3>. QED  BY Zenon, <2>1, <2>4, <3>1, <3>2
    <2>8. \A v, x \in Workers :
             /\ task_'[x] # NULL => task_'[x] # current'[v] /\ (v # x => task_'[x] # task_'[v])
             /\ current'[x] # NULL /\ v # x => current'[x] # current'[v]
      <3>1. \A v, x \in Workers :
               /\ task_[x] # NULL => task_[x] # current[v] /\ (v # x => task_[x] # task_[v])
               /\ current[x] # NULL /\ v # x => current[x] # current[v]
        BY Zenon DEF TaskInv
      <3>2. \A v, x \in Workers :
               task_'[x] # NULL => task_'[x] # current[v] /\ (v # x => task_'[x] # task_'[v])
        BY Zenon, <2>2, <2>4, <3>1
      <3>3. current' = current
        BY Zenon, <2>1
      <3>. QED  BY SMT, <3>1, <3>2, <3>3
    <2>9. ASSUME NEW u \in Handing'
          PROVE  /\ \A v \in Workers : call'[u].task # task_'[v] /\ call'[u].task # current'[v]
                 /\ \A x \in Handing' \ {u} : call'[u].task # call'[x].task
      <3>1. u \in Handing /\ u # t /\ call'[u] = call[u]
        BY Zenon, <2>1, <2>5, <2>9
      <3>2. /\ \A v \in Workers : call[u].task # task_[v] /\ call[u].task # current[v]
            /\ \A x \in Handing \ {u} : call[u].task # call[x].task
        BY Zenon, <3>1 DEF TaskInv
      <3>3. \A x \in Handing' \ {u} : x \in Handing \ {u} /\ call'[x] = call[x]
        BY Zenon, <2>1, <2>5
      <3>4. current' = current /\ w \in Workers /\ \A x \in Workers : task_'[x] \in {k, task_[x]}
        BY Zenon, <2>1, <2>4
      <3>. QED  BY SMT, <2>2, <3>1, <3>2, <3>3, <3>4
    <2>. QED  BY ZenonT(40), <2>6, <2>7, <2>8, <2>9 DEF TaskInv
  <1>4. ASSUME NEW t \in Threads, StartThread(t) PROVE TaskInv'
    <2>1. PICK w \in Workers : pc[w] = "new" /\ task_[w] # NULL /\ pc' = [pc EXCEPT ![w] = "started"]
      BY ZenonT(40), <1>4, CallFacts DEF StartThread, HandedOver
    <2>2. \A v \in Workers : v # w => pc'[v] = pc[v]
      BY Zenon, <2>1 DEF TypeOK
    <2>3. pc'[w] = "started"
      BY Zenon, <2>1 DEF TypeOK
    <2>4. UNCHANGED <<task_, current, raced>> /\ \A u \in Threads : u # t => call'[u] = call[u]
      BY Zenon, <1>4 DEF StartThread, TypeOK
    <2>5. Handing' = Handing /\ \A u \in Handing : call'[u] = call[u]
      BY <1>4, <2>4 DEF StartThread, Handing, TypeOK
    <2>. QED  BY ZenonT(40), <2>1, <2>2, <2>3, <2>4, <2>5, TasksKept DEF Alive
  <1>5. ASSUME NEW w \in Workers, MainStart(w) \/ WakeWithTask(w) PROVE TaskInv'
    <2>1. /\ current' = [current EXCEPT ![w] = task_[w]] /\ task_' = [task_ EXCEPT ![w] = NULL]
          /\ pc' = [pc EXCEPT ![w] = "run"] /\ UNCHANGED <<call, raced>>
      BY ZenonT(40), <1>5 DEF MainStart, WakeWithTask, TakeTask
    <2>2. task_[w] # NULL
      BY ZenonT(40), <1>5 DEF MainStart, WakeWithTask, TaskInv
    <2>3. /\ current'[w] = task_[w] /\ task_'[w] = NULL /\ pc'[w] = "run"
          /\ \A v \in Workers : v # w => current'[v] = current[v] /\ task_'[v] = task_[v] /\ pc'[v] = pc[v]
      BY Zenon, <2>1 DEF TypeOK
    <2>4. Handing' = Handing
      BY Zenon, <2>1 DEF Handing
    <2>5. \A t \in Handing : call[t].task # NULL
      BY Zenon, CallFacts, NullAssumption DEF Handing
    <2>6. \A v \in Workers : /\ pc'[v] = "run" <=> current'[v] # NULL
                             /\ pc'[v] = "started" => task_'[v] # NULL
                             /\ task_'[v] # NULL => raced' \/ pc'[v] \in Alive
      <3>1. \A v \in Workers : /\ pc[v] = "run" <=> current[v] # NULL
                               /\ pc[v] = "started" => task_[v] # NULL
                               /\ task_[v] # NULL => raced \/ pc[v] \in Alive
        BY Zenon DEF TaskInv
      <3>2. pc'[w] # "started"
        BY <2>3
      <3>. QED  BY Zenon, <2>1, <2>2, <2>3, <3>1, <3>2
    <2>7. \A v, x \in Workers :
             /\ task_'[x] # NULL => task_'[x] # current'[v] /\ (v # x => task_'[x] # task_'[v])
             /\ current'[x] # NULL /\ v # x => current'[x] # current'[v]
      <3>1. \A v, x \in Workers :
               /\ task_[x] # NULL => task_[x] # current[v] /\ (v # x => task_[x] # task_[v])
               /\ current[x] # NULL /\ v # x => current[x] # current[v]
        BY Zenon DEF TaskInv
      <3>2. \A v, x \in Workers :
               task_'[x] # NULL => task_'[x] # current'[v] /\ (v # x => task_'[x] # task_'[v])
        <4>. SUFFICES ASSUME NEW v \in Workers, NEW x \in Workers, task_'[x] # NULL
                      PROVE  task_'[x] # current'[v] /\ (v # x => task_'[x] # task_'[v])
          OBVIOUS
        <4>1. x # w /\ task_'[x] = task_[x] /\ task_[x] # task_[w]
          BY Zenon, <2>3, <3>1
        <4>. QED  BY SMT, <2>3, <3>1, <4>1
      <3>3. \A v, x \in Workers : current'[x] # NULL /\ v # x => current'[x] # current'[v]
        BY SMT, <2>2, <2>3, <3>1
      <3>. QED  BY Zenon, <3>2, <3>3
    <2>8. \A t \in Handing :
             /\ \A v \in Workers : call'[t].task # task_'[v] /\ call'[t].task # current'[v]
             /\ \A u \in Handing \ {t} : call'[t].task # call'[u].task
      <3>1. \A t \in Handing :
               /\ \A v \in Workers : call[t].task # task_[v] /\ call[t].task # current[v]
               /\ \A u \in Handing \ {t} : call[t].task # call[u].task
        BY Zenon DEF TaskInv
      <3>. QED  BY SMT, <2>1, <2>3, <2>5, <3>1
    <2>. QED  BY ZenonT(40), <2>4, <2>6, <2>7, <2>8 DEF TaskInv
  <1>6. ASSUME NEW w \in Workers, LoopDone(w) \/ SetIdleDuringShutdown(w) \/ SetIdleAndReapExited(w)
        PROVE  TaskInv'
    <2>1. UNCHANGED <<call, raced, task_>> /\ current' = [current EXCEPT ![w] = NULL]
      BY ZenonT(40), <1>6 DEF LoopDone, SetIdleDuringShutdown, SetIdleAndReapExited, TaskFinished
    <2>2. \A v \in Workers : v # w => pc'[v] = pc[v]
      BY ZenonT(40), <1>6 DEF LoopDone, SetIdleDuringShutdown, SetIdleAndReapExited, TypeOK
    <2>3. pc[w] = "run" /\ pc'[w] \notin {"run", "started"}
      BY ZenonT(40), <1>6 DEF LoopDone, SetIdleDuringShutdown, SetIdleAndReapExited, TaskFinished, TypeOK
    <2>4. current'[w] = NULL /\ \A v \in Workers : v # w => current'[v] = current[v]
      BY <2>1 DEF TypeOK
    <2>5. Handing' = Handing /\ task_[w] = NULL
      BY ZenonT(40), <2>1, <2>3 DEF Handing, CallInv
    <2>6. \A t \in Handing : call[t].task # NULL
      BY Zenon, CallFacts, NullAssumption DEF Handing
    <2>7. \A v \in Workers : /\ pc'[v] = "run" <=> current'[v] # NULL
                             /\ pc'[v] = "started" => task_'[v] # NULL
                             /\ task_'[v] # NULL => raced' \/ pc'[v] \in Alive
      <3>1. pc'[w] # "run" /\ pc'[w] # "started"
        BY Zenon, <2>3
      <3>2. \A v \in Workers : v # w => /\ pc[v] = "run" <=> current[v] # NULL
                                        /\ pc[v] = "started" => task_[v] # NULL
                                        /\ task_[v] # NULL => raced \/ pc[v] \in Alive
        BY Zenon DEF TaskInv
      <3>. QED  BY Zenon, <2>1, <2>2, <2>4, <2>5, <3>1, <3>2
    <2>8. \A v, x \in Workers :
             /\ task_'[x] # NULL => task_'[x] # current'[v] /\ (v # x => task_'[x] # task_'[v])
             /\ current'[x] # NULL /\ v # x => current'[x] # current'[v]
      <3>1. \A v, x \in Workers :
               /\ task_[x] # NULL => task_[x] # current[v] /\ (v # x => task_[x] # task_[v])
               /\ current[x] # NULL /\ v # x => current[x] # current[v]
        BY Zenon DEF TaskInv
      <3>2. \A v, x \in Workers :
               task_[x] # NULL => task_[x] # current'[v] /\ (v # x => task_[x] # task_[v])
        BY Zenon, <2>4, <3>1
      <3>3. \A v, x \in Workers : current'[x] # NULL /\ v # x => current'[x] # current'[v]
        BY Zenon, <2>4, <3>1
      <3>. QED  BY Zenon, <2>1, <3>2, <3>3
    <2>9. \A t \in Handing :
             /\ \A v \in Workers : call'[t].task # task_'[v] /\ call'[t].task # current'[v]
             /\ \A u \in Handing \ {t} : call'[t].task # call'[u].task
      <3>1. \A t \in Handing :
               /\ \A v \in Workers : call[t].task # task_[v] /\ call[t].task # current[v]
               /\ \A u \in Handing \ {t} : call[t].task # call[u].task
        BY Zenon DEF TaskInv
      <3>. QED  BY Zenon, <2>1, <2>4, <2>6, <3>1
    <2>. QED  BY Zenon, <2>5, <2>7, <2>8, <2>9 DEF TaskInv
  <1>7. ASSUME NEW w \in Workers,
               \/ ReapExited(w) \/ WaitAgain(w) \/ SpuriousWakeup(w) \/ WaitTimesOut(w)
               \/ WakeDone(w) \/ ReleaseIdleWorker(w) \/ DeleteReleased(w) \/ ThreadEnds(w)
               \/ MainListExit(w) \/ MainDeleteWorker(w)
        PROVE  TaskInv'
    <2>1. UNCHANGED <<task_, current, call, raced>>
      BY ZenonT(40), <1>7 DEF ReapExited, WaitAgain, SpuriousWakeup, WaitTimesOut, WakeDone, ReleaseIdleWorker,
                  DeleteReleased, ThreadEnds, MainListExit, MainDeleteWorker
    <2>2. \A v \in Workers : v # w => pc'[v] = pc[v]
      BY ZenonT(40), <1>7 DEF ReapExited, WaitAgain, SpuriousWakeup, WaitTimesOut, WakeDone, ReleaseIdleWorker,
                  DeleteReleased, ThreadEnds, MainListExit, MainDeleteWorker, TypeOK
    <2>3. CASE ReapExited(w) \/ WaitAgain(w) \/ SpuriousWakeup(w) \/ WaitTimesOut(w)
      <3>1. pc[w] \in Idling /\ pc'[w] \in Idling
        BY ZenonT(40), <2>3 DEF ReapExited, WaitAgain, SpuriousWakeup, WaitTimesOut, OutOfWait, Idling, TypeOK
      <3>. QED  BY ZenonT(40), <2>1, <2>2, <3>1, TasksKept DEF Handing, Alive, Idling
    <2>4. CASE WakeDone(w) \/ ReleaseIdleWorker(w)
      <3>1. pc[w] # "run" /\ pc'[w] \notin {"run", "started"} /\ task_[w] = NULL
        BY Zenon, <2>4 DEF WakeDone, ReleaseIdleWorker, OutOfWait, TypeOK
      <3>. QED  BY ZenonT(40), <2>1, <2>2, <3>1, TasksKept DEF Handing
    <2>5. CASE DeleteReleased(w) \/ ThreadEnds(w) \/ MainListExit(w) \/ MainDeleteWorker(w)
      <3>1. pc[w] \in Leaving \cup Ended /\ pc'[w] \in Leaving \cup Ended
        BY ZenonT(40), <2>5 DEF DeleteReleased, ThreadEnds, MainListExit, MainDeleteWorker, Leaving, Ended, TypeOK
      <3>. QED  BY ZenonT(40), <2>1, <2>2, <3>1, TasksKept DEF Handing, Alive, Idling, Leaving, Ended
    <2>. QED  BY <1>7, <2>3, <2>4, <2>5
  <1>8. CASE ShutdownVisit
    <2>1. PICK w \in Workers : Notify(w)
      BY Zenon, <1>8, TailElements DEF ShutdownVisit, TypeOK
    <2>2. \A v \in Workers : pc'[v] = pc[v] \/ (pc[v] = "wait" /\ pc'[v] = "woken")
      BY Zenon, <2>1 DEF Notify, TypeOK
    <2>3. UNCHANGED <<task_, current, call, raced>>
      BY Zenon, <1>8 DEF ShutdownVisit
    <2>. QED  BY ZenonT(40), <2>2, <2>3, TasksKept DEF Handing, Alive, Idling
  <1>9. CASE \/ ShutdownBegin \/ ShutdownWait \/ ShutdownTakeJoinList \/ ShutdownJoin
             \/ ShutdownReturns \/ Terminated
    <2>1. UNCHANGED <<task_, current, call, pc>>
      BY ZenonT(40), <1>9 DEF ShutdownBegin, ShutdownWait, ShutdownTakeJoinList, ShutdownJoin, ShutdownReturns,
                  Terminated, vars
    <2>2. raced => raced'
      BY ZenonT(40), <1>9 DEF ShutdownBegin, ShutdownWait, ShutdownTakeJoinList, ShutdownJoin, ShutdownReturns,
                  Terminated, vars, ListsInv
    <2>. QED  BY <2>1, <2>2, TasksKept DEF Handing
  <1>. QED  BY Zenon, <1>1, <1>2, <1>3, <1>4, <1>5, <1>6, <1>7, <1>8, <1>9
            DEF Next, RunStep, CallStep, WorkerStep, ShutdownStep


-----------------------------------------------------------------------------
(* What a step that changes no list may do to a worker, for ExitInv.       *)
LEMMA ExitKept ==
    ASSUME ExitInv, UNCHANGED <<all_workers_, saved, shutting_down_workers_>>,
           sd' = sd \/ (sd = "wait" /\ sd' = "woken"),
           \A w \in Workers : pc'[w] \in Alive \cup Leaving => pc[w] \in Alive \cup Leaving
    PROVE  ExitInv'
  BY Zenon DEF ExitInv

LEMMA ExitStep ==
    ASSUME PoolInv, ExitInv, Next
    PROVE  ExitInv'
  <1>. USE DEF PoolInv, pool, counts, fields, threads, shutdown
  <1>1. ASSUME NEW t \in Threads, NEW k \in Tasks, RunRejected(t, k) \/ RunIdleWorker(t, k)
        PROVE  ExitInv'
    <2>1. UNCHANGED <<all_workers_, saved, shutting_down_workers_, sd, pc>>
      BY Zenon, <1>1 DEF RunRejected, RunIdleWorker
    <2>. QED  BY Zenon, <2>1, ExitKept
  <1>2. ASSUME NEW t \in Threads, NEW k \in Tasks, NEW w \in Workers, RunNewWorker(t, k, w)
        PROVE  ExitInv'
    <2>1. Range(all_workers_') = {w} \cup Range(all_workers_)
      BY ZenonT(40), <1>2, ConsElements DEF RunNewWorker, TypeOK
    <2>2. \A v \in Workers : v # w => pc'[v] = pc[v]
      BY Zenon, <1>2 DEF RunNewWorker, TypeOK
    <2>3. UNCHANGED <<saved, shutting_down_workers_, sd>>
      BY Zenon, <1>2 DEF RunNewWorker
    <2>. QED  BY <2>1, <2>2, <2>3 DEF ExitInv
  <1>3. ASSUME NEW t \in Threads, SetTask(t) PROVE ExitInv'
    <2>1. \A v \in Workers : pc'[v] = pc[v] \/ (pc[v] = "wait" /\ pc'[v] = "woken")
      BY <1>3, TaskIsSet
    <2>2. UNCHANGED <<all_workers_, saved, shutting_down_workers_, sd>>
      BY Zenon, <1>3 DEF SetTask
    <2>. QED  BY Zenon, <2>1, <2>2, ExitKept DEF Alive, Idling
  <1>4. ASSUME NEW t \in Threads, StartThread(t) PROVE ExitInv'
    <2>1. PICK w \in Workers : pc[w] = "new" /\ pc' = [pc EXCEPT ![w] = "started"]
      BY ZenonT(40), <1>4, CallFacts DEF StartThread, HandedOver
    <2>2. \A v \in Workers : pc'[v] = pc[v] \/ pc[v] = "new"
      BY Zenon, <2>1 DEF TypeOK
    <2>3. UNCHANGED <<all_workers_, saved, shutting_down_workers_, sd>>
      BY Zenon, <1>4 DEF StartThread
    <2>. QED  BY Zenon, <2>2, <2>3, ExitKept DEF Alive
  <1>5. ASSUME NEW w \in Workers,
               \/ MainStart(w) \/ WakeWithTask(w)
               \/ LoopDone(w) \/ SetIdleDuringShutdown(w) \/ SetIdleAndReapExited(w)
        PROVE  ExitInv'
    <2>1. UNCHANGED <<all_workers_, saved, shutting_down_workers_, sd>>
      BY ZenonT(40), <1>5 DEF MainStart, WakeWithTask, LoopDone, SetIdleDuringShutdown, SetIdleAndReapExited
    <2>2. \A v \in Workers : v # w => pc'[v] = pc[v]
      BY ZenonT(40), <1>5 DEF MainStart, WakeWithTask, LoopDone, SetIdleDuringShutdown, SetIdleAndReapExited,
                  TakeTask, TypeOK
    <2>3. pc[w] \in Alive
      BY ZenonT(40), <1>5 DEF MainStart, WakeWithTask, OutOfWait, LoopDone, SetIdleDuringShutdown,
                  SetIdleAndReapExited, TaskFinished, Alive, Idling
    <2>. QED  BY Zenon, <2>1, <2>2, <2>3, ExitKept
  <1>6. ASSUME NEW w \in Workers,
               \/ ReapExited(w) \/ WakeDone(w) \/ WaitAgain(w) \/ SpuriousWakeup(w) \/ WaitTimesOut(w)
               \/ DeleteReleased(w) \/ ThreadEnds(w) \/ MainListExit(w)
        PROVE  ExitInv'
    <2>1. UNCHANGED <<all_workers_, saved, shutting_down_workers_, sd>>
      BY ZenonT(40), <1>6 DEF ReapExited, WakeDone, WaitAgain, SpuriousWakeup, WaitTimesOut, DeleteReleased,
                  ThreadEnds, MainListExit
    <2>2. \A v \in Workers : v # w => pc'[v] = pc[v]
      BY ZenonT(40), <1>6 DEF ReapExited, WakeDone, WaitAgain, SpuriousWakeup, WaitTimesOut, DeleteReleased,
                  ThreadEnds, MainListExit, TypeOK
    <2>3. pc[w] \in Alive \cup Leaving \/ pc'[w] \in Ended
      BY ZenonT(40), <1>6 DEF ReapExited, WakeDone, WaitAgain, OutOfWait, SpuriousWakeup, WaitTimesOut,
                  DeleteReleased, ThreadEnds, MainListExit, TypeOK, Alive, Idling, Leaving, Ended
    <2>. QED  BY Zenon, <2>1, <2>2, <2>3, ExitKept DEF Alive, Idling, Leaving, Ended
  <1>7. ASSUME NEW w \in Workers, ReleaseIdleWorker(w) PROVE ExitInv'
    <2>1. Range(all_workers_) \subseteq Range(all_workers_') \cup {w}
      <3>1. PICK i \in 1 .. Len(all_workers_) :
               all_workers_[i] = w /\ all_workers_' = RemoveAt(all_workers_, i)
        <4>1. DOMAIN all_workers_ = 1 .. Len(all_workers_)
          BY DEF TypeOK
        <4>. QED  BY Zenon, <1>7, <4>1 DEF ReleaseIdleWorker
      <3>. QED  BY Zenon, <3>1, RemoveAtElements DEF TypeOK
    <2>2. pc'[w] = "released" /\ \A v \in Workers : v # w => pc'[v] = pc[v]
      BY <1>7 DEF ReleaseIdleWorker, TypeOK
    <2>3. UNCHANGED <<saved, shutting_down_workers_, sd>>
      BY ZenonT(40), <1>7 DEF ReleaseIdleWorker
    <2>. QED  BY Zenon, <2>1, <2>2, <2>3 DEF ExitInv, Alive, Idling, Leaving
  <1>8. ASSUME NEW w \in Workers, MainDeleteWorker(w) PROVE ExitInv'
    <2>1. /\ Range(shutting_down_workers_) \subseteq Range(shutting_down_workers_') \cup {w}
          /\ shutting_down_workers_ = << >> => shutting_down_workers_' = << >>
      <3>1. shutting_down_workers_' = RemoveFirst(shutting_down_workers_, w)
        BY Zenon, <1>8 DEF MainDeleteWorker
      <3>2. shutting_down_workers_ = << >> => shutting_down_workers_' = << >>
        BY SMTT(60), <3>1 DEF RemoveFirst, Contains, Range
      <3>. QED  BY Zenon, <3>1, <3>2, RemoveFirstElements DEF TypeOK
    <2>2. pc'[w] = "deleted" /\ \A v \in Workers : v # w => pc'[v] = pc[v]
      BY Zenon, <1>8 DEF MainDeleteWorker, TypeOK
    <2>3. UNCHANGED <<all_workers_, saved>> /\ (sd' = sd \/ (sd = "wait" /\ sd' = "woken"))
      BY <1>8 DEF MainDeleteWorker, NotifyShutdown
    <2>. QED  BY Zenon, <2>1, <2>2, <2>3 DEF ExitInv, Alive, Idling, Leaving
  <1>9. CASE ShutdownBegin
    BY ZenonT(40), <1>9 DEF ShutdownBegin, ExitInv
  <1>10. CASE ShutdownVisit
    <2>1. PICK w \in Workers :
             /\ Range(saved) = {w} \cup Range(saved') /\ Notify(w)
             /\ Range(shutting_down_workers_') = {w} \cup Range(shutting_down_workers_)
      <3>1. Head(saved) \in Workers /\ Range(saved) = {Head(saved)} \cup Range(saved')
        BY <1>10, TailElements DEF ShutdownVisit, TypeOK
      <3>2. Range(shutting_down_workers_') = {Head(saved)} \cup Range(shutting_down_workers_)
        <4>1. shutting_down_workers_' = Cons(Head(saved), shutting_down_workers_)
          BY Zenon, <1>10 DEF ShutdownVisit
        <4>. QED  BY ZenonT(40), <3>1, <4>1, ConsElements DEF TypeOK
      <3>. QED  BY Zenon, <1>10, <3>1, <3>2 DEF ShutdownVisit
    <2>2. \A v \in Workers : pc'[v] = pc[v] \/ (pc[v] = "wait" /\ pc'[v] = "woken")
      BY Zenon, <2>1 DEF Notify, TypeOK
    <2>3. UNCHANGED <<all_workers_, sd>> /\ sd = "visit"
      BY Zenon, <1>10 DEF ShutdownVisit
    <2>. QED  BY Zenon, <2>1, <2>2, <2>3 DEF ExitInv, Alive, Idling
  <1>11. CASE ShutdownWait
    <2>1. UNCHANGED <<all_workers_, saved, shutting_down_workers_, pc>>
      BY Zenon, <1>11 DEF ShutdownWait
    <2>2. saved = << >> /\ (sd' = "wait" \/ shutting_down_workers_ = << >>)
      BY Zenon, <1>11 DEF ShutdownWait, AllWorkersExited, ExitInv
    <2>. QED  BY Zenon, <2>1, <2>2 DEF ExitInv
  <1>12. CASE ShutdownTakeJoinList \/ ShutdownJoin \/ ShutdownReturns \/ Terminated
    <2>1. UNCHANGED <<all_workers_, saved, shutting_down_workers_, pc>>
      BY Zenon, <1>12 DEF ShutdownTakeJoinList, ShutdownJoin, ShutdownReturns, Terminated, vars
    <2>2. sd' = sd \/ sd \in {"join", "joining"}
      BY <1>12 DEF ShutdownTakeJoinList, ShutdownJoin, ShutdownReturns, Terminated, vars
    <2>. QED  BY Zenon, <2>1, <2>2 DEF ExitInv
  <1>. QED  BY Zenon, <1>1, <1>2, <1>3, <1>4, <1>5, <1>6, <1>7, <1>8, <1>9, <1>10, <1>11, <1>12
            DEF Next, RunStep, CallStep, WorkerStep, ShutdownStep


-----------------------------------------------------------------------------
(* The steps of the pool are steps of TaskPool, or none.                   *)
RefInv == PoolInv /\ TaskInv /\ ExitInv

LEMMA RefInvariant == Spec => []RefInv
  <1>1. ASSUME Init PROVE RefInv
    <2>1. TaskInv
      BY Zenon, <1>1 DEF Init, TaskInv, Handing
    <2>2. ExitInv
      BY <1>1 DEF Init, ExitInv, Alive, Idling, Leaving
    <2>. QED  BY Zenon, <1>1, <2>1, <2>2, PoolInit DEF RefInv
  <1>2. ASSUME RefInv, [Next]_vars PROVE RefInv'
    <2>1. PoolInv'
      BY Zenon, <1>2, PoolStep DEF RefInv
    <2>2. CASE Next
      BY Zenon, <1>2, <2>1, <2>2, TasksStep, ExitStep DEF RefInv
    <2>3. CASE UNCHANGED vars
      <3>1. UNCHANGED <<task_, current, call, raced, pc, all_workers_, saved, sd,
                        shutting_down_workers_>>
        BY <2>3 DEF vars, pool, fields, threads, shutdown
      <3>2. TaskInv' /\ ExitInv'
        BY ZenonT(40), <1>2, <3>1, TasksKept, ExitKept DEF RefInv, Handing
      <3>. QED  BY Zenon, <2>1, <3>2 DEF RefInv
    <2>. QED  BY <1>2, <2>2, <2>3
  <1>. QED  BY <1>1, <1>2, PTL DEF Spec

LEMMA PhaseIs ==
    /\ ~shutting_down_ => Phase = "open"
    /\ shutting_down_ => Phase = IF sd = "done" /\ ~raced THEN "closed" ELSE "closing"
  BY DEF Phase

LEMMA PhaseStays ==
    ASSUME UNCHANGED <<shutting_down_, raced>>, sd' = "done" <=> sd = "done"
    PROVE  Phase' = Phase
  BY Zenon DEF Phase

(* A step that leaves tasks and calls alone, and does not begin or end     *)
(* Shutdown, is none of TaskPool.                                          *)
LEMMA Stutters ==
    ASSUME UNCHANGED <<shutting_down_, raced, task_, current, call, deleted>>,
           sd' = "done" <=> sd = "done"
    PROVE  UNCHANGED Promise!tvars
  BY Zenon, PhaseStays DEF Promise!tvars, Assigned, Running, Handing

LEMMA Simulates ==
    ASSUME RefInv, Next
    PROVE  Promise!Next \/ UNCHANGED Promise!tvars
  <1>. USE DEF RefInv, PoolInv, pool, counts, fields, threads, shutdown
  <1>1. ASSUME NEW t \in Threads, NEW k \in Tasks, RunRejected(t, k) PROVE UNCHANGED Promise!tvars
    BY Zenon, <1>1, Stutters DEF RunRejected
  <1>2. ASSUME NEW t \in Threads, NEW k \in Tasks,
               RunIdleWorker(t, k) \/ \E w \in Workers : RunNewWorker(t, k, w)
        PROVE  Promise!Accept(k)
    <2>1. /\ UNCHANGED <<task_, current, deleted, raced, shutting_down_, sd>> /\ ~shutting_down_
          /\ call'[t].task = k /\ \A u \in Threads : u # t => call'[u] = call[u]
          /\ Handing' = Handing \cup {t} /\ call[t] = NULL
      BY ZenonT(40), <1>2, CallBegins
    <2>2. k \notin Held \cup deleted
      BY ZenonT(40), <1>2, CallBegins
    <2>3. {call'[u].task : u \in Handing'} = {call[u].task : u \in Handing} \cup {k}
      <3>1. \A u \in Handing : u \in Threads /\ u # t
        BY Zenon, <2>1 DEF Handing
      <3>. QED  BY SMT, <2>1, <3>1
    <2>4. Assigned' = Assigned \cup {k} /\ Running' = Running
      BY ZenonT(40), <2>1, <2>3 DEF Assigned, Running
    <2>5. Phase = "open" /\ Phase' = Phase
      BY Zenon, <2>1, PhaseIs, PhaseStays
    <2>. QED  BY Zenon, <2>1, <2>2, <2>4, <2>5 DEF Promise!Accept, Held
  <1>3. ASSUME NEW t \in Threads, SetTask(t) PROVE UNCHANGED Promise!tvars
    <2>1. PICK w \in Workers :
              /\ UNCHANGED <<current, deleted, raced, shutting_down_, sd>>
              /\ t \in Handing /\ Handing' = Handing \ {t}
              /\ \A u \in Threads : u # t => call'[u] = call[u]
              /\ task_[w] = NULL /\ task_' = [task_ EXCEPT ![w] = call[t].task]
              /\ call[t].task \in Tasks
      BY ZenonT(40), <1>3, TaskIsSet
    <2>2. {call[u].task : u \in Handing} = {call'[u].task : u \in Handing'} \cup {call[t].task}
      <3>1. \A u \in Handing' : u \in Threads /\ u # t /\ u \in Handing
        BY Zenon, <2>1 DEF Handing
      <3>2. \A u \in Handing' : call'[u].task = call[u].task
        BY Zenon, <2>1, <3>1
      <3>3. \A u \in Handing : u = t \/ u \in Handing'
        BY Zenon, <2>1
      <3>4. t \in Handing
        BY Zenon, <2>1
      <3>. QED  BY SMT, <3>1, <3>2, <3>3, <3>4
    <2>3. {task_'[v] : v \in Workers} \ {NULL} = ({task_[v] : v \in Workers} \ {NULL}) \cup {call[t].task}
      <3>1. /\ task_'[w] = call[t].task /\ call[t].task # NULL
            /\ \A v \in Workers : v # w => task_'[v] = task_[v]
        BY Zenon, <2>1, NullAssumption DEF TypeOK
      <3>2. w \in Workers /\ task_[w] = NULL
        BY Zenon, <2>1
      <3>. QED  BY SMT, <3>1, <3>2
    <2>4. Assigned' = Assigned /\ Running' = Running
      BY ZenonT(40), <2>1, <2>2, <2>3 DEF Assigned, Running
    <2>. QED  BY <2>1, <2>4, PhaseStays DEF Promise!tvars
  <1>4. ASSUME NEW t \in Threads, StartThread(t) PROVE UNCHANGED Promise!tvars
    <2>1. UNCHANGED <<shutting_down_, raced, sd, task_, current, deleted>>
      BY <1>4 DEF StartThread
    <2>2. Handing' = Handing /\ \A u \in Handing : call'[u] = call[u]
      BY <1>4 DEF StartThread, Handing, TypeOK
    <2>3. Assigned' = Assigned /\ Running' = Running
      BY ZenonT(40), <2>1, <2>2 DEF Assigned, Running
    <2>. QED  BY <2>1, <2>3, PhaseStays DEF Promise!tvars
  <1>5. ASSUME NEW w \in Workers, MainStart(w) \/ WakeWithTask(w) PROVE Promise!Next
    <2>. DEFINE k == task_[w]
    <2>1. /\ current' = [current EXCEPT ![w] = k] /\ task_' = [task_ EXCEPT ![w] = NULL]
          /\ UNCHANGED <<call, raced, shutting_down_, sd, deleted>>
      BY ZenonT(40), <1>5 DEF MainStart, WakeWithTask, TakeTask
    <2>2. k \in Tasks /\ current[w] = NULL
      BY ZenonT(40), <1>5 DEF MainStart, WakeWithTask, OutOfWait, TaskInv, TypeOK
    <2>3. /\ \A v \in Workers : v # w => task_[v] # k
          /\ \A t \in Handing : call[t].task # k
      BY ZenonT(40), <2>2, NullAssumption DEF TaskInv
    <2>4. Handing' = Handing
      BY Zenon, <2>1 DEF Handing
    <2>5. {task_'[v] : v \in Workers} \ {NULL} = ({task_[v] : v \in Workers} \ {NULL}) \ {k}
      BY <2>1, <2>2, <2>3 DEF TypeOK
    <2>6. Assigned' = Assigned \ {k} /\ k \in Assigned
      BY ZenonT(40), <2>1, <2>2, <2>3, <2>4, <2>5, NullAssumption DEF Assigned
    <2>7. Running' = Running \cup {k}
      BY <2>1, <2>2, NullAssumption DEF Running, TypeOK
    <2>8. Promise!Start(k)
      BY <2>1, <2>6, <2>7, PhaseStays DEF Promise!Start
    <2>. QED  BY ZenonT(40), <2>2, <2>8 DEF Promise!Next
  <1>6. ASSUME NEW w \in Workers, LoopDone(w) \/ SetIdleDuringShutdown(w) \/ SetIdleAndReapExited(w)
        PROVE  Promise!Next
    <2>. DEFINE k == current[w]
    <2>1. /\ UNCHANGED <<call, raced, shutting_down_, sd, task_>> /\ pc[w] = "run"
          /\ current' = [current EXCEPT ![w] = NULL] /\ deleted' = deleted \cup {k}
      BY ZenonT(40), <1>6 DEF LoopDone, SetIdleDuringShutdown, SetIdleAndReapExited, TaskFinished
    <2>2. k \in Tasks /\ \A v \in Workers : v # w => current[v] # k
      BY ZenonT(40), <2>1 DEF TaskInv, TypeOK
    <2>3. Running' = Running \ {k} /\ k \in Running
      BY <2>1, <2>2, NullAssumption DEF Running, TypeOK
    <2>4. Assigned' = Assigned
      BY ZenonT(40), <2>1 DEF Assigned, Handing
    <2>5. Promise!Finish(k)
      BY Zenon, <2>1, <2>3, <2>4, PhaseStays DEF Promise!Finish
    <2>. QED  BY <2>2, <2>5 DEF Promise!Next
  <1>7. ASSUME NEW w \in Workers,
               \/ ReapExited(w) \/ WaitAgain(w) \/ SpuriousWakeup(w) \/ WaitTimesOut(w)
               \/ WakeDone(w) \/ ReleaseIdleWorker(w) \/ DeleteReleased(w) \/ ThreadEnds(w)
               \/ MainListExit(w) \/ MainDeleteWorker(w)
        PROVE  UNCHANGED Promise!tvars
    <2>1. /\ UNCHANGED <<shutting_down_, raced, task_, current, call, deleted>>
          /\ sd' = sd \/ (sd = "wait" /\ sd' = "woken")
      BY ZenonT(40), <1>7 DEF ReapExited, WaitAgain, SpuriousWakeup, WaitTimesOut, WakeDone, ReleaseIdleWorker,
                  DeleteReleased, ThreadEnds, MainListExit, MainDeleteWorker, NotifyShutdown
    <2>. QED  BY <2>1, Stutters
  <1>8. CASE ShutdownBegin
    <2>1. UNCHANGED <<task_, current, call, deleted>> /\ ~shutting_down_ /\ shutting_down_' /\ sd' # "done"
      BY ZenonT(40), <1>8 DEF ShutdownBegin, ListsInv
    <2>2. Assigned' = Assigned /\ Running' = Running
      BY ZenonT(40), <2>1 DEF Assigned, Running, Handing
    <2>3. Phase = "open" /\ Phase' = "closing"
      BY Zenon, <2>1 DEF Phase
    <2>4. Promise!Close
      BY Zenon, <2>1, <2>2, <2>3 DEF Promise!Close
    <2>. QED  BY <2>4 DEF Promise!Next
  <1>9. CASE ShutdownVisit \/ ShutdownWait \/ ShutdownTakeJoinList \/ ShutdownJoin \/ Terminated
    <2>1. /\ UNCHANGED <<shutting_down_, raced, task_, current, call, deleted>>
          /\ sd' = "done" <=> sd = "done"
      BY ZenonT(40), <1>9 DEF ShutdownVisit, ShutdownWait, ShutdownTakeJoinList, ShutdownJoin, Terminated, vars
    <2>2. UNCHANGED Promise!tvars
      BY Zenon, <2>1, Stutters
    <2>. QED  BY <2>2
  <1>10. CASE ShutdownReturns
    <2>1. /\ UNCHANGED <<shutting_down_, raced, task_, current, call, deleted>>
          /\ sd = "joining" /\ sd' = "done" /\ shutting_down_
      BY ZenonT(40), <1>10 DEF ShutdownReturns, ListsInv
    <2>2. Assigned' = Assigned /\ Running' = Running
      BY ZenonT(40), <2>1 DEF Assigned, Running, Handing
    <2>3. CASE raced
      <3>1. Phase' = Phase
        BY Zenon, <2>1, <2>3 DEF Phase
      <3>. QED  BY Zenon, <2>1, <2>2, <3>1 DEF Promise!tvars
    <2>4. CASE ~raced
      <3>1. Phase = "closing" /\ Phase' = "closed"
        BY Zenon, <2>1, <2>4 DEF Phase
      <3>2. \A w \in Workers : pc[w] \notin Alive
        <4>1. all_workers_ = << >> /\ saved = << >> /\ shutting_down_workers_ = << >>
          BY <2>1 DEF ExitInv, ListsInv
        <4>2. Range(<< >>) = {}
          BY DEF Range
        <4>. QED  BY Zenon, <4>1, <4>2 DEF ExitInv
      <3>3. \A w \in Workers : task_[w] = NULL /\ current[w] = NULL
        BY ZenonT(40), <2>4, <3>2 DEF TaskInv, Alive
      <3>4. Handing = {}
        BY ZenonT(40), <2>1, <2>4 DEF CallInv, Handing
      <3>5. Assigned = {} /\ Running = {}
        BY ZenonT(40), <3>3, <3>4 DEF Assigned, Running
      <3>6. Promise!Closed
        BY <2>1, <2>2, <3>1, <3>5 DEF Promise!Closed
      <3>. QED  BY <3>6 DEF Promise!Next
    <2>. QED  BY <2>3, <2>4
  <1>11. ASSUME NEW k \in Tasks, Promise!Accept(k) PROVE Promise!Next
    BY <1>11 DEF Promise!Next
  <1>. QED  BY Zenon, <1>1, <1>2, <1>3, <1>4, <1>5, <1>6, <1>7, <1>8, <1>9, <1>10, <1>11
            DEF Next, RunStep, CallStep, WorkerStep, ShutdownStep

(* The pool keeps the promise of TaskPool: an accepted task is run at most *)
(* once, none is accepted once Shutdown has begun, and Shutdown returns    *)
(* only after the last of them, unless it raced with a call of Run.        *)
THEOREM PoolKeepsItsPromise == Spec => ImplementsTaskPool
  <1>1. ASSUME Init PROVE Promise!Init
    <2>1. Phase = "open"
      BY Zenon, <1>1, PhaseIs DEF Init
    <2>2. Assigned = {} /\ Running = {} /\ deleted = {}
      BY <1>1 DEF Init, Assigned, Running, Handing
    <2>. QED  BY <2>1, <2>2 DEF Promise!Init
  <1>2. ASSUME RefInv, [Next]_vars PROVE [Promise!Next]_(Promise!tvars)
    <2>1. CASE UNCHANGED vars
      <3>1. UNCHANGED <<shutting_down_, raced, sd, task_, current, call, deleted>>
        BY <2>1 DEF vars, pool, fields, threads, shutdown
      <3>. QED  BY Zenon, <3>1, Stutters
    <2>. QED  BY Zenon, <1>2, <2>1, Simulates
  <1>. QED  BY <1>1, <1>2, RefInvariant, PTL DEF Spec, ImplementsTaskPool, Promise!Spec

===============================================================================
