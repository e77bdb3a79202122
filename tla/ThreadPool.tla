------------------------------ MODULE ThreadPool ------------------------------
(***************************************************************************)
(* The VM's thread pool (runtime/vm/thread_pool.cc): Run hands a task to   *)
(* an idle worker or to a new one, a worker that stays idle too long is    *)
(* released, and Shutdown (called by ~ThreadPool) waits until every worker *)
(* thread is gone.                                                         *)
(*                                                                         *)
(* Locks.  A section under ThreadPool::mutex_ never blocks, so it is one   *)
(* step.  A worker's monitor_ is held across steps only while the worker   *)
(* joins exited threads (pc = "reap"); exit_monitor_ is held across steps  *)
(* only while Shutdown walks the workers (sd = "visit").  A thread that    *)
(* needs one of the two waits for it in its guard.                         *)
(***************************************************************************)
EXTENDS LinkedLists

CONSTANTS
    Workers,            \* the Worker objects that may be created, each with its thread
    Callers,            \* threads outside the pool that call Run
    Tasks,              \* the tasks that may be submitted, each once
    NULL                \* the null pointer

(* Calls of Run that have left mutex_: the task, the worker it is for, and *)
(* whether the worker is new and has been given the task.                  *)
Calls == [task : Tasks, worker : Workers, new_worker : BOOLEAN, set : BOOLEAN]

ASSUME NullAssumption == NULL \notin Workers \cup Callers \cup Tasks \cup Calls

VARIABLES
    shutting_down_, all_workers_, idle_workers_, join_list_,       \* under mutex_
    count_started_, count_stopped_, count_running_, count_idle_,   \* under mutex_
    shutting_down_workers_,     \* under exit_monitor_
    task_, done_, owned_,       \* fields of each Worker
    pc,         \* where each worker's thread is
    current,    \* Loop's local "task": the task a worker is running
    reap,       \* SetIdleAndReapExited's local "list"
    call,       \* the call of Run each thread is in, or NULL
    sd,         \* where the thread that runs Shutdown is
    saved,      \* Shutdown's local "saved"
    list,       \* Shutdown's local "list"
    raced,      \* history: a call of Run was in progress when Shutdown began
    rejected,   \* tasks for which Run returned false
    deleted     \* tasks that were run and deleted

counts == <<count_started_, count_stopped_, count_running_, count_idle_>>
pool == <<shutting_down_, all_workers_, idle_workers_, counts>>
fields == <<task_, done_, owned_>>
threads == <<pc, current, reap>>
shutdown == <<shutting_down_workers_, sd, saved, list, raced>>
vars == <<pool, join_list_, fields, threads, call, shutdown, rejected, deleted>>

Threads == Workers \cup Callers

(* A worker thread:                                                        *)
(*   "none" no Worker yet, "new" constructed but not started, "started"    *)
(*   before Loop's first task, "run" in task->Run(), "reap" joining exited *)
(*   threads, "wait" blocked in Wait, "woken" and "timedout" out of Wait   *)
(*   but not yet past it, "released" Loop returned true, "exit" Loop       *)
(*   returned false, "listed" its thread id is in join_list_, "deleted"    *)
(*   the Worker is deleted, "gone" the thread has ended.                   *)
WorkerStates == {"none", "new", "started", "run", "reap", "wait", "woken", "timedout",
                 "released", "exit", "listed", "deleted", "gone"}

(* The thread in Shutdown: "visit" telling the workers, holding            *)
(* exit_monitor_; "wait" and "woken" around eml.Wait(); "join" before and  *)
(* "joining" in JoinList::Join; "done" after it returned.                  *)
ShutdownStates == {"no", "visit", "wait", "woken", "join", "joining", "done"}

Freed(w) == pc[w] \in {"deleted", "gone"}
MonitorFree(w) == pc[w] # "reap"
ExitMonitorFree == sd # "visit"

(* Tasks that Run accepted: not yet set or set on a worker, or running.    *)
Handing == {t \in Threads : call[t] # NULL /\ ~call[t].set}
Assigned == {call[t].task : t \in Handing} \cup ({task_[w] : w \in Workers} \ {NULL})
Running == {current[w] : w \in Workers} \ {NULL}
Held == Assigned \cup Running

Init ==
    /\ shutting_down_ = FALSE
    /\ all_workers_ = << >> /\ idle_workers_ = << >> /\ join_list_ = << >>
    /\ count_started_ = 0 /\ count_stopped_ = 0
    /\ count_running_ = 0 /\ count_idle_ = 0
    /\ shutting_down_workers_ = << >>
    /\ task_ = [w \in Workers |-> NULL]
    /\ done_ = [w \in Workers |-> FALSE]
    /\ owned_ = [w \in Workers |-> FALSE]
    /\ pc = [w \in Workers |-> "none"]
    /\ current = [w \in Workers |-> NULL]
    /\ reap = [w \in Workers |-> << >>]
    /\ call = [t \in Threads |-> NULL]
    /\ sd = "no" /\ saved = << >> /\ list = << >> /\ raced = FALSE
    /\ rejected = {} /\ deleted = {}

-----------------------------------------------------------------------------
(* ThreadPool::Run.  The caller is a thread outside the pool or a worker   *)
(* inside task->Run().                                                     *)

MayCallRun(t) ==
    /\ sd # "done"
    /\ call[t] = NULL
    /\ t \in Workers => pc[t] = "run"

Fresh(k) == k \in Tasks \ (Held \cup rejected \cup deleted)

RunRejected(t, k) ==
    /\ MayCallRun(t) /\ Fresh(k)
    /\ shutting_down_
    /\ rejected' = rejected \cup {k}
    /\ UNCHANGED <<pool, join_list_, fields, threads, call, shutdown, deleted>>

RunNewWorker(t, k, w) ==
    /\ MayCallRun(t) /\ Fresh(k)
    /\ ~shutting_down_
    /\ idle_workers_ = << >>
    /\ pc[w] = "none"
    /\ count_started_' = count_started_ + 1
    /\ all_workers_' = Cons(w, all_workers_)
    /\ owned_' = [owned_ EXCEPT ![w] = TRUE]
    /\ count_running_' = count_running_ + 1
    /\ pc' = [pc EXCEPT ![w] = "new"]
    /\ call' = [call EXCEPT ![t] = [task |-> k, worker |-> w, new_worker |-> TRUE, set |-> FALSE]]
    /\ UNCHANGED <<shutting_down_, idle_workers_, join_list_, count_stopped_, count_idle_,
                   task_, done_, current, reap, shutdown, rejected, deleted>>

RunIdleWorker(t, k) ==
    /\ MayCallRun(t) /\ Fresh(k)
    /\ ~shutting_down_
    /\ idle_workers_ # << >>
    /\ idle_workers_' = Tail(idle_workers_)
    /\ count_idle_' = count_idle_ - 1
    /\ count_running_' = count_running_ + 1
    /\ call' = [call EXCEPT ![t] = [task |-> k, worker |-> Head(idle_workers_),
                                    new_worker |-> FALSE, set |-> FALSE]]
    /\ UNCHANGED <<shutting_down_, all_workers_, join_list_, count_started_, count_stopped_,
                   fields, threads, shutdown, rejected, deleted>>

(* Mutant: the notification is forgotten.                                  *)
NotifyNobody(w) == UNCHANGED pc

(* Notify on a worker's monitor_ wakes the worker if it waits.             *)
Notify(w) == pc' = IF pc[w] = "wait" THEN [pc EXCEPT ![w] = "woken"] ELSE pc

(* Worker::SetTask, called after mutex_ was released.  If the worker was   *)
(* deleted meanwhile the store goes to freed memory and nobody reads it.   *)
SetTask(t) ==
    /\ call[t] # NULL /\ ~call[t].set
    /\ LET w == call[t].worker IN
       /\ MonitorFree(w)
       /\ task_' = [task_ EXCEPT ![w] = call[t].task]
       /\ Notify(w)
       /\ call' = [call EXCEPT ![t] = IF @.new_worker THEN [@ EXCEPT !.set = TRUE] ELSE NULL]
    /\ UNCHANGED <<pool, join_list_, done_, owned_, current, reap, shutdown, rejected, deleted>>

(* Worker::StartThread: the new worker's first task is already set.        *)
StartThread(t) ==
    /\ call[t] # NULL /\ call[t].set
    /\ pc' = [pc EXCEPT ![call[t].worker] = "started"]
    /\ call' = [call EXCEPT ![t] = NULL]
    /\ UNCHANGED <<pool, join_list_, fields, current, reap, shutdown, rejected, deleted>>

-----------------------------------------------------------------------------
(* Worker::Main and Worker::Loop.                                          *)

(* The head of Loop's outer loop: take task_ and leave the monitor.        *)
TakeTask(w) ==
    /\ current' = [current EXCEPT ![w] = task_[w]]
    /\ task_' = [task_ EXCEPT ![w] = NULL]
    /\ pc' = [pc EXCEPT ![w] = "run"]

MainStart(w) ==
    /\ pc[w] = "started"
    /\ TakeTask(w)
    /\ UNCHANGED <<pool, join_list_, done_, owned_, reap, call, shutdown, rejected, deleted>>

(* task->Run() has returned: delete the task and re-enter the monitor;     *)
(* leave if done_, else SetIdleAndReapExited with mutex_, which does       *)
(* nothing during shutdown.                                                *)
TaskFinished(w) ==
    /\ pc[w] = "run" /\ call[w] = NULL
    /\ deleted' = deleted \cup {current[w]}
    /\ current' = [current EXCEPT ![w] = NULL]

LoopDone(w) ==
    /\ TaskFinished(w)
    /\ done_[w]
    /\ pc' = [pc EXCEPT ![w] = "exit"]
    /\ UNCHANGED <<pool, join_list_, fields, reap, call, shutdown, rejected>>

SetIdleAndReapExited(w) ==
    /\ TaskFinished(w)
    /\ ~done_[w]
    /\ ~shutting_down_
    /\ idle_workers_' = Cons(w, idle_workers_)
    /\ count_idle_' = count_idle_ + 1
    /\ count_running_' = count_running_ - 1
    /\ reap' = [reap EXCEPT ![w] = join_list_]
    /\ join_list_' = << >>
    /\ pc' = [pc EXCEPT ![w] = IF join_list_ = << >> THEN "wait" ELSE "reap"]
    /\ UNCHANGED <<shutting_down_, all_workers_, count_started_, count_stopped_,
                   fields, call, shutdown, rejected>>

(* Mutant: join_list_ is taken before the test of shutting_down_.          *)
ReapDuringShutdown(w) ==
    /\ TaskFinished(w)
    /\ ~done_[w]
    /\ shutting_down_
    /\ reap' = [reap EXCEPT ![w] = join_list_]
    /\ join_list_' = << >>
    /\ pc' = [pc EXCEPT ![w] = IF join_list_ = << >> THEN "wait" ELSE "reap"]
    /\ UNCHANGED <<pool, fields, call, shutdown, rejected>>

SetIdleDuringShutdown(w) ==
    /\ TaskFinished(w)
    /\ ~done_[w]
    /\ shutting_down_
    /\ pc' = [pc EXCEPT ![w] = "wait"]
    /\ UNCHANGED <<pool, join_list_, fields, reap, call, shutdown, rejected>>

(* JoinList::Join, one thread: OSThread::Join returns once it has ended.   *)
ReapExited(w) ==
    /\ pc[w] = "reap"
    /\ pc[Head(reap[w])] = "gone"
    /\ reap' = [reap EXCEPT ![w] = Tail(@)]
    /\ pc' = [pc EXCEPT ![w] = IF Tail(reap[w]) = << >> THEN "wait" ELSE "reap"]
    /\ UNCHANGED <<pool, join_list_, fields, current, call, shutdown, rejected, deleted>>

(* Wait may return without a notification; it times out after              *)
(* --worker_timeout_millis.                                                *)
SpuriousWakeup(w) ==
    /\ pc[w] = "wait"
    /\ pc' = [pc EXCEPT ![w] = "woken"]
    /\ UNCHANGED <<pool, join_list_, fields, current, reap, call, shutdown, rejected, deleted>>

WaitTimesOut(w) ==
    /\ pc[w] = "wait"
    /\ pc' = [pc EXCEPT ![w] = "timedout"]
    /\ UNCHANGED <<pool, join_list_, fields, current, reap, call, shutdown, rejected, deleted>>

(* Back from Wait with the monitor, the three ways out and the way back.   *)
OutOfWait(w) == pc[w] \in {"woken", "timedout"}

WakeWithTask(w) ==
    /\ OutOfWait(w)
    /\ task_[w] # NULL
    /\ TakeTask(w)
    /\ UNCHANGED <<pool, join_list_, done_, owned_, reap, call, shutdown, rejected, deleted>>

WakeDone(w) ==
    /\ OutOfWait(w)
    /\ task_[w] = NULL /\ done_[w]
    /\ pc' = [pc EXCEPT ![w] = "exit"]
    /\ UNCHANGED <<pool, join_list_, fields, current, reap, call, shutdown, rejected, deleted>>

MayRelease(w) == pc[w] = "timedout" /\ ~shutting_down_ /\ Contains(idle_workers_, w)

(* Mutant: a time-out ends the worker although ReleaseIdleWorker refused.  *)
TimeOutEndsWorker(w) ==
    /\ OutOfWait(w)
    /\ task_[w] = NULL /\ ~done_[w]
    /\ ~MayRelease(w)
    /\ pc' = [pc EXCEPT ![w] = IF @ = "timedout" THEN "released" ELSE "wait"]
    /\ UNCHANGED <<pool, join_list_, fields, current, reap, call, shutdown, rejected, deleted>>

WaitAgain(w) ==
    /\ OutOfWait(w)
    /\ task_[w] = NULL /\ ~done_[w]
    /\ ~MayRelease(w)
    /\ pc' = [pc EXCEPT ![w] = "wait"]
    /\ UNCHANGED <<pool, join_list_, fields, current, reap, call, shutdown, rejected, deleted>>

(* ThreadPool::ReleaseIdleWorker, with RemoveWorkerFromIdleList and        *)
(* RemoveWorkerFromAllList, which sets done_ for the head of the list only.*)
ReleaseIdleWorker(w) ==
    /\ OutOfWait(w)
    /\ task_[w] = NULL /\ ~done_[w]
    /\ MayRelease(w)
    /\ \E i \in DOMAIN idle_workers_ :
          idle_workers_[i] = w /\ idle_workers_' = RemoveAt(idle_workers_, i)
    /\ \E i \in DOMAIN all_workers_ :
          /\ all_workers_[i] = w
          /\ all_workers_' = RemoveAt(all_workers_, i)
          /\ done_' = [done_ EXCEPT ![w] = (i = 1)]
    /\ owned_' = [owned_ EXCEPT ![w] = FALSE]
    /\ join_list_' = Cons(w, join_list_)
    /\ count_stopped_' = count_stopped_ + 1
    /\ count_idle_' = count_idle_ - 1
    /\ pc' = [pc EXCEPT ![w] = "released"]
    /\ UNCHANGED <<shutting_down_, count_started_, count_running_, task_, current, reap,
                   call, shutdown, rejected, deleted>>

(* Main after Loop: a released worker is deleted; otherwise its thread id  *)
(* goes to join_list_, it leaves shutting_down_workers_ under              *)
(* exit_monitor_, is deleted, and Shutdown is notified.                    *)
DeleteReleased(w) ==
    /\ pc[w] = "released"
    /\ pc' = [pc EXCEPT ![w] = "deleted"]
    /\ UNCHANGED <<pool, join_list_, fields, current, reap, call, shutdown, rejected, deleted>>

MainListExit(w) ==
    /\ pc[w] = "exit"
    /\ join_list_' = Cons(w, join_list_)
    /\ pc' = [pc EXCEPT ![w] = "listed"]
    /\ UNCHANGED <<pool, fields, current, reap, call, shutdown, rejected, deleted>>

(* Notify on exit_monitor_.                                                *)
NotifyShutdown == sd' = IF sd = "wait" THEN "woken" ELSE sd

MainDeleteWorker(w) ==
    /\ pc[w] = "listed"
    /\ ExitMonitorFree
    /\ shutting_down_workers_' = RemoveFirst(shutting_down_workers_, w)
    /\ pc' = [pc EXCEPT ![w] = "deleted"]
    /\ NotifyShutdown
    /\ UNCHANGED <<pool, join_list_, fields, current, reap, call, saved, list, raced, rejected, deleted>>

ThreadEnds(w) ==
    /\ pc[w] = "deleted"
    /\ pc' = [pc EXCEPT ![w] = "gone"]
    /\ UNCHANGED <<pool, join_list_, fields, current, reap, call, shutdown, rejected, deleted>>

-----------------------------------------------------------------------------
(* ThreadPool::Shutdown, called once, by a thread that is no worker (so    *)
(* the test of the worker's id against the current thread always passes).  *)

ShutdownBegin ==
    /\ sd = "no"
    /\ raced' = \E t \in Threads : call[t] # NULL
    /\ shutting_down_' = TRUE
    /\ saved' = all_workers_
    /\ all_workers_' = << >> /\ idle_workers_' = << >>
    /\ owned_' = [w \in Workers |-> owned_[w] /\ ~Contains(all_workers_, w)]
    /\ count_stopped_' = count_stopped_ + Len(all_workers_)
    /\ count_idle_' = 0 /\ count_running_' = 0
    /\ sd' = "visit"
    /\ UNCHANGED <<join_list_, count_started_, task_, done_, threads, call, list,
                   shutting_down_workers_, rejected, deleted>>

(* One worker of the loop: id(), AddWorkerToShutdownList, Worker::Shutdown.*)
ShutdownVisit ==
    /\ sd = "visit" /\ saved # << >>
    /\ LET w == Head(saved) IN
       /\ MonitorFree(w)
       /\ shutting_down_workers_' = Cons(w, shutting_down_workers_)
       /\ done_' = [done_ EXCEPT ![w] = TRUE]
       /\ Notify(w)
    /\ saved' = Tail(saved)
    /\ UNCHANGED <<pool, join_list_, task_, owned_, current, reap, call, sd, list, raced,
                   rejected, deleted>>

(* Mutant: the wait loop is left after one exit.                           *)
WaitOnce == sd = "woken" \/ shutting_down_workers_ = << >>

AllWorkersExited == shutting_down_workers_ = << >>

(* The test of the wait loop, first after the visits and then on each      *)
(* wake-up.  Wait releases exit_monitor_.                                  *)

ShutdownWait ==
    /\ \/ sd = "visit" /\ saved = << >>
       \/ sd = "woken"
    /\ sd' = IF AllWorkersExited THEN "join" ELSE "wait"
    /\ UNCHANGED <<pool, join_list_, fields, threads, call, saved, list, raced,
                   shutting_down_workers_, rejected, deleted>>

ShutdownTakeJoinList ==
    /\ sd = "join"
    /\ list' = join_list_
    /\ join_list_' = << >>
    /\ sd' = "joining"
    /\ UNCHANGED <<pool, fields, threads, call, saved, raced, shutting_down_workers_, rejected, deleted>>

ShutdownJoin ==
    /\ sd = "joining" /\ list # << >>
    /\ pc[Head(list)] = "gone"
    /\ list' = Tail(list)
    /\ UNCHANGED <<pool, join_list_, fields, threads, call, saved, sd, raced,
                   shutting_down_workers_, rejected, deleted>>

ShutdownReturns ==
    /\ sd = "joining" /\ list = << >>
    /\ sd' = "done"
    /\ UNCHANGED <<pool, join_list_, fields, threads, call, saved, list, raced,
                   shutting_down_workers_, rejected, deleted>>

Terminated == sd = "done" /\ UNCHANGED vars

-----------------------------------------------------------------------------
RunStep(t) ==
    \/ \E k \in Tasks : RunRejected(t, k)
    \/ \E k \in Tasks, w \in Workers : RunNewWorker(t, k, w)
    \/ \E k \in Tasks : RunIdleWorker(t, k)

(* What a thread does by itself once it is in Run, in the pool or in       *)
(* Shutdown.                                                               *)
CallStep(t) == SetTask(t) \/ StartThread(t)

WorkerStep(w) ==
    \/ MainStart(w)
    \/ LoopDone(w) \/ SetIdleAndReapExited(w) \/ SetIdleDuringShutdown(w)
    \/ ReapExited(w)
    \/ WakeWithTask(w) \/ WakeDone(w) \/ WaitAgain(w) \/ ReleaseIdleWorker(w)
    \/ DeleteReleased(w) \/ MainListExit(w) \/ MainDeleteWorker(w) \/ ThreadEnds(w)

ShutdownStep ==
    \/ ShutdownVisit \/ ShutdownWait
    \/ ShutdownTakeJoinList \/ ShutdownJoin \/ ShutdownReturns

Next ==
    \/ \E t \in Threads : RunStep(t) \/ CallStep(t)
    \/ \E w \in Workers : WorkerStep(w) \/ SpuriousWakeup(w) \/ WaitTimesOut(w)
    \/ ShutdownBegin \/ ShutdownStep
    \/ Terminated

Spec == Init /\ [][Next]_vars

(* Threads that can run do run, and tasks return.  Nobody has to call Run  *)
(* or Shutdown, and Wait need not time out.                                *)
Fairness ==
    /\ \A t \in Threads : WF_vars(CallStep(t))
    /\ \A w \in Workers : WF_vars(WorkerStep(w))
    /\ WF_vars(ShutdownStep)

FairSpec == Spec /\ Fairness

-----------------------------------------------------------------------------
(* SetIdleAndReapExited joins threads while it holds the worker's          *)
(* monitor_, and Shutdown may be waiting for that monitor_ while it holds  *)
(* exit_monitor_: a thread that is being joined must not need a lock any   *)
(* more, or the three threads would wait for each other.                   *)
ReapedThreadsNeedNoLock ==
    \A w \in Workers : \A i \in DOMAIN reap[w] :
       pc[reap[w][i]] \in {"released", "deleted", "gone"}

(* Run hands its task to a worker that still exists.  thread_pool.h:37     *)
(* says Run "runs a task on the thread pool".                              *)
HandoverWorkerIsAlive == \A t \in Handing : ~Freed(call[t].worker)

(* A worker that somebody refers to without mutex_ is not deleted: not one *)
(* Run hands its task to, by a time-out or another Run, as long as         *)
(* Shutdown did not begin in the middle of the call; and not one in the    *)
(* list that Shutdown saved, before it was told to stop.                   *)
WorkersInUseAreAlive ==
    /\ raced \/ HandoverWorkerIsAlive
    /\ \A i \in DOMAIN saved :
          ~Freed(saved[i]) /\ pc[saved[i]] \notin {"released", "exit", "listed"}

(* A task that Run accepted is run and deleted, although the worker it was *)
(* given to may be waiting, joining other threads or about to time out;    *)
(* only a Shutdown that begins in the middle of a call of Run can lose it. *)
AcceptedTasksRun == \A k \in Tasks : k \in Held ~> k \in deleted \/ raced

(* Shutdown returns: no worker misses its notification and none keeps      *)
(* another one, or Shutdown, waiting for ever.                             *)
ShutdownTerminates == sd = "visit" ~> sd = "done"

(* The pool implements TaskPool: every accepted task is run at most once,  *)
(* none is accepted once Shutdown began, and ~ThreadPool ends only after   *)
(* the last of them (a pool whose Shutdown raced with Run never closes).   *)
Phase == CASE ~shutting_down_ -> "open"
           [] shutting_down_ /\ sd = "done" /\ ~raced -> "closed"
           [] OTHER -> "closing"
Promise == INSTANCE TaskPool WITH
    phase <- Phase, pending <- Assigned, running <- Running, finished <- deleted
ImplementsTaskPool == Promise!Spec

=============================================================================
