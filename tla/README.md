# Verification of the concurrent core of the Dart SDK

TLA+ models of those parts of the Dart SDK (1.13) whose correctness depends on
how threads, messages, callbacks and collections interleave, the TLC
configurations that check them on small instances, and TLAPS proofs for every
size. All paths are relative to the repository; `runtime/vm/` is the virtual
machine, `runtime/bin/` its embedder, `sdk/lib/` the libraries in Dart.

## The system

Dart programs share no memory: an *isolate* has a heap and one *mutator* thread
at a time, and isolates send each other messages through *ports*. What is
concurrent is therefore in the virtual machine; what is reentrant is in
`dart:async`, whose callbacks call the objects that call them.

```
 poster ──PostMessage──> PortMap ──> MessageHandler ──Run──> ThreadPool
                                      │ MessageQueue x 2         │ worker
        IsolateControl <──control─────┤                          │
        (pause, ping, kill,           └──interrupt──> isolate <──┘
         listeners)                                     │ Dart code
   EventHandler (timeouts) ──wake-ups──> Timers         │
                                         Microtasks <── Futures, Streams, Broadcast
   MarkTask, SweeperTask (pool) ── ThreadRegistry <─────┘ allocation, stores
                                   (safepoints)           StoreBuffer
                                   ThreadBarrier, tasks_  Scavenge, MarkSweep
```

* The **port map** finds the handler of a port; a **message handler** queues the
  message at one of two priorities and has at most one task in the **thread
  pool**, which runs the isolate, pauses it and ends it.
* An isolate serves **control messages** of others: pause and resume, ping,
  kill, listeners.
* The **thread registry** stops all threads of an isolate for a collection; the
  **page space** counts the tasks that use the old generation; a **thread
  barrier** keeps the collecting thread and the marking task in step; the
  **store buffer** and the **write barrier** remember pointers from old to new.
* **Timers** of all isolates share one event handler thread; **microtasks**,
  **futures** and **streams** run on the mutator, in callbacks.

The complete inventory of parts, also those that are not modelled, is the
`components` list of `PROJECT.json`.

## Modules

| Module | Models | State and actions |
|---|---|---|
| `ThreadPool` | `runtime/vm/thread_pool.cc` | `Run`, `SetTask`, `Loop`, time-outs, the join list and `Shutdown`; the fields of the pool and of each `Worker`, and where each thread is |
| `LinkedLists` | the loops over the VM's linked lists | operators on sequences, and the sequence a walk along `next` pointers meets |
| `TaskPool` | what the pool promises | a task is accepted and run once, or rejected; nothing runs after the shutdown |
| `MessageHandler` | `message_handler.cc`, interrupts of `isolate.cc`, `Resume` of `service.cc` | `Run`, `PostMessage`, `MessageNotify`, `HandleMessages`, `TaskCallback`, `HandleOOBMessages`, `AcquireQueues`, `CloseAllPorts`; the queues, the pauses, and for each thread where it is and the `min_priority` it goes by |
| `PortMap` | `port.cc` | the hash table with probing, deleted slots and rehashing; `CreatePort`, `SetPortState`, `ClosePort`, `ClosePorts` |
| `AbstractPorts` | what the port map promises | a function from ports to handlers and states |
| `MessageQueue` | `message.cc` | the linked list: `Enqueue` (also before events), `Dequeue`, `Clear` |
| `EventQueue` | what the queue promises | a sequence in which only control messages overtake |
| `IsolateControl` | `HandleMessage` and `HandleLibMessage` of `isolate.cc`, `RunIsolate`, `LowLevelShutdown` | extends `MessageQueue`: the OOB queue, arrays of capabilities and listeners with gaps, the pause count, uncaught errors |
| `ControlledIsolate` | what `isolate.dart` promises of pauses and listeners | sets of capabilities and ports |
| `ThreadRegistry` | `thread_registry.cc` | `RestoreStateTo`, `SaveStateFrom`, `PruneThread`, `CheckSafepoint`, `SafepointThreads`, `ResumeAllThreads`, the VM interrupt |
| `ConcurrentSweep` | `pages.cc`, `gc_sweeper.cc`, `heap.cc`, `Isolate::Shutdown` | extends `ThreadRegistry`: `tasks_`, `MarkSweep`, `Scavenge`, `CollectAllGarbage`, `AllocateOld`, heap iteration, `SweeperTask` |
| `ThreadBarrier` | `thread_barrier.h` | `Sync`, `Exit`, the destructor |
| `StoreBuffer` | `store_buffer.cc`, `thread.cc` | the blocks of threads and of the isolate, as operators |
| `Heap` | `scavenger.cc`, `gc_marker.cc`, `raw_object.h` | extends `ThreadBarrier`, `StoreBuffer`: stores with the write barrier, scavenging with promotion, marking by two threads, weak properties with their delay set |
| `TimerHeap` | class `_TimerHeap` of `timer_impl.dart` | a binary heap whose elements know their index, as operators |
| `TimeoutQueue` | timeouts of `eventhandler_linux.cc` | the interrupt pipe, the list of timeouts, the timer descriptor |
| `Timers` | class `_Timer` of `timer_impl.dart` | extends both: creation, cancellation, wake-ups, batches, callbacks |
| `Microtasks` | `schedule_microtask.dart`, `isolate_patch.dart` | the list with its head and two tails, the loop, the immediate callback, as operators |
| `MicrotaskQueue` | what the list promises | a queue with a part for priority callbacks |
| `Futures` | `future_impl.dart` | extends `Microtasks`: completers, `then`, `catchError`, `whenComplete`, chaining, `_propagateToListeners`; the calls in progress as a stack |
| `Streams` | `stream_impl.dart`, `stream_controller.dart` | one subscription with its buffer, both controllers, handlers and hooks; the calls in progress as a stack; uncaught errors, which end the microtask loop |
| `Broadcast` | `broadcast_stream_controller.dart` | the three broadcast controllers with their listeners |

`MC...` modules give constants values and add symmetry (used for `port_map`,
which checks no liveness); `...Proofs` modules hold the proofs and
`BasicLemmas` the facts several of them need. Names are the source's, members
with their trailing underscore. The `map` of `PROJECT.json` gives the lines that
each definition stands for.

Conventions. A section under a lock is one step, unless the code blocks or
calls out inside it; then the lock is a variable and the section several steps.
`Wait` puts a thread into a set of waiters; a notification takes it out, and so
may a spurious wake-up; it then takes the lock and looks at its condition again.
A lookup, a log line or a timeline event is left out. In the `dart:async` models a
step is what runs between two calls of user code; the user code in between may
make any call of the library, whatever calls are in progress.

### How the models fit together

`ConcurrentSweep` is a composition: each of its steps that touches the registry
*is* the step of `ThreadRegistry`, conjoined with what the page space does.
Likewise `IsolateControl` over `MessageQueue`, `Timers` over `TimerHeap` and
`TimeoutQueue`, `Heap` over `ThreadBarrier` and `StoreBuffer`, `Futures` over
`Microtasks`. Other components meet at a promise that one of them keeps:
`MessageHandler` takes the pool as `TaskPool` describes it, which `ThreadPool`
implements; `Streams` and `Broadcast` take microtasks as `MicrotaskQueue`
describes them; `ThreadRegistry` takes the marker's hand-shake with the collector
as one step (`BarrierDone`), which `ThreadBarrier` justifies; `MessageHandler`
keeps only the length of its queues, whose order is the subject of
`MessageQueue`, and the count of live ports it depends on is kept by `PortMap`.
`MCStreams` is a program that uses either kind of controller.

## Runs

| Run | What it shows | Bounds |
|---|---|---|
| `thread_pool` | a thread is joined under a lock only if it needs none (`ReapedThreadsNeedNoLock`); workers in use are alive; accepted tasks run; Shutdown ends; refinement of `TaskPool` | 2 workers, 1 caller besides the tasks themselves, 3 tasks |
| `thread_pool_run_vs_shutdown` | *violation*, see Findings | 2 workers, 2 tasks |
| `message_handler` | one task at a time, one end for each Run and no use after it; events are taken only while the isolate is not paused and none is left by a task that ends without need (`NothingIsStranded`); no message forgotten even if Dart code never returns | 2 posters, 2 pool threads and an embedder, 2 posts, both pause flags |
| `port_map` | counters match the table, searches end; refinement of `AbstractPorts` | 4 ports that collide, 2 isolates, 1 native handler, capacity 4 growing to 8 |
| `isolate_control` | refinement of `EventQueue` and of `ControlledIsolate`; requests that wait keep their place among events; every request is served | 4 scenarios of up to 4 messages: pauses, pings and kills, exit listeners, error listeners |
| `concurrent_sweep` | nobody runs during a collection, marking and iterating never meet a sweeper, the shutdown finds nobody, what one thread begins ends while no other collects | 2 collectors, 1 sweeper, 3 collections, 2 pages |
| `heap` | the remembered set is complete, scavenges and marking keep just what is reachable, the barrier is one, collections end | 4 objects, one a weak property, a store and 2 collections |
| `heap_delayed_weak_property` | *violation*, see Findings | the same |
| `timers` | an idle isolate has asked for the wake-up it needs, batches are in order, the heap stays a heap (also for every order of adding 6 timers and removing one), every timer fires if no isolate dies | 2 isolates, 3 timers, delays 0 and 1, 3 ms |
| `timers_dead_isolate` | *violation*, see Findings | the same, delay 1 |
| `futures` | the loop is scheduled exactly when it must be, no listener is lost or called out of order, every listener is called; refinement of `MicrotaskQueue` | an asynchronous and a synchronous completer, 2 listeners, 2 events |
| `streams` | events are heard in order, none while paused or after cancel, the source knows of pauses and of listeners, no event is left behind, also if callbacks throw | one subscription: 2 events and done, 2 pauses, 2 messages, 1 error at a time; broadcast: 2 subscriptions, 2 events and done, 1 pause, 1 message |

Why the bounds reach the interesting cases. Two workers allow one to be on its way
out while a task is handed to the other, and a third task finds both in any
state. Two pool threads and the embedder allow every overlap of an ending task
with the next one. The ports collide in a table of 4 and of 8, so that probing
passes deleted slots and rehashing moves entries. Four messages allow a request
that waits, an event before and after it and a second request. Three collections
are a full one, whose sweeper may still run, the one that has to wait for it, and
one of the other collector. The graphs of `heap` have every placement of a weak
property, its key, its value and a pointer chain in the two spaces. Two delays
and three timers of two isolates allow equal and different wake-up times, and
cancellation of the first, with another isolate's timeout next. Two listeners on
two completers allow chaining, listening and completing within a propagation.
Two subscriptions of which one is canceled or added while an event is fired are
the cases `_forEachListener` distinguishes.

Deadlock is checked in `thread_pool`, `message_handler`, `port_map` and `heap`.
The other systems may stop: when the bounded number of events, messages or timers
is used up, and in `concurrent_sweep` because two collectors do block each other
(see below).

### Fairness

Weak fairness only, on steps of threads that can run. `ThreadPool`: calls of
Run that have begun, workers and Shutdown go on and tasks return; nobody need
call Run, and an idle wait need not time out. `MessageHandler`: pool threads
and notifications that are due go on; Dart code polls for interrupts (every
loop and every call checks the stack limit) but need not return; what needs it has
`DartCodeReturns` as a premise. `IsolateControl`: the isolate's thread runs while
there is something to do, and handlers return. `ConcurrentSweep`: a collection
that has begun, a sweeper and the shutdown go on; nobody has to collect. `Heap`:
collections, the marking task and an interrupt that is due go on. `Timers`: the
clock, the event handler and isolates that are not idle go on. `Futures`:
callbacks return, the loop and the event loop go on. `Streams`: calls of user code
return or throw and the loop goes on until it is done or a microtask throws; it is
not assumed that another message comes or that the future of onCancel is ever
completed (`Owed` excepts what waits for these). Spurious wake-ups are never assumed.

## Findings

1. **A task handed to a deleted worker** (`thread_pool_run_vs_shutdown`). `Run`
   pops an idle worker under the lock and calls `SetTask` after it; a Shutdown
   in between ends and deletes the worker, and the task is lost although `Run`
   returned true. With no Run in progress when Shutdown begins the pool keeps
   its promise.
2. **A weak property missing in the remembered set**
   (`heap_delayed_weak_property`). A delayed weak property is visited while
   `visiting_old_object_` is another object, so that a new value marks the other
   object as remembered; the next scavenge does not update the weak property.
3. **Timers stop after an isolate died** (`timers_dead_isolate`). The event handler
   does not arm its descriptor for the next timeout when it posts one; it relies
   on the isolate it woke to send a command, and a dead one sends none.

What else came up, and how the properties say it:

* An error while a handler is paused at start is dropped
  (`message_handler.cc:264`), against `message_handler.h:36`
  (`ErrorEndsHandling`). OOB messages behind one that failed are still queued
  where `message_handler.cc:331` asserts that there are none.
* An uncaught fatal error is neither posted nor printed if the array of error
  listeners has only gaps (`FatalErrorsSurface`, `isolate.cc:1309`).
* Two racing collectors wait for each other (`CollectionsEnd` of
  `ConcurrentSweep`): one waits on `tasks_lock` without taking part in safepoints,
  the other holds the count and waits for it (`pages.cc:771`, against the comment
  at 776). In the shipped VM only the mutator collects, a helper in
  `thread_test.cc`; hence `LoneCollectionsEnd`.
* A timer callback that throws ends `_runTimers` without a new wake-up
  (`timer_impl.dart:385` against 296; `ThrowingSpec`).
* With errors that are not fatal, an uncaught error in a microtask lets the next
  event overtake the microtasks behind it (`MicrotasksFirst`,
  `isolate_patch.dart:147`); hence the premise `errorsFatal` in `LoopIsScheduled`.
* The native handler's constructor counts a live port that never becomes live;
  `TableInOrder` speaks of isolates for that reason.
* An uncaught error in a callback of a stream is thrown by a microtask of its own
  out of the loop; the microtasks behind it, and so events that may be heard, wait
  for the next message (`LeftByError` in `Owed` of `Streams`).
* Streams: a cancel within the onCancel of the done event is not recorded
  (`stream_impl.dart:394`), so that `quit` and `QuietWhenAsked` leave it out, and the future of `close` may complete before the done
  event is heard. Broadcast: the only listener of a synchronous controller that
  cancels itself and listens again in its handler makes `onListen` be called twice
  in a row (`HooksTakeTurns`); errors without a listener are dropped although
  `stream_controller.dart:108` has them reported; listening after `close` does not
  throw as `broadcast_stream_controller.dart:105` says.

## Proofs

For every value of the constants, checked by TLAPS. `PROJECT.json` lists the
theorems and which property of a run each one states.

* **`ThreadPoolProofs`**: `PoolInvariant`, `JoiningIsSafe`,
  `WorkersOutliveTheirUse`, and `PoolKeepsItsPromise`, the refinement of
  `TaskPool`. The properties speak of workers that were deleted, and say nothing
  of the states before; `PoolInv` adds which lists a worker may be in at each
  place of its thread (`ListsInv`), that only threads that are over are in the
  join list before Shutdown and in a list that is being joined (`JoinInv`), and
  that a call of Run has its worker for itself, in no list, until `SetTask`
  (`CallInv`). For the refinement `TaskInv` says which tasks are assigned, running
  and finished, each in one place, and `ExitInv` that a worker is in a list until
  its thread is over, so that `Shutdown` returns after the last task. The phase
  is "closing" for ever if a call of Run raced with Shutdown: this is the finding,
  and the part of the promise that holds in spite of it.
* **`PortMapProofs`**: `PortInvariant`, `TableStaysInOrder`, and
  `TableImplementsPorts`, the refinement of `AbstractPorts`. A table is in order
  if every entry can be reached: no unused slot lies on the path from the slot its
  port hashes to (`Passes`, `IsTable`). Inserting, deleting (which leaves a
  marker) and rehashing keep this, and exchange just the entries they should.
  That `used_ + deleted_ < capacity_` gives an unused slot is a counting argument;
  that a search reaches it, and stops at the right place, needs induction. The
  rehash is a recursive function over the old table; that it exists and what it
  computes is proved with the lemma `Recursion`.
* **`MessageHandlerProofs`**: `TypeCorrect`, `OneTask`, `TheEndComesOnce`,
  `NoneIsStranded`. `OneTaskAtATime` is inductive with what ties it to `pool_`
  (`TaskInv`); the end needs that a Run without its end callback is on the pool or
  in that callback (`LifeInv`), and why a worker is on its way out (`ExitInv`).
  `NothingIsStranded` relates the `min_priority` a thread has kept since its last
  evaluation to the pauses, and the queues to the task that has ended. Its
  invariant `LeftInv` adds that the monitor is held from the moment that nothing is
  found to take to the end of the task, so that no message comes in between
  (`MonitorInv`), and what a thread knows of the queues and pauses at each place
  until then (`Knows`).
* **`IsolateControlProofs`**: `QueueKeepsItsPromise` and `ControlKeepsItsPromise`,
  the refinements of `EventQueue` and `ControlledIsolate`, and
  `RequestsStayInPlace`. `Linked` says that a sequence is what a walk from `head_`
  along `next_` meets, that it ends at `tail_`, and that it meets no message twice;
  each way of inserting, and removing the first, keeps it, for the sequence one
  would expect. `Ordered` is the invariant of the order: requests that wait are
  older than all that is still in the OOB queue, those that may overtake are
  in front, in the order they were sent, and the others between the events in that
  order. `ListsInv` says that no capability or port is in its array twice,
  wherever the gaps are, that `paused_` counts the entries, and that only an
  isolate that has failed holds a sticky error. That a free message cell is
  found is a counting argument from `sent`, not an assumption about the queue.
* **`ConcurrentSweepProofs`**: first the registry alone, with `CountIsExact`,
  `RoundsAreSeen`, `SafepointIsSafe`. There is one organizer, exactly during a
  rendezvous (`OrganizerInv`), a collector has seen `remaining_ = 0`
  (`CollectorInv`), a thread in `CheckSafepointLocked` is at most one round behind,
  and not behind at all between rendezvous (`RoundInv`), and `remaining_` is the
  number of threads not yet stopped. The last is what the assertions
  `remaining_ > 0` rest on, and needs all the others. `ImplementsRegistry` carries
  these over to the composition (`CollectionsAreSafe`); `PageSpaceInvariant`,
  `SweepersStayApart`, `NobodyIsLeftBehind`. `tasks_` is the number of threads that
  have counted themselves in, and who has waited for it to be 0 is alone
  (`AloneInv`).
* **`ThreadBarrierProofs`**: `BarrierIsABarrier` (the guarantee of the header),
  `AssertionsNeverFail`, `DestroyedWhenUnused`. The invariant ties the one bit
  `parity_` to a history variable, the number of rounds: a sleeper's parity
  differs from the barrier's exactly if its round is over (`ParityInv`).
* **`StreamsProofs`**: `EventsComeInOrder`, `SourceKnowsOfPauses`,
  `HandlersAreCalledWhenAllowed`. The calls in progress have one of six shapes
  (`StackInv`), a microtask is scheduled only while there is an event that may be
  sent (`PendingInv`), and an event that waits for onCancel is the next one to be
  heard and cannot be let through after a cancel (`HeldInv`, `OrderInv`).
* **`BasicLemmas`**: facts about lists, and induction. The library's induction
  theorems take an operator as a parameter, which the provers cannot instantiate.
  `LeastNat` is the same fact stated about a set of numbers, from the
  well-foundedness of their order; `UpTo` is induction over a set, and `Recursion`
  the existence of a function whose values each depend on the one before. With
  these, `ChainIs` gives the sequence of a linked list, and `Inserting`,
  `Removing` and `Cleared` what the pointer updates do to it.

Assumptions: finite sets where things are counted, distinct roles, natural numbers
for bounds, values that are not NULL, and for the port map positive port numbers
and an initial capacity that is a multiple of 4, as the code's is (8). TLC
evaluates them in the runs.

Only model-checked, and why:

* All liveness properties: fairness and `ENABLED` are outside the prover.
* `heap`: what is kept is a least fixed point over the object graph, and the
  invariant of a marking in progress (what is marked, on a stack or delayed) is as
  large as the collector.
* `timers`: the heap's bubbling, the list of zero timers and the pipe are RECURSIVE
  operators and folds, which the prover does not see into.
* `futures` and the broadcast part of `streams`: the invariant would have to
  describe every stack of nested propagations; for `futures` an entry is also taken
  from a bounded pool, which must be assumed not to be exhausted.

## What is not modelled

Each such part has its reason in `PROJECT.json`. In short: the compiler,
parser, object model, snapshots and core libraries are sequential code over large
data; the browser libraries are generated; dart2js, the analyzer and the tools
are programs of their own; the platform layer provides the primitives that the
models start from. The isolate life cycle around `RunIsolate`, the start and
cleanup of the VM, the thread interrupter, sockets and zones are candidates
for later. Within the modelled parts: `OSThread::Start` failing (fatal), the saved
thread state and timeline blocks of registry entries, delivery-failure ports
(no caller sets one), weak persistent handles, free lists and pages, `addStream`,
error zones, and repeating timers of zero duration.
