---------------------------- MODULE ConcurrentSweep ----------------------------
(***************************************************************************)
(* Old-space collections with concurrent sweepers (runtime/vm/pages.cc,    *)
(* gc_sweeper.cc, heap.cc), on top of the safepoints of ThreadRegistry.    *)
(* The count tasks_ of the page space, guarded by tasks_lock, keeps        *)
(* collections, heap iterations and the shutdown of the isolate apart from *)
(* sweepers; a sweeper stops for safepoints between two pages.             *)
(***************************************************************************)
EXTENDS ThreadRegistry

CONSTANTS
    Collectors,     \* threads of the isolate that may collect garbage
    MaxPages        \* bound: pages of one sweep

ASSUME CollectorsAssumption == Mutator \in Collectors /\ Collectors \subseteq Members

ASSUME PagesAssumption == MaxPages \in Nat \ {0}

(* Pool threads that run SweeperTasks.                                     *)
Sweepers == Members \ Collectors

VARIABLES
    tasks_,
    tasks_waiting,  \* threads in Wait on tasks_lock that have not been notified
    heap,           \* what each collector is doing
    sweep,          \* what each sweeper is doing
    pages,          \* pages each sweeper has left
    collections     \* collections begun, at most MaxRounds

sweepers == <<sweep, pages>>
gcvars == <<tasks_, tasks_waiting, heap, sweepers, collections>>
allvars == <<vars, gcvars>>

GCInit ==
    /\ Init
    /\ tasks_ = 0 /\ tasks_waiting = {}
    /\ heap = [c \in Collectors |-> "idle"]
    /\ sweep = [s \in Sweepers |-> "idle"]
    /\ pages = [s \in Sweepers |-> 0]
    /\ collections = 0

Do(c, phase) == heap' = [heap EXCEPT ![c] = phase]
Sweep(s, phase) == sweep' = [sweep EXCEPT ![s] = phase]

(* Runs Dart or VM code, not in the middle of a collection.                *)
Mutating(c) == heap[c] = "idle" /\ pc[c] = "running"

(* The bound: each collection takes one round of the registry.             *)
Collect(n) == collections + n <= MaxRounds /\ collections' = collections + n

(* Mutant: nobody is told.                                                 *)
NotifyNobody == UNCHANGED tasks_waiting

(* Notify wakes one thread that waits.                                     *)
Notify ==
    \/ tasks_waiting = {} /\ UNCHANGED tasks_waiting
    \/ \E c \in tasks_waiting : tasks_waiting' = tasks_waiting \ {c}

-----------------------------------------------------------------------------
(* MarkSweep, HeapIterationScope and Isolate::Shutdown wait until there    *)
(* are no tasks; the first two then count themselves.                      *)
Awaits == [await_marksweep |-> "safepoint", await_iterate |-> "iterating",
           await_shutdown |-> "shutdown"]

(* Mutant: if instead of while, so that any notification will do.          *)
WaitOnce(c, w) ==
    \/ heap[c] # w /\ tasks_ > 0 /\ UNCHANGED tasks_
       /\ Do(c, w) /\ tasks_waiting' = tasks_waiting \cup {c}
    \/ /\ tasks_ = 0 \/ heap[c] = w
       /\ Do(c, Awaits[w]) /\ tasks_' = IF w = "await_shutdown" THEN tasks_ ELSE 1
       /\ UNCHANGED tasks_waiting

(* One turn of the loop.                                                   *)
WhileTasks(c, w) ==
    \/ tasks_ > 0 /\ UNCHANGED tasks_
       /\ Do(c, w) /\ tasks_waiting' = tasks_waiting \cup {c}
    \/ /\ tasks_ = 0
       /\ Do(c, Awaits[w]) /\ tasks_' = IF w = "await_shutdown" THEN tasks_ ELSE 1
       /\ UNCHANGED tasks_waiting

(* CollectGarbage(kOld), a heap iteration, or the shutdown begins.         *)
BeginAwait(c, w) ==
    /\ Mutating(c)
    /\ IF w = "await_marksweep" THEN Collect(1) ELSE UNCHANGED collections
    /\ WhileTasks(c, w) /\ UNCHANGED <<vars, sweepers>>

Await(c, w) ==
    /\ heap[c] = w /\ c \notin tasks_waiting
    /\ WhileTasks(c, w) /\ UNCHANGED <<vars, sweepers, collections>>

SpuriousTasksWakeup(c) ==
    /\ c \in tasks_waiting
    /\ tasks_waiting' = tasks_waiting \ {c}
    /\ UNCHANGED <<vars, tasks_, heap, sweepers, collections>>

IterationEnds(c) ==
    /\ heap[c] = "iterating"
    /\ tasks_' = 0
    /\ Notify /\ Do(c, "idle")
    /\ UNCHANGED <<vars, sweepers, collections>>

(* AllocateOld in a full page space waits for the sweeper, which notifies  *)
(* after each page, until there is memory or there are no tasks.           *)
AllocateOld(c) ==
    /\ Mutating(c) /\ tasks_ > 0
    /\ Do(c, "allocating") /\ tasks_waiting' = tasks_waiting \cup {c}
    /\ UNCHANGED <<vars, tasks_, sweepers, collections>>

RetryAllocate(c) ==
    /\ heap[c] = "allocating" /\ c \notin tasks_waiting
    /\ \/ /\ tasks_ > 0 /\ Do(c, "allocating")
          /\ tasks_waiting' = tasks_waiting \cup {c} /\ UNCHANGED collections
       \/ Do(c, "idle") /\ UNCHANGED <<tasks_waiting, collections>>
       \/ tasks_ = 0 /\ Do(c, "collect_all") /\ Collect(2) /\ UNCHANGED tasks_waiting
    /\ UNCHANGED <<vars, tasks_, sweepers>>

-----------------------------------------------------------------------------
(* Collections: new space, both spaces, old space.  The steps of the       *)
(* rendezvous are those of ThreadRegistry.                                 *)
CollectNew(c) ==
    /\ Mutating(c) /\ Collect(1)
    /\ SafepointThreads(c)
    /\ Do(c, "scavenge") /\ UNCHANGED <<tasks_, tasks_waiting, sweepers>>

CollectAllGarbage(c) ==
    /\ Mutating(c) /\ Collect(2)
    /\ Do(c, "collect_all") /\ UNCHANGED <<vars, tasks_, tasks_waiting, sweepers>>

ScavengeAll(c) ==
    /\ heap[c] = "collect_all"
    /\ SafepointThreads(c)
    /\ Do(c, "scavenge_all")
    /\ UNCHANGED <<tasks_, tasks_waiting, sweepers, collections>>

MarkSweep(c) ==
    /\ heap[c] = "safepoint"
    /\ SafepointThreads(c)
    /\ Do(c, "marksweep")
    /\ UNCHANGED <<tasks_, tasks_waiting, sweepers, collections>>

(* After a scavenge, promotions may call for an old-space collection.      *)
ScavengeEnds(c) ==
    /\ heap[c] \in {"scavenge", "scavenge_all"}
    /\ ResumeAllThreads(c)
    /\ \/ heap[c] = "scavenge" /\ Do(c, "idle") /\ UNCHANGED collections
       \/ heap[c] = "scavenge" /\ Do(c, "await_marksweep") /\ Collect(1)
       \/ heap[c] = "scavenge_all" /\ Do(c, "await_marksweep") /\ UNCHANGED collections
    /\ UNCHANGED <<tasks_, tasks_waiting, sweepers>>

Rendezvous(c) ==
    /\ StayStopped(c, "join") \/ StartNextRound(c) \/ Gather(c)
    /\ UNCHANGED gcvars

(* MarkObjects, in a MarkTask or by the collector itself.                  *)
MarkObjects(c) == heap[c] = "marksweep" /\ RunMarkTask(c) /\ UNCHANGED gcvars

MarkTask(c) ==
    /\ EnterBypassing \/ ExitBypassing \/ BarrierDone(c)
    /\ UNCHANGED gcvars

(* The constructor of SweeperTask.                                         *)
CountSweeper == tasks_' = tasks_ + 1 /\ Notify

SweepConcurrent(c, s, n) ==
    /\ heap[c] = "marksweep" /\ pc[c] = "gc" /\ sweep[s] = "idle" /\ pc[s] = "outside"
    /\ CountSweeper
    /\ Sweep(s, "queued") /\ pages' = [pages EXCEPT ![s] = n]
    /\ Do(c, "swept") /\ UNCHANGED <<vars, collections>>

(* Without FLAG_concurrent_sweep the collector sweeps.                     *)
SweepNow(c) ==
    /\ heap[c] = "marksweep" /\ pc[c] = "gc"
    /\ Do(c, "swept") /\ UNCHANGED <<vars, tasks_, tasks_waiting, sweepers, collections>>

Resume(c) ==
    /\ heap[c] = "swept"
    /\ ResumeAllThreads(c)
    /\ Do(c, "resumed") /\ UNCHANGED <<tasks_, tasks_waiting, sweepers, collections>>

MarkSweepEnds(c) ==
    /\ heap[c] = "resumed"
    /\ tasks_' = tasks_ - 1 /\ Notify
    /\ Do(c, "idle") /\ UNCHANGED <<vars, sweepers, collections>>

-----------------------------------------------------------------------------
(* SweeperTask::Run.                                                       *)
SweeperEnters(s) ==
    /\ sweep[s] = "queued"
    /\ RestoreStateTo(s)
    /\ Sweep(s, IF pc'[s] = "running" THEN "sweeping" ELSE "queued")
    /\ UNCHANGED <<tasks_, tasks_waiting, heap, pages, collections>>

SweeperChecks(s) ==
    /\ sweep[s] = "sweeping"
    /\ CheckSafepoint(s)
    /\ Sweep(s, "page")
    /\ UNCHANGED <<tasks_, tasks_waiting, heap, pages, collections>>

SweeperStopped(s) ==
    /\ StayStopped(s, "at_safepoint") \/ LeaveSafepoint(s)
    /\ UNCHANGED gcvars

SweepPage(s) ==
    /\ sweep[s] = "page" /\ pc[s] = "running"
    /\ pages' = [pages EXCEPT ![s] = @ - 1]
    /\ Sweep(s, IF pages[s] = 1 THEN "swept" ELSE "sweeping")
    /\ Notify /\ UNCHANGED <<vars, tasks_, heap, collections>>

SweeperExits(s) ==
    /\ sweep[s] = "swept"
    /\ SaveStateFrom(s)
    /\ Sweep(s, "left") /\ UNCHANGED <<tasks_, tasks_waiting, heap, pages, collections>>

(* Mutant: the sweeper notifies before it leaves the isolate.              *)
DoneBeforeExit(s) ==
    /\ sweep[s] = "swept" /\ tasks_' = tasks_ - 1 /\ Notify
    /\ Sweep(s, "idle") /\ UNCHANGED <<vars, heap, pages, collections>>

SweeperDone(s) ==
    /\ sweep[s] = "left" /\ tasks_' = tasks_ - 1 /\ Notify
    /\ Sweep(s, "idle") /\ UNCHANGED <<vars, heap, pages, collections>>

-----------------------------------------------------------------------------
ShuttingDown == heap[Mutator] \in {"await_shutdown", "shutdown", "gone"}

(* A collector between collections: it enters and leaves the isolate, and  *)
(* stops for the collections of others.                                    *)
EnterIsolate(c) ==
    /\ heap[c] = "idle" /\ ~ShuttingDown
    /\ RestoreStateTo(c) /\ UNCHANGED gcvars

ExitIsolate(c) == Mutating(c) /\ SaveStateFrom(c) /\ UNCHANGED gcvars

HandleInterrupts(c) ==
    /\ heap[c] = "idle"
    /\ (c = Mutator /\ GetAndClearInterrupts) \/ CheckSafepoint(c)
    /\ UNCHANGED gcvars

CollectorStopped(c) ==
    /\ StayStopped(c, "at_safepoint") \/ LeaveSafepoint(c)
    /\ UNCHANGED gcvars

(* Isolate::Shutdown, when the helpers other than sweepers have left (the  *)
(* caller waits for those): wait for the tasks, and leave for good.        *)
BeginShutdown ==
    /\ \A c \in Collectors \ {Mutator} : pc[c] = "outside"
    /\ BeginAwait(Mutator, "await_shutdown")

Shutdown ==
    /\ heap[Mutator] = "shutdown"
    /\ SaveStateFrom(Mutator)
    /\ Do(Mutator, "gone") /\ UNCHANGED <<tasks_, tasks_waiting, sweepers, collections>>

(* The isolate is gone; nothing more happens in it.                        *)
Gone == heap[Mutator] = "gone" /\ UNCHANGED allvars

(* Steps that a collector takes when it chooses to, and those it owes.     *)
Begin(c) ==
    \/ \E w \in {"await_marksweep", "await_iterate"} : BeginAwait(c, w)
    \/ AllocateOld(c)
    \/ CollectNew(c)
    \/ CollectAllGarbage(c)
    \/ EnterIsolate(c)
    \/ ExitIsolate(c)

Continue(c) ==
    \/ \E w \in DOMAIN Awaits : Await(c, w)
    \/ IterationEnds(c)
    \/ RetryAllocate(c)
    \/ ScavengeAll(c)
    \/ MarkSweep(c)
    \/ ScavengeEnds(c)
    \/ Rendezvous(c)
    \/ MarkObjects(c)
    \/ MarkTask(c)
    \/ \E s \in Sweepers, n \in 1 .. MaxPages : SweepConcurrent(c, s, n)
    \/ SweepNow(c)
    \/ Resume(c)
    \/ MarkSweepEnds(c)
    \/ HandleInterrupts(c)
    \/ CollectorStopped(c)

SweeperStep(s) ==
    \/ SweeperEnters(s)
    \/ SweeperChecks(s)
    \/ SweeperStopped(s)
    \/ SweepPage(s)
    \/ SweeperExits(s)
    \/ SweeperDone(s)

GCNext ==
    \/ \E c \in Collectors : Begin(c) \/ Continue(c) \/ SpuriousTasksWakeup(c)
    \/ \E s \in Sweepers : SweeperStep(s)
    \/ \E t \in Members : SpuriousWakeup(t) /\ UNCHANGED gcvars
    \/ BeginShutdown
    \/ Shutdown
    \/ Gone

GCSpec == GCInit /\ [][GCNext]_allvars

(* Threads that can go on do; nobody has to begin anything.                *)
GCFairSpec ==
    /\ GCSpec
    /\ \A c \in Collectors : WF_allvars(Continue(c))
    /\ \A s \in Sweepers : WF_allvars(SweeperStep(s))
    /\ WF_allvars(Shutdown)

-----------------------------------------------------------------------------
Sweeping == {s \in Sweepers : sweep[s] # "idle"}

(* No sweeper exists while the heap is marked or iterated over, or after   *)
(* Shutdown has waited for the tasks: pages.cc:783 "relies on no tasks     *)
(* interfering", heap.cc:224, isolate.cc:1687.                             *)
SweepersKeptApart ==
    \A c \in Collectors :
        heap[c] \in {"safepoint", "marksweep", "iterating", "shutdown", "gone"} => Sweeping = {}

(* isolate.cc:1698 "All threads should have exited by now": when Shutdown  *)
(* has left the isolate, nobody is scheduled in it, so a sweeper must      *)
(* leave before it counts itself out.                                      *)
ShutdownFindsNobody == heap[Mutator] = "gone" => scheduled = {}

Ends(c) == heap[c] \notin {"idle", "gone"} ~> heap[c] \in {"idle", "gone"}

(* Every collection, iteration, allocation and shutdown that has begun     *)
(* ends, also if collectors race, as pages.cc:776 says.                    *)
CollectionsEnd == \A c \in Collectors : Ends(c)

(* As long as only one thread at a time collects, allocates, iterates or   *)
(* shuts down, what it does ends: when it waits for tasks it is told, and  *)
(* a rendezvous it calls completes, although sweepers come and go and the  *)
(* mutator, which polls only when it is interrupted, runs Dart code.       *)
LoneCollectionsEnd ==
    \A c \in Collectors :
        [](\A d \in Collectors \ {c} : heap[d] = "idle") => Ends(c)

===============================================================================
