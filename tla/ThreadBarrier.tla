----------------------------- MODULE ThreadBarrier -----------------------------
(***************************************************************************)
(* The barrier of parallel marking (runtime/vm/thread_barrier.h): each     *)
(* participant calls Sync once per round and then Exit; the destructor     *)
(* waits until all have left.  One step per lock section.                  *)
(***************************************************************************)
EXTENDS Integers, FiniteSets

CONSTANTS
    Threads,    \* the participants
    Owner,      \* the one that destroys the barrier after its Exit
    Rounds      \* how often each of them calls Sync

ASSUME BarrierAssumption ==
    /\ IsFiniteSet(Threads) /\ Owner \in Threads
    /\ Rounds \in Nat

num_threads_ == Cardinality(Threads)

VARIABLES
    remaining_, parity_, done_,
    old_parity,     \* the local variable of Sync
    calls,          \* how often each thread has called Sync
    round,          \* history: rounds completed
    waiting,        \* threads in Wait on monitor_ that have not been notified
    destructor,     \* "none", in Wait on done_monitor_, notified, or returned
    pc

vars == <<remaining_, parity_, done_, old_parity, calls, round, waiting, destructor, pc>>

Init ==
    /\ remaining_ = num_threads_ /\ parity_ = FALSE /\ done_ = FALSE
    /\ old_parity = [t \in Threads |-> FALSE]
    /\ calls = [t \in Threads |-> 0] /\ round = 0
    /\ waiting = {} /\ destructor = "none"
    /\ pc = [t \in Threads |-> "work"]

Goto(t, l) == pc' = [pc EXCEPT ![t] = l]

(* Not the last to arrive.                                                 *)
SyncWaits(t) ==
    /\ remaining_ - 1 > 0
    /\ remaining_' = remaining_ - 1
    /\ old_parity' = [old_parity EXCEPT ![t] = parity_]
    /\ Goto(t, "sync") /\ waiting' = waiting \cup {t}
    /\ UNCHANGED <<parity_, round>>

Reset == num_threads_

(* Mutant: the others are not told.                                        *)
Unnotified == waiting

NotifyAll == {}

SyncLast(t) ==
    /\ remaining_ - 1 <= 0
    /\ remaining_' = Reset /\ parity_' = ~parity_ /\ round' = round + 1
    /\ waiting' = NotifyAll
    /\ UNCHANGED <<old_parity, pc>>

Sync(t) ==
    /\ pc[t] = "work" /\ calls[t] < Rounds
    /\ calls' = [calls EXCEPT ![t] = @ + 1]
    /\ SyncWaits(t) \/ SyncLast(t)
    /\ UNCHANGED <<done_, destructor>>

(* Mutant: any wake-up ends the wait.                                      *)
AnyWakeup(t) == TRUE

NewParity(t) == parity_ # old_parity[t]

SyncWakes(t) ==
    /\ pc[t] = "sync" /\ t \notin waiting
    /\ \/ NewParity(t) /\ Goto(t, "work") /\ UNCHANGED waiting
       \/ ~NewParity(t) /\ waiting' = waiting \cup {t} /\ UNCHANGED pc
    /\ UNCHANGED <<remaining_, parity_, done_, old_parity, calls, round, destructor>>

SpuriousWakeup(t) ==
    /\ t \in waiting /\ waiting' = waiting \ {t}
    /\ UNCHANGED <<remaining_, parity_, done_, old_parity, calls, round, destructor, pc>>

LastOut == remaining_ - 1 = 0

Exit(t) ==
    /\ pc[t] = "work" /\ calls[t] = Rounds
    /\ remaining_' = remaining_ - 1
    /\ Goto(t, IF LastOut THEN "last" ELSE "exited")
    /\ UNCHANGED <<parity_, done_, old_parity, calls, round, waiting, destructor>>

(* The second half of Exit, under done_monitor_.                           *)
SetDone(t) ==
    /\ pc[t] = "last"
    /\ done_' = TRUE /\ Goto(t, "exited")
    /\ destructor' = IF destructor = "waiting" THEN "notified" ELSE destructor
    /\ UNCHANGED <<remaining_, parity_, old_parity, calls, round, waiting>>

(* A turn of the loop of ~ThreadBarrier; a notification may be spurious.   *)
Destructor ==
    /\ pc[Owner] = "exited" /\ destructor \in {"none", "notified"}
    /\ destructor' = IF done_ THEN "returned" ELSE "waiting"
    /\ UNCHANGED <<remaining_, parity_, done_, old_parity, calls, round, waiting, pc>>

DestructorSpurious ==
    /\ destructor = "waiting" /\ destructor' = "notified"
    /\ UNCHANGED <<remaining_, parity_, done_, old_parity, calls, round, waiting, pc>>

Destroyed == destructor = "returned" /\ UNCHANGED vars

Step(t) == Sync(t) \/ SyncWakes(t) \/ Exit(t) \/ SetDone(t)

Next ==
    \/ \E t \in Threads : Step(t) \/ SpuriousWakeup(t)
    \/ Destructor
    \/ DestructorSpurious
    \/ Destroyed

Spec == Init /\ [][Next]_vars

-----------------------------------------------------------------------------
(* The types of the barrier.                                               *)
TypeOK ==
    /\ remaining_ \in 0 .. num_threads_ /\ parity_ \in BOOLEAN /\ done_ \in BOOLEAN
    /\ old_parity \in [Threads -> BOOLEAN]
    /\ calls \in [Threads -> 0 .. Rounds] /\ round \in 0 .. Rounds
    /\ waiting \subseteq Threads
    /\ destructor \in {"none", "waiting", "notified", "returned"}
    /\ pc \in [Threads -> {"work", "sync", "last", "exited"}]

(* Calls of Sync from which a thread has returned.                         *)
Returned(t) == IF pc[t] = "sync" THEN calls[t] - 1 ELSE calls[t]

(* The guarantee of thread_barrier.h:21: nobody returns from its r'th call *)
(* of Sync before all have made theirs, although one bit is all that tells *)
(* a sleeper that a round is over.                                         *)
BarrierHolds == \A t, u \in Threads : Returned(t) <= calls[u]

(* A sleeper never takes part in a round it slept through, so that the     *)
(* assertions remaining_ > 0 of Sync and Exit and !done_ of Exit hold      *)
(* (thread_barrier.h:59, 79, 85).                                          *)
AssertionsHold ==
    \A t \in Threads :
        /\ pc[t] = "work" => remaining_ > 0
        /\ pc[t] = "last" => ~done_

(* The barrier is destroyed only when everybody is done with it.           *)
DestroyedUnused ==
    destructor = "returned" =>
        remaining_ = 0 /\ \A t \in Threads : pc[t] = "exited"

===============================================================================
