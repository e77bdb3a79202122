-------------------------- MODULE ThreadBarrierProofs --------------------------
(***************************************************************************)
(* Proofs about ThreadBarrier, for any number of participants and rounds.  *)
(* The argument: every thread has called Sync as often as rounds have been *)
(* completed, or once more and then sleeps; the parity tells a sleeper     *)
(* which of the two (ParityInv); and remaining_ counts those that the      *)
(* round, or the destructor, still has to wait for (CountInv).             *)
(***************************************************************************)
EXTENDS ThreadBarrier, FiniteSetTheorems, TLAPS

RoundInv ==
    \A t \in Threads :
        /\ calls[t] = round \/ (calls[t] = round + 1 /\ pc[t] = "sync")
        /\ pc[t] \in {"last", "exited"} => round = Rounds

ParityInv ==
    \A t \in Threads : pc[t] = "sync" => (calls[t] = round <=> old_parity[t] # parity_)

Left == {t \in Threads : calls[t] = round /\ pc[t] \in {"work", "sync"}}

CountInv == remaining_ = Cardinality(Left)

ExitInv ==
    /\ \A t \in Threads : pc[t] = "last" => remaining_ = 0 /\ ~done_
    /\ \A t, u \in Threads : pc[t] = "last" /\ pc[u] = "last" => t = u
    /\ done_ => \A t \in Threads : pc[t] = "exited"
    /\ destructor = "returned" => done_

Inv == TypeOK /\ RoundInv /\ ParityInv /\ CountInv /\ ExitInv

(* Removing one of the threads that are waited for.                        *)
LEMMA CountFacts ==
    ASSUME CountInv
    PROVE  /\ Cardinality(Threads) \in Nat /\ remaining_ \in Nat
           /\ \A t \in Left : /\ remaining_ >= 1
                              /\ Cardinality(Left \ {t}) = remaining_ - 1
                              /\ remaining_ = 1 => Left = {t}
           /\ remaining_ = 0 => Left = {}
  <1>1. Cardinality(Threads) \in Nat
    BY BarrierAssumption, FS_CardinalityType
  <1>2. IsFiniteSet(Left)
    BY BarrierAssumption, FS_Subset DEF Left
  <1>3. Cardinality(Left) = remaining_ /\ remaining_ \in Nat
    BY <1>2, FS_CardinalityType DEF CountInv
  <1>4. ASSUME NEW t \in Left
        PROVE  /\ remaining_ >= 1
               /\ Cardinality(Left \ {t}) = remaining_ - 1
               /\ remaining_ = 1 => Left = {t}
    <2>1. IsFiniteSet(Left \ {t}) /\ Cardinality(Left \ {t}) = remaining_ - 1
      BY <1>2, <1>3, FS_RemoveElement
    <2>2. Cardinality(Left \ {t}) \in Nat
      BY <2>1, FS_CardinalityType
    <2>3. remaining_ = 1 => Left \ {t} = {}
      BY <1>3, <2>1, FS_EmptySet
    <2>. QED BY <1>3, <2>1, <2>2, <2>3
  <1>5. remaining_ = 0 => Left = {}
    BY <1>2, <1>3, FS_EmptySet
  <1>. QED BY <1>1, <1>3, <1>4, <1>5

(* The last to call Sync finds all others asleep in this round.            *)
LEMMA LastArrives ==
    ASSUME Inv, NEW t \in Threads, pc[t] = "work", calls[t] < Rounds, remaining_ - 1 <= 0
    PROVE  /\ round < Rounds /\ calls[t] = round /\ remaining_ = 1
           /\ \A u \in Threads \ {t} :
                 calls[u] = round + 1 /\ pc[u] = "sync" /\ old_parity[u] = parity_
  <1>1. calls[t] = round /\ t \in Left
    BY DEF Inv, RoundInv, Left
  <1>2. remaining_ = 1 /\ Left = {t}
    <2>1. CountInv
      BY DEF Inv
    <2>2. remaining_ \in Nat /\ remaining_ >= 1 /\ (remaining_ = 1 => Left = {t})
      BY <1>1, <2>1, CountFacts, Zenon
    <2>3. remaining_ = 1
      BY <2>2
    <2>. QED BY <2>2, <2>3
  <1>3. round < Rounds
    BY <1>1
  <1>4. ASSUME NEW u \in Threads \ {t}
        PROVE  calls[u] = round + 1 /\ pc[u] = "sync"
    <2>1. u \notin Left
      BY <1>2
    <2>2. pc[u] \in {"work", "sync"}
      BY <1>3, BarrierAssumption DEF Inv, TypeOK, RoundInv
    <2>. QED BY <2>1, <2>2 DEF Inv, RoundInv, Left
  <1>5. ASSUME NEW u \in Threads \ {t}
        PROVE  old_parity[u] = parity_
    <2>1. calls[u] # round
      BY <1>4 DEF Inv, TypeOK
    <2>. QED BY <2>1, <1>4 DEF Inv, ParityInv
  <1>. QED BY <1>1, <1>2, <1>3, <1>4, <1>5

(* The initial state.                                                      *)
LEMMA InitInv == Init => Inv
  <1>. SUFFICES ASSUME Init PROVE Inv
    OBVIOUS
  <1>. USE DEF Init
  <1>1. Cardinality(Threads) \in Nat
    BY BarrierAssumption, FS_CardinalityType
  <1>2. Left = Threads
    BY DEF Left
  <1>3. TypeOK
    <2>1. parity_ \in BOOLEAN /\ done_ \in BOOLEAN /\ old_parity \in [Threads -> BOOLEAN]
      BY Zenon
    <2>. QED BY <1>1, <2>1, BarrierAssumption DEF TypeOK, num_threads_
  <1>. QED BY <1>2, <1>3 DEF Inv, RoundInv, ParityInv, CountInv, ExitInv, num_threads_

-----------------------------------------------------------------------------
(* One lemma for each conjunct of Inv, one case for each action.           *)
LEMMA NextRoundInv == ASSUME Inv, [Next]_vars PROVE RoundInv'
  <1>. USE BarrierAssumption DEF Inv, TypeOK, RoundInv, Goto
  <1>1. ASSUME NEW t \in Threads, Sync(t) PROVE RoundInv'
    <2>1. CASE SyncWaits(t)
      BY <1>1, <2>1 DEF Sync, SyncWaits
    <2>2. CASE SyncLast(t)
      <3>1. /\ round < Rounds /\ calls[t] = round
            /\ \A u \in Threads \ {t} : calls[u] = round + 1 /\ pc[u] = "sync"
        BY <1>1, <2>2, LastArrives DEF Sync, SyncLast
      <3>2. /\ round' = round + 1 /\ pc' = pc
            /\ calls' = [calls EXCEPT ![t] = @ + 1] /\ pc[t] = "work"
        BY <1>1, <2>2 DEF Sync, SyncLast
      <3>3. \A u \in Threads : calls'[u] = round' /\ pc'[u] \in {"work", "sync"}
        BY <3>1, <3>2
      <3>. QED BY <3>3
    <2>. QED BY <1>1, <2>1, <2>2 DEF Sync
  <1>2. ASSUME NEW t \in Threads, SyncWakes(t) PROVE RoundInv'
    <2>1. CASE NewParity(t) /\ Goto(t, "work")
      <3>1. calls[t] = round
        BY <1>2, <2>1 DEF SyncWakes, NewParity, ParityInv
      <3>. QED BY <1>2, <2>1, <3>1 DEF SyncWakes
    <2>2. CASE UNCHANGED pc
      BY <1>2, <2>2 DEF SyncWakes
    <2>. QED BY <1>2, <2>1, <2>2 DEF SyncWakes
  <1>3. ASSUME NEW t \in Threads, Exit(t) PROVE RoundInv'
    BY <1>3 DEF Exit
  <1>4. ASSUME NEW t \in Threads, SetDone(t) PROVE RoundInv'
    BY <1>4 DEF SetDone
  <1>5. ASSUME NEW t \in Threads, SpuriousWakeup(t) PROVE RoundInv'
    BY <1>5 DEF SpuriousWakeup
  <1>6. CASE Destructor \/ DestructorSpurious
    BY <1>6 DEF Destructor, DestructorSpurious
  <1>7. CASE UNCHANGED vars
    BY <1>7 DEF vars
  <1>. QED BY <1>1, <1>2, <1>3, <1>4, <1>5, <1>6, <1>7 DEF Next, Step, Destroyed

LEMMA NextParityInv == ASSUME Inv, [Next]_vars PROVE ParityInv'
  <1>. USE DEF Inv, ParityInv, Goto
  <1>1. ASSUME NEW t \in Threads, Sync(t) PROVE ParityInv'
    <2>1. CASE SyncWaits(t)
      <3>1. calls[t] = round /\ calls[t] \in Int
        BY <1>1 DEF Sync, RoundInv, TypeOK
      <3>2. calls'[t] # round' /\ old_parity'[t] = parity_'
        BY <1>1, <2>1, <3>1 DEF Sync, SyncWaits, TypeOK
      <3>3. ASSUME NEW u \in Threads, u # t, pc'[u] = "sync"
            PROVE  /\ pc[u] = "sync" /\ calls'[u] = calls[u] /\ round' = round
                   /\ old_parity'[u] = old_parity[u] /\ parity_' = parity_
        BY <1>1, <2>1, <3>3 DEF Sync, SyncWaits, TypeOK
      <3>4. ASSUME NEW u \in Threads, u # t, pc'[u] = "sync"
            PROVE  calls'[u] = round' <=> old_parity'[u] # parity_'
        BY <3>3, <3>4, Zenon
      <3>. QED BY <3>2, <3>4, Zenon
    <2>2. CASE SyncLast(t)
      <3>1. \A u \in Threads \ {t} : calls[u] = round + 1 /\ old_parity[u] = parity_
        BY <1>1, <2>2, LastArrives DEF Sync, SyncLast
      <3>2. /\ round' = round + 1 /\ pc' = pc /\ old_parity' = old_parity
            /\ calls' = [calls EXCEPT ![t] = @ + 1] /\ pc[t] = "work"
        BY <1>1, <2>2 DEF Sync, SyncLast
      <3>3. parity_' = ~parity_ /\ parity_ \in BOOLEAN
        BY <2>2, Zenon DEF SyncLast, TypeOK
      <3>4. ASSUME NEW u \in Threads, pc'[u] = "sync"
            PROVE  calls'[u] = round' /\ old_parity'[u] = parity_
        BY <3>1, <3>2, <3>4 DEF TypeOK
      <3>5. parity_ # parity_'
        BY <3>3
      <3>6. ASSUME NEW u \in Threads, pc'[u] = "sync"
            PROVE  calls'[u] = round' /\ old_parity'[u] # parity_'
        BY <3>4, <3>5, <3>6, Zenon
      <3>. QED BY <3>6, Zenon
    <2>. QED BY <1>1, <2>1, <2>2 DEF Sync
  <1>2. ASSUME NEW t \in Threads, SyncWakes(t) \/ Exit(t) \/ SetDone(t)
        PROVE  ParityInv'
    <2>1. UNCHANGED <<calls, round, old_parity, parity_>>
      BY <1>2 DEF SyncWakes, Exit, SetDone
    <2>2. \A u \in Threads : pc'[u] = "sync" => pc[u] = "sync"
      BY <1>2 DEF SyncWakes, Exit, SetDone, TypeOK
    <2>. QED BY <2>1, <2>2, Zenon
  <1>3. ASSUME NEW t \in Threads, SpuriousWakeup(t) PROVE ParityInv'
    BY <1>3 DEF SpuriousWakeup
  <1>4. CASE Destructor \/ DestructorSpurious
    BY <1>4 DEF Destructor, DestructorSpurious
  <1>5. CASE UNCHANGED vars
    BY <1>5 DEF vars
  <1>. QED BY <1>1, <1>2, <1>3, <1>4, <1>5 DEF Next, Step, Destroyed

LEMMA NextCountInv == ASSUME Inv, [Next]_vars PROVE CountInv'
  <1>. USE DEF Goto
  <1>0. CountInv
    BY DEF Inv
  <1>1. ASSUME NEW t \in Threads, Sync(t) PROVE CountInv'
    <2>1. CASE SyncWaits(t)
      <3>1. t \in Left
        BY <1>1 DEF Sync, Inv, RoundInv, Left
      <3>2. Left' = Left \ {t}
        BY <1>1, <2>1, <3>1 DEF Sync, SyncWaits, Left, Inv, TypeOK
      <3>. QED BY <1>0, <2>1, <3>1, <3>2, CountFacts DEF SyncWaits, CountInv
    <2>2. CASE SyncLast(t)
      <3>1. /\ calls[t] = round
            /\ \A u \in Threads \ {t} : calls[u] = round + 1 /\ pc[u] = "sync"
        BY <1>1, <2>2, LastArrives DEF Sync, SyncLast
      <3>2. Left' = Threads
        BY <1>1, <2>2, <3>1 DEF Sync, SyncLast, Left, Inv, TypeOK
      <3>. QED BY <2>2, <3>2 DEF SyncLast, Reset, num_threads_, CountInv
    <2>. QED BY <1>1, <2>1, <2>2 DEF Sync
  <1>2. ASSUME NEW t \in Threads, SyncWakes(t) PROVE CountInv'
    <2>1. Left' = Left
      BY <1>2 DEF SyncWakes, Left, Inv, TypeOK
    <2>. QED BY <1>0, <1>2, <2>1 DEF SyncWakes, CountInv
  <1>3. ASSUME NEW t \in Threads, Exit(t) PROVE CountInv'
    <2>1. t \in Left
      BY <1>3 DEF Exit, Inv, RoundInv, Left
    <2>2. Left' = Left \ {t}
      BY <1>3, <2>1 DEF Exit, Left, Inv, TypeOK
    <2>. QED BY <1>0, <1>3, <2>1, <2>2, CountFacts DEF Exit, CountInv
  <1>4. ASSUME NEW t \in Threads, SetDone(t) PROVE CountInv'
    <2>1. Left' = Left
      BY <1>4 DEF SetDone, Left, Inv, TypeOK
    <2>. QED BY <1>0, <1>4, <2>1 DEF SetDone, CountInv
  <1>5. ASSUME NEW t \in Threads, SpuriousWakeup(t) PROVE CountInv'
    BY <1>0, <1>5 DEF SpuriousWakeup, CountInv, Left
  <1>6. CASE Destructor \/ DestructorSpurious
    BY <1>0, <1>6 DEF Destructor, DestructorSpurious, CountInv, Left
  <1>7. CASE UNCHANGED vars
    BY <1>0, <1>7 DEF vars, CountInv, Left
  <1>. QED BY <1>1, <1>2, <1>3, <1>4, <1>5, <1>6, <1>7 DEF Next, Step, Destroyed

LEMMA NextExitInv == ASSUME Inv, [Next]_vars PROVE ExitInv'
  <1>. USE DEF Goto
  <1>0. TypeOK /\ RoundInv /\ CountInv /\ ExitInv
    BY DEF Inv
  <1>1. ASSUME NEW t \in Threads, Sync(t) PROVE ExitInv'
    <2>1. calls[t] = round /\ round < Rounds
      BY <1>0, <1>1 DEF Sync, RoundInv
    <2>2. ~done_ /\ \A u \in Threads : pc[u] # "last"
      BY <1>0, <1>1, <2>1, BarrierAssumption DEF Sync, RoundInv, ExitInv, TypeOK
    <2>3. UNCHANGED <<done_, destructor>> /\ \A u \in Threads : pc'[u] # "last"
      BY <1>0, <1>1, <2>2 DEF Sync, SyncWaits, SyncLast, TypeOK
    <2>. QED BY <1>0, <2>2, <2>3 DEF ExitInv
  <1>2. ASSUME NEW t \in Threads, SyncWakes(t) PROVE ExitInv'
    BY <1>0, <1>2 DEF SyncWakes, ExitInv, TypeOK
  <1>3. ASSUME NEW t \in Threads, Exit(t) PROVE ExitInv'
    <2>1. t \in Left
      BY <1>0, <1>3 DEF Exit, RoundInv, Left
    <2>2. remaining_ \in Nat /\ remaining_ >= 1
      BY <1>0, <2>1, CountFacts
    <2>3. ~done_ /\ \A u \in Threads : pc[u] # "last"
      BY <1>0, <1>3, <2>2 DEF Exit, ExitInv
    <2>. QED BY <1>0, <1>3, <2>2, <2>3 DEF Exit, LastOut, ExitInv, TypeOK
  <1>4. ASSUME NEW t \in Threads, SetDone(t) PROVE ExitInv'
    <2>1. remaining_ = 0 /\ ~done_ /\ round = Rounds
      BY <1>0, <1>4 DEF SetDone, ExitInv, RoundInv
    <2>2. Left = {}
      BY <1>0, <2>1, CountFacts
    <2>3. ASSUME NEW u \in Threads, u # t PROVE pc[u] = "exited"
      <3>1. pc[u] # "last"
        BY <1>0, <1>4, <2>3 DEF SetDone, ExitInv
      <3>2. calls[u] = round
        BY <1>0, <2>1, BarrierAssumption DEF RoundInv, TypeOK
      <3>. QED BY <1>0, <2>2, <3>1, <3>2 DEF Left, TypeOK
    <2>4. \A u \in Threads : pc'[u] = "exited"
      BY <1>0, <1>4, <2>3 DEF SetDone, TypeOK
    <2>. QED BY <1>0, <1>4, <2>1, <2>4 DEF SetDone, ExitInv, TypeOK
  <1>5. ASSUME NEW t \in Threads, SpuriousWakeup(t) PROVE ExitInv'
    BY <1>0, <1>5 DEF SpuriousWakeup, ExitInv
  <1>6. CASE Destructor \/ DestructorSpurious
    BY <1>0, <1>6 DEF Destructor, DestructorSpurious, ExitInv
  <1>7. CASE UNCHANGED vars
    BY <1>0, <1>7 DEF vars, ExitInv
  <1>. QED BY <1>1, <1>2, <1>3, <1>4, <1>5, <1>6, <1>7 DEF Next, Step, Destroyed

LEMMA NextTypeOK == ASSUME Inv, [Next]_vars PROVE TypeOK'
  <1>. USE DEF Goto
  <1>0. TypeOK /\ RoundInv /\ CountInv
    BY DEF Inv
  <1>00. num_threads_ \in Nat /\ remaining_ \in Nat /\ remaining_ <= num_threads_
    BY <1>0, CountFacts DEF num_threads_, TypeOK
  <1>1. ASSUME NEW t \in Threads, Sync(t) PROVE TypeOK'
    <2>1. CASE SyncWaits(t)
      <3>1. old_parity' \in [Threads -> BOOLEAN] /\ parity_' \in BOOLEAN /\ done_' \in BOOLEAN
        BY <1>0, <1>1, <2>1, Zenon DEF Sync, SyncWaits, TypeOK
      <3>2. remaining_' \in 0 .. num_threads_
        BY <1>00, <2>1 DEF SyncWaits
      <3>3. calls' \in [Threads -> 0 .. Rounds] /\ round' \in 0 .. Rounds
        BY <1>0, <1>1, <2>1, BarrierAssumption DEF Sync, SyncWaits, TypeOK
      <3>. QED BY <1>0, <1>1, <2>1, <3>1, <3>2, <3>3 DEF Sync, SyncWaits, TypeOK, num_threads_
    <2>2. CASE SyncLast(t)
      <3>1. old_parity' \in [Threads -> BOOLEAN] /\ parity_' \in BOOLEAN /\ done_' \in BOOLEAN
        BY <1>0, <1>1, <2>2, Zenon DEF Sync, SyncLast, TypeOK
      <3>2. remaining_' \in 0 .. num_threads_
        BY <1>00, <2>2 DEF SyncLast, Reset
      <3>3. round < Rounds
        BY <1>0, <1>1 DEF Sync, RoundInv
      <3>4. calls' \in [Threads -> 0 .. Rounds] /\ round' \in 0 .. Rounds
        BY <1>0, <1>1, <2>2, <3>3, BarrierAssumption DEF Sync, SyncLast, TypeOK
      <3>. QED BY <1>0, <1>1, <2>2, <3>1, <3>2, <3>4
               DEF Sync, SyncLast, NotifyAll, TypeOK, num_threads_
    <2>. QED BY <1>1, <2>1, <2>2 DEF Sync
  <1>2. ASSUME NEW t \in Threads, SyncWakes(t) PROVE TypeOK'
    BY <1>0, <1>2 DEF SyncWakes, TypeOK, num_threads_
  <1>3. ASSUME NEW t \in Threads, Exit(t) PROVE TypeOK'
    <2>1. t \in Left
      BY <1>0, <1>3 DEF Exit, RoundInv, Left
    <2>2. remaining_ >= 1
      BY <1>0, <2>1, CountFacts
    <2>3. remaining_' \in 0 .. num_threads_
      BY <1>00, <1>3, <2>2 DEF Exit
    <2>. QED BY <1>0, <1>3, <2>3 DEF Exit, TypeOK, num_threads_
  <1>4. ASSUME NEW t \in Threads, SetDone(t) PROVE TypeOK'
    BY <1>0, <1>4 DEF SetDone, TypeOK, num_threads_
  <1>5. ASSUME NEW t \in Threads, SpuriousWakeup(t) PROVE TypeOK'
    BY <1>0, <1>5 DEF SpuriousWakeup, TypeOK, num_threads_
  <1>6. CASE Destructor \/ DestructorSpurious
    BY <1>0, <1>6 DEF Destructor, DestructorSpurious, TypeOK, num_threads_
  <1>7. CASE UNCHANGED vars
    BY <1>0, <1>7 DEF vars, TypeOK, num_threads_
  <1>. QED BY <1>1, <1>2, <1>3, <1>4, <1>5, <1>6, <1>7 DEF Next, Step, Destroyed

-----------------------------------------------------------------------------
(* Inv holds in every state the barrier can reach.                         *)
THEOREM InvariantHolds == Spec => []Inv
  <1>1. Inv /\ [Next]_vars => Inv'
    BY NextTypeOK, NextRoundInv, NextParityInv, NextCountInv, NextExitInv DEF Inv
  <1>. QED BY InitInv, <1>1, PTL DEF Spec

(* Every field of the barrier keeps its type: remaining_ stays between 0   *)
(* and num_threads_.                                                       *)
THEOREM TypeCorrect == Spec => []TypeOK
  <1>1. Inv => TypeOK
    BY DEF Inv
  <1>. QED BY InvariantHolds, <1>1, PTL

(* The guarantee stated in thread_barrier.h: nobody returns from its r'th  *)
(* Sync before everybody has called its r'th Sync.                         *)
THEOREM BarrierIsABarrier == Spec => []BarrierHolds
  <1>1. ASSUME Inv PROVE BarrierHolds
    <2>. SUFFICES ASSUME NEW t \in Threads, NEW u \in Threads
                  PROVE  Returned(t) <= calls[u]
      BY DEF BarrierHolds
    <2>1. calls[t] \in Int /\ calls[u] \in Int /\ round \in Int
      BY <1>1, BarrierAssumption DEF Inv, TypeOK
    <2>2. Returned(t) <= round
      BY <1>1, <2>1 DEF Inv, RoundInv, Returned
    <2>3. round <= calls[u]
      BY <1>1, <2>1 DEF Inv, RoundInv
    <2>4. Returned(t) \in Int
      BY <2>1 DEF Returned
    <2>. QED BY <2>1, <2>2, <2>3, <2>4
  <1>. QED BY InvariantHolds, <1>1, PTL

(* The assertions of Sync and Exit never fail.                             *)
THEOREM AssertionsNeverFail == Spec => []AssertionsHold
  <1>1. ASSUME Inv PROVE AssertionsHold
    <2>1. ASSUME NEW t \in Threads, pc[t] = "work"
          PROVE  remaining_ > 0
      <3>1. CountInv /\ t \in Left
        BY <1>1, <2>1 DEF Inv, RoundInv, Left
      <3>. QED BY <3>1, CountFacts
    <2>2. \A t \in Threads : pc[t] = "last" => ~done_
      BY <1>1 DEF Inv, ExitInv
    <2>. QED BY <2>1, <2>2 DEF AssertionsHold
  <1>. QED BY InvariantHolds, <1>1, PTL

(* Nobody uses the barrier when its destructor has returned.               *)
THEOREM DestroyedWhenUnused == Spec => []DestroyedUnused
  <1>1. ASSUME Inv PROVE DestroyedUnused
    <2>1. ASSUME destructor = "returned"
          PROVE  remaining_ = 0 /\ \A t \in Threads : pc[t] = "exited"
      <3>1. \A t \in Threads : pc[t] = "exited"
        BY <1>1, <2>1 DEF Inv, ExitInv
      <3>2. Left = {}
        BY <3>1 DEF Left
      <3>. QED BY <1>1, <3>1, <3>2, FS_EmptySet DEF Inv, CountInv
    <2>. QED BY <2>1 DEF DestroyedUnused
  <1>. QED BY InvariantHolds, <1>1, PTL

===============================================================================
