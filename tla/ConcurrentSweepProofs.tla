------------------------- MODULE ConcurrentSweepProofs -------------------------
(***************************************************************************)
(* Proofs about ThreadRegistry, for any number of helpers and of rounds,   *)
(* and about ConcurrentSweep, which extends it, for any number of          *)
(* collectors, sweepers, collections and pages.                            *)
(*                                                                         *)
(* The argument for the registry: remaining_ is the number of scheduled    *)
(* threads that have not stopped for this round (RemainingCounts), there   *)
(* is one organizer at a time, and it goes on only when remaining_ is 0.   *)
(* A step of the page space is a step of the registry or leaves it alone,  *)
(* so that what is shown of the registry holds there too.  The argument    *)
(* for the rest: tasks_ is the number of threads that have counted         *)
(* themselves in, and who waits for it to become 0 is alone until it lets  *)
(* a sweeper start.                                                        *)
(***************************************************************************)
EXTENDS ConcurrentSweep, FiniteSetTheorems, TLAPS

Inside == Running \cup Organizing \cup Stopping

ScheduledInv ==
    \A t \in Members : (t \in scheduled <=> pc[t] \in Inside) /\ pc[t] # "bypass"

MarkerInv ==
    /\ pc[Marker] = "bypass" <=> mark_task = "running"
    /\ pc[Marker] \in {"bypass", "outside"}
    /\ Marker \in scheduled <=> mark_task = "running"
    /\ mark_task \in {"queued", "running"} => \E t \in Members : pc[t] = "marking"
    /\ mark_task # "none" => in_rendezvous_

OrganizerInv ==
    /\ \A t, u \in Members : pc[t] \in Organizing /\ pc[u] \in Organizing => t = u
    /\ in_rendezvous_ <=> \E t \in Members : pc[t] \in Organizing

CollectorInv == \A t \in Members : pc[t] \in {"gc", "marking"} => remaining_ = 0

RoundInv ==
    /\ \A u \in Members : last_round[u] =< round_
    /\ ~in_rendezvous_ => \A u \in Members : pc[u] \in Stopping => last_round[u] = round_

Inv ==
    /\ TypeOK
    /\ ScheduledInv
    /\ MarkerInv
    /\ OrganizerInv
    /\ CollectorInv
    /\ RoundInv
    /\ NoRoundMissed
    /\ RemainingCounts

(* Facts about remaining_ that hold by RemainingCounts.                     *)
LEMMA CountFacts ==
    ASSUME TypeOK, RemainingCounts, in_rendezvous_
    PROVE  /\ \A t \in Unstopped :
                 remaining_ >= 1 /\ Cardinality(Unstopped \ {t}) = remaining_ - 1
           /\ remaining_ = 0 => Unstopped = {}
  <1>1. IsFiniteSet(Threads)
    BY Zenon, ThreadsAssumption, FS_AddElement DEF Threads, Members
  <1>2. IsFiniteSet(Unstopped)
    BY Zenon, <1>1, FS_Subset DEF Unstopped, TypeOK
  <1>3. Cardinality(Unstopped) = remaining_
    BY Zenon DEF RemainingCounts
  <1>4. ASSUME NEW t \in Unstopped
        PROVE  remaining_ >= 1 /\ Cardinality(Unstopped \ {t}) = remaining_ - 1
    <2>1. Cardinality(Unstopped \ {t}) = remaining_ - 1
      BY Zenon, <1>2, <1>3, FS_RemoveElement
    <2>2. Cardinality(Unstopped \ {t}) \in Nat
      BY Zenon, <1>2, FS_RemoveElement, FS_CardinalityType
    <2>. QED BY <2>1, <2>2 DEF TypeOK
  <1>. QED BY Zenon, <1>2, <1>3, <1>4, FS_EmptySet

(* A thread that counts down is one the organizer waits for, so nobody      *)
(* collects meanwhile.                                                     *)
LEMMA CountingDown ==
    ASSUME TypeOK, ScheduledInv, RemainingCounts, in_rendezvous_, NEW t \in Members,
           \/ pc[t] \in Running
           \/ pc[t] \in Stopping /\ ~Participated(t)
    PROVE  t \in Unstopped /\ remaining_ >= 1
  <1>1. t \in Unstopped
    BY Zenon DEF ScheduledInv, Inside, Unstopped
  <1>. QED BY Zenon, <1>1, CountFacts

(* The organizer counts the other scheduled threads.                       *)
LEMMA ScheduledCount ==
    ASSUME TypeOK, NEW t \in scheduled
    PROVE  /\ Cardinality(scheduled) - 1 \in Nat
           /\ Cardinality(scheduled) - 1 = Cardinality(scheduled \ {t})
  <1>1. IsFiniteSet(Threads)
    BY Zenon, ThreadsAssumption, FS_AddElement DEF Threads, Members
  <1>2. IsFiniteSet(scheduled)
    BY Zenon, <1>1, FS_Subset DEF TypeOK
  <1>3. Cardinality(scheduled \ {t}) = Cardinality(scheduled) - 1
    BY Zenon, <1>2, FS_RemoveElement
  <1>4. Cardinality(scheduled \ {t}) \in Nat
    BY Zenon, <1>2, FS_RemoveElement, FS_CardinalityType
  <1>. QED BY Zenon, <1>3, <1>4

-----------------------------------------------------------------------------
(* One lemma for each conjunct of Inv, one case for each action.           *)
LEMMA NextScheduledInv == ASSUME Inv, [Next]_vars PROVE ScheduledInv'
  <1>. USE ThreadsAssumption DEF Inv, Goto, WaitAt, Awake, rendezvous, TypeOK,
                  Labels, Running, Organizing, Stopping, Threads, Members,
                  ScheduledInv, Inside
  <1>1. ASSUME NEW t \in Members, Step(t) PROVE ScheduledInv'
    <2>1. CASE RestoreStateTo(t)
      BY <2>1 DEF RestoreStateTo, Schedule
    <2>2. CASE SaveStateFrom(t)
      BY Zenon, <2>2 DEF SaveStateFrom, LeaveCounted, Countdown
    <2>3. CASE PruneThread(t)
      BY Zenon, <2>3 DEF PruneThread
    <2>4. CASE CheckSafepoint(t)
      BY Zenon, <2>4 DEF CheckSafepoint, Polls, Participate, Countdown
    <2>5. CASE StayStopped(t, "at_safepoint")
      BY Zenon, <2>5 DEF StayStopped, Participated, Participate, Countdown
    <2>6. CASE StayStopped(t, "join")
      BY Zenon, <2>6 DEF StayStopped, Participated, Participate, Countdown
    <2>7. CASE LeaveSafepoint(t)
      BY Zenon, <2>7 DEF LeaveSafepoint
    <2>8. CASE SafepointThreads(t)
      BY ZenonT(40), <2>8 DEF SafepointThreads, StartRound, CountScheduledLocked,
           ScheduleInterrupts, Participate, Countdown
    <2>9. CASE StartNextRound(t)
      BY Zenon, <2>9 DEF StartNextRound, StartRound, CountScheduledLocked,
           ScheduleInterrupts
    <2>10. CASE Gather(t)
      BY Zenon, <2>10 DEF Gather
    <2>11. CASE ResumeAllThreads(t)
      BY Zenon, <2>11 DEF ResumeAllThreads, NotifyAll
    <2>12. CASE RunMarkTask(t)
      BY Zenon, <2>12 DEF RunMarkTask
    <2>13. CASE BarrierDone(t)
      BY Zenon, <2>13 DEF BarrierDone
    <2>14. CASE SpuriousWakeup(t)
      BY Zenon, <2>14 DEF SpuriousWakeup
    <2>. QED BY ZenonT(40), <1>1, <2>1, <2>2, <2>3, <2>4, <2>5, <2>6, <2>7, <2>8, <2>9,
                <2>10, <2>11, <2>12, <2>13, <2>14 DEF Step
  <1>2. CASE GetAndClearInterrupts
    BY Zenon, <1>2 DEF GetAndClearInterrupts
  <1>3. CASE EnterBypassing
    BY Zenon, <1>3 DEF EnterBypassing
  <1>4. CASE ExitBypassing
    BY Zenon, <1>4 DEF ExitBypassing
  <1>5. CASE UNCHANGED vars
    BY ZenonT(40), <1>5 DEF vars
  <1>. QED BY ZenonT(40), <1>1, <1>2, <1>3, <1>4, <1>5 DEF Next

LEMMA NextTypeOK == ASSUME Inv, [Next]_vars PROVE TypeOK'
  <1>. USE ThreadsAssumption DEF Inv, Goto, WaitAt, Awake, rendezvous, TypeOK,
                  Labels, Running, Organizing, Stopping, Threads, Members
  <1>1. ASSUME NEW t \in Members, Step(t) PROVE TypeOK'
    <2>1. CASE RestoreStateTo(t)
      BY Zenon, <2>1 DEF RestoreStateTo, Schedule
    <2>2. CASE SaveStateFrom(t)
      <3>1. in_rendezvous_ /\ remaining_' # remaining_ => t \in Unstopped /\ remaining_ >= 1
        BY Zenon, <2>2, CountingDown DEF SaveStateFrom, LeaveCounted, Countdown
      <3>. QED
        BY <2>2, <3>1 DEF SaveStateFrom, LeaveCounted, Countdown
    <2>3. CASE PruneThread(t)
      BY Zenon, <2>3 DEF PruneThread, TypeOK, ScheduledInv, Inside, Running, Organizing, Stopping, rendezvous
    <2>4. CASE CheckSafepoint(t)
      <3>1. in_rendezvous_ /\ remaining_' # remaining_ => t \in Unstopped /\ remaining_ >= 1
        BY Zenon, <2>4, CountingDown DEF CheckSafepoint, Polls, Participate, Countdown
      <3>. QED
        BY <2>4, <3>1 DEF CheckSafepoint, Polls, Participate, Countdown
    <2>5. CASE StayStopped(t, "at_safepoint")
      <3>1. in_rendezvous_ /\ remaining_' # remaining_ => t \in Unstopped /\ remaining_ >= 1
        BY Zenon, <2>5, CountingDown DEF StayStopped, Participated, Participate,
                Countdown
      <3>. QED
        BY <2>5, <3>1 DEF StayStopped, Participated, Participate, Countdown
    <2>6. CASE StayStopped(t, "join")
      <3>1. in_rendezvous_ /\ remaining_' # remaining_ => t \in Unstopped /\ remaining_ >= 1
        BY Zenon, <2>6, CountingDown DEF StayStopped, Participated, Participate,
                Countdown
      <3>. QED
        BY <2>6, <3>1 DEF StayStopped, Participated, Participate, Countdown
    <2>7. CASE LeaveSafepoint(t)
      BY Zenon, <2>7 DEF LeaveSafepoint
    <2>8. CASE SafepointThreads(t)
      <3>1. CASE ~in_rendezvous_ /\ StartRound(t)
        <4>1. pc[t] \in Running \cup Stopping
          BY Zenon, <2>8 DEF SafepointThreads, StartNextRound, Awake, Running, Stopping
        <4>2. Cardinality(scheduled) - 1 \in Nat
          BY Zenon, <4>1, ScheduledCount DEF ScheduledInv, Inside
        <4>3. interrupted' \in BOOLEAN
          BY <3>1, Zenon DEF StartRound, ScheduleInterrupts, TypeOK
        <4>4. remaining_' \in Nat
          BY Zenon, <3>1, <4>2 DEF StartRound, CountScheduledLocked
        <4>5. waiting' \subseteq Threads /\ pc' \in [Threads -> Labels]
          BY Zenon, <3>1 DEF StartRound, Goto, WaitAt, TypeOK, Labels, Organizing, Threads
        <4>. QED BY <3>1, <4>3, <4>4, <4>5 DEF StartRound, TypeOK
      <3>2. CASE /\ in_rendezvous_ /\ Participate(t, "join")
                 /\ UNCHANGED <<entries_, scheduled, in_rendezvous_, round_, interrupted, mark_task>>
        <4>1. pc[t] = "running"
          BY Zenon, <2>8 DEF SafepointThreads
        <4>2. t \in Unstopped /\ remaining_ >= 1
          BY Zenon, <3>2, <4>1, CountingDown DEF Running
        <4>. QED
          BY <3>2, <4>1, <4>2
          DEF Participate, Countdown
      <3>. QED BY Zenon, <2>8, <3>1, <3>2 DEF SafepointThreads
    <2>9. CASE StartNextRound(t)
      <3>1. CASE ~in_rendezvous_ /\ StartRound(t)
        <4>1. pc[t] \in Running \cup Stopping
          BY Zenon, <2>9 DEF SafepointThreads, StartNextRound, Awake, Running, Stopping
        <4>2. Cardinality(scheduled) - 1 \in Nat
          BY Zenon, <4>1, ScheduledCount DEF ScheduledInv, Inside
        <4>3. interrupted' \in BOOLEAN
          BY <3>1, Zenon DEF StartRound, ScheduleInterrupts, TypeOK
        <4>4. remaining_' \in Nat
          BY Zenon, <3>1, <4>2 DEF StartRound, CountScheduledLocked
        <4>5. waiting' \subseteq Threads /\ pc' \in [Threads -> Labels]
          BY Zenon, <3>1 DEF StartRound, Goto, WaitAt, TypeOK, Labels, Organizing, Threads
        <4>. QED BY <3>1, <4>3, <4>4, <4>5 DEF StartRound, TypeOK
      <3>. QED BY Zenon, <2>9, <3>1 DEF StartNextRound
    <2>10. CASE Gather(t)
      BY Zenon, <2>10 DEF Gather
    <2>11. CASE ResumeAllThreads(t)
      BY Zenon, <2>11 DEF ResumeAllThreads, NotifyAll
    <2>12. CASE RunMarkTask(t)
      BY Zenon, <2>12 DEF RunMarkTask
    <2>13. CASE BarrierDone(t)
      BY Zenon, <2>13 DEF BarrierDone
    <2>14. CASE SpuriousWakeup(t)
      BY Zenon, <2>14 DEF SpuriousWakeup
    <2>. QED BY Zenon, <1>1, <2>1, <2>2, <2>3, <2>4, <2>5, <2>6, <2>7, <2>8, <2>9,
                <2>10, <2>11, <2>12, <2>13, <2>14 DEF Step
  <1>2. CASE GetAndClearInterrupts
    BY Zenon, <1>2 DEF GetAndClearInterrupts
  <1>3. CASE EnterBypassing
    BY Zenon, <1>3 DEF EnterBypassing
  <1>4. CASE ExitBypassing
    BY Zenon, <1>4 DEF ExitBypassing
  <1>5. CASE UNCHANGED vars
    BY Zenon, <1>5 DEF vars
  <1>. QED BY ZenonT(40), <1>1, <1>2, <1>3, <1>4, <1>5 DEF Next

LEMMA NextMarkerInv == ASSUME Inv, [Next]_vars PROVE MarkerInv'
  <1>. USE ThreadsAssumption DEF Inv, Goto, WaitAt, Awake, rendezvous, TypeOK,
                  Labels, Running, Organizing, Stopping, Threads, Members,
                  MarkerInv, OrganizerInv
  <1>1. ASSUME NEW t \in Members, Step(t) PROVE MarkerInv'
    <2>1. CASE RestoreStateTo(t)
      BY <2>1 DEF RestoreStateTo, Schedule
    <2>2. CASE SaveStateFrom(t)
      BY Zenon, <2>2 DEF SaveStateFrom, LeaveCounted, Countdown
    <2>3. CASE PruneThread(t)
      BY Zenon, <2>3 DEF PruneThread
    <2>4. CASE CheckSafepoint(t)
      BY Zenon, <2>4 DEF CheckSafepoint, Polls, Participate, Countdown
    <2>5. CASE StayStopped(t, "at_safepoint")
      BY Zenon, <2>5 DEF StayStopped, Participated, Participate, Countdown
    <2>6. CASE StayStopped(t, "join")
      BY Zenon, <2>6 DEF StayStopped, Participated, Participate, Countdown
    <2>7. CASE LeaveSafepoint(t)
      BY Zenon, <2>7 DEF LeaveSafepoint
    <2>8. CASE SafepointThreads(t)
      <3>1. CASE ~in_rendezvous_ /\ StartRound(t)
        <4>1. pc[t] \in Running \cup Stopping
          BY Zenon, <2>8 DEF SafepointThreads, StartNextRound, Awake, Running, Stopping
        <4>. QED
          BY Zenon, <3>1, <4>1
          DEF StartRound, CountScheduledLocked, ScheduleInterrupts
      <3>2. CASE /\ in_rendezvous_ /\ Participate(t, "join")
                 /\ UNCHANGED <<entries_, scheduled, in_rendezvous_, round_, interrupted, mark_task>>
        <4>1. pc[t] = "running"
          BY Zenon, <2>8 DEF SafepointThreads
        <4>. QED
          BY Zenon, <3>2, <4>1
          DEF Participate, Countdown
      <3>. QED BY Zenon, <2>8, <3>1, <3>2 DEF SafepointThreads
    <2>9. CASE StartNextRound(t)
      <3>1. CASE ~in_rendezvous_ /\ StartRound(t)
        <4>1. pc[t] \in Running \cup Stopping
          BY Zenon, <2>9 DEF SafepointThreads, StartNextRound, Awake, Running, Stopping
        <4>. QED
          BY Zenon, <3>1, <4>1
          DEF StartRound, CountScheduledLocked, ScheduleInterrupts
      <3>. QED BY Zenon, <2>9, <3>1 DEF StartNextRound
    <2>10. CASE Gather(t)
      BY Zenon, <2>10 DEF Gather
    <2>11. CASE ResumeAllThreads(t)
      BY Zenon, <2>11 DEF ResumeAllThreads, NotifyAll
    <2>12. CASE RunMarkTask(t)
      BY Zenon, <2>12 DEF RunMarkTask
    <2>13. CASE BarrierDone(t)
      BY Zenon, <2>13 DEF BarrierDone
    <2>14. CASE SpuriousWakeup(t)
      BY Zenon, <2>14 DEF SpuriousWakeup
    <2>. QED BY ZenonT(40), <1>1, <2>1, <2>2, <2>3, <2>4, <2>5, <2>6, <2>7, <2>8, <2>9,
                <2>10, <2>11, <2>12, <2>13, <2>14 DEF Step
  <1>2. CASE GetAndClearInterrupts
    BY Zenon, <1>2 DEF GetAndClearInterrupts
  <1>3. CASE EnterBypassing
    BY Zenon, <1>3 DEF EnterBypassing
  <1>4. CASE ExitBypassing
    BY Zenon, <1>4 DEF ExitBypassing
  <1>5. CASE UNCHANGED vars
    BY Zenon, <1>5 DEF vars
  <1>. QED BY Zenon, <1>1, <1>2, <1>3, <1>4, <1>5 DEF Next

LEMMA NextOrganizerInv == ASSUME Inv, [Next]_vars PROVE OrganizerInv'
  <1>. USE ThreadsAssumption DEF Inv, Goto, WaitAt, Awake, rendezvous, TypeOK,
                  Labels, Running, Organizing, Stopping, Threads, Members,
                  OrganizerInv
  <1>1. ASSUME NEW t \in Members, Step(t) PROVE OrganizerInv'
    <2>1. CASE RestoreStateTo(t)
      BY Zenon, <2>1 DEF RestoreStateTo, Schedule
    <2>2. CASE SaveStateFrom(t)
      BY Zenon, <2>2 DEF SaveStateFrom, LeaveCounted, Countdown
    <2>3. CASE PruneThread(t)
      BY Zenon, <2>3 DEF PruneThread
    <2>4. CASE CheckSafepoint(t)
      BY ZenonT(40), <2>4 DEF CheckSafepoint, Polls, Participate, Countdown
    <2>5. CASE StayStopped(t, "at_safepoint")
      BY Zenon, <2>5 DEF StayStopped, Participated, Participate, Countdown
    <2>6. CASE StayStopped(t, "join")
      BY ZenonT(40), <2>6 DEF StayStopped, Participated, Participate, Countdown
    <2>7. CASE LeaveSafepoint(t)
      BY Zenon, <2>7 DEF LeaveSafepoint
    <2>8. CASE SafepointThreads(t)
      <3>1. CASE ~in_rendezvous_ /\ StartRound(t)
        <4>1. pc[t] \in Running \cup Stopping
          BY Zenon, <2>8 DEF SafepointThreads, StartNextRound, Awake, Running, Stopping
        <4>. QED
          BY Zenon, <3>1, <4>1
          DEF StartRound, CountScheduledLocked, ScheduleInterrupts
      <3>2. CASE /\ in_rendezvous_ /\ Participate(t, "join")
                 /\ UNCHANGED <<entries_, scheduled, in_rendezvous_, round_, interrupted, mark_task>>
        <4>1. pc[t] = "running"
          BY Zenon, <2>8 DEF SafepointThreads
        <4>. QED
          BY Zenon, <3>2, <4>1
          DEF Participate, Countdown
      <3>. QED BY Zenon, <2>8, <3>1, <3>2 DEF SafepointThreads
    <2>9. CASE StartNextRound(t)
      <3>1. CASE ~in_rendezvous_ /\ StartRound(t)
        <4>1. pc[t] \in Running \cup Stopping
          BY Zenon, <2>9 DEF SafepointThreads, StartNextRound, Awake, Running, Stopping
        <4>. QED
          BY Zenon, <3>1, <4>1
          DEF StartRound, CountScheduledLocked, ScheduleInterrupts
      <3>. QED BY Zenon, <2>9, <3>1 DEF StartNextRound
    <2>10. CASE Gather(t)
      BY Zenon, <2>10 DEF Gather
    <2>11. CASE ResumeAllThreads(t)
      BY Zenon, <2>11 DEF ResumeAllThreads, NotifyAll
    <2>12. CASE RunMarkTask(t)
      BY Zenon, <2>12 DEF RunMarkTask
    <2>13. CASE BarrierDone(t)
      BY Zenon, <2>13 DEF BarrierDone
    <2>14. CASE SpuriousWakeup(t)
      BY Zenon, <2>14 DEF SpuriousWakeup
    <2>. QED BY Zenon, <1>1, <2>1, <2>2, <2>3, <2>4, <2>5, <2>6, <2>7, <2>8, <2>9,
                <2>10, <2>11, <2>12, <2>13, <2>14 DEF Step
  <1>2. CASE GetAndClearInterrupts
    BY Zenon, <1>2 DEF GetAndClearInterrupts
  <1>3. CASE EnterBypassing
    BY Zenon, <1>3 DEF EnterBypassing
  <1>4. CASE ExitBypassing
    BY ZenonT(40), <1>4 DEF ExitBypassing
  <1>5. CASE UNCHANGED vars
    BY Zenon, <1>5 DEF vars
  <1>. QED BY ZenonT(40), <1>1, <1>2, <1>3, <1>4, <1>5 DEF Next

LEMMA NextCollectorInv == ASSUME Inv, [Next]_vars PROVE CollectorInv'
  <1>. USE ThreadsAssumption DEF Inv, Goto, WaitAt, Awake, rendezvous, TypeOK,
                  Labels, Running, Organizing, Stopping, Threads, Members,
                  CollectorInv, OrganizerInv
  <1>1. ASSUME NEW t \in Members, Step(t) PROVE CollectorInv'
    <2>1. CASE RestoreStateTo(t)
      BY Zenon, <2>1 DEF RestoreStateTo, Schedule
    <2>2. CASE SaveStateFrom(t)
      <3>1. in_rendezvous_ /\ remaining_' # remaining_ => t \in Unstopped /\ remaining_ >= 1
        BY Zenon, <2>2, CountingDown DEF SaveStateFrom, LeaveCounted, Countdown
      <3>. QED
        BY <2>2, <3>1 DEF SaveStateFrom, LeaveCounted, Countdown
    <2>3. CASE PruneThread(t)
      BY Zenon, <2>3 DEF PruneThread
    <2>4. CASE CheckSafepoint(t)
      <3>1. in_rendezvous_ /\ remaining_' # remaining_ => t \in Unstopped /\ remaining_ >= 1
        BY Zenon, <2>4, CountingDown DEF CheckSafepoint, Polls, Participate, Countdown
      <3>. QED
        BY <2>4, <3>1 DEF CheckSafepoint, Polls, Participate, Countdown
    <2>5. CASE StayStopped(t, "at_safepoint")
      <3>1. in_rendezvous_ /\ remaining_' # remaining_ => t \in Unstopped /\ remaining_ >= 1
        BY Zenon, <2>5, CountingDown DEF StayStopped, Participated, Participate,
                Countdown
      <3>. QED
        BY <2>5, <3>1 DEF StayStopped, Participated, Participate, Countdown
    <2>6. CASE StayStopped(t, "join")
      <3>1. in_rendezvous_ /\ remaining_' # remaining_ => t \in Unstopped /\ remaining_ >= 1
        BY Zenon, <2>6, CountingDown DEF StayStopped, Participated, Participate,
                Countdown
      <3>. QED
        BY <2>6, <3>1 DEF StayStopped, Participated, Participate, Countdown
    <2>7. CASE LeaveSafepoint(t)
      BY Zenon, <2>7 DEF LeaveSafepoint
    <2>8. CASE SafepointThreads(t)
      <3>1. CASE ~in_rendezvous_ /\ StartRound(t)
        <4>1. pc[t] \in Running \cup Stopping
          BY Zenon, <2>8 DEF SafepointThreads, StartNextRound, Awake, Running, Stopping
        <4>2. Cardinality(scheduled) - 1 \in Nat
          BY Zenon, <4>1, ScheduledCount DEF ScheduledInv, Inside
        <4>. QED
          BY Zenon, <3>1, <4>1, <4>2
          DEF StartRound, CountScheduledLocked, ScheduleInterrupts
      <3>2. CASE /\ in_rendezvous_ /\ Participate(t, "join")
                 /\ UNCHANGED <<entries_, scheduled, in_rendezvous_, round_, interrupted, mark_task>>
        <4>1. pc[t] = "running"
          BY Zenon, <2>8 DEF SafepointThreads
        <4>2. t \in Unstopped /\ remaining_ >= 1
          BY Zenon, <3>2, <4>1, CountingDown DEF Running
        <4>. QED
          BY <3>2, <4>1, <4>2
          DEF Participate, Countdown
      <3>. QED BY Zenon, <2>8, <3>1, <3>2 DEF SafepointThreads
    <2>9. CASE StartNextRound(t)
      <3>1. CASE ~in_rendezvous_ /\ StartRound(t)
        <4>1. pc[t] \in Running \cup Stopping
          BY Zenon, <2>9 DEF SafepointThreads, StartNextRound, Awake, Running, Stopping
        <4>2. Cardinality(scheduled) - 1 \in Nat
          BY Zenon, <4>1, ScheduledCount DEF ScheduledInv, Inside
        <4>. QED
          BY Zenon, <3>1, <4>1, <4>2
          DEF StartRound, CountScheduledLocked, ScheduleInterrupts
      <3>. QED BY Zenon, <2>9, <3>1 DEF StartNextRound
    <2>10. CASE Gather(t)
      BY Zenon, <2>10 DEF Gather
    <2>11. CASE ResumeAllThreads(t)
      BY Zenon, <2>11 DEF ResumeAllThreads, NotifyAll
    <2>12. CASE RunMarkTask(t)
      BY Zenon, <2>12 DEF RunMarkTask
    <2>13. CASE BarrierDone(t)
      BY Zenon, <2>13 DEF BarrierDone
    <2>14. CASE SpuriousWakeup(t)
      BY Zenon, <2>14 DEF SpuriousWakeup
    <2>. QED BY Zenon, <1>1, <2>1, <2>2, <2>3, <2>4, <2>5, <2>6, <2>7, <2>8, <2>9,
                <2>10, <2>11, <2>12, <2>13, <2>14 DEF Step
  <1>2. CASE GetAndClearInterrupts
    BY Zenon, <1>2 DEF GetAndClearInterrupts
  <1>3. CASE EnterBypassing
    BY Zenon, <1>3 DEF EnterBypassing
  <1>4. CASE ExitBypassing
    BY Zenon, <1>4 DEF ExitBypassing
  <1>5. CASE UNCHANGED vars
    BY Zenon, <1>5 DEF vars
  <1>. QED BY Zenon, <1>1, <1>2, <1>3, <1>4, <1>5 DEF Next

LEMMA NextRounds == ASSUME Inv, [Next]_vars PROVE RoundInv' /\ NoRoundMissed'
  <1>. USE ThreadsAssumption DEF Inv, Goto, WaitAt, Awake, rendezvous, TypeOK,
                  Labels, Running, Organizing, Stopping, Threads, Members,
                  RoundInv, NoRoundMissed
  <1>1. ASSUME NEW t \in Members, Step(t) PROVE (RoundInv' /\ NoRoundMissed')
    <2>1. CASE RestoreStateTo(t)
      BY Zenon, <2>1 DEF RestoreStateTo, Schedule
    <2>2. CASE SaveStateFrom(t)
      BY Zenon, <2>2 DEF SaveStateFrom, LeaveCounted, Countdown
    <2>3. CASE PruneThread(t)
      BY Zenon, <2>3 DEF PruneThread
    <2>4. CASE CheckSafepoint(t)
      BY <2>4 DEF CheckSafepoint, Polls, Participate, Countdown
    <2>5. CASE StayStopped(t, "at_safepoint")
      BY <2>5 DEF StayStopped, Participated, Participate, Countdown
    <2>6. CASE StayStopped(t, "join")
      BY <2>6 DEF StayStopped, Participated, Participate, Countdown
    <2>7. CASE LeaveSafepoint(t)
      BY Zenon, <2>7 DEF LeaveSafepoint
    <2>8. CASE SafepointThreads(t)
      <3>1. CASE ~in_rendezvous_ /\ StartRound(t)
        <4>1. pc[t] \in Running \cup Stopping
          BY Zenon, <2>8 DEF SafepointThreads, StartNextRound, Awake, Running, Stopping
        <4>. QED
          BY <3>1, <4>1
          DEF StartRound, CountScheduledLocked, ScheduleInterrupts
      <3>2. CASE /\ in_rendezvous_ /\ Participate(t, "join")
                 /\ UNCHANGED <<entries_, scheduled, in_rendezvous_, round_, interrupted, mark_task>>
        <4>1. pc[t] = "running"
          BY Zenon, <2>8 DEF SafepointThreads
        <4>. QED
          BY <3>2, <4>1
          DEF Participate, Countdown
      <3>. QED BY Zenon, <2>8, <3>1, <3>2 DEF SafepointThreads
    <2>9. CASE StartNextRound(t)
      <3>1. CASE ~in_rendezvous_ /\ StartRound(t)
        <4>1. pc[t] \in Running \cup Stopping
          BY Zenon, <2>9 DEF SafepointThreads, StartNextRound, Awake, Running, Stopping
        <4>. QED
          BY <3>1, <4>1
          DEF StartRound, CountScheduledLocked, ScheduleInterrupts
      <3>. QED BY Zenon, <2>9, <3>1 DEF StartNextRound
    <2>10. CASE Gather(t)
      BY Zenon, <2>10 DEF Gather
    <2>11. CASE ResumeAllThreads(t)
      <3>1. remaining_ = 0 /\ in_rendezvous_
        BY Zenon, <2>11 DEF ResumeAllThreads, CollectorInv, OrganizerInv, Organizing
      <3>2. \A u \in Members : pc[u] \in Stopping => last_round[u] = round_
        BY Zenon, <3>1, CountFacts DEF Unstopped, Participated, ScheduledInv, Inside
      <3>. QED
        BY Zenon, <2>11, <3>2
        DEF ResumeAllThreads
    <2>12. CASE RunMarkTask(t)
      BY Zenon, <2>12 DEF RunMarkTask
    <2>13. CASE BarrierDone(t)
      BY Zenon, <2>13 DEF BarrierDone
    <2>14. CASE SpuriousWakeup(t)
      BY Zenon, <2>14 DEF SpuriousWakeup
    <2>. QED BY ZenonT(40), <1>1, <2>1, <2>2, <2>3, <2>4, <2>5, <2>6, <2>7, <2>8, <2>9,
                <2>10, <2>11, <2>12, <2>13, <2>14 DEF Step
  <1>2. CASE GetAndClearInterrupts
    BY Zenon, <1>2 DEF GetAndClearInterrupts
  <1>3. CASE EnterBypassing
    BY Zenon, <1>3 DEF EnterBypassing
  <1>4. CASE ExitBypassing
    BY Zenon, <1>4 DEF ExitBypassing
  <1>5. CASE UNCHANGED vars
    BY Zenon, <1>5 DEF vars
  <1>. QED BY Zenon, <1>1, <1>2, <1>3, <1>4, <1>5 DEF Next

(* The two kinds of labels that Unstopped tells apart.                     *)
LEMMA RunningNotStopping ==
    /\ "at_safepoint" \notin Running /\ "join" \notin Running
    /\ "at_safepoint" \in Stopping /\ "join" \in Stopping
  BY Zenon DEF Running, Stopping

(* When a round starts, every other scheduled thread is still to stop.     *)
LEMMA NewRoundUnstopped ==
    ASSUME Inv, ~in_rendezvous_, NEW t \in Members, pc[t] \in Running \cup Stopping,
           StartRound(t)
    PROVE  Unstopped' = scheduled \ {t}
  <1>. USE ThreadsAssumption DEF Inv
  <1>1. pc'[t] \in {"gc", "gather"} /\ \A u \in Threads \ {t} : pc'[u] = pc[u]
    BY Zenon DEF StartRound, Goto, WaitAt, TypeOK, Threads
  <1>2. \A u \in scheduled : u \in Members /\ pc[u] \in Running \cup Stopping
    <2>1. Marker \notin scheduled
      BY Zenon DEF MarkerInv
    <2>2. \A u \in Members : pc[u] \notin Organizing
      BY Zenon DEF OrganizerInv
    <2>. QED BY Zenon, <2>1, <2>2 DEF TypeOK, Threads, ScheduledInv, Inside
  <1>3. \A u \in Members : last_round'[u] # round_'
    BY DEF StartRound, RoundInv, TypeOK, Threads
  <1>. QED
    BY Zenon, <1>1, <1>2, <1>3
    DEF StartRound, Unstopped, Participated, Running, Stopping, TypeOK, Threads

LEMMA NextRemainingCounts == ASSUME Inv, [Next]_vars PROVE RemainingCounts'
  <1>. USE ThreadsAssumption DEF Inv
  <1>1. ASSUME NEW t \in Members, Step(t) PROVE RemainingCounts'
    <2>1. CASE RestoreStateTo(t)
      <3>1. CASE ~in_rendezvous_
        BY Zenon, <2>1, <3>1 DEF RestoreStateTo, rendezvous, RemainingCounts
      <3>2. CASE in_rendezvous_
        <4>1. Unstopped' = Unstopped
          BY Zenon, <2>1, <3>2
          DEF RestoreStateTo, rendezvous, WaitAt, Awake, Goto, TypeOK, Labels, Running,
              Organizing, Stopping, Threads, Members, Unstopped, Participated
        <4>. QED BY Zenon, <2>1, <4>1 DEF RestoreStateTo, rendezvous, RemainingCounts
      <3>. QED BY Zenon, <3>1, <3>2 DEF TypeOK
    <2>2. CASE SaveStateFrom(t)
      <3>1. CASE ~in_rendezvous_
        BY Zenon, <2>2, <3>1 DEF SaveStateFrom, RemainingCounts
      <3>2. CASE in_rendezvous_
        <4>1. t \in Unstopped
          BY Zenon, <2>2, <3>2, CountingDown DEF SaveStateFrom, Running
        <4>2. Unstopped' = Unstopped \ {t}
          BY Zenon, <2>2, <3>2
          DEF SaveStateFrom, Goto, TypeOK, Threads, Members, Unstopped, Participated
        <4>. QED
          BY Zenon, <2>2, <3>2, <4>1, <4>2, CountFacts
          DEF SaveStateFrom, LeaveCounted, Countdown, RemainingCounts
      <3>. QED BY Zenon, <3>1, <3>2 DEF TypeOK
    <2>3. CASE PruneThread(t)
      <3>1. Unstopped' = Unstopped
        BY Zenon, <2>3
        DEF Goto, WaitAt, Awake, rendezvous, PruneThread, TypeOK, Labels,
                Running, Organizing, Stopping, Threads, Members, Unstopped,
                Participated, ScheduledInv, Inside, MarkerInv
      <3>. QED BY Zenon, <2>3, <3>1 DEF RemainingCounts, rendezvous, vars, PruneThread
    <2>4. CASE CheckSafepoint(t)
      <3>1. CASE ~in_rendezvous_
        BY Zenon, <2>4, <3>1 DEF CheckSafepoint, RemainingCounts
      <3>2. CASE in_rendezvous_
        <4>1. t \in Unstopped
          BY Zenon, <2>4, <3>2, CountingDown DEF CheckSafepoint, Polls, Running
        <4>2. Unstopped' = Unstopped \ {t}
          BY ZenonT(40), <2>4, <3>2, RunningNotStopping
          DEF CheckSafepoint, Participate, Goto, TypeOK, Threads, Members, Unstopped,
              Participated
        <4>. QED
          BY Zenon, <2>4, <3>2, <4>1, <4>2, CountFacts
          DEF CheckSafepoint, Participate, Countdown, RemainingCounts
      <3>. QED BY Zenon, <3>1, <3>2 DEF TypeOK
    <2>5. CASE StayStopped(t, "at_safepoint")
      <3>1. CASE Participated(t)
        <4>1. Unstopped' = Unstopped
          BY ZenonT(40), <2>5, <3>1
          DEF StayStopped, Awake, WaitAt, Goto, TypeOK, Threads, Members, Unstopped,
              Participated
        <4>. QED BY Zenon, <2>5, <3>1, <4>1 DEF StayStopped, RemainingCounts
      <3>2. CASE ~Participated(t)
        <4>1. t \in Unstopped
          BY Zenon, <2>5, <3>2, CountingDown DEF StayStopped, Awake, Stopping
        <4>2. Unstopped' = Unstopped \ {t}
          BY Zenon, <2>5, <3>2, RunningNotStopping
          DEF StayStopped, Participate, Goto, TypeOK, Threads, Members, Unstopped,
              Participated
        <4>. QED
          BY Zenon, <2>5, <3>2, <4>1, <4>2, CountFacts
          DEF StayStopped, Participate, Countdown, RemainingCounts
      <3>. QED BY Zenon, <3>1, <3>2
    <2>6. CASE StayStopped(t, "join")
      <3>1. CASE Participated(t)
        <4>1. Unstopped' = Unstopped
          BY Zenon, <2>6, <3>1
          DEF StayStopped, Awake, WaitAt, Goto, TypeOK, Threads, Members, Unstopped,
              Participated
        <4>. QED BY Zenon, <2>6, <3>1, <4>1 DEF StayStopped, RemainingCounts
      <3>2. CASE ~Participated(t)
        <4>1. t \in Unstopped
          BY Zenon, <2>6, <3>2, CountingDown DEF StayStopped, Awake, Stopping
        <4>2. Unstopped' = Unstopped \ {t}
          BY Zenon, <2>6, <3>2, RunningNotStopping
          DEF StayStopped, Participate, Goto, TypeOK, Threads, Members, Unstopped,
              Participated
        <4>. QED
          BY Zenon, <2>6, <3>2, <4>1, <4>2, CountFacts
          DEF StayStopped, Participate, Countdown, RemainingCounts
      <3>. QED BY Zenon, <3>1, <3>2
    <2>7. CASE LeaveSafepoint(t)
      BY Zenon, <2>7 DEF LeaveSafepoint, rendezvous, RemainingCounts
    <2>8. CASE SafepointThreads(t)
      <3>1. CASE ~in_rendezvous_ /\ StartRound(t)
        <4>1. pc[t] \in Running \cup Stopping
          BY Zenon, <2>8 DEF SafepointThreads, StartNextRound, Awake, Running, Stopping
        <4>2. t \in scheduled
          BY Zenon, <4>1 DEF ScheduledInv, Inside
        <4>3. Unstopped' = scheduled \ {t}
          BY Zenon, <3>1, <4>1, NewRoundUnstopped
        <4>. QED
          BY Zenon, <3>1, <4>2, <4>3, ScheduledCount DEF StartRound, CountScheduledLocked, RemainingCounts
      <3>2. CASE /\ in_rendezvous_ /\ Participate(t, "join")
                 /\ UNCHANGED <<entries_, scheduled, in_rendezvous_, round_, interrupted, mark_task>>
        <4>1. pc[t] = "running"
          BY Zenon, <2>8 DEF SafepointThreads
        <4>2. t \in Unstopped
          BY Zenon, <3>2, <4>1, CountingDown DEF Running
        <4>3. Unstopped' = Unstopped \ {t}
          BY Zenon, <3>2, RunningNotStopping
          DEF Participate, Goto, TypeOK, Threads, Members, Unstopped, Participated
        <4>. QED
          BY Zenon, <3>2, <4>2, <4>3, CountFacts DEF Participate, Countdown, RemainingCounts
      <3>. QED BY Zenon, <2>8, <3>1, <3>2 DEF SafepointThreads
    <2>9. CASE StartNextRound(t)
      <3>1. CASE ~in_rendezvous_ /\ StartRound(t)
        <4>1. pc[t] \in Running \cup Stopping
          BY Zenon, <2>9 DEF SafepointThreads, StartNextRound, Awake, Running, Stopping
        <4>2. t \in scheduled
          BY Zenon, <4>1 DEF ScheduledInv, Inside
        <4>3. Unstopped' = scheduled \ {t}
          BY Zenon, <3>1, <4>1, NewRoundUnstopped
        <4>. QED
          BY Zenon, <3>1, <4>2, <4>3, ScheduledCount DEF StartRound, CountScheduledLocked, RemainingCounts
      <3>. QED BY Zenon, <2>9, <3>1 DEF StartNextRound
    <2>10. CASE Gather(t)
      <3>1. Unstopped' = Unstopped
        BY ZenonT(40), <2>10
        DEF Goto, WaitAt, Awake, rendezvous, Gather, TypeOK, Labels, Running,
                Organizing, Stopping, Threads, Members, Unstopped,
                Participated, ScheduledInv, Inside, MarkerInv
      <3>. QED BY Zenon, <2>10, <3>1 DEF RemainingCounts, rendezvous, vars, Gather
    <2>11. CASE ResumeAllThreads(t)
      BY Zenon, <2>11 DEF ResumeAllThreads, RemainingCounts
    <2>12. CASE RunMarkTask(t)
      <3>1. Unstopped' = Unstopped
        BY Zenon, <2>12
        DEF Goto, WaitAt, Awake, rendezvous, RunMarkTask, TypeOK, Labels,
                Running, Organizing, Stopping, Threads, Members, Unstopped,
                Participated, ScheduledInv, Inside, MarkerInv
      <3>. QED BY Zenon, <2>12, <3>1 DEF RemainingCounts, rendezvous, vars, RunMarkTask
    <2>13. CASE BarrierDone(t)
      <3>1. Unstopped' = Unstopped
        BY Zenon, <2>13
        DEF Goto, WaitAt, Awake, rendezvous, BarrierDone, TypeOK, Labels,
                Running, Organizing, Stopping, Threads, Members, Unstopped,
                Participated, ScheduledInv, Inside, MarkerInv
      <3>. QED BY Zenon, <2>13, <3>1 DEF RemainingCounts, rendezvous, vars, BarrierDone
    <2>14. CASE SpuriousWakeup(t)
      <3>1. Unstopped' = Unstopped
        BY Zenon, <2>14
        DEF Goto, WaitAt, Awake, rendezvous, SpuriousWakeup, TypeOK, Labels,
                Running, Organizing, Stopping, Threads, Members, Unstopped,
                Participated, ScheduledInv, Inside, MarkerInv
      <3>. QED BY Zenon, <2>14, <3>1 DEF RemainingCounts, rendezvous, vars, SpuriousWakeup
    <2>. QED BY Zenon, <1>1, <2>1, <2>2, <2>3, <2>4, <2>5, <2>6, <2>7, <2>8, <2>9,
                <2>10, <2>11, <2>12, <2>13, <2>14 DEF Step
  <1>2. CASE GetAndClearInterrupts
    <2>1. Unstopped' = Unstopped
      BY Zenon, <1>2
      DEF Goto, WaitAt, Awake, rendezvous, GetAndClearInterrupts, TypeOK,
              Labels, Running, Organizing, Stopping, Threads, Members,
              Unstopped, Participated, ScheduledInv, Inside, MarkerInv
    <2>. QED BY Zenon, <1>2, <2>1 DEF RemainingCounts, rendezvous, vars, GetAndClearInterrupts
  <1>3. CASE EnterBypassing
    <2>1. Unstopped' = Unstopped
      BY Zenon, <1>3
      DEF Goto, WaitAt, Awake, rendezvous, EnterBypassing, TypeOK, Labels,
              Running, Organizing, Stopping, Threads, Members, Unstopped,
              Participated, ScheduledInv, Inside, MarkerInv
    <2>. QED BY Zenon, <1>3, <2>1 DEF RemainingCounts, rendezvous, vars, EnterBypassing
  <1>4. CASE ExitBypassing
    <2>1. Unstopped' = Unstopped
      BY Zenon, <1>4
      DEF Goto, WaitAt, Awake, rendezvous, ExitBypassing, TypeOK, Labels,
              Running, Organizing, Stopping, Threads, Members, Unstopped,
              Participated, ScheduledInv, Inside, MarkerInv
    <2>. QED BY Zenon, <1>4, <2>1 DEF RemainingCounts, rendezvous, vars, ExitBypassing
  <1>5. CASE UNCHANGED vars
    <2>1. Unstopped' = Unstopped
      BY Zenon, <1>5
      DEF Goto, WaitAt, Awake, rendezvous, vars, TypeOK, Labels, Running,
              Organizing, Stopping, Threads, Members, Unstopped, Participated,
              ScheduledInv, Inside, MarkerInv
    <2>. QED BY Zenon, <1>5, <2>1 DEF RemainingCounts, vars
  <1>. QED BY Zenon, <1>1, <1>2, <1>3, <1>4, <1>5 DEF Next

-----------------------------------------------------------------------------
LEMMA InitInv == Init => Inv
  <1>. USE ThreadsAssumption DEF Init
  <1>1. Init => TypeOK
    <2>1. Init => pc \in [Threads -> Labels] /\ last_round \in [Threads -> Int]
      BY DEF Labels
    <2>2. Init => in_rendezvous_ \in BOOLEAN /\ interrupted \in BOOLEAN
      BY Zenon
    <2>. QED BY <2>1, <2>2 DEF TypeOK
  <1>2. Init => ScheduledInv /\ MarkerInv /\ OrganizerInv /\ CollectorInv
    BY Zenon DEF ScheduledInv, Inside, MarkerInv, OrganizerInv, CollectorInv, Running, Organizing,
           Stopping, Threads, Members
  <1>3. Init => RoundInv /\ NoRoundMissed /\ RemainingCounts
    BY DEF RoundInv, NoRoundMissed, RemainingCounts, Stopping, Threads
  <1>. QED BY Zenon, <1>1, <1>2, <1>3 DEF Inv

(* Inv is inductive, so it holds in every reachable state.                 *)
THEOREM InvariantHolds == Spec => []Inv
  <1>1. Inv /\ [Next]_vars => Inv'
    BY Zenon, NextTypeOK, NextScheduledInv, NextMarkerInv, NextOrganizerInv, NextCollectorInv,
       NextRounds, NextRemainingCounts DEF Inv
  <1>. QED BY InitInv, <1>1, PTL DEF Spec

(* The fields of the registry keep their types; remaining_, an intptr_t    *)
(* that is decremented in four places, is never negative.                  *)
THEOREM TypeCorrect == Spec => []TypeOK
  <1>1. Inv => TypeOK
    BY DEF Inv
  <1>. QED BY InvariantHolds, <1>1, PTL

(* remaining_ is exact in every rendezvous, for any number of threads that *)
(* enter, leave, stop and organize rounds of their own.                    *)
THEOREM CountIsExact == Spec => []RemainingCounts
  <1>1. Inv => RemainingCounts
    BY DEF Inv
  <1>. QED BY InvariantHolds, <1>1, PTL

(* No thread sleeps through a whole round (the assertion of                *)
(* thread_registry.cc:171).                                                *)
THEOREM RoundsAreSeen == Spec => []NoRoundMissed
  <1>1. Inv => NoRoundMissed
    BY DEF Inv
  <1>. QED BY InvariantHolds, <1>1, PTL

(* After SafepointThreads returns and until ResumeAllThreads, every other  *)
(* scheduled thread has stopped, but for the marker.                       *)
THEOREM SafepointIsSafe == Spec => []SafepointHolds
  <1>1. Inv => SafepointHolds
    <2>. SUFFICES ASSUME Inv, NEW t \in Members, pc[t] \in {"gc", "marking"},
                         NEW u \in scheduled \ {t}
                  PROVE  pc[u] \in Stopping \/ (u = Marker /\ pc[t] = "marking")
      BY Zenon DEF SafepointHolds
    <2>. USE ThreadsAssumption DEF Inv
    <2>1. in_rendezvous_ /\ remaining_ = 0
      BY Zenon DEF OrganizerInv, Organizing, CollectorInv
    <2>2. Unstopped = {}
      BY Zenon, <2>1, CountFacts
    <2>3. CASE u \in Members
      <3>1. pc[u] \in Inside /\ pc[u] \notin Running
        BY Zenon, <2>2, <2>3 DEF Unstopped, ScheduledInv
      <3>2. pc[u] \notin Organizing
        BY Zenon, <2>3 DEF OrganizerInv, Organizing
      <3>. QED BY Zenon, <3>1, <3>2 DEF Inside
    <2>4. CASE u = Marker
      <3>1. PICK v \in Members : pc[v] = "marking"
        BY ZenonT(40), <2>4 DEF MarkerInv
      <3>2. v = t
        BY Zenon, <3>1 DEF OrganizerInv, Organizing
      <3>. QED BY Zenon, <2>4, <3>1, <3>2
    <2>. QED BY <2>3, <2>4 DEF TypeOK, Threads
  <1>. QED BY InvariantHolds, <1>1, PTL

-----------------------------------------------------------------------------

(* Where a thread is in the registry, for each thing it may be doing.      *)
AtWork == {"await_marksweep", "await_iterate", "await_shutdown", "allocating", "collect_all",
           "iterating", "safepoint", "resumed", "shutdown"}
Meeting == {"scavenge", "scavenge_all", "marksweep"}
Phases == AtWork \cup Meeting \cup {"idle", "swept", "gone"}
SweepPhases == {"idle", "queued", "sweeping", "page", "swept", "left"}

Fits(h, p) ==
    \/ h = "idle" /\ p \in {"outside", "entering", "running", "poll", "at_safepoint"}
    \/ h \in AtWork /\ p = "running"
    \/ h \in Meeting /\ p \in {"join", "gather", "gc", "marking"}
    \/ h = "swept" /\ p = "gc"
    \/ h = "gone" /\ p = "outside"
SweeperFits(h, p) ==
    \/ h \in {"idle", "left"} /\ p = "outside"
    \/ h = "queued" /\ p \in {"outside", "entering"}
    \/ h \in {"sweeping", "swept"} /\ p = "running"
    \/ h = "page" /\ p \in {"running", "at_safepoint"}

GCTypeOK ==
    /\ tasks_ \in Nat /\ heap \in [Collectors -> Phases] /\ sweep \in [Sweepers -> SweepPhases]
CollectorsFit == \A c \in Collectors : Fits(heap[c], pc[c])
SweepersFit == \A s \in Sweepers : SweeperFits(sweep[s], pc[s])

(* Those that have counted themselves in.                                  *)
Counted == {"safepoint", "marksweep", "swept", "resumed", "iterating"}
Busy == {c \in Collectors : heap[c] \in Counted} \cup Sweeping
TasksCounted == tasks_ = Cardinality(Busy)
AloneInv ==
    \A c \in Collectors : heap[c] \in {"safepoint", "marksweep", "iterating"} => Busy = {c}

Leaving == {"await_shutdown", "shutdown", "gone"}
ShutdownInv ==
    /\ \A c \in Collectors \ {Mutator} :
          /\ heap[c] \notin Leaving
          /\ heap[Mutator] \in Leaving => heap[c] = "idle" /\ pc[c] = "outside"
    /\ heap[Mutator] \in {"shutdown", "gone"} => Busy = {}

GCInv ==
    /\ GCTypeOK /\ CollectorsFit /\ SweepersFit /\ TasksCounted /\ AloneInv /\ ShutdownInv
-----------------------------------------------------------------------------
(* A step of the page space is one of the registry, or none.               *)
LEMMA RegistryStep ==
    ASSUME [GCNext]_allvars
    PROVE  [Next]_vars
  <1>. USE CollectorsAssumption DEF Sweepers
  <1>1. ASSUME NEW t \in Members, Step(t) PROVE [Next]_vars
    BY Zenon, <1>1 DEF Next
  <1>2. ASSUME NEW c \in Collectors, Begin(c) PROVE [Next]_vars
    <2>1. c \in Members
      BY Zenon
    <2>2. CASE \E w \in {"await_marksweep", "await_iterate"} : BeginAwait(c, w)
      BY Zenon, <2>2 DEF BeginAwait
    <2>3. CASE AllocateOld(c)
      BY Zenon, <2>3 DEF AllocateOld
    <2>4. CASE CollectAllGarbage(c)
      BY Zenon, <2>4 DEF CollectAllGarbage
    <2>5. CASE CollectNew(c) \/ EnterIsolate(c) \/ ExitIsolate(c)
      BY ZenonT(40), <1>1, <2>1, <2>5 DEF CollectNew, EnterIsolate, ExitIsolate, Step
    <2>. QED BY Zenon, <1>2, <2>2, <2>3, <2>4, <2>5 DEF Begin
  <1>3. ASSUME NEW c \in Collectors, Continue(c) PROVE [Next]_vars
    <2>1. c \in Members
      BY Zenon
    <2>2. CASE (\E w \in DOMAIN Awaits : Await(c, w)) \/ IterationEnds(c) \/ RetryAllocate(c)
      BY Zenon, <2>2 DEF Await, IterationEnds, RetryAllocate
    <2>3. CASE ScavengeAll(c) \/ MarkSweep(c) \/ ScavengeEnds(c) \/ Resume(c)
      BY Zenon, <1>1, <2>1, <2>3 DEF ScavengeAll, MarkSweep, ScavengeEnds, Resume, Step
    <2>4. CASE Rendezvous(c) \/ MarkObjects(c) \/ CollectorStopped(c)
      BY Zenon, <1>1, <2>1, <2>4 DEF Rendezvous, MarkObjects, CollectorStopped, Step
    <2>5. CASE MarkTask(c)
      BY Zenon, <1>1, <2>1, <2>5 DEF MarkTask, Step, Next
    <2>6. CASE HandleInterrupts(c)
      BY Zenon, <1>1, <2>1, <2>6 DEF HandleInterrupts, Step, Next
    <2>7. CASE \E s \in Sweepers, n \in 1 .. MaxPages : SweepConcurrent(c, s, n)
      BY Zenon, <2>7 DEF SweepConcurrent
    <2>8. CASE SweepNow(c) \/ MarkSweepEnds(c)
      BY Zenon, <2>8 DEF SweepNow, MarkSweepEnds
    <2>. QED BY Zenon, <1>3, <2>2, <2>3, <2>4, <2>5, <2>6, <2>7, <2>8 DEF Continue
  <1>4. ASSUME NEW s \in Sweepers, SweeperStep(s) PROVE [Next]_vars
    <2>1. s \in Members
      BY Zenon
    <2>2. CASE SweepPage(s) \/ SweeperDone(s)
      BY Zenon, <2>2 DEF SweepPage, SweeperDone
    <2>3. CASE SweeperEnters(s) \/ SweeperChecks(s) \/ SweeperStopped(s) \/ SweeperExits(s)
      BY Zenon, <1>1, <2>1, <2>3 DEF SweeperEnters, SweeperChecks, SweeperStopped, SweeperExits, Step
    <2>. QED BY Zenon, <1>4, <2>2, <2>3 DEF SweeperStep
  <1>5. ASSUME NEW c \in Collectors, SpuriousTasksWakeup(c) PROVE [Next]_vars
    BY Zenon, <1>5 DEF SpuriousTasksWakeup
  <1>6. ASSUME NEW t \in Members, SpuriousWakeup(t) PROVE [Next]_vars
    BY Zenon, <1>1, <1>6 DEF Step
  <1>7. CASE BeginShutdown
    BY Zenon, <1>7 DEF BeginShutdown, BeginAwait
  <1>8. CASE Shutdown
    BY Zenon, <1>1, <1>8 DEF Shutdown, Step
  <1>9. CASE Gone \/ UNCHANGED allvars
    BY Zenon, <1>9 DEF Gone, allvars
  <1>. QED BY Zenon, <1>2, <1>3, <1>4, <1>5, <1>6, <1>7, <1>8, <1>9 DEF GCNext

(* What collectors and sweepers do in the registry is what it allows: the  *)
(* composition implements ThreadRegistry.                                  *)
THEOREM ImplementsRegistry == GCSpec => Spec
  <1>1. GCInit => Init
    BY DEF GCInit
  <1>. QED BY <1>1, RegistryStep, PTL DEF GCSpec, Spec

(* No thread but the marker runs in the isolate while one collects, with   *)
(* collectors and sweepers as they use the registry.                       *)
THEOREM CollectionsAreSafe == GCSpec => []SafepointHolds
  BY ImplementsRegistry, SafepointIsSafe, PTL

-----------------------------------------------------------------------------
(* How the operations of the registry move a thread.                       *)
Moves(t, from, to) == pc[t] \in from /\ \E l \in to : pc' = [pc EXCEPT ![t] = l]

LEMMA Movements ==
    ASSUME NEW t
    PROVE  /\ RestoreStateTo(t) => Moves(t, {"outside", "entering"}, {"running", "entering"})
           /\ SaveStateFrom(t) => Moves(t, {"running"}, {"outside"})
           /\ CheckSafepoint(t) => Moves(t, {"running", "poll"}, {"running", "at_safepoint"})
           /\ StayStopped(t, "at_safepoint") => Moves(t, {"at_safepoint"}, {"at_safepoint"})
           /\ StayStopped(t, "join") => Moves(t, {"join"}, {"join"})
           /\ LeaveSafepoint(t) => Moves(t, {"at_safepoint"}, {"running"})
           /\ GetAndClearInterrupts => Moves(Mutator, {"running"}, {"poll"})
           /\ SafepointThreads(t) => Moves(t, {"running"}, {"join", "gather", "gc"})
           /\ StartNextRound(t) => Moves(t, {"join"}, {"gather", "gc"})
           /\ Gather(t) => Moves(t, {"gather"}, {"gather", "gc"})
           /\ ResumeAllThreads(t) => Moves(t, {"gc"}, {"running"})
           /\ RunMarkTask(t) => Moves(t, {"gc"}, {"marking"})
           /\ BarrierDone(t) => Moves(t, {"marking"}, {"gc"})
           /\ EnterBypassing => pc' = [pc EXCEPT ![Marker] = "bypass"]
           /\ ExitBypassing => pc' = [pc EXCEPT ![Marker] = "outside"]
           /\ SpuriousWakeup(t) => pc' = pc
  <1>. USE DEF Moves, Goto, WaitAt, Awake
  <1>1. /\ RestoreStateTo(t) => Moves(t, {"outside", "entering"}, {"running", "entering"})
        /\ SaveStateFrom(t) => Moves(t, {"running"}, {"outside"})
        /\ CheckSafepoint(t) => Moves(t, {"running", "poll"}, {"running", "at_safepoint"})
    BY Zenon DEF RestoreStateTo, Schedule, SaveStateFrom, CheckSafepoint, Polls, Participate
  <1>2. /\ StayStopped(t, "at_safepoint") => Moves(t, {"at_safepoint"}, {"at_safepoint"})
        /\ StayStopped(t, "join") => Moves(t, {"join"}, {"join"})
        /\ LeaveSafepoint(t) => Moves(t, {"at_safepoint"}, {"running"})
        /\ GetAndClearInterrupts => Moves(Mutator, {"running"}, {"poll"})
    BY Zenon DEF StayStopped, Participate, LeaveSafepoint, GetAndClearInterrupts
  <1>3. /\ SafepointThreads(t) => Moves(t, {"running"}, {"join", "gather", "gc"})
        /\ StartNextRound(t) => Moves(t, {"join"}, {"gather", "gc"})
        /\ Gather(t) => Moves(t, {"gather"}, {"gather", "gc"})
        /\ ResumeAllThreads(t) => Moves(t, {"gc"}, {"running"})
    BY Zenon DEF SafepointThreads, StartNextRound, StartRound, Participate, Gather, ResumeAllThreads
  <1>4. /\ RunMarkTask(t) => Moves(t, {"gc"}, {"marking"})
        /\ BarrierDone(t) => Moves(t, {"marking"}, {"gc"})
        /\ EnterBypassing => pc' = [pc EXCEPT ![Marker] = "bypass"]
        /\ ExitBypassing => pc' = [pc EXCEPT ![Marker] = "outside"]
        /\ SpuriousWakeup(t) => pc' = pc
    BY Zenon DEF RunMarkTask, BarrierDone, EnterBypassing, ExitBypassing, SpuriousWakeup
  <1>. QED BY Zenon, <1>1, <1>2, <1>3, <1>4
-----------------------------------------------------------------------------
(* What a step of a collector may do to itself, and that it does nothing   *)
(* to the others.                                                          *)
CollectorGoes(c) ==
    /\ heap' \in [Collectors -> Phases] /\ sweep' = sweep
    /\ \A d \in Collectors \ {c} : heap'[d] = heap[d]
    /\ \A t \in Members \ {c} : pc'[t] = pc[t]
    /\ Fits(heap'[c], pc'[c])

(* Those that were alone when they counted themselves in.                  *)
Exclusive == {"safepoint", "marksweep", "iterating"}

CountedWell(c) ==
    \/ /\ tasks_' = tasks_ /\ (heap'[c] \in Counted <=> heap[c] \in Counted)
       /\ heap'[c] \in Exclusive => heap[c] \in Exclusive
    \/ tasks_ = 0 /\ tasks_' = 1 /\ heap[c] \notin Counted /\ heap'[c] \in Counted
    \/ heap[c] = "iterating" /\ heap'[c] = "idle" /\ tasks_' = 0
    \/ heap[c] = "resumed" /\ heap'[c] = "idle" /\ tasks_' = tasks_ - 1

LeavesWell(c) ==
    /\ heap'[c] \in Leaving =>
          /\ c = Mutator
          /\ heap[c] \in Leaving \/ \A d \in Collectors \ {c} : pc[d] = "outside"
    /\ c # Mutator /\ heap[Mutator] \in Leaving => heap'[c] = heap[c] /\ pc'[c] = pc[c]
    /\ heap'[c] \in {"shutdown", "gone"} => tasks_ = 0 \/ heap[c] \in {"shutdown", "gone"}

CollectorStepsWell(c) == CollectorGoes(c) /\ CountedWell(c) /\ LeavesWell(c)

OthersStay(c) == \A t \in Members \ {c} : pc'[t] = pc[t]

LEMMA AwaitsFacts ==
    /\ DOMAIN Awaits = {"await_marksweep", "await_iterate", "await_shutdown"}
    /\ Awaits["await_marksweep"] = "safepoint" /\ Awaits["await_iterate"] = "iterating"
    /\ Awaits["await_shutdown"] = "shutdown"
  BY Zenon DEF Awaits

(* Steps that move no thread in the registry, of a collector that runs.    *)
LEMMA RunningSteps ==
    ASSUME Inv, GCInv, NEW c \in Collectors, UNCHANGED vars,
           \/ BeginShutdown /\ c = Mutator
           \/ \E w \in {"await_marksweep", "await_iterate"} : BeginAwait(c, w)
           \/ \E w \in DOMAIN Awaits : Await(c, w)
           \/ AllocateOld(c) \/ RetryAllocate(c) \/ CollectAllGarbage(c)
           \/ IterationEnds(c) \/ MarkSweepEnds(c) \/ SweepNow(c)
    PROVE  CollectorStepsWell(c)
  <1>. USE CollectorsAssumption, ThreadsAssumption DEF
         CollectorStepsWell, CollectorGoes, CountedWell, LeavesWell, Exclusive, Counted, Leaving,
         GCInv, GCTypeOK, CollectorsFit, Fits, Phases, AtWork, Meeting, ShutdownInv, Do, Mutating,
         vars, sweepers
  <1>1. CASE BeginShutdown /\ c = Mutator
    BY <1>1, AwaitsFacts DEF BeginShutdown, BeginAwait, WhileTasks
  <1>2. CASE \E w \in {"await_marksweep", "await_iterate"} : BeginAwait(c, w)
    BY <1>2, AwaitsFacts DEF BeginAwait, WhileTasks
  <1>3. CASE \E w \in DOMAIN Awaits : Await(c, w)
    BY <1>3, AwaitsFacts DEF Await, WhileTasks
  <1>4. CASE AllocateOld(c)
    BY Zenon, <1>4 DEF AllocateOld
  <1>5. CASE RetryAllocate(c)
    BY <1>5 DEF RetryAllocate
  <1>6. CASE CollectAllGarbage(c)
    BY Zenon, <1>6 DEF CollectAllGarbage
  <1>7. CASE IterationEnds(c)
    BY Zenon, <1>7 DEF IterationEnds
  <1>8. CASE MarkSweepEnds(c)
    BY Zenon, <1>8 DEF MarkSweepEnds
  <1>9. CASE SweepNow(c)
    BY Zenon, <1>9 DEF SweepNow
  <1>. QED BY ZenonT(40), ZenonT(40), <1>1, <1>2, <1>3, <1>4, <1>5, <1>6, <1>7, <1>8, <1>9

(* A movement concerns one thread.                                         *)
LEMMA Moved ==
    ASSUME Inv, NEW c \in Collectors, NEW from, NEW to, Moves(c, from, to)
    PROVE  OthersStay(c) /\ pc[c] \in from /\ pc'[c] \in to
  BY Zenon, CollectorsAssumption DEF Moves, OthersStay, Inv, TypeOK, Threads

(* A step that only moves the collector,                                   *)
LEMMA OnlyMoves ==
    ASSUME GCInv, NEW c \in Collectors, UNCHANGED gcvars, OthersStay(c), Fits(heap[c], pc'[c]),
           pc'[c] = pc[c] \/ pc[c] # "outside" \/ heap[Mutator] \notin Leaving
    PROVE  CollectorStepsWell(c)
  <1>. heap' = heap /\ sweep' = sweep /\ tasks_' = tasks_
    BY Zenon DEF gcvars, sweepers
  <1>1. CollectorGoes(c)
    BY Zenon DEF CollectorGoes, OthersStay, GCInv, GCTypeOK
  <1>2. CountedWell(c)
    BY Zenon DEF CountedWell
  <1>3. LeavesWell(c)
    BY Zenon DEF LeavesWell, GCInv, ShutdownInv, Leaving
  <1>. QED BY Zenon, <1>1, <1>2, <1>3 DEF CollectorStepsWell

(* and one with which it goes on with something else.                      *)
LEMMA GoesOn ==
    ASSUME GCInv, NEW c \in Collectors, NEW h \in Phases, Do(c, h), UNCHANGED <<tasks_, sweepers>>,
           OthersStay(c), Fits(h, pc'[c]), pc[c] # "outside",
           h \in Counted <=> heap[c] \in Counted, h \in Exclusive => heap[c] \in Exclusive,
           h \in Leaving => c = Mutator /\ heap[c] = "shutdown"
    PROVE  CollectorStepsWell(c)
  <1>1. /\ heap' \in [Collectors -> Phases] /\ heap'[c] = h /\ sweep' = sweep /\ tasks_' = tasks_
        /\ \A d \in Collectors \ {c} : heap'[d] = heap[d]
    BY Zenon DEF Do, GCInv, GCTypeOK, sweepers
  <1>2. CollectorGoes(c)
    BY Zenon, <1>1 DEF CollectorGoes, OthersStay
  <1>3. CountedWell(c)
    BY ZenonT(40), <1>1 DEF CountedWell
  <1>4. LeavesWell(c)
    BY ZenonT(40), <1>1 DEF LeavesWell, GCInv, ShutdownInv, Leaving
  <1>. QED BY Zenon, <1>2, <1>3, <1>4 DEF CollectorStepsWell

(* Steps that are steps of the registry.                                   *)
LEMMA RegistrySteps ==
    ASSUME Inv, GCInv, NEW c \in Collectors,
           \/ CollectNew(c) \/ EnterIsolate(c) \/ ExitIsolate(c) \/ ScavengeAll(c)
           \/ MarkSweep(c) \/ ScavengeEnds(c) \/ Rendezvous(c) \/ MarkObjects(c)
           \/ MarkTask(c) \/ Resume(c) \/ HandleInterrupts(c) \/ CollectorStopped(c)
           \/ Shutdown /\ c = Mutator
    PROVE  CollectorStepsWell(c)
  <1>. Fits(heap[c], pc[c])
    BY Zenon DEF GCInv, CollectorsFit
  <1>. DEFINE Goes(from, to) == OthersStay(c) /\ pc[c] \in from /\ pc'[c] \in to
  <1>01. /\ SafepointThreads(c) => Goes({"running"}, {"join", "gather", "gc"})
         /\ ResumeAllThreads(c) => Goes({"gc"}, {"running"})
         /\ SaveStateFrom(c) => Goes({"running"}, {"outside"})
         /\ RestoreStateTo(c) => Goes({"outside", "entering"}, {"running", "entering"})
    BY Moved, Movements
  <1>02. /\ StayStopped(c, "join") => Goes({"join"}, {"join"})
         /\ StartNextRound(c) => Goes({"join"}, {"gather", "gc"})
         /\ Gather(c) => Goes({"gather"}, {"gather", "gc"})
         /\ RunMarkTask(c) => Goes({"gc"}, {"marking"})
         /\ BarrierDone(c) => Goes({"marking"}, {"gc"})
    BY Zenon, Moved, Movements
  <1>03. /\ CheckSafepoint(c) => Goes({"running", "poll"}, {"running", "at_safepoint"})
         /\ StayStopped(c, "at_safepoint") => Goes({"at_safepoint"}, {"at_safepoint"})
         /\ LeaveSafepoint(c) => Goes({"at_safepoint"}, {"running"})
         /\ c = Mutator /\ GetAndClearInterrupts => Goes({"running"}, {"poll"})
    BY Moved, Movements
  <1>. USE DEF Fits, AtWork, Meeting, Phases, Counted, Exclusive, Leaving
  <1>1. CASE CollectNew(c)
    BY Zenon, <1>01, <1>1, GoesOn DEF CollectNew, Mutating
  <1>2. CASE EnterIsolate(c)
    BY Zenon, <1>01, <1>2, OnlyMoves DEF EnterIsolate, ShuttingDown
  <1>3. CASE ExitIsolate(c)
    BY Zenon, <1>01, <1>3, OnlyMoves DEF ExitIsolate, Mutating
  <1>4. CASE ScavengeAll(c)
    BY Zenon, <1>01, <1>4, GoesOn DEF ScavengeAll
  <1>5. CASE MarkSweep(c)
    BY Zenon, ZenonT(40), <1>01, <1>5, GoesOn DEF MarkSweep
  <1>6. CASE ScavengeEnds(c)
    BY ZenonT(40), ZenonT(40), <1>01, <1>6, GoesOn DEF ScavengeEnds
  <1>7. CASE Rendezvous(c)
    BY ZenonT(40), ZenonT(40), <1>02, <1>7, OnlyMoves DEF Rendezvous
  <1>8. CASE MarkObjects(c)
    BY Zenon, <1>02, <1>8, OnlyMoves DEF MarkObjects
  <1>9. CASE MarkTask(c)
    <2>1. CASE BarrierDone(c)
      BY ZenonT(40), ZenonT(40), <1>02, <1>9, <2>1, OnlyMoves DEF MarkTask
    <2>2. CASE EnterBypassing \/ ExitBypassing
      <3>1. OthersStay(c) /\ pc'[c] = pc[c]
        BY ZenonT(40), ZenonT(40), <2>2, Movements, CollectorsAssumption, ThreadsAssumption
        DEF OthersStay, Inv, TypeOK, Threads, Members
      <3>. QED BY Zenon, ZenonT(40), <1>9, <3>1, OnlyMoves DEF MarkTask
    <2>. QED BY ZenonT(40), ZenonT(40), <1>9, <2>1, <2>2 DEF MarkTask
  <1>10. CASE Resume(c)
    BY Zenon, ZenonT(40), <1>01, <1>10, GoesOn DEF Resume
  <1>11. CASE HandleInterrupts(c)
    BY Zenon, ZenonT(40), <1>03, <1>11, OnlyMoves DEF HandleInterrupts
  <1>12. CASE CollectorStopped(c)
    BY ZenonT(40), <1>03, <1>12, OnlyMoves DEF CollectorStopped
  <1>13. CASE Shutdown /\ c = Mutator
    BY ZenonT(40), ZenonT(40), <1>01, <1>13, GoesOn DEF Shutdown
  <1>. QED BY ZenonT(40), <1>1, <1>2, <1>3, <1>4, <1>5, <1>6, <1>7, <1>8, <1>9, <1>10, <1>11, <1>12, <1>13
-----------------------------------------------------------------------------
(* Counting: nobody is counted when tasks_ is 0, and tasks_ follows Busy.  *)
LEMMA BusyFacts ==
    ASSUME GCInv
    PROVE  /\ IsFiniteSet(Busy) /\ Busy \subseteq Members
           /\ tasks_ = 0 => Busy = {}
           /\ \A t : t \in Busy => /\ tasks_ - 1 \in Nat
                                  /\ IsFiniteSet(Busy \ {t})
                                  /\ Cardinality(Busy \ {t}) = tasks_ - 1
           /\ \A t : t \notin Busy => Cardinality(Busy \cup {t}) = tasks_ + 1
  <1>1. IsFiniteSet(Members)
    BY Zenon, ThreadsAssumption, FS_AddElement DEF Members
  <1>2. Busy \subseteq Members
    BY Zenon, CollectorsAssumption DEF Busy, Sweeping, Sweepers
  <1>3. IsFiniteSet(Busy)
    BY Zenon, <1>1, <1>2, FS_Subset
  <1>4. tasks_ = Cardinality(Busy) /\ tasks_ \in Nat
    BY Zenon DEF GCInv, TasksCounted, GCTypeOK
  <1>5. tasks_ = 0 => Busy = {}
    BY Zenon, ZenonT(40), <1>3, <1>4, FS_EmptySet
  <1>6. ASSUME NEW t, t \in Busy
        PROVE  /\ tasks_ - 1 \in Nat
               /\ IsFiniteSet(Busy \ {t})
               /\ Cardinality(Busy \ {t}) = tasks_ - 1
    <2>1. IsFiniteSet(Busy \ {t}) /\ Cardinality(Busy \ {t}) = tasks_ - 1
      BY ZenonT(40), <1>3, <1>4, <1>6, FS_RemoveElement
    <2>2. Cardinality(Busy \ {t}) \in Nat
      BY Zenon, <2>1, FS_CardinalityType
    <2>. QED BY Zenon, <2>1, <2>2
  <1>7. ASSUME NEW t, t \notin Busy PROVE Cardinality(Busy \cup {t}) = tasks_ + 1
    BY Zenon, <1>3, <1>4, <1>7, FS_AddElement
  <1>. QED BY Zenon, <1>2, <1>3, <1>5, <1>6, <1>7

(* A step of a collector keeps the invariant.                              *)
LEMMA CollectorKept ==
    ASSUME GCInv, NEW c \in Collectors, CollectorStepsWell(c)
    PROVE  GCInv'
  <1>. USE CollectorsAssumption DEF CollectorStepsWell, CollectorGoes
  <1>1. Sweeping' = Sweeping
    BY Zenon DEF Sweeping
  <1>2. c \notin Sweeping /\ c \in Members
    BY Zenon DEF Sweeping, Sweepers
  <1>3. \A t : t # c => (t \in Busy' <=> t \in Busy)
    BY Zenon, <1>1 DEF Busy
  <1>4. /\ c \in Busy' <=> heap'[c] \in Counted
        /\ c \in Busy <=> heap[c] \in Counted
    BY Zenon, <1>1, <1>2 DEF Busy
  <1>5. CollectorsFit' /\ SweepersFit'
    BY Zenon, <1>2 DEF GCInv, CollectorsFit, SweepersFit, Sweepers
  <1>6. tasks_' \in Nat /\ tasks_' = Cardinality(Busy')
    <2>1. CASE tasks_' = tasks_ /\ (heap'[c] \in Counted <=> heap[c] \in Counted)
      <3>1. Busy' = Busy
        BY <1>3, <1>4, <2>1
      <3>. QED BY Zenon, <2>1, <3>1 DEF GCInv, GCTypeOK, TasksCounted
    <2>2. CASE tasks_ = 0 /\ tasks_' = 1 /\ heap[c] \notin Counted /\ heap'[c] \in Counted
      <3>1. Busy' = Busy \cup {c} /\ c \notin Busy
        BY Zenon, <1>3, <1>4, <2>2
      <3>. QED BY <2>2, <3>1, BusyFacts
    <2>3. CASE heap[c] = "iterating" /\ heap'[c] = "idle" /\ tasks_' = 0
      <3>1. Busy = {c}
        BY Zenon, <2>3 DEF GCInv, AloneInv
      <3>2. Busy' = {}
        BY Zenon, <1>3, <1>4, <2>3, <3>1 DEF Counted
      <3>. QED BY Zenon, <2>3, <3>2, FS_EmptySet
    <2>4. CASE heap[c] = "resumed" /\ heap'[c] = "idle" /\ tasks_' = tasks_ - 1
      <3>1. Busy' = Busy \ {c} /\ c \in Busy
        BY Zenon, <1>3, <1>4, <2>4 DEF Counted
      <3>. QED BY Zenon, <2>4, <3>1, BusyFacts
    <2>. QED BY ZenonT(40), <2>1, <2>2, <2>3, <2>4 DEF CountedWell
  <1>7. GCTypeOK'
    BY Zenon, <1>6 DEF GCInv, GCTypeOK
  <1>8. AloneInv'
    <2>. SUFFICES ASSUME NEW d \in Collectors, heap'[d] \in Exclusive PROVE Busy' = {d}
      BY Zenon DEF AloneInv, Exclusive
    <2>0. d \in Busy'
      BY Zenon DEF Busy, Exclusive, Counted
    <2>1. CASE tasks_' = tasks_ /\ (heap'[c] \in Counted <=> heap[c] \in Counted)
               /\ (heap'[c] \in Exclusive => heap[c] \in Exclusive)
      <3>1. Busy' = Busy
        BY <1>3, <1>4, <2>1
      <3>2. heap[d] \in Exclusive
        BY Zenon, <2>1
      <3>. QED BY Zenon, <3>1, <3>2 DEF GCInv, AloneInv, Exclusive
    <2>2. CASE tasks_ = 0
      BY Zenon, <2>0, <2>2, <1>3, BusyFacts
    <2>3. CASE heap[c] \in {"iterating", "resumed"} /\ heap'[c] = "idle"
      <3>1. d # c /\ heap[d] \in Exclusive
        BY Zenon, <2>3 DEF Exclusive
      <3>2. Busy = {d}
        BY Zenon, <3>1 DEF GCInv, AloneInv, Exclusive
      <3>3. c \in Busy
        BY Zenon, <1>4, <2>3 DEF Counted
      <3>. QED BY Zenon, <3>1, <3>2, <3>3
    <2>. QED BY Zenon, <2>1, <2>2, <2>3 DEF CountedWell
  <1>9. ShutdownInv'
    <2>1. ASSUME NEW d \in Collectors \ {Mutator}
          PROVE  /\ heap'[d] \notin Leaving
                 /\ heap'[Mutator] \in Leaving => heap'[d] = "idle" /\ pc'[d] = "outside"
      <3>1. heap'[d] \notin Leaving
        BY Zenon DEF LeavesWell, GCInv, ShutdownInv
      <3>2. CASE heap[Mutator] \in Leaving
        BY Zenon, <3>2 DEF LeavesWell, GCInv, ShutdownInv
      <3>3. ASSUME heap[Mutator] \notin Leaving, heap'[Mutator] \in Leaving
            PROVE  heap'[d] = "idle" /\ pc'[d] = "outside"
        <4>1. c = Mutator
          BY Zenon, <3>3
        <4>2. pc[d] = "outside" /\ pc'[d] = pc[d] /\ heap'[d] = heap[d]
          BY Zenon, <3>3, <4>1 DEF LeavesWell
        <4>3. Fits(heap[d], pc[d])
          BY Zenon DEF GCInv, CollectorsFit
        <4>. QED BY Zenon, <4>2, <4>3, <3>1 DEF Fits, Leaving
      <3>. QED BY Zenon, <3>1, <3>2, <3>3
    <2>2. ASSUME heap'[Mutator] \in {"shutdown", "gone"} PROVE Busy' = {}
      <3>1. Busy = {}
        <4>1. CASE heap[Mutator] \in {"shutdown", "gone"}
          BY Zenon, <4>1 DEF GCInv, ShutdownInv
        <4>2. CASE heap[Mutator] \notin {"shutdown", "gone"}
          <5>1. c = Mutator
            BY Zenon, <2>2, <4>2
          <5>. QED BY ZenonT(40), <2>2, <4>2, <5>1, BusyFacts DEF LeavesWell
        <4>. QED BY Zenon, <4>1, <4>2
      <3>2. c \notin Busy'
        <4>1. CASE c = Mutator
          BY ZenonT(40), <1>4, <2>2, <4>1 DEF Counted
        <4>2. CASE c # Mutator
          BY ZenonT(40), <1>4, <2>1, <2>2, <4>2 DEF Counted, Leaving
        <4>. QED BY Zenon, <4>1, <4>2
      <3>. QED BY Zenon, <1>3, <3>1, <3>2
    <2>. QED BY Zenon, <2>1, <2>2 DEF ShutdownInv
  <1>. QED BY Zenon, <1>5, <1>6, <1>7, <1>8, <1>9 DEF GCInv, TasksCounted
-----------------------------------------------------------------------------
(* The collector hands the pages to a sweeper, which counts itself in.     *)
LEMMA SweepConcurrentKept ==
    ASSUME GCInv, NEW c \in Collectors, NEW s \in Sweepers, NEW n \in 1 .. MaxPages,
           SweepConcurrent(c, s, n)
    PROVE  GCInv'
  <1>. USE CollectorsAssumption DEF SweepConcurrent, Do, Sweep, vars
  <1>1. heap' = [heap EXCEPT ![c] = "swept"] /\ sweep' = [sweep EXCEPT ![s] = "queued"]
        /\ pc' = pc /\ tasks_' = tasks_ + 1
    BY Zenon DEF CountSweeper
  <1>2. heap \in [Collectors -> Phases] /\ sweep \in [Sweepers -> SweepPhases] /\ tasks_ \in Nat
    BY Zenon DEF GCInv, GCTypeOK
  <1>3. GCTypeOK'
    BY <1>1, <1>2 DEF GCTypeOK, Phases, SweepPhases
  <1>4. CollectorsFit' /\ SweepersFit'
    BY <1>1, <1>2 DEF GCInv, CollectorsFit, SweepersFit, Fits, SweeperFits
  <1>5. Busy = {c}
    BY Zenon, ZenonT(40) DEF GCInv, AloneInv
  <1>6. s # c /\ s \notin Busy
    BY Zenon, <1>5 DEF Sweepers
  <1>7. Busy' = Busy \cup {s}
    BY Zenon, <1>1, <1>2, <1>6 DEF Busy, Sweeping, Counted
  <1>8. TasksCounted'
    BY Zenon, <1>1, <1>6, <1>7, BusyFacts DEF TasksCounted
  <1>9. \A d \in Collectors : d # c => heap[d] \notin Counted
    BY <1>5 DEF Busy
  <1>10. AloneInv'
    BY Zenon, <1>1, <1>2, <1>9 DEF AloneInv, Counted
  <1>11. heap[Mutator] \notin Leaving
    BY Zenon DEF GCInv, ShutdownInv, Leaving
  <1>12. ShutdownInv'
    BY ZenonT(40), <1>1, <1>2, <1>11 DEF GCInv, ShutdownInv, Leaving
  <1>. QED BY Zenon, <1>3, <1>4, <1>8, <1>10, <1>12 DEF GCInv

(* A step of a sweeper that has pages, or that counts itself out.          *)
LEMMA SweeperKept ==
    ASSUME Inv, GCInv, NEW s \in Sweepers, SweeperStep(s)
    PROVE  GCInv'
  <1>. USE CollectorsAssumption, ThreadsAssumption
  <1>1. heap \in [Collectors -> Phases] /\ sweep \in [Sweepers -> SweepPhases] /\ tasks_ \in Nat
        /\ pc \in [Threads -> Labels] /\ s \in Threads /\ s \in Members /\ s \notin Collectors
    BY Zenon DEF GCInv, GCTypeOK, Inv, TypeOK, Sweepers, Threads
  <1>2. SweeperFits(sweep[s], pc[s])
    BY ZenonT(40) DEF GCInv, SweepersFit
  <1>3. /\ heap' = heap /\ sweep' \in [Sweepers -> SweepPhases]
        /\ \A r \in Sweepers \ {s} : sweep'[r] = sweep[r]
        /\ \A t \in Members \ {s} : pc'[t] = pc[t]
        /\ SweeperFits(sweep'[s], pc'[s])
        /\ sweep[s] # "idle"
        /\ \/ sweep'[s] # "idle" /\ tasks_' = tasks_
           \/ sweep'[s] = "idle" /\ tasks_' = tasks_ - 1
    <2>. USE <1>1, <1>2 DEF SweeperFits, SweepPhases, Sweep, Threads, Moves
    <2>1. CASE SweeperEnters(s)
      BY ZenonT(40), <2>1, Movements DEF SweeperEnters
    <2>2. CASE SweeperChecks(s)
      BY ZenonT(40), <2>2, Movements DEF SweeperChecks
    <2>3. CASE SweeperStopped(s)
      BY ZenonT(40), <2>3, Movements DEF SweeperStopped, gcvars, sweepers
    <2>4. CASE SweepPage(s)
      BY Zenon, <2>4 DEF SweepPage, vars
    <2>5. CASE SweeperExits(s)
      BY ZenonT(40), <2>5, Movements DEF SweeperExits
    <2>6. CASE SweeperDone(s)
      BY Zenon, <2>6 DEF SweeperDone, vars
    <2>. QED BY ZenonT(40), <2>1, <2>2, <2>3, <2>4, <2>5, <2>6 DEF SweeperStep
  <1>4. CollectorsFit' /\ SweepersFit'
    BY Zenon, <1>1, <1>3 DEF GCInv, CollectorsFit, SweepersFit, Sweepers
  <1>5. s \in Busy /\ \A t : t # s => (t \in Busy' <=> t \in Busy)
    BY Zenon, <1>3 DEF Busy, Sweeping
  <1>6. s \in Busy' <=> sweep'[s] # "idle"
    BY Zenon, <1>1, <1>3 DEF Busy, Sweeping
  <1>7. tasks_' \in Nat /\ tasks_' = Cardinality(Busy')
    <2>1. CASE sweep'[s] # "idle" /\ tasks_' = tasks_
      <3>1. Busy' = Busy
        BY <1>5, <1>6, <2>1
      <3>. QED BY ZenonT(40), <1>1, <2>1, <3>1 DEF GCInv, TasksCounted
    <2>2. CASE sweep'[s] = "idle" /\ tasks_' = tasks_ - 1
      <3>1. Busy' = Busy \ {s}
        BY Zenon, <1>5, <1>6, <2>2
      <3>. QED BY Zenon, ZenonT(40), <1>5, <2>2, <3>1, BusyFacts
    <2>. QED BY Zenon, <1>3, <2>1, <2>2
  <1>8. AloneInv'
    BY ZenonT(40), <1>1, <1>3, <1>5 DEF GCInv, AloneInv
  <1>9. ShutdownInv'
    BY ZenonT(40), <1>1, <1>3, <1>5 DEF GCInv, ShutdownInv
  <1>. QED BY Zenon, <1>1, <1>3, <1>4, <1>7, <1>8, <1>9 DEF GCInv, GCTypeOK, TasksCounted

LEMMA GCNextKept == ASSUME Inv, GCInv, [GCNext]_allvars PROVE GCInv'
  <1>1. CASE UNCHANGED <<pc, tasks_, heap, sweep>>
    BY ZenonT(40), <1>1 DEF GCInv, GCTypeOK, CollectorsFit, SweepersFit, TasksCounted, AloneInv, ShutdownInv,
                Busy, Sweeping
  <1>2. ASSUME NEW c \in Collectors, Begin(c) PROVE GCInv'
    <2>1. CASE UNCHANGED vars
      <3>1. CASE CollectNew(c) \/ EnterIsolate(c) \/ ExitIsolate(c)
        BY ZenonT(40), <3>1, RegistrySteps, CollectorKept
      <3>. QED BY Zenon, <1>2, <2>1, <3>1, RunningSteps, CollectorKept DEF Begin
    <2>2. CASE CollectNew(c) \/ EnterIsolate(c) \/ ExitIsolate(c)
      BY Zenon, <2>2, RegistrySteps, CollectorKept
    <2>. QED BY Zenon, <1>2, <2>1, <2>2 DEF Begin, BeginAwait, AllocateOld, CollectAllGarbage
  <1>3. ASSUME NEW c \in Collectors, Continue(c) PROVE GCInv'
    <2>1. CASE \E s \in Sweepers, n \in 1 .. MaxPages : SweepConcurrent(c, s, n)
      BY Zenon, <2>1, SweepConcurrentKept
    <2>2. CASE \/ \E w \in DOMAIN Awaits : Await(c, w)
               \/ RetryAllocate(c) \/ IterationEnds(c) \/ MarkSweepEnds(c) \/ SweepNow(c)
      <3>1. UNCHANGED vars
        BY Zenon, <2>2 DEF Await, RetryAllocate, IterationEnds, MarkSweepEnds, SweepNow
      <3>. QED BY Zenon, <2>2, <3>1, RunningSteps, CollectorKept
    <2>3. CASE \/ ScavengeAll(c) \/ MarkSweep(c) \/ ScavengeEnds(c) \/ Rendezvous(c)
               \/ MarkObjects(c) \/ MarkTask(c) \/ Resume(c) \/ HandleInterrupts(c)
               \/ CollectorStopped(c)
      BY Zenon, <2>3, RegistrySteps, CollectorKept
    <2>. QED BY Zenon, <1>3, <2>1, <2>2, <2>3 DEF Continue
  <1>4. CASE BeginShutdown
    <2>1. UNCHANGED vars /\ Mutator \in Collectors
      BY Zenon, <1>4, CollectorsAssumption DEF BeginShutdown, BeginAwait
    <2>. QED BY Zenon, <1>4, <2>1, RunningSteps, CollectorKept
  <1>5. CASE Shutdown
    BY Zenon, <1>5, CollectorsAssumption, RegistrySteps, CollectorKept
  <1>6. ASSUME NEW c \in Collectors, SpuriousTasksWakeup(c) PROVE GCInv'
    BY Zenon, <1>1, <1>6 DEF SpuriousTasksWakeup, vars, sweepers
  <1>7. ASSUME NEW t \in Members, SpuriousWakeup(t) /\ UNCHANGED gcvars PROVE GCInv'
    BY Zenon, <1>1, <1>7, Movements DEF gcvars, sweepers
  <1>8. CASE Gone \/ UNCHANGED allvars
    BY Zenon, <1>1, <1>8 DEF Gone, allvars, vars, gcvars, sweepers
  <1>. QED BY Zenon, <1>2, <1>3, <1>4, <1>5, <1>6, <1>7, <1>8, SweeperKept DEF GCNext

-----------------------------------------------------------------------------
LEMMA GCInitInv == GCInit => GCInv
  <1>. SUFFICES ASSUME GCInit PROVE GCInv
    BY Zenon
  <1>. USE CollectorsAssumption DEF GCInit, Init
  <1>1. Busy = {}
    BY Zenon DEF Busy, Sweeping, Counted
  <1>2. TasksCounted
    BY Zenon, <1>1, FS_EmptySet DEF TasksCounted
  <1>3. GCTypeOK /\ CollectorsFit /\ SweepersFit
    BY Zenon DEF GCTypeOK, CollectorsFit, SweepersFit, Fits, SweeperFits, Phases, SweepPhases, Sweepers,
           Threads
  <1>4. AloneInv /\ ShutdownInv
    BY Zenon, <1>1 DEF AloneInv, ShutdownInv, Leaving
  <1>. QED BY Zenon, <1>2, <1>3, <1>4 DEF GCInv

(* The invariants of the registry and of the page space hold together.     *)
THEOREM PageSpaceInvariant == GCSpec => [](Inv /\ GCInv)
  <1>1. GCInit => Inv /\ GCInv
    BY Zenon, InitInv, GCInitInv DEF GCInit
  <1>2. Inv /\ GCInv /\ [GCNext]_allvars => (Inv /\ GCInv)'
    <2>1. Inv /\ [Next]_vars => Inv'
      BY Zenon, NextTypeOK, NextScheduledInv, NextMarkerInv, NextOrganizerInv, NextCollectorInv,
         NextRounds, NextRemainingCounts DEF Inv
    <2>. QED BY <2>1, RegistryStep, GCNextKept
  <1>. QED BY <1>1, <1>2, PTL DEF GCSpec

(* No sweeper exists while an old-space collection has yet to sweep, while *)
(* the heap is iterated over or after Shutdown has waited for the tasks,   *)
(* however many collectors and sweepers there are.                         *)
THEOREM SweepersStayApart == GCSpec => []SweepersKeptApart
  <1>1. GCInv => SweepersKeptApart
    <2>. SUFFICES ASSUME GCInv, NEW c \in Collectors,
                         heap[c] \in {"safepoint", "marksweep", "iterating", "shutdown", "gone"}
                  PROVE  Sweeping = {}
      BY Zenon DEF SweepersKeptApart
    <2>1. CASE heap[c] \in {"safepoint", "marksweep", "iterating"}
      BY Zenon, <2>1 DEF GCInv, AloneInv, Busy, Sweeping, Sweepers
    <2>2. CASE heap[c] \in {"shutdown", "gone"}
      BY Zenon, <2>2, CollectorsAssumption DEF GCInv, ShutdownInv, Leaving, Busy
    <2>. QED BY <2>1, <2>2
  <1>. QED BY <1>1, PageSpaceInvariant, PTL

(* When Shutdown has left the isolate, no thread is scheduled in it: the   *)
(* sweepers have gone, and a marker would need a collector that waits.     *)
THEOREM NobodyIsLeftBehind == GCSpec => []ShutdownFindsNobody
  <1>1. Inv /\ GCInv => ShutdownFindsNobody
    <2>. SUFFICES ASSUME Inv, GCInv, heap[Mutator] = "gone" PROVE scheduled = {}
      BY Zenon DEF ShutdownFindsNobody
    <2>1. ASSUME NEW t \in Collectors PROVE pc[t] = "outside"
      BY Zenon, <2>1, CollectorsAssumption DEF GCInv, ShutdownInv, Leaving, CollectorsFit, Fits, AtWork, Meeting
    <2>2. ASSUME NEW t \in Sweepers PROVE pc[t] = "outside"
      BY Zenon, <2>2 DEF GCInv, ShutdownInv, Busy, Sweeping, SweepersFit, SweeperFits
    <2>3. \A t \in Members : pc[t] = "outside"
      BY Zenon, <2>1, <2>2 DEF Sweepers
    <2>4. \A t \in Members : t \notin scheduled
      BY Zenon, <2>3 DEF Inv, ScheduledInv, Inside, Running, Organizing, Stopping
    <2>5. Marker \notin scheduled
      BY Zenon, <2>3 DEF Inv, MarkerInv
    <2>. QED BY <2>4, <2>5 DEF Inv, TypeOK, Threads
  <1>. QED BY <1>1, PageSpaceInvariant, PTL

================================================================================
