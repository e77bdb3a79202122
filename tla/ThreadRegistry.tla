---------------------------- MODULE ThreadRegistry ----------------------------
(***************************************************************************)
(* Safepoints of an isolate (runtime/vm/thread_registry.cc).  A thread     *)
(* that wants to collect garbage calls SafepointThreads, which waits until *)
(* every other thread scheduled in the isolate has stopped; they stay      *)
(* stopped until it calls ResumeAllThreads.  Each lock section of monitor_ *)
(* is one step, and a thread in Wait goes on after a NotifyAll, or         *)
(* spuriously.                                                             *)
(***************************************************************************)
EXTENDS Integers, FiniteSets

CONSTANTS
    Helpers,    \* threads that enter the isolate as helpers and poll for safepoints
    Mutator,    \* the thread that runs Dart code, and polls only when interrupted
    Marker,     \* the pool thread that runs the MarkTask of a collection
    MaxRounds   \* bound: calls of SafepointThreads in a behaviour

ASSUME ThreadsAssumption ==
    /\ IsFiniteSet(Helpers) /\ Mutator # Marker
    /\ Mutator \notin Helpers /\ Marker \notin Helpers

ASSUME RoundsAssumption == MaxRounds \in Nat

Members == Helpers \cup {Mutator}
Threads == Members \cup {Marker}

VARIABLES
    entries_,           \* threads that have an entry
    scheduled,          \* those whose entry says so
    in_rendezvous_, remaining_, round_,
    last_round,         \* the local variable of CheckSafepointLocked
    interrupted,        \* the kVMInterrupt bit of the isolate
    mark_task,          \* the MarkTask of the collection in progress
    waiting,            \* threads in Wait that have not been notified
    pc

vars == <<entries_, scheduled, in_rendezvous_, remaining_, round_, last_round,
          interrupted, mark_task, waiting, pc>>

rendezvous == <<in_rendezvous_, remaining_, round_, last_round>>

Running    == {"running", "poll"}
Organizing == {"gather", "gc", "marking"}
Stopping   == {"at_safepoint", "join"}

Init ==
    /\ entries_ = {} /\ scheduled = {}
    /\ in_rendezvous_ = FALSE /\ remaining_ = 0 /\ round_ = 0
    /\ last_round = [t \in Threads |-> -1]
    /\ interrupted = FALSE /\ mark_task = "none" /\ waiting = {}
    /\ pc = [t \in Threads |-> "outside"]

Goto(t, l) == pc' = [pc EXCEPT ![t] = l]

(* Enters Wait.                                                            *)
WaitAt(t, l) == Goto(t, l) /\ waiting' = waiting \cup {t}

(* In the loop around Wait, and awake.                                     *)
Awake(t, l) == pc[t] = l /\ t \notin waiting

-----------------------------------------------------------------------------
(* RestoreStateTo, at the call and after each Wait.                        *)
Schedule(t) ==
    /\ entries_' = entries_ \cup {t} /\ scheduled' = scheduled \cup {t}
    /\ Goto(t, "running") /\ UNCHANGED waiting

(* Mutant: a thread enters during a rendezvous.                            *)
EnterAtOnce(t) ==
    /\ pc[t] = "outside" \/ Awake(t, "entering")
    /\ Schedule(t)
    /\ UNCHANGED <<rendezvous, interrupted, mark_task>>

RestoreStateTo(t) ==
    /\ pc[t] = "outside" \/ Awake(t, "entering")
    /\ \/ ~in_rendezvous_ /\ Schedule(t)
       \/ in_rendezvous_ /\ WaitAt(t, "entering") /\ UNCHANGED <<entries_, scheduled>>
    /\ UNCHANGED <<rendezvous, interrupted, mark_task>>

(* --remaining_, and NotifyAll when it reaches 0.                          *)
Countdown(stays) ==
    /\ remaining_' = remaining_ - 1
    /\ waiting' = IF remaining_ = 1 THEN stays ELSE waiting \cup stays

LeaveCounted ==
    IF in_rendezvous_ THEN Countdown({}) ELSE UNCHANGED <<remaining_, waiting>>

SaveStateFrom(t) ==
    /\ pc[t] = "running"
    /\ scheduled' = scheduled \ {t}
    /\ Goto(t, "outside")
    /\ LeaveCounted
    /\ UNCHANGED <<entries_, in_rendezvous_, round_, last_round, interrupted, mark_task>>

(* When a thread ends, its entries are removed.                            *)
PruneThread(t) ==
    /\ pc[t] = "outside" /\ t \in entries_
    /\ entries_' = entries_ \ {t}
    /\ UNCHANGED <<scheduled, rendezvous, interrupted, mark_task, waiting, pc>>

-----------------------------------------------------------------------------
(* A turn of the loop of CheckSafepointLocked, in a rendezvous: take part  *)
(* in a round that is new to the thread, and Wait.                         *)
Participate(t, l) ==
    /\ Goto(t, l)
    /\ last_round' = [last_round EXCEPT ![t] = round_]
    /\ Countdown({t})

Participated(t) == last_round[t] = round_

(* Waking up in the same round, or in the next one.                        *)
StayStopped(t, l) ==
    /\ Awake(t, l) /\ in_rendezvous_
    /\ \/ Participated(t) /\ WaitAt(t, l) /\ UNCHANGED <<remaining_, last_round>>
       \/ ~Participated(t) /\ Participate(t, l)
    /\ UNCHANGED <<entries_, scheduled, in_rendezvous_, round_, interrupted, mark_task>>

(* CheckSafepoint: by a helper between two pieces of work, by the mutator  *)
(* from HandleInterrupts.                                                  *)
Polls(t) == pc[t] = IF t = Mutator THEN "poll" ELSE "running"

CheckSafepoint(t) ==
    /\ Polls(t)
    /\ \/ ~in_rendezvous_ /\ Goto(t, "running") /\ UNCHANGED <<remaining_, last_round, waiting>>
       \/ in_rendezvous_ /\ Participate(t, "at_safepoint")
    /\ UNCHANGED <<entries_, scheduled, in_rendezvous_, round_, interrupted, mark_task>>

LeaveSafepoint(t) ==
    /\ Awake(t, "at_safepoint") /\ ~in_rendezvous_
    /\ Goto(t, "running")
    /\ UNCHANGED <<entries_, scheduled, rendezvous, interrupted, mark_task, waiting>>

(* Dart code finds the interrupt in a stack check and clears it.           *)
GetAndClearInterrupts ==
    /\ pc[Mutator] = "running" /\ interrupted
    /\ interrupted' = FALSE
    /\ Goto(Mutator, "poll")
    /\ UNCHANGED <<entries_, scheduled, rendezvous, mark_task, waiting>>

-----------------------------------------------------------------------------
CountScheduledLocked == Cardinality(scheduled)

ScheduleInterrupts(t) == IF t # Mutator THEN TRUE ELSE interrupted

(* The new round, and the first look at remaining_.                        *)
StartRound(t) ==
    /\ in_rendezvous_' = TRUE /\ round_' = round_ + 1
    /\ remaining_' = CountScheduledLocked - 1
    /\ interrupted' = ScheduleInterrupts(t)
    /\ \/ remaining_' = 0 /\ Goto(t, "gc") /\ UNCHANGED waiting
       \/ remaining_' # 0 /\ WaitAt(t, "gather")
    /\ UNCHANGED <<entries_, scheduled, last_round, mark_task>>

(* First take part in a rendezvous that is in progress.                    *)
SafepointThreads(t) ==
    /\ pc[t] = "running"
    /\ round_ + Cardinality({u \in Threads : pc[u] = "join"}) < MaxRounds
    /\ \/ ~in_rendezvous_ /\ StartRound(t)
       \/ /\ in_rendezvous_ /\ Participate(t, "join")
          /\ UNCHANGED <<entries_, scheduled, in_rendezvous_, round_, interrupted, mark_task>>

StartNextRound(t) == Awake(t, "join") /\ ~in_rendezvous_ /\ StartRound(t)

Gather(t) ==
    /\ Awake(t, "gather")
    /\ \/ remaining_ = 0 /\ Goto(t, "gc") /\ UNCHANGED waiting
       \/ remaining_ # 0 /\ WaitAt(t, "gather")
    /\ UNCHANGED <<entries_, scheduled, rendezvous, interrupted, mark_task>>

NotifyAll == {}

ResumeAllThreads(t) ==
    /\ pc[t] = "gc"
    /\ in_rendezvous_' = FALSE
    /\ waiting' = NotifyAll
    /\ mark_task' = "none"
    /\ Goto(t, "running")
    /\ UNCHANGED <<entries_, scheduled, remaining_, round_, last_round, interrupted>>

-----------------------------------------------------------------------------
(* MarkObjects with a MarkTask: the task enters the isolate although a     *)
(* rendezvous is in progress, and leaves it before the collector's barrier *)
(* lets it go on.                                                          *)
RunMarkTask(t) ==
    /\ pc[t] = "gc" /\ mark_task = "none"
    /\ mark_task' = "queued"
    /\ Goto(t, "marking")
    /\ UNCHANGED <<entries_, scheduled, rendezvous, interrupted, waiting>>

EnterBypassing ==
    /\ mark_task = "queued"
    /\ mark_task' = "running"
    /\ entries_' = entries_ \cup {Marker} /\ scheduled' = scheduled \cup {Marker}
    /\ Goto(Marker, "bypass")
    /\ UNCHANGED <<rendezvous, interrupted, waiting>>

ExitBypassing ==
    /\ mark_task = "running"
    /\ mark_task' = "done"
    /\ scheduled' = scheduled \ {Marker}
    /\ Goto(Marker, "outside")
    /\ UNCHANGED <<entries_, rendezvous, interrupted, waiting>>

BarrierDone(t) ==
    /\ pc[t] = "marking" /\ mark_task = "done"
    /\ Goto(t, "gc")
    /\ UNCHANGED <<entries_, scheduled, rendezvous, interrupted, mark_task, waiting>>

SpuriousWakeup(t) ==
    /\ t \in waiting
    /\ waiting' = waiting \ {t}
    /\ UNCHANGED <<entries_, scheduled, rendezvous, interrupted, mark_task, pc>>

-----------------------------------------------------------------------------
Step(t) ==
    \/ RestoreStateTo(t)
    \/ SaveStateFrom(t)
    \/ PruneThread(t)
    \/ CheckSafepoint(t)
    \/ StayStopped(t, "at_safepoint")
    \/ StayStopped(t, "join")
    \/ LeaveSafepoint(t)
    \/ SafepointThreads(t)
    \/ StartNextRound(t)
    \/ Gather(t)
    \/ ResumeAllThreads(t)
    \/ RunMarkTask(t)
    \/ BarrierDone(t)
    \/ SpuriousWakeup(t)

Next ==
    \/ \E t \in Members : Step(t)
    \/ GetAndClearInterrupts
    \/ EnterBypassing
    \/ ExitBypassing

Spec == Init /\ [][Next]_vars

-----------------------------------------------------------------------------
Labels == {"outside", "entering", "bypass"} \cup Running \cup Organizing \cup Stopping

(* The types of the registry and of the threads.                           *)
TypeOK ==
    /\ entries_ \subseteq Threads /\ scheduled \subseteq entries_
    /\ in_rendezvous_ \in BOOLEAN /\ remaining_ \in Nat /\ round_ \in Nat
    /\ last_round \in [Threads -> Int]
    /\ interrupted \in BOOLEAN
    /\ mark_task \in {"none", "queued", "running", "done"}
    /\ waiting \subseteq Threads
    /\ pc \in [Threads -> Labels]

(* Once SafepointThreads has returned, no other thread runs in the isolate *)
(* until ResumeAllThreads: all that are scheduled have stopped, but for    *)
(* the marker while the collector waits for it.                            *)
SafepointHolds ==
    \A t \in Members : pc[t] \in {"gc", "marking"} =>
        \A u \in scheduled \ {t} :
            \/ pc[u] \in Stopping
            \/ u = Marker /\ pc[t] = "marking"

(* Threads that the organizer of this round still has to wait for.         *)
Unstopped ==
    {u \in scheduled : \/ pc[u] \in Running
                       \/ pc[u] \in Stopping /\ ~Participated(u)}

(* remaining_ counts exactly these, across threads that enter, leave, stop *)
(* in time or sleep through the end of a round; so the assertions that it  *)
(* is positive (thread_registry.cc:24, thread_registry.h:97) hold.         *)
RemainingCounts == in_rendezvous_ => remaining_ = Cardinality(Unstopped)

(* thread_registry.cc:171: a thread in CheckSafepointLocked never misses a *)
(* round.                                                                  *)
NoRoundMissed ==
    \A u \in Members : pc[u] \in Stopping =>
        round_ = last_round[u] \/ round_ = last_round[u] + 1

===============================================================================
