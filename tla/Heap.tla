---------------------------------- MODULE Heap ----------------------------------
(***************************************************************************)
(* The objects of an isolate and its two collectors: the mutator with its  *)
(* write barrier (raw_object.h), the scavenger (scavenger.cc) and the      *)
(* marker (gc_marker.cc), whose task runs on a thread of its own and keeps *)
(* in step with the collecting thread by the barrier of ThreadBarrier.     *)
(* Objects keep their names when they are moved: a pointer is wrong after  *)
(* a scavenge if it points to a moved object and was not visited.  A       *)
(* collection takes one step per object that it visits; other threads of   *)
(* the isolate are stopped (ThreadRegistry), and sweeping is one step      *)
(* (ConcurrentSweep).                                                      *)
(***************************************************************************)
EXTENDS ThreadBarrier, StoreBuffer
LOCAL INSTANCE FiniteSetsExt

CONSTANTS
    Obj,
    WeakProperty,   \* the objects of this class
    NULL,           \* the null object, which no collection visits
    Marker,         \* the participant that runs MarkTask; Owner is the mutator
    InitialHeaps,   \* heaps to begin with: records of slot, space and root
    WeakSets,       \* what a prologue callback of the embedder may register
    MaxOps,         \* bound on the stores, allocations ... of the mutator
    MaxGCs          \* bound on the collections it asks for

ASSUME HeapAssumption ==
    /\ Threads = {Owner, Marker} /\ Owner # Marker /\ Rounds = 2
    /\ WeakProperty \subseteq Obj /\ NULL \notin Obj

VARIABLES
    space,          \* "new", "old" or "free"
    slot,           \* the pointer fields of each object
    root,           \* the objects in handles and on the stack
    remembered, watched, marked,    \* the objects whose header bit is set
    survivors,      \* the new objects that have survived a scavenge
    survivor_end_,  \* "top": above the survivors; or "end" of to-space
    buf,            \* the store buffer
    from, copied,   \* from-space; the objects with a forwarding address
    visited,        \* objects whose pointers this scavenge has visited
    pending,        \* entries of the store buffer still to be visited
    grey,           \* objects to be visited: to-space above resolved_top_, the
                    \* promoted and the delayed weak stack; or the marking stack
    delay,          \* the weak properties of the delay set
    sets,           \* delayed_weak_reference_sets: records of key and value
    api,            \* history: the sets the embedder registered
    at,             \* where each thread is in the collection
    due,            \* history: a block was handed over and the buffer was full
    missed,         \* history: weak properties visited as part of another object
    ops, gcs

barrier == <<remaining_, parity_, done_, old_parity, calls, round, waiting, destructor, pc>>
objects == <<space, slot, root, survivors, survivor_end_>>
bits == <<remembered, watched, marked>>
scavenge == <<from, copied, visited, pending>>
trace == <<grey, delay, sets, api>>
counts == <<ops, gcs>>
heapvars == <<barrier, objects, bits, scavenge, trace, buf, at, due, missed, counts>>

Fields(o) == IF o \in WeakProperty THEN {"key", "value"} ELSE {"next"}
Pointers(o) == {slot[o][f] : f \in Fields(o)} \ {NULL}
New == {o \in Obj : space[o] = "new"}
Old == {o \in Obj : space[o] = "old"}

Goes(t, l) == at' = [at EXCEPT ![t] = l]

(* Old objects with pointers to new ones are remembered from the start.    *)
HeapInit ==
    /\ Init
    /\ \E h \in InitialHeaps : space = h.space /\ slot = h.slot /\ root = h.root
    /\ survivors = New /\ survivor_end_ = "top"
    /\ remembered = {o \in Old : Pointers(o) \cap New # {}}
    /\ buf = FoldSet(LAMBDA o, b : AddObject(b, Owner, o), NewBuffer(Threads), remembered)
    /\ watched = {} /\ marked = {}
    /\ from = {} /\ copied = {} /\ visited = {} /\ pending = << >>
    /\ grey = {} /\ delay = {} /\ sets = {} /\ api = {}
    /\ at = [t \in Threads |-> IF t = Owner THEN "mutate" ELSE "none"]
    /\ due = Overflowed(buf) /\ missed = {} /\ ops = 0 /\ gcs = 0

-----------------------------------------------------------------------------
(* The mutator works on what it holds in handles and on the stack.         *)

Operate == at[Owner] = "mutate" /\ ops < MaxOps /\ ops' = ops + 1 /\ UNCHANGED gcs

(* The filter of StorePointer.                                             *)
NeedsBarrier(o, v) ==
    v # NULL /\ space[v] = "new" /\ space[o] = "old" /\ o \notin remembered

StorePointer(o, f, v) ==
    /\ Operate /\ o \in root /\ v \in root \cup {NULL}
    /\ slot' = [slot EXCEPT ![o][f] = v]
    /\ IF NeedsBarrier(o, v)
         THEN /\ remembered' = remembered \cup {o}
              /\ buf' = AddObject(buf, Owner, o)
              /\ due' = (due \/ (Len(buf'.full) > Len(buf.full) /\ Overflowed(buf')))
         ELSE UNCHANGED <<remembered, buf, due>>
    /\ UNCHANGED <<barrier, space, root, survivors, survivor_end_, watched, marked, scavenge, trace, at, missed>>

Load(o, f) ==
    /\ Operate /\ o \in root /\ slot[o][f] \notin root \cup {NULL}
    /\ root' = root \cup {slot[o][f]}
    /\ UNCHANGED <<barrier, space, slot, survivors, survivor_end_, bits, scavenge, trace, buf, at, due, missed>>

DropRoot(o) ==
    /\ Operate /\ o \in root /\ root' = root \ {o}
    /\ UNCHANGED <<barrier, space, slot, survivors, survivor_end_, bits, scavenge, trace, buf, at, due, missed>>

(* s is where the size and class of the object put it.                     *)
Allocate(o, s) ==
    /\ Operate /\ space[o] = "free"
    /\ space' = [space EXCEPT ![o] = s]
    /\ slot' = [slot EXCEPT ![o] = [f \in Fields(o) |-> NULL]]
    /\ root' = root \cup {o}
    /\ UNCHANGED <<barrier, survivors, survivor_end_, bits, scavenge, trace, buf, at, due, missed>>

Mutate ==
    \E o \in Obj :
        \/ \E f \in Fields(o), v \in Obj \cup {NULL} : StorePointer(o, f, v)
        \/ \E f \in Fields(o) : Load(o, f)
        \/ DropRoot(o)
        \/ \E s \in {"new", "old"} : Allocate(o, s)

-----------------------------------------------------------------------------
(* The scavenger, on the thread of the mutator.                            *)

(* Prologue: the block of this thread is handed over, the embedder's       *)
(* callback registers weak reference sets, the semi-spaces are flipped.    *)
BeginScavenge(b) ==
    /\ from' = New /\ copied' = {} /\ visited' = {}
    /\ buf' = PrepareForGC(b, Owner)
    /\ sets' \in WeakSets /\ api' = sets'
    /\ due' = FALSE /\ Goes(Owner, "scavenge roots")
    /\ UNCHANGED <<barrier, objects, bits, pending, grey, delay, missed, ops>>

(* CollectGarbage(kNew), as an allocation that fails calls it.             *)
CollectNew ==
    /\ at[Owner] = "mutate" /\ gcs < MaxGCs /\ gcs' = gcs + 1
    /\ BeginScavenge(buf)

HandleInterrupts ==
    /\ at[Owner] = "mutate" /\ buf.interrupt /\ UNCHANGED gcs
    /\ LET b == [buf EXCEPT !.interrupt = FALSE]
       IN  \/ Overflowed(b) /\ BeginScavenge(b)
           \/ /\ ~Overflowed(b) /\ buf' = b
              /\ UNCHANGED <<barrier, objects, bits, scavenge, trace, at, due, missed, ops>>

Candidates == IF survivor_end_ = "end" THEN from ELSE survivors

(* UpdateStoreBuffer keeps the object visited if a moved target is new.    *)
StillPointsToNew(targets, sp) == \E x \in targets : sp[x] = "new"

(* Mutant: the weak properties of a key are forgotten when it is reached.  *)
NobodyWoken(reached) == {}

(* The weak properties that wait for a key among the objects reached.      *)
Woken(reached) == {w \in delay : slot[w].key \in reached}

(* ScavengePointer for each of some pointers: what has not been moved is   *)
(* moved or promoted, where the page space has room, and must be visited.  *)
(* o is the object they are in, or NULL for pointers that need no barrier; *)
(* rem and gr are remembered and grey without the object that is visited.  *)
ScavengePointers(targets, o, rem, gr) ==
    LET fresh == (targets \cap from) \ copied
        woken == Woken(fresh)
    IN  \E promoted \in SUBSET (fresh \cap Candidates) :
            /\ copied' = copied \cup fresh
            /\ space' = [x \in Obj |-> IF x \in promoted THEN "old" ELSE space[x]]
            /\ grey' = gr \cup fresh \cup woken
            /\ delay' = delay \ woken
            /\ watched' = watched \ fresh
            /\ IF o # NULL /\ o \notin rem /\ StillPointsToNew(targets, space')
                 THEN remembered' = rem \cup {o} /\ buf' = AddObjectGC(buf, Owner, o)
                 ELSE remembered' = rem /\ UNCHANGED buf

(* IterateRoots: handles and stack, then the entries of the store buffer.  *)
ScavengeRoots ==
    /\ at[Owner] = "scavenge roots"
    /\ ScavengePointers(root, NULL, remembered, grey)
    /\ Goes(Owner, "take buffers")
    /\ UNCHANGED <<barrier, slot, root, survivors, survivor_end_, marked, from, visited,
                   pending, sets, api, due, missed, counts>>

TakeStoreBuffers ==
    /\ at[Owner] = "take buffers"
    /\ pending' = Handed(buf) /\ buf' = TakeAll(buf)
    /\ Goes(Owner, "scavenge buffers")
    /\ UNCHANGED <<barrier, objects, bits, from, copied, visited, trace, due, missed, counts>>

IterateStoreBuffers ==
    /\ at[Owner] = "scavenge buffers" /\ pending # << >>
    /\ LET o == Head(pending)
       IN  /\ visited' = visited \cup {o}
           /\ ScavengePointers(Pointers(o), o, remembered \ {o}, grey)
    /\ pending' = Tail(pending)
    /\ UNCHANGED <<barrier, slot, root, survivors, survivor_end_, marked, from, sets, api, at,
                   due, missed, counts>>

(* ProcessWeakProperty leaves a weak property in to-space until its key is *)
(* reached; one that was promoted is visited like any other object.        *)
Delayed(w) ==
    /\ w \in WeakProperty /\ space[w] = "new"
    /\ slot[w].key \in from \ copied

(* A turn of ProcessToSpace; the order of its three lists does not matter. *)
ProcessToSpace(o) ==
    /\ at[Owner] = "scavenge buffers" /\ pending = << >> /\ o \in grey
    /\ \/ /\ Delayed(o)
          /\ watched' = watched \cup {slot[o].key} /\ delay' = delay \cup {o}
          /\ grey' = grey \ {o}
          /\ UNCHANGED <<space, remembered, copied, visited, buf>>
       \/ /\ ~Delayed(o)
          /\ visited' = visited \cup {o}
          /\ ScavengePointers(Pointers(o), IF space[o] = "old" THEN o ELSE NULL,
                              remembered, grey \ {o})
    /\ UNCHANGED <<barrier, slot, root, survivors, survivor_end_, marked, from, pending, sets,
                   api, at, due, missed, counts>>

Traced == at[Owner] = "scavenge buffers" /\ pending = << >> /\ grey = {}

(* IsUnreachable of scavenger.cc.                                          *)
Unreached(x) == x \in from \ copied

(* A pass of IterateWeakReferences, repeated while it reaches anything.    *)
ScavengeWeakReferences ==
    /\ Traced
    /\ LET live == {s \in sets : ~Unreached(s.key)}
       IN  /\ ScavengePointers({s.value : s \in live}, NULL, remembered, grey)
           /\ sets' = sets \ live
           /\ Goes(Owner, IF grey' # {} THEN at[Owner] ELSE "scavenged")
    /\ UNCHANGED <<barrier, slot, root, survivors, survivor_end_, marked, from, visited,
                   pending, api, due, missed, counts>>

Cleared(ws) == [o \in Obj |-> IF o \in ws THEN [f \in Fields(o) |-> NULL] ELSE slot[o]]

(* Finalize clears the weak properties whose keys died, and the Epilogue   *)
(* frees from-space; survivor_end_ follows from statistics.                *)
ScavengeEnds ==
    /\ at[Owner] = "scavenged"
    /\ slot' = Cleared(delay)
    /\ space' = [o \in Obj |-> IF o \in from \ copied THEN "free" ELSE space[o]]
    /\ survivors' = copied \cap New /\ survivor_end_' \in {"top", "end"}
    /\ watched' = watched \cap copied
    /\ delay' = {} /\ sets' = {} /\ api' = {} /\ from' = {} /\ copied' = {} /\ visited' = {}
    /\ Goes(Owner, "mutate")
    /\ UNCHANGED <<barrier, root, remembered, marked, pending, grey, buf, due, missed, counts>>

-----------------------------------------------------------------------------
(* The marker: MarkTask populates and drains the marking stack while the   *)
(* collecting thread waits at the barrier; then that thread deals with the *)
(* weak reference sets; then both finish.                                  *)

NewBarrier ==
    /\ remaining_' = num_threads_ /\ parity_' = FALSE /\ done_' = FALSE
    /\ old_parity' = [t \in Threads |-> FALSE]
    /\ calls' = [t \in Threads |-> 0] /\ round' = 0
    /\ waiting' = {} /\ destructor' = "none"
    /\ pc' = [t \in Threads |-> "work"]

(* Prologue discards the store buffer, which marking fills again.          *)
CollectOld ==
    /\ at[Owner] = "mutate" /\ gcs < MaxGCs /\ gcs' = gcs + 1
    /\ buf' = TakeAll(PrepareForGC(buf, Owner))
    /\ sets' \in WeakSets /\ api' = sets'
    /\ NewBarrier
    /\ due' = FALSE /\ at' = [t \in Threads |-> IF t = Owner THEN "sync" ELSE "queued"]
    /\ UNCHANGED <<objects, bits, scavenge, grey, delay, missed, ops>>

EnterIsolateAsHelper ==
    /\ at[Marker] = "queued" /\ Goes(Marker, "mark roots")
    /\ buf' = [buf EXCEPT !.block[Marker] = EmptyBlock]
    /\ UNCHANGED <<barrier, objects, bits, scavenge, trace, due, missed, counts>>

White(x) == space[x] = "old" /\ x \notin marked

(* All the pointers that MarkObject is called for, beginning with some:    *)
(* marking a watched key visits the weak properties that wait for it.      *)
Reaches[ps \in SUBSET Obj] ==
    LET more == ps \cup UNION {Pointers(w) : w \in Woken({x \in ps : White(x)})}
    IN  IF more = ps THEN ps ELSE Reaches[more]

(* MarkObject for some pointers by thread t; o is visiting_old_object_.    *)
MarkPointers(t, targets, o, gr) ==
    LET ps == Reaches[targets]
        fresh == {x \in ps : White(x)}
        woken == Woken(fresh)
        rem == remembered \ fresh
    IN  /\ marked' = marked \cup fresh
        /\ watched' = watched \ fresh
        /\ grey' = gr \cup fresh
        /\ delay' = delay \ woken
        /\ missed' = missed \cup {w \in woken : Pointers(w) \cap New # {}}
        /\ IF o # NULL /\ o \notin rem /\ ps \cap New # {}
             THEN remembered' = rem \cup {o} /\ buf' = AddObjectGC(buf, t, o)
             ELSE remembered' = rem /\ UNCHANGED buf

marking == <<barrier, objects, scavenge, api, due, counts>>

(* IterateRoots: handles, stack and every pointer in new space.            *)
MarkRoots ==
    /\ at[Marker] = "mark roots" /\ Goes(Marker, "drain")
    /\ MarkPointers(Marker, root \cup UNION {Pointers(x) : x \in New}, NULL, grey)
    /\ UNCHANGED <<marking, sets>>

(* Who drains the marking stack: the task, later the collecting thread.    *)
Drains(t) ==
    \/ t = Marker /\ at[t] = "drain"
    \/ t = Owner /\ at[t] = "weak" /\ pc[t] = "work"

(* Mutant: a weak property is delayed although its key is already marked.  *)
AnyOldKey(w) == w \in WeakProperty /\ slot[w].key # NULL /\ space[slot[w].key] = "old"

WhiteKey(w) == w \in WeakProperty /\ slot[w].key # NULL /\ White(slot[w].key)

(* A turn of DrainMarkingStack; the order of the stack does not matter.    *)
DrainMarkingStack(t, o) ==
    /\ Drains(t) /\ o \in grey
    /\ \/ /\ WhiteKey(o)
          /\ watched' = watched \cup {slot[o].key} /\ delay' = delay \cup {o}
          /\ grey' = grey \ {o}
          /\ UNCHANGED <<remembered, marked, buf, missed>>
       \/ /\ ~WhiteKey(o)
          /\ MarkPointers(t, Pointers(o), o, grey \ {o})
    /\ UNCHANGED <<marking, sets, at>>

Drained ==
    /\ at[Marker] = "drain" /\ grey = {} /\ Goes(Marker, "sync")
    /\ UNCHANGED <<marking, bits, grey, delay, sets, buf, missed>>

(* A pass of IterateWeakReferences.                                        *)
MarkWeakReferences ==
    /\ Drains(Owner) /\ grey = {}
    /\ LET live == {s \in sets : ~White(s.key)}
       IN  /\ MarkPointers(Owner, {s.value : s \in live}, NULL, grey)
           /\ sets' = sets \ live
           /\ Goes(Owner, IF grey' # {} THEN "weak" ELSE "sync 2")
    /\ UNCHANGED marking

heap == <<objects, bits, scavenge, trace, due, missed, counts>>

(* The two calls of Sync of each thread.                                   *)
AfterSync(t) ==
    CASE at[t] = "sync" /\ t = Owner -> "weak"
      [] at[t] = "sync" /\ t = Marker -> "sync 2"
      [] at[t] = "sync 2" -> "finish"

CallSync(t) ==
    /\ at[t] \in {"sync", "sync 2"} /\ pc[t] = "work"
    /\ Sync(t) /\ Goes(t, AfterSync(t))
    /\ UNCHANGED <<heap, buf>>

(* Mutant: the marker leaves the barrier before it hands its block over.   *)
BlockKept(b) == b

(* ExitIsolateAsHelper releases the block of the marker.                   *)
ReleaseBlock(b) == CheckThreshold(Release(b, Marker))

ExitIsolateAsHelper ==
    /\ at[Marker] = "finish" /\ pc[Marker] = "work" /\ Goes(Marker, "exit")
    /\ buf' = ReleaseBlock(buf)
    /\ due' = (due \/ Overflowed(buf'))
    /\ UNCHANGED <<barrier, objects, bits, scavenge, trace, missed, counts>>

CallExit(t) ==
    /\ at[t] = IF t = Owner THEN "finish" ELSE "exit"
    /\ Exit(t) /\ Goes(t, IF t = Owner THEN "destroy" ELSE "none")
    /\ UNCHANGED <<heap, buf>>

BarrierStep(t) == (SyncWakes(t) \/ SetDone(t)) /\ UNCHANGED <<heap, buf, at>>

DestroyBarrier == at[Owner] = "destroy" /\ Destructor /\ UNCHANGED <<heap, buf, at>>

(* ClearReferences, and the sweep.                                         *)
Sweep ==
    /\ at[Owner] = "destroy" /\ destructor = "returned"
    /\ slot' = Cleared(delay) /\ delay' = {} /\ sets' = {} /\ api' = {}
    /\ space' = [o \in Obj |-> IF White(o) THEN "free" ELSE space[o]]
    /\ remembered' = remembered \cap marked /\ watched' = {} /\ marked' = {}
    /\ Goes(Owner, "mutate")
    /\ UNCHANGED <<barrier, root, survivors, survivor_end_, scavenge, grey, buf, due,
                   missed, counts>>

-----------------------------------------------------------------------------
Scavenge ==
    \/ ScavengeRoots \/ TakeStoreBuffers \/ IterateStoreBuffers
    \/ \E o \in Obj : ProcessToSpace(o)
    \/ ScavengeWeakReferences \/ ScavengeEnds

Mark(t) ==
    \/ \E o \in Obj : DrainMarkingStack(t, o)
    \/ CallSync(t) \/ BarrierStep(t) \/ CallExit(t)
    \/ t = Marker /\ (EnterIsolateAsHelper \/ MarkRoots \/ Drained \/ ExitIsolateAsHelper)
    \/ t = Owner /\ (MarkWeakReferences \/ DestroyBarrier \/ Sweep)

Spurious ==
    /\ (\E t \in Threads : SpuriousWakeup(t)) \/ DestructorSpurious
    /\ UNCHANGED <<heap, buf, at>>

Rest == at[Owner] = "mutate" /\ UNCHANGED heapvars

HeapNext ==
    \/ Mutate \/ CollectNew \/ CollectOld \/ HandleInterrupts
    \/ Scavenge \/ (\E t \in Threads : Mark(t)) \/ Spurious
    \/ Rest

(* A collection goes on, and the mutator looks at its interrupts.          *)
HeapSpec ==
    /\ HeapInit /\ [][HeapNext]_heapvars
    /\ WF_heapvars(Scavenge \/ Mark(Owner)) /\ WF_heapvars(Mark(Marker))
    /\ WF_heapvars(HandleInterrupts)

-----------------------------------------------------------------------------
OldToNew(o) == space[o] = "old" /\ Pointers(o) \cap New # {}

(* Between collections every old object that points to a new one has its   *)
(* remembered bit set (scavenger.cc:288: "all old->new references have     *)
(* been added to the StoreBuffers").  The marker breaks this for a weak    *)
(* property that it visits when it marks its key.                          *)
OldToNewIsRemembered ==
    at[Owner] = "mutate" => {o \in Obj : OldToNew(o)} \subseteq remembered

(* The same, but for those weak properties; and the objects with the bit   *)
(* set are the ones in the buffer, each once, where the next collection    *)
(* finds them: handed over or in the block of the collecting thread.       *)
RememberedSetComplete ==
    at[Owner] = "mutate" =>
        /\ {o \in Obj : OldToNew(o)} \subseteq remembered \cup missed
        /\ buf.block[Marker] = EmptyBlock
        /\ \A o \in Obj : Occurrences(buf, o) = IF o \in remembered THEN 1 ELSE 0

(* What a scavenge must keep: the new objects reached from roots and old   *)
(* objects through all but the weak properties in to-space with dead keys, *)
(* and from the values of the weak reference sets with a live key.         *)
KeptByScavenge(S) ==
    /\ root \cap from \subseteq S
    /\ \A o \in Old \cup S :
         \/ o \in WeakProperty /\ space[o] = "new" /\ slot[o].key \in from \ S
         \/ Pointers(o) \cap from \subseteq S
    /\ \A s \in api : s.key \in from \ S \/ {s.value} \cap from \subseteq S

(* When a scavenge is about to free from-space it has moved just what must *)
(* be kept, and has visited every object that points to a moved one, or    *)
(* is about to clear it: no pointer is left dangling (scavenger.cc:288).   *)
ScavengeKeepsReachable ==
    at[Owner] = "scavenged" /\ missed = {} =>
        /\ copied = {x \in from : \A S \in SUBSET from : KeptByScavenge(S) => x \in S}
        /\ \A o \in (Old \cup copied) \ (visited \cup delay) : Pointers(o) \cap from = {}
        /\ \A w \in delay : slot[w].key \notin copied

(* What marking must keep: the old objects reached from roots and from     *)
(* new space through all but the weak properties with dead keys, and from  *)
(* the values of the weak reference sets with a live key.                  *)
KeptByMarking(S) ==
    /\ (root \cup UNION {Pointers(x) : x \in New}) \cap Old \subseteq S
    /\ \A o \in S :
         \/ o \in WeakProperty /\ slot[o].key \in Old \ S
         \/ Pointers(o) \cap Old \subseteq S
    /\ \A s \in api : s.key \in Old \ S \/ {s.value} \cap Old \subseteq S

(* When the sweep begins the marked objects are just those to be kept, by  *)
(* whichever thread they were marked, and only weak properties with dead   *)
(* keys are left to be cleared.                                            *)
MarkedIsReachable ==
    at[Owner] = "destroy" =>
        /\ marked = {x \in Old : \A S \in SUBSET Old : KeptByMarking(S) => x \in S}
        /\ \A w \in delay : White(slot[w].key)

(* A collection ends: the two threads do not wait for each other for ever; *)
(* and a store buffer that overflows (CheckThreshold) is emptied by one.   *)
CollectionsEnd == (at[Owner] # "mutate" ~> at[Owner] = "mutate") /\ (due ~> ~due)

===============================================================================
