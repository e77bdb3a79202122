-------------------------------- MODULE PortMap --------------------------------
(***************************************************************************)
(* The VM's table of ports (runtime/vm/port.cc): an open-addressing hash   *)
(* table from port ids to message handlers, with linear probing, deleted   *)
(* slots and rehashing.  Every operation holds PortMap::mutex_ while it    *)
(* uses the table, so each is one step.                                    *)
(***************************************************************************)
EXTENDS Integers, FiniteSets, FiniteSetsExt

CONSTANTS
    PortIds,            \* ids the random generator may give, positive integers
    Isolates, Natives,  \* handlers of isolates, and of native ports
    NULL, DELETED,      \* no handler, and deleted_entry_
    InitialCapacity     \* kInitialCapacity

ASSUME PortsAssumption == PortIds \subseteq Nat \ {0}

ASSUME CapacityAssumption ==
    InitialCapacity \in Nat \ {0} /\ InitialCapacity % 4 = 0

ASSUME HandlersAssumption ==
    /\ Isolates \cap Natives = {}
    /\ NULL \notin Isolates \cup Natives \cup {DELETED}
    /\ DELETED \notin Isolates \cup Natives

Handlers == Isolates \cup Natives

ILLEGAL_PORT == 0

VARIABLES
    map_, capacity_, used_, deleted_,
    live_ports_,        \* of each handler
    freed               \* handlers the port map has deleted

vars == <<map_, capacity_, used_, deleted_, live_ports_, freed>>

States == {"kNewPort", "kLivePort", "kControlPort"}

(* Entries: a free one is all zero; a deleted one keeps a state nobody     *)
(* reads.                                                                  *)
Free == [port |-> 0, handler |-> NULL, state |-> "kNewPort"]

(* Mutant: a closed slot is free at once.                                  *)
ClosedAsFree == Free

Closed == [port |-> 0, handler |-> DELETED, state |-> "kNewPort"]

Init ==
    /\ capacity_ = InitialCapacity
    /\ map_ = [i \in 0 .. InitialCapacity - 1 |-> Free]
    /\ used_ = 0 /\ deleted_ = 0
    /\ live_ports_ = [h \in Handlers |-> 0]
    /\ freed = {}

-----------------------------------------------------------------------------
(* Probing visits port % capacity and the slots after it, in a circle.     *)
Probe(port, capacity, k) == (port + k) % capacity

(* FindPort stops at the port or at a free slot.  Its loop must not come   *)
(* back to where it began (the assertion of port.cc:46).                   *)
StopsAt(port, k) ==
    LET entry == map_[Probe(port, capacity_, k)]
    IN  entry.handler = NULL \/ entry.port = port

Stops(port) == \E k \in 0 .. capacity_ - 1 : StopsAt(port, k)

(* Where the search for a port stops: the first such slot.                 *)
StopIndex(port) ==
    Probe(port, capacity_,
          CHOOSE k \in 0 .. capacity_ - 1 :
             StopsAt(port, k) /\ \A j \in 0 .. k - 1 : ~StopsAt(port, j))

FindPort(port) ==
    IF port # ILLEGAL_PORT /\ Stops(port) /\ map_[StopIndex(port)].handler # NULL
    THEN StopIndex(port) ELSE -1

(* The first slot, in probing order, that holds no port.                   *)
UnusedSlot(m, capacity, port) ==
    Probe(port, capacity, Min({k \in 0 .. capacity - 1 : m[Probe(port, capacity, k)].port = 0}))

(* Rehash puts the entries, in the order of the old table, in a new one.   *)
Rehashed(m, capacity, new_capacity) ==
    LET Moved[i \in 0 .. capacity] ==
            IF i = 0 THEN [j \in 0 .. new_capacity - 1 |-> Free]
            ELSE LET new == Moved[i - 1]
                     entry == m[i - 1]
                 IN  IF entry.port = 0 THEN new
                     ELSE [new EXCEPT ![UnusedSlot(new, new_capacity, entry.port)] = entry]
    IN  Moved[capacity]

Rehash(m, used, new_capacity) ==
    /\ map_' = Rehashed(m, capacity_, new_capacity)
    /\ capacity_' = new_capacity
    /\ used_' = used /\ deleted_' = 0

(* Mutant: deleted slots are never flushed.                                *)
OnlyGrows(m, used, deleted) ==
    IF used > (capacity_ \div 4) * 3 THEN Rehash(m, used, 2 * capacity_)
    ELSE map_' = m /\ used_' = used /\ deleted_' = deleted /\ UNCHANGED capacity_

(* Takes the table as the operation has left it, and ends the operation.   *)
MaintainInvariants(m, used, deleted) ==
    IF used > (capacity_ \div 4) * 3 THEN Rehash(m, used, 2 * capacity_)
    ELSE IF capacity_ - used - deleted < deleted THEN Rehash(m, used, capacity_)
    ELSE map_' = m /\ used_' = used /\ deleted_' = deleted /\ UNCHANGED capacity_

(* AllocatePort draws numbers until one is in use by no port.              *)
AllocatePort(port) == port # ILLEGAL_PORT /\ FindPort(port) < 0

ConsumeDeleted(index) == IF map_[index].handler = DELETED THEN deleted_ - 1 ELSE deleted_

HandlersPorts(h) == {i \in DOMAIN map_ : map_[i].handler = h}

(* The handler of a native port gets that one port when it is made, and    *)
(* its constructor counts one live port.                                   *)
CreatePort(h, port) ==
    /\ h \in Natives => live_ports_[h] = 0 /\ h \notin freed
    /\ AllocatePort(port)
    /\ LET index == UnusedSlot(map_, capacity_, port) IN
       MaintainInvariants(
          [map_ EXCEPT ![index] = [port |-> port, handler |-> h, state |-> "kNewPort"]],
          used_ + 1, ConsumeDeleted(index))
    /\ live_ports_' = [live_ports_ EXCEPT ![h] = @ + IF h \in Natives THEN 1 ELSE 0]
    /\ UNCHANGED freed

(* Called once for a port of an isolate, when it gets a ReceivePort.       *)
SetPortState(port, state) ==
    /\ FindPort(port) >= 0
    /\ LET index == FindPort(port)  h == map_[index].handler IN
       /\ h \in Isolates /\ map_[index].state = "kNewPort"
       /\ map_' = [map_ EXCEPT ![index].state = state]
       /\ live_ports_' = [live_ports_ EXCEPT ![h] = @ + IF state = "kLivePort" THEN 1 ELSE 0]
    /\ UNCHANGED <<capacity_, used_, deleted_, freed>>

LiveAmong(indices) == Cardinality({i \in indices : map_[i].state = "kLivePort"})

(* ClosePort, and after mutex_ is released the deletion of a handler that  *)
(* the port map owns.                                                      *)
ClosePort(port) ==
    /\ FindPort(port) >= 0
    /\ LET index == FindPort(port)  h == map_[index].handler IN
       /\ MaintainInvariants([map_ EXCEPT ![index] = Closed], used_ - 1, deleted_ + 1)
       /\ live_ports_' = [live_ports_ EXCEPT ![h] = @ - LiveAmong({index})]
       /\ freed' = IF h \in Natives /\ live_ports_'[h] = 0 THEN freed \cup {h} ELSE freed

ClosePortFails(port) == FindPort(port) < 0 /\ UNCHANGED vars

LiveWithout(h) == [live_ports_ EXCEPT ![h] = @ - LiveAmong(HandlersPorts(h))]

(* ClosePorts, when an isolate shuts down.                                 *)
ClosePorts(h) ==
    /\ h \in Isolates
    /\ LET n == Cardinality(HandlersPorts(h)) IN
       MaintainInvariants(
          [i \in DOMAIN map_ |-> IF i \in HandlersPorts(h) THEN Closed ELSE map_[i]],
          used_ - n, deleted_ + n)
    /\ live_ports_' = LiveWithout(h)
    /\ UNCHANGED freed

-----------------------------------------------------------------------------
Next ==
    \/ \E h \in Handlers, port \in PortIds : CreatePort(h, port)
    \/ \E port \in PortIds, state \in States \ {"kNewPort"} : SetPortState(port, state)
    \/ \E port \in PortIds \cup {ILLEGAL_PORT} : ClosePort(port) \/ ClosePortFails(port)
    \/ \E h \in Isolates : ClosePorts(h)

Spec == Init /\ [][Next]_vars

-----------------------------------------------------------------------------
Entries == [port : PortIds \cup {0}, handler : Handlers \cup {NULL, DELETED}, state : States]

(* Through any sequence of insertions, deletions and rehashes used_ and    *)
(* deleted_ count what is in the table, so that it never fills up and a    *)
(* search ends at a free slot even for a port that is not there ("Prevent  *)
(* endless loops", port.cc:45); and live_ports_, by which an isolate ends, *)
(* counts the ports of a handler that are in state kLivePort.              *)
TableInOrder ==
    /\ map_ \in [0 .. capacity_ - 1 -> Entries]
    /\ used_ = Cardinality({i \in DOMAIN map_ : map_[i].port # 0})
    /\ deleted_ = Cardinality({i \in DOMAIN map_ : map_[i].handler = DELETED})
    /\ used_ + deleted_ < capacity_ /\ \A port \in PortIds : Stops(port)
    /\ \A h \in Isolates : live_ports_[h] = LiveAmong(HandlersPorts(h))

(* The table implements the abstract port map: a lookup finds exactly the  *)
(* ports that were created and not closed, each with its own handler and   *)
(* state, whatever collisions, deletions and rehashes there were.          *)
Lookup(port) ==
    LET index == FindPort(port)
    IN  IF index < 0 THEN [handler |-> NULL, state |-> "closed"]
        ELSE [handler |-> map_[index].handler, state |-> map_[index].state]
OpenPorts == [port \in PortIds |-> Lookup(port)]
Abstract == INSTANCE AbstractPorts WITH ports <- OpenPorts
ImplementsPorts == Abstract!Spec

===============================================================================
