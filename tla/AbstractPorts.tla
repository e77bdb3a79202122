----------------------------- MODULE AbstractPorts -----------------------------
(***************************************************************************)
(* What the port map promises: a port id is closed, or open with the       *)
(* handler and the state it was given.  A new port gets an id that no open *)
(* port has.                                                               *)
(***************************************************************************)
CONSTANTS PortIds, Handlers, NULL

VARIABLE ports

ClosedPort == [handler |-> NULL, state |-> "closed"]

Init == ports = [p \in PortIds |-> ClosedPort]

(* The step changes port p only, to this.                                  *)
Change(p, entry) ==
    /\ ports'[p] = entry
    /\ \A q \in PortIds \ {p} : ports'[q] = ports[q]

Open(p, h) ==
    ports[p] = ClosedPort /\ Change(p, [handler |-> h, state |-> "kNewPort"])

SetState(p, s) ==
    ports[p].state = "kNewPort" /\ Change(p, [ports[p] EXCEPT !.state = s])

Close(p) == ports[p] # ClosedPort /\ Change(p, ClosedPort)

CloseAll(h) ==
    \A p \in PortIds : ports'[p] = IF ports[p].handler = h THEN ClosedPort ELSE ports[p]

Next ==
    \/ \E p \in PortIds, h \in Handlers : Open(p, h)
    \/ \E p \in PortIds, s \in {"kLivePort", "kControlPort"} : SetState(p, s)
    \/ \E p \in PortIds : Close(p)
    \/ \E h \in Handlers : CloseAll(h)

Spec == Init /\ [][DOMAIN ports' = PortIds /\ Next]_ports

===============================================================================
