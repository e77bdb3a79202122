--------------------------- MODULE ControlledIsolate ---------------------------
(***************************************************************************)
(* What dart:isolate promises those who control an isolate                 *)
(* (sdk/lib/isolate/isolate.dart): a pause is known by its resume          *)
(* capability and no event starts before every pause was ended; a port     *)
(* added as an exit listener gets one message, with the response it was    *)
(* last added with, when the isolate ends.  An isolate the VM itself kills *)
(* tells nobody.                                                           *)
(***************************************************************************)
EXTENDS FiniteSets, Integers

CONSTANTS
    Capabilities,   \* resume capabilities
    Ports,          \* ports of the listeners
    Responses       \* what a listener wants to be sent

VARIABLES
    pausers,    \* the capabilities of the pauses that are not ended
    count,      \* how many resumes are needed to end them all
    exitPorts,  \* for each exit listener its response
    errorPorts, \* the error listeners
    working,    \* an event is being handled
    notified,   \* what was sent to the exit listeners
    condemned,  \* the VM has asked the isolate to end
    phase       \* "new", "started" or "ended"

cvars == <<pausers, count, exitPorts, errorPorts, working, notified, condemned, phase>>

Init ==
    /\ pausers = {} /\ count = 0 /\ exitPorts = << >> /\ errorPorts = {}
    /\ working = FALSE /\ notified = << >> /\ condemned = FALSE /\ phase = "new"

PausedBy(c) == pausers' = c /\ count' = Cardinality(c)

(* What the spawner asked for is in place before any event is handled.     *)
Start(paused, exits, errors) ==
    /\ phase' = "started"
    /\ PausedBy(paused) /\ exitPorts' = exits /\ errorPorts' = errors
    /\ UNCHANGED <<working, notified, condemned>>

Pause(c) ==
    /\ PausedBy(pausers \cup {c})
    /\ UNCHANGED <<exitPorts, errorPorts, working, notified, condemned, phase>>

Resume(c) ==
    /\ PausedBy(pausers \ {c})
    /\ UNCHANGED <<exitPorts, errorPorts, working, notified, condemned, phase>>

AddExitListener(p, r) ==
    /\ exitPorts' = [q \in DOMAIN exitPorts \cup {p} |-> IF q = p THEN r ELSE exitPorts[q]]
    /\ UNCHANGED <<pausers, count, errorPorts, working, notified, condemned, phase>>

RemoveExitListener(p) ==
    /\ exitPorts' = [q \in DOMAIN exitPorts \ {p} |-> exitPorts[q]]
    /\ UNCHANGED <<pausers, count, errorPorts, working, notified, condemned, phase>>

AddErrorListener(p) ==
    /\ errorPorts' = errorPorts \cup {p}
    /\ UNCHANGED <<pausers, count, exitPorts, working, notified, condemned, phase>>

RemoveErrorListener(p) ==
    /\ errorPorts' = errorPorts \ {p}
    /\ UNCHANGED <<pausers, count, exitPorts, working, notified, condemned, phase>>

EventStarts ==
    /\ count = 0 /\ ~working /\ phase = "started"
    /\ working' = TRUE
    /\ UNCHANGED <<pausers, count, exitPorts, errorPorts, notified, condemned, phase>>

EventEnds ==
    /\ working' = FALSE
    /\ UNCHANGED <<pausers, count, exitPorts, errorPorts, notified, condemned, phase>>

Condemn ==
    /\ condemned' = TRUE /\ working' = FALSE
    /\ UNCHANGED <<pausers, count, exitPorts, errorPorts, notified, phase>>

Ends(told) ==
    /\ phase = "started" /\ phase' = "ended"
    /\ told = exitPorts \/ condemned
    /\ notified' = told
    /\ UNCHANGED <<pausers, count, exitPorts, errorPorts, working, condemned>>

Next ==
    \/ \E c \in Capabilities : Pause(c) \/ Resume(c)
    \/ \E p \in Ports : \/ \E r \in Responses : AddExitListener(p, r)
                        \/ RemoveExitListener(p)
                        \/ AddErrorListener(p) \/ RemoveErrorListener(p)
    \/ /\ phase = "new"
       /\ \E c \in SUBSET Capabilities, p, q \in SUBSET Ports :
             \E r \in [p -> Responses] : Start(c, r, q)
    \/ EventStarts \/ EventEnds
    \/ Condemn \/ Ends(exitPorts) \/ Ends(<< >>)

Spec == Init /\ [][Next]_cvars

================================================================================
