------------------------------- MODULE TaskPool -------------------------------
(***************************************************************************)
(* What the thread pool promises its callers: while it is open it accepts  *)
(* tasks, every accepted task is run at most once, and closing it ends     *)
(* only after the last accepted task was run.  Threads, workers and locks  *)
(* do not appear here; ThreadPool implements this specification, and its   *)
(* liveness properties say that accepted tasks are run.                    *)
(***************************************************************************)
CONSTANT Tasks

VARIABLES
    phase,      \* "open", "closing" (Shutdown was called) or "closed" (it returned)
    pending,    \* accepted, not started
    running,    \* in task->Run()
    finished    \* returned from it

tvars == <<phase, pending, running, finished>>

Init == phase = "open" /\ pending = {} /\ running = {} /\ finished = {}

Accept(k) ==
    /\ phase = "open"
    /\ k \notin pending \cup running \cup finished
    /\ pending' = pending \cup {k}
    /\ UNCHANGED <<phase, running, finished>>

Start(k) ==
    /\ k \in pending
    /\ pending' = pending \ {k}
    /\ running' = running \cup {k}
    /\ UNCHANGED <<phase, finished>>

Finish(k) ==
    /\ k \in running
    /\ running' = running \ {k}
    /\ finished' = finished \cup {k}
    /\ UNCHANGED <<phase, pending>>

Close ==
    /\ phase = "open"
    /\ phase' = "closing"
    /\ UNCHANGED <<pending, running, finished>>

Closed ==
    /\ phase = "closing"
    /\ pending = {} /\ running = {}
    /\ phase' = "closed"
    /\ UNCHANGED <<pending, running, finished>>

Next == Close \/ Closed \/ \E k \in Tasks : Accept(k) \/ Start(k) \/ Finish(k)

Spec == Init /\ [][Next]_tvars

=============================================================================
