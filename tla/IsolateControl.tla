---------------------------- MODULE IsolateControl ----------------------------
(***************************************************************************)
(* How an isolate serves the requests of dart:isolate: pause and resume by *)
(* capability, ping and kill at three priorities, exit and error listeners *)
(* (IsolateMessageHandler::HandleMessage and HandleLibMessage and the      *)
(* lists of class Isolate, runtime/vm/isolate.cc), from the return of      *)
(* RunIsolate to LowLevelShutdown.                                         *)
(*                                                                         *)
(* A request arrives in oob_queue and is handled before any event, also    *)
(* while Dart code handles one; a ping or kill that is to wait is posted   *)
(* again to the queue of MessageQueue as a control message.  Threads,      *)
(* pauses of the service and the life of tasks are in MessageHandler.      *)
(***************************************************************************)
EXTENDS MessageQueue

CONSTANTS
    Capabilities,   \* resume capabilities
    PauseCapability,\* the isolate's own one, the resume capability of a paused start
    Ports,          \* ports of listeners
    Responses,      \* what an exit listener wants to be sent
    NoResponse,     \* null, the response of the listener given to spawn
    Scenarios,      \* records of the isolates that control this one, the requests
                    \* they may send, how much they send and the options it may be
                    \* spawned with
    MaxSends        \* bound on what is sent in any of them

ASSUME IsolateControlAssumption ==
    /\ PauseCapability \in Capabilities /\ NoResponse \in Responses
    /\ NULL \notin Capabilities \cup Ports \cup [port : Ports, response : Responses]
    /\ MaxSends \in Nat
    /\ Cardinality(Events) > MaxSends /\ Cardinality(Controls) >= MaxSends

ASSUME ScenariosAssumption ==
    \A s \in Scenarios :
        /\ s.sends \in 0 .. MaxSends
        /\ \A w \in s.spawns : {w.onExit, w.onError} \subseteq Ports \cup {NULL}
        /\ \A r \in s.requests :
              /\ r.kind \in {"pause", "resume"} => r.cap \in Capabilities
              /\ r.kind \in {"add exit", "del exit", "add error", "del error"} => r.port \in Ports
              /\ r.kind = "add exit" => r.response \in Responses

VARIABLES
    scenario,       \* the one this behaviour keeps to
    sent,           \* how much was sent; numbers the messages
    oob_queue,      \* messages of OOB priority
    data,           \* what each message of the queue holds
    status,         \* "starting", "idle" in HandleMessages, "event" in Dart code,
                    \* "failed" HandleMessage returned false, "dead"
    live,           \* has live ports
    paused_, resume_capabilities,
    exit_listeners, error_listeners,    \* with NULL for entries that were removed
    errors_fatal, sticky_error,
    answered,       \* pings that were answered
    notified,       \* what was posted to the exit listeners
    told            \* the ports the last uncaught error was posted to

queues == <<oob_queue, data, vars>>
lists == <<paused_, resume_capabilities, exit_listeners, error_listeners, errors_fatal>>
outcome == <<answered, notified, told>>
allvars == <<scenario, sent, queues, status, live, lists, sticky_error, outcome>>

Immediate == "immediate"
BeforeNextEvent == "before next event"
AsEvent == "as event"

-----------------------------------------------------------------------------
(* The lists of class Isolate are growable arrays in which a removed entry *)
(* leaves a NULL that a later one fills.                                   *)
Gaps(l) == {i \in DOMAIN l : l[i] = NULL}
Insert(l, x) ==
    IF Gaps(l) = {} THEN Append(l, x)
    ELSE [l EXCEPT ![CHOOSE i \in Gaps(l) : \A j \in Gaps(l) : i <= j] = x]
Erase(l, i) == [l EXCEPT ![i] = NULL]

(* Mutant: the search stops at the first gap.                              *)
AddAtFirstGap(c) ==
    LET known == \E i \in DOMAIN resume_capabilities :
                    /\ resume_capabilities[i] = c
                    /\ \A j \in 1 .. i : resume_capabilities[j] # NULL IN
    /\ resume_capabilities' = IF known THEN resume_capabilities ELSE Insert(resume_capabilities, c)
    /\ paused_' = IF known THEN paused_ ELSE paused_ + 1

(* AddResumeCapability and increment_paused.                               *)
AddResumeCapability(c) ==
    LET known == Contains(resume_capabilities, c) IN
    /\ resume_capabilities' = IF known THEN resume_capabilities ELSE Insert(resume_capabilities, c)
    /\ paused_' = IF known THEN paused_ ELSE paused_ + 1

(* RemoveResumeCapability and decrement_paused.                            *)
RemoveResumeCapability(c) ==
    LET at == {i \in DOMAIN resume_capabilities : resume_capabilities[i] = c} IN
    IF at = {} THEN UNCHANGED <<paused_, resume_capabilities>>
    ELSE /\ resume_capabilities' = Erase(resume_capabilities, CHOOSE i \in at : \A j \in at : i <= j)
         /\ paused_' = paused_ - 1

IndexOfListener(p) ==
    {i \in DOMAIN exit_listeners : exit_listeners[i] # NULL /\ exit_listeners[i].port = p}

AddExitListener(p, r) ==
    exit_listeners' =
        IF IndexOfListener(p) # {}
        THEN [exit_listeners EXCEPT ![CHOOSE i \in IndexOfListener(p) : TRUE].response = r]
        ELSE Insert(exit_listeners, [port |-> p, response |-> r])

RemoveExitListener(p) ==
    exit_listeners' = IF IndexOfListener(p) = {} THEN exit_listeners
                      ELSE Erase(exit_listeners, CHOOSE i \in IndexOfListener(p) : TRUE)

AddErrorListener(p) ==
    error_listeners' = IF Contains(error_listeners, p) THEN error_listeners
                       ELSE Insert(error_listeners, p)

RemoveErrorListener(p) ==
    error_listeners' =
        IF Contains(error_listeners, p)
        THEN Erase(error_listeners, CHOOSE i \in DOMAIN error_listeners : error_listeners[i] = p)
        ELSE error_listeners

ControlInit ==
    /\ Init
    /\ scenario \in Scenarios
    /\ sent = 0 /\ oob_queue = << >>
    /\ data = [m \in Messages |-> NULL]
    /\ status = "starting" /\ live = TRUE
    /\ paused_ = 0 /\ resume_capabilities = << >>
    /\ exit_listeners = << >> /\ error_listeners = << >>
    /\ errors_fatal = TRUE /\ sticky_error = "none"
    /\ answered = {} /\ notified = << >> /\ told = {}

(* RunIsolate, with what the spawner asked for; _startIsolate then sends   *)
(* the isolate the event that calls its entry point.                       *)
RunIsolate(spawn) ==
    LET e == CHOOSE x \in Events : TRUE IN
    /\ status = "starting" /\ status' = "idle"
    /\ errors_fatal' = spawn.errorsAreFatal
    /\ IF spawn.onExit = NULL THEN UNCHANGED exit_listeners
       ELSE AddExitListener(spawn.onExit, NoResponse)
    /\ IF spawn.onError = NULL THEN UNCHANGED error_listeners ELSE AddErrorListener(spawn.onError)
    /\ IF spawn.paused THEN AddResumeCapability(PauseCapability)
       ELSE UNCHANGED <<paused_, resume_capabilities>>
    /\ Enqueue(e, FALSE)
    /\ data' = [data EXCEPT ![e] = [kind |-> "event", from |-> NULL, number |-> 0]]
    /\ UNCHANGED <<scenario, sent, oob_queue, live, sticky_error, outcome>>

-----------------------------------------------------------------------------
(* What others post: an event to a port of the isolate, a request to its   *)
(* control port (Isolate_sendOOB), a kill of the VM (KillLocked).          *)
Fresh(cells) == CHOOSE c \in cells : c \notin Pending

SendEvent(s) ==
    LET e == Fresh(Events) IN
    /\ status \notin {"starting", "dead"} /\ live
    /\ sent < scenario.sends /\ sent' = sent + 1
    /\ Enqueue(e, FALSE)
    /\ data' = [data EXCEPT ![e] = [kind |-> "event", from |-> s, number |-> sent']]
    /\ UNCHANGED <<scenario, oob_queue, status, live, lists, sticky_error, outcome>>

SendOOB(s, r) ==
    /\ status \notin {"starting", "dead"}
    /\ sent < scenario.sends /\ sent' = sent + 1
    /\ oob_queue' = Append(oob_queue, [request |-> r, from |-> s, number |-> sent'])
    /\ UNCHANGED <<scenario, data, vars, status, live, lists, sticky_error, outcome>>

-----------------------------------------------------------------------------
(* What HandleLibMessage does with a request that need not wait.  One      *)
(* without the right capability is ignored.                                *)
Serve(m) ==
    LET r == m.request IN
    /\ \/ /\ r.kind = "pause" /\ r.granted
          /\ AddResumeCapability(r.cap)
          /\ UNCHANGED <<exit_listeners, error_listeners, errors_fatal, answered>>
       \/ /\ r.kind = "resume" /\ r.granted
          /\ RemoveResumeCapability(r.cap)
          /\ UNCHANGED <<exit_listeners, error_listeners, errors_fatal, answered>>
       \/ /\ r.kind = "ping"
          /\ answered' = answered \cup {m.number}
          /\ UNCHANGED lists
       \/ /\ r.kind \in {"add exit", "del exit"}
          /\ IF r.kind = "add exit" THEN AddExitListener(r.port, r.response)
             ELSE RemoveExitListener(r.port)
          /\ UNCHANGED <<paused_, resume_capabilities, error_listeners, errors_fatal, answered>>
       \/ /\ r.kind \in {"add error", "del error"}
          /\ IF r.kind = "add error" THEN AddErrorListener(r.port) ELSE RemoveErrorListener(r.port)
          /\ UNCHANGED <<paused_, resume_capabilities, exit_listeners, errors_fatal, answered>>
       \/ /\ r.kind = "errors fatal" /\ r.granted
          /\ errors_fatal' = r.fatal
          /\ UNCHANGED <<paused_, resume_capabilities, exit_listeners, error_listeners, answered>>
       \/ /\ r.kind \in {"kill", "internal kill"} \/ ~r.granted
          /\ UNCHANGED <<lists, answered>>
    /\ IF r.kind \in {"kill", "internal kill"} /\ r.granted
       THEN sticky_error' = r.kind /\ status' = "failed"
       ELSE UNCHANGED <<sticky_error, status>>
    /\ UNCHANGED <<notified, told>>

MayWait(m) == m.request.kind \in {"ping", "kill"} /\ m.request.priority # Immediate

(* Mutant: whatever waits goes before the events.                          *)
AlwaysFirst(m) == TRUE

AtHead(m) == m.request.priority = BeforeNextEvent

(* A ping or kill that waits is posted again, to the isolate itself.       *)
Repost(m) ==
    LET c == Fresh(Controls) IN
    /\ Enqueue(c, AtHead(m))
    /\ data' = [data EXCEPT ![c] = m]
    /\ UNCHANGED <<status, lists, sticky_error, outcome>>

(* Mutant: a paused isolate does not look at its OOB messages.             *)
OnlyUnpaused == status = "event" \/ (status = "idle" /\ paused_ = 0)

MayHandleOOB == status \in {"idle", "event"}

(* HandleMessage for the first message of oob_queue, called by the loop of *)
(* HandleMessages or by an interrupt of the event that is being handled.   *)
HandleOOBMessage ==
    /\ MayHandleOOB /\ oob_queue # << >>
    /\ oob_queue' = Tail(oob_queue)
    /\ LET m == Head(oob_queue) IN
       IF MayWait(m) THEN Repost(m) ELSE Serve(m) /\ UNCHANGED <<data, vars>>
    /\ UNCHANGED <<scenario, sent, live>>

MayHandleNormal == status = "idle" /\ oob_queue = << >> /\ paused_ = 0 /\ head_ # NULL

(* HandleMessage for a control message that waited: its priority is now    *)
(* kImmediateAction.                                                       *)
HandleDelayed ==
    /\ MayHandleNormal /\ head_ \in Controls
    /\ Serve(data[head_])
    /\ Dequeue /\ data' = [data EXCEPT ![head_] = NULL]
    /\ UNCHANGED <<scenario, sent, oob_queue, live>>

(* An event: its handler is called, unless its port was closed.            *)
HandleEvent ==
    /\ MayHandleNormal /\ head_ \in Events
    /\ status' = IF live THEN "event" ELSE status
    /\ Dequeue /\ data' = [data EXCEPT ![head_] = NULL]
    /\ UNCHANGED <<scenario, sent, oob_queue, live, lists, sticky_error, outcome>>

(* The handler returns; it may have closed the last live port.             *)
EventReturns ==
    /\ status = "event" /\ status' = "idle"
    /\ live' \in {live, FALSE}
    /\ UNCHANGED <<scenario, sent, queues, lists, sticky_error, outcome>>

(* NotifyErrorListeners returns whether the array has entries.             *)
HasListener == Len(error_listeners) > 0

(* The handler ends with an uncaught error: ProcessUnhandledException.     *)
EventThrows ==
    /\ status = "event"
    /\ told' = Range(error_listeners) \ {NULL}
    /\ IF errors_fatal
       THEN status' = "failed" /\ sticky_error' = IF HasListener THEN "none" ELSE "error"
       ELSE status' = "idle" /\ UNCHANGED sticky_error
    /\ UNCHANGED <<scenario, sent, queues, live, lists, answered, notified>>

-----------------------------------------------------------------------------
(* HandleMessages is over: it failed, or there is nothing it may handle    *)
(* and no live port.                                                       *)
HandlerStops ==
    \/ status = "failed"
    \/ status = "idle" /\ oob_queue = << >> /\ (head_ = NULL \/ paused_ > 0) /\ ~live

ExitMessages ==
    [p \in {exit_listeners[i].port : i \in {j \in DOMAIN exit_listeners : exit_listeners[j] # NULL}} |->
        exit_listeners[CHOOSE i \in IndexOfListener(p) : TRUE].response]

ListenersAreTold == sticky_error # "internal kill"

(* ShutdownIsolate: the exit listeners are told, the ports closed and the  *)
(* queues dropped.                                                         *)
LowLevelShutdown ==
    /\ HandlerStops /\ status' = "dead"
    /\ notified' = IF ListenersAreTold THEN ExitMessages ELSE << >>
    /\ Clear /\ oob_queue' = << >> /\ data' = [m \in Messages |-> NULL]
    /\ live' = FALSE
    /\ UNCHANGED <<scenario, sent, lists, sticky_error, answered, told>>

-----------------------------------------------------------------------------
Starts == \E spawn \in scenario.spawns : RunIsolate(spawn)

EventEnds == EventReturns \/ EventThrows

ControlNext ==
    \/ Starts
    \/ \E s \in scenario.senders : SendEvent(s) \/ \E r \in scenario.requests : SendOOB(s, r)
    \/ HandleOOBMessage \/ HandleDelayed \/ HandleEvent \/ EventEnds
    \/ LowLevelShutdown

ControlSpec == ControlInit /\ [][ControlNext]_allvars

(* The isolate's thread runs while there is something to do, and Dart code *)
(* that handles an event returns.  Nobody has to send anything.            *)
ControlFairSpec ==
    /\ ControlSpec
    /\ WF_allvars(Starts) /\ WF_allvars(EventEnds) /\ WF_allvars(LowLevelShutdown)
    /\ WF_allvars(HandleOOBMessage) /\ WF_allvars(HandleDelayed) /\ WF_allvars(HandleEvent)

-----------------------------------------------------------------------------
(* What an array with gaps holds, and how far the isolate has come.        *)
Held(l) == Range(l) \ {NULL}
Phase == CASE status = "starting" -> "new" [] status = "dead" -> "ended" [] OTHER -> "started"

(* The arrays with their gaps and the pause count keep what isolate.dart   *)
(* promises: two pauses with one capability are ended by one resume, no    *)
(* event starts before the last pause was ended, and each exit listener is *)
(* sent the response it was last added with, once.                         *)
Promise == INSTANCE ControlledIsolate WITH
    pausers <- Held(resume_capabilities), count <- paused_,
    exitPorts <- ExitMessages, errorPorts <- Held(error_listeners),
    working <- status = "event", condemned <- sticky_error = "internal kill", phase <- Phase
ImplementsControl == Promise!Spec

(* A request sent BEFORE_NEXT_EVENT is ahead of every event and behind     *)
(* those of its kind that its sender sent earlier; one sent AS_EVENT is    *)
(* ahead only of events that its sender sent later.  Both depend on when   *)
(* the OOB message was taken up, and on the events that came in meanwhile. *)
RequestsKeepTheirPlace ==
    \A i, j \in DOMAIN Contents :
        LET x == Contents[i]
            y == Contents[j]
            First(c) == data[c].request.priority = BeforeNextEvent IN
        i < j =>
        /\ x \in Events => y \in Events \/ ~First(y)
        /\ x \in Controls /\ y \in Events /\ ~First(x) /\ data[x].from = data[y].from =>
              data[x].number < data[y].number
        /\ {x, y} \subseteq Controls /\ First(x) = First(y)
           /\ data[x].from = data[y].from => data[x].number < data[y].number

(* Requests that wait in one of the queues.                                *)
Waiting == {oob_queue[i] : i \in DOMAIN oob_queue} \cup {data[c] : c \in Pending \cap Controls}
PingWaits(n, urgent) ==
    \E m \in Waiting : m.number = n /\ m.request.kind = "ping" /\ (urgent => ~MayWait(m))
KillWaits(urgent) ==
    \E m \in Waiting : m.request.kind = "kill" /\ m.request.granted /\ (urgent => ~MayWait(m))

(* isolate.dart says that an isolate that is alive eventually answers a    *)
(* ping.  An immediate request is served although the isolate is paused or *)
(* busy; one that waits for the event loop is served unless the isolate    *)
(* stays paused for ever.                                                  *)
RequestsAreServed ==
    LET paused == <>[](paused_ > 0) IN
    /\ \A n \in 1 .. MaxSends :
          /\ PingWaits(n, TRUE) ~> n \in answered \/ status = "dead"
          /\ [](PingWaits(n, FALSE) => <>(n \in answered \/ status = "dead") \/ paused)
    /\ KillWaits(TRUE) ~> status = "dead"
    /\ [](KillWaits(FALSE) => <>(status = "dead") \/ paused)

(* An uncaught error that ends the isolate is posted to a listener or kept *)
(* for ShutdownIsolate, which says "Print the error if there is one"       *)
(* (isolate.cc:1426).                                                      *)
FatalErrorsSurface ==
    status = "failed" /\ sticky_error = "none" => told # {}

===============================================================================
