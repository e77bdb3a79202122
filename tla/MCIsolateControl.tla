--------------------------- MODULE MCIsolateControl ---------------------------
(* IsolateControl for TLC, in four scenarios: pauses; pings and kills with *)
(* a pause; exit listeners; error listeners.                               *)
EXTENDS IsolateControl

CONSTANTS s1, c1, c2, p1, p2, none, done

Priorities == {Immediate, BeforeNextEvent, AsEvent}

Pauses == [kind : {"pause", "resume"}, granted : {TRUE}, cap : {c1, c2}]
Pings == [kind : {"ping"}, granted : {TRUE}, priority : Priorities]
Kills == [kind : {"kill"}, granted : {TRUE}, priority : Priorities]
Refused == {[kind |-> "kill", granted |-> FALSE, priority |-> Immediate],
            [kind |-> "pause", granted |-> FALSE, cap |-> c2]}
ExitListeners ==
    [kind : {"add exit"}, granted : {TRUE}, port : {p1, p2}, response : {none, done}]
        \cup [kind : {"del exit"}, granted : {TRUE}, port : {p1, p2}]
ErrorListeners == [kind : {"add error", "del error"}, granted : {TRUE}, port : {p1, p2}]
ErrorsFatal == [kind : {"errors fatal"}, granted : {TRUE}, fatal : BOOLEAN]
InternalKill == {[kind |-> "internal kill", granted |-> TRUE]}

Spawns(paused, onExit, onError, fatal) ==
    [paused : paused, onExit : onExit, onError : onError, errorsAreFatal : fatal]

MCScenarios ==
    {[senders |-> {s1}, sends |-> 4, requests |-> Pauses \cup Refused,
      spawns |-> Spawns(BOOLEAN, {NULL}, {NULL}, {TRUE})],
     [senders |-> {s1}, sends |-> 3,
      requests |-> Pings \cup Kills \cup {r \in Pauses : r.cap = c2},
      spawns |-> Spawns({FALSE}, {NULL, p1}, {NULL}, {TRUE})],
     [senders |-> {s1}, sends |-> 3, requests |-> ExitListeners \cup InternalKill,
      spawns |-> Spawns({FALSE}, {NULL, p1}, {NULL}, {TRUE})],
     [senders |-> {s1}, sends |-> 3, requests |-> ErrorListeners \cup ErrorsFatal,
      spawns |-> Spawns({FALSE}, {NULL}, {NULL, p1}, BOOLEAN)]}

===============================================================================
