------------------------------ MODULE TimeoutQueue ------------------------------
(***************************************************************************)
(* The timer part of the event handler thread of the standalone embedder   *)
(* (runtime/bin/eventhandler.cc and eventhandler_linux.cc). Isolates write *)
(* commands into the interrupt pipe: wake this port at that time, or not   *)
(* at all. The thread keeps one timeout per port and arms one timer        *)
(* descriptor for the earliest of them.                                    *)
(***************************************************************************)
EXTENDS Integers, Sequences, SequencesExt

(* No time: a command that cancels the timeout of a port, and a descriptor *)
(* that is not armed.                                                      *)
NoTimer == -1

VARIABLES
    now,            \* CLOCK_REALTIME, in milliseconds
    interrupt_fds,  \* commands in the interrupt pipe
    timeouts_,      \* list of timeouts, one for each port at most
    timer_fd_       \* when the timer descriptor expires

handlervars == <<interrupt_fds, timeouts_, timer_fd_>>

HandlerInit ==
    /\ now = 0
    /\ interrupt_fds = <<>> /\ timeouts_ = <<>> /\ timer_fd_ = NoTimer

TimeoutsOf(list, port) == {k \in 1 .. Len(list) : list[k].port = port}

(* Removes, changes or, in front, inserts the timeout of a port.           *)
UpdateTimeout(list, command) ==
    LET found == TimeoutsOf(list, command.port)
    IN IF command.data = NoTimer
       THEN SelectSeq(list, LAMBDA timeout : timeout.port # command.port)
       ELSE IF found = {}
       THEN <<command>> \o list
       ELSE [k \in 1 .. Len(list) |-> IF k \in found THEN command ELSE list[k]]

(* next_timeout_: the first of the list that no other one precedes.        *)
NextTimeout(list) ==
    list[CHOOSE k \in 1 .. Len(list) :
            /\ \A j \in 1 .. Len(list) : list[k].data <= list[j].data
            /\ \A j \in 1 .. k - 1 : list[k].data < list[j].data]

Armed(list) == IF list = <<>> THEN NoTimer ELSE NextTimeout(list).data

(* Mutant: a command that cancels a timeout leaves the descriptor as it is.*)
HandleInterruptFdLazily ==
    /\ interrupt_fds # <<>>
    /\ interrupt_fds' = <<>>
    /\ timeouts_' = FoldLeft(UpdateTimeout, timeouts_, interrupt_fds)
    /\ timer_fd_' = IF Last(interrupt_fds).data = NoTimer THEN timer_fd_ ELSE Armed(timeouts_')
    /\ UNCHANGED now

(* The pipe is read to its end and every timer command executed; each one  *)
(* arms the descriptor for what is the next timeout then.                  *)
HandleInterruptFd ==
    /\ interrupt_fds # <<>>
    /\ interrupt_fds' = <<>>
    /\ timeouts_' = FoldLeft(UpdateTimeout, timeouts_, interrupt_fds)
    /\ timer_fd_' = Armed(timeouts_')
    /\ UNCHANGED now

(* The ports with a next timeout: one, or none.                            *)
CurrentPort == IF timeouts_ = <<>> THEN {} ELSE {NextTimeout(timeouts_).port}

(* The descriptor is read, which leaves it unarmed; the port with the next *)
(* timeout is notified (by the module that has the ports) and forgotten.   *)
HandleTimerFd ==
    /\ timer_fd_ # NoTimer /\ timer_fd_ <= now
    /\ timer_fd_' = NoTimer
    /\ timeouts_' = SelectSeq(timeouts_, LAMBDA timeout : timeout.port \notin CurrentPort)
    /\ UNCHANGED <<now, interrupt_fds>>

Tick(limit) ==
    /\ now < limit
    /\ now' = now + 1
    /\ UNCHANGED handlervars
================================================================================
