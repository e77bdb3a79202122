------------------------------ MODULE MCStreams --------------------------------
(***************************************************************************)
(* The two constructors of StreamController: a program that uses either a  *)
(* controller for one subscription or one for many.                        *)
(***************************************************************************)
EXTENDS Streams

CONSTANTS Kinds, Sub, CancelOnError, MaxBroadcasts, MaxBroadcastPauses

VARIABLES
    single,     \* StreamController(), not StreamController.broadcast()
    bctl, bsub, bqueue, bstack, bthrows, btold, bdue, bheard, bquit, badds, bpauses, bmessages

bvars == <<bctl, bsub, bqueue, bstack, bthrows, btold, bdue, bheard, bquit, badds, bpauses,
           bmessages>>

Many == INSTANCE Broadcast WITH
    ctl <- bctl, sub <- bsub, queue <- bqueue, stack <- bstack, throws <- bthrows,
    told <- btold, due <- bdue, heard <- bheard, quit <- bquit, adds <- badds,
    pauses <- bpauses, messages <- bmessages,
    MaxAdds <- MaxBroadcasts, MaxPauses <- MaxBroadcastPauses, MaxMessages <- 1

(* The controller that is not used is in one of its initial states.        *)
MCInit ==
    /\ single \in BOOLEAN /\ Init /\ Many!Init
    /\ IF single THEN bctl.kind = "async" ELSE ~ctl.sync /\ ~sub.cancelOnError

MCNext ==
    \/ single /\ Next /\ UNCHANGED <<single, bvars>>
    \/ ~single /\ Many!Next /\ UNCHANGED <<single, vars>>

MCSpec ==
    /\ MCInit /\ [][MCNext]_<<single, vars, bvars>>
    /\ WF_vars(Run)

(* stream_controller.dart:103: events go to "all currently subscribed      *)
(* listeners".  Whoever is added, canceled or paused by callbacks while an *)
(* event is fired (_forEachListener), each subscription hears just the     *)
(* events sent while it was a listener, in order, and none once canceled.  *)
ListenersHearAll == Many!ListenersHearAll

(* stream_controller.dart:134: outside of _forEachListener the last hook   *)
(* called is onListen if and only if somebody listens, and after close its *)
(* future has been completed, once, if and only if nobody does.            *)
SourceKnowsListeners == Many!SourceKnowsListeners
================================================================================
