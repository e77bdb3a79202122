--------------------------------- MODULE MCHeap ---------------------------------
(* Four objects: three with one pointer and a weak property.               *)
EXTENDS Heap

CONSTANTS k, v, x, w

MCObj == {k, v, x, w}
MCWeakProperty == {w}

(* x, which is old, leads to the key of the weak property, and its value   *)
(* leads to end.                                                           *)
Slots(end) ==
    [o \in MCObj |->
        CASE o = w -> [f \in {"key", "value"} |-> IF f = "key" THEN k ELSE v]
          [] o = k -> [f \in {"next"} |-> NULL]
          [] o = v -> [f \in {"next"} |-> end]
          [] OTHER -> [f \in {"next"} |-> k]]

(* The value leads to the key and all but x lie anywhere; or only x leads  *)
(* to the key, and the value is the one new object.                        *)
MCInitialHeaps ==
    [slot : {Slots(k)}, space : {s \in [MCObj -> {"new", "old"}] : s[x] = "old"}, root : {{x, w}}]
    \cup
    [slot : {Slots(NULL)}, space : {[o \in MCObj |-> IF o = v THEN "new" ELSE "old"]}, root : {{x, w}}]

MCWeakSets == {{}, {[key |-> x, value |-> v]}}

=================================================================================
