------------------------------- MODULE MCPortMap -------------------------------
(* PortMap for TLC: handlers of one kind are interchangeable.              *)
EXTENDS PortMap, TLC

Symmetry == Permutations(Isolates)

===============================================================================
