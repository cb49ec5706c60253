-------------------------- MODULE MCEpochFrontier --------------------------
(* Instances of EpochFrontier for TLC: two tasks, each on a route of its   *)
(* own or both on one.                                                     *)
EXTENDS EpochFrontier, TLC

CONSTANTS a, b, r

Alike == Permutations(Tasks)
OneRoute == [t \in Tasks |-> r]
=============================================================================
