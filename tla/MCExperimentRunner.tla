-------------------------- MODULE MCExperimentRunner --------------------------
(* Instances of ExperimentRunner for TLC. *)
EXTENDS ExperimentRunner

CONSTANTS p1, p2
=============================================================================
