----------------------------- MODULE MCEpochLoop -----------------------------
(* Small instances of EpochLoop. *)
EXTENDS EpochLoop
CONSTANTS r1, a1
MCResearch == {r1}
MCAudits == {a1}
(* An audit is reserved more than a research job or a Director. *)
MCEstimate == [director |-> 1, research |-> 1, audit |-> 2]
(* A research job may use more than was reserved for it.                   *)
MCMaxUse == [director |-> 1, research |-> 2, audit |-> 1]
=============================================================================
