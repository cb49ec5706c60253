---------------------------- MODULE MCResearchJobs ----------------------------
(* Small instances of ResearchJobs. *)
EXTENDS ResearchJobs, TLC
CONSTANTS t1, t2
MCTasks == {t1, t2}
MCLimit == [transport |-> 1, protocol |-> 0]
Symmetry == Permutations(MCTasks)
=============================================================================
