------------------------ MODULE MCGuardedController ------------------------
(* Small instances of GuardedController: the ClaimGraph (1), the trusted   *)
(* state (2), one marked Markdown view (3), semantics.json (4) and one     *)
(* protected file that is no view (5).                                     *)
EXTENDS GuardedController, TLC

CONSTANTS v1, v2, v3

MCSymmetry == Permutations({v1, v2, v3})

=============================================================================
