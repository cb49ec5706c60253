----------------------- MODULE MCCanonicalTransition -----------------------
(* Small instances of CanonicalTransition: the ClaimGraph (1), the trusted *)
(* state (2), one marked Markdown view (3) and semantics.json (4).         *)
EXTENDS CanonicalTransition, TLC

CONSTANTS v1, v2

MCValues == {v1, v2}
MCSymmetry == Permutations(MCValues)

=============================================================================
