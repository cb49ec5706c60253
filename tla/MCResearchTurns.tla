--------------------------- MODULE MCResearchTurns ----------------------------
(* Two ordinary turns, turns that generate tokens or do not.        *)
EXTENDS ResearchTurns
MCSpends == {0, 2}
MCEnd == {"FALSIFIED"}
=============================================================================
