SPECIFICATION GSpec
CONSTANTS
    v1 = v1
    v2 = v2
    v3 = v3
    Files = {1, 2, 3, 4, 5}
    Graph = 1
    Trusted = 2
    Premises = {4}
    Values = {v1, v2, v3}
    MaxTransitions = 2
    MaxFaults = 2
    MaxEdits = 1
    EditsAnytime = FALSE
    TornAppends = TRUE
    Guarded = {3, 5}
    Views = {3}
    MaxEpochs = 2
SYMMETRY MCSymmetry
CHECK_DEADLOCK FALSE
INVARIANT GuardSound
 
 
