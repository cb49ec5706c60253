SPECIFICATION FairSpec
CONSTANTS
    v1 = v1
    v2 = v2
    Files = {1, 2, 3, 4}
    Graph = 1
    Trusted = 2
    Premises = {4}
    Values = {v1, v2}
    MaxTransitions = 2
    MaxFaults = 2
    MaxEdits = 1
    EditsAnytime = FALSE
    TornAppends = TRUE
INVARIANT TypeOK
INVARIANT Serial
INVARIANT LedgerSound
PROPERTY WritesSafe
PROPERTY AtomicTransitions
PROPERTY Recovers
