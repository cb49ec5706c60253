SPECIFICATION OwnershipFairSpec
CONSTANTS
    Threads = {1}
    MaxTurns = 2
    MaxExtras = 1
CHECK_DEADLOCK FALSE
INVARIANT TurnsSeparate
INVARIANT Contained
PROPERTY TurnsEnd
