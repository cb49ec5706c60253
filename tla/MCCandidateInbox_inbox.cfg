SPECIFICATION FairSpec
CONSTANTS
    Events <- MCEvents
    Quota = 1
    MaxSends = 1
    MaxTurns = 2
    MaxCrashes = 1
CHECK_DEADLOCK FALSE
 
PROPERTY TurnSeesCandidates
PROPERTY InboxEmpties
