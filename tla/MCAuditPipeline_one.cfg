SPECIFICATION FairSpec
CONSTANTS
    c1 = c1
    c2 = c2
    Candidates = {c1}
    Required <- MCRequired
    Bridged = {c1}
    Derived = {c1}
    MaxAudit = 1
    RetryLimit = 1
    MaxEpochs = 2
    MaxFaults = 1
    MaxFailures = 1
    MaxChanges = 1
    MaxOperator = 1
    MaxTrouble = 3
CHECK_DEADLOCK FALSE
INVARIANT AuditsSound
PROPERTY IndependentVotes
PROPERTY AuditsSettle
