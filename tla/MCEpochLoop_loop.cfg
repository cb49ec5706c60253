SPECIFICATION LoopFairSpec
CONSTANTS
  r1 = r1
  a1 = a1
  Research <- MCResearch
  Audits <- MCAudits
  Estimate <- MCEstimate
  MaxUse <- MCMaxUse
  Budget = 4
  MaxQueue = 1
  MaxCandidates = 1
  MaxRetries = 1
  MaxErrors = 2
  CandidateLimit = 1
  EndingVerdicts = {"PASS"}
 
PROPERTY StartsAllowed
PROPERTY ReplanKept
PROPERTY LoopEnds
