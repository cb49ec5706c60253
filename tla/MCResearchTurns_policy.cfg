SPECIFICATION TurnsSpec
CONSTANTS
  MaxTurns = 2
  Budget = 5
  NoBudget = NoBudget
  Interrupts = TRUE
  RetryLimit = 1
  Short = 2
  Tolerance = 2
  EndOutcomes <- MCEnd
  Spends <- MCSpends
  MaxJobs = 2
 
INVARIANT ProgressKept
PROPERTY TaskEnds
