CONSTANTS
  p1 = p1
  p2 = p2
  Runners = {p1, p2}
  Cases = 2
  MaxFaults = 2
SPECIFICATION FairSpec
CHECK_DEADLOCK FALSE
INVARIANT LedgerSound
PROPERTY EvidenceSound
PROPERTY Finishes
