CONSTANTS
  p1 = p1
  p2 = p2
  Partitions = {p1, p2}
  Log <- Topic
  BatchSize = 2
  MaxFaults = 2
SPECIFICATION FairSpec
INVARIANT LossIsExplained
PROPERTY BatchIsStored
CHECK_DEADLOCK FALSE
