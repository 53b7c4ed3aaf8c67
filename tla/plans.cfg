CONSTANTS
  c1 = c1
  c2 = c2
  Conns = {c1, c2}
  MaxGrants = 1
  MaxFrames = 2
  MaxFaults = 1
SPECIFICATION FairSpec
INVARIANTS PaidNeedsPlan 
 
CHECK_DEADLOCK FALSE
