CONSTANTS
  c1 = c1
  c2 = c2
  k1 = k1
  k2 = k2
  Conns = {c1, c2}
  Symbols = {k1, k2}
  Shared = {k2}
  MaxSubs = 1
  MaxFrames = 3
  MaxFaults = 1
SPECIFICATION FairSpec
INVARIANTS TypeOK IndexIsExact
PROPERTIES GoneConnEnds 
CHECK_DEADLOCK FALSE
