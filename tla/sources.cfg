CONSTANTS
  NumSymbols = 3
  MaxBatch = 2
  Silent = {2}
  Delay <- MCDelay
  Pushed = {1}
  MaxBody = 2
  MaxMarket = 2
  MaxRequests = 1
  MaxFaults = 2
SPECIFICATION FairSourceSpec
INVARIANT AcceptedIsWritten
PROPERTIES   SourceGoesOn
CHECK_DEADLOCK FALSE
