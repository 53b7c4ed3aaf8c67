CONSTANTS
  r1 = r1
  Rules = {r1}
  Gaps = {1, 2}
  PerSecond = 2
  Times = {0, 3, 4}
  Prices = {1, 2}
  Threshold = 1
  Jump = 1
  MaxTicks = 3
  MaxMessages = 2
  MaxFailures = 1
SPECIFICATION MatchSpec
INVARIANT OnceInAWhile
PROPERTY MatchIsTold
CHECK_DEADLOCK FALSE
