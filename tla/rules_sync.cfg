CONSTANTS
  c1 = c1
  c2 = c2
  s1 = s1
  s2 = s2
  Sessions = {s1, s2}
  MaxRule = 1
  Conds = {c1, c2}
  Ops = {"create", "update", "status"}
  Quota = 2
  MaxRetry = 3
  BatchSize = 2
  MaxRequests = 3
  MaxFaults = 1
  MaxRestarts = 1
  MaxTrims = 1
SPECIFICATION FairSpec
INVARIANTS NextChangePossible FlinkInStep
PROPERTY  ChangeReachesFlink
CHECK_DEADLOCK FALSE
