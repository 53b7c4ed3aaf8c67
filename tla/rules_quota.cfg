CONSTANTS
  c1 = c1
  c2 = c2
  s1 = s1
  s2 = s2
  Sessions = {s1, s2}
  MaxRule = 2
  Conds = {c1}
  Ops = {"create", "subscribe", "delete", "unsubscribe", "email"}
  Quota = 1
  MaxRetry = 2
  BatchSize = 1
  MaxRequests = 3
  MaxFaults = 0
  MaxRestarts = 1
  MaxTrims = 1
SPECIFICATION Spec
INVARIANTS TypeOK QuotaRespected
CHECK_DEADLOCK FALSE
