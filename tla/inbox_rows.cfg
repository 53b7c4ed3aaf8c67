CONSTANTS
  e1 = e1
  e2 = e2
  u = u
  a = a
  b = b
  r = r
  Events = {e1, e2}
  Users = {u}
  OwnerOf <- MCOwnerOf
  AlertParts = {a}
  RetryParts = {r}
  NoWorker = NoWorker
  MaxRetry = 1
  PullLimit = 1
  ProducerMayFail = TRUE
  MaxEmits = 2
  MaxFaults = 1
  MaxCrashes = 0
SPECIFICATION Spec
INVARIANTS TypeOK PullSkipsNothing StatusIsTrue
PROPERTY ImplementsDelivery
SYMMETRY Symmetry
CHECK_DEADLOCK FALSE
