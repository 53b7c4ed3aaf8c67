CONSTANTS
  e1 = e1
  e2 = e2
  u = u
  a = a
  b = b
  r = r
  Events = {e1}
  Users = {u}
  OwnerOf <- MCOwnerOf
  AlertParts = {a}
  RetryParts = {r}
  NoWorker = NoWorker
  MaxRetry = 1
  PullLimit = 1
  ProducerMayFail = FALSE
  MaxEmits = 2
  MaxFaults = 1
  MaxCrashes = 1
SPECIFICATION FairSpec
INVARIANT NoEventLost
PROPERTIES EveryAlertNotified EveryEventHandled EveryDeliveryEnds
CHECK_DEADLOCK FALSE
