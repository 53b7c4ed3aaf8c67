CONSTANTS
  w1 = w1
  w2 = w2
  u1 = u1
  Workers = {w1, w2}
  Users = {u1}
  SmsDaily = 1
  SmsUserDaily = 2
  MaxAlerts = 3
  Days = 2
  MaxPuts = 1
  MaxFaults = 1
SPECIFICATION Spec
INVARIANTS SmsQuotaNearlyHolds MailIsAttempted
 
CHECK_DEADLOCK FALSE
SYMMETRY Alike
