CONSTANTS
  g1 = g1
  g2 = g2
  Gateways = {g1, g2}
  Nobody = Nobody
  CommitEvery = 3
  MaxConsumers = 1
  MaxMessages = 2
  MaxFaults = 1
  MaxStops = 1
SPECIFICATION FairSpec
INVARIANTS TypeOK 
PROPERTIES OldConsumerStops SlotServed
CHECK_DEADLOCK FALSE
