CONSTANTS
  a = a
  b = b
  g1 = g1
  g2 = g2
  p1 = p1
  p2 = p2
  NoSymbol = NoSymbol
  Symbols = {a, b}
  Gateways = {g1}
  Slots = {0, 1}
  Partitions = {p1, p2}
  TickLog <- Ticks
  BarLog <- BarsOf
  TTL = 0
  MaxNow = 1
  MaxEvents = 2
SPECIFICATION Spec
INVARIANTS CommittedWasMerged CommittedBarIsCurrent
PROPERTIES SettledIndexIsObeyed PublishedIsInSnapshot
CHECK_DEADLOCK FALSE
