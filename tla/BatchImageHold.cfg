SPECIFICATION JobFairSpec
CONSTANTS
  w1 = w1
  w2 = w2
  Workers = {w1}
  LockKept = TRUE
  Hold = 2
  SubPart = 1
  Balances = {0, 1}
  OtherFrozen = 2
  Costs = {1, 2, 3}
  MaxRetries = 2
  MaxFaults = 2
CHECK_DEADLOCK FALSE
INVARIANTS MoneyIsAccountedFor RefundStopsProvider
PROPERTIES HoldResolves
