SPECIFICATION FairSpec
CONSTANTS
  w1 = w1
  w2 = w2
  Nil = Nil
  Workers = {w1, w2}
  OrderType = "balance"
  Provider = "stripe"
  ConfirmAttempts = 2
  FailAttempts = 2
  CreateErrors = FALSE
  MaxFaults = 1
CHECK_DEADLOCK FALSE
INVARIANTS OrderKeepsPayment NotifiedAtMostOnce ClosedBeforeTerminal RechargingIsRecoverable
PROPERTIES PaidOrderSettles OverdueOrderLeaves KeepsPromise
