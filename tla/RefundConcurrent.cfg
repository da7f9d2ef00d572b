SPECIFICATION Spec
CONSTANTS
  w1 = w1
  w2 = w2
  Nil = Nil
  Workers = {w1, w2}
  OrderType = "subscription"
  Provider = "airwallex"
  Amount = 2
  Amounts = {1, 2}
  Funds = 1
  Deductions = {TRUE}
  Forces = {TRUE}
  SilentErrors = TRUE
  MaxGain = 0
  MaxFaults = 1
SYMMETRY MCSymmetry
INVARIANTS PaidBeforeFinished PendingIsReal
CHECK_DEADLOCK FALSE
