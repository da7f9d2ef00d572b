SPECIFICATION Spec
CONSTANTS
  w1 = w1
  w2 = w2
  Nil = Nil
  Workers = {w1, w2}
  OrderType = "balance"
  Provider = "alipay"
  Amount = 2
  Amounts = {1, 2}
  Funds = 3
  Deductions = {TRUE, FALSE}
  Forces = {TRUE}
  SilentErrors = FALSE
  MaxGain = 1
  MaxFaults = 2
SYMMETRY MCSymmetry
CHECK_DEADLOCK FALSE
INVARIANTS AccountIsRight RefundTakesBack RefundedIsPaid
PROPERTIES RefundedIsFinal
