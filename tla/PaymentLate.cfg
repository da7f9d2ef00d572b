SPECIFICATION WebhookSpec
CONSTANTS
  w1 = w1
  w2 = w2
  Nil = Nil
  Workers = {w1, w2}
  OrderType = "subscription"
  Provider = "wxpay"
  ConfirmAttempts = 2
  FailAttempts = 2
  CreateErrors = TRUE
  MaxFaults = 1
CHECK_DEADLOCK FALSE
INVARIANTS GrantIsSound
PROPERTIES LatePaymentSettles
