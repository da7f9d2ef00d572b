SPECIFICATION Spec
CONSTANTS
  r1 = r1
  r2 = r2
  r3 = r3
  r4 = r4
  Nil = Nil
  Requests = {r1, r2, r3, r4}
  Payload <- MCTwoPayloads
  Oversized = {r1}
  TTL = 3
  ProcessingTimeout = 2
  FailedRetryBackoff = 1
  StoreLatency = 1
  MaxTime = 4
SYMMETRY MCSymmetryRest
CHECK_DEADLOCK FALSE
INVARIANTS ReplayIsGenuine ClaimsExclusive
PROPERTIES BackoffHonoured
