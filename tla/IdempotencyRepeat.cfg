SPECIFICATION Spec
CONSTANTS
  r1 = r1
  r2 = r2
  r3 = r3
  r4 = r4
  Nil = Nil
  Requests = {r1, r2, r3}
  Payload <- MCOnePayload
  Oversized = {}
  TTL = 2
  ProcessingTimeout = 2
  FailedRetryBackoff = 1
  StoreLatency = 1
  MaxTime = 5
SYMMETRY MCSymmetry
PROPERTIES NoRepeatWhileRecorded
CHECK_DEADLOCK FALSE
