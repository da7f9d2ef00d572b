SPECIFICATION FairSpec
CONSTANTS
  f1 = f1
  f2 = f2
  f3 = f3
  q1 = q1
  q2 = q2
  Flows = {f1, f2}
  Procs = {q1, q2}
  ProcOf <- MCTwoProcs
  MaxTries = 2
  MaxIssued = 2
  MaxFaults = 2
CHECK_DEADLOCK FALSE
INVARIANTS TokenIsSafe QuarantineJustified
PROPERTIES RefreshMovesForward DueIsHandled
