SPECIFICATION FairSpec
CONSTANTS
  w1 = w1
  w2 = w2
  w3 = w3
  j1 = j1
  j2 = j2
  Workers = {w1, w2}
  Jobs = {j1, j2}
  MaxFaults = 3
INVARIANTS JobsAccountedFor LockIsOwn
PROPERTIES JobFinishes
