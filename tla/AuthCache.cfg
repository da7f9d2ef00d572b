SPECIFICATION FairSpec
CONSTANTS
  p1 = p1
  p2 = p2
  Servers <- MCServers
  Readers <- MCReaders
  Editors <- MCEditors
  Nobody = nobody
  Former = former
  MaxVersion = 1
  Deleted = {}
  MaxFaults = 2
INVARIANTS OnlyMissedRemains
PROPERTIES ClaimsRespected ChangeArrives
