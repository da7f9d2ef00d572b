SPECIFICATION FairSpec
CONSTANTS
    r1 = r1  r2 = r2  c1 = c1  j1 = j1  j2 = j2  p1 = p1  p2 = p2
    Requests = {r1}
    Calls = {c1}
    Joins = {j1}
    Processes = {p1, p2}
    HomeOf <- MCHomeOf
    CallOf <- MCCallOf
    FlowHome <- MCFlowHome
    Limit = 1
    MaxWaiting = 1
    MaxFaults = 1
INVARIANTS CallsAddUp
PROPERTIES ClosedAfterEnd ControlIsKept CallIsLogged PlacesComeBack
