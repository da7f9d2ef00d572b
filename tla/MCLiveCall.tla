------------------------------ MODULE MCLiveCall ------------------------------
EXTENDS LiveCall

CONSTANTS r1, r2, c1, j1, j2, p1, p2

MCHomeOf == [r \in Requests |-> IF r = r1 THEN p1 ELSE p2]
MCCallOf == [j \in Joins |-> c1]
MCFlowHome == [f \in Flows |-> IF f = c1 THEN p1 ELSE p2]
=============================================================================
