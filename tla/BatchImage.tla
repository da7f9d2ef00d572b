----------------------------- MODULE BatchImage -----------------------------
(***************************************************************************)
(* What the models of the batch image jobs share: the processes that run   *)
(* BatchImageWorker.RunOnce, and the faults they meet.  BatchImageQueue is *)
(* the queue from which they take jobs, BatchImageHold what one job and    *)
(* its money go through.                                                   *)
(***************************************************************************)
EXTENDS Integers, FiniteSets

CONSTANTS
    Workers,      \* goroutines that run RunOnce
    MaxFaults     \* bound: faults of one behaviour

ASSUME FaultAssumption == MaxFaults \in Nat

VARIABLE faults   \* faults so far

\* A crash, a failed command or a lost reply.
Fault   == faults < MaxFaults /\ faults' = faults + 1
NoFault == UNCHANGED faults

=============================================================================
