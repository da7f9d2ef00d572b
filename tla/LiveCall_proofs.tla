--------------------------- MODULE LiveCall_proofs ---------------------------
(***************************************************************************)
(* What holds of the slots of an account and of its Live calls for every   *)
(* number of requests, calls, joins and processes, every limit and every   *)
(* number of faults.                                                       *)
(***************************************************************************)
EXTENDS LiveCall, FiniteSetTheorems, TLAPS

\* Where a call's creator stands before there is a record.
Before == {"idle", "lease", "call", "save"}

\* Where a flow stands that works on a record.
After == Observing \cup Closing \cup Joining

\* A creator that has not asked for the lease has none, and about to ask for it
\* it holds the slot the lease is to replace, or has lost it.
Backed ==
    \A c \in Calls :
        /\ pc[c] \in {"idle", "lease"} => c \notin live
        /\ pc[c] = "lease" => c \in slots \cup unbacked

\* There is no record and no log before the creator saves the call.
Early == \A c \in Calls : pc[c] \in Before => control[c] = "none" /\ logs[c] = 0

\* A flow works on a call only after its creator has tried to save it.
Late == \A f \in Flows : pc[f] \in After => pc[Target(f)] \notin Before

\* The flow that closed the record is alone between closing and logging.
Finalizing(f) == pc[f] \in {"release", "log"}

Closers ==
    /\ \A f \in Flows :
          Finalizing(f) => control[Target(f)] = "closed" /\ logs[Target(f)] = 0
    /\ \A f, g \in Flows :
          Finalizing(f) /\ Finalizing(g) /\ Target(f) = Target(g) => f = g
    /\ \A c \in Calls : logs[c] # 0 => logs[c] = 1 /\ control[c] = "closed"

\* A flow that is about to close a record has seen that the call has ended.
Ended(c) == session[c] = "ended" \/ c \in over \/ c \notin live

EndSeen ==
    \A f \in Flows :
        pc[f] \in {"finalize", "leaveEnded"} /\ Target(f) \notin troubles => Ended(Target(f))

SlotInv == SlotTypeOK /\ LimitKept /\ QueueIsCounted

CallInv == CallTypeOK /\ Backed /\ Early /\ Late /\ Closers /\ EndSeen

IInv == SlotInv /\ CallInv

-----------------------------------------------------------------------------
(* The slots. *)

\* Every flow works on a call.
LEMMA TargetIsCall == \A f \in Flows : Target(f) \in Calls
BY FlowsAssumption DEF Target, Flows

LEMMA HoldersFinite == IsFiniteSet(Holders)
BY HoldersAssumption, FS_Union DEF Holders

\* An account that carries a part of what it carried keeps to its limit.
LEMMA Fewer ==
    ASSUME SlotTypeOK, LimitKept,
           (slots' \cup live') \ unbacked' \subseteq (slots \cup live) \ unbacked
    PROVE  LimitKept'
<1> DEFINE S == (slots \cup live) \ unbacked
           T == (slots' \cup live') \ unbacked'
<1>1. S \subseteq Holders
  BY DEF SlotTypeOK, Holders
<1>2. IsFiniteSet(S)
  BY <1>1, HoldersFinite, FS_Subset
<1>3. IsFiniteSet(T) /\ Cardinality(T) <= Cardinality(S)
  BY <1>2, FS_Subset
<1>4. Cardinality(T) \in Nat /\ Cardinality(S) \in Nat
  BY <1>2, <1>3, FS_CardinalityType
<1>5. Cardinality(S) <= Limit
  BY DEF LimitKept
<1>6. Cardinality(T) <= Limit
  BY <1>3, <1>4, <1>5, LimitAssumption
<1> QED
  BY <1>6 DEF LimitKept

\* With room there is a place for one more.
LEMMA OneMore ==
    ASSUME SlotTypeOK, HasRoom, NEW h \in Holders,
           slots' = slots \cup {h}, live' = live, unbacked' = unbacked
    PROVE  LimitKept'
<1> DEFINE S == (slots' \cup live') \ unbacked'
           U == slots' \cup live'
<1>1. slots \subseteq Holders /\ live \subseteq Holders
  BY DEF SlotTypeOK, Holders
<1>2. IsFiniteSet(slots) /\ IsFiniteSet(live)
  BY <1>1, HoldersFinite, FS_Subset
<1>3. /\ IsFiniteSet(slots')
      /\ Cardinality(slots') <= Cardinality(slots) + 1
  <2>1. /\ IsFiniteSet(slots \cup {h})
        /\ Cardinality(slots \cup {h}) = IF h \in slots THEN Cardinality(slots)
                                         ELSE Cardinality(slots) + 1
    BY <1>2, FS_AddElement
  <2>2. Cardinality(slots) \in Nat
    BY <1>2, FS_CardinalityType
  <2>3. Cardinality(slots \cup {h}) <= Cardinality(slots) + 1
    BY <2>1, <2>2
  <2> QED
    BY <2>1, <2>3
<1>4. /\ IsFiniteSet(U)
      /\ Cardinality(U) <= Cardinality(slots') + Cardinality(live)
  <2>1. Cardinality(slots' \cup live) = Cardinality(slots') + Cardinality(live) - Cardinality(slots' \cap live)
    BY <1>2, <1>3, FS_Union
  <2>2. IsFiniteSet(slots' \cap live)
    BY <1>2, FS_Subset
  <2>3. IsFiniteSet(slots' \cup live)
    BY <1>2, <1>3, FS_Union
  <2>4. /\ Cardinality(slots') \in Nat /\ Cardinality(live) \in Nat
        /\ Cardinality(slots' \cap live) \in Nat
    BY <1>2, <1>3, <2>2, FS_CardinalityType
  <2> QED
    BY <2>1, <2>3, <2>4
<1>5. IsFiniteSet(S) /\ Cardinality(S) <= Cardinality(U)
  BY <1>4, FS_Subset
<1>6. Cardinality(slots) + Cardinality(live) < Limit
  BY DEF HasRoom, Load
<1>7. /\ Cardinality(S) \in Nat /\ Cardinality(U) \in Nat /\ Cardinality(slots') \in Nat
      /\ Cardinality(slots) \in Nat /\ Cardinality(live) \in Nat
  BY <1>2, <1>3, <1>4, <1>5, FS_CardinalityType
<1>8. Cardinality(S) <= Limit
  BY <1>3, <1>4, <1>5, <1>6, <1>7, LimitAssumption
<1> QED
  BY <1>8 DEF LimitKept

\* A queue nobody joins or leaves is counted as before.
LEMMA SameQueue ==
    ASSUME QueueIsCounted, InQueue' = InQueue, waiting' = waiting, troubles \subseteq troubles'
    PROVE  QueueIsCounted'
BY DEF QueueIsCounted

LEMMA InQueueFinite ==
    IsFiniteSet(InQueue) /\ Cardinality(InQueue) \in Nat
<1>1. InQueue \subseteq Requests
  BY DEF InQueue
<1> QED
  BY <1>1, HoldersAssumption, FS_Subset, FS_CardinalityType

LEMMA JoinsQueue ==
    ASSUME SlotTypeOK, QueueIsCounted, NEW r \in Requests, r \notin InQueue,
           InQueue' = InQueue \cup {r}, waiting' = waiting + 1, troubles' = troubles
    PROVE  QueueIsCounted'
<1>1. Cardinality(InQueue') = Cardinality(InQueue) + 1
  BY InQueueFinite, FS_AddElement
<1> QED
  BY <1>1, InQueueFinite DEF QueueIsCounted

LEMMA LeavesQueue ==
    ASSUME SlotTypeOK, QueueIsCounted, NEW r \in InQueue,
           InQueue' = InQueue \ {r}, waiting' = OneLess(waiting), troubles' = troubles
    PROVE  QueueIsCounted'
<1>1. Cardinality(InQueue') = Cardinality(InQueue) - 1
  BY InQueueFinite, FS_RemoveElement
<1>2. Cardinality(InQueue) # 0
  BY InQueueFinite, FS_EmptySet
<1>3. waiting \in Nat
  BY LimitAssumption DEF SlotTypeOK
<1> QED
  BY <1>1, <1>2, <1>3, InQueueFinite DEF QueueIsCounted, OneLess

-----------------------------------------------------------------------------
(* The steps of requests, of time and of processes that start. *)

LEMMA FaultsBounded ==
    ASSUME SlotTypeOK, Fault
    PROVE  faults' \in 0..MaxFaults
BY LimitAssumption DEF SlotTypeOK, Fault

\* A request that moves changes the queue by itself at most.
LEMMA QueueMoves ==
    ASSUME SlotTypeOK, NEW r \in Requests, NEW a \in Stages, NEW b \in Stages, Goes(r, a, b)
    PROVE  /\ stage' \in [Requests -> Stages]
           /\ InQueue' = IF b \in {"waiting", "served", "gaveUp"} THEN InQueue \cup {r}
                         ELSE InQueue \ {r}
           /\ r \in InQueue <=> a \in {"waiting", "served", "gaveUp"}
BY DEF SlotTypeOK, Goes, InQueue

\* The slots after the step of a request: typed, within the limit, counted.
LEMMA RequestKeepsSlots ==
    ASSUME SlotInv, NEW r \in Requests, RequestStep(r)
    PROVE  SlotInv'
<1> USE DEF SlotInv
<1>r. r \in Holders
  BY DEF Holders
<1>q. {"idle", "enqueue", "waiting", "served", "gaveUp", "held"} \subseteq Stages
  BY DEF Stages
<1>1. CASE Acquire(r)
  <2>1. CASE HasRoom /\ slots' = slots \cup {r} /\ Goes(r, "idle", "held")
    <3>1. LimitKept'
      BY <1>1, <2>1, <1>r, OneMore DEF Acquire
    <3>2. InQueue' = InQueue /\ stage' \in [Requests -> Stages]
      BY <2>1, <1>q, QueueMoves
    <3>3. QueueIsCounted'
      BY <1>1, <3>2, SameQueue DEF Acquire
    <3> QED
      BY <1>1, <2>1, <3>1, <3>2, <3>3, <1>r DEF Acquire, SlotTypeOK
  <2>2. CASE ~HasRoom /\ UNCHANGED slots /\ Goes(r, "idle", "enqueue")
    <3>1. LimitKept'
      BY <1>1, <2>2, Fewer DEF Acquire
    <3>2. InQueue' = InQueue /\ stage' \in [Requests -> Stages]
      BY <2>2, <1>q, QueueMoves
    <3>3. QueueIsCounted'
      BY <1>1, <3>2, SameQueue DEF Acquire
    <3> QED
      BY <1>1, <2>2, <3>1, <3>2, <3>3, <1>r DEF Acquire, SlotTypeOK
  <2> QED
    BY <1>1, <2>1, <2>2 DEF Acquire
<1>2. CASE AcquireUnanswered(r)
  <2>1. LimitKept'
    <3>1. CASE slots' = slots
      BY <1>2, <3>1, Fewer DEF AcquireUnanswered
    <3>2. CASE HasRoom /\ slots' = slots \cup {r}
      BY <1>2, <3>2, <1>r, OneMore DEF AcquireUnanswered
    <3> QED
      BY <1>2, <3>1, <3>2 DEF AcquireUnanswered
  <2>2. InQueue' = InQueue /\ stage' \in [Requests -> Stages]
    <3>1. CASE Goes(r, "idle", "idle")
      BY <3>1, <1>q, QueueMoves
    <3>2. CASE Goes(r, "waiting", "gaveUp")
      BY <3>2, <1>q, QueueMoves
    <3> QED
      BY <1>2, <3>1, <3>2 DEF AcquireUnanswered
  <2>3. QueueIsCounted'
    BY <1>2, <2>2, SameQueue DEF AcquireUnanswered
  <2>4. slots' \in SUBSET Holders
    BY <1>2, <1>r DEF AcquireUnanswered, SlotTypeOK
  <2> QED
    BY <1>2, <2>1, <2>2, <2>3, <2>4, FaultsBounded DEF AcquireUnanswered, SlotTypeOK
<1>3. CASE Enqueue(r)
  <2>1. LimitKept'
    BY <1>3, Fewer DEF Enqueue
  <2>2. CASE waiting < MaxWaiting /\ waiting' = waiting + 1 /\ Goes(r, "enqueue", "waiting")
    <3>1. /\ InQueue' = InQueue \cup {r} /\ r \notin InQueue
          /\ stage' \in [Requests -> Stages]
      BY <2>2, <1>q, QueueMoves
    <3>2. QueueIsCounted'
      BY <1>3, <2>2, <3>1, JoinsQueue DEF Enqueue
    <3>3. waiting' \in 0..MaxWaiting
      BY <2>2, LimitAssumption DEF SlotTypeOK
    <3> QED
      BY <1>3, <2>1, <3>1, <3>2, <3>3 DEF Enqueue, SlotTypeOK
  <2>3. CASE waiting = MaxWaiting /\ UNCHANGED waiting /\ Goes(r, "enqueue", "idle")
    <3>1. InQueue' = InQueue /\ stage' \in [Requests -> Stages]
      BY <2>3, <1>q, QueueMoves
    <3>2. QueueIsCounted'
      BY <1>3, <2>3, <3>1, SameQueue DEF Enqueue
    <3> QED
      BY <1>3, <2>1, <2>3, <3>1, <3>2 DEF Enqueue, SlotTypeOK
  <2> QED
    BY <1>3, <2>2, <2>3 DEF Enqueue
<1>4. CASE EnqueueUnanswered(r)
  <2>1. LimitKept'
    BY <1>4, Fewer DEF EnqueueUnanswered
  <2>2. stage' \in [Requests -> Stages]
    BY <1>4, <1>q, QueueMoves DEF EnqueueUnanswered
  <2>3. waiting' \in 0..MaxWaiting
    BY <1>4, LimitAssumption DEF EnqueueUnanswered, SlotTypeOK
  <2>4. "queue" \in troubles' /\ troubles' \in SUBSET Troubles
    BY <1>4 DEF EnqueueUnanswered, SlotTypeOK, Troubles
  <2> QED
    BY <1>4, <2>1, <2>2, <2>3, <2>4, FaultsBounded DEF EnqueueUnanswered, SlotTypeOK, QueueIsCounted
<1>5. CASE Retry(r)
  <2>1. LimitKept'
    BY <1>5, <1>r, OneMore DEF Retry
  <2>2. InQueue' = InQueue /\ stage' \in [Requests -> Stages]
    BY <1>5, <1>q, QueueMoves DEF Retry
  <2>3. QueueIsCounted'
    BY <1>5, <2>2, SameQueue DEF Retry
  <2> QED
    BY <1>5, <2>1, <2>2, <2>3, <1>r DEF Retry, SlotTypeOK
<1>6. CASE GiveUp(r)
  <2>1. LimitKept'
    BY <1>6, Fewer DEF GiveUp
  <2>2. InQueue' = InQueue /\ stage' \in [Requests -> Stages]
    BY <1>6, <1>q, QueueMoves DEF GiveUp
  <2>3. QueueIsCounted'
    BY <1>6, <2>2, SameQueue DEF GiveUp
  <2> QED
    BY <1>6, <2>1, <2>2, <2>3 DEF GiveUp, SlotTypeOK
<1>l. ASSUME Goes(r, "served", "held") \/ Goes(r, "gaveUp", "idle")
      PROVE  InQueue' = InQueue \ {r} /\ r \in InQueue /\ stage' \in [Requests -> Stages]
  <2>1. CASE Goes(r, "served", "held")
    BY <2>1, <1>q, QueueMoves
  <2>2. CASE Goes(r, "gaveUp", "idle")
    BY <2>2, <1>q, QueueMoves
  <2> QED
    BY <1>l, <2>1, <2>2
<1>w. OneLess(waiting) \in 0..MaxWaiting
  BY LimitAssumption DEF SlotTypeOK, OneLess
<1>7. CASE LeaveQueue(r)
  <2>1. LimitKept'
    BY <1>7, Fewer DEF LeaveQueue
  <2>2. InQueue' = InQueue \ {r} /\ r \in InQueue /\ stage' \in [Requests -> Stages]
    BY <1>7, <1>l DEF LeaveQueue
  <2>3. QueueIsCounted'
    BY <1>7, <2>2, LeavesQueue DEF LeaveQueue
  <2> QED
    BY <1>7, <2>1, <2>2, <2>3, <1>w DEF LeaveQueue, SlotTypeOK
<1>8. CASE LeaveQueueUnanswered(r)
  <2>1. LimitKept'
    BY <1>8, Fewer DEF LeaveQueueUnanswered
  <2>2. stage' \in [Requests -> Stages]
    BY <1>8, <1>l DEF LeaveQueueUnanswered
  <2>3. waiting' \in 0..MaxWaiting
    BY <1>8, <1>w DEF LeaveQueueUnanswered, SlotTypeOK
  <2>4. "queue" \in troubles' /\ troubles' \in SUBSET Troubles
    BY <1>8 DEF LeaveQueueUnanswered, SlotTypeOK, Troubles
  <2> QED
    BY <1>8, <2>1, <2>2, <2>3, <2>4, FaultsBounded DEF LeaveQueueUnanswered, SlotTypeOK, QueueIsCounted
<1>9. CASE Release(r)
  <2>1. LimitKept'
    BY <1>9, Fewer DEF Release
  <2>2. InQueue' = InQueue /\ stage' \in [Requests -> Stages]
    BY <1>9, <1>q, QueueMoves DEF Release
  <2>3. QueueIsCounted'
    BY <1>9, <2>2, SameQueue DEF Release
  <2> QED
    BY <1>9, <2>1, <2>2, <2>3 DEF Release, SlotTypeOK
<1>10. CASE ReleaseFails(r)
  <2>1. LimitKept'
    BY <1>10, Fewer DEF ReleaseFails
  <2>2. InQueue' = InQueue /\ stage' \in [Requests -> Stages]
    BY <1>10, <1>q, QueueMoves DEF ReleaseFails
  <2>3. QueueIsCounted'
    BY <1>10, <2>2, SameQueue DEF ReleaseFails
  <2> QED
    BY <1>10, <2>1, <2>2, <2>3, FaultsBounded DEF ReleaseFails, SlotTypeOK
<1> QED
  BY <1>1, <1>2, <1>3, <1>4, <1>5, <1>6, <1>7, <1>8, <1>9, <1>10 DEF RequestStep

LEMMA TimeKeepsSlots ==
    ASSUME SlotInv,
           \/ \E h \in Holders : SlotExpires(h)
           \/ WaitExpires
           \/ \E p \in Processes : Starts(p)
    PROVE  SlotInv'
<1> USE DEF SlotInv
<1>1. ASSUME NEW h \in Holders, SlotExpires(h) PROVE SlotInv'
  <2>1. LimitKept'
    BY <1>1, Fewer DEF SlotExpires
  <2>2. QueueIsCounted'
    BY <1>1, SameQueue DEF SlotExpires, InQueue
  <2> QED
    BY <1>1, <2>1, <2>2 DEF SlotExpires, SlotTypeOK
<1>2. CASE WaitExpires
  <2>1. LimitKept'
    BY <1>2, Fewer DEF WaitExpires
  <2>2. InQueue = {} /\ InQueue' = {}
    BY <1>2 DEF WaitExpires, InQueue
  <2>3. QueueIsCounted'
    BY <1>2, <2>2, FS_EmptySet DEF WaitExpires, QueueIsCounted
  <2>4. waiting' \in 0..MaxWaiting
    BY <1>2, LimitAssumption DEF WaitExpires
  <2> QED
    BY <1>2, <2>1, <2>3, <2>4 DEF WaitExpires, SlotTypeOK
<1>3. ASSUME NEW p \in Processes, Starts(p) PROVE SlotInv'
  <2>1. LimitKept'
    <3>1. CASE Swept
      BY <1>3, <3>1, Fewer DEF Starts, Swept
    <3>2. CASE SweepMissed
      BY <1>3, <3>2, Fewer DEF Starts, SweepMissed
    <3> QED
      BY <1>3, <3>1, <3>2 DEF Starts
  <2>2. QueueIsCounted'
    BY <1>3 DEF Starts, Swept, SweepMissed, QueueIsCounted, InQueue
  <2>3. SlotTypeOK'
    <3>1. waiting' \in 0..MaxWaiting
      BY <1>3, LimitAssumption DEF Starts, Swept, SweepMissed, SlotTypeOK
    <3>2. slots' \in SUBSET Holders /\ unbacked' \in SUBSET Calls /\ troubles' \in SUBSET Troubles
      BY <1>3 DEF Starts, Swept, SweepMissed, SlotTypeOK, Troubles
    <3> QED
      BY <1>3, <3>1, <3>2 DEF Starts, SlotTypeOK
  <2> QED
    BY <2>1, <2>2, <2>3
<1> QED
  BY <1>1, <1>2, <1>3

-----------------------------------------------------------------------------
(* The slots through the steps of a call. *)

\* A step that takes no place of the account and leaves the queue alone.
LEMMA NoPlaceTaken ==
    ASSUME SlotInv, NoQueue,
           slots' \subseteq slots, live' \subseteq live, UNCHANGED unbacked,
           troubles' \in SUBSET Troubles, troubles \subseteq troubles', faults' \in 0..MaxFaults
    PROVE  SlotInv'
<1> USE DEF SlotInv
<1>1. LimitKept'
  BY Fewer
<1>2. InQueue' = InQueue
  BY DEF NoQueue, InQueue
<1>3. QueueIsCounted'
  BY <1>2, SameQueue DEF NoQueue
<1> QED
  BY <1>1, <1>3 DEF SlotTypeOK, NoQueue

\* The troubles and faults of the steps of a call.
Marks ==
    \/ Quiet
    \/ Fault /\ \/ UNCHANGED troubles
                \/ Orphaned
                \/ \E c \in Calls : troubles' = troubles \cup {c}

LEMMA MarksTyped ==
    ASSUME SlotTypeOK, Marks
    PROVE  /\ troubles' \in SUBSET Troubles /\ troubles \subseteq troubles'
           /\ faults' \in 0..MaxFaults
<1>1. CASE Quiet
  BY <1>1 DEF Quiet, SlotTypeOK
<1>2. CASE Fault
  BY <1>2, FaultsBounded DEF Marks, Quiet, Orphaned, SlotTypeOK, Troubles
<1> QED
  BY <1>1, <1>2 DEF Marks

\* A creator that takes the lease held the slot it replaces, or had lost it: the
\* account carries nothing it did not carry.
LEMMA LeaseReplaces ==
    ASSUME SlotInv, Backed, NEW c \in Calls, pc[c] = "lease",
           NoQueue, UNCHANGED <<slots, unbacked>>, live' \in {live, live \cup {c}}, Marks
    PROVE  SlotInv'
<1> USE DEF SlotInv
<1>1. c \in slots \cup unbacked
  BY DEF Backed
<1>2. LimitKept'
  BY <1>1, Fewer
<1>3. InQueue' = InQueue
  BY DEF NoQueue, InQueue
<1>4. QueueIsCounted'
  BY <1>3, MarksTyped, SameQueue DEF NoQueue
<1> QED
  BY <1>2, <1>4, MarksTyped DEF SlotTypeOK, NoQueue

LEMMA CreateKeepsSlots ==
    ASSUME SlotInv, Backed, NEW c \in Calls, Create(c)
    PROVE  SlotInv'
<1>1. CASE TakeSlot(c)
  <2>1. CASE HasRoom /\ slots' = slots \cup {c}
    <3>1. c \in Holders
      BY DEF Holders
    <3>2. LimitKept'
      BY <1>1, <2>1, <3>1, OneMore DEF TakeSlot, SlotInv
    <3>3. InQueue' = InQueue
      BY <1>1 DEF TakeSlot, NoQueue, InQueue
    <3>4. QueueIsCounted'
      BY <1>1, <3>3, SameQueue DEF TakeSlot, NoQueue, Quiet, SlotInv
    <3> QED
      BY <1>1, <2>1, <3>1, <3>2, <3>4 DEF TakeSlot, NoQueue, Quiet, SlotInv, SlotTypeOK
  <2>2. CASE UNCHANGED slots
    BY <1>1, <2>2, MarksTyped, NoPlaceTaken DEF TakeSlot, Marks, SlotInv
  <2> QED
    BY <1>1, <2>1, <2>2 DEF TakeSlot
<1>2. CASE TakeLease(c)
  BY <1>2, LeaseReplaces DEF TakeLease, Moves, Marks
<1>3. CASE TakeLeaseUnanswered(c)
  BY <1>3, LeaseReplaces DEF TakeLeaseUnanswered, Moves, Marks
<1>4. CASE GiveUpSlot(c)
  BY <1>4, MarksTyped, NoPlaceTaken DEF GiveUpSlot, Marks, SlotInv
<1>5. CASE OpenSession(c)
  BY <1>5, MarksTyped, NoPlaceTaken DEF OpenSession, Marks, SlotInv
<1>6. CASE OpenSessionSlotLeft(c)
  BY <1>6, MarksTyped, NoPlaceTaken DEF OpenSessionSlotLeft, NoSlots, Marks, SlotInv
<1>7. CASE SaveCall(c)
  BY <1>7, MarksTyped, NoPlaceTaken DEF SaveCall, NoSlots, Marks, SlotInv
<1>8. CASE SaveCallUnanswered(c)
  BY <1>8, MarksTyped, NoPlaceTaken DEF SaveCallUnanswered, NoSlots, Marks, SlotInv
<1>9. CASE UndoLease(c)
  BY <1>9, MarksTyped, NoPlaceTaken DEF UndoLease, Marks, SlotInv
<1> QED
  BY <1>1, <1>2, <1>3, <1>4, <1>5, <1>6, <1>7, <1>8, <1>9 DEF Create

LEMMA FlowKeepsSlots ==
    ASSUME SlotInv, NEW f \in Flows, Control(f) \/ (f \in Joins /\ Sideband(f))
    PROVE  SlotInv'
<1>1. CASE ReleaseLease(f)
  BY <1>1, MarksTyped, NoPlaceTaken DEF ReleaseLease, Marks, SlotInv
<1>2. NoSlots /\ NoQueue /\ Marks => SlotInv'
  BY MarksTyped, NoPlaceTaken DEF NoSlots, SlotInv
<1>3. WatchRefreshUnanswered(f) \/ ProxyRefreshUnanswered(f) => NoSlots /\ NoQueue /\ Marks
  BY TargetIsCall DEF WatchRefreshUnanswered, ProxyRefreshUnanswered, ObserverStep, Marks
<1>4. Control(f) => \/ ReleaseLease(f) \/ WatchRefreshUnanswered(f)
                    \/ NoSlots /\ NoQueue /\ Marks
  BY DEF Control, Observe, ObserveUnanswered, ReadCall, ReadCallUnanswered, Dial, PollControl,
         Disconnect, Resume, StopWatching, WatchTimer, WaitedLong,
         MarkClosed, MarkClosedUnanswered, ReleaseLeaseFails, WriteLog, ObserverStep,
         ClosesSession, Marks
<1>5. Sideband(f) => ProxyRefreshUnanswered(f) \/ (NoSlots /\ NoQueue /\ Marks)
  BY DEF Sideband, Join, ClaimProxy, ClaimProxyUnanswered, DialProxy, ProxyBreaks, ProxyStops,
         ProxyTimer, LeaveProxy, LeaveProxyUnanswered, Leaving,
         ObserverStep, ClosesSession, Marks
<1> QED
  BY <1>1, <1>2, <1>3, <1>4, <1>5

\* A death empties the queue of the process, or has nobody queued there.
LEMMA DeathKeepsSlots ==
    ASSUME SlotInv, NEW p \in Processes, Dies(p)
    PROVE  SlotInv'
<1> USE DEF SlotInv
<1>1. LimitKept'
  BY Fewer DEF Dies, SlotsDie
<1>2. troubles' \in SUBSET Troubles /\ troubles \subseteq troubles'
  BY DEF Dies, SlotTypeOK, Troubles
<1>3. stage' \in [Requests -> Stages]
  BY DEF Dies, SlotsDie, SlotTypeOK, Stages
<1>4. QueueIsCounted'
  <2>1. CASE \E r \in InQueue : HomeOf[r] = p
    BY <2>1 DEF Dies, QueueIsCounted
  <2>2. CASE ~\E r \in InQueue : HomeOf[r] = p
    <3>1. InQueue' = InQueue
      BY <2>2 DEF Dies, SlotsDie, InQueue, SlotTypeOK
    <3> QED
      BY <1>2, <3>1, SameQueue DEF Dies, SlotsDie
  <2> QED
    BY <2>1, <2>2
<1> QED
  BY <1>1, <1>2, <1>3, <1>4, FaultsBounded DEF Dies, SlotsDie, SlotTypeOK

-----------------------------------------------------------------------------
(* The calls: steps of others, of the creator, of observers and proxies. *)

\* A step that moves no flow on, though it may end some, and that only takes
\* places away, ends sessions and lets time pass.
LEMMA Elsewhere ==
    ASSUME CallInv,
           pc' \in [Flows -> Steps],
           \A f \in Flows : pc'[f] \in {pc[f], "done"},
           UNCHANGED <<control, owner, logs>>,
           session' \in [Calls -> {"none", "open", "ended"}],
           \A c \in Calls : session[c] = "ended" => session'[c] = "ended",
           over' \in SUBSET Calls, over \subseteq over',
           live' \subseteq live, troubles \subseteq troubles',
           \A c \in Calls \ live : c \in slots \cup unbacked => c \in slots' \cup unbacked'
    PROVE  CallInv'
<1> USE DEF CallInv
<1>1. CallTypeOK'
  BY DEF CallTypeOK
<1>2. Calls \subseteq Flows
  BY DEF Flows
<1>3. Backed'
  BY <1>2 DEF Backed
<1>4. Early'
  BY <1>2 DEF Early, Before
<1>5. Late'
  BY <1>2, TargetIsCall DEF Late, Before, After, Observing, Closing, Joining
<1>6. Closers'
  BY TargetIsCall DEF Closers, Finalizing
<1>7. EndSeen'
  BY TargetIsCall DEF EndSeen, Ended
<1> QED
  BY <1>1, <1>3, <1>4, <1>5, <1>6, <1>7

\* A step of an observer or a proxy, up to the close of the record.
LEMMA Walks ==
    ASSUME CallInv,
           NEW f \in Flows, NEW to \in Observing \cup Joining \cup {"finalize", "done"},
           pc' = [pc EXCEPT ![f] = to],
           pc[Target(f)] \notin Before, ~Finalizing(f),
           to \in {"finalize", "leaveEnded"} /\ Target(f) \notin troubles' => Ended(Target(f))',
           UNCHANGED <<slots, live, unbacked, over, logs>>,
           session' \in {session, [session EXCEPT ![Target(f)] = "ended"]},
           troubles \subseteq troubles',
           CallTypeOK',
           \A c \in Calls : control'[c] # control[c] => c = Target(f) /\ control[c] # "closed"
    PROVE  CallInv'
<1> USE DEF CallInv
<1>1. Calls \subseteq Flows /\ \A g \in Flows : Target(g) \in Calls
  BY TargetIsCall DEF Flows
<1>2. to \notin Before /\ to \notin {"release", "log"}
  BY DEF Before, Observing, Joining
<1>3. \A g \in Flows : pc'[g] = IF g = f THEN to ELSE pc[g]
  BY DEF CallTypeOK
<1>4. Backed'
  BY <1>1, <1>2, <1>3 DEF Backed, Before
<1>5. Early'
  BY <1>1, <1>2, <1>3 DEF Early
<1>6. Late'
  BY <1>1, <1>2, <1>3 DEF Late
<1>7. Closers'
  BY <1>1, <1>2, <1>3 DEF Closers, Finalizing
<1>8. \A c \in Calls : Ended(c) => Ended(c)'
  BY <1>1 DEF Ended, CallTypeOK
<1>9. EndSeen'
  BY <1>1, <1>3, <1>8 DEF EndSeen
<1> QED
  BY <1>4, <1>5, <1>6, <1>7, <1>9

\* A step of the creator of a call.
LEMMA Creates ==
    ASSUME CallInv,
           NEW c \in Calls, NEW to \in Creating \cup {"observe", "done"},
           pc[c] \in Creating, pc' = [pc EXCEPT ![c] = to],
           to # "idle", to \in Before => pc[c] \in Before /\ UNCHANGED control,
           to = "lease" => c \notin live /\ c \in slots',
           pc[c] = "save" => to \notin Before,
           control' = control \/ (pc[c] = "save" /\ Saved(c)),
           session' = session \/ (pc[c] = "call" /\ session' = [session EXCEPT ![c] = "open"]),
           live' \in {live, live \ {c}} \/ (pc[c] = "lease" /\ to # "lease" /\ live' = live \cup {c}),
           \A d \in Calls \ {c} : d \in slots \cup unbacked => d \in slots' \cup unbacked',
           UNCHANGED <<owner, over, logs>>, troubles \subseteq troubles'
    PROVE  CallInv'
<1> USE DEF CallInv
<1>1. Calls \subseteq Flows /\ Target(c) = c /\ \A g \in Flows : Target(g) \in Calls
  BY TargetIsCall DEF Flows, Target
<1>2. CallTypeOK'
  BY <1>1 DEF CallTypeOK, Saved, Steps, Observing
<1>3. \A g \in Flows : pc'[g] = IF g = c THEN to ELSE pc[g]
  BY DEF CallTypeOK
<1>4. Backed'
  BY <1>1, <1>3 DEF Backed
<1>5. Early'
  <2>1. ASSUME NEW d \in Calls, pc'[d] \in Before PROVE control'[d] = "none" /\ logs'[d] = 0
    <3>1. CASE d = c
      BY <1>1, <1>3, <2>1, <3>1 DEF Early
    <3>2. CASE d # c
      BY <1>1, <1>3, <2>1, <3>2 DEF Early, Saved, CallTypeOK
    <3> QED
      BY <3>1, <3>2
  <2> QED
    BY <2>1 DEF Early
<1>6. Late'
  <2>1. ASSUME NEW g \in Flows, pc'[g] \in After PROVE pc'[Target(g)] \notin Before
    <3>1. CASE g = c
      BY <1>1, <1>3, <2>1, <3>1 DEF After, Before, Observing, Closing, Joining, Creating
    <3>2. CASE g # c
      BY <1>1, <1>3, <2>1, <3>2 DEF Late
    <3> QED
      BY <3>1, <3>2
  <2> QED
    BY <2>1 DEF Late
<1>7. \A g \in Flows : Finalizing(g)' <=> Finalizing(g)
  BY <1>1, <1>3 DEF Finalizing, Creating
<1>8. \A g \in Flows : pc[g] \in After /\ Target(g) = c => pc[c] \notin Before
  BY DEF Late
<1>9. pc[c] = "save" => control[c] = "none"
  BY DEF Early, Before
<1>10. Closers'
  BY <1>1, <1>7, <1>9 DEF Closers, Saved, CallTypeOK
<1>11. EndSeen'
  <2>1. ASSUME NEW g \in Flows, pc'[g] \in {"finalize", "leaveEnded"}, Target(g) \notin troubles'
        PROVE  Ended(Target(g))'
    <3>1. g # c /\ pc[g] = pc'[g]
      BY <1>3, <2>1 DEF Creating
    <3>2. pc[g] \in After /\ Ended(Target(g))
      BY <2>1, <3>1 DEF EndSeen, After, Closing, Joining
    <3>3. CASE Target(g) = c
      <4>1. pc[c] \notin Before
        BY <1>8, <3>2, <3>3
      <4> QED
        BY <3>2, <3>3, <4>1 DEF Ended, Before
    <3>4. CASE Target(g) # c
      BY <1>1, <3>2, <3>4 DEF Ended, CallTypeOK
    <3> QED
      BY <3>3, <3>4
  <2> QED
    BY <2>1 DEF EndSeen
<1> QED
  BY <1>2, <1>4, <1>5, <1>6, <1>10, <1>11

LEMMA CreateKeepsCalls ==
    ASSUME SlotTypeOK, CallInv, NEW c \in Calls, Create(c)
    PROVE  CallInv'
<1> USE DEF CallInv
<1>1. pc[c] = "idle" => c \notin live
  BY DEF Backed
<1> USE DEF Moves, NoSlots, NoRecord, NoSession, Quiet, Creating, Before
<1>2. CASE TakeSlot(c)
  <2>1. CASE slots' = slots \cup {c} /\ Moves(c, "idle", "lease")
    BY <1>1, <1>2, <2>1, Creates DEF TakeSlot
  <2>2. CASE UNCHANGED slots /\ Moves(c, "idle", "done")
    BY <1>2, <2>2, Creates DEF TakeSlot
  <2> QED
    BY <1>2, <2>1, <2>2 DEF TakeSlot
<1>3. CASE TakeLease(c)
  <2>1. CASE live' = live \cup {c} /\ Moves(c, "lease", "call")
    BY <1>3, <2>1, Creates DEF TakeLease
  <2>2. CASE UNCHANGED live /\ Moves(c, "lease", "giveUpSlot")
    BY <1>3, <2>2, Creates DEF TakeLease
  <2> QED
    BY <1>3, <2>1, <2>2 DEF TakeLease
<1>4. CASE TakeLeaseUnanswered(c)
  <2>1. live' = live \/ live' = live \cup {c}
    BY <1>4 DEF TakeLeaseUnanswered
  <2> QED
    BY <1>4, <2>1, Creates DEF TakeLeaseUnanswered
<1>5. CASE GiveUpSlot(c)
  BY <1>5, Creates DEF GiveUpSlot
<1>6. CASE OpenSession(c)
  <2>1. CASE Moves(c, "call", "save") /\ session' = [session EXCEPT ![c] = "open"]
    BY <1>6, <2>1, Creates DEF OpenSession
  <2>2. CASE Moves(c, "call", "undo") /\ UNCHANGED session
    BY <1>6, <2>2, Creates DEF OpenSession
  <2> QED
    BY <1>6, <2>1, <2>2 DEF OpenSession
<1>7. CASE OpenSessionSlotLeft(c)
  BY <1>7, Creates DEF OpenSessionSlotLeft
<1>8. CASE SaveCall(c)
  BY <1>8, Creates DEF SaveCall
<1>9. CASE SaveCallUnanswered(c)
  BY <1>9, Creates DEF SaveCallUnanswered, Orphaned
<1>10. CASE UndoLease(c)
  BY <1>10, Creates DEF UndoLease
<1> QED
  BY <1>2, <1>3, <1>4, <1>5, <1>6, <1>7, <1>8, <1>9, <1>10 DEF Create

\* Whoever is at work on a record keeps its type.
LEMMA RecordTyped ==
    ASSUME CallTypeOK, NEW f \in Flows, NEW to \in Steps, pc' = [pc EXCEPT ![f] = to],
           \/ NoRecord
           \/ Claims(f, "observer")
           \/ Claims(f, "proxy")
           \/ GivesBack(f)
           \/ Closed(Target(f)),
           session' \in {session, [session EXCEPT ![Target(f)] = "ended"]},
           UNCHANGED <<over, logs>>
    PROVE  CallTypeOK'
<1>1. Target(f) \in Calls
  BY TargetIsCall
<1>2. control' \in [Calls -> {"none", "pending", "observer", "proxy", "closed"}]
  BY DEF NoRecord, Claims, GivesBack, Closed, CallTypeOK
<1>3. owner' \in [Calls -> Flows \cup {Nobody}]
  BY DEF NoRecord, Claims, GivesBack, Closed, CallTypeOK
<1>4. session' \in [Calls -> {"none", "open", "ended"}]
  BY DEF CallTypeOK
<1>5. pc' \in [Flows -> Steps]
  BY DEF CallTypeOK
<1> QED
  BY <1>2, <1>3, <1>4, <1>5 DEF CallTypeOK

\* An ordinary step of an observer or a proxy: it may claim what nobody else
\* controls, give back its own control, or close the record on its way out.
LEMMA StepsOn ==
    ASSUME CallInv, NEW f \in Flows, NEW from \in After \cup {"idle"},
           NEW to \in Observing \cup Joining \cup {"finalize", "done"},
           ObserverStep(f, from, to) \/ ClosesSession(f, from, to),
           pc[Target(f)] \notin Before, from \notin {"release", "log"},
           to \in {"finalize", "leaveEnded"} /\ Target(f) \notin troubles' => Ended(Target(f))',
           \/ NoRecord
           \/ MayClaim(Target(f), "observer") /\ Claims(f, "observer")
           \/ MayClaim(Target(f), "proxy") /\ Claims(f, "proxy")
           \/ GivesBack(f)
           \/ NotClosed(Target(f)) /\ Closed(Target(f)),
           troubles \subseteq troubles'
    PROVE  CallInv'
<1>1. Target(f) \in Calls
  BY TargetIsCall
<1>2. /\ pc' = [pc EXCEPT ![f] = to] /\ pc[f] = from
      /\ UNCHANGED <<slots, live, unbacked, over, logs>>
      /\ session' \in {session, [session EXCEPT ![Target(f)] = "ended"]}
  BY DEF ObserverStep, ClosesSession, Moves, NoSlots, NoSession
<1>3. to \in Steps
  BY DEF Steps, Closing
<1>4. CallTypeOK'
  BY <1>2, <1>3, RecordTyped DEF CallInv
<1>5. \A c \in Calls : control'[c] # control[c] => c = Target(f) /\ control[c] # "closed"
  BY <1>1 DEF NoRecord, MayClaim, Claims, GivesBack, NotClosed, Closed, CallInv, CallTypeOK
<1> QED
  BY <1>2, <1>4, <1>5, Walks DEF Finalizing

\* The observer's part, up to the close of the record.
LEMMA WatchKeepsCalls ==
    ASSUME SlotTypeOK, CallInv, NEW f \in Flows,
           \/ Observe(f) \/ ObserveUnanswered(f) \/ ReadCall(f) \/ ReadCallUnanswered(f)
           \/ Dial(f) \/ PollControl(f) \/ Disconnect(f) \/ Resume(f)
           \/ StopWatching(f) \/ WatchTimer(f) \/ WatchRefreshUnanswered(f) \/ WaitedLong(f)
    PROVE  CallInv'
<1> USE DEF CallInv
<1>a. ASSUME NEW from \in Observing, NEW to \in Observing \cup {"done"},
             ObserverStep(f, from, to), troubles \subseteq troubles',
             \/ NoRecord
             \/ MayClaim(Target(f), "observer") /\ Claims(f, "observer")
      PROVE  CallInv'
  <2>1. from \in After /\ from \notin {"release", "log"} /\ to \notin {"finalize", "leaveEnded"}
    BY DEF After, Observing
  <2>2. pc[Target(f)] \notin Before
    BY <1>a, <2>1 DEF Late, ObserverStep, Moves
  <2> QED
    BY <1>a, <2>1, <2>2, StepsOn
<1>b. ASSUME NEW from \in Observing,
             ObserverStep(f, from, "finalize") \/ ClosesSession(f, from, "finalize"), NoRecord,
             Target(f) \notin troubles' => Ended(Target(f))', troubles \subseteq troubles'
      PROVE  CallInv'
  <2>1. from \in After /\ from \notin {"release", "log"}
    BY DEF After, Observing
  <2>2. pc[Target(f)] \notin Before
    BY <1>b, <2>1 DEF Late, ObserverStep, ClosesSession, Moves
  <2> QED
    BY <1>b, <2>1, <2>2, StepsOn
<1>o. {"observe", "watch", "dial", "watching", "pause", "waitExpiry"} = Observing
  BY DEF Observing
<1>1. CASE Observe(f)
  BY <1>1, <1>a, <1>o DEF Observe, Quiet
<1>2. CASE ObserveUnanswered(f)
  BY <1>2, <1>a, <1>o DEF ObserveUnanswered
<1>3. CASE ReadCall(f)
  <2>1. CASE Target(f) \in over /\ ObserverStep(f, "watch", "finalize")
    <3>1. Ended(Target(f))'
      BY <2>1 DEF Ended, ObserverStep, NoSession
    <3> QED
      BY <1>3, <1>b, <1>o, <2>1, <3>1 DEF ReadCall, Quiet
  <2>2. CASE ObserverStep(f, "watch", "done") \/ ObserverStep(f, "watch", "dial")
    BY <1>3, <1>a, <1>o, <2>2 DEF ReadCall, Quiet
  <2> QED
    BY <1>3, <2>1, <2>2 DEF ReadCall
<1>4. CASE ReadCallUnanswered(f)
  BY <1>4, <1>a, <1>o DEF ReadCallUnanswered
<1>5. CASE Dial(f)
  BY <1>5, <1>a, <1>o DEF Dial, Quiet
<1>6. CASE PollControl(f)
  BY <1>6, <1>a, <1>o DEF PollControl, Quiet
<1>7. CASE Disconnect(f)
  BY <1>7, <1>a, <1>o DEF Disconnect, Quiet
<1>8. CASE Resume(f)
  BY <1>8, <1>a, <1>o DEF Resume, Quiet
<1>9. CASE StopWatching(f)
  <2>1. Ended(Target(f))'
    BY <1>9 DEF StopWatching, SessionIsOver, LeaseKept, Ended, ObserverStep, NoSession, NoSlots
  <2> QED
    BY <1>9, <1>b, <1>o, <2>1 DEF StopWatching, Quiet
<1>10. CASE WatchTimer(f)
  <2>1. Ended(Target(f))'
    BY <1>10 DEF WatchTimer, ClosesSession, Ended
  <2> QED
    BY <1>10, <1>b, <1>o, <2>1 DEF WatchTimer, ClosesSession, Quiet
<1>11. CASE WatchRefreshUnanswered(f)
  BY <1>11, <1>b, <1>o DEF WatchRefreshUnanswered
<1>12. CASE WaitedLong(f)
  <2>1. Ended(Target(f))'
    BY <1>12 DEF WaitedLong, ObserverStep, NoSession, Ended
  <2> QED
    BY <1>12, <1>b, <1>o, <2>1 DEF WaitedLong, Quiet
<1> QED
  BY <1>1, <1>2, <1>3, <1>4, <1>5, <1>6, <1>7, <1>8, <1>9, <1>10, <1>11, <1>12

\* The close of the record, the release of the lease and the log.
LEMMA CloseKeepsCalls ==
    ASSUME SlotTypeOK, CallInv, NEW f \in Flows,
           \/ MarkClosed(f) \/ MarkClosedUnanswered(f)
           \/ ReleaseLease(f) \/ ReleaseLeaseFails(f) \/ WriteLog(f)
    PROVE  CallInv'
<1> USE DEF CallInv
<1>t. Calls \subseteq Flows /\ \A g \in Flows : Target(g) \in Calls
  BY TargetIsCall DEF Flows
<1>1. ASSUME ObserverStep(f, "finalize", "done"), troubles \subseteq troubles',
             NoRecord \/ (NotClosed(Target(f)) /\ Closed(Target(f)))
      PROVE  CallInv'
  <2>1. "finalize" \in After
    BY DEF After, Closing
  <2>2. pc[Target(f)] \notin Before
    BY <1>1, <2>1 DEF Late, ObserverStep, Moves
  <2> QED
    BY <1>1, <2>1, <2>2, StepsOn
<1>2. ASSUME NotClosed(Target(f)), Closed(Target(f)), ObserverStep(f, "finalize", "release"), Quiet
      PROVE  CallInv'
  <2> DEFINE c == Target(f)
  <2>1. pc' = [pc EXCEPT ![f] = "release"] /\ pc[f] = "finalize"
    BY <1>2 DEF ObserverStep, Moves
  <2>2. UNCHANGED <<slots, live, unbacked, session, over, logs, troubles>>
    BY <1>2 DEF ObserverStep, NoSlots, NoSession, Quiet
  <2>3. control' = [control EXCEPT ![c] = "closed"] /\ control[c] \notin {"none", "closed"}
    BY <1>2 DEF Closed, NotClosed
  <2>4. CallTypeOK'
    <3>1. "release" \in Steps
      BY DEF Steps, Closing
    <3> QED
      BY <1>2, <2>1, <2>2, <3>1, RecordTyped
  <2>5. \A g \in Flows : pc'[g] = IF g = f THEN "release" ELSE pc[g]
    BY <2>1 DEF CallTypeOK
  <2>6. pc[c] \notin Before
    BY <2>1 DEF Late, After, Closing
  <2>7. \A g \in Flows : Finalizing(g) => Target(g) # c
    BY <2>3 DEF Closers
  <2>8. logs[c] = 0
    BY <1>t, <2>3 DEF Closers
  <2>9. Backed'
    BY <1>t, <2>2, <2>5 DEF Backed
  <2>10. Early'
    BY <1>t, <2>2, <2>3, <2>5, <2>6 DEF Early, Before, CallTypeOK
  <2>11. Late'
    BY <1>t, <2>1, <2>5 DEF Late, Before, After, Closing
  <2>12. Closers'
    <3>1. \A g \in Flows : Finalizing(g)' => g = f \/ Finalizing(g)
      BY <2>5 DEF Finalizing
    <3>2. control'[c] = "closed" /\ \A d \in Calls \ {c} : control'[d] = control[d]
      BY <1>t, <2>3 DEF CallTypeOK
    <3>3. \A g \in Flows : Finalizing(g)' => control'[Target(g)] = "closed" /\ logs'[Target(g)] = 0
      BY <1>t, <2>2, <2>8, <3>1, <3>2 DEF Closers
    <3>4. \A g, h \in Flows : Finalizing(g)' /\ Finalizing(h)' /\ Target(g) = Target(h) => g = h
      BY <2>7, <3>1 DEF Closers
    <3>5. \A d \in Calls : logs'[d] # 0 => logs'[d] = 1 /\ control'[d] = "closed"
      BY <2>2, <3>2 DEF Closers
    <3> QED
      BY <3>3, <3>4, <3>5 DEF Closers
  <2>13. EndSeen'
    BY <2>2, <2>5 DEF EndSeen, Ended
  <2> QED
    BY <2>4, <2>9, <2>10, <2>11, <2>12, <2>13
<1>3. ASSUME pc[f] = "release", pc' = [pc EXCEPT ![f] = "log"], live' \subseteq live,
             UNCHANGED <<slots, unbacked, control, owner, session, over, logs, troubles>>
      PROVE  CallInv'
  <2>1. \A g \in Flows : pc'[g] = IF g = f THEN "log" ELSE pc[g]
    BY <1>3 DEF CallTypeOK
  <2>2. CallTypeOK'
    BY <1>3 DEF CallTypeOK, Steps, Closing
  <2>3. Backed'
    BY <1>3, <1>t, <2>1 DEF Backed
  <2>4. Early'
    BY <1>3, <1>t, <2>1 DEF Early, Before
  <2>5. Late'
    BY <1>3, <1>t, <2>1 DEF Late, Before, After, Closing
  <2>6. Closers'
    BY <1>3, <1>t, <2>1 DEF Closers, Finalizing
  <2>7. EndSeen'
    BY <1>3, <1>t, <2>1 DEF EndSeen, Ended
  <2> QED
    BY <2>2, <2>3, <2>4, <2>5, <2>6, <2>7
<1>4. CASE WriteLog(f)
  <2> DEFINE c == Target(f)
  <2>1. /\ pc[f] = "log" /\ pc' = [pc EXCEPT ![f] = "done"]
        /\ UNCHANGED <<slots, live, unbacked, control, owner, session, over, troubles>>
    BY <1>4 DEF WriteLog, Moves, NoSlots, NoRecord, NoSession, Quiet
  <2>2. control[c] = "closed" /\ logs[c] = 0
    BY <2>1 DEF Closers, Finalizing
  <2>3. logs' = [logs EXCEPT ![c] = 1]
    BY <1>4, <1>t, <2>2 DEF WriteLog
  <2>4. \A g \in Flows : pc'[g] = IF g = f THEN "done" ELSE pc[g]
    BY <2>1 DEF CallTypeOK
  <2>5. CallTypeOK'
    <3>1. pc' \in [Flows -> Steps]
      BY <2>1 DEF CallTypeOK, Steps
    <3>2. logs' \in [Calls -> 0..2]
      BY <1>t, <2>3 DEF CallTypeOK
    <3> QED
      BY <2>1, <3>1, <3>2 DEF CallTypeOK
  <2>6. Backed'
    BY <1>t, <2>1, <2>4 DEF Backed
  <2>7. Early'
    BY <1>t, <2>1, <2>2, <2>3, <2>4 DEF Early, Before, CallTypeOK
  <2>8. Late'
    BY <1>t, <2>1, <2>4 DEF Late, Before, After, Observing, Closing, Joining
  <2>9. Closers'
    <3>1. \A g \in Flows : Finalizing(g)' => Finalizing(g) /\ Target(g) # c
      BY <2>1, <2>4 DEF Finalizing, Closers
    <3>2. logs'[c] = 1 /\ \A d \in Calls \ {c} : logs'[d] = logs[d]
      BY <1>t, <2>3 DEF CallTypeOK
    <3> QED
      BY <1>t, <2>1, <2>2, <3>1, <3>2 DEF Closers
  <2>10. EndSeen'
    BY <2>1, <2>4 DEF EndSeen, Ended
  <2> QED
    BY <2>5, <2>6, <2>7, <2>8, <2>9, <2>10
<1>5. CASE MarkClosed(f)
  BY <1>1, <1>2, <1>5 DEF MarkClosed, Quiet
<1>6. CASE MarkClosedUnanswered(f)
  BY <1>1, <1>6 DEF MarkClosedUnanswered, Orphaned
<1>7. CASE ReleaseLease(f)
  BY <1>3, <1>7 DEF ReleaseLease, Moves, NoRecord, NoSession, Quiet
<1>8. CASE ReleaseLeaseFails(f)
  BY <1>3, <1>8 DEF ReleaseLeaseFails, ObserverStep, Moves, NoSlots, NoRecord, NoSession
<1> QED
  BY <1>4, <1>5, <1>6, <1>7, <1>8

\* A client that joins, from its first look at the record to its leave.
LEMMA JoinKeepsCalls ==
    ASSUME SlotTypeOK, CallInv, NEW j \in Joins, Sideband(j)
    PROVE  CallInv'
<1> USE DEF CallInv
<1>t. j \in Flows /\ Target(j) \in Calls
  BY TargetIsCall DEF Flows
<1>o. /\ {"claim", "settle", "proxying", "handBack", "leave", "leaveEnded"} = Joining
      /\ Joining \subseteq After /\ "observe" \in Observing
  BY DEF Joining, After, Observing
<1>a. ASSUME NEW from \in Joining, NEW to \in (Joining \ {"leaveEnded"}) \cup {"observe", "done"},
             ObserverStep(j, from, to), troubles \subseteq troubles',
             \/ NoRecord
             \/ MayClaim(Target(j), "proxy") /\ Claims(j, "proxy")
             \/ GivesBack(j)
      PROVE  CallInv'
  <2>1. from \notin {"release", "log"} /\ to \notin {"finalize", "leaveEnded"}
    BY <1>o
  <2>2. pc[Target(j)] \notin Before
    BY <1>a, <1>o, <1>t DEF Late, ObserverStep, Moves
  <2> QED
    BY <1>a, <1>o, <1>t, <2>1, <2>2, StepsOn
<1>b. ASSUME NEW from \in Joining, NEW to \in {"leaveEnded", "finalize"},
             ObserverStep(j, from, to) \/ ClosesSession(j, from, to),
             NoRecord \/ GivesBack(j),
             Target(j) \notin troubles' => Ended(Target(j))', troubles \subseteq troubles'
      PROVE  CallInv'
  <2>1. from \notin {"release", "log"} /\ to \in Joining \cup {"finalize"}
    BY <1>o
  <2>2. pc[Target(j)] \notin Before
    BY <1>b, <1>o, <1>t DEF Late, ObserverStep, ClosesSession, Moves
  <2> QED
    BY <1>b, <1>o, <1>t, <2>1, <2>2, StepsOn
<1>1. CASE Join(j)
  <2>1. pc[Target(j)] \notin Before
    BY <1>1, <1>t DEF Join, Early
  <2> QED
    BY <1>1, <1>o, <1>t, <2>1, StepsOn DEF Join, Quiet
<1>2. CASE ClaimProxy(j)
  BY <1>2, <1>a, <1>o DEF ClaimProxy, Quiet
<1>3. CASE ClaimProxyUnanswered(j)
  BY <1>3, <1>a, <1>o DEF ClaimProxyUnanswered, Orphaned
<1>4. CASE DialProxy(j)
  BY <1>4, <1>a, <1>o DEF DialProxy, Quiet
<1>5. CASE ProxyBreaks(j)
  BY <1>5, <1>a, <1>o DEF ProxyBreaks, Quiet
<1>6. CASE ProxyStops(j)
  <2>1. Ended(Target(j))'
    BY <1>6 DEF ProxyStops, SessionIsOver, LeaseKept, Ended, ObserverStep, NoSession, NoSlots
  <2> QED
    BY <1>6, <1>b, <1>o, <2>1 DEF ProxyStops, Quiet
<1>7. CASE ProxyTimer(j)
  <2>1. Ended(Target(j))'
    BY <1>7 DEF ProxyTimer, ClosesSession, Ended
  <2> QED
    BY <1>7, <1>b, <1>o, <2>1 DEF ProxyTimer, ClosesSession, Quiet
<1>8. CASE ProxyRefreshUnanswered(j)
  BY <1>8, <1>b, <1>o DEF ProxyRefreshUnanswered
<1>9. ASSUME Leaving(j), NoRecord \/ GivesBack(j), troubles \subseteq troubles'
      PROVE  CallInv'
  <2>1. pc[j] \in Joining
    BY <1>9, <1>o DEF Leaving
  <2>2. CASE AfterProxy(j) = "finalize"
    <3>1. Target(j) \notin troubles' => Ended(Target(j))
      BY <1>9, <1>t, <2>2 DEF AfterProxy, EndSeen, Ended
    <3>2. ObserverStep(j, pc[j], "finalize")
      BY <1>9, <2>2 DEF Leaving
    <3>3. Ended(Target(j)) => Ended(Target(j))'
      BY <3>2 DEF ObserverStep, NoSession, NoSlots, Ended
    <3> QED
      BY <1>9, <1>b, <2>1, <3>1, <3>2, <3>3
  <2>3. CASE AfterProxy(j) = "observe"
    BY <1>9, <1>a, <2>1, <2>3 DEF Leaving
  <2> QED
    BY <2>2, <2>3 DEF AfterProxy
<1>10. CASE LeaveProxy(j)
  BY <1>9, <1>10 DEF LeaveProxy, Quiet
<1>11. CASE LeaveProxyUnanswered(j)
  BY <1>9, <1>11 DEF LeaveProxyUnanswered, Orphaned
<1> QED
  BY <1>1, <1>2, <1>3, <1>4, <1>5, <1>6, <1>7, <1>8, <1>10, <1>11 DEF Sideband

-----------------------------------------------------------------------------
(* The whole. *)

LEMMA Initially == Init => IInv
<1> SUFFICES ASSUME Init PROVE IInv
  OBVIOUS
<1> USE DEF Init, SlotInit
<1>1. SlotTypeOK
  BY LimitAssumption DEF SlotTypeOK, Stages
<1>2. LimitKept
  BY FS_EmptySet, LimitAssumption DEF LimitKept
<1>3. InQueue = {}
  BY DEF InQueue
<1>4. QueueIsCounted
  BY <1>3, FS_EmptySet DEF QueueIsCounted
<1>5. CallTypeOK
  BY DEF CallTypeOK, Steps, Creating
<1>6. Calls \subseteq Flows
  BY DEF Flows
<1>7. Backed /\ Early
  BY <1>6 DEF Backed, Early
<1>8. Late /\ Closers /\ EndSeen
  BY TargetIsCall DEF Late, After, Observing, Closing, Joining, Closers, Finalizing, EndSeen
<1> QED
  BY <1>1, <1>2, <1>4, <1>5, <1>7, <1>8 DEF IInv, SlotInv, CallInv

LEMMA Stays == IInv /\ [Next]_vars => IInv'
<1> SUFFICES ASSUME IInv, [Next]_vars PROVE IInv'
  OBVIOUS
<1>t. SlotInv /\ CallInv /\ SlotTypeOK /\ Backed /\ CallTypeOK
  BY DEF IInv, SlotInv, CallInv
<1>1. CASE SlotStep /\ UNCHANGED callVars
  <2>1. SlotInv'
    BY <1>1, <1>t, RequestKeepsSlots, TimeKeepsSlots DEF SlotStep
  <2>2. live' = live /\ troubles \subseteq troubles'
    BY <1>1 DEF SlotStep, RequestStep, Acquire, AcquireUnanswered, Enqueue, EnqueueUnanswered,
           Retry, GiveUp, LeaveQueue, LeaveQueueUnanswered, Release, ReleaseFails, SlotExpires,
           WaitExpires, Starts, Swept, SweepMissed
  <2>3. \A c \in Calls \ live : c \in slots \cup unbacked => c \in slots' \cup unbacked'
    BY <1>1, HoldersAssumption DEF SlotStep, RequestStep, Acquire, AcquireUnanswered, Enqueue,
           EnqueueUnanswered, Retry, GiveUp, LeaveQueue, LeaveQueueUnanswered, Release,
           ReleaseFails, SlotExpires, WaitExpires, Starts, Swept, SweepMissed
  <2>4. CallInv'
    BY <1>1, <1>t, <2>2, <2>3, Elsewhere DEF callVars, CallTypeOK
  <2> QED
    BY <2>1, <2>4 DEF IInv
<1>2. ASSUME NEW c \in Calls, Create(c) PROVE IInv'
  BY <1>2, <1>t, CreateKeepsSlots, CreateKeepsCalls DEF IInv
<1>3. ASSUME NEW c \in Calls, TimePasses(c) \/ HangsUp(c) \/ LeaseExpires(c) PROVE IInv'
  <2>1. NoQueue /\ Quiet /\ UNCHANGED <<slots, unbacked>> /\ live' \subseteq live
    BY <1>3 DEF TimePasses, HangsUp, LeaseExpires, NoSlots
  <2>2. SlotInv'
    BY <1>t, <2>1, MarksTyped, NoPlaceTaken DEF Marks
  <2>3. /\ UNCHANGED <<pc, control, owner, logs>>
        /\ over' \in SUBSET Calls /\ over \subseteq over'
        /\ session' \in [Calls -> {"none", "open", "ended"}]
        /\ \A d \in Calls : session[d] = "ended" => session'[d] = "ended"
    BY <1>3, <1>t DEF TimePasses, HangsUp, LeaseExpires, NoRecord, NoSession, callVars, CallTypeOK
  <2>4. CallInv'
    BY <1>t, <2>1, <2>3, Elsewhere DEF Quiet, CallTypeOK
  <2> QED
    BY <2>2, <2>4 DEF IInv
<1>4. ASSUME NEW f \in Flows, Control(f) PROVE IInv'
  BY <1>4, <1>t, FlowKeepsSlots, WatchKeepsCalls, CloseKeepsCalls DEF IInv, Control
<1>5. ASSUME NEW j \in Joins, Sideband(j) PROVE IInv'
  <2>1. j \in Flows
    BY DEF Flows
  <2> QED
    BY <1>5, <1>t, <2>1, FlowKeepsSlots, JoinKeepsCalls DEF IInv
<1>6. ASSUME NEW p \in Processes, Dies(p) PROVE IInv'
  <2>1. SlotInv'
    BY <1>6, <1>t, DeathKeepsSlots
  <2>2. pc' \in [Flows -> Steps] /\ \A f \in Flows : pc'[f] \in {pc[f], "done"}
    BY <1>6, <1>t DEF Dies, CallTypeOK, Steps
  <2>3. /\ UNCHANGED <<slots, live, unbacked, control, owner, session, over, logs>>
        /\ troubles \subseteq troubles'
    BY <1>6 DEF Dies, SlotsDie, NoRecord, NoSession
  <2>4. CallInv'
    BY <1>t, <2>2, <2>3, Elsewhere DEF CallTypeOK
  <2> QED
    BY <2>1, <2>4 DEF IInv
<1>7. CASE UNCHANGED vars
  <2>1. SlotInv'
    BY <1>7, <1>t DEF vars, slotVars, SlotInv, SlotTypeOK, LimitKept, QueueIsCounted, InQueue
  <2>2. CallInv'
    BY <1>7, <1>t, Elsewhere DEF vars, slotVars, callVars, CallTypeOK
  <2> QED
    BY <2>1, <2>2 DEF IInv
<1> QED
  BY <1>1, <1>2, <1>3, <1>4, <1>5, <1>6, <1>7 DEF Next

LEMMA Invariant == Spec => []IInv
BY Initially, Stays, PTL DEF Spec

\* Every variable keeps its type.
THEOREM TypeCorrect == Spec => []TypeOK
<1>1. IInv => TypeOK
  BY DEF IInv, SlotInv, CallInv, TypeOK
<1> QED
  BY <1>1, Invariant, PTL

\* acquireScript and acquireLiveLeaseScript together keep the account within its
\* limit, whatever requests, creations, joins, failures, expiries, deaths and
\* sweeps interleave, but for leases taken over slots that were gone.
THEOREM LimitHolds == Spec => []LimitKept
<1>1. IInv => LimitKept
  BY DEF IInv, SlotInv
<1> QED
  BY <1>1, Invariant, PTL

\* Every way out of the wait queue gives its place back once, unless a command on
\* the counter failed, a process that holds a place died or a sweep deleted it.
THEOREM QueueCounted == Spec => []QueueIsCounted
<1>1. IInv => QueueIsCounted
  BY DEF IInv, SlotInv
<1> QED
  BY <1>1, Invariant, PTL

\* However many flows finalize a call, one of them logs it.
THEOREM LoggedAtMostOnce == Spec => []LoggedOnce
<1>1. IInv => LoggedOnce
  BY DEF IInv, CallInv, CallTypeOK, Closers, LoggedOnce
<1> QED
  BY <1>1, Invariant, PTL

\* Slots, queue and log add up: the limit holds but for leases taken over slots
\* that were gone, the counter is the number of requests that wait unless a
\* command, a death or a sweep disturbed it, and no call is logged twice.
THEOREM AddsUp == Spec => []CallsAddUp
<1>1. TypeOK /\ LimitKept /\ QueueIsCounted /\ LoggedOnce => CallsAddUp
  BY DEF CallsAddUp
<1> QED
  BY <1>1, TypeCorrect, LimitHolds, QueueCounted, LoggedAtMostOnce, PTL

\* How the record of a call can change.
LEMMA RecordMoves ==
    ASSUME CallInv, [Next]_vars
    PROVE  \/ NoRecord
           \/ \E c \in Calls : pc[c] = "save" /\ Saved(c) /\ UNCHANGED owner
           \/ \E f \in Flows :
                 \/ MayClaim(Target(f), "observer") /\ Claims(f, "observer")
                 \/ MayClaim(Target(f), "proxy") /\ Claims(f, "proxy")
                 \/ pc[f] = "finalize" /\ Closed(Target(f))
           \/ \E j \in Joins : pc[j] \in {"handBack", "leave", "leaveEnded"} /\ GivesBack(j)
<1>1. CASE (SlotStep /\ UNCHANGED callVars) \/ UNCHANGED vars
  BY <1>1 DEF vars, callVars, NoRecord
<1>2. ASSUME NEW c \in Calls, Create(c)
      PROVE  NoRecord \/ (pc[c] = "save" /\ Saved(c) /\ UNCHANGED owner)
  BY <1>2 DEF Create, TakeSlot, TakeLease, TakeLeaseUnanswered, GiveUpSlot, OpenSession,
         OpenSessionSlotLeft, SaveCall, SaveCallUnanswered, UndoLease, Moves, NoRecord
<1>3. ASSUME NEW c \in Calls, TimePasses(c) \/ HangsUp(c) \/ LeaseExpires(c) PROVE NoRecord
  BY <1>3 DEF TimePasses, HangsUp, LeaseExpires, callVars, NoRecord
<1>4. ASSUME NEW f \in Flows, Control(f)
      PROVE  \/ NoRecord
             \/ MayClaim(Target(f), "observer") /\ Claims(f, "observer")
             \/ pc[f] = "finalize" /\ Closed(Target(f))
  BY <1>4 DEF Control, Observe, ObserveUnanswered, ReadCall, ReadCallUnanswered, Dial,
         PollControl, Disconnect, Resume, StopWatching, WatchTimer, WatchRefreshUnanswered,
         WaitedLong, MarkClosed, MarkClosedUnanswered, ReleaseLease, ReleaseLeaseFails, WriteLog,
         ClosesSession, ObserverStep, Moves
<1>5. ASSUME NEW j \in Joins, Sideband(j)
      PROVE  \/ NoRecord
             \/ MayClaim(Target(j), "proxy") /\ Claims(j, "proxy")
             \/ pc[j] \in {"handBack", "leave", "leaveEnded"} /\ GivesBack(j)
  BY <1>5 DEF Sideband, Join, ClaimProxy, ClaimProxyUnanswered, DialProxy, ProxyBreaks,
         ProxyStops, ProxyTimer, ProxyRefreshUnanswered, LeaveProxy, LeaveProxyUnanswered,
         Leaving, ClosesSession
<1>6. ASSUME NEW p \in Processes, Dies(p) PROVE NoRecord
  BY <1>6 DEF Dies
<1>7. Joins \subseteq Flows
  BY DEF Flows
<1> QED
  BY <1>1, <1>2, <1>3, <1>4, <1>5, <1>6, <1>7 DEF Next

\* A record is closed only over a call that has ended, whose time has passed, whose
\* lease is gone, or of whose lease a refresh went unanswered.
THEOREM ClosesEndedCalls == Spec => ClosedAfterEnd
<1>1. ASSUME IInv, [Next]_vars, NEW c \in Calls,
             control[c] # "closed", control'[c] = "closed", c \notin troubles
      PROVE  session[c] = "ended" \/ c \in over \/ c \notin live
  <2>1. CallInv /\ CallTypeOK
    BY <1>1 DEF IInv, CallInv
  <2>2. PICK f \in Flows : pc[f] = "finalize" /\ Closed(Target(f))
    <3>1. \A d \in Calls : ~(Saved(d) /\ control'[c] = "closed")
      BY <1>1, <2>1 DEF Saved, CallTypeOK
    <3>2. \A f \in Flows : ~Claims(f, "observer") /\ ~Claims(f, "proxy") /\ ~GivesBack(f)
      BY <1>1, <2>1, TargetIsCall DEF Claims, GivesBack, CallTypeOK
    <3>3. ~NoRecord /\ Joins \subseteq Flows
      BY <1>1 DEF NoRecord, Flows
    <3> QED
      BY <1>1, <2>1, <3>1, <3>2, <3>3, RecordMoves
  <2>3. Target(f) = c
    BY <1>1, <2>1, <2>2, TargetIsCall DEF Closed, CallTypeOK
  <2> QED
    BY <1>1, <2>1, <2>2, <2>3 DEF CallInv, EndSeen, Ended
<1>2. IInv /\ [Next]_vars => [\A c \in Calls :
         control[c] # "closed" /\ control'[c] = "closed" /\ c \notin troubles =>
             session[c] = "ended" \/ c \in over \/ c \notin live]_vars
  BY <1>1
<1> QED
  BY <1>2, Invariant, PTL DEF Spec, ClosedAfterEnd

\* Nobody takes from a proxy the control it has claimed.
THEOREM ProxyKeepsControl == Spec => ControlIsKept
<1>1. ASSUME IInv, [Next]_vars, NEW c \in Calls,
             control[c] = "proxy", ~(control'[c] = "proxy" /\ owner'[c] = owner[c])
      PROVE  control'[c] = "closed" \/ pc[owner[c]] \in {"handBack", "leave", "leaveEnded"}
  <2>1. CallInv /\ CallTypeOK /\ Early
    BY <1>1 DEF IInv, CallInv
  <2>2. ~NoRecord
    BY <1>1 DEF NoRecord
  <2>3. ~\E d \in Calls : pc[d] = "save" /\ Saved(d) /\ UNCHANGED owner
    BY <1>1, <2>1 DEF Saved, Early, Before, CallTypeOK
  <2>4. ASSUME NEW f \in Flows, NEW role \in {"observer", "proxy"},
               MayClaim(Target(f), role), Claims(f, role)
        PROVE  FALSE
    BY <1>1, <2>1, <2>4, TargetIsCall DEF MayClaim, Claims, CallTypeOK
  <2>5. ASSUME NEW f \in Flows, Closed(Target(f)) PROVE control'[c] = "closed"
    BY <1>1, <2>1, <2>5, TargetIsCall DEF Closed, CallTypeOK
  <2>6. ASSUME NEW j \in Joins, GivesBack(j) PROVE owner[c] = j
    BY <1>1, <2>1, <2>6, TargetIsCall DEF GivesBack, CallTypeOK, Flows
  <2> QED
    BY <1>1, <2>1, <2>2, <2>3, <2>4, <2>5, <2>6, RecordMoves
<1>2. IInv /\ [Next]_vars => [\A c \in Calls :
         control[c] = "proxy" /\ ~(control'[c] = "proxy" /\ owner'[c] = owner[c]) =>
             control'[c] = "closed" \/ pc[owner[c]] \in {"handBack", "leave", "leaveEnded"}]_vars
  BY <1>1
<1> QED
  BY <1>2, Invariant, PTL DEF Spec, ControlIsKept
=============================================================================
