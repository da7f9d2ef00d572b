--------------------------- MODULE ConcurrencySlots ---------------------------
(***************************************************************************)
(* The concurrency slots of one upstream account, kept in Redis            *)
(* (repository/concurrency_cache.go) and used by every gateway handler     *)
(* (handler/gateway_helper.go, handler/openai_gateway_handler.go).         *)
(*                                                                         *)
(*   - slots is the sorted set of ordinary requests, live the sorted set   *)
(*     of the leases of Live voice calls: both count against one Limit;    *)
(*   - every script trims the members whose score is too old before it     *)
(*     counts, so a member that expired is a member that left the set;     *)
(*   - waiting is the counter of the wait queue.                           *)
(*                                                                         *)
(* A request tries once, then queues, retries with a backoff until its     *)
(* timeout, runs and releases.  A member that wants a place in the account *)
(* is a request or the creator of a Live call, who holds an ordinary slot  *)
(* while it creates the call.  The slots of a user are the same scripts on *)
(* other keys and are not modelled twice.                                  *)
(***************************************************************************)
EXTENDS Integers, FiniteSets

CONSTANTS
    Requests,       \* clients that send ordinary requests, one at a time each
    Calls,          \* Live calls, each with its creator's slot and its lease
    Processes,      \* processes of the gateway
    HomeOf,         \* the process that serves a request
    Limit,          \* account.Concurrency, positive: zero means no slots at all
    MaxWaiting,     \* WaitPlan.MaxWaiting
    MaxFaults       \* bound: commands that fail or go unanswered, and deaths

ASSUME LimitAssumption == Limit \in Nat \ {0} /\ MaxWaiting \in Nat /\ MaxFaults \in Nat

ASSUME HoldersAssumption ==
    /\ IsFiniteSet(Requests) /\ IsFiniteSet(Calls)
    /\ Requests \cap Calls = {}
    /\ HomeOf \in [Requests -> Processes]

Holders == Requests \cup Calls

VARIABLES
    slots,      \* members of concurrency:account:{id}
    live,       \* members of concurrency:live:account:{id}
    waiting,    \* wait:account:{id}
    stage,      \* where each request stands in its handler
    down,       \* processes that died and have not started again
    unbacked,   \* ghost: calls whose creator lost the slot its lease replaces
    troubles,   \* ghost: trouble a property makes an exception for
    faults      \* number of faults so far

slotVars == <<slots, live, waiting, stage, down, unbacked, troubles, faults>>

Stages == {"idle", "enqueue", "waiting", "served", "gaveUp", "held"}

\* What a property excepts: a wait command that failed or a sweep of the
\* counter ("queue"), a step that leaves a call without a controller ("orphan"),
\* and a call of whose lease a refresh went unanswered (the call).
Troubles == {"queue", "orphan"} \cup Calls

SlotTypeOK ==
    /\ slots \in SUBSET Holders
    /\ live \in SUBSET Calls
    /\ waiting \in 0..MaxWaiting
    /\ stage \in [Requests -> Stages]
    /\ down \in SUBSET Processes
    /\ unbacked \in SUBSET Calls
    /\ troubles \in SUBSET Troubles
    /\ faults \in 0..MaxFaults

SlotInit ==
    /\ slots = {} /\ live = {} /\ waiting = 0
    /\ stage = [r \in Requests |-> "idle"]
    /\ down = {} /\ unbacked = {} /\ troubles = {} /\ faults = 0

Fault == faults < MaxFaults /\ faults' = faults + 1

-----------------------------------------------------------------------------
(* The scripts. *)

\* ZCARD of both sets against the limit.
Load == Cardinality(slots) + Cardinality(live)

\* Mutant: the limit is compared with the ordinary slots only.
HasRoomWithoutLive == Cardinality(slots) < Limit

\* acquireScript.
HasRoom == Load < Limit

\* acquireLiveLeaseScript with replacing = 1: one more than the limit, for the
\* creator's own slot is still there and is given back afterwards.
RoomForLease == Load < Limit + 1

-----------------------------------------------------------------------------
(* A request: acquireOpenAIAccountSlot and waitForSlotWithPingTimeout. *)

Alive(r) == HomeOf[r] \notin down

Goes(r, from, to) ==
    /\ stage[r] = from /\ Alive(r)
    /\ stage' = [stage EXCEPT ![r] = to]

\* The first try: TryAcquireAccountSlot.  Every request has an id of its own: a
\* slot that an earlier request left behind must have gone.
Acquire(r) ==
    /\ r \notin slots
    /\ \/ HasRoom /\ slots' = slots \cup {r} /\ Goes(r, "idle", "held")
       \/ ~HasRoom /\ UNCHANGED slots /\ Goes(r, "idle", "enqueue")
    /\ UNCHANGED <<live, waiting, down, unbacked, troubles, faults>>

\* acquireScript may have run although its caller sees an error: the request
\* fails, and nobody releases the slot.
AcquireUnanswered(r) ==
    /\ r \notin slots /\ Fault
    /\ slots' \in {slots} \cup IF HasRoom THEN {slots \cup {r}} ELSE {}
    /\ Goes(r, "idle", "idle") \/ Goes(r, "waiting", "gaveUp")
    /\ UNCHANGED <<live, waiting, down, unbacked, troubles>>

\* IncrementAccountWaitCount: 429 when the queue is full.
Enqueue(r) ==
    /\ \/ waiting < MaxWaiting /\ waiting' = waiting + 1 /\ Goes(r, "enqueue", "waiting")
       \/ waiting = MaxWaiting /\ UNCHANGED waiting /\ Goes(r, "enqueue", "idle")
    /\ UNCHANGED <<slots, live, down, unbacked, troubles, faults>>

\* An increment that fails lets the request wait, and the service hides the
\* error from the handler, which will decrement all the same.
EnqueueUnanswered(r) ==
    /\ Fault
    /\ waiting' \in {waiting} \cup IF waiting < MaxWaiting THEN {waiting + 1} ELSE {}
    /\ Goes(r, "enqueue", "waiting")
    /\ troubles' = troubles \cup {"queue"}
    /\ UNCHANGED <<slots, live, down, unbacked>>

\* The retry after a backoff.
Retry(r) ==
    /\ r \notin slots
    /\ HasRoom /\ slots' = slots \cup {r}
    /\ Goes(r, "waiting", "served")
    /\ UNCHANGED <<live, waiting, down, unbacked, troubles, faults>>

\* The wait times out, or the client is gone.
GiveUp(r) ==
    /\ Goes(r, "waiting", "gaveUp")
    /\ UNCHANGED <<slots, live, waiting, down, unbacked, troubles, faults>>

\* decrementWaitScript: never below zero.
OneLess(n) == IF n > 0 THEN n - 1 ELSE 0

\* releaseWait: both for a request that was served and for one that gave up.
LeaveQueue(r) ==
    /\ Goes(r, "served", "held") \/ Goes(r, "gaveUp", "idle")
    /\ waiting' = OneLess(waiting)
    /\ UNCHANGED <<slots, live, down, unbacked, troubles, faults>>

LeaveQueueUnanswered(r) ==
    /\ Fault
    /\ Goes(r, "served", "held") \/ Goes(r, "gaveUp", "idle")
    /\ waiting' \in {waiting, OneLess(waiting)}
    /\ troubles' = troubles \cup {"queue"}
    /\ UNCHANGED <<slots, live, down, unbacked>>

\* The release function, on return or when the client's context ends.
Release(r) ==
    /\ Goes(r, "held", "idle")
    /\ slots' = slots \ {r}
    /\ UNCHANGED <<live, waiting, down, unbacked, troubles, faults>>

\* Its error is logged and the slot is left to its score.
ReleaseFails(r) ==
    /\ Fault
    /\ Goes(r, "held", "idle")
    /\ UNCHANGED <<slots, live, waiting, down, unbacked, troubles>>

-----------------------------------------------------------------------------
(* Time and processes. *)

\* A member whose score is older than the slot TTL is trimmed by whichever
\* script comes next, whether its request still runs or not.
SlotExpires(h) ==
    /\ h \in slots
    /\ slots' = slots \ {h}
    /\ unbacked' = unbacked \cup ({h} \cap (Calls \ live))
    /\ UNCHANGED <<live, waiting, stage, down, troubles, faults>>

\* Redis drops the counter when nobody has queued for its TTL.
WaitExpires ==
    /\ waiting > 0 /\ \A r \in Requests : stage[r] \notin {"waiting", "served", "gaveUp"}
    /\ waiting' = 0
    /\ UNCHANGED <<slots, live, stage, down, unbacked, troubles, faults>>

\* A process dies with the requests it serves.
SlotsDie(p) ==
    /\ p \notin down /\ Fault
    /\ down' = down \cup {p}
    /\ stage' = [r \in Requests |->
                    IF HomeOf[r] = p THEN "idle" ELSE stage[r]]
    /\ UNCHANGED <<slots, live, waiting, unbacked>>

\* CleanupStaleProcessSlots of a process that starts removes every slot that
\* does not carry its own new prefix, those of other running processes
\* included, and deletes the wait counter.  It visits the accounts of the
\* active index, whose upkeep is best effort: an account may be missed.  The
\* leases of Live calls are left alone.
SweepMissed == UNCHANGED <<slots, waiting, unbacked, troubles>>

Swept ==
    /\ slots' = {} /\ waiting' = 0
    /\ unbacked' = unbacked \cup (slots \cap (Calls \ live))
    /\ troubles' = troubles \cup {"queue"}

Starts(p) ==
    /\ p \in down /\ down' = down \ {p}
    /\ Swept \/ SweepMissed
    /\ UNCHANGED <<live, stage, faults>>

\* The steps of an ordinary request, of time and of a process that starts.
RequestStep(r) ==
    \/ Acquire(r) \/ AcquireUnanswered(r)
    \/ Enqueue(r) \/ EnqueueUnanswered(r) \/ Retry(r) \/ GiveUp(r)
    \/ LeaveQueue(r) \/ LeaveQueueUnanswered(r)
    \/ Release(r) \/ ReleaseFails(r)

SlotStep ==
    \/ \E r \in Requests : RequestStep(r)
    \/ \E h \in Holders : SlotExpires(h)
    \/ WaitExpires
    \/ \E p \in Processes : Starts(p)

-----------------------------------------------------------------------------
(* Properties of the slots. *)

\* An account never carries more than its limit: the ordinary requests and the
\* Live calls it has a slot or a lease for, a call counted once while its
\* creator still holds the slot the lease replaces.  Excepted is a call whose
\* creator's slot had expired or was swept before it took the lease: the
\* allowance of acquireLiveLeaseScript is then for a slot that is not there.
LimitKept == Cardinality((slots \cup live) \ unbacked) <= Limit

\* The requests between joining the wait queue and leaving it.
InQueue == {r \in Requests : stage[r] \in {"waiting", "served", "gaveUp"}}

\* As long as no command on the counter has failed, no process that holds a
\* place has died and no sweep has deleted it, the counter is the number of
\* requests in the queue: every way out of the queue gives the place back once.
QueueIsCounted == "queue" \notin troubles => waiting = Cardinality(InQueue)
=============================================================================
