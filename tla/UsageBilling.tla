---------------------------- MODULE UsageBilling ----------------------------
(***************************************************************************)
(* The charge for a finished asynchronous video: every status or content   *)
(* poll that sees the video done tries to bill it.                         *)
(*                                                                         *)
(*   poll -> price snapshot (Redis) -> billing claim (Redis) -> usage      *)
(*   record pool (queue of the process) -> RecordUsage -> Apply, one       *)
(*   PostgreSQL transaction -> usage log                                   *)
(*                                                                         *)
(* The Redis claim saves work; what makes the charge happen once is the    *)
(* key in usage_billing_dedup, which an archive job moves to another table *)
(* while transactions run.  A step of a poll is one Redis command, one     *)
(* statement, or the commit, whose effects become visible together.        *)
(***************************************************************************)
EXTENDS Integers

CONSTANTS
    Polls,       \* requests that poll; each goes on polling for ever
    Tasks,       \* finished videos of one user
    Asks,        \* task -> the polls that ask for it
    Timed,       \* tasks whose status carries the duration
    FullPrice,   \* price with the snapshot of the creation
    BasePrice,   \* price without: the default resolution
    SubLimit,    \* daily limit of the user's subscription
    Policy,      \* overflow policy of the pool: sync, sample or drop
    MaxDay,      \* bound: days that begin
    MaxFaults    \* bound: faults, and quota resets, of one behaviour

ASSUME PriceAssumption ==
    FullPrice \in Nat \ {0} /\ BasePrice \in Nat \ {0} /\ SubLimit \in Nat
ASSUME TaskAssumption == Tasks # {}
ASSUME PolicyAssumption == Policy \in {"sync", "sample", "drop"}
ASSUME BoundAssumption == MaxDay \in Nat /\ MaxFaults \in Nat /\ Timed \subseteq Tasks

VARIABLES
    claim,     \* tasks whose billed claim Redis has
    dedup,     \* usage_billing_dedup: task -> fingerprint, 0 for no row
    archive,   \* usage_billing_dedup_archive
    log,       \* usage_logs: task -> actual_cost, -1 for no row
    balance,   \* users.balance, 0 at the start
    used, win, \* daily_usage_usd and daily_window_start of the subscription
    day,       \* the day it is
    poll,      \* the polls
    reset,     \* a window reset under way: the window start it read, or -1
    paid,      \* history: what the committed transactions took for a task
    covered,   \* history: covered by the subscription since its window began
               \* or an administrator cleared it
    lost,      \* history: tasks whose claim was left without an owner
    faults

money   == <<dedup, archive, balance, used, win, paid, covered>>
other   == <<day, reset>>
vars    == <<claim, money, log, poll, other, lost, faults>>

\* The fingerprint holds the amounts and the task: two polls of a task differ in
\* it exactly if they found different prices.
Prices == {FullPrice, BasePrice}
Days   == 0..MaxDay

Fault   == faults < MaxFaults /\ faults' = faults + 1
NoFault == UNCHANGED faults
At(p, pcs) == poll[p].pc \in pcs
Goes(p, pc) == poll' = [poll EXCEPT ![p].pc = pc]
\* The transaction is over and what it read forgotten.
Ends(p, pc) == poll' = [poll EXCEPT ![p].pc = pc, ![p].seen = 0, ![p].window = 0]

\* Polls inside Apply's transaction that hold the key they inserted, the payer's
\* row and the subscription's row.
HoldsKey  == {"archive", "lock", "commit"}
HoldsRows == {"commit"}

KeyTaken(t) == \E q \in Polls : At(q, HoldsKey) /\ poll[q].task = t
UserLocked  == \E q \in Polls : At(q, HoldsRows)

SubscriptionLocked == \E q \in Polls : At(q, HoldsRows)

Idle == [pc |-> "idle", task |-> CHOOSE t \in Tasks : TRUE,
         price |-> 0, seen |-> 0, window |-> 0]

-----------------------------------------------------------------------------
Init ==
    /\ claim = {}
    /\ dedup = [t \in Tasks |-> 0] /\ archive = [t \in Tasks |-> 0]
    /\ log = [t \in Tasks |-> -1]
    /\ balance = 0 /\ used = 0 /\ win = 0 /\ day = 0
    /\ poll = [p \in Polls |-> Idle]
    /\ reset = -1
    /\ paid = [t \in Tasks |-> 0]
    /\ covered = 0
    /\ lost = {} /\ faults = 0

-----------------------------------------------------------------------------
(* The handler and the pool                                                *)

\* prepareGrokVideoCompletionBilling reads the snapshot before the claim; it is
\* not found when it expired, was lost or cannot be read.  Without it the status
\* must carry the duration.
PriceFound(t, price) == price = FullPrice \/ (price = BasePrice /\ t \in Timed)

\* A poll of p finds no claim and sets it.
ClaimSet(p, t) == p \in Asks[t] /\ At(p, {"idle"}) /\ t \notin claim /\ claim' = claim \cup {t}

\* ClaimGrokVideoBilled, SET NX: a claim that exists, or an error, counts as
\* billed by another poll.  The error may hide a claim that was set.
ClaimUnanswered(p, t) ==
    /\ ClaimSet(p, t) /\ Fault
    /\ lost' = lost \cup {t}
    /\ UNCHANGED <<money, log, poll, other>>

\* submitUsageRecordTask on UsageRecordWorkerPool.Submit.  The pool serves every
\* request of the process, so whether it is full, or stopped, is not this task's
\* doing: the task waits in the queue or runs in the caller, ...
Poll(p, t, price) ==
    /\ ClaimSet(p, t) /\ PriceFound(t, price)
    /\ poll' = [poll EXCEPT ![p] = [Idle EXCEPT !.pc = "insert", !.task = t, !.price = price]]
    /\ UNCHANGED <<money, log, other, lost, faults>>

\* ... or a full pool drops it, with the claim left behind; counted as a fault.
DropTask(p, t) ==
    /\ ClaimSet(p, t) /\ Policy \in {"sample", "drop"}
    /\ Fault /\ lost' = lost \cup {t}
    /\ UNCHANGED <<money, log, poll, other>>

-----------------------------------------------------------------------------
(* Apply                                                                   *)

\* INSERT ... ON CONFLICT DO NOTHING waits for another transaction's insert of
\* the key; then there is a row or there is none.
InsertKey(p) ==
    LET t == poll[p].task IN
    /\ At(p, {"insert"}) /\ ~KeyTaken(t)
    /\ Goes(p, IF dedup[t] = 0 THEN "archive" ELSE "lookup")
    /\ UNCHANGED <<claim, money, log, other, lost, faults>>

\* The row that conflicted is read by another statement and may be archived by
\* now; a different fingerprint is a conflict.
LookupKey(p) ==
    /\ At(p, {"lookup"})
    /\ Goes(p, IF dedup[poll[p].task] = poll[p].price THEN "logOk" ELSE "logFailed")
    /\ UNCHANGED <<claim, money, log, other, lost, faults>>

\* Mutant: the archive is not looked at.
NotArchived(t) == FALSE

Archived(t) == archive[t] # 0

\* A key found in the archive rolls the insert back.
CheckArchive(p) ==
    LET t == poll[p].task IN
    /\ At(p, {"archive"})
    /\ Goes(p, IF ~Archived(t) THEN "lock"
               ELSE IF archive[t] = poll[p].price THEN "logOk" ELSE "logFailed")
    /\ UNCHANGED <<claim, money, log, other, lost, faults>>

\* lockUsageBillingUser waits for the payer's row; then
\* allocateUsageBillingSubscriptions reads the subscription FOR UPDATE and opens
\* a new window in memory if the recorded one has passed.
Allocate(p) ==
    /\ At(p, {"lock"}) /\ ~UserLocked /\ ~SubscriptionLocked
    /\ poll' = [poll EXCEPT ![p].pc = "commit", ![p].window = day,
                            ![p].seen = IF win < day THEN 0 ELSE used]
    /\ UNCHANGED <<claim, money, log, other, lost, faults>>

Smaller(a, b) == IF a <= b THEN a ELSE b

\* What the subscription covers; the balance pays the rest, below zero if need be.
Share(p) == Smaller(poll[p].price, SubLimit - poll[p].seen)

\* The statements of the transaction, visible with its commit.  The usage is
\* written as a value, the balance as a difference.
ChargeEffect(p) ==
    LET t == poll[p].task IN
    /\ dedup'   = [dedup EXCEPT ![t] = poll[p].price]
    /\ used'    = poll[p].seen + Share(p)
    /\ win'     = poll[p].window
    /\ balance' = balance - (poll[p].price - Share(p))
    /\ paid'    = [paid EXCEPT ![t] = @ + poll[p].price]
    /\ covered' = Share(p) + IF poll[p].window = win THEN covered ELSE 0
    /\ UNCHANGED archive

Commit(p) ==
    /\ At(p, {"commit"}) /\ ChargeEffect(p)
    /\ \/ Ends(p, "logOk") /\ NoFault
       \/ Ends(p, "logFailed") /\ Fault    \* the reply is lost
    /\ UNCHANGED <<claim, log, other, lost>>

\* A statement fails and the transaction is rolled back: an error to the caller,
\* or, for a deadlock, another attempt (retryPostgresDeadlock).
Rollback(p) ==
    /\ At(p, HoldsKey \cup {"insert", "lookup"}) /\ Fault
    /\ \/ Ends(p, "logFailed")
       \/ At(p, HoldsKey) /\ Ends(p, "insert")
    /\ UNCHANGED <<claim, money, log, other, lost>>

-----------------------------------------------------------------------------
(* After Apply                                                             *)

FirstLog(t, cost) == log' = [log EXCEPT ![t] = IF @ = -1 THEN cost ELSE @]

\* The usage log is inserted unless the task has one; its error is swallowed.
WriteLog(p) ==
    /\ At(p, {"logOk"})
    /\ \/ FirstLog(poll[p].task, poll[p].price) /\ NoFault
       \/ Fault /\ UNCHANGED log
    /\ poll' = [poll EXCEPT ![p] = Idle]
    /\ UNCHANGED <<claim, money, other, lost>>

\* Mutant: a charge that failed is logged with its cost.
WriteFailedLogWithCost(p) ==
    /\ At(p, {"logFailed"})
    /\ FirstLog(poll[p].task, poll[p].price) /\ NoFault
    /\ Goes(p, "release")
    /\ UNCHANGED <<claim, money, other, lost>>

\* A charge that failed is logged with actual_cost 0.
WriteFailedLog(p) ==
    /\ At(p, {"logFailed"})
    /\ \/ FirstLog(poll[p].task, 0) /\ NoFault
       \/ Fault /\ UNCHANGED log
    /\ Goes(p, "release")
    /\ UNCHANGED <<claim, money, other, lost>>

\* Mutant: the claim stays after an error.
KeepClaim(p) ==
    /\ At(p, {"release"}) /\ poll' = [poll EXCEPT ![p] = Idle]
    /\ UNCHANGED <<claim, money, log, other, lost, faults>>

\* ReleaseGrokVideoBilled deletes the claim, whoever set it.
ReleaseClaim(p) ==
    LET t == poll[p].task IN
    /\ At(p, {"release"}) /\ poll' = [poll EXCEPT ![p] = Idle]
    /\ \/ claim' = claim \ {t} /\ NoFault /\ UNCHANGED lost
       \/ Fault /\ lost' = lost \cup {t} /\ UNCHANGED claim
    /\ UNCHANGED <<money, log, other>>

\* The task's process ends in the middle; an open transaction is rolled back.
PollDies(p) ==
    /\ ~At(p, {"idle"}) /\ Fault
    /\ poll' = [poll EXCEPT ![p] = Idle]
    /\ lost' = lost \cup {poll[p].task}
    /\ UNCHANGED <<claim, money, log, other>>

-----------------------------------------------------------------------------
(* What else touches the tables                                            *)

\* CleanupUsageBillingDedup: one statement, whose deletion an insert of the same
\* key waits for.
ArchiveKey(t) ==
    /\ dedup[t] # 0
    /\ archive' = [archive EXCEPT ![t] = IF @ = 0 THEN dedup[t] ELSE @]
    /\ dedup'   = [dedup EXCEPT ![t] = 0]
    /\ UNCHANGED <<balance, used, win, paid, covered, claim, log, poll, other, lost, faults>>

\* The claim ends by its TTL or with a failover of Redis.
ClaimGone(t) ==
    /\ t \in claim /\ claim' = claim \ {t} /\ lost' = lost \ {t}
    /\ UNCHANGED <<money, log, poll, other, faults>>

NewDay ==
    /\ day < MaxDay /\ day' = day + 1
    /\ UNCHANGED <<claim, money, log, poll, reset, lost, faults>>

\* CheckAndResetWindows reads the subscription ...
ReadWindow ==
    /\ reset = -1 /\ win < day /\ reset' = win
    /\ UNCHANGED <<claim, money, log, poll, day, lost, faults>>

\* Mutant: ... and resets it whatever happened since.
StillWindowAlways == TRUE

StillWindow == win = reset

\* ... and ResetDailyUsage resets it if the window is still the one it read.
ResetDailyUsage ==
    /\ reset # -1 /\ reset' = -1 /\ ~SubscriptionLocked
    /\ IF StillWindow THEN used' = 0 /\ win' = day ELSE UNCHANGED <<used, win>>
    /\ covered' = IF StillWindow /\ win < day THEN 0 ELSE covered
    /\ UNCHANGED <<dedup, archive, balance, paid,
                   claim, log, poll, day, lost, faults>>

\* AdminResetQuota, an UPDATE that waits for the row; counted with the faults.
AdminResetQuota ==
    /\ ~SubscriptionLocked /\ used > 0 /\ Fault
    /\ used' = 0 /\ win' = day
    /\ covered' = 0
    /\ UNCHANGED <<dedup, archive, balance, paid,
                   claim, log, poll, day, reset, lost>>

-----------------------------------------------------------------------------
Step(p) ==
    \/ InsertKey(p) \/ LookupKey(p) \/ CheckArchive(p) \/ Allocate(p)
    \/ Commit(p) \/ WriteLog(p) \/ WriteFailedLog(p) \/ ReleaseClaim(p)

Next ==
    \/ \E p \in Polls, t \in Tasks : DropTask(p, t) \/ ClaimUnanswered(p, t)
                                   \/ \E price \in Prices : Poll(p, t, price)
    \/ \E p \in Polls : Step(p) \/ Rollback(p) \/ PollDies(p)
    \/ \E t \in Tasks : ArchiveKey(t) \/ ClaimGone(t)
    \/ NewDay \/ ReadWindow \/ ResetDailyUsage \/ AdminResetQuota

Spec == Init /\ [][Next]_vars

\* Tasks that run go on, and every video goes on being polled.
FairSpec ==
    /\ Spec
    /\ \A p \in Polls : WF_vars(Step(p))
    /\ \A t \in Timed : SF_vars(\E p \in Polls, price \in Prices : Poll(p, t, price))

-----------------------------------------------------------------------------
(* Properties                                                              *)

\* The recorded fingerprint of a task, 0 if it was not charged.
Recorded(t) == IF dedup[t] # 0 THEN dedup[t] ELSE archive[t]

Pcs == {"idle", "insert", "lookup", "archive", "lock", "commit",
        "logOk", "logFailed", "release"}
Entry == [pc : Pcs, task : Tasks, price : Prices \cup {0}, seen : 0..SubLimit, window : Days]

\* Every variable keeps its type; the usage stays within the limit.
TypeOK ==
    /\ claim \subseteq Tasks /\ lost \subseteq Tasks
    /\ dedup \in [Tasks -> Prices \cup {0}] /\ archive \in [Tasks -> Prices \cup {0}]
    /\ log \in [Tasks -> Prices \cup {0, -1}]
    /\ balance \in Int /\ used \in 0..SubLimit
    /\ win \in Days /\ day \in Days /\ reset \in Days \cup {-1}
    /\ poll \in [Polls -> Entry]
    /\ paid \in [Tasks -> Nat] /\ covered \in Nat
    /\ faults \in 0..MaxFaults

\* A video is charged once, with the amount its record holds, whatever polls,
\* lost replies, lost claims and moves to the archive come between: what the
\* transactions took is what the two tables say.
ChargedOnce == \A t \in Tasks : paid[t] = Recorded(t)

\* The usage of the window is what the subscription covered in it since an
\* administrator cleared it: no charge overwrites a reset and no late reset
\* overwrites a charge.
UsageOfWindow == used = covered

\* A claim without a charge has a poll on the way that charges it or gives the
\* claim back, unless a fault left the claim behind: a dropped task, a process
\* that died, a claim or a release of it whose answer was an error.
ClaimHasOwner ==
    \A t \in claim \ lost :
        \/ Recorded(t) # 0
        \/ \E p \in Polls : poll[p].task = t /\ ~At(p, {"idle"})

\* The books balance: no video is charged twice, or otherwise than its record
\* says, and a claim that keeps others from charging it has a charge or a poll
\* behind it, but for a claim that a fault left behind (`lost`).
BooksBalance == TypeOK /\ ChargedOnce /\ ClaimHasOwner

\* A usage log that shows a cost shows the cost that was charged.
LogIsCharged == \A t \in Tasks : log[t] > 0 => log[t] = Recorded(t)

\* A finished video is charged in the end, unless its claim was left behind.
FinishedIsCharged == \A t \in Timed : <>(Recorded(t) # 0 \/ t \in lost)

=============================================================================
