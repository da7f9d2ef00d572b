# ConcordRoute: specifications

ConcordRoute is a gateway in Go that sells access to model providers: users buy
balance or subscriptions, call the gateway with API keys, the gateway picks an
upstream account, forwards the request, meters it and bills it.  This directory
holds TLA+ models of its backend (`src/backend`), the TLC configurations that
check them, and theorems about them that TLAPS checks.

1. [Inventory](#1-inventory) - the system's parts
2. [Plan](#2-plan) - which parts get a module, and in which order
3. [Modules](#3-modules) - how state and actions correspond to the code
4. [Runs](#4-runs) - what is model-checked, with bounds and fairness
5. [Proofs](#5-proofs) - what is proved, from what, and how
6. [Findings](#6-findings) - where code and documents disagree
7. [Limits](#7-limits) - what is assumed, only model-checked, or left out

Line numbers are those of the files under `src/backend/internal/`.

## 1. Inventory

Everything below runs in any number of identical server processes over one
PostgreSQL database and one Redis.  Two shapes come back everywhere: *claim a
row with a conditional UPDATE, work, write the outcome conditionally*, and *a
Redis key with a TTL as a lock or a counter*.  What is hard is always the time
between the two statements: another process, a crash, an expired TTL.

| Component | State | Operations | Talks to | Hard | What makes it correct |
|---|---|---|---|---|---|
| **Payment order life cycle and fulfilment** (`service/payment_order*.go`, `payment_fulfillment.go`) | `payment_orders` (status, paid_at, updated_at, expires_at), `payment_audit_logs`, the payment at the provider | CreateOrder, webhooks, cancel, expire, verify, three reconcile jobs, retry, fulfilment under a lease | redeem codes, subscriptions, affiliate rebate, provider, refunds | late, repeated and reordered notifications; two workers; a lease that is a timestamp; crashes between statements | the entitlement is given once, only for money collected, and in the end always |
| **Refunds** (`payment_refund.go`) | order status, refund amounts, deducted balance or days | request, plan, execute, gateway refund, finish, roll back | order, balance, subscriptions, provider | the gateway refunds and the process dies; partial refund and deduction | money and entitlement move together; never refunded twice |
| **Idempotency coordinator** (`idempotency.go`, `idempotency_repo.go`) | `idempotency_records` (status, locked_until, expires_at, response) | Execute, clean-up | every write endpoint; system operation lock | a claim that expires; a reclaim on a stale read | one execution at a time; a replay is genuine; back-off |
| **Redeem codes** (`redeem_service.go`) | `redeem_codes`, balance, concurrency, subscriptions | create, redeem under a Redis lock and a row lock | order fulfilment, users | error after commit; the Redis lock lost | a code is used once, with its effect |
| **Subscriptions** (`subscription_service.go`) | chain of `user_subscriptions` per user and group | assign or extend, revoke, restore, adjust days, windows of usage | fulfilment, refunds, billing | two orders of one user at once; a retried order | one chain without gaps or overlap; one source order, one grant |
| **Usage billing** (`usage_billing_repo.go`, `gateway_usage_billing.go`) | `usage_billing_dedup` and its archive, balance, subscription usage, quotas | Apply, reserve, capture, release, archive | gateway, batch image jobs | the same usage delivered twice; archive while applying | each usage charged once, subscription before balance |
| **Batch image jobs and holds** (`batch_image_*.go`) | job status, hold of balance, subscription usage and quota | submit, work, poll, settle, cancel, recover | usage billing, queue, provider | a worker dies at any stage; capture and release race; snapshots older than the hold | a hold is captured or released, never both, never kept; no refund for a batch that runs |
| **Batch image queue** (`batch_image_queue.go`) | ready list, delayed and active sets, in-flight keys, job locks | enqueue, reserve, heartbeat, requeue, acknowledge, recover | jobs and workers | a lost reply or a crash between two commands; a lock that expires | no job is forgotten, multiplied or worked on under another's lock |
| **Concurrency slots** (`concurrency_service.go`, `concurrency_cache.go`) | sorted sets of request ids per account, user, key; waiting counters | acquire, release, wait, lease refresh, sweep of dead processes | gateway | TTL of a slot shorter than its request; sweep beside acquire | never more than the maximum; nothing leaks |
| **Live calls** (`openai_live.go`, `gateway_cache.go`) | record of a call (controller, owner), lease, session at the provider | create, observe, join, hand over, close, log | concurrency slots, provider, usage log | control handed over between processes; a lease refreshed by a connection that breaks | one controller; logged once and in the end; closed only when over |
| **Scheduler snapshot and outbox** (`scheduler_snapshot_service.go`, `scheduler_outbox.go`) | snapshot of accounts per bucket, outbox rows, watermark | publish, poll, rebuild, serve | account changes, gateway | watermark past a row committed late; rebuild beside an event | a change is seen in the end; a snapshot never goes back |
| **OAuth token refresh** (`oauth_refresh_api.go`) | credentials of an account, local and Redis locks | refresh if needed, reload, save | gateway, provider | single-use refresh tokens; the lock expires | one refresh per token; no good token overwritten by an old one |
| **API key cache invalidation** (`auth_cache_invalidation_outbox.go`) | outbox rows, L1 and L2 caches, pub/sub | enqueue in the transaction, claim, deliver, retry | API keys, users, groups | delivered before commit is visible; a refill with an old row | a change of a key is seen in the end by every process; when the outbox is empty nothing old is left but in a memory that missed a message |
| **Leader lock** (`leader_lock.go`) | Redis key with TTL, advisory lock of the database | try, release | every periodic job | TTL under a long job; the fallback of one process beside the cache lock of another | one leader, or jobs that bear two |
| **Usage record worker pool** (`usage_record_worker_pool.go`) | bounded queue, workers, counters, stop flag | submit (drop, sample, inline), scale, stop | usage billing | Stop beside Submit; a full queue | an accepted task runs once; Stop ends |
| **User message queue** (`user_msg_queue_service.go`) | per-account Redis lock with TTL, last completion time | acquire, release, sweep orphans | gateway | expiry under its holder; sweep beside acquire | one sender per account |
| **System operation lock** (`system_operation_lock_service.go`) | an idempotency record kept alive by a heartbeat | acquire, renew, release | idempotency table | a missed heartbeat | one system operation at a time |
| Account scheduling and failover (`gateway_service.go`) | stickiness, health, error counters | select, fail over | slots, snapshots | heuristics | (no protocol beyond slots and snapshots) |
| Protocol adapters (`pkg/apicompat`) | none | translate bodies and streams | gateway | formats | (data) |
| HTTP handlers and routes, operations monitoring, ent, proxy egress, web console, deployment | | | | | see `PROJECT.json`, "components" |

`PROJECT.json` lists each with its status, and under "hazards" each thing in this
code that a test would hardly reach, at its line, with the properties that cover
it or the module that will.

## 2. Plan

Done: `Idempotency`, `PaymentFulfillment` with `OrderPromise`, `PaymentRefund`,
`UsageBilling`, `BatchImageHold`, `BatchImageQueue`, `OAuthRefresh`, `AuthCache`,
`ConcurrencySlots` with `LiveCall` composed on it.  Next, the most important
behaviour first:

| Module | Component | Composes or refines | Runs and bounds | Theorems |
|---|---|---|---|---|
| `SchedulerOutbox` | outbox, snapshot | refines `EventuallyServed` | 3 events, 2 pollers, late commits | the watermark never passes a visible row |
| `Subscriptions` | chain of subscriptions | gives `AssignSubscription` and `UsageBilling`'s one subscription their detail | 3 orders of 1 user, 2 revocations | no overlap, one grant per order |
| `SystemOperationLock` | lock with a heartbeat | over `Idempotency` with ExtendProcessingLock | 3 requests | one holder |
| `LeaderLock`, `UserMsgQueue` | locks with TTL | | 2 processes, two back ends, one outage | one leader per back end |
| `ReconcilePaging` | pages of the reconcile jobs | beside `PaymentFulfillment`, many orders | 4 orders, pages of 2 | no order starves |
| `RefundPromise` | refunds, abstract | refined by `PaymentRefund` under a provider that answers at once | the instance of RefundBalance | the refinement, from the invariants proved already |

Parameters are CONSTANTS with named assumptions, each operation is one action,
each invariant a conjunction of named parts, and no module to be proved about
declares a RECURSIVE operator.

## 3. Modules

### Idempotency

One (scope, key) of `idempotency_records`; rows of different keys never
interact (the table is unique on both).  A request is one call of `Execute`; a
client's retry is another request with its own `time.Now()`.

| Model | Code |
|---|---|
| `row` | the record; `Nil` when there is none. `lockedUntil = 0` is NULL |
| `now[c]` | the `now` captured when Execute began, used by every later statement but MarkFailedRetryable, which reads the clock again |
| `seen[c]` | `existing`, the row read last |
| `recId[c]` | `record.ID`, the only thing the marks name the row by |
| `pc[c]` | the statement about to be issued |
| `CreateProcessing`, `GetExisting`, `GetLatest`, `ReclaimExpired`, `ReclaimFailed`, `RunExecutor`, `MarkSucceeded`, `MarkFailedRetryable` | Execute, `service/idempotency.go:255-437`, one action per statement |
| `CanReclaim`, `Reclaimed`, `MarkedSucceeded`, `MarkedFailed` | the SQL of `repository/idempotency_repo.go` |
| `StoreError` | a statement reports an error, applied or not |
| `Crash` | the process dies and the row stays as it is |
| `DeleteExpired` | IdempotencyCleanupService |
| `Tick`, `Prompt` | the clock; see the assumptions in section 7 |

`Payload` gives each request its fingerprint; `Oversized` are requests whose
response is cut at MaxStoredResponseLen and cannot be decoded on replay.

### PaymentFulfillment

One order.  A *worker* is a goroutine with one job; `pc[w]` is the statement or
provider call it is about to issue, so that two workers interleave between any
two statements, and a crash falls between any two.

| Model | Code |
|---|---|
| `order` | `status`, `paid_at` (set or not), and the age of `updated_at` in three classes: within a minute, beyond `fulfillmentRetryDelay`, beyond `paymentFulfillmentLeaseDuration` |
| `holds[w]` | the lease of w: the row still carries the `updated_at` that w read back. Every write of the row renews `updated_at` and so ends every lease |
| `overdue` | `expires_at <= now` |
| `creating` | CreateOrder: provider called, response saved, or its error path |
| `upstream`, `events` | the payment at the provider; what it has notified, in any order and any number |
| `code` | the redeem code of a balance order |
| `granted`, `rebates`, `notified` | how often the entitlement, the inviter's rebate and the customer's notification happened (ghosts of the other tables) |
| `audits` | actions in `payment_audit_logs` that the code reads back |
| `snap[w]`, `tries[w]`, `job[w]` | `o.Status`, the retry counter, the kind of job |
| `WebhookPaid`, `WebhookProcessing`, `WebhookFailed` | HandlePaymentNotification up to its first write |
| `ToPaid` / `ReloadPaid`, `MarkPaymentProcessing`, `MarkPaymentFailed` / `ReloadFailed` | the conditional updates and their retry loops |
| `ExecuteFulfillment`, `AcquireLease`, `ReadLease` | entry checks, claim, version read back |
| `LookupCode`, `CreateCode`, `Redeem` | doBalance and RedeemService.Redeem |
| `CheckAssigned`, `AssignSubscription`, `AuditAssigned` | doSub and AssignOrExtendSubscription |
| `ApplyAffiliateRebate` | the rebate's transaction; the model's buyer has an inviter |
| `MarkCompleted`, `ReloadCompleted`, `CheckAnnounced`, `Announce`, `MarkFailed` | the outcome, conditional on the lease |
| `CancelOrder`, `ExpireTimedOut`, `VerifyOrder`, `ReconcilePendingWxpay`, `ReconcileProcessing`, `ReconcilePaid`, `RetryFulfillment` | the requests and background jobs that start work |
| `QueryProvider`, `PersistTradeNo`, `NotifyPaid`, `NotifyProcessing`, `CancelPayment`, `FinalizePending` | cancelCore, checkPaid, applyQueriedPaymentStatus, finalizePendingOrder |
| `InvokeProvider`, `PersistCreateResponse`, `CreateFailed` | the part of CreateOrder after its transaction |
| `RefundStep` | what a refund does to the status: any status of its family, or back to COMPLETED. `PaymentRefund` has the steps, and its TypeOK shows that they write nothing else |
| `ProviderMoves`, `BecomeOverdue`, `Age` | provider, customer and clock |
| `Abandon`, `FulfilmentError`, `SilentError` | crash or given-up request; a fulfilment statement that fails; errors the code reads as "not there" |

`Redeem` is one transaction that locks the code row and tests it again, so it is
one action; doBalance's look-up before it is another, and the race between them
is there.  The same holds of AssignOrExtendSubscription, which serialises on the
user's row and looks for the source order under that lock.

### OrderPromise

The abstract specification: money is collected, then the entitlement is given
once, then the rebate paid once, then the order settled for good.
`PaymentFulfillment!KeepsPromise` is that specification under the mapping
`collected <- "paid" \in events`, `given <- granted`, `rebated <- rebates`,
`settled <- COMPLETED or in the hands of a refund`.

### PaymentRefund

The refund of one order that PaymentFulfillment has settled.  A *worker* is a
goroutine running one request: a user's RequestRefund, an administrator's
PrepareRefund and ExecuteRefund (the handler calls one after the other with the
same plan), or QueryAndFinalizeRefund.

| Model | Code |
|---|---|
| `order` | `status` and `refund_amount` |
| `funds` | the user's balance, or the days left of the order's subscription |
| `revoked` | the subscription has been deleted |
| `taken` | what refunds of this order took from `funds`, less what rollbacks returned: a ghost of the user's account |
| `gateway[a]`, `newest`, `held`, `paid` | the provider: its refund of amount *a*, Stripe's newest refund of the payment, the total it has accepted and the total it has paid |
| `unheard` | history: what of `paid` was paid by calls whose answer was lost |
| `marked` | the audit log holds REFUND_ROLLBACK_FAILED, which ExecuteRefund reads back |
| `detail` | the latest REFUND_PENDING row: which refund, and what is to be taken when it succeeds |
| `plan[w]`, `answer[w]` | RefundPlan, with `p.Order.Status` as `from`; the provider's answer |
| `RequestRefund`, `ClaimRequest` | RequestRefund: the checks, and the conditional update |
| `PrepareRefund`, `PrepareDeduction` | PrepareRefund, prepDeduct |
| `ClaimRefund`, `CheckRollback`, `Deduct`, `Take` | ExecuteRefund until the provider is called; DeductBalance, ExtendSubscription by negative days, RevokeSubscription |
| `GatewayRefund`, `ProviderRefund` | gwRefund; what the five providers answer |
| `MarkRefundOk` | markRefundOk |
| `Rollback`, `MarkRollbackFailed` | RollbackRefund |
| `RestoreStatus`, `MarkRefundFailed` | handleGwFail, restoreStatus |
| `MarkRefundPending`, `LogPending` | markRefundPending: status first, audit row after |
| `QueryAndFinalizeRefund`, `ReadDetail`, `QueryRefund`, `FinalizeSuccess`, `FinalizeFailed` | QueryAndFinalizeRefund; the success is one transaction, the failure an update by id |
| `ProviderSettles`, `Spend` | a pending refund succeeds or fails; the user spends, a day passes |
| `Abandon`, `StatementError`, `LostAnswer`, `SilentError` | crash or failed statement; a failure the code answers with another path; a refund made whose answer is lost; errors the code does not notice (`hasAuditLog` reads an error as "no", `writeAuditLog` only logs one) |

`Keyed` divides the providers: Stripe, WeChat and Airwallex take a refund's
number from order and amount (or an idempotency key made of both) and can be
asked for its state; Alipay's number contains the clock and EasyPay's interface
has none, so every call is a refund of its own and QueryAndFinalizeRefund
refuses the order.

### BatchImageHold

One batch image job and the money held for it.  Four kinds of process work on
it: the submission (`sub`), the owner's cancellation (`can`), the recovery of
stale submissions (`rec`) and the queue workers (`wk`); each keeps what it
loaded, and a step is one statement, one billing transaction or one call of
queue or provider.  The runs of RunOnce and the faults it shares with the queue
are in `BatchImage` (`Workers`, `faults`, `Fault`, `NoFault`), which this module
and `BatchImageQueue` extend; so that one module can prove about both, its
specification is `JobInit`, `JobNext`, `JobSpec`, `JobFairSpec`.

| Model | Code |
|---|---|
| `status`, `provider`, `hidden`, `aged`, `retries` | the row of `batch_image_jobs`: status, `provider_job_name` set, `user_deleted_at` set, `updated_at` before the stale cutoff, `retry_count` |
| `claims` | the request ids of reserve, capture and release in `usage_billing_dedup` or its archive |
| `balance`, `frozen`, `subUsed`, `quota` | the user's balance and frozen balance, the subscription's usage, the key's quota |
| snapshots (`held`, `reserved`) | whether the loaded row already recorded the split of the hold, and `allowance_reserved`: the release is computed from it |
| `queued` | the in-flight key and membership of the queue (`BatchImageQueue` has its steps) |
| `upstream` | the provider's batch |
| `CreateJob`, `ReserveHold`, `CreateItems`, `StartUpload`, `ProviderSubmit`, `RecordSubmit`, `AbortProviderJob`, `EnqueueJob`, `ReleaseSubmit`, `MarkSubmitFailed`, `HideJob`, `QueueRelease` | Submit and its error paths, `service/batch_image_public.go:298-595` |
| `LoadCancel` .. `CancelRetry` | Cancel, `:769-832` |
| `ListStale`, `FailStale`, `RecoveryRelease`, `RecoveryRetry` | ReleaseStaleUnsubmittedOnce |
| `Take`, `Load`, `RequeueJob`, `GetProvider`, `Transition`, `Index`, `ReleaseTerminal`, `Capture`, `RecordFailure`, `Exhaust`, `FailExhausted`, `MarkSettled`, `AckJob`, `RunDies` | RunOnce, the pipeline, the processor, Settle and its failure path |
| `CanTransition` | CanTransitionBatchImageJob, re-checked by every transition statement |
| `ReserveEffect`, `CaptureEffect`, `ReleaseEffect`, `Replayed`, `NothingHeld` | the three transactions of `repository/usage_billing_repo.go` and their claims |
| `gaps` | history: which known hole of the code was met (section 6, 11 to 14). A property that excepts one says so |

### BatchImageQueue

The Redis queue: what its scripts and pipelines do is atomic, what happens
between two of them is not.  `active` holds for a job whether its score is
fresh; `lock` the worker whose token it has; `lapsed` that it expired under its
worker.  `Reserve`, `AcquireLock`, `Heartbeat`, `Finish`, `NotYet`, `Requeue`,
`Ack`, `ReleaseLock` are RunOnce and the queue's methods; `MoveDue`,
`RecoverStale`, `GetsStale`, `LockExpires`, `InflightExpires` the sweeps and the
clock.

### UsageBilling

The charge for a finished asynchronous video, chosen because every poll of the
client tries it: claim in Redis, worker pool, Apply, log.  `dedup` and `archive`
hold the fingerprint of a task, which two polls may compute differently
(`Prices`); `InsertKey`, `LookupKey`, `CheckArchive`, `Allocate`, `Commit` are
the statements of `applyOnce`, with the row locks they wait for; `ReadWindow`
and `ResetDailyUsage` the reset of a passed window, in two steps; `ArchiveKey`
the clean-up job; `DropTask` the pool's overflow under the policies that drop.
`paid` and `covered` are histories of what transactions took.

### OAuthRefresh

One Grok account.  Credentials are numbered as the provider issues them; a
refresh token is accepted once (`live`).  A *flow* is a background cycle or a
request that finds the access token due: `Begin` (the process's mutex),
`AcquireLock`, `Reread`, `Refresh`, `Recover`, `Persist`, `Release` are
RefreshIfNeeded; `Quarantine`, `Cooldown` and `ClearCooldown` what its callers
do with the outcome, outside the locks.  `AdminReads`/`AdminEdits` write the
whole row back, `Reauthorize` replaces the credentials, `AdminClears` and
`SetSchedulable` bring the account back.  `trouble` and `lost` are histories: the
lock did not exclude; a refreshed token was lost on its way to the row (a crash,
a failed statement, or an administrator's overwriting).

### AuthCache

One API key; the row is known by its version, the event of a change by the
version it made.  `l1[p]` and `l2` are the memory of server p and the entry in
Redis; `Lookup`, `Copy`, `Load`, `Store`, `Share` a lookup; `Change`,
`WriterDeletes`, `WriterPublishes` a change and the server that invalidates at
once; `Claim`, `DeleteEntry`, `PublishEvent`, `Record`, `Retry` the outbox
worker, whose event passes through stage 0 (first pass), 1 (after the safety
delay) and 2 (deleted); `LeaseEnds` lets another worker take over; `Deliver`,
`LoseMessage` are Pub/Sub.  `missed[p]` is a history variable: the entry in the
memory of server p, or the one it is copying from Redis, outlived a message, which
was lost or arrived while the copy was under way.  It ends with that entry.

### ConcurrencySlots and LiveCall

`ConcurrencySlots` has the slots of an account: the sorted set of requests
(`slots`), that of the leases of calls (`live`), the wait counter (`waiting`), and
the stages of a request's handler.  Scores are not modelled: every script trims
the members that are too old before it counts, so an expired member is one that
left (`SlotExpires`, and `LeaseExpires` in `LiveCall`).  It has no Next of its
own: `LiveCall` extends it and composes requests with Live calls, which take an
ordinary slot, replace it by a lease and count against the same limit.

A *flow* is the goroutine of a call (creation, then its observer) or of a client
that joins (proxy, then the observer it leaves behind); `pc[f]` is the next
command.  `control[c]` and `owner[c]` are the fields of the call's record.
`TakeSlot` .. `SaveCall` are CreateLiveCall; `Observe`, `ReadCall`, `Dial`,
`PollControl`, `Disconnect`, `Resume`, `WatchTimer`, `StopWatching` the observer;
`Join`, `ClaimProxy`, `DialProxy`, `ProxyBreaks`, `ProxyTimer`, `LeaveProxy` the
proxy; `MarkClosed`, `ReleaseLease`, `WriteLog` finalizeLiveCall.  Each command of
Redis has an *Unanswered* companion.  `troubles` is the history of what a
property excepts.

### MC modules

Each component has an MC module that gives the requests, workers, processes and
jobs names, the functions between them values, and the symmetry sets.  Symmetry is used in runs of
invariants and step properties only, and never where requests differ.

Operators preceded by the word *Mutant* are alternatives to the definition after
them, each a plausible bug; they are used by no action.  `PROJECT.json` names
the property that each one breaks.

## 4. Runs

| Run | Instance | What it shows | Distinct states |
|---|---|---|---|
| IdempotencyMixed | 4 requests, one with another payload, one with an oversized response; crashes, errors, clean-up | a replay is a successful execution's own answer; one request executes at a time; the back-off of the last failure is honoured | 7,204,593 |
| IdempotencyRepeat | 3 requests of one payload | is the side effect not repeated while its success is recorded? **Violated**, finding 1 | |
| PaymentBalance | balance order, Stripe, 2 workers, 1 fault, no error in CreateOrder | a recorded payment is not forgotten, one worker at a time, one notification, closed upstream before closed locally, a claimed order can be taken over; the background jobs alone settle every recorded payment, an overdue order leaves PENDING; OrderPromise is implemented | 362,168 |
| PaymentLate | subscription order, WeChat, 2 workers, 1 fault, CreateOrder may fail anywhere | with repeated notifications, money collected at any time is answered by the entitlement; it is given once, for money, with its rebate, even where the status is wrong | 299,870 |
| RefundBalance | balance order, Alipay, 2 requests, 2 faults, forced refunds with and without deduction | one refund at a time, nothing taken twice, nothing kept unmarked, no refund without its deduction, what was paid is what the order shows and what lost answers paid, a result is final | 1,287,371 |
| RefundConcurrent | subscription order, Airwallex, 2 requests, 1 fault, an error the code does not notice | no order is refunded unpaid, none pending whose refund the provider does not know, no query ends one without its audit row | 3,581,615 |
| BatchImageHold | 1 job, submission, cancellation, recovery, 1 worker, 2 faults, every cost and balance | the counters are what the claimed transactions leave; captured or released, as the status says, and never both unless as many faults as attempts hide the capture (finding 25); somebody is on the way to give the money back, no batch runs on after a refund, no money stays frozen, each but for the gaps that findings 12 to 14 describe | 215,628 |
| BatchImageQueue | 2 jobs, 2 workers, 3 faults | no job is forgotten, a fault makes one copy more at most; a lock is its owner's; every job is finished | 303,205 |
| UsageBilling | 2 polls of 2 tasks, one asked for by both, 2 prices, the archive, a new day, 1 fault | no task is charged twice or otherwise than recorded, balance and subscription together; a claim without a charge has a poll behind it and a finished task is charged in the end, unless a fault left the claim behind (`lost`); the window's usage is what was covered in it; a logged cost was charged | 902,808 |
| OAuthRefresh | 2 flows in 2 processes, 2 refresh tokens, 2 tries, an administrator, 2 faults | one refresh at a time and no healthy account taken out of service, unless the lock failed (`trouble`); the row's token is good, or one is on its way, or was `lost`; credentials do not go back; due ones are handled in the end | 537,008 |
| AuthCache | 2 servers, 1 change, 2 faults | once the outbox is empty Redis holds nothing old, and a memory only what outlived a message that was lost, is on its way, or arrived while the entry was copied from Redis; a claim under a running lease is ended by its own worker; the change arrives everywhere | 351,356 |
| LiveCall | 1 request, 1 call, 1 client that joins, 2 processes, 1 slot, 1 fault | requests and calls stay within the limit together, but for leases over slots that were gone (`unbacked`); the queue counter is right unless a fault disturbed it; a call is closed only when over, or when a refresh of its own lease met an error; it keeps one controller, is logged once, and in the end unless a fault left it without a controller; every place comes back | 129,117 |

**Bounds.**  *Idempotency*: the interesting races involve a holder, a reader of an
old row and a third that changes the row between them, all of one payload; the
fourth request brings the other payload.  The clock runs to 4, beyond the TTL of
3, so that a record expires, is claimed or cleaned up, and fails and is retried
several times within one life; the back-off (1) and the lock time-out (2) are
shorter than the TTL so that each can run out first.

*Payment*: two workers suffice for a take-over, which one fault (a worker that
stalls) brings about; with two (the successor fails as well, 655,651 states, under
Stripe) everything was checked once and holds.  `ConfirmAttempts` and `FailAttempts`
are 2 in place of 5 and 3, so that the loop is entered, repeated and exhausted.
The providers differ in the methods that settle later (Stripe), in the jobs that
run (WeChat's own reconciliation) and in what CancelPayment does (`LeftOpen`:
Alipay; EasyPay has none).  The runs use Stripe and WeChat; PaymentLate was
checked once with Alipay (367,560 states) and holds.

*Refunds*: the order gives 2, of which 1 or 2 may be refunded, so that partial,
full and repeated refunds of different amounts occur; the user has 3 (enough),
and a subscription one day, which runs out while the refund goes on.  Two
requests suffice, since the claim admits one and the other is the overtaken
reader; two faults allow a rollback that fails and a request that dies
afterwards.  `MaxGain` bounds how far `taken` may fall below zero: a
subscription that a deduction has ended gets all the days back from today, so a
round of deduction and rollback can give days more than it took.

*BatchImageHold*: the hold of 2 is split into 1 from the subscription and 1 from
the balance, so a cost of 1, 2 or 3 is covered by the one, by both, or exceeds
the hold; a balance of 0 refuses the reservation.  `OtherFrozen` is money frozen
for another job, which a wrong release would take.  The code's limit of failed
settlements is 5 (`batchImageSettlementMaxRetries`); `MaxRetries` is 2, so that
two faults use it up.  One worker, because the job's lock is kept
(`LockKept`, section 7); the other three processes work beside it.

*BatchImageQueue*: a second job is needed to tell "the job I reserved" from "the
head of the list"; three faults let a crash, a lost reply and an expired lock
fall on one job.

*UsageBilling*: the second poll is the second delivery; the second task shows
that the reset of a window neither loses nor doubles the other's usage.  One new
day (with two, 2,777,355 states, the invariants were checked once and hold).
`Policy` is sample, which may run a task, run it in the caller, or drop it, so
it contains the others.

*OAuthRefresh*: two flows are the holder and the one that read before it; the
second issued token is the one a race would burn; two tries exhaust the retry.
*AuthCache*: the two servers are the one that writes and the one that must hear
of it; two changes with one fault (6,199,478 states, the invariants) were checked
once and hold.  *LiveCall*: with one slot, whoever counts wrongly exceeds it.  Larger
instances were checked once, safety only: two joins (1,990,634 states), two
requests and a limit of two (964,778 states); they hold.

The theorems of section 5 do not depend on any of these bounds.

**Deadlock** is checked in BatchImageQueue, AuthCache and LiveCall, whose sweeps
and timers never end.  In the other runs all requests may be done, the clock at
its bound, or the job settled with nothing left to happen.

**Fairness.**  In every module started handlers run on (weak fairness of a
worker's, poll's or flow's step), time passes (expiry of locks, leases and TTLs,
`Age`, `BecomeOverdue`), and what a periodic job or a client does *again and
again* gets strong fairness, because the job comes back at every interval for
ever, and whether a worker of the model happens to be idle at that moment says
nothing of the code, which starts a goroutine for each.  Faults are finite
(`MaxFaults`): endless faults would defeat any retry.  Nothing is assumed of
users, of administrators, or of the provider, which need never move, except:

- *Payment*: `WebhookSpec` adds that the provider repeats a notification until it
  is acknowledged, which the four providers document and on which
  HandlePaymentNotification relies when it reports an error.
  `OverdueOrderLeaves` excepts a payment of the wrong amount, which the code
  refuses and leaves to a person.
- *BatchImageHold*: the provider ends a batch (`ProviderEnds`); otherwise the
  pipeline polls for ever, as the code does.
- *BatchImageQueue*: a job's processing ends (SF of `Finish`): what Process does
  is BatchImageHold, whose run shows that it ends.
- *UsageBilling*: the client of a `Timed` task comes back until it is answered
  (SF of its polls); a video nobody asks for again is not billed by the code.
- *OAuthRefresh*: the background cycle comes back (SF of `Begin`).
- *AuthCache*: the worker's loop finds a due event again and again (SF of `Claim`,
  `BecomeDue`).
- *LiveCall*: a flow whose command may be tried again is attended to (SF of
  `Attends`); a session ends at the time the provider gave it (`TimePasses`).

## 5. Proofs

Eight modules prove, for every value of the constants that satisfies the named
assumptions:

| Theorem | Property | |
|---|---|---|
| Idempotency_proofs!TypeCorrect | | types |
| Idempotency_proofs!Exclusive | ClaimsExclusive | one execution at a time |
| Idempotency_proofs!GenuineReplay | ReplayIsGenuine | |
| Idempotency_proofs!Backoff | BackoffHonoured | an action property |
| PaymentFulfillment_proofs!GrantSound | GrantIsSound | from GrantOnce, GrantPaid, Delivered, RebateOnce; with errors of CreateOrder too |
| PaymentFulfillment_proofs!PaymentKept | OrderKeepsPayment | from NotForgotten and OneAtATime; assuming CreateOrder meets no error |
| PaymentFulfillment_proofs!ClosedFirst | ClosedBeforeTerminal | with errors of CreateOrder too |
| PaymentFulfillment_proofs!Recoverability | RechargingIsRecoverable | assuming CreateOrder meets no error (finding 9 otherwise) |
| PaymentFulfillment_proofs!ToldOnce | NotifiedAtMostOnce | assuming CreateOrder meets no error; any number of faults |
| PaymentFulfillment_proofs!Refinement | KeepsPromise | assuming CreateOrder meets no error |
| PaymentRefund_proofs!NoRefundUnpaid | PaidBeforeFinished | every provider, unnoticed errors too |
| PaymentRefund_proofs!PendingRefundExists | PendingIsReal | the providers that can be asked (`Keyed`); the audit row at Airwallex, from UnloggedIsNotEnded; unnoticed errors too |
| PaymentRefund_proofs!AccountRight | AccountIsRight | Alipay and EasyPay, no unnoticed errors; from OneRefundAtATime, NeverTakenTwice, GivenBackOrMarked |
| PaymentRefund_proofs!RefundIsFinal, RefundIsPaid | RefundedIsFinal, RefundedIsPaid | Alipay and EasyPay; paid is what is shown and what lost answers paid (`unheard`) |
| PaymentRefund_proofs!RefundIsTaken | RefundTakesBack | an order of balance at Alipay or EasyPay, unnoticed errors too |
| BatchImage_proofs!JobsCounted | JobsAccountedFor | any workers, jobs, faults |
| BatchImage_proofs!OwnLock | LockIsOwn | |
| BatchImage_proofs!MoneyAccounted | MoneyIsAccountedFor | assuming the job's lock is kept; any amounts, attempts, workers, faults; excepts gaps early and unowned, and as many faults as attempts |
| BatchImage_proofs!NoBatchAfterRefund | RefundStopsProvider | assuming the job's lock is kept; excepts gap orphan |
| UsageBilling_proofs!Balanced | BooksBalance | any polls, tasks, days, faults; a claim a fault left behind (`lost`) has nobody behind it |
| UsageBilling_proofs!UsageCounted, LogsCharged | UsageOfWindow, LogIsCharged | |
| OAuthRefresh_proofs!TokenSafe | TokenIsSafe | one refresher at a time unless the lock failed, no token lost by a race; any flows, processes, edits, faults |
| OAuthRefresh_proofs!Justified, MovesForward | QuarantineJustified, RefreshMovesForward | the second an action property |
| AuthCache_proofs!OnlyMissedIsOld | OnlyMissedRemains | from RedisIsFresh and MemoryIsFresh; any servers, changes, faults; a memory that missed a message, or is to get one, is excepted |
| AuthCache_proofs!OnlyOwnersEnd | ClaimsRespected | an action property |
| LiveCall_proofs!AddsUp | CallsAddUp | from LimitHolds (but for `unbacked`), QueueCounted (but for trouble "queue"), LoggedAtMostOnce |
| LiveCall_proofs!ClosesEndedCalls, ProxyKeepsControl | ClosedAfterEnd, ControlIsKept | action properties; the first excepts a call whose own refresh met an error |

**Idempotency.**  ClaimsExclusive is not inductive: a second request could
reclaim the row if nothing said that the row of a running request is locked.
`HeldInv` says that it is, and until when; `RaceInv` that a request now about to
reclaim began before that lock runs out - true because a request claims within
`StoreLatency` of its `now`, shorter than the lock; `TimeInv` that a running
request is younger than its record, so the clean-up leaves it; `IdInv` that ids
are never used twice, so a stale `seen` cannot name another record.
ReplayIsGenuine rests on `BodyInv` and `RanInv`: a stored body belongs to a
successful execution of the row's payload, and a fingerprint never changes under
an id.  Backoff follows from `IInv` step by step: a claim of a failed row tests
`locked_until` against a `now` that is not after the clock.

**PaymentFulfillment.**  `PaidInv` says that as long as the provider has not
collected, nothing in the row or in any worker's stage says that it has.
`GrantInv` ties the evidence to the fact: the used code, the audit rows and the
stage of each worker imply `granted = 1`, and the stages behind the rebate imply
`rebates = 1`; that is what makes a take-over harmless, and why it does not need
the lease.  `SnapInv` says that a worker about to overwrite an expected status
expects an unpaid one, hence no unpaid status covers a payment.  `LeaseInv` is
the exclusion of two workers, which holds until the first fault and needs
`CreateInv`: no unconditional FAILED.  The refinement maps every step to a step
of OrderPromise or to a stutter; `RefundStep` and the writes under the lease keep
Settled.

`ClosedInv` carries the provider's answer to the statement that closes the order:
a worker in one of the closing stages has seen the payment canceled or failed at
Stripe or WeChat, and neither is undone.  `DatedInv` says that whatever may be
fulfilled has `paid_at`; toPaid reaches a fulfilment without writing it only from
CreateOrder's unconditional FAILED, so without that error the administrator's
retry always accepts the order.  `NoticeInv` makes the notice single although the
lease does not: COMPLETED is written conditionally, so one worker at most leaves
that statement for the announcement, and the order is then settled for good.

**PaymentRefund.**  `PaidInv` says that the provider has paid whenever a worker
is about to write a success, whenever a refund of the provider is in state
success, and whenever the order is finished; payments are never undone, so the
rest is a case split.  `AskedInv` does the same for refunds accepted: a worker
on its way to REFUND_PENDING has the provider's answer, hence `gateway` knows
its amount.  Neither uses exclusion, which is why both hold for every provider.

Without queries (Alipay, EasyPay) the conditional claim excludes: `ExclInv` says
that a worker between claim and outcome sees the order REFUNDING, and that there
is one such worker at most, so nobody can claim beside it and every unconditional
write under the claim finds REFUNDING, not a result.  `AccountInv` gives, for
each stage of that worker, what `taken` may be: at most zero before the
deduction and after a rollback, at most `take` between them, at most Amount
always, and at most zero in any status outside the refund unless
REFUND_ROLLBACK_FAILED is written - which is what lets CheckRollback skip the
second deduction.  `SettledInv` adds the amount paid: but for a success that is
about to be recorded, or whose worker died with the order REFUNDING, and a finished
order, the provider has paid exactly what calls with a lost answer paid (`unheard`).  `LoggedInv` gives the audit row at Airwallex: the number a query
asks for is read from it, and it is never deleted.  `TakenInv` says of an
order of balance that a worker between deduction and outcome has taken at least
what its plan says: the deduction writes into the plan what the balance had, and
nobody else's deduction or rollback falls between.  For a subscription it fails as
stated, because the plan may name more days than are left and `revoked` takes
their place.  With providers that settle
later the same invariants fail, as findings 3 to 6 show, so those theorems
assume `~Keyed`.

**BatchImageQueue** (in `BatchImage_proofs`).  JobsAccountedFor bounds the copies
of a job in the list by the faults so far; alone it is not inductive, because a copy may be elsewhere
when it is counted.  `Burden(j)` counts it wherever it is: in the list, in the
delayed set, and reserved - once in the active set and once with the worker that
has it, which are the same copy until one of them puts it back, hence the
*larger* of the two.  `Threat(j)` adds what may come without another fault: a
stale job that its worker still has, and a job whose in-flight key is gone, which
may be queued again.  `LoadBounded` says Burden + Threat <= 1 + faults; every step
keeps it, and only a fault raises it.  That a job is never forgotten, LockIsOwn
(a worker that has the token has the lock, unless it expired) and "who
acknowledges has finished" complete the invariant.  Counting the copies in a list needs
lemmas on what Append and Tail do to the positions of a job.

**BatchImageHold.**  The four processes share one row and three claims, and none
of them holds a lock against the others, so the invariant says of each stage what
every other process may have done by then.  `SubmitInv` ties the status to how far
Submit is: whoever is past the reservation has a hold, whoever is in front of it
has none, and a job the provider has is one Submit has left.  `ClaimInv` says when
the claims may appear: a release only of a job that is over, that Submit gives up,
or whose attempts are used up; a capture only while settling.  `SnapInv` is what
makes a release from an old snapshot harmless unless gap *early* is recorded: a
snapshot that saw the hold saw the allowance, unless the hold was resolved since.
`OneRun` is the job's lock (`LockKept`), and `Run(w)` what it buys: nothing but
its own run moves a settling job.  `CountInv` makes the exception of
CapturedOrReleased as narrow as it is: an attempt of a job within its hold is lost
by a fault and not otherwise, as the other jobs' frozen money is still there
(`FundsAddUp`).  HoldHasOwner is not inductive: a job may be over *before* its
reservation arrives.  `OwnerInv` therefore speaks of money held or about to be
(`Owed`), and of those who will release rather than those who might
(`Returning`).  `ProviderInv` says that a batch runs only while someone can reach
it and that an ended one does not run again.

**UsageBilling.**  `KeyInv` follows a key from the transaction that inserted it:
until it commits no other has inserted it and there is no row (`KeyIsFree`); the
key was looked for in the archive (`NotInArchive`), so it never is in both tables
(`OneRow`); what a task paid is what the one or the other records (`ChargedOnce`),
and so does who is about to log a cost find it (`LogsRecorded`).  `WindowInv` says that the poll that
holds the subscription's row has read its present usage and window (`RowsHeld`),
so that its absolute writes lose nothing, and that a reset under way acts on a
window that has passed (`PassedWindow`): the reset's own condition makes a late
one harmless.  The window theorem is about the sums, not about one step: usage is
what was covered since the last reset, whatever order charges and resets take.

**OAuthRefresh.**  `LockHeld` gives one refresher at a time, but only while the lock
excludes; what holds without it is about the credentials.  `Fetched` says that what
a flow brings back is newer than the token it gave for it, that this token is used
up, and that nobody else, row and pending edit included, knows the new one yet: so
the conditional update, when it applies, replaces a used token with a good one, which
is MovesForward and, with the flow as the witness until it has written, TokenNotLost.
An account is put into error by a flow that found a token rejected, moments before.
`AccusedIsDead` follows the token through those moments: rejected once, never
accepted again.  That the row's token is rejected is not enough to keep it so, because another
flow may be about to replace it: `AccusedIsLost` and `ErrorIsLost` say that while the
lock excludes there is none, and `EditIsOld` says both of the row an administrator
has read and will write back.

**AuthCache.**  `Passes` says what each pass of a change's event leaves behind:
from when the second pass may run, no lookup under way has read anything older than
the change, as the safety delay is longer than a lookup; once it has deleted, Redis
holds nothing older; once it has published, no memory has anything older, loaded or
copied or about to be stored, unless a message about it is on its way or was missed.  `Future` says
that nothing has begun about a change that has not been made, and `Bounded` that
nothing is newer than the row.  An empty outbox means that every change has had its
second pass, hence OnlyMissedIsOld.

**LiveCall.**  `SlotInv` is the limit and the queue counter; that a lease never
raises the number needs `Backed`: a creator about to ask for it holds the slot it
replaces, or has lost it and counts as `unbacked`.
`CallInv` follows the record: `Early`, there is none, and no log, before the creator
has tried to save it; `Late`, nobody works on it before that; `Closers`, whoever is
between closing it and logging is alone, because closing is one conditional write;
`EndSeen`, whoever is about to close has seen the end.  The log is written by a closer, hence once; the two
action properties follow step by step.

Each inductive invariant was checked by TLC as an invariant of the runs'
configurations before it was proved.

## 6. Findings

Line numbers are those of the files under `src/backend/internal/`.  Finding 1 is
kept as a run.  The others are reproduced by changing one configuration or one
definition as stated.

1. **A recorded success is executed again** (`service/idempotency.go:292`,
   IdempotencyRepeat).  A request reads a SUCCEEDED record that has expired; a
   second one of the same key reclaims it, executes and records SUCCEEDED; the
   first one's TryReclaim still matches (same id, same status, `locked_until`
   NULL) and the side effect runs twice.  `expires_at` is not in the statement.

Payments and refunds:

2. **COMPLETED is overwritten by FAILED** (`service/payment_order.go:122`):
   CompletedIsStable, PaymentBalance with `CreateErrors = TRUE`, `MaxFaults = 0`.  CreateOrder's error path updates by id
   alone; the document on payments says every transition is conditional on the
   old status.
3. **A finished refund is overwritten by REFUND_FAILED**
   (`service/payment_refund.go:561`): RefundedIsFinal, RefundBalance with
   `Provider = "stripe"`, `Forces = {TRUE, FALSE}`, `MaxFaults = 0`.
   finalizeRefundFailed updates by id.  A query that saw the first refund fail
   writes after a second request has refunded the order.
4. **A pending refund is lost from sight** (`service/payment_refund.go:730`):
   PendingStaysQueryable, the configuration of 3 with one worker.  ExecuteRefund
   accepts a REFUND_PENDING order; if the provider refuses, restoreStatus writes
   COMPLETED, and no query accepts the order although its first refund is still
   on the way.
5. **A refund finishes without its deduction** (`service/payment_refund.go:664`):
   RefundTakesBack, the configuration of 3 with `Deductions = {TRUE}` and
   `Forces = {FALSE}`.  The status REFUND_PENDING is committed before the audit
   row that holds the deduction; a query in between plans none.
6. **A deduction is made twice** (`service/payment_refund.go:537`):
   TakenAtMostOnce, the configuration of 4 with `MaxFaults = 2` (with 1 it holds).
   A second attempt on a pending refund deducts, cannot roll back and dies before
   it logs; the query then follows the older audit row and deducts again, without
   looking for REFUND_ROLLBACK_FAILED.
7. **The provider pays twice what the order shows**
   (`payment/provider/alipay.go:336`): RefundAmountIsPaid, RefundBalance.
   RefundedIsPaid, which holds, says how much: what the calls whose answer was
   lost paid (`unheard`).  The number of an Alipay refund contains the clock; a partial refund whose answer
   is lost is paid again by the next attempt.
8. **A refund stays REFUNDING** (`service/payment_refund.go:299`): RefundingEnds,
   the configuration of 4 with a fault, under FairSpec without symmetry.  The claim
   has no lease; after a crash no request accepts the order, even though FairSpec
   grants that administrators try for ever.
9. **A stranded RECHARGING** (`service/payment_fulfillment.go:316`):
   RechargingIsRecoverable, PaymentBalance with `CreateErrors = TRUE`.  toPaid
   sends a FAILED order to the fulfilment without writing `paid_at`; if that
   worker is lost, neither the administrator's retry nor the reconcile job
   accepts the order.  A repeated notification would still take it up.
10. **The entitlement is given without the lease**
   (`service/payment_fulfillment.go:461`): GrantOnlyUnderLease, PaymentBalance.
   A worker that stalled beyond its lease goes on to redeem while its successor
   holds it.  The redeem code and the source order keep the grant single.

Batch image jobs (BatchImageHold; each *gap* is met where the history variable
`gaps` gains it, and the property fails if its exception for it is dropped):

11. **A cancellation with an old snapshot returns other money**
   (`repository/usage_billing_repo.go:1416`; with gap *early*).  Cancel releases
   from the row it loaded.  If that was before the hold's split was recorded, the
   whole hold is returned as balance and none as subscription usage.
12. **A cancellation before the reservation freezes the hold**
   (`service/batch_image_billing_hold.go:152`; gap *early*, HoldResolves,
   FundsAddUp).  Between CreateJob and Reserve there is nothing to release, but
   the request id of the release is claimed; the reservation that follows can
   then never be released.
13. **A refunded batch goes on** (`service/batch_image_public.go:817`; gap
   *orphan*, RefundStopsProvider).  Cancel that loaded the job before
   `provider_job_name` was written does not cancel at the provider; the batch
   runs, and its cost is nobody's.
14. **A hold nobody releases** (gap *unowned*, HoldHasOwner, HoldResolves).  The
   status is written, then the hold released, then a retry queued; a process that
   dies between, or whose reply is lost, leaves an ended job with frozen money,
   and the recovery looks at unsubmitted jobs only.
15. **Captured and released** (CapturedOrReleased, `LockKept = FALSE` with two
   workers).  The two request ids are claimed independently; what keeps them
   apart is the job's lock and the status.  Even with the lock they meet in
finding 25.

Usage billing, OAuth, caches, live calls (read off the modules, each by dropping
the exception named):

16. **A log without its cost** (`service/gateway_usage_billing.go:465`).  A failed
   Apply writes the usage log with an actual cost of 0; when a later poll
   succeeds, its log has the same request id and ON CONFLICT drops it.  The
   comment there expects the later log to count.  That is why LogIsCharged states
   one direction only.
17. **An administrator's edit undoes a refresh** (OAuthRefresh, drop `lost`).  The
   edit writes the whole row back, old credentials included;
   `docs/interfaces/grok_upstream.md:40` says a refresh must not be overwritten.
18. **A healthy account is put into error** (OAuthRefresh, drop `~trouble` from
   QuarantineJustified).  When Redis does not answer, the code goes on without
   the lock; two processes then use one refresh token, and the loser's
   `invalid_grant` is taken at its word.  SetError also clears `schedulable`,
   which ClearAccountError does not set again.
19. **ReleaseRefreshLock deletes without a token**: a holder whose lock expired
   deletes its successor's.  The other platforms persist without the condition on
   the old token that Grok's statements have.
20. **An old entry comes back into a memory** (AuthCache with `MaxFaults = 0`, drop
   `missed[p] \/` from L1Fresh).  A server reads Redis's old entry before the second
   deletion and stores it after the message; it stays for the memory's TTL (15 s),
   as it does after a reconnection of Pub/Sub.  The triggers have none for INSERT,
   so "no such key" lives as long.
21. **A Redis error counts as a lost lease** (`service/openai_live.go:907`;
   ClosedAfterEnd, drop `c \notin troubles`).  A call that goes on at the
   provider is closed, its place given away, its later usage not logged.
22. **A call is never logged** (CallIsLogged, drop `"orphan" \in troubles`).  A
   claim whose reply is lost, a failed MarkLiveCallClosed, or the death of the
   process leaves a record that no flow finalizes; nothing sweeps such records.
23. **Places are freed under their holders** (`repository/concurrency_cache.go:628`
   and `:1146`).  A slot's TTL ends under a long request; the sweep of a starting
   process removes the slots of every prefix but its own, live ones included.
   `unbacked` and SlotExpires have both; a lease taken over such a place may
   exceed the limit, which LimitKept excepts.
24. **A failed counter hides** (`service/concurrency_service.go:523`): a failed
   IncrementAccountWaitCount is answered with "may wait", and the decrement that
   follows counts one too few (exception "queue" of QueueIsCounted).
25. **Charged, then refunded** (`service/batch_image_settlement.go:230`;
   CapturedOrReleased, BatchImageHold without `faults < MaxRetries =>`).  A capture
   commits and its reply is lost; the attempts that follow are lost as well, and the
   last one makes failExhaustedSettlement release the hold.  The release
   (`repository/usage_billing_repo.go:1417`) asks whether there was a hold, never
   whether it was captured: the user is charged and gets the whole hold back, out
   of what other jobs have frozen, and the job is FAILED.  The attempt to prove
   CapturedOrReleased without the exception found it; a run with fewer faults than
   `MaxRetries` cannot.  Attempts that fail before the capture for another reason
   (an old job without a price) count as well, and need no further fault.

## 7. Limits

**Assumed.**
- `LatencyAssumption`: a statement of Execute arrives within `StoreLatency` of
  `now := time.Now()`, less than ProcessingTimeout and TTL (the code's defaults
  are tens of seconds and a day; the request's context ends well before).
- `Prompt`: the executor of a write endpoint ends before the record it claimed
  expires.  Nothing in the code enforces it; the marks would otherwise name a
  record that is no longer the request's own.
- One clock: servers and database agree on the time.
- Two writes of one order never share a microsecond of `updated_at`.
- `Age` beyond the lease under a running worker is counted as a fault: a
  fulfilment normally takes far less than the lease.
- Repetitions of a refund at Stripe come before its idempotency keys expire.
- `LockKept`: the worker of a batch image job keeps the queue's lock, which its
  heartbeat renews, to the end.  `BatchImageQueue` says what happens when it does
  not (`LockExpires`), finding 15 what that does to the hold.  It is the hypothesis
  of MoneyAccounted and NoBatchAfterRefund.
- A lookup of an API key ends within the safety delay of the outbox, and a worker
  that outlives its lease is counted as a fault.
- An OAuth lock that expires under its holder is counted as a fault; the holder's
  refresh normally takes a fraction of the lock's TTL.
- `WorkerAssumption`, `JobAssumption`, `TaskAssumption`, `FlowAssumption`: finitely
  many workers; workers and flows are not named like the marks of a free lock; at
  least one job, one task.
- What a property excepts is a variable of its own (`gaps`, `trouble`, `lost`,
  `missed`, `troubles`, `unbacked`, `unheard`), set by the action that meets it, so
  the exception does not spread to runs that did not meet it.  Three are narrower
  still: `missed` ends with the entry it is about, `unbacked` and the refresh errors
  in `troubles` name the call, and `lost` of UsageBilling the task.

**Only model-checked.**  Liveness, which is out of the prover's reach:
PaidOrderSettles, LatePaymentSettles, OverdueOrderLeaves, HoldResolves,
JobFinishes, FinishedIsCharged, DueIsHandled, ChangeArrives, CallIsLogged,
PlacesComeBack.  RefundTakesBack for subscriptions, and of the refunds at
providers that answer later everything but PaidBeforeFinished and PendingIsReal.
NotifiedAtMostOnce and RechargingIsRecoverable where CreateOrder meets errors are
neither: findings 2 and 9.  What happens to the hold of a job whose lock expired
(`LockKept = FALSE`) is not claimed by any property.

**Not modelled in these components.**  *Payment*: amounts, but for right and
wrong; currencies; limits of pending orders and of the day; pages of the
reconcile jobs; the Airwallex provider, which answers like one of the four; the
trade number saved by a query that reports a wrong amount (it only renews
`updated_at`); the wording of audit rows; several orders of one user;
ExtendProcessingLock, which belongs to the system operation lock.  *Refund*:
orders without a trade number, whose refund skips the provider; the permissions
of a refund by instance and user; the balance counters beside the balance (a
rollback through UpdateBalance also raises `total_recharged`); two adjustments of
one subscription that lose one of them; an administrator's RestoreSubscription of
a revoked one.  *Batch image*: items and files, downloads, deletion, limits of
jobs per user.  *Usage billing*: chains of several subscriptions, weekly and
monthly windows, quotas of keys and accounts, prices.  *OAuth*: platforms other
than Grok, whose flow is the same without the conditional statements.  *AuthCache*:
events of users and groups, which fan out to keys by the same steps; jitter.
*Slots and calls*: the slots of users and keys, which are the same scripts on other
keys; load tracking; audio and event streams; the index of active accounts, whose
refresh reads, then removes; two observers that attach to one call during a slow
dial; SaveLiveCall's fields of team and actor.

**Not modelled components** are in `PROJECT.json` with the reason: those planned in
section 2, and those that transform data, display it, or are generated.
