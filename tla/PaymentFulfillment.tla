------------------------- MODULE PaymentFulfillment -------------------------
(***************************************************************************)
(* The life of one payment order: its creation, the provider that collects *)
(* the money, the handlers and background jobs that move its status        *)
(* (payment_fulfillment.go, payment_order_lifecycle.go,                    *)
(* payment_order_expiry_service.go) and the entitlement it buys            *)
(* (redeem_service.go, subscription_service.go).                           *)
(*                                                                         *)
(* A worker is a goroutine running one job: a webhook, a user's or an      *)
(* administrator's request, or a background job.  Every statement on the   *)
(* database and every call of the provider is a step of its own.           *)
(*                                                                         *)
(* Every write of the order row renews updated_at, and a fulfilment lease  *)
(* is the updated_at read back after the claim.  Only equality of the two  *)
(* is ever tested, so holds[w] keeps that: TRUE while no write has come    *)
(* since w read its lease (two writes never share a microsecond).          *)
(***************************************************************************)
EXTENDS Naturals

CONSTANTS
  Workers,          \* goroutines that may work on the order at once
  OrderType,        \* "balance" or "subscription"
  Provider,         \* "stripe", "wxpay", "alipay", "easypay"
  ConfirmAttempts,  \* attempts of toPaid: 5 in the code
  FailAttempts,     \* attempts of markPaymentFailed: 3 in the code
  CreateErrors,     \* TRUE: invokeProvider may report an error
  MaxFaults,        \* bound of crashes, failed statements and stalls
  Nil

ASSUME ConstantsAssumption ==
  /\ OrderType \in {"balance", "subscription"}
  /\ Provider \in {"stripe", "wxpay", "alipay", "easypay"}
  /\ ConfirmAttempts \in Nat \ {0}
  /\ FailAttempts \in Nat \ {0}
  /\ CreateErrors \in BOOLEAN
  /\ MaxFaults \in Nat

VARIABLES
  order,     \* the row: [status, paidAt, age]; age of updated_at, see Ages
  overdue,   \* expires_at <= now
  creating,  \* how far CreateOrder is
  upstream,  \* the payment at the provider
  events,    \* what the provider has notified, in any order and any number
  code,      \* the redeem code named by recharge_code
  granted,   \* how often the entitlement was given
  audits,    \* actions in payment_audit_logs
  rebates,   \* how often the inviter was paid the rebate
  notified,  \* how often the customer was told of the fulfilment
  pc,        \* pc[w]: the statement w is about to issue
  job,       \* job[w]: what w is working on
  snap,      \* snap[w]: o.Status, the status w read last
  tries,     \* tries[w]: attempts of the current retry loop
  holds,     \* holds[w]: the row still has the updated_at of w's lease
  faults     \* faults so far

rowVars    == <<order, holds>>
grantVars  == <<code, granted, audits, rebates, notified>>
remoteVars == <<upstream, events>>
vars == <<order, overdue, creating, upstream, events, code, granted, audits,
          rebates, notified, pc, job, snap, tries, holds, faults>>

----------------------------------------------------------------------------
(* Statuses, jobs and stages.                                              *)

Unpaid      == {"PENDING", "PROCESSING", "EXPIRED", "CANCELLED"}
Fulfillable == {"PAID", "FAILED", "RECHARGING"}
Refund      == {"REFUNDING", "REFUNDED"}  \* psIsRefundStatus, see PaymentRefund
Statuses    == Unpaid \cup Fulfillable \cup {"COMPLETED"} \cup Refund

\* 0: updated within a minute; 1: longer than fulfillmentRetryDelay ago;
\* 2: longer than paymentFulfillmentLeaseDuration ago.
Ages == 0..2

Orders == [status : Statuses, paidAt : BOOLEAN, age : Ages]

\* Jobs that ask the provider; the others are told apart by their stage.
Jobs == {"verify", "cancel", "expire", "reconcile"}

\* The worker has claimed the order and not yet written the outcome.
Leased == {"lookup", "createCode", "redeem", "checkAssigned", "assign",
           "auditAssigned", "rebate", "complete", "completeMiss"}

Stages == Leased \cup
          {"idle", "query", "close", "requery", "finalize", "persistTradeNo",
           "notifyPaid", "notifyProcessing", "processing", "confirm",
           "reloadPaid", "failPayment", "reloadFailed", "fulfil", "acquire",
           "lease", "announce", "writeAudit", "markFailed"}

Init ==
  /\ order = [status |-> "PENDING", paidAt |-> FALSE, age |-> 0]
  /\ overdue = FALSE
  /\ creating = "invoke"
  /\ upstream = "none"
  /\ events = {}
  /\ code = "absent"
  /\ granted = 0
  /\ audits = {}
  /\ rebates = 0
  /\ notified = 0
  /\ pc = [w \in Workers |-> "idle"]
  /\ job = [w \in Workers |-> Nil]
  /\ snap = [w \in Workers |-> Nil]
  /\ tries = [w \in Workers |-> 0]
  /\ holds = [w \in Workers |-> FALSE]
  /\ faults = 0

----------------------------------------------------------------------------
(* Writes of the row.  Each renews updated_at, so no lease survives one.   *)

Save(row) ==
  /\ order' = [row EXCEPT !.age = 0]
  /\ holds' = [w \in Workers |-> FALSE]

SaveStatus(s) == Save([order EXCEPT !.status = s])

\* Mutant: paid_at is not written.
SavePaidUndated == SaveStatus("PAID")

SavePaid == Save([order EXCEPT !.status = "PAID", !.paidAt = TRUE])

Goto(w, l) == pc' = [pc EXCEPT ![w] = l]

\* The locals of w are not used again before they are set anew.
Forget(w) ==
  /\ job' = [job EXCEPT ![w] = Nil]
  /\ snap' = [snap EXCEPT ![w] = Nil]
  /\ tries' = [tries EXCEPT ![w] = 0]

\* The job of w is over.
Done(w) == Goto(w, "idle") /\ Forget(w)

Keep == UNCHANGED <<job, snap, tries>>

Begin(w, j, l) ==
  /\ pc[w] = "idle"
  /\ Goto(w, l)
  /\ job' = [job EXCEPT ![w] = j]
  /\ snap' = [snap EXCEPT ![w] = order.status]
  /\ tries' = [tries EXCEPT ![w] = 0]

----------------------------------------------------------------------------
(* CreateOrder: the row exists, the provider is called, its answer saved.  *)

\* An error may be reported although the provider has created the payment.
InvokeProvider ==
  /\ creating = "invoke"
  /\ \/ upstream' = "open" /\ creating' = "persist"
     \/ CreateErrors /\ upstream' \in {"none", "open"} /\ creating' = "failed"
  /\ UNCHANGED <<rowVars, overdue, events, grantVars, pc, job, snap, tries, faults>>

PersistCreateResponse ==
  /\ creating = "persist"
  /\ \/ Save(order) /\ creating' = "done"
     \/ CreateErrors /\ creating' = "failed" /\ UNCHANGED rowVars
  /\ UNCHANGED <<overdue, remoteVars, grantVars, pc, job, snap, tries, faults>>

\* The error path writes FAILED whatever the status is by now.
CreateFailed ==
  /\ creating = "failed"
  /\ SaveStatus("FAILED")
  /\ creating' = "done"
  /\ UNCHANGED <<overdue, remoteVars, grantVars, pc, job, snap, tries, faults>>

----------------------------------------------------------------------------
(* The provider, the clock and the refund flow around this component.      *)

\* The customer pays, or tries to: right, with a wrong amount, in vain, or
\* by a method that settles later.
ProviderMoves(s) ==
  /\ s = "processing" => Provider = "stripe"
  /\ \/ upstream \in {"open", "failed"}
     \/ upstream = "processing" /\ s # "processing"
  /\ upstream' = s
  /\ events' = events \cup {s}
  /\ UNCHANGED <<rowVars, overdue, creating, grantVars, pc, job, snap, tries, faults>>

BecomeOverdue ==
  /\ ~overdue
  /\ overdue' = TRUE
  /\ UNCHANGED <<rowVars, creating, remoteVars, grantVars, pc, job, snap, tries, faults>>

\* A fulfilment runs shorter than the lease, unless its worker stalls.
Age ==
  /\ order.age < 2
  /\ order' = [order EXCEPT !.age = @ + 1]
  /\ IF order.age = 1 /\ \E w \in Workers : pc[w] \in Leased \cup {"lease", "markFailed"}
     THEN faults < MaxFaults /\ faults' = faults + 1
     ELSE UNCHANGED faults
  /\ UNCHANGED <<overdue, creating, remoteVars, grantVars, pc, job, snap, tries, holds>>

\* The order is COMPLETED, or was and is in the hands of the refund.
Settled == order.status \in {"COMPLETED"} \cup Refund

\* Whatever a refund writes, see PaymentRefund: any of these statuses may
\* follow any other.  REFUNDING stands for all those of an unfinished refund.
RefundStep ==
  /\ Settled
  /\ \E s \in {"COMPLETED"} \cup Refund : SaveStatus(s)
  /\ UNCHANGED <<overdue, creating, remoteVars, grantVars, pc, job, snap, tries, faults>>

----------------------------------------------------------------------------
(* HandlePaymentNotification.                                              *)

Unmoved == UNCHANGED <<overdue, creating, remoteVars, grantVars, faults>>

\* Mutant: a cancelled order is left as it is.
RecoverableNotCancelled == {"PENDING", "PROCESSING", "EXPIRED"}

\* Statuses a confirmed payment takes to PAID.
Recoverable == Unpaid

\* The order is read; toPaid goes by the status it had then.
PaidStage(s) == IF s \in Recoverable THEN "confirm" ELSE "fulfil"

\* A success whose amount does not match the order is refused.
WebhookPaid(w) ==
  /\ "paid" \in events
  /\ order.status \in Recoverable \cup Fulfillable
  /\ Begin(w, Nil, PaidStage(order.status))
  /\ UNCHANGED rowVars /\ Unmoved

WebhookProcessing(w) ==
  /\ "processing" \in events
  /\ order.status = "PENDING"
  /\ Begin(w, Nil, "processing")
  /\ UNCHANGED rowVars /\ Unmoved

\* Only Stripe's failures change an order.
WebhookFailed(w) ==
  /\ "failed" \in events
  /\ Provider = "stripe"
  /\ order.status \in {"PENDING", "PROCESSING"}
  /\ Begin(w, Nil, "failPayment")
  /\ UNCHANGED rowVars /\ Unmoved

MarkPaymentProcessing(w) ==
  /\ pc[w] = "processing"
  /\ IF order.status = "PENDING" THEN SaveStatus("PROCESSING") ELSE UNCHANGED rowVars
  /\ Done(w)
  /\ Unmoved

\* markPaymentFailed: the status read last is expected unchanged.
MarkPaymentFailed(w) ==
  /\ pc[w] = "failPayment"
  /\ \/ order.status = snap[w] /\ SaveStatus("EXPIRED") /\ Done(w)
     \/ order.status # snap[w] /\ Goto(w, "reloadFailed") /\ Keep /\ UNCHANGED rowVars
  /\ Unmoved

ReloadFailed(w) ==
  /\ pc[w] = "reloadFailed"
  /\ IF tries[w] + 1 < FailAttempts /\ order.status \in {"PENDING", "PROCESSING"}
     THEN /\ Goto(w, "failPayment")
          /\ snap' = [snap EXCEPT ![w] = order.status]
          /\ tries' = [tries EXCEPT ![w] = @ + 1]
          /\ UNCHANGED job
     ELSE Done(w)
  /\ UNCHANGED rowVars /\ Unmoved

\* toPaid: every unpaid status is recovered, terminal ones included.
ToPaid(w) ==
  /\ pc[w] = "confirm"
  /\ \/ order.status = snap[w] /\ SavePaid /\ Goto(w, "fulfil") /\ Keep
     \/ order.status # snap[w] /\ Goto(w, "reloadPaid") /\ Keep /\ UNCHANGED rowVars
  /\ Unmoved

ReloadPaid(w) ==
  /\ pc[w] = "reloadPaid"
  /\ IF tries[w] + 1 < ConfirmAttempts /\ order.status \in Recoverable \cup Fulfillable
     THEN /\ Goto(w, PaidStage(order.status))
          /\ snap' = [snap EXCEPT ![w] = order.status]
          /\ tries' = [tries EXCEPT ![w] = @ + 1]
          /\ UNCHANGED job
     ELSE Done(w)
  /\ UNCHANGED rowVars /\ Unmoved

----------------------------------------------------------------------------
(* Fulfilment under a lease.                                               *)

\* ExecuteBalanceFulfillment and ExecuteSubscriptionFulfillment.
ExecuteFulfillment(w) ==
  /\ pc[w] = "fulfil"
  /\ IF order.status \in Fulfillable THEN Goto(w, "acquire") /\ Forget(w) ELSE Done(w)
  /\ UNCHANGED rowVars /\ Unmoved

\* Mutant: a dead lease is never taken over.
ClaimableUnclaimed == order.status \in {"PAID", "FAILED"}

Claimable ==
  \/ order.status \in {"PAID", "FAILED"}
  \/ order.status = "RECHARGING" /\ order.age = 2

AcquireLease(w) ==
  /\ pc[w] = "acquire"
  /\ IF Claimable
     THEN SaveStatus("RECHARGING") /\ Goto(w, "lease") /\ Keep
     ELSE UNCHANGED rowVars /\ Done(w)
  /\ Unmoved

\* The version is read back by a statement of its own.
ReadLease(w) ==
  /\ pc[w] = "lease"
  /\ IF order.status = "RECHARGING"
     THEN /\ holds' = [holds EXCEPT ![w] = TRUE]
          /\ Goto(w, IF OrderType = "balance" THEN "lookup" ELSE "checkAssigned")
          /\ Keep
     ELSE Done(w) /\ UNCHANGED holds
  /\ UNCHANGED order /\ Unmoved

\* resolveRedeemAction.
LookupCode(w) ==
  /\ pc[w] = "lookup"
  /\ Goto(w, CASE code = "absent" -> "createCode"
               [] code = "unused" -> "redeem"
               [] code = "used"   -> "rebate")
  /\ Keep /\ UNCHANGED rowVars /\ Unmoved

\* recharge codes are unique: a second creation is an error.
CreateCode(w) ==
  /\ pc[w] = "createCode"
  /\ IF code = "absent" THEN code' = "unused" /\ Goto(w, "redeem")
                        ELSE UNCHANGED code /\ Goto(w, "markFailed")
  /\ Keep
  /\ UNCHANGED <<rowVars, overdue, creating, remoteVars, granted, audits,
                 rebates, notified, faults>>

\* Mutant: the usage check is made before the code row is locked.
RedeemUnlocked(w) ==
  /\ pc[w] = "redeem"
  /\ code' = "used" /\ granted' = granted + 1 /\ Goto(w, "rebate")
  /\ Keep
  /\ UNCHANGED <<rowVars, overdue, creating, remoteVars, audits, rebates,
                 notified, faults>>

\* One transaction on the locked code row: used up, and the balance raised.
Redeem(w) ==
  /\ pc[w] = "redeem"
  /\ IF code = "unused"
     THEN code' = "used" /\ granted' = granted + 1 /\ Goto(w, "rebate")
     ELSE UNCHANGED <<code, granted>> /\ Goto(w, "markFailed")
  /\ Keep
  /\ UNCHANGED <<rowVars, overdue, creating, remoteVars, audits, rebates,
                 notified, faults>>

CheckAssigned(w) ==
  /\ pc[w] = "checkAssigned"
  /\ Goto(w, IF audits \cap {"SUBSCRIPTION_ASSIGNED", "SUCCESS"} # {}
             THEN "rebate" ELSE "assign")
  /\ Keep /\ UNCHANGED rowVars /\ Unmoved

\* Mutant: source_order_id is not looked up under the lock.
AssignSubscriptionAnew(w) ==
  /\ pc[w] = "assign"
  /\ granted' = granted + 1
  /\ Goto(w, "auditAssigned")
  /\ Keep
  /\ UNCHANGED <<rowVars, overdue, creating, remoteVars, code, audits,
                 rebates, notified, faults>>

\* AssignOrExtendSubscription: under the user's row lock, a subscription of
\* the same source order is used again.
AssignSubscription(w) ==
  /\ pc[w] = "assign"
  /\ granted' = IF granted > 0 THEN granted ELSE 1
  /\ Goto(w, "auditAssigned")
  /\ Keep
  /\ UNCHANGED <<rowVars, overdue, creating, remoteVars, code, audits,
                 rebates, notified, faults>>

AuditAssigned(w) ==
  /\ pc[w] = "auditAssigned"
  /\ audits' = audits \cup {"SUBSCRIPTION_ASSIGNED"}
  /\ Goto(w, "rebate")
  /\ Keep
  /\ UNCHANGED <<rowVars, overdue, creating, remoteVars, code, granted,
                 rebates, notified, faults>>

\* One transaction: the unique audit row is the claim of the rebate.
ApplyAffiliateRebate(w) ==
  /\ pc[w] = "rebate"
  /\ IF "REBATE" \in audits
     THEN UNCHANGED <<audits, rebates>>
     ELSE audits' = audits \cup {"REBATE"} /\ rebates' = rebates + 1
  /\ Goto(w, "complete")
  /\ Keep
  /\ UNCHANGED <<rowVars, overdue, creating, remoteVars, code, granted,
                 notified, faults>>

OwnsLease(w) == order.status = "RECHARGING" /\ holds[w]

MarkCompleted(w) ==
  /\ pc[w] = "complete"
  /\ IF OwnsLease(w)
     THEN SaveStatus("COMPLETED") /\ Goto(w, "announce")
     ELSE UNCHANGED rowVars /\ Goto(w, "completeMiss")
  /\ Keep /\ Unmoved

\* Mutant: who finds the order completed announces it as well.
ReloadCompletedAnnounces(w) ==
  /\ pc[w] = "completeMiss"
  /\ Goto(w, IF order.status = "COMPLETED" THEN "announce" ELSE "markFailed")
  /\ Keep /\ UNCHANGED rowVars /\ Unmoved

ReloadCompleted(w) ==
  /\ pc[w] = "completeMiss"
  /\ IF order.status = "COMPLETED" THEN Done(w) ELSE Goto(w, "markFailed") /\ Keep
  /\ UNCHANGED rowVars /\ Unmoved

CheckAnnounced(w) ==
  /\ pc[w] = "announce"
  /\ IF "SUCCESS" \in audits THEN Done(w) ELSE Goto(w, "writeAudit") /\ Keep
  /\ UNCHANGED rowVars /\ Unmoved

Announce(w) ==
  /\ pc[w] = "writeAudit"
  /\ audits' = audits \cup {"SUCCESS"}
  /\ notified' = notified + 1
  /\ Done(w)
  /\ UNCHANGED <<rowVars, overdue, creating, remoteVars, code, granted,
                 rebates, faults>>

MarkFailed(w) ==
  /\ pc[w] = "markFailed"
  /\ IF OwnsLease(w) THEN SaveStatus("FAILED") ELSE UNCHANGED rowVars
  /\ Done(w)
  /\ Unmoved

\* RetryFulfillment by an administrator.
RetryFulfillment(w) ==
  /\ order.paidAt
  /\ order.status \in Fulfillable
  /\ Begin(w, Nil, "fulfil")
  /\ UNCHANGED rowVars /\ Unmoved

\* ReconcilePaidFulfillmentOrders.
ReconcilePaid(w) ==
  /\ order.paidAt
  /\ \/ order.status \in {"PAID", "FAILED"} /\ order.age > 0
     \/ order.status = "RECHARGING" /\ order.age = 2
  /\ Begin(w, Nil, "fulfil")
  /\ UNCHANGED rowVars /\ Unmoved

----------------------------------------------------------------------------
(* Jobs that ask the provider.                                             *)

\* CancelOrder, AdminCancelOrder.
CancelOrder(w) ==
  /\ order.status = "PENDING"
  /\ Begin(w, "cancel", "query")
  /\ UNCHANGED rowVars /\ Unmoved

\* Mutant: the comparison with expires_at is turned round.
ExpireTimedOutEarly(w) ==
  /\ order.status = "PENDING" /\ ~overdue
  /\ Begin(w, "expire", "query")
  /\ UNCHANGED rowVars /\ Unmoved

ExpireTimedOut(w) ==
  /\ order.status = "PENDING" /\ overdue
  /\ Begin(w, "expire", "query")
  /\ UNCHANGED rowVars /\ Unmoved

VerifyOrder(w) ==
  /\ order.status \in {"PENDING", "EXPIRED"}
  /\ Begin(w, "verify", "query")
  /\ UNCHANGED rowVars /\ Unmoved

ReconcilePendingWxpay(w) ==
  /\ Provider = "wxpay"
  /\ order.status = "PENDING" /\ ~overdue
  /\ Begin(w, "verify", "query")
  /\ UNCHANGED rowVars /\ Unmoved

ReconcileProcessing(w) ==
  /\ order.status = "PROCESSING"
  /\ Begin(w, "reconcile", "query")
  /\ UNCHANGED rowVars /\ Unmoved

\* What QueryOrder may answer.
Responses ==
  CASE upstream = "closed" -> {"failed", "pending"}
    [] upstream \in {"none", "open"} -> {"pending"}
    [] OTHER -> {upstream}

Cancelling(w) == job[w] \in {"cancel", "expire"}

\* applyQueriedPaymentStatus and what each caller does with its outcome.
ApplyResponse(w, r) ==
  \/ r = "paid" /\ (Goto(w, "persistTradeNo") \/ Goto(w, "notifyPaid")) /\ Forget(w)
  \/ r = "processing" /\ Goto(w, "notifyProcessing") /\ Forget(w)
  \/ r = "failed" /\ Cancelling(w) /\ Goto(w, "finalize") /\ Keep
  \/ r = "failed" /\ job[w] = "reconcile" /\ Goto(w, "failPayment") /\ Keep
  \/ r = "failed" /\ job[w] = "verify" /\ Done(w)
  \/ r = "mispaid" /\ Done(w)
  \/ r = "pending" /\ pc[w] = "query" /\ Cancelling(w)
       /\ Goto(w, IF Provider = "easypay" THEN "finalize" ELSE "close") /\ Keep
  \/ r = "pending" /\ (pc[w] = "requery" \/ ~Cancelling(w)) /\ Done(w)

QueryProvider(w) ==
  /\ pc[w] \in {"query", "requery"}
  /\ \E r \in Responses : ApplyResponse(w, r)
  /\ UNCHANGED rowVars /\ Unmoved

\* The trade number is saved with no condition on the status.
PersistTradeNo(w) ==
  /\ pc[w] = "persistTradeNo"
  /\ Save(order)
  /\ Goto(w, "notifyPaid") /\ Keep
  /\ Unmoved

\* HandlePaymentNotification reads the order afresh.
NotifyPaid(w) ==
  /\ pc[w] = "notifyPaid"
  /\ IF order.status \in Recoverable \cup Fulfillable
     THEN /\ Goto(w, PaidStage(order.status))
          /\ snap' = [snap EXCEPT ![w] = order.status]
          /\ UNCHANGED <<job, tries>>
     ELSE Done(w)
  /\ UNCHANGED rowVars /\ Unmoved

NotifyProcessing(w) ==
  /\ pc[w] = "notifyProcessing"
  /\ IF order.status = "PENDING" THEN Goto(w, "processing") /\ Keep ELSE Done(w)
  /\ UNCHANGED rowVars /\ Unmoved

\* Mutant: a refused CancelPayment is not followed by a second query.
CancelPaymentTrusting(w) ==
  /\ pc[w] = "close"
  /\ upstream' \in {upstream, "closed"}
  /\ Goto(w, "finalize")
  /\ Keep
  /\ UNCHANGED <<rowVars, overdue, creating, events, grantVars, faults>>

\* Alipay reports success for a trade it does not know yet and closes nothing.
LeftOpen == IF Provider = "alipay" /\ upstream = "open" THEN {"open"} ELSE {}

\* CancelPayment: refused once the money moves; an error may hide a success.
\* EasyPay has no such call.
CancelPayment(w) ==
  /\ pc[w] = "close"
  /\ \/ upstream \in {"open", "failed", "closed"}
        /\ upstream' \in {"closed"} \cup LeftOpen
        /\ Goto(w, "finalize")
        /\ UNCHANGED faults
     \/ upstream \in {"open", "failed", "closed"}
        /\ upstream' \in {upstream, "closed"}
        /\ Goto(w, "requery")
        /\ faults < MaxFaults /\ faults' = faults + 1
     \/ upstream \in {"none", "processing", "paid", "mispaid"}
        /\ Goto(w, IF Provider = "alipay" /\ upstream = "none" THEN "finalize" ELSE "requery")
        /\ UNCHANGED <<upstream, faults>>
  /\ Keep
  /\ UNCHANGED <<rowVars, overdue, creating, events, grantVars>>

FinalStatus(w) == IF job[w] = "expire" THEN "EXPIRED" ELSE "CANCELLED"

\* Mutant: the status is written without the condition PENDING.
FinalizePendingBlind(w) ==
  /\ pc[w] = "finalize"
  /\ SaveStatus(FinalStatus(w))
  /\ Done(w)
  /\ Unmoved

FinalizePending(w) ==
  /\ pc[w] = "finalize"
  /\ IF order.status = "PENDING" THEN SaveStatus(FinalStatus(w)) ELSE UNCHANGED rowVars
  /\ Done(w)
  /\ Unmoved

----------------------------------------------------------------------------
(* Faults.                                                                 *)

Fault == faults < MaxFaults /\ faults' = faults + 1

\* The process dies, the request is given up, a statement outside the
\* fulfilment fails or the provider's answer is missing or unusable: the job
\* ends where it is.
Abandon(w) ==
  /\ pc[w] # "idle"
  /\ Fault
  /\ Done(w)
  /\ holds' = [holds EXCEPT ![w] = FALSE]
  /\ UNCHANGED <<order, overdue, creating, remoteVars, grantVars>>

\* A fulfilment statement reports an error; doBalance or doSub returns it.
\* An error that hides a committed transaction (the reload after Redeem's
\* commit, say) is the error of the stage the commit led to.
FulfilmentError(w) ==
  /\ pc[w] \in Leased
  /\ Fault
  /\ Goto(w, "markFailed") /\ Keep
  /\ UNCHANGED <<rowVars, overdue, creating, remoteVars, grantVars>>

\* Errors the code does not see: a lookup or an audit query that failed
\* reads as "not there", an audit row that could not be written is only logged.
SilentError(w) ==
  /\ Fault
  /\ \/ pc[w] = "lookup" /\ Goto(w, "createCode")
     \/ pc[w] = "checkAssigned" /\ Goto(w, "assign")
     \/ pc[w] = "auditAssigned" /\ Goto(w, "rebate")
     \/ pc[w] = "announce" /\ Goto(w, "writeAudit")
  /\ Keep
  /\ UNCHANGED <<rowVars, overdue, creating, remoteVars, grantVars>>

----------------------------------------------------------------------------
(* The next-state relation.                                                *)

Lifecycle ==
  \/ InvokeProvider
  \/ PersistCreateResponse
  \/ CreateFailed
  \/ \E s \in {"processing", "paid", "mispaid", "failed"} : ProviderMoves(s)
  \/ BecomeOverdue
  \/ Age
  \/ RefundStep

Start(w) ==
  \/ WebhookPaid(w)
  \/ WebhookProcessing(w)
  \/ WebhookFailed(w)
  \/ RetryFulfillment(w)
  \/ ReconcilePaid(w)
  \/ CancelOrder(w)
  \/ ExpireTimedOut(w)
  \/ VerifyOrder(w)
  \/ ReconcilePendingWxpay(w)
  \/ ReconcileProcessing(w)

Work(w) ==
  \/ MarkPaymentProcessing(w)
  \/ MarkPaymentFailed(w)
  \/ ReloadFailed(w)
  \/ ToPaid(w)
  \/ ReloadPaid(w)
  \/ ExecuteFulfillment(w)
  \/ AcquireLease(w)
  \/ ReadLease(w)
  \/ LookupCode(w)
  \/ CreateCode(w)
  \/ Redeem(w)
  \/ CheckAssigned(w)
  \/ AssignSubscription(w)
  \/ AuditAssigned(w)
  \/ ApplyAffiliateRebate(w)
  \/ MarkCompleted(w)
  \/ ReloadCompleted(w)
  \/ CheckAnnounced(w)
  \/ Announce(w)
  \/ MarkFailed(w)
  \/ QueryProvider(w)
  \/ PersistTradeNo(w)
  \/ NotifyPaid(w)
  \/ NotifyProcessing(w)
  \/ CancelPayment(w)
  \/ FinalizePending(w)

Mishap(w) == Abandon(w) \/ FulfilmentError(w) \/ SilentError(w)

Next ==
  \/ Lifecycle
  \/ \E w \in Workers : Start(w) \/ Work(w) \/ Mishap(w)

Spec == Init /\ [][Next]_vars

----------------------------------------------------------------------------
(* Safety.                                                                 *)

\* Every variable holds a value of its type: a status the schema knows, a
\* stage the handlers have, an audit action this code writes.
TypeOK ==
  /\ order \in Orders
  /\ overdue \in BOOLEAN
  /\ creating \in {"invoke", "persist", "failed", "done"}
  /\ upstream \in {"none", "open", "processing", "paid", "mispaid", "failed", "closed"}
  /\ events \subseteq {"processing", "paid", "mispaid", "failed"}
  /\ code \in {"absent", "unused", "used"}
  /\ granted \in Nat
  /\ audits \subseteq {"SUBSCRIPTION_ASSIGNED", "REBATE", "SUCCESS"}
  /\ rebates \in Nat
  /\ notified \in Nat
  /\ pc \in [Workers -> Stages]
  /\ job \in [Workers -> Jobs \cup {Nil}]
  /\ snap \in [Workers -> Statuses \cup {Nil}]
  /\ tries \in [Workers -> Nat]
  /\ holds \in [Workers -> BOOLEAN]
  /\ faults \in 0..MaxFaults

\* However many notifications, polls, retries and take-overs reach the
\* fulfilment, and wherever they break off, one order gives its entitlement
\* once (doBalance through the redeem code, doSub through source_order_id).
GrantedAtMostOnce == granted <= 1

\* Nothing is given before the provider has confirmed the right amount.
GrantedOnlyIfPaid == granted > 0 => "paid" \in events

\* COMPLETED says that the entitlement and the rebate are really there.
SettledMeansDelivered == Settled => granted = 1 /\ rebates = 1

\* The inviter is paid at most once per order, and never for an order whose
\* buyer got nothing.
RebateFollowsGrant == rebates <= granted

\* The entitlement of an order is sound, whatever its status says: given once,
\* for money, with its rebate, and always there when the order is settled.
GrantIsSound ==
  GrantedAtMostOnce /\ GrantedOnlyIfPaid /\ SettledMeansDelivered /\ RebateFollowsGrant

\* Once the payment is recorded no late expiry, cancellation or failure
\* notification takes the order back to an unpaid status.
PaidNotForgotten == order.paidAt => order.status \notin Unpaid

\* The customer is told of the fulfilment once.
NotifiedAtMostOnce == notified <= 1

\* While no worker has stalled or failed, one worker at a time is between
\* claiming the order and writing the outcome.
ExclusiveFulfilment ==
  faults = 0 => \A v, w \in Workers : pc[v] \in Leased /\ pc[w] \in Leased => v = w

\* The row keeps its payment and its worker: no status forgets a payment that was
\* recorded, and no two workers fulfil the order before one has failed.
OrderKeepsPayment == TypeOK /\ PaidNotForgotten /\ ExclusiveFulfilment

\* An order is closed locally only when a provider that really closes payments
\* can no longer collect for it, or has reported a failed payment.
ClosedBeforeTerminal ==
  (Provider \in {"stripe", "wxpay"} /\ order.status \in {"CANCELLED", "EXPIRED"})
    => upstream = "closed" \/ "failed" \in events

\* A completed order changes its status only by a refund.
CompletedIsStable ==
  [][order.status = "COMPLETED" => order.status' \in {"COMPLETED"} \cup Refund]_vars

\* No worker gives the entitlement while the lease of the order is another
\* worker's.
GrantOnlyUnderLease ==
  [][granted' # granted => \A v \in Workers : holds[v] => pc'[v] # pc[v]]_vars

\* An order being fulfilled is one that retry and reconcile accept (both ask
\* for paid_at), so that a worker lost there can be replaced.
RechargingIsRecoverable == order.status = "RECHARGING" => order.paidAt

----------------------------------------------------------------------------
(* Refinement.                                                             *)

Promise == INSTANCE OrderPromise
  WITH collected <- "paid" \in events,
       given     <- granted,
       rebated   <- rebates,
       settled   <- Settled

\* The order keeps its promise: every step collects, gives, rebates or
\* settles as OrderPromise allows, in that order and each once, or none.
KeepsPromise == Promise!Spec

----------------------------------------------------------------------------
(* Liveness.  Handlers and jobs run on; the background job comes back every *)
(* interval (strong fairness: whether a worker of the model is idle at that *)
(* moment says nothing of the code, which starts a goroutine per job); the *)
(* lease ages.  Faults are finite in number (MaxFaults).                   *)

Background ==
  /\ \A w \in Workers : WF_vars(Work(w))
  /\ WF_vars(Age)
  /\ WF_vars(BecomeOverdue)
  /\ WF_vars(InvokeProvider \/ PersistCreateResponse \/ CreateFailed)
  /\ SF_vars(\E w \in Workers : ReconcilePaid(w))
  /\ SF_vars(\E w \in Workers : ReconcileProcessing(w))
  /\ SF_vars(\E w \in Workers : ExpireTimedOut(w))

FairSpec == Spec /\ Background

\* The provider repeats a notification until it is acknowledged.
WebhookSpec == FairSpec /\ SF_vars(\E w \in Workers : WebhookPaid(w))

\* A recorded payment is fulfilled in the end by the background job alone,
\* without one more notification or request.
PaidOrderSettles == order.paidAt ~> Settled

\* Money collected for the order is never lost, not even when it comes after
\* the order was cancelled or has expired.
LatePaymentSettles == ("paid" \in events) ~> Settled

\* An overdue order does not stay PENDING, unless the provider reports a
\* payment of the wrong amount.
OverdueOrderLeaves ==
  (order.status = "PENDING" /\ overdue) ~> (order.status # "PENDING" \/ upstream = "mispaid")
=============================================================================
