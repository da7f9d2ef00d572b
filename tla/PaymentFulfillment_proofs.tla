---------------------- MODULE PaymentFulfillment_proofs ----------------------
(***************************************************************************)
(* Proofs about PaymentFulfillment, for any number of workers, faults and  *)
(* attempts, either kind of order and every provider.  The inductive       *)
(* invariant is a conjunction of parts, one for each question: is the      *)
(* order paid for (PaidInv), has it been delivered (GrantInv), is the      *)
(* status a worker expects still an unpaid one (SnapInv), and whose is the *)
(* lease (LeaseInv).                                                       *)
(***************************************************************************)
EXTENDS PaymentFulfillment, TLAPS

\* Stages only a confirmed payment leads to.
PaidStages ==
  Leased \cup {"confirm", "reloadPaid", "fulfil", "acquire", "lease", "announce",
               "writeAudit", "markFailed", "persistTradeNo", "notifyPaid"}

\* Unless the provider has collected, nothing says that it has.
PaidInv ==
  \/ "paid" \in events
  \/ /\ upstream # "paid"
     /\ ~order.paidAt
     /\ order.status \notin {"PAID", "RECHARGING", "COMPLETED"} \cup Refund
     /\ granted = 0
     /\ \A w \in Workers : pc[w] \notin PaidStages

\* Stages behind the grant, and stages behind the rebate.
GrantedStages  == {"auditAssigned", "rebate"}
RebatedStages  == {"complete", "completeMiss", "announce", "writeAudit"}

BalanceStages      == {"lookup", "createCode", "redeem"}
SubscriptionStages == {"checkAssigned", "assign", "auditAssigned"}

\* The redeem code, the audit rows and the stage of a worker each tell
\* truly what has been given.
GrantInv ==
  /\ granted \in {0, 1}
  /\ rebates \in {0, 1}
  /\ rebates = 1 <=> "REBATE" \in audits
  /\ rebates = 1 => granted = 1
  /\ OrderType = "balance" => (granted = 1 <=> code = "used")
  /\ "SUBSCRIPTION_ASSIGNED" \in audits \/ "SUCCESS" \in audits => granted = 1
  /\ \A w \in Workers :
       /\ pc[w] \in BalanceStages => OrderType = "balance"
       /\ pc[w] \in SubscriptionStages => OrderType = "subscription"
       /\ pc[w] \in GrantedStages => granted = 1
       /\ pc[w] \in RebatedStages => granted = 1 /\ rebates = 1
  /\ SettledMeansDelivered

\* A worker about to write a status over an expected one expects an unpaid one.
SnapInv ==
  \A w \in Workers :
    /\ pc[w] \in {"confirm", "reloadPaid"} => snap[w] \in Unpaid
    /\ pc[w] \in {"failPayment", "reloadFailed"} => snap[w] \in {"PENDING", "PROCESSING"}
    /\ pc[w] \in {"query", "close", "requery"} /\ job[w] = "reconcile"
         => snap[w] = "PROCESSING"

\* Without errors of CreateOrder nothing writes a status unconditionally.
CreateInv == ~CreateErrors => creating # "failed"

\* Between the claim and the outcome.
Claimers == Leased \cup {"lease", "markFailed"}

LeaseInv ==
  ~CreateErrors /\ faults = 0 =>
    /\ \A w \in Workers : pc[w] \in Claimers => order.status = "RECHARGING" /\ order.age < 2
    /\ \A v, w \in Workers : pc[v] \in Claimers /\ pc[w] \in Claimers => v = w

\* A provider that closes payments can collect no more, or has reported a failure.
Over == upstream = "closed" \/ "failed" \in events

\* Stages that may write CANCELLED or EXPIRED without a look at the provider.
ClosingStages == {"finalize", "failPayment", "reloadFailed"}

\* The stages in which an order is closed say truly that the payment is over.
ClosedInv ==
  /\ creating = "invoke" => upstream = "none"
  /\ upstream = "failed" => "failed" \in events
  /\ Provider \in {"stripe", "wxpay"} =>
       \A w \in Workers : pc[w] \in ClosingStages => Over
  /\ ClosedBeforeTerminal

\* Whatever is to be fulfilled has its payment recorded.
DatedInv == ~CreateErrors /\ order.status \in Fulfillable => order.paidAt

\* Stages between COMPLETED and the customer's notice.
Announcers == {"announce", "writeAudit"}

\* Only who completed the order announces it, and an order is completed once.
NoticeInv ==
  ~CreateErrors =>
    /\ notified <= 1
    /\ notified = 1 => Settled
    /\ \A w \in Workers : pc[w] \in Announcers => Settled /\ notified = 0
    /\ \A v, w \in Workers : pc[v] \in Announcers /\ pc[w] \in Announcers => v = w

IInv ==
  /\ TypeOK
  /\ PaidInv
  /\ GrantInv
  /\ SnapInv
  /\ PaidNotForgotten
  /\ CreateInv
  /\ LeaseInv
  /\ ClosedInv
  /\ DatedInv
  /\ NoticeInv

----------------------------------------------------------------------------
(* What the writes of the row and the starts of jobs do.                   *)

LEMMA SaveFacts ==
  ASSUME NEW row \in Orders, Save(row)
  PROVE  /\ order' \in Orders /\ holds' \in [Workers -> BOOLEAN]
         /\ order'.status = row.status /\ order'.paidAt = row.paidAt /\ order'.age = 0
  BY DEF Save, Orders, Ages

LEMMA SaveStatusFacts ==
  ASSUME TypeOK, NEW s \in Statuses, SaveStatus(s)
  PROVE  /\ order' \in Orders /\ holds' \in [Workers -> BOOLEAN]
         /\ order'.status = s /\ order'.paidAt = order.paidAt /\ order'.age = 0
<1> DEFINE row == [order EXCEPT !.status = s]
<1>1. order \in Orders
  BY DEF TypeOK
<1>2. row \in Orders /\ row.status = s /\ row.paidAt = order.paidAt
  BY <1>1 DEF Orders
<1>3. Save(row)
  BY DEF SaveStatus
<1> HIDE DEF row
<1> QED
  BY <1>2, <1>3, SaveFacts

LEMMA SavePaidFacts ==
  ASSUME TypeOK, SavePaid
  PROVE  /\ order' \in Orders /\ holds' \in [Workers -> BOOLEAN]
         /\ order'.status = "PAID" /\ order'.paidAt = TRUE /\ order'.age = 0
<1> DEFINE row == [order EXCEPT !.status = "PAID", !.paidAt = TRUE]
<1>1. order \in Orders /\ "PAID" \in Statuses
  BY DEF TypeOK, Statuses, Fulfillable
<1>2. row \in Orders /\ row.status = "PAID" /\ row.paidAt = TRUE
  BY <1>1 DEF Orders
<1>3. Save(row)
  BY DEF SavePaid
<1> HIDE DEF row
<1> QED
  BY <1>2, <1>3, SaveFacts

\* A job starts in one of five ways.
LEMMA StartFacts ==
  ASSUME NEW w \in Workers, Start(w)
  PROVE  /\ pc[w] = "idle"
         /\ UNCHANGED <<order, holds, overdue, creating, upstream, events, code,
                        granted, audits, rebates, notified, faults>>
         /\ \E j \in Jobs \cup {Nil}, l \in Stages :
              /\ pc' = [pc EXCEPT ![w] = l]
              /\ job' = [job EXCEPT ![w] = j]
              /\ snap' = [snap EXCEPT ![w] = order.status]
              /\ tries' = [tries EXCEPT ![w] = 0]
              /\ \/ l = "query" /\ (order.status = "PROCESSING" \/ j # "reconcile")
                 \/ l = "processing"
                 \/ l = "failPayment" /\ order.status \in {"PENDING", "PROCESSING"}
                 \/ l = "confirm" /\ order.status \in Unpaid /\ "paid" \in events
                 \/ l = "fulfil" /\ ("paid" \in events \/ order.paidAt)
<1> USE DEF Begin, Goto, Unmoved, rowVars, grantVars, remoteVars, Jobs, Stages
<1>1. CASE WebhookPaid(w)
  BY <1>1 DEF WebhookPaid, PaidStage, Recoverable
<1>2. CASE WebhookProcessing(w) \/ WebhookFailed(w)
  BY <1>2 DEF WebhookProcessing, WebhookFailed
<1>3. CASE RetryFulfillment(w) \/ ReconcilePaid(w)
  BY <1>3 DEF RetryFulfillment, ReconcilePaid
<1>4. CASE CancelOrder(w) \/ ExpireTimedOut(w) \/ VerifyOrder(w)
  BY <1>4 DEF CancelOrder, ExpireTimedOut, VerifyOrder
<1>5. CASE ReconcilePendingWxpay(w) \/ ReconcileProcessing(w)
  BY <1>5 DEF ReconcilePendingWxpay, ReconcileProcessing
<1> QED
  BY <1>1, <1>2, <1>3, <1>4, <1>5 DEF Start

----------------------------------------------------------------------------
(* Types.                                                                  *)

LEMMA LifecycleType == TypeOK /\ Lifecycle => TypeOK'
<1> SUFFICES ASSUME TypeOK, Lifecycle PROVE TypeOK'
  OBVIOUS
<1> USE DEF TypeOK, rowVars, grantVars, remoteVars
<1>1. CASE InvokeProvider
  BY <1>1 DEF InvokeProvider
<1>2. CASE PersistCreateResponse
  BY <1>2, SaveFacts DEF PersistCreateResponse
<1>3. CASE CreateFailed
  <2>1. "FAILED" \in Statuses
    BY DEF Statuses, Fulfillable
  <2> QED
    BY <1>3, <2>1, SaveStatusFacts DEF CreateFailed
<1>4. CASE \E s \in {"processing", "paid", "mispaid", "failed"} : ProviderMoves(s)
  BY <1>4 DEF ProviderMoves
<1>5. CASE BecomeOverdue
  BY <1>5 DEF BecomeOverdue
<1>6. CASE Age
  <2>1. order' \in Orders
    BY <1>6 DEF Age, Orders, Ages
  <2>2. faults' \in 0..MaxFaults
    BY <1>6, ConstantsAssumption DEF Age
  <2> QED
    BY <1>6, <2>1, <2>2 DEF Age
<1>7. CASE RefundStep
  <2>1. {"COMPLETED"} \cup Refund \subseteq Statuses
    BY DEF Statuses, Refund
  <2> QED
    BY <1>7, <2>1, SaveStatusFacts DEF RefundStep
<1> QED
  BY <1>1, <1>2, <1>3, <1>4, <1>5, <1>6, <1>7 DEF Lifecycle

LEMMA StartType ==
  ASSUME TypeOK, NEW w \in Workers, Start(w) PROVE TypeOK'
<1>1. PICK j \in Jobs \cup {Nil}, l \in Stages :
        /\ pc' = [pc EXCEPT ![w] = l]
        /\ job' = [job EXCEPT ![w] = j]
        /\ snap' = [snap EXCEPT ![w] = order.status]
        /\ tries' = [tries EXCEPT ![w] = 0]
  BY StartFacts
<1>2. order.status \in Statuses
  BY DEF TypeOK, Orders
<1> QED
  BY <1>1, <1>2, StartFacts DEF TypeOK

\* Which steps of a job change more than the row and the worker.
LEMMA WorkFrame ==
  ASSUME NEW w \in Workers, Work(w)
  PROVE  /\ UNCHANGED <<overdue, creating, events>>
         /\ CancelPayment(w) \/ UNCHANGED <<upstream, faults>>
         /\ \/ CreateCode(w) \/ Redeem(w) \/ AssignSubscription(w) \/ AuditAssigned(w)
            \/ ApplyAffiliateRebate(w) \/ Announce(w)
            \/ UNCHANGED grantVars
<1> USE DEF Unmoved, grantVars, remoteVars
<1>1. CASE \/ MarkPaymentProcessing(w) \/ MarkPaymentFailed(w) \/ ReloadFailed(w)
           \/ ToPaid(w) \/ ReloadPaid(w)
  BY <1>1 DEF MarkPaymentProcessing, MarkPaymentFailed, ReloadFailed, ToPaid, ReloadPaid
<1>2. CASE \/ ExecuteFulfillment(w) \/ AcquireLease(w) \/ ReadLease(w) \/ LookupCode(w)
           \/ CreateCode(w) \/ Redeem(w) \/ CheckAssigned(w) \/ AssignSubscription(w)
  BY <1>2 DEF ExecuteFulfillment, AcquireLease, ReadLease, LookupCode, CreateCode,
     Redeem, CheckAssigned, AssignSubscription
<1>3. CASE \/ AuditAssigned(w) \/ ApplyAffiliateRebate(w) \/ MarkCompleted(w)
           \/ ReloadCompleted(w) \/ CheckAnnounced(w) \/ Announce(w) \/ MarkFailed(w)
  BY <1>3 DEF AuditAssigned, ApplyAffiliateRebate, MarkCompleted, ReloadCompleted,
     CheckAnnounced, Announce, MarkFailed
<1>4. CASE \/ QueryProvider(w) \/ PersistTradeNo(w) \/ NotifyPaid(w)
           \/ NotifyProcessing(w) \/ CancelPayment(w) \/ FinalizePending(w)
  BY <1>4 DEF QueryProvider, PersistTradeNo, NotifyPaid, NotifyProcessing,
     CancelPayment, LeftOpen, FinalizePending
<1> QED
  BY <1>1, <1>2, <1>3, <1>4 DEF Work

\* The locals of a worker that moves on, or is done.
LEMMA LocalsType ==
  ASSUME TypeOK, NEW w \in Workers,
         \/ Done(w)
         \/ \E l \in Stages : Goto(w, l) /\ (Keep \/ Forget(w))
         \/ \E l \in Stages : /\ Goto(w, l)
                              /\ snap' = [snap EXCEPT ![w] = order.status]
                              /\ tries' \in {tries, [tries EXCEPT ![w] = @ + 1]}
                              /\ job' = job
  PROVE  /\ pc' \in [Workers -> Stages] /\ job' \in [Workers -> Jobs \cup {Nil}]
         /\ snap' \in [Workers -> Statuses \cup {Nil}] /\ tries' \in [Workers -> Nat]
<1>1. order.status \in Statuses /\ "idle" \in Stages
  BY DEF TypeOK, Orders, Stages
<1> QED
  BY <1>1 DEF TypeOK, Done, Goto, Keep, Forget

LEMMA WorkType ==
  ASSUME TypeOK, NEW w \in Workers, Work(w) PROVE TypeOK'
<1> USE DEF Stages, Leased, Statuses, Unpaid, Fulfillable, Refund
<1>1. /\ pc' \in [Workers -> Stages] /\ job' \in [Workers -> Jobs \cup {Nil}]
      /\ snap' \in [Workers -> Statuses \cup {Nil}] /\ tries' \in [Workers -> Nat]
  <2>1. CASE \/ MarkPaymentProcessing(w) \/ MarkPaymentFailed(w) \/ ReloadFailed(w)
             \/ ToPaid(w) \/ ReloadPaid(w)
    BY <2>1, LocalsType DEF MarkPaymentProcessing, MarkPaymentFailed, ReloadFailed,
       ToPaid, ReloadPaid, PaidStage
  <2>2. CASE ExecuteFulfillment(w) \/ AcquireLease(w) \/ ReadLease(w)
    BY <2>2, LocalsType DEF ExecuteFulfillment, AcquireLease, ReadLease
  <2>3. CASE LookupCode(w)
    <3>1. pc' = [pc EXCEPT ![w] = pc'[w]] /\ pc'[w] \in {"createCode", "redeem", "rebate"} /\ Keep
      BY <2>3 DEF TypeOK, LookupCode, Goto
    <3> QED
      BY <3>1, LocalsType DEF Goto
  <2>4. CASE CreateCode(w) \/ Redeem(w) \/ CheckAssigned(w) \/ AssignSubscription(w)
    BY <2>4, LocalsType DEF CreateCode, Redeem, CheckAssigned, AssignSubscription
  <2>5. CASE \/ AuditAssigned(w) \/ ApplyAffiliateRebate(w) \/ MarkCompleted(w)
             \/ ReloadCompleted(w) \/ CheckAnnounced(w) \/ Announce(w) \/ MarkFailed(w)
    BY <2>5, LocalsType DEF AuditAssigned, ApplyAffiliateRebate, MarkCompleted,
       ReloadCompleted, CheckAnnounced, Announce, MarkFailed
  <2>6. CASE \/ QueryProvider(w) \/ PersistTradeNo(w) \/ NotifyPaid(w)
             \/ NotifyProcessing(w) \/ CancelPayment(w) \/ FinalizePending(w)
    BY <2>6, LocalsType DEF QueryProvider, ApplyResponse, PersistTradeNo, NotifyPaid,
       NotifyProcessing, CancelPayment, LeftOpen, FinalizePending, PaidStage
  <2> QED
    BY <2>1, <2>2, <2>3, <2>4, <2>5, <2>6 DEF Work
<1>2. order' \in Orders /\ holds' \in [Workers -> BOOLEAN]
  <2>1. order \in Orders /\ holds \in [Workers -> BOOLEAN] /\ FinalStatus(w) \in Statuses
    BY DEF TypeOK, FinalStatus
  <2>2. CASE MarkPaymentProcessing(w) \/ MarkPaymentFailed(w) \/ ToPaid(w) \/ AcquireLease(w)
    BY <2>1, <2>2, SaveStatusFacts, SavePaidFacts DEF MarkPaymentProcessing,
       MarkPaymentFailed, ToPaid, AcquireLease, rowVars
  <2>3. CASE MarkCompleted(w) \/ MarkFailed(w) \/ PersistTradeNo(w) \/ FinalizePending(w)
    BY <2>1, <2>3, SaveFacts, SaveStatusFacts DEF MarkCompleted, MarkFailed,
       PersistTradeNo, FinalizePending, rowVars
  <2>4. CASE ReadLease(w)
    BY <2>1, <2>4 DEF ReadLease
  <2>5. CASE UNCHANGED rowVars
    BY <2>1, <2>5 DEF rowVars
  <2> QED
    BY <2>2, <2>3, <2>4, <2>5 DEF Work, ReloadFailed, ReloadPaid, ExecuteFulfillment,
       LookupCode, CreateCode, Redeem, CheckAssigned, AssignSubscription, AuditAssigned,
       ApplyAffiliateRebate, ReloadCompleted, CheckAnnounced, Announce, QueryProvider,
       NotifyPaid, NotifyProcessing, CancelPayment, LeftOpen, rowVars
<1>3. /\ upstream' \in {"none", "open", "processing", "paid", "mispaid", "failed", "closed"}
      /\ faults' \in 0..MaxFaults
  <2>1. CASE CancelPayment(w)
    BY <2>1, ConstantsAssumption DEF TypeOK, CancelPayment, LeftOpen
  <2>2. CASE UNCHANGED <<upstream, faults>>
    BY <2>2 DEF TypeOK
  <2> QED
    BY <2>1, <2>2, WorkFrame
<1>4. /\ code' \in {"absent", "unused", "used"} /\ granted' \in Nat /\ rebates' \in Nat
      /\ audits' \subseteq {"SUBSCRIPTION_ASSIGNED", "REBATE", "SUCCESS"}
      /\ notified' \in Nat
  <2>1. CASE CreateCode(w)
    BY <2>1 DEF TypeOK, CreateCode
  <2>2. CASE Redeem(w)
    BY <2>2 DEF TypeOK, Redeem
  <2>3. CASE AssignSubscription(w)
    BY <2>3 DEF TypeOK, AssignSubscription
  <2>4. CASE AuditAssigned(w)
    BY <2>4 DEF TypeOK, AuditAssigned
  <2>5. CASE ApplyAffiliateRebate(w)
    <3>1. /\ code' = code /\ granted' = granted /\ notified' = notified
          /\ \/ audits' = audits /\ rebates' = rebates
             \/ audits' = audits \cup {"REBATE"} /\ rebates' = rebates + 1
      BY <2>5 DEF ApplyAffiliateRebate
    <3>2. rebates' \in Nat
      BY <3>1 DEF TypeOK
    <3>3. audits' \subseteq {"SUBSCRIPTION_ASSIGNED", "REBATE", "SUCCESS"}
      BY <3>1 DEF TypeOK
    <3> QED
      BY <3>1, <3>2, <3>3 DEF TypeOK
  <2>6. CASE Announce(w)
    BY <2>6 DEF TypeOK, Announce
  <2>7. CASE UNCHANGED grantVars
    BY <2>7 DEF TypeOK, grantVars
  <2> QED
    BY <2>1, <2>2, <2>3, <2>4, <2>5, <2>6, <2>7, WorkFrame
<1> QED
  BY <1>1, <1>2, <1>3, <1>4, WorkFrame DEF TypeOK

\* A mishap ends the job, fails the fulfilment or skips a stage of it.
LEMMA MishapFacts ==
  ASSUME NEW w \in Workers, Mishap(w)
  PROVE  /\ UNCHANGED <<order, overdue, creating, upstream, events, code, granted,
                        audits, rebates, notified>>
         /\ faults < MaxFaults /\ faults' = faults + 1
         /\ \/ /\ pc' = [pc EXCEPT ![w] = "idle"] /\ Forget(w)
               /\ holds' = [holds EXCEPT ![w] = FALSE]
            \/ /\ UNCHANGED <<holds, job, snap, tries>>
               /\ \/ pc[w] \in Leased /\ pc' = [pc EXCEPT ![w] = "markFailed"]
                  \/ pc[w] = "lookup" /\ pc' = [pc EXCEPT ![w] = "createCode"]
                  \/ pc[w] = "checkAssigned" /\ pc' = [pc EXCEPT ![w] = "assign"]
                  \/ pc[w] = "auditAssigned" /\ pc' = [pc EXCEPT ![w] = "rebate"]
                  \/ pc[w] = "announce" /\ pc' = [pc EXCEPT ![w] = "writeAudit"]
  BY DEF Mishap, Abandon, FulfilmentError, SilentError, Fault, Done, Goto, Keep,
         rowVars, grantVars, remoteVars

LEMMA MishapType ==
  ASSUME TypeOK, NEW w \in Workers, Mishap(w) PROVE TypeOK'
<1>1. faults' \in 0..MaxFaults
  BY MishapFacts, ConstantsAssumption DEF TypeOK
<1>2. /\ pc' \in [Workers -> Stages] /\ job' \in [Workers -> Jobs \cup {Nil}]
      /\ snap' \in [Workers -> Statuses \cup {Nil}] /\ tries' \in [Workers -> Nat]
      /\ holds' \in [Workers -> BOOLEAN]
  <2>1. CASE /\ pc' = [pc EXCEPT ![w] = "idle"] /\ Forget(w)
             /\ holds' = [holds EXCEPT ![w] = FALSE]
    BY <2>1 DEF TypeOK, Forget, Stages
  <2>2. CASE UNCHANGED <<holds, job, snap, tries>>
    <3>1. \E l \in Stages : pc' = [pc EXCEPT ![w] = l]
      BY MishapFacts DEF Stages, Leased
    <3> QED
      BY <2>2, <3>1 DEF TypeOK
  <2> QED
    BY <2>1, <2>2, MishapFacts
<1> QED
  BY <1>1, <1>2, MishapFacts DEF TypeOK

LEMMA TypeStep == TypeOK /\ [Next]_vars => TypeOK'
<1>1. TypeOK /\ UNCHANGED vars => TypeOK'
  BY DEF TypeOK, vars
<1> QED
  BY <1>1, LifecycleType, StartType, WorkType, MishapType DEF Next

----------------------------------------------------------------------------
(* Nothing is given before the money has come.                             *)

LEMMA LifecyclePaid == TypeOK /\ PaidInv /\ Lifecycle => PaidInv'
<1> SUFFICES ASSUME TypeOK, PaidInv, Lifecycle PROVE PaidInv'
  OBVIOUS
<1> USE DEF rowVars, grantVars, remoteVars
<1>1. CASE "paid" \in events
  BY <1>1 DEF PaidInv, Lifecycle, InvokeProvider, PersistCreateResponse, CreateFailed,
     ProviderMoves, BecomeOverdue, Age, RefundStep
<1>2. CASE "paid" \notin events
  <2>1. CASE InvokeProvider \/ BecomeOverdue
    BY <1>2, <2>1 DEF PaidInv, InvokeProvider, BecomeOverdue
  <2>2. CASE PersistCreateResponse
    BY <1>2, <2>2, SaveFacts DEF TypeOK, PaidInv, PersistCreateResponse
  <2>3. CASE CreateFailed
    <3>1. "FAILED" \in Statuses
      BY DEF Statuses, Fulfillable
    <3> QED
      BY <1>2, <2>3, <3>1, SaveStatusFacts DEF PaidInv, CreateFailed, Refund
  <2>4. CASE \E s \in {"processing", "paid", "mispaid", "failed"} : ProviderMoves(s)
    BY <1>2, <2>4 DEF PaidInv, ProviderMoves
  <2>5. CASE Age
    <3>1. order'.status = order.status /\ order'.paidAt = order.paidAt
      BY <2>5 DEF TypeOK, Orders, Age
    <3> QED
      BY <1>2, <2>5, <3>1 DEF PaidInv, Age
  <2>6. CASE RefundStep
    BY <1>2, <2>6 DEF PaidInv, RefundStep, Settled
  <2> QED
    BY <2>1, <2>2, <2>3, <2>4, <2>5, <2>6 DEF Lifecycle
<1> QED
  BY <1>1, <1>2

LEMMA StartPaid ==
  ASSUME TypeOK, PaidInv, NEW w \in Workers, Start(w) PROVE PaidInv'
  BY StartFacts DEF TypeOK, PaidInv, PaidStages, Leased

LEMMA WorkPaid ==
  ASSUME TypeOK, PaidInv, NEW w \in Workers, Work(w) PROVE PaidInv'
<1>1. CASE "paid" \in events
  BY <1>1, WorkFrame DEF PaidInv
<1>2. CASE "paid" \notin events
  <2> USE DEF PaidInv, PaidStages, Leased, Unmoved, grantVars, remoteVars, rowVars, Goto,
              Done, Keep, Forget
  <2>1. {"PROCESSING", "EXPIRED", "CANCELLED"} \subseteq Statuses \ ({"PAID", "RECHARGING", "COMPLETED"} \cup Refund)
    BY DEF Statuses, Unpaid, Refund
  <2>2. CASE MarkPaymentProcessing(w) \/ MarkPaymentFailed(w)
    BY <1>2, <2>1, <2>2, SaveStatusFacts DEF TypeOK, MarkPaymentProcessing, MarkPaymentFailed
  <2>3. CASE FinalizePending(w)
    BY <1>2, <2>1, <2>3, SaveStatusFacts DEF TypeOK, FinalizePending, FinalStatus
  <2>4. CASE ReloadFailed(w) \/ NotifyProcessing(w)
    BY <1>2, <2>4 DEF TypeOK, ReloadFailed, NotifyProcessing
  <2>5. CASE QueryProvider(w)
    BY <1>2, <2>5 DEF TypeOK, QueryProvider, ApplyResponse, Responses
  <2>6. CASE CancelPayment(w)
    BY <1>2, <2>6 DEF TypeOK, CancelPayment, LeftOpen
  <2>7. pc[w] \notin PaidStages
    BY <1>2
  <2> QED
    BY <2>2, <2>3, <2>4, <2>5, <2>6, <2>7 DEF Work, ToPaid, ReloadPaid, ExecuteFulfillment,
       AcquireLease, ReadLease, LookupCode, CreateCode, Redeem, CheckAssigned,
       AssignSubscription, AuditAssigned, ApplyAffiliateRebate, MarkCompleted,
       ReloadCompleted, CheckAnnounced, Announce, MarkFailed, PersistTradeNo, NotifyPaid
<1> QED
  BY <1>1, <1>2

LEMMA MishapPaid ==
  ASSUME TypeOK, PaidInv, NEW w \in Workers, Mishap(w) PROVE PaidInv'
  BY MishapFacts DEF TypeOK, PaidInv, PaidStages, Leased

----------------------------------------------------------------------------
(* What has been given, and that it was given once.                        *)

LEMMA LifecycleGrant == TypeOK /\ GrantInv /\ Lifecycle => GrantInv'
<1> SUFFICES ASSUME TypeOK, GrantInv, Lifecycle PROVE GrantInv'
  OBVIOUS
<1>1. UNCHANGED <<pc, code, granted, audits, rebates>>
  BY DEF Lifecycle, InvokeProvider, PersistCreateResponse, CreateFailed, ProviderMoves,
     BecomeOverdue, Age, RefundStep, grantVars
<1>2. Settled' => Settled
  <2>1. CASE PersistCreateResponse
    BY <2>1, SaveFacts DEF TypeOK, PersistCreateResponse, rowVars, Settled
  <2>2. CASE CreateFailed
    <3>1. "FAILED" \in Statuses
      BY DEF Statuses, Fulfillable
    <3> QED
      BY <2>2, <3>1, SaveStatusFacts DEF CreateFailed, Settled, Refund
  <2>3. CASE Age
    BY <2>3 DEF TypeOK, Orders, Age, Settled
  <2>4. CASE RefundStep
    BY <2>4 DEF RefundStep, Settled, Refund
  <2>5. CASE UNCHANGED order
    BY <2>5 DEF Settled
  <2> QED
    BY <2>1, <2>2, <2>3, <2>4, <2>5 DEF Lifecycle, InvokeProvider, ProviderMoves,
       BecomeOverdue, rowVars
<1> QED
  BY <1>1, <1>2 DEF GrantInv, SettledMeansDelivered

LEMMA StartGrant ==
  ASSUME TypeOK, GrantInv, NEW w \in Workers, Start(w) PROVE GrantInv'
  BY StartFacts DEF TypeOK, GrantInv, SettledMeansDelivered, Settled, GrantedStages,
     RebatedStages, BalanceStages, SubscriptionStages

LEMMA MishapGrant ==
  ASSUME TypeOK, GrantInv, NEW w \in Workers, Mishap(w) PROVE GrantInv'
  BY MishapFacts DEF TypeOK, GrantInv, SettledMeansDelivered, Settled, GrantedStages,
     RebatedStages, BalanceStages, SubscriptionStages

\* Only a worker behind the rebate settles the order.
LEMMA WorkSettles ==
  ASSUME TypeOK, NEW w \in Workers, Work(w), Settled', ~Settled
  PROVE  pc[w] = "complete" /\ MarkCompleted(w)
<1> USE DEF Settled, Refund, rowVars
<1>1. {"PROCESSING", "EXPIRED", "CANCELLED", "RECHARGING", "FAILED"} \subseteq Statuses
  BY DEF Statuses, Unpaid, Fulfillable
<1>2. ~(MarkPaymentProcessing(w) \/ MarkPaymentFailed(w) \/ ToPaid(w))
  BY <1>1, SaveStatusFacts, SavePaidFacts DEF MarkPaymentProcessing, MarkPaymentFailed, ToPaid
<1>3. ~(AcquireLease(w) \/ MarkFailed(w) \/ FinalizePending(w))
  BY <1>1, SaveStatusFacts DEF AcquireLease, MarkFailed, FinalizePending, FinalStatus
<1>4. ~PersistTradeNo(w)
  BY SaveFacts DEF TypeOK, PersistTradeNo
<1> QED
  BY <1>2, <1>3, <1>4 DEF Work, Unmoved, ReloadFailed, ReloadPaid, ExecuteFulfillment,
     ReadLease, LookupCode, CreateCode, Redeem, CheckAssigned, AssignSubscription,
     AuditAssigned, ApplyAffiliateRebate, MarkCompleted, ReloadCompleted, CheckAnnounced,
     Announce, QueryProvider, NotifyPaid, NotifyProcessing, CancelPayment, LeftOpen

LEMMA WorkGrant ==
  ASSUME TypeOK, GrantInv, NEW w \in Workers, Work(w) PROVE GrantInv'
<1> USE DEF GrantedStages, RebatedStages, BalanceStages, SubscriptionStages,
            Goto, Done, Keep, Forget, Unmoved, grantVars
<1> DEFINE Given ==
      /\ granted \in {0, 1}
      /\ rebates \in {0, 1}
      /\ rebates = 1 <=> "REBATE" \in audits
      /\ rebates = 1 => granted = 1
      /\ OrderType = "balance" => (granted = 1 <=> code = "used")
      /\ "SUBSCRIPTION_ASSIGNED" \in audits \/ "SUCCESS" \in audits => granted = 1
      /\ \A v \in Workers :
           /\ pc[v] \in BalanceStages => OrderType = "balance"
           /\ pc[v] \in SubscriptionStages => OrderType = "subscription"
           /\ pc[v] \in GrantedStages => granted = 1
           /\ pc[v] \in RebatedStages => granted = 1 /\ rebates = 1
<1>1. Given'
  <2>1. CASE \/ MarkPaymentProcessing(w) \/ MarkPaymentFailed(w) \/ ReloadFailed(w)
             \/ ToPaid(w) \/ ReloadPaid(w)
    BY <2>1 DEF TypeOK, GrantInv, MarkPaymentProcessing, MarkPaymentFailed, ReloadFailed,
       ToPaid, ReloadPaid, PaidStage
  <2>2. CASE ExecuteFulfillment(w) \/ AcquireLease(w) \/ MarkFailed(w)
    BY <2>2 DEF TypeOK, GrantInv, ExecuteFulfillment, AcquireLease, MarkFailed
  <2>3. CASE ReadLease(w)
    BY <2>3, ConstantsAssumption DEF TypeOK, GrantInv, ReadLease
  <2>4. CASE LookupCode(w)
    BY <2>4 DEF TypeOK, GrantInv, LookupCode
  <2>5. CASE CreateCode(w)
    BY <2>5 DEF TypeOK, GrantInv, CreateCode
  <2>6. CASE Redeem(w)
    BY <2>6 DEF TypeOK, GrantInv, Redeem
  <2>7. CASE CheckAssigned(w)
    BY <2>7 DEF TypeOK, GrantInv, CheckAssigned
  <2>8. CASE AssignSubscription(w)
    BY <2>8 DEF TypeOK, GrantInv, AssignSubscription
  <2>9. CASE AuditAssigned(w)
    BY <2>9 DEF TypeOK, GrantInv, AuditAssigned
  <2>10. CASE ApplyAffiliateRebate(w)
    BY <2>10 DEF TypeOK, GrantInv, ApplyAffiliateRebate
  <2>11. CASE MarkCompleted(w) \/ ReloadCompleted(w) \/ CheckAnnounced(w)
    BY <2>11 DEF TypeOK, GrantInv, MarkCompleted, ReloadCompleted, CheckAnnounced
  <2>12. CASE Announce(w)
    BY <2>12 DEF TypeOK, GrantInv, Announce
  <2>13. CASE QueryProvider(w)
    BY <2>13 DEF TypeOK, GrantInv, QueryProvider, ApplyResponse
  <2>14. CASE PersistTradeNo(w) \/ NotifyPaid(w) \/ NotifyProcessing(w) \/ FinalizePending(w)
    BY <2>14 DEF TypeOK, GrantInv, PersistTradeNo, NotifyPaid, NotifyProcessing,
       FinalizePending, PaidStage
  <2>15. CASE CancelPayment(w)
    BY <2>15 DEF TypeOK, GrantInv, CancelPayment, LeftOpen
  <2> QED
    BY <2>1, <2>2, <2>3, <2>4, <2>5, <2>6, <2>7, <2>8, <2>9, <2>10, <2>11, <2>12,
       <2>13, <2>14, <2>15 DEF Work
<1>2. SettledMeansDelivered'
  <2>1. granted = 1 => granted' = 1
    <3>1. CASE Redeem(w)
      BY <3>1 DEF GrantInv, Redeem
    <3>2. CASE AssignSubscription(w)
      BY <3>2 DEF GrantInv, AssignSubscription
    <3> QED
      BY <3>1, <3>2, WorkFrame DEF CreateCode, AuditAssigned, ApplyAffiliateRebate, Announce
  <2>2. rebates = 1 => rebates' = 1
    <3>1. CASE ApplyAffiliateRebate(w)
      BY <3>1 DEF GrantInv, ApplyAffiliateRebate
    <3> QED
      BY <3>1, WorkFrame DEF CreateCode, Redeem, AssignSubscription, AuditAssigned, Announce
  <2>3. CASE Settled
    BY <2>1, <2>2, <2>3 DEF GrantInv, SettledMeansDelivered
  <2>4. CASE ~Settled /\ Settled'
    BY <2>1, <2>2, <2>4, WorkSettles DEF GrantInv, SettledMeansDelivered
  <2> QED
    BY <2>3, <2>4 DEF SettledMeansDelivered
<1> QED
  BY <1>1, <1>2 DEF GrantInv

----------------------------------------------------------------------------
(* A recorded payment is not forgotten.                                    *)

StatusInv == SnapInv /\ PaidNotForgotten

LEMMA LifecycleStatus == TypeOK /\ StatusInv /\ Lifecycle => StatusInv'
<1> SUFFICES ASSUME TypeOK, StatusInv, Lifecycle PROVE StatusInv'
  OBVIOUS
<1>1. SnapInv'
  BY DEF StatusInv, SnapInv, Lifecycle, InvokeProvider, PersistCreateResponse,
     CreateFailed, ProviderMoves, BecomeOverdue, Age, RefundStep
<1>2. PaidNotForgotten'
  <2>1. CASE PersistCreateResponse
    BY <2>1, SaveFacts DEF TypeOK, PersistCreateResponse, rowVars, StatusInv, PaidNotForgotten
  <2>2. CASE CreateFailed
    <3>1. "FAILED" \in Statuses
      BY DEF Statuses, Fulfillable
    <3> QED
      BY <2>2, <3>1, SaveStatusFacts DEF CreateFailed, PaidNotForgotten, Unpaid
  <2>3. CASE Age
    BY <2>3 DEF TypeOK, Orders, Age, StatusInv, PaidNotForgotten
  <2>4. CASE RefundStep
    <3>1. {"COMPLETED"} \cup Refund \subseteq Statuses \ Unpaid
      BY DEF Statuses, Refund, Unpaid
    <3> QED
      BY <2>4, <3>1, SaveStatusFacts DEF RefundStep, PaidNotForgotten
  <2>5. CASE UNCHANGED order
    BY <2>5 DEF StatusInv, PaidNotForgotten
  <2> QED
    BY <2>1, <2>2, <2>3, <2>4, <2>5 DEF Lifecycle, InvokeProvider, ProviderMoves,
       BecomeOverdue, rowVars
<1> QED
  BY <1>1, <1>2 DEF StatusInv

LEMMA StartStatus ==
  ASSUME TypeOK, StatusInv, NEW w \in Workers, Start(w) PROVE StatusInv'
  BY StartFacts DEF TypeOK, StatusInv, SnapInv, PaidNotForgotten

LEMMA MishapStatus ==
  ASSUME TypeOK, StatusInv, NEW w \in Workers, Mishap(w) PROVE StatusInv'
  BY MishapFacts DEF TypeOK, StatusInv, SnapInv, PaidNotForgotten, Forget, Leased

LEMMA WorkStatus ==
  ASSUME TypeOK, StatusInv, NEW w \in Workers, Work(w) PROVE StatusInv'
<1>1. SnapInv'
  <2> USE DEF TypeOK, StatusInv, SnapInv, Goto, Done, Keep, Forget
  <2>1. CASE MarkPaymentProcessing(w) \/ MarkPaymentFailed(w) \/ ReloadFailed(w)
    BY <2>1 DEF MarkPaymentProcessing, MarkPaymentFailed, ReloadFailed
  <2>2. CASE ToPaid(w) \/ ReloadPaid(w)
    BY <2>2 DEF ToPaid, ReloadPaid, PaidStage, Recoverable
  <2>3. CASE ExecuteFulfillment(w) \/ AcquireLease(w) \/ ReadLease(w) \/ LookupCode(w)
    BY <2>3 DEF ExecuteFulfillment, AcquireLease, ReadLease, LookupCode
  <2>4. CASE CreateCode(w) \/ Redeem(w) \/ CheckAssigned(w) \/ AssignSubscription(w)
    BY <2>4 DEF CreateCode, Redeem, CheckAssigned, AssignSubscription
  <2>5. CASE AuditAssigned(w) \/ ApplyAffiliateRebate(w) \/ MarkCompleted(w)
    BY <2>5 DEF AuditAssigned, ApplyAffiliateRebate, MarkCompleted
  <2>6. CASE ReloadCompleted(w) \/ CheckAnnounced(w) \/ Announce(w) \/ MarkFailed(w)
    BY <2>6 DEF ReloadCompleted, CheckAnnounced, Announce, MarkFailed
  <2>7. CASE QueryProvider(w)
    BY <2>7 DEF QueryProvider, ApplyResponse
  <2>8. CASE PersistTradeNo(w) \/ NotifyPaid(w) \/ NotifyProcessing(w)
    BY <2>8 DEF PersistTradeNo, NotifyPaid, NotifyProcessing, PaidStage, Recoverable
  <2>9. CASE CancelPayment(w) \/ FinalizePending(w)
    BY <2>9 DEF CancelPayment, LeftOpen, FinalizePending
  <2> QED
    BY <2>1, <2>2, <2>3, <2>4, <2>5, <2>6, <2>7, <2>8, <2>9 DEF Work
<1>2. PaidNotForgotten'
  <2> USE DEF StatusInv, PaidNotForgotten, Unpaid
  <2>1. {"PROCESSING", "EXPIRED", "CANCELLED", "RECHARGING", "FAILED", "COMPLETED"} \subseteq Statuses
    BY DEF Statuses, Unpaid, Fulfillable
  <2>2. CASE MarkPaymentProcessing(w) \/ MarkPaymentFailed(w)
    BY <2>1, <2>2, SaveStatusFacts DEF MarkPaymentProcessing, MarkPaymentFailed, SnapInv, rowVars
  <2>3. CASE ToPaid(w)
    BY <2>3, SavePaidFacts DEF ToPaid, rowVars
  <2>4. CASE AcquireLease(w) \/ MarkCompleted(w) \/ MarkFailed(w)
    BY <2>1, <2>4, SaveStatusFacts DEF AcquireLease, MarkCompleted, MarkFailed, rowVars
  <2>5. CASE PersistTradeNo(w)
    BY <2>5, SaveFacts DEF TypeOK, PersistTradeNo
  <2>6. CASE FinalizePending(w)
    BY <2>1, <2>6, SaveStatusFacts DEF FinalizePending, FinalStatus, rowVars
  <2>7. CASE UNCHANGED order
    BY <2>7
  <2> QED
    BY <2>2, <2>3, <2>4, <2>5, <2>6, <2>7 DEF Work, ReloadFailed, ReloadPaid,
       ExecuteFulfillment, ReadLease, LookupCode, CreateCode, Redeem, CheckAssigned,
       AssignSubscription, AuditAssigned, ApplyAffiliateRebate, ReloadCompleted,
       CheckAnnounced, Announce, QueryProvider, NotifyPaid, NotifyProcessing,
       CancelPayment, LeftOpen, rowVars
<1> QED
  BY <1>1, <1>2 DEF StatusInv

----------------------------------------------------------------------------
(* One worker at a time fulfils the order.                                 *)

\* Without errors of CreateOrder only Age touches a lease from outside.
LEMMA LifecycleLease ==
  TypeOK /\ CreateInv /\ LeaseInv /\ Lifecycle => LeaseInv' /\ CreateInv'
<1> SUFFICES ASSUME TypeOK, CreateInv, LeaseInv, Lifecycle PROVE LeaseInv' /\ CreateInv'
  OBVIOUS
<1> USE DEF LeaseInv, CreateInv
<1>1. CASE InvokeProvider \/ BecomeOverdue
  BY <1>1 DEF InvokeProvider, BecomeOverdue, rowVars
<1>2. CASE PersistCreateResponse
  BY <1>2, SaveFacts DEF TypeOK, PersistCreateResponse, rowVars
<1>3. CASE CreateFailed
  BY <1>3 DEF CreateFailed
<1>4. CASE \E s \in {"processing", "paid", "mispaid", "failed"} : ProviderMoves(s)
  BY <1>4 DEF ProviderMoves, rowVars
<1>5. CASE Age
  <2>1. order'.status = order.status /\ order'.age = order.age + 1 /\ order.age \in {0, 1}
    BY <1>5 DEF TypeOK, Orders, Ages, Age
  <2>2. UNCHANGED <<pc, creating>> /\ faults \in Nat /\ faults' \in {faults, faults + 1}
    BY <1>5, ConstantsAssumption DEF TypeOK, Age
  <2>3. ASSUME NEW w \in Workers, pc[w] \in Claimers, order.age = 1 PROVE faults' = faults + 1
    BY <1>5, <2>3 DEF Age, Claimers
  <2> QED
    BY <2>1, <2>2, <2>3
<1>6. CASE RefundStep
  BY <1>6 DEF RefundStep, Settled, Refund
<1> QED
  BY <1>1, <1>2, <1>3, <1>4, <1>5, <1>6 DEF Lifecycle

LEMMA StartLease ==
  ASSUME TypeOK, LeaseInv, NEW w \in Workers, Start(w) PROVE LeaseInv'
  BY StartFacts DEF TypeOK, LeaseInv, Claimers, Leased

LEMMA MishapLease ==
  ASSUME TypeOK, LeaseInv, NEW w \in Workers, Mishap(w) PROVE LeaseInv'
<1>1. faults' # 0
  BY MishapFacts, ConstantsAssumption DEF TypeOK
<1> QED
  BY <1>1 DEF LeaseInv

LEMMA WorkLease ==
  ASSUME TypeOK, SnapInv, LeaseInv, NEW w \in Workers, Work(w) PROVE LeaseInv'
<1> SUFFICES ASSUME ~CreateErrors, faults' = 0
             PROVE  /\ \A v \in Workers : pc'[v] \in Claimers =>
                         order'.status = "RECHARGING" /\ order'.age < 2
                    /\ \A u, v \in Workers : pc'[u] \in Claimers /\ pc'[v] \in Claimers => u = v
  BY DEF LeaseInv
<1> USE DEF Goto, Done, Keep, Forget, Claimers, Leased
<1>1. faults = 0
  BY WorkFrame, ConstantsAssumption DEF CancelPayment, LeftOpen, TypeOK
<1>2. /\ \A v \in Workers : pc[v] \in Claimers => order.status = "RECHARGING" /\ order.age < 2
      /\ \A u, v \in Workers : pc[u] \in Claimers /\ pc[v] \in Claimers => u = v
  BY <1>1 DEF LeaseInv
<1>3. {"PROCESSING", "EXPIRED", "CANCELLED", "RECHARGING", "FAILED", "COMPLETED"} \subseteq Statuses
  BY DEF Statuses, Unpaid, Fulfillable
\* Whoever writes an unpaid status found one: no lease is held then.
<1>4. CASE MarkPaymentProcessing(w) \/ MarkPaymentFailed(w) \/ FinalizePending(w)
  BY <1>2, <1>3, <1>4, SaveStatusFacts DEF TypeOK, SnapInv, MarkPaymentProcessing,
     MarkPaymentFailed, FinalizePending, FinalStatus, rowVars
<1>5. CASE ToPaid(w)
  BY <1>2, <1>5, SavePaidFacts DEF TypeOK, SnapInv, ToPaid, Unpaid, rowVars
<1>6. CASE ReloadFailed(w) \/ ReloadPaid(w) \/ ExecuteFulfillment(w)
  BY <1>2, <1>6 DEF TypeOK, ReloadFailed, ReloadPaid, PaidStage, ExecuteFulfillment, rowVars
\* A claim finds no other: a claimed order is RECHARGING and young.
<1>7. CASE AcquireLease(w)
  <2>1. CASE Claimable
    <3>1. \A v \in Workers : pc[v] \notin Claimers
      BY <1>2, <2>1 DEF Claimable
    <3> QED
      BY <1>3, <1>7, <2>1, <3>1, SaveStatusFacts DEF TypeOK, AcquireLease
  <2>2. CASE ~Claimable
    BY <1>2, <1>7, <2>2 DEF TypeOK, AcquireLease, rowVars
  <2> QED
    BY <2>1, <2>2
<1>8. CASE ReadLease(w) \/ LookupCode(w) \/ CreateCode(w) \/ Redeem(w)
  BY <1>2, <1>8 DEF TypeOK, ReadLease, LookupCode, CreateCode, Redeem, rowVars
<1>9. CASE CheckAssigned(w) \/ AssignSubscription(w) \/ AuditAssigned(w) \/ ApplyAffiliateRebate(w)
  BY <1>2, <1>9 DEF TypeOK, CheckAssigned, AssignSubscription, AuditAssigned,
     ApplyAffiliateRebate, rowVars
<1>10. CASE MarkCompleted(w) \/ MarkFailed(w)
  BY <1>2, <1>3, <1>10, SaveStatusFacts DEF TypeOK, MarkCompleted, MarkFailed, rowVars
<1>11. CASE ReloadCompleted(w) \/ CheckAnnounced(w) \/ Announce(w)
  BY <1>2, <1>11 DEF TypeOK, ReloadCompleted, CheckAnnounced, Announce, rowVars
<1>12. CASE QueryProvider(w)
  BY <1>2, <1>12 DEF TypeOK, QueryProvider, ApplyResponse, rowVars
<1>13. CASE PersistTradeNo(w)
  BY <1>2, <1>13, SaveFacts DEF TypeOK, PersistTradeNo
<1>14. CASE NotifyPaid(w) \/ NotifyProcessing(w) \/ CancelPayment(w)
  BY <1>2, <1>14 DEF TypeOK, NotifyPaid, PaidStage, NotifyProcessing, CancelPayment, LeftOpen, rowVars
<1> QED
  BY <1>4, <1>5, <1>6, <1>7, <1>8, <1>9, <1>10, <1>11, <1>12, <1>13, <1>14 DEF Work

----------------------------------------------------------------------------
(* What the steps do to the status.                                        *)

LEMMA LifecycleMoves ==
  ASSUME TypeOK, Lifecycle
  PROVE  /\ order'.paidAt = order.paidAt
         /\ \/ order'.status = order.status
            \/ CreateFailed /\ order'.status = "FAILED"
            \/ Settled /\ order'.status \in {"COMPLETED"} \cup Refund
         /\ UNCHANGED <<pc, job, snap, notified>>
<1> USE DEF rowVars, grantVars
<1>1. CASE PersistCreateResponse
  BY <1>1, SaveFacts DEF TypeOK, PersistCreateResponse
<1>2. CASE CreateFailed
  <2>1. "FAILED" \in Statuses
    BY DEF Statuses, Fulfillable
  <2> QED
    BY <1>2, <2>1, SaveStatusFacts DEF CreateFailed
<1>3. CASE Age
  BY <1>3 DEF TypeOK, Orders, Age
<1>4. CASE RefundStep
  <2>1. {"COMPLETED"} \cup Refund \subseteq Statuses
    BY DEF Statuses, Refund
  <2> QED
    BY <1>4, <2>1, SaveStatusFacts DEF RefundStep
<1> QED
  BY <1>1, <1>2, <1>3, <1>4 DEF Lifecycle, InvokeProvider, ProviderMoves, BecomeOverdue

\* Seven steps of a job write a status, each over one it has found.
LEMMA WorkMoves ==
  ASSUME TypeOK, NEW w \in Workers, Work(w)
  PROVE  \/ order'.status = order.status /\ order'.paidAt = order.paidAt
         \/ ToPaid(w) /\ order.status = snap[w] /\ order'.status = "PAID" /\ order'.paidAt
         \/ /\ order'.paidAt = order.paidAt
            /\ \/ /\ MarkPaymentProcessing(w)
                  /\ order.status = "PENDING" /\ order'.status = "PROCESSING"
               \/ MarkPaymentFailed(w) /\ order.status = snap[w] /\ order'.status = "EXPIRED"
               \/ /\ AcquireLease(w) /\ order.status \in Fulfillable
                  /\ order'.status = "RECHARGING"
               \/ /\ MarkCompleted(w) /\ order.status = "RECHARGING"
                  /\ order'.status = "COMPLETED"
               \/ /\ MarkFailed(w) /\ order.status = "RECHARGING" /\ order'.status = "FAILED"
               \/ /\ FinalizePending(w) /\ order.status = "PENDING"
                  /\ order'.status \in {"EXPIRED", "CANCELLED"}
<1> USE DEF rowVars
<1>1. {"PROCESSING", "EXPIRED", "CANCELLED", "RECHARGING", "FAILED", "COMPLETED"} \subseteq Statuses
  BY DEF Statuses, Unpaid, Fulfillable
<1>2. CASE MarkPaymentProcessing(w) \/ MarkPaymentFailed(w)
  BY <1>1, <1>2, SaveStatusFacts DEF MarkPaymentProcessing, MarkPaymentFailed
<1>3. CASE ToPaid(w)
  BY <1>3, SavePaidFacts DEF ToPaid
<1>4. CASE AcquireLease(w)
  BY <1>1, <1>4, SaveStatusFacts DEF AcquireLease, Claimable, Fulfillable
<1>5. CASE MarkCompleted(w) \/ MarkFailed(w)
  BY <1>1, <1>5, SaveStatusFacts DEF MarkCompleted, MarkFailed, OwnsLease
<1>6. CASE FinalizePending(w)
  BY <1>1, <1>6, SaveStatusFacts DEF FinalizePending, FinalStatus
<1>7. CASE PersistTradeNo(w)
  BY <1>7, SaveFacts DEF TypeOK, PersistTradeNo
<1>8. CASE UNCHANGED order
  BY <1>8
<1> QED
  BY <1>2, <1>3, <1>4, <1>5, <1>6, <1>7, <1>8 DEF Work, ReloadFailed, ReloadPaid,
     ExecuteFulfillment, ReadLease, LookupCode, CreateCode, Redeem, CheckAssigned,
     AssignSubscription, AuditAssigned, ApplyAffiliateRebate, ReloadCompleted,
     CheckAnnounced, Announce, QueryProvider, NotifyPaid, NotifyProcessing,
     CancelPayment, LeftOpen

----------------------------------------------------------------------------
(* No order is closed while its payment may still come.                    *)

LEMMA LifecycleClosed == TypeOK /\ ClosedInv /\ Lifecycle => ClosedInv'
<1> SUFFICES ASSUME TypeOK, ClosedInv, Lifecycle PROVE ClosedInv'
  OBVIOUS
<1> USE DEF ClosedInv, remoteVars, rowVars
<1>1. /\ creating' = "invoke" => creating = "invoke"
      /\ \/ InvokeProvider
         \/ \E s \in {"processing", "paid", "mispaid", "failed"} : ProviderMoves(s)
         \/ UNCHANGED <<upstream, events>>
  BY DEF Lifecycle, InvokeProvider, PersistCreateResponse, CreateFailed, ProviderMoves,
     BecomeOverdue, Age, RefundStep
<1>2. /\ creating' = "invoke" => upstream' = "none"
      /\ upstream' = "failed" => "failed" \in events'
      /\ Over => Over'
  <2>1. CASE InvokeProvider
    BY <2>1 DEF InvokeProvider, Over
  <2>2. ASSUME NEW s \in {"processing", "paid", "mispaid", "failed"}, ProviderMoves(s)
        PROVE  /\ creating' = "invoke" => upstream' = "none"
               /\ upstream' = "failed" => "failed" \in events'
               /\ Over => Over'
    BY <2>2 DEF ProviderMoves, Over
  <2>3. CASE UNCHANGED <<upstream, events>>
    BY <1>1, <2>3 DEF Over
  <2> QED
    BY <1>1, <2>1, <2>2, <2>3
<1>3. ClosedBeforeTerminal'
  <2>1. order'.status \in {"CANCELLED", "EXPIRED"} => order'.status = order.status
    BY LifecycleMoves DEF Refund
  <2> QED
    BY <1>2, <2>1 DEF ClosedBeforeTerminal, Over
<1> QED
  BY <1>2, <1>3, LifecycleMoves

LEMMA StartClosed ==
  ASSUME TypeOK, ClosedInv, NEW w \in Workers, Start(w) PROVE ClosedInv'
<1>1. /\ UNCHANGED <<order, creating, upstream, events>>
      /\ \A v \in Workers : v # w => pc'[v] = pc[v]
  BY StartFacts DEF TypeOK
<1>2. Provider \in {"stripe", "wxpay"} /\ pc'[w] \in ClosingStages => Over
  BY DEF TypeOK, Start, Begin, Goto, Over, ClosingStages, WebhookPaid, PaidStage,
     WebhookProcessing, WebhookFailed, RetryFulfillment, ReconcilePaid, CancelOrder,
     ExpireTimedOut, VerifyOrder, ReconcilePendingWxpay, ReconcileProcessing
<1> QED
  BY <1>1, <1>2 DEF ClosedInv, ClosedBeforeTerminal, Over

LEMMA MishapClosed ==
  ASSUME TypeOK, ClosedInv, NEW w \in Workers, Mishap(w) PROVE ClosedInv'
  BY MishapFacts DEF TypeOK, ClosedInv, ClosedBeforeTerminal, Over, ClosingStages

\* Who reaches a closing stage has closed the payment or was told of a failure.
LEMMA WorkCloses ==
  ASSUME TypeOK, ClosedInv, NEW w \in Workers, Work(w), Provider \in {"stripe", "wxpay"},
         pc'[w] \in ClosingStages
  PROVE  Over'
<1> USE DEF TypeOK, ClosedInv, ClosingStages, Over, Goto, Done, Forget, Keep
<1>1. CASE QueryProvider(w)
  BY <1>1 DEF QueryProvider, ApplyResponse, Responses, Unmoved, remoteVars
<1>2. CASE CancelPayment(w)
  BY <1>2 DEF CancelPayment, LeftOpen
<1>3. CASE pc[w] \in ClosingStages
  BY <1>3, WorkFrame DEF CancelPayment
<1> QED
  BY <1>1, <1>2, <1>3 DEF Work, MarkPaymentProcessing, MarkPaymentFailed, ReloadFailed,
     ToPaid, ReloadPaid, PaidStage, ExecuteFulfillment, AcquireLease, ReadLease, LookupCode,
     CreateCode, Redeem, CheckAssigned, AssignSubscription, AuditAssigned,
     ApplyAffiliateRebate, MarkCompleted, ReloadCompleted, CheckAnnounced, Announce,
     MarkFailed, PersistTradeNo, NotifyPaid, NotifyProcessing, FinalizePending

LEMMA WorkOthers ==
  ASSUME TypeOK, NEW w \in Workers, Work(w)
  PROVE  \A v \in Workers : v # w => pc'[v] = pc[v]
  BY DEF Work, TypeOK, Goto, Done, MarkPaymentProcessing, MarkPaymentFailed, ReloadFailed,
     ToPaid, ReloadPaid, ExecuteFulfillment, AcquireLease, ReadLease, LookupCode,
     CreateCode, Redeem, CheckAssigned, AssignSubscription, AuditAssigned,
     ApplyAffiliateRebate, MarkCompleted, ReloadCompleted, CheckAnnounced, Announce,
     MarkFailed, QueryProvider, ApplyResponse, PersistTradeNo, NotifyPaid,
     NotifyProcessing, CancelPayment, FinalizePending

LEMMA WorkClosed ==
  ASSUME TypeOK, ClosedInv, NEW w \in Workers, Work(w) PROVE ClosedInv'
<1>1. /\ creating' = "invoke" => upstream' = "none"
      /\ upstream' = "failed" => "failed" \in events'
  <2>1. CASE CancelPayment(w)
    BY <2>1 DEF ClosedInv, CancelPayment, LeftOpen
  <2>2. CASE UNCHANGED upstream
    BY <2>2, WorkFrame DEF ClosedInv
  <2> QED
    BY <2>1, <2>2, WorkFrame
<1>2. ASSUME Provider \in {"stripe", "wxpay"}, Over PROVE Over'
  <2>1. CASE CancelPayment(w)
    BY <1>2, <2>1 DEF Over, CancelPayment, LeftOpen
  <2>2. CASE UNCHANGED upstream
    BY <1>2, <2>2, WorkFrame DEF Over
  <2> QED
    BY <2>1, <2>2, WorkFrame
<1>3. ASSUME Provider \in {"stripe", "wxpay"}, NEW v \in Workers, pc'[v] \in ClosingStages
      PROVE  Over'
  BY <1>2, <1>3, WorkCloses, WorkOthers DEF ClosedInv
<1>4. ClosedBeforeTerminal'
  <2> SUFFICES ASSUME Provider \in {"stripe", "wxpay"}, order'.status \in {"CANCELLED", "EXPIRED"}
               PROVE  Over'
    BY DEF ClosedBeforeTerminal, Over
  <2>1. CASE order'.status = order.status
    BY <1>2, <2>1 DEF ClosedInv, ClosedBeforeTerminal, Over
  <2>2. CASE MarkPaymentFailed(w) \/ FinalizePending(w)
    BY <1>2, <2>2 DEF ClosedInv, ClosingStages, MarkPaymentFailed, FinalizePending
  <2> QED
    BY <2>1, <2>2, WorkMoves
<1> QED
  BY <1>1, <1>3, <1>4 DEF ClosedInv

----------------------------------------------------------------------------
(* The payment of an order to be fulfilled is recorded.                    *)

LEMMA LifecycleDated == TypeOK /\ CreateInv /\ DatedInv /\ Lifecycle => DatedInv'
  BY LifecycleMoves DEF CreateInv, CreateFailed, DatedInv, Fulfillable, Refund

LEMMA WorkDated ==
  ASSUME TypeOK, DatedInv, NEW w \in Workers, Work(w) PROVE DatedInv'
  BY WorkMoves DEF DatedInv, Fulfillable

----------------------------------------------------------------------------
(* The customer is told once.                                              *)

LEMMA LifecycleNotice == TypeOK /\ CreateInv /\ NoticeInv /\ Lifecycle => NoticeInv'
<1> SUFFICES ASSUME TypeOK, CreateInv, NoticeInv, Lifecycle, ~CreateErrors PROVE NoticeInv'
  BY DEF NoticeInv
<1>1. Settled => Settled'
  BY LifecycleMoves DEF CreateInv, CreateFailed, Settled
<1> QED
  BY <1>1, LifecycleMoves DEF NoticeInv

LEMMA StartNotice ==
  ASSUME TypeOK, NoticeInv, NEW w \in Workers, Start(w) PROVE NoticeInv'
  BY StartFacts DEF TypeOK, NoticeInv, Announcers, Settled

LEMMA MishapNotice ==
  ASSUME TypeOK, NoticeInv, NEW w \in Workers, Mishap(w) PROVE NoticeInv'
  BY MishapFacts DEF TypeOK, NoticeInv, Announcers, Settled, Leased

LEMMA WorkNotice ==
  ASSUME TypeOK, SnapInv, NoticeInv, NEW w \in Workers, Work(w) PROVE NoticeInv'
<1> SUFFICES ASSUME ~CreateErrors PROVE NoticeInv'
  BY DEF NoticeInv
<1> USE DEF Goto, Done, Forget, Keep, Announcers
<1>0. notified \in Nat /\ \A v \in Workers : v # w => pc'[v] = pc[v]
  BY WorkOthers DEF TypeOK
<1>1. Settled => Settled'
  BY WorkMoves DEF Settled, SnapInv, Unpaid, Fulfillable, Refund, ToPaid, MarkPaymentFailed
\* An order is completed when it was not settled: nobody has announced it.
<1>2. CASE MarkCompleted(w)
  <2>1. CASE OwnsLease(w)
    <3>1. ~Settled /\ Settled'
      <4>1. "COMPLETED" \in Statuses
        BY DEF Statuses
      <4> QED
        BY <1>2, <2>1, <4>1, SaveStatusFacts DEF MarkCompleted, OwnsLease, Settled, Refund
    <3>2. notified = 0 /\ notified' = notified /\ \A v \in Workers : pc[v] \notin Announcers
      BY <1>0, <1>2, <3>1 DEF NoticeInv, MarkCompleted, Unmoved, grantVars
    <3> QED
      BY <1>0, <3>1, <3>2 DEF NoticeInv
  <2>2. CASE ~OwnsLease(w)
    BY <1>0, <1>1, <1>2, <2>2 DEF TypeOK, NoticeInv, MarkCompleted, Unmoved, grantVars
  <2> QED
    BY <2>1, <2>2
<1>3. CASE CheckAnnounced(w)
  BY <1>0, <1>1, <1>3 DEF TypeOK, NoticeInv, CheckAnnounced, Unmoved, grantVars
<1>4. CASE Announce(w)
  BY <1>0, <1>1, <1>4 DEF TypeOK, NoticeInv, Announce
<1>5. ASSUME notified' = notified, pc'[w] \notin Announcers PROVE NoticeInv'
  BY <1>0, <1>1, <1>5 DEF NoticeInv
<1>6. CASE ~(MarkCompleted(w) \/ CheckAnnounced(w) \/ Announce(w))
  <2>1. notified' = notified
    BY <1>6, WorkFrame DEF grantVars, CreateCode, Redeem, AssignSubscription, AuditAssigned,
       ApplyAffiliateRebate
  <2>2. pc'[w] \notin Announcers
    BY <1>6 DEF TypeOK, Work, MarkPaymentProcessing, MarkPaymentFailed, ReloadFailed,
       ToPaid, ReloadPaid, PaidStage, ExecuteFulfillment, AcquireLease, ReadLease,
       LookupCode, CreateCode, Redeem, CheckAssigned, AssignSubscription, AuditAssigned,
       ApplyAffiliateRebate, ReloadCompleted, MarkFailed, QueryProvider, ApplyResponse,
       PersistTradeNo, NotifyPaid, NotifyProcessing, CancelPayment, FinalizePending
  <2> QED
    BY <1>5, <2>1, <2>2
<1> QED
  BY <1>2, <1>3, <1>4, <1>6

----------------------------------------------------------------------------
(* The invariant.                                                          *)

LEMMA InitIInv == Init => IInv
<1> SUFFICES ASSUME Init PROVE IInv
  OBVIOUS
<1> USE DEF Init
<1>1. order \in Orders /\ order.status = "PENDING" /\ order.paidAt = FALSE
  BY DEF Orders, Statuses, Unpaid, Ages
<1>2. TypeOK
  <2>1. faults \in 0..MaxFaults
    BY ConstantsAssumption
  <2>2. /\ pc \in [Workers -> Stages] /\ job \in [Workers -> Jobs \cup {Nil}]
        /\ snap \in [Workers -> Statuses \cup {Nil}] /\ tries \in [Workers -> Nat]
        /\ holds \in [Workers -> BOOLEAN]
    BY DEF Stages
  <2> QED
    BY <1>1, <2>1, <2>2 DEF TypeOK
<1>3. PaidInv
  BY <1>1 DEF PaidInv, PaidStages, Leased, Refund
<1>4. GrantInv
  BY <1>1 DEF GrantInv, SettledMeansDelivered, Settled, Refund, BalanceStages,
     SubscriptionStages, GrantedStages, RebatedStages
<1>5. SnapInv /\ PaidNotForgotten /\ CreateInv /\ LeaseInv
  BY <1>1 DEF SnapInv, PaidNotForgotten, CreateInv, LeaseInv, Claimers, Leased
<1>6. ClosedInv /\ DatedInv /\ NoticeInv
  BY <1>1 DEF ClosedInv, ClosedBeforeTerminal, ClosingStages, DatedInv, Fulfillable,
     NoticeInv, Announcers
<1> QED
  BY <1>2, <1>3, <1>4, <1>5, <1>6 DEF IInv

LEMMA NextIInv == IInv /\ [Next]_vars => IInv'
<1> SUFFICES ASSUME IInv, [Next]_vars PROVE IInv'
  OBVIOUS
<1> USE DEF StatusInv
<1>1. TypeOK'
  BY TypeStep DEF IInv
<1>2. CASE Lifecycle
  BY <1>1, <1>2, LifecyclePaid, LifecycleGrant, LifecycleStatus, LifecycleLease,
     LifecycleClosed, LifecycleDated, LifecycleNotice DEF IInv
<1>3. ASSUME NEW w \in Workers, Start(w) PROVE IInv'
  <2>1. CreateInv'
    BY <1>3, StartFacts DEF IInv, CreateInv
  <2>2. DatedInv'
    BY <1>3, StartFacts DEF IInv, DatedInv
  <2> QED
    BY <1>1, <1>3, <2>1, <2>2, StartPaid, StartGrant, StartStatus, StartLease,
       StartClosed, StartNotice DEF IInv
<1>4. ASSUME NEW w \in Workers, Work(w) PROVE IInv'
  <2>1. CreateInv'
    BY <1>4, WorkFrame DEF IInv, CreateInv
  <2> QED
    BY <1>1, <1>4, <2>1, WorkPaid, WorkGrant, WorkStatus, WorkLease, WorkClosed,
       WorkDated, WorkNotice DEF IInv
<1>5. ASSUME NEW w \in Workers, Mishap(w) PROVE IInv'
  <2>1. CreateInv'
    BY <1>5, MishapFacts DEF IInv, CreateInv
  <2>2. DatedInv'
    BY <1>5, MishapFacts DEF IInv, DatedInv
  <2> QED
    BY <1>1, <1>5, <2>1, <2>2, MishapPaid, MishapGrant, MishapStatus, MishapLease,
       MishapClosed, MishapNotice DEF IInv
<1>6. CASE UNCHANGED vars
  BY <1>1, <1>6 DEF IInv, PaidInv, GrantInv, SettledMeansDelivered, Settled, SnapInv,
     PaidNotForgotten, CreateInv, LeaseInv, ClosedInv, ClosedBeforeTerminal, Over,
     DatedInv, NoticeInv, vars
<1> QED
  BY <1>2, <1>3, <1>4, <1>5, <1>6 DEF Next

\* The whole strengthening holds of every behaviour.
THEOREM Invariant == Spec => []IInv
  BY InitIInv, NextIInv, PTL DEF Spec

\* Every variable keeps its type.
THEOREM TypeCorrect == Spec => []TypeOK
<1>1. IInv => TypeOK
  BY DEF IInv
<1> QED
  BY <1>1, Invariant, PTL

\* One order gives its entitlement once, for any number of workers, crashes
\* and take-overs: the redeem code (or the source order of the subscription)
\* stands for the grant even where the order row does not.
THEOREM GrantOnce == Spec => []GrantedAtMostOnce
<1>1. IInv => GrantedAtMostOnce
  BY DEF IInv, GrantInv, GrantedAtMostOnce
<1> QED
  BY <1>1, Invariant, PTL

\* Nothing is given before the provider has collected the right amount.
THEOREM GrantPaid == Spec => []GrantedOnlyIfPaid
<1>1. IInv => GrantedOnlyIfPaid
  BY DEF IInv, PaidInv, GrantedOnlyIfPaid
<1> QED
  BY <1>1, Invariant, PTL

\* A completed order has really given the entitlement and the rebate.
THEOREM Delivered == Spec => []SettledMeansDelivered
<1>1. IInv => SettledMeansDelivered
  BY DEF IInv, GrantInv
<1> QED
  BY <1>1, Invariant, PTL

\* The inviter's rebate is paid once and only behind the buyer's grant.
THEOREM RebateOnce == Spec => []RebateFollowsGrant
<1>1. IInv => RebateFollowsGrant
  BY DEF IInv, GrantInv, RebateFollowsGrant
<1> QED
  BY <1>1, Invariant, PTL

\* A recorded payment is never covered by an unpaid status: every handler
\* that writes one tests the status it expects in the UPDATE itself.
THEOREM NotForgotten == Spec => []PaidNotForgotten
<1>1. IInv => PaidNotForgotten
  BY DEF IInv
<1> QED
  BY <1>1, Invariant, PTL

\* If CreateOrder meets no error, two workers fulfil the order at once only
\* after one of them has stalled or failed.
THEOREM OneAtATime == ASSUME ~CreateErrors PROVE Spec => []ExclusiveFulfilment
<1>1. IInv => ExclusiveFulfilment
  BY DEF IInv, LeaseInv, ExclusiveFulfilment, Claimers
<1> QED
  BY <1>1, Invariant, PTL

\* An order is cancelled or expires only when Stripe or WeChat Pay can collect no
\* more for it or has reported a failure: who writes that status comes from
\* CancelPayment, from a query or from a notification that said so.
THEOREM ClosedFirst == Spec => []ClosedBeforeTerminal
<1>1. IInv => ClosedBeforeTerminal
  BY DEF IInv, ClosedInv
<1> QED
  BY <1>1, Invariant, PTL

\* If CreateOrder meets no error, an order in fulfilment has paid_at, which the
\* administrator's retry and the reconcile job ask for.
THEOREM Recoverability == ASSUME ~CreateErrors PROVE Spec => []RechargingIsRecoverable
<1>1. IInv => RechargingIsRecoverable
  BY DEF IInv, DatedInv, RechargingIsRecoverable, Fulfillable
<1> QED
  BY <1>1, Invariant, PTL

\* If CreateOrder meets no error, the customer is told once, however many workers
\* find the order completed.
THEOREM ToldOnce == ASSUME ~CreateErrors PROVE Spec => []NotifiedAtMostOnce
<1>1. IInv => NotifiedAtMostOnce
  BY DEF IInv, NoticeInv, NotifiedAtMostOnce
<1> QED
  BY <1>1, Invariant, PTL

\* What is given for an order: once, only for a collected payment, with the
\* rebate behind it and both before the order is completed.
THEOREM GrantSound == Spec => []GrantIsSound
<1>1. GrantedAtMostOnce /\ GrantedOnlyIfPaid /\ SettledMeansDelivered /\ RebateFollowsGrant
        => GrantIsSound
  BY DEF GrantIsSound
<1> QED
  BY <1>1, GrantOnce, GrantPaid, Delivered, RebateOnce, PTL

\* If CreateOrder meets no error, the order keeps its recorded payment and the
\* workers fulfil it one at a time but for those that stalled or failed.
THEOREM PaymentKept == ASSUME ~CreateErrors PROVE Spec => []OrderKeepsPayment
<1>1. TypeOK /\ PaidNotForgotten /\ ExclusiveFulfilment => OrderKeepsPayment
  BY DEF OrderKeepsPayment
<1> QED
  BY <1>1, TypeCorrect, NotForgotten, OneAtATime, PTL

----------------------------------------------------------------------------
(* The refinement.                                                         *)

\* Nothing but a failing CreateOrder unsettles an order.
LEMMA SettledStable ==
  ASSUME IInv, ~CreateErrors, [Next]_vars, Settled PROVE Settled'
<1> USE DEF IInv, Settled, Refund
<1>1. {"COMPLETED"} \cup Refund \subseteq Statuses
  BY DEF Statuses
<1>2. CASE Lifecycle
  <2>1. CASE PersistCreateResponse
    BY <2>1, SaveFacts DEF TypeOK, PersistCreateResponse, rowVars
  <2>2. CASE Age
    BY <2>2 DEF TypeOK, Orders, Age
  <2>3. CASE RefundStep
    BY <1>1, <2>3, SaveStatusFacts DEF RefundStep
  <2>4. ~CreateFailed
    BY DEF CreateFailed, CreateInv
  <2>5. CASE UNCHANGED order
    BY <2>5
  <2> QED
    BY <1>2, <2>1, <2>2, <2>3, <2>4, <2>5 DEF Lifecycle, InvokeProvider, ProviderMoves,
       BecomeOverdue, rowVars
<1>3. ASSUME NEW w \in Workers, Work(w) PROVE Settled'
  <2>1. CASE PersistTradeNo(w)
    BY <2>1, SaveFacts DEF TypeOK, PersistTradeNo
  <2>2. CASE UNCHANGED order
    BY <2>2
  <2> QED
    BY <1>3, <2>1, <2>2 DEF Work, Unmoved, SnapInv, Unpaid, MarkPaymentProcessing,
       MarkPaymentFailed, ReloadFailed, ToPaid, ReloadPaid, ExecuteFulfillment,
       AcquireLease, Claimable, ReadLease, LookupCode, CreateCode, Redeem, CheckAssigned,
       AssignSubscription, AuditAssigned, ApplyAffiliateRebate, MarkCompleted, OwnsLease,
       ReloadCompleted, CheckAnnounced, Announce, MarkFailed, QueryProvider, NotifyPaid,
       NotifyProcessing, CancelPayment, LeftOpen, FinalizePending, rowVars
<1>4. ASSUME NEW w \in Workers, Start(w) \/ Mishap(w) PROVE Settled'
  BY <1>4, StartFacts, MishapFacts
<1>5. CASE UNCHANGED vars
  BY <1>5 DEF vars
<1> QED
  BY <1>2, <1>3, <1>4, <1>5 DEF Next

LEMMA RefineInit == Init => Promise!Init
  BY DEF Init, Promise!Init, Settled, Refund

LEMMA RefineNext ==
  ASSUME IInv, ~CreateErrors, [Next]_vars
  PROVE  [Promise!Next]_(Promise!promise)
<1> USE DEF Promise!Next, Promise!promise
\* The provider collects.
<1>1. CASE Lifecycle
  <2>1. UNCHANGED <<granted, rebates>> /\ ("paid" \in events => "paid" \in events')
    BY <1>1 DEF Lifecycle, InvokeProvider, PersistCreateResponse, CreateFailed,
       ProviderMoves, BecomeOverdue, Age, RefundStep, grantVars, remoteVars
  <2>2. Settled' = Settled
    <3>1. Settled' => Settled
      <4>1. CASE PersistCreateResponse
        BY <4>1, SaveFacts DEF IInv, TypeOK, PersistCreateResponse, rowVars, Settled
      <4>2. CASE Age
        BY <4>2 DEF IInv, TypeOK, Orders, Age, Settled
      <4>3. CASE RefundStep
        BY <4>3 DEF RefundStep, Settled, Refund
      <4>4. ~CreateFailed
        BY DEF IInv, CreateFailed, CreateInv
      <4>5. CASE UNCHANGED order
        BY <4>5 DEF Settled
      <4> QED
        BY <1>1, <4>1, <4>2, <4>3, <4>4, <4>5 DEF Lifecycle, InvokeProvider,
           ProviderMoves, BecomeOverdue, rowVars
    <3> QED
      BY <3>1, SettledStable DEF Settled
  <2> QED
    BY <2>1, <2>2 DEF Promise!Collect
<1>2. ASSUME NEW w \in Workers, Work(w) PROVE [Promise!Next]_(Promise!promise)
  <2>1. UNCHANGED events
    BY <1>2, WorkFrame
  <2>2. CASE MarkCompleted(w)
    <3>1. granted = 1 /\ rebates = 1 /\ UNCHANGED <<granted, rebates>>
      BY <2>2 DEF IInv, GrantInv, RebatedStages, MarkCompleted, Unmoved, grantVars
    <3> QED
      BY <2>1, <3>1, SettledStable DEF Promise!Settle, Settled
  <2>3. CASE ~MarkCompleted(w)
    <3>1. Settled' = Settled
      BY <1>2, <2>3, WorkSettles, SettledStable DEF IInv, Settled
    <3>2. CASE Redeem(w) \/ AssignSubscription(w)
      <4>1. "paid" \in events /\ granted \in {0, 1}
        BY <3>2 DEF IInv, PaidInv, GrantInv, PaidStages, Leased, Redeem, AssignSubscription
      <4>2. granted' \in {granted, 1} /\ rebates' = rebates
        BY <3>2, <4>1 DEF IInv, GrantInv, BalanceStages, Redeem, AssignSubscription
      <4> QED
        BY <2>1, <3>1, <4>1, <4>2 DEF Promise!Give
    <3>3. CASE ApplyAffiliateRebate(w)
      BY <2>1, <3>1, <3>3 DEF IInv, GrantInv, GrantedStages, ApplyAffiliateRebate,
         Promise!Rebate
    <3>4. CASE UNCHANGED <<granted, rebates>>
      BY <2>1, <3>1, <3>4
    <3> QED
      BY <1>2, <3>2, <3>3, <3>4, WorkFrame DEF CreateCode, AuditAssigned, Announce, grantVars
  <2> QED
    BY <2>2, <2>3
<1>3. ASSUME NEW w \in Workers, Start(w) \/ Mishap(w) PROVE [Promise!Next]_(Promise!promise)
  BY <1>3, StartFacts, MishapFacts DEF Settled
<1>4. CASE UNCHANGED vars
  BY <1>4 DEF vars, Settled
<1> QED
  BY <1>1, <1>2, <1>3, <1>4 DEF Next

\* If CreateOrder meets no error the order keeps its promise: whatever the
\* workers do, the money, the entitlement, the rebate and the settlement come
\* in this order and each once.
THEOREM Refinement == ASSUME ~CreateErrors PROVE Spec => KeepsPromise
<1>1. IInv /\ [Next]_vars => [Promise!Next]_(Promise!promise)
  BY RefineNext
<1> QED
  BY <1>1, RefineInit, Invariant, PTL DEF Spec, KeepsPromise, Promise!Spec
=============================================================================
