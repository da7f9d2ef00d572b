---------------------------- MODULE PaymentRefund ----------------------------
(***************************************************************************)
(* The refund of one settled order (payment_refund.go): a user asks for    *)
(* it, administrators execute it, the provider pays now or later, and the  *)
(* entitlement the order gave is taken back.                               *)
(*                                                                         *)
(* A worker is a goroutine running one request.  Every statement on the    *)
(* database and every call of the provider is a step of its own, but for   *)
(* the transaction that finalizes a pending refund, which is one step.     *)
(***************************************************************************)
EXTENDS Integers

CONSTANTS
  Workers,       \* goroutines that may work on the refund at once
  OrderType,     \* "balance" or "subscription"
  Provider,      \* "stripe", "wxpay", "airwallex", "alipay", "easypay"
  Amount,        \* what the order gave: balance, or days of subscription
  Amounts,       \* amounts an administrator may refund
  Funds,         \* what the user has when the refund begins
  Deductions,    \* choices of deduct_balance: a subset of BOOLEAN
  Forces,        \* choices of force: a subset of BOOLEAN
  SilentErrors,  \* TRUE: errors the code ignores or misreads may happen
  MaxFaults,     \* bound of crashes and failed statements
  MaxGain,       \* bound of what rollbacks give beyond what was taken
  Nil

\* What an audit row REFUND_PENDING says.
Details == [amount : Amounts, took : 0..Amount]

ASSUME ConstantsAssumption ==
  /\ OrderType \in {"balance", "subscription"}
  /\ Provider \in {"stripe", "wxpay", "airwallex", "alipay", "easypay"}
  /\ Amount \in Nat \ {0}
  /\ Amounts \subseteq 1..Amount
  /\ Funds \in Nat
  /\ Deductions \subseteq BOOLEAN
  /\ Forces \subseteq BOOLEAN
  /\ Nil \notin Amounts \cup Details
  /\ SilentErrors \in BOOLEAN
  /\ MaxFaults \in Nat
  /\ MaxGain \in Nat

VARIABLES
  order,    \* the row: [status, refundAmount]
  funds,    \* the user's balance, or the days left of the subscription
  revoked,  \* the order's subscription has been deleted
  taken,    \* what refunds have taken from funds, less what they gave back
  gateway,  \* gateway[a]: the provider's refund of amount a
  newest,   \* the amount of Stripe's newest refund of the payment, or Nil
  held,     \* total of the refunds the provider has accepted and not failed
  paid,     \* total it has paid back
  unheard,  \* history: what of it was paid by calls whose answer was lost
  marked,   \* REFUND_ROLLBACK_FAILED is in the audit log
  detail,   \* the latest REFUND_PENDING audit row: [amount, took], or Nil
  pc,       \* pc[w]: the statement w is about to issue
  plan,     \* plan[w]: the RefundPlan of w, or Nil
  answer,   \* answer[w]: what the provider has answered w, or Nil
  faults    \* faults so far

gatewayVars  == <<gateway, newest, held, paid>>
providerVars == <<gateway, newest, held, paid, unheard>>
userVars     == <<funds, revoked, taken>>
auditVars    == <<marked, detail>>
vars == <<order, funds, revoked, taken, gateway, newest, held, paid, unheard,
          marked, detail, pc, plan, answer, faults>>

----------------------------------------------------------------------------

\* psIsRefundStatus, and COMPLETED: PaymentFulfillment leaves a settled order
\* among them, whatever this component does.
OrderStatuses ==
  {"COMPLETED", "REFUND_REQUESTED", "REFUNDING", "REFUND_PENDING",
   "PARTIALLY_REFUNDED", "REFUNDED", "REFUND_FAILED"}

\* Mutant: a partial refund may be followed by another.
RefundableAgain ==
  {"COMPLETED", "REFUND_REQUESTED", "REFUND_PENDING", "REFUND_FAILED", "PARTIALLY_REFUNDED"}

\* Statuses from which a refund may be executed.
Refundable == {"COMPLETED", "REFUND_REQUESTED", "REFUND_PENDING", "REFUND_FAILED"}

Finished == {"REFUNDED", "PARTIALLY_REFUNDED"}

\* Stripe, WeChat and Airwallex name a refund by order and amount, so that a
\* repetition is the same refund, and can be asked for its state.  Alipay's
\* number is the time, EasyPay's interface has none: each call is a new refund.
Keyed == Provider \in {"stripe", "wxpay", "airwallex"}

\* Between the claim (REFUNDING) and the outcome.
Executing == {"checkRollback", "deduct", "gateway", "markOk", "rollback",
              "markRollbackFailed", "markPending", "restore", "markFailed"}

Stages == Executing \cup
          {"idle", "request", "prepare", "claim", "logPending",
           "readDetail", "query", "finalize", "finalizeFailed"}

\* from: p.Order.Status; take: BalanceToDeduct or SubDaysToDeduct, 0 for no
\* deduction; kept: the rollback failed; ask: the refund queried.
Plans == [from : OrderStatuses, amount : Amounts, force : BOOLEAN,
          take : 0..Amount, kept : BOOLEAN, ask : Amounts \cup {Nil}]

Plan(a, f) ==
  [from |-> order.status, amount |-> a, force |-> f, take |-> 0,
   kept |-> FALSE, ask |-> Nil]

Init ==
  /\ order = [status |-> "COMPLETED", refundAmount |-> 0]
  /\ funds = Funds
  /\ revoked = FALSE
  /\ taken = 0
  /\ gateway = [a \in Amounts |-> "none"]
  /\ newest = Nil
  /\ held = 0
  /\ paid = 0
  /\ unheard = 0
  /\ marked = FALSE
  /\ detail = Nil
  /\ pc = [w \in Workers |-> "idle"]
  /\ plan = [w \in Workers |-> Nil]
  /\ answer = [w \in Workers |-> Nil]
  /\ faults = 0

Goto(w, l) == pc' = [pc EXCEPT ![w] = l]

\* The request of w is over.
Done(w) ==
  /\ Goto(w, "idle")
  /\ plan' = [plan EXCEPT ![w] = Nil]
  /\ answer' = [answer EXCEPT ![w] = Nil]

Keep == UNCHANGED <<plan, answer>>

SetStatus(s) == order' = [order EXCEPT !.status = s]

\* The refund amount decides between the two final statuses.
FinalStatus(a) == IF a < Amount THEN "PARTIALLY_REFUNDED" ELSE "REFUNDED"

Least(x, y) == IF x <= y THEN x ELSE y

----------------------------------------------------------------------------
(* RequestRefund, PrepareRefund and the claim of ExecuteRefund.            *)

RequestRefund(w) ==
  /\ pc[w] = "idle"
  /\ OrderType = "balance"
  /\ order.status = "COMPLETED"
  /\ funds >= Amount
  /\ Goto(w, "request") /\ Keep
  /\ UNCHANGED <<order, userVars, providerVars, auditVars, faults>>

ClaimRequest(w) ==
  /\ pc[w] = "request"
  /\ IF order.status = "COMPLETED"
     THEN order' = [status |-> "REFUND_REQUESTED", refundAmount |-> Amount]
     ELSE UNCHANGED order
  /\ Done(w)
  /\ UNCHANGED <<userVars, providerVars, auditVars, faults>>

PrepareRefund(w, a, force) ==
  /\ pc[w] = "idle"
  /\ order.status \in Refundable
  /\ \E deduct \in Deductions : Goto(w, IF deduct THEN "prepare" ELSE "claim")
  /\ plan' = [plan EXCEPT ![w] = Plan(a, force)]
  /\ UNCHANGED <<order, userVars, providerVars, auditVars, answer, faults>>

\* prepDeduct: without force there must be enough to take.
PrepareDeduction(w) ==
  /\ pc[w] = "prepare"
  /\ LET p       == plan[w]
         balance == OrderType = "balance"
         found   == ~revoked /\ funds > 0
         enough  == IF balance THEN funds >= p.amount ELSE found
         want    == IF balance THEN Least(p.amount, funds) ELSE IF found THEN Amount ELSE 0
     IN \/ (enough \/ p.force) /\ Goto(w, "claim")
             /\ plan' = [plan EXCEPT ![w].take = want] /\ UNCHANGED answer
        \/ ~enough /\ ~p.force /\ Done(w)
  /\ UNCHANGED <<order, userVars, providerVars, auditVars, faults>>

ClaimRefund(w) ==
  /\ pc[w] = "claim"
  /\ IF order.status \in Refundable
     THEN /\ SetStatus("REFUNDING")
          /\ Goto(w, IF plan[w].take > 0 THEN "checkRollback" ELSE "gateway") /\ Keep
     ELSE UNCHANGED order /\ Done(w)
  /\ UNCHANGED <<userVars, providerVars, auditVars, faults>>

----------------------------------------------------------------------------
(* ExecuteRefund under the claim.                                          *)

\* Mutant: an earlier deduction that could not be rolled back is forgotten.
CheckRollbackNever(w) ==
  /\ pc[w] = "checkRollback"
  /\ Goto(w, "deduct") /\ Keep
  /\ UNCHANGED <<order, userVars, providerVars, auditVars, faults>>

\* hasAuditLog(REFUND_ROLLBACK_FAILED): what it left taken is not taken again.
CheckRollback(w) ==
  /\ pc[w] = "checkRollback"
  /\ \/ ~marked /\ Goto(w, "deduct") /\ UNCHANGED plan
     \/ marked /\ Goto(w, "gateway") /\ plan' = [plan EXCEPT ![w].take = 0]
  /\ UNCHANGED <<order, userVars, providerVars, auditVars, answer, faults>>

\* What a deduction of x leaves.  The balance is not overdrawn; days taken
\* beyond today end a subscription, and revoke it if they reach its start or if
\* it had ended before; one that is gone cannot be shortened.
Take(x) ==
  /\ ~revoked
  /\ funds' = funds - Least(x, funds)
  /\ taken' = taken + Least(x, funds)
  /\ \/ /\ OrderType = "balance" \/ funds > 0
        /\ UNCHANGED revoked
     \/ /\ OrderType = "subscription"
        /\ x >= funds
        /\ revoked' = TRUE

Deduct(w) ==
  /\ pc[w] = "deduct"
  /\ \/ Take(plan[w].take)
        /\ plan' = [plan EXCEPT ![w].take =
                      IF OrderType = "balance" THEN Least(@, funds) ELSE @]
        /\ Goto(w, "gateway")
     \/ revoked
        /\ Goto(w, "restore") /\ UNCHANGED <<userVars, plan>>
  /\ UNCHANGED <<order, providerVars, auditVars, answer, faults>>

\* The provider's side of a refund of amount a, answered by r.  It accepts no
\* more than was paid.
ProviderRefund(a, r) ==
  \/ /\ r = "error" /\ UNCHANGED gatewayVars
  \/ /\ ~Keyed \/ gateway[a] = "none"
     /\ held + a <= Amount
     /\ held' = held + a
     /\ newest' = IF Provider = "stripe" THEN a ELSE newest
     /\ \/ r = "success" /\ paid' = paid + a /\ gateway' = [gateway EXCEPT ![a] = "success"]
        \/ r = "pending" /\ Keyed /\ UNCHANGED paid /\ gateway' = [gateway EXCEPT ![a] = "pending"]
  \/ /\ Keyed /\ gateway[a] # "none"
     /\ r = "pending" \/ (r = "success" /\ gateway[a] = "success")
     /\ UNCHANGED gatewayVars
  \* A repetition Alipay takes for an earlier refund changes no funds.
  \/ /\ Provider = "alipay" /\ held > 0 /\ r = "pending" /\ UNCHANGED gatewayVars

\* Mutant: a pending refund counts as done.
GatewayRefundHopeful(w) ==
  /\ pc[w] = "gateway"
  /\ \E r \in {"success", "pending", "error"} :
       /\ ProviderRefund(plan[w].amount, r)
       /\ answer' = [answer EXCEPT ![w] = r]
       /\ Goto(w, IF r = "error" THEN "rollback" ELSE "markOk")
  /\ UNCHANGED <<order, userVars, auditVars, plan, unheard, faults>>

GatewayRefund(w) ==
  /\ pc[w] = "gateway"
  /\ \E r \in {"success", "pending", "error"} :
       /\ ProviderRefund(plan[w].amount, r)
       /\ answer' = [answer EXCEPT ![w] = r]
       /\ Goto(w, IF r = "success" THEN "markOk" ELSE "rollback")
  /\ UNCHANGED <<order, userVars, auditVars, plan, unheard, faults>>

MarkRefundOk(w) ==
  /\ pc[w] = "markOk"
  /\ order' = [status |-> FinalStatus(plan[w].amount), refundAmount |-> plan[w].amount]
  /\ Done(w)
  /\ UNCHANGED <<userVars, providerVars, auditVars, faults>>

\* Mutant: a refund that went wrong counts as pending.
AfterRollbackPending(w) == "markPending"

\* The way on from a rollback that succeeded, and from one that did not.
AfterRollback(w) == IF answer[w] = "pending" THEN "markPending" ELSE "restore"
AfterKeeping(w)  == IF answer[w] = "pending" THEN "markPending" ELSE "markFailed"

\* RollbackRefund; a revoked subscription cannot be given back.
Rollback(w) ==
  /\ pc[w] = "rollback"
  /\ LET x    == plan[w].take
         lost == revoked /\ x > 0
     IN \/ ~lost /\ funds' = funds + x /\ taken' = taken - x /\ Goto(w, AfterRollback(w))
        \/ lost /\ UNCHANGED <<funds, taken>> /\ Goto(w, "markRollbackFailed")
  /\ Keep
  /\ UNCHANGED <<order, revoked, providerVars, auditVars, faults>>

MarkRollbackFailed(w) ==
  /\ pc[w] = "markRollbackFailed"
  /\ marked' = TRUE
  /\ plan' = [plan EXCEPT ![w].kept = TRUE]
  /\ Goto(w, AfterKeeping(w))
  /\ UNCHANGED <<order, userVars, providerVars, detail, answer, faults>>

MarkRefundPending(w) ==
  /\ pc[w] = "markPending"
  /\ order' = [status |-> "REFUND_PENDING", refundAmount |-> plan[w].amount]
  /\ Goto(w, "logPending") /\ Keep
  /\ UNCHANGED <<userVars, providerVars, auditVars, faults>>

\* The audit row comes after the status: it holds what is to be taken when
\* the refund succeeds.
LogPending(w) ==
  /\ pc[w] = "logPending"
  /\ detail' = [amount |-> plan[w].amount,
                took   |-> IF plan[w].kept THEN 0 ELSE plan[w].take]
  /\ Done(w)
  /\ UNCHANGED <<order, userVars, providerVars, marked, faults>>

RestoreStatus(w) ==
  /\ pc[w] = "restore"
  /\ SetStatus(IF plan[w].from = "REFUND_REQUESTED" THEN "REFUND_REQUESTED" ELSE "COMPLETED")
  /\ Done(w)
  /\ UNCHANGED <<userVars, providerVars, auditVars, faults>>

MarkRefundFailed(w) ==
  /\ pc[w] = "markFailed"
  /\ SetStatus("REFUND_FAILED")
  /\ Done(w)
  /\ UNCHANGED <<userVars, providerVars, auditVars, faults>>

----------------------------------------------------------------------------
(* QueryAndFinalizeRefund.                                                 *)

QueryAndFinalizeRefund(w) ==
  /\ pc[w] = "idle"
  /\ Keyed
  /\ order.status = "REFUND_PENDING"
  /\ plan' = [plan EXCEPT ![w] = Plan(order.refundAmount, FALSE)]
  /\ Goto(w, "readDetail")
  /\ UNCHANGED <<order, userVars, providerVars, auditVars, answer, faults>>

\* Without its number, Stripe finds the newest refund, WeChat the one of the
\* order's amount; Airwallex none.
FallbackRefund(w) ==
  CASE Provider = "stripe"    -> newest
    [] Provider = "airwallex" -> Nil
    [] OTHER                  -> plan[w].amount

\* latestRefundPendingDetail.  Without a row nothing is to be taken.
ReadDetail(w) ==
  /\ pc[w] = "readDetail"
  /\ IF detail = Nil
     THEN plan' = [plan EXCEPT ![w].ask = FallbackRefund(w)]
     ELSE plan' = [plan EXCEPT ![w].ask = detail.amount, ![w].take = detail.took]
  /\ Goto(w, "query")
  /\ UNCHANGED <<order, userVars, providerVars, auditVars, answer, faults>>

QueryRefund(w) ==
  /\ pc[w] = "query"
  /\ LET a == plan[w].ask
     IN \/ a = Nil /\ Done(w)
        \/ a # Nil /\ gateway[a] \in {"none", "pending"} /\ Done(w)
        \/ a # Nil /\ gateway[a] = "success" /\ Goto(w, "finalize") /\ Keep
        \/ a # Nil /\ gateway[a] = "failed" /\ Goto(w, "finalizeFailed") /\ Keep
  /\ UNCHANGED <<order, userVars, providerVars, auditVars, faults>>

\* finalizePendingRefundSuccess: one transaction.
FinalizeSuccess(w) ==
  /\ pc[w] = "finalize"
  /\ LET p == plan[w]
     IN \/ /\ order.status = "REFUND_PENDING"
           /\ IF p.take > 0 THEN Take(p.take) ELSE UNCHANGED userVars
           /\ order' = [status |-> FinalStatus(p.amount), refundAmount |-> p.amount]
        \/ /\ \/ order.status # "REFUND_PENDING"
              \/ revoked /\ p.take > 0
           /\ UNCHANGED <<order, userVars>>
  /\ Done(w)
  /\ UNCHANGED <<providerVars, auditVars, faults>>

\* The failure is written whatever the order has become.
FinalizeFailed(w) ==
  /\ pc[w] = "finalizeFailed"
  /\ SetStatus("REFUND_FAILED")
  /\ Done(w)
  /\ UNCHANGED <<userVars, providerVars, auditVars, faults>>

----------------------------------------------------------------------------
(* The provider, the user, and faults.                                     *)

\* A pending refund is settled.
ProviderSettles(a) ==
  /\ gateway[a] = "pending"
  /\ \/ gateway' = [gateway EXCEPT ![a] = "success"] /\ paid' = paid + a /\ UNCHANGED held
     \/ gateway' = [gateway EXCEPT ![a] = "failed"] /\ held' = held - a /\ UNCHANGED paid
  /\ UNCHANGED <<order, userVars, newest, unheard, auditVars, pc, plan, answer, faults>>

\* The user spends balance, or a day passes.  A subscription that a deduction
\* has ended gets all its days back from today, so each round may gain some.
Spend ==
  /\ funds > 0
  /\ taken > -MaxGain
  /\ funds' = funds - 1
  /\ UNCHANGED <<order, revoked, taken, providerVars, auditVars, pc, plan, answer, faults>>

Fault == faults < MaxFaults /\ faults' = faults + 1

\* The process dies, or a statement fails that ends the request.
Abandon(w) ==
  /\ pc[w] # "idle"
  /\ Fault
  /\ Done(w)
  /\ UNCHANGED <<order, userVars, providerVars, auditVars>>

\* Mutant: a deduction that failed is ignored.
StatementErrorIgnored(w) ==
  /\ Fault
  /\ \/ pc[w] = "prepare" /\ plan[w].force /\ Goto(w, "claim")
     \/ pc[w] = "deduct" /\ Goto(w, "gateway")
     \/ pc[w] = "rollback" /\ plan[w].take > 0 /\ Goto(w, "markRollbackFailed")
  /\ Keep
  /\ UNCHANGED <<order, userVars, providerVars, auditVars>>

\* A statement fails and the code goes another way: a forced refund takes
\* nothing, a deduction is given up, a rollback is recorded as failed.
StatementError(w) ==
  /\ Fault
  /\ \/ pc[w] = "prepare" /\ plan[w].force /\ Goto(w, "claim")
     \/ pc[w] = "deduct" /\ Goto(w, "restore")
     \/ pc[w] = "rollback" /\ plan[w].take > 0 /\ Goto(w, "markRollbackFailed")
  /\ Keep
  /\ UNCHANGED <<order, userVars, providerVars, auditVars>>

\* The provider has refunded, but its answer is lost.
LostAnswer(w) ==
  /\ pc[w] = "gateway"
  /\ Fault
  /\ \E r \in {"success", "pending"} : ProviderRefund(plan[w].amount, r)
  /\ unheard' = unheard + (paid' - paid)
  /\ answer' = [answer EXCEPT ![w] = "error"]
  /\ Goto(w, "rollback")
  /\ UNCHANGED <<order, userVars, auditVars, plan>>

\* The audit row is not found, or not written, and nobody notices.
AuditError(w) ==
  /\ \/ pc[w] = "checkRollback" /\ Goto(w, "deduct") /\ UNCHANGED plan
     \/ /\ pc[w] = "markRollbackFailed"
        /\ Goto(w, AfterKeeping(w))
        /\ plan' = [plan EXCEPT ![w].kept = TRUE]
     \/ pc[w] = "logPending" /\ Goto(w, "idle") /\ plan' = [plan EXCEPT ![w] = Nil]
     \/ /\ pc[w] = "readDetail"
        /\ Goto(w, "query")
        /\ plan' = [plan EXCEPT ![w].ask = FallbackRefund(w)]
  /\ answer' = [answer EXCEPT ![w] = IF pc[w] = "logPending" THEN Nil ELSE @]
  /\ UNCHANGED userVars

\* A deduction or a rollback is committed and reported as failed.
HiddenCommit(w) ==
  /\ \/ pc[w] = "deduct" /\ Take(plan[w].take) /\ Goto(w, "restore")
     \/ /\ pc[w] = "rollback" /\ ~revoked /\ plan[w].take > 0
        /\ funds' = funds + plan[w].take /\ taken' = taken - plan[w].take
        /\ UNCHANGED revoked
        /\ Goto(w, "markRollbackFailed")
  /\ Keep

SilentError(w) ==
  /\ SilentErrors
  /\ Fault
  /\ AuditError(w) \/ HiddenCommit(w)
  /\ UNCHANGED <<order, providerVars, auditVars>>

----------------------------------------------------------------------------

Start(w) ==
  \/ RequestRefund(w)
  \/ \E a \in Amounts, force \in Forces : PrepareRefund(w, a, force)
  \/ QueryAndFinalizeRefund(w)

Work(w) ==
  \/ ClaimRequest(w)
  \/ PrepareDeduction(w)
  \/ ClaimRefund(w)
  \/ CheckRollback(w)
  \/ Deduct(w)
  \/ GatewayRefund(w)
  \/ MarkRefundOk(w)
  \/ Rollback(w)
  \/ MarkRollbackFailed(w)
  \/ MarkRefundPending(w)
  \/ LogPending(w)
  \/ RestoreStatus(w)
  \/ MarkRefundFailed(w)
  \/ ReadDetail(w)
  \/ QueryRefund(w)
  \/ FinalizeSuccess(w)
  \/ FinalizeFailed(w)

Mishap(w) == Abandon(w) \/ StatementError(w) \/ LostAnswer(w) \/ SilentError(w)

Next ==
  \/ \E w \in Workers : Start(w) \/ Work(w) \/ Mishap(w)
  \/ \E a \in Amounts : ProviderSettles(a)
  \/ Spend

Spec == Init /\ [][Next]_vars

----------------------------------------------------------------------------
(* Safety.                                                                 *)

\* Every variable holds a value of its type; the order stays among COMPLETED
\* and the statuses of a refund, which is what PaymentFulfillment assumes.
TypeOK ==
  /\ order \in [status : OrderStatuses, refundAmount : {0} \cup 1..Amount]
  /\ funds \in Nat
  /\ revoked \in BOOLEAN
  /\ taken \in Int
  /\ gateway \in [Amounts -> {"none", "pending", "success", "failed"}]
  /\ newest \in Amounts \cup {Nil}
  /\ held \in Int /\ paid \in Int /\ unheard \in Int
  /\ marked \in BOOLEAN
  /\ detail \in Details \cup {Nil}
  /\ pc \in [Workers -> Stages]
  /\ plan \in [Workers -> Plans \cup {Nil}]
  /\ answer \in [Workers -> {"success", "pending", "error", Nil}]
  /\ faults \in 0..MaxFaults

\* One administrator's refund at a time is between the claim of the order and
\* the outcome, so that two never take, pay and write side by side.
ExclusiveRefund ==
  \A v, w \in Workers : pc[v] \in Executing /\ pc[w] \in Executing => v = w

\* However often a refund is tried, fails, is rolled back or cannot be rolled
\* back, the user never loses more than the order gave.
TakenAtMostOnce == taken <= Amount

\* What the provider has paid for an order that is called refunded is the amount
\* the order shows, and what calls paid whose answer was lost: no other call pays
\* for a refund that comes to nothing, or is paid again.
RefundedIsPaid == order.status \in Finished => paid = order.refundAmount + unheard

\* No order is called refunded while the provider has paid nothing for it,
\* whatever requests meet and whatever audit rows are lost.
PaidBeforeFinished == order.status \in Finished => paid > 0

\* The provider knows a refund of the amount a pending order shows.
PendingIsAsked ==
  Keyed /\ order.status = "REFUND_PENDING" => gateway[order.refundAmount] # "none"

\* Airwallex is asked by the number in the audit row, so that no query ends a
\* refund while there is none, though the pending status is seen before it.
EndIsLogged ==
  Provider = "airwallex" =>
    \A w \in Workers : pc[w] \in {"finalize", "finalizeFailed"} => detail # Nil

\* A refund the order calls pending was really asked of the provider, and none is
\* ended on the word of a query that had nothing to ask for.
PendingIsReal == PendingIsAsked /\ EndIsLogged

\* What the provider has paid for a refunded order is the amount the order
\* shows as refunded, lost answers or not.
RefundAmountIsPaid == order.status \in Finished => paid = order.refundAmount

\* A finished refund is not taken back or overwritten.
RefundedIsFinal == [][order.status \in Finished => order' = order]_vars

\* While no refund is at work, what an unfinished one took has been given
\* back, or the audit log says that it could not be.
NothingKept ==
  order.status \in {"COMPLETED", "REFUND_REQUESTED", "REFUND_PENDING"} /\ ~marked
    => taken <= 0

\* The user's account is right at every moment of the refund: one request works
\* on it, it takes no more than the order gave, and what a refund that came to
\* nothing took is back or on record.
AccountIsRight == TypeOK /\ ExclusiveRefund /\ TakenAtMostOnce /\ NothingKept

\* A refund about to be recorded has taken what its plan says, so that none
\* finishes without the deduction that was decided.
RefundTakesBack ==
  \A w \in Workers : pc[w] = "markOk" => taken >= plan[w].take \/ revoked

\* A refund the provider has reported as pending can be asked for: the order
\* does not return to a status that QueryAndFinalizeRefund refuses.
PendingStaysQueryable ==
  (detail # Nil /\ gateway[detail.amount] = "pending")
    => order.status \notin {"COMPLETED", "REFUND_REQUESTED"}

----------------------------------------------------------------------------
(* Liveness.  Handlers run on, and administrators try again and again.     *)

FairSpec ==
  /\ Spec
  /\ \A w \in Workers : WF_vars(Work(w))
  /\ SF_vars(\E w \in Workers : Start(w))

\* A claimed order gets an outcome in the end, be it by another try.
RefundingEnds == (order.status = "REFUNDING") ~> (order.status # "REFUNDING")
=============================================================================
