------------------------ MODULE PaymentRefund_proofs ------------------------
(***************************************************************************)
(* Proofs about PaymentRefund, for any number of workers and faults, every *)
(* amount and either kind of order.  What holds for every provider comes   *)
(* first; what needs the claim of the order to be exclusive holds for      *)
(* Alipay and EasyPay, whose refunds no query finalizes.                   *)
(***************************************************************************)
EXTENDS PaymentRefund, TLAPS

\* Stages of a request that has a plan.
PlanStages == Stages \ {"idle", "request"}

\* A worker beyond the claim of a request has its plan, and the amount of a
\* pending refund is one an administrator chose.
TypeInv ==
  /\ TypeOK
  /\ \A w \in Workers : pc[w] \in PlanStages => plan[w] \in Plans
  /\ order.status = "REFUND_PENDING" => order.refundAmount \in Amounts

\* What the steps of one worker have in common.
LEMMA Facts ==
  /\ Executing \subseteq PlanStages
  /\ {"prepare", "claim", "logPending", "readDetail", "query", "finalize",
      "finalizeFailed"} \subseteq PlanStages
  /\ PlanStages \subseteq Stages
  /\ "idle" \in Stages \ PlanStages /\ "request" \in Stages \ PlanStages
  /\ Amount \in Nat \ {0} /\ MaxFaults \in Nat /\ Funds \in Nat
  /\ \A a \in Amounts : a \in 1..Amount /\ a # Nil
BY ConstantsAssumption DEF PlanStages, Stages, Executing

\* A step of one worker to stage l, with its plan kept or replaced.
LEMMA GotoFacts ==
  ASSUME TypeInv, NEW w \in Workers, NEW l \in Stages, Goto(w, l)
  PROVE  /\ pc' \in [Workers -> Stages]
         /\ pc'[w] = l
         /\ \A v \in Workers : v # w => pc'[v] = pc[v]
BY DEF TypeInv, TypeOK, Goto

LEMMA DoneFacts ==
  ASSUME TypeInv, NEW w \in Workers, Done(w)
  PROVE  /\ pc' \in [Workers -> Stages]
         /\ plan' \in [Workers -> Plans \cup {Nil}]
         /\ answer' \in [Workers -> {"success", "pending", "error", Nil}]
         /\ pc'[w] = "idle"
         /\ \A v \in Workers : v # w => pc'[v] = pc[v] /\ plan'[v] = plan[v]
                                        /\ answer'[v] = answer[v]
BY Facts, GotoFacts DEF TypeInv, TypeOK, Done

LEMMA FaultFacts ==
  ASSUME TypeInv, Fault PROVE faults' \in 0..MaxFaults
BY Facts DEF TypeInv, TypeOK, Fault

\* What a deduction leaves is of its type.
LEMMA TakeFacts ==
  ASSUME TypeInv, NEW x \in Nat, Take(x)
  PROVE  /\ funds' \in Nat /\ revoked' \in BOOLEAN /\ taken' \in Int
         /\ taken' = taken + Least(x, funds)
         /\ Least(x, funds) \in 0..x
<1>1. Least(x, funds) \in 0..x /\ Least(x, funds) \in 0..funds
  BY DEF TypeInv, TypeOK, Least
<1>2. revoked' \in BOOLEAN
  BY DEF TypeInv, TypeOK, Take
<1> QED
  BY <1>1, <1>2 DEF TypeInv, TypeOK, Take

LEMMA PlanFacts ==
  ASSUME TypeInv, NEW w \in Workers, pc[w] \in PlanStages
  PROVE  /\ plan[w] \in Plans
         /\ plan[w].amount \in Amounts
         /\ plan[w].take \in 0..Amount
         /\ plan[w].from \in OrderStatuses
         /\ plan[w].ask \in Amounts \cup {Nil}
BY DEF TypeInv, TypeOK, Plans

\* A plan stays a plan when a worker moves on and notes something in it.
LEMMA MoveFacts ==
  ASSUME TypeInv, NEW w \in Workers, pc[w] \in PlanStages, NEW l \in Stages, Goto(w, l),
         \/ plan' = plan
         \/ \E x \in 0..Amount : plan' = [plan EXCEPT ![w].take = x]
         \/ plan' = [plan EXCEPT ![w].kept = TRUE]
         \/ \E a \in Amounts \cup {Nil} : plan' = [plan EXCEPT ![w].ask = a]
         \/ \E x \in 0..Amount, a \in Amounts \cup {Nil} :
              plan' = [plan EXCEPT ![w].ask = a, ![w].take = x]
  PROVE  /\ pc' \in [Workers -> Stages]
         /\ plan' \in [Workers -> Plans \cup {Nil}]
         /\ \A v \in Workers : pc'[v] \in PlanStages => plan'[v] \in Plans
<1>1. plan \in [Workers -> Plans \cup {Nil}] /\ plan[w] \in Plans
  BY PlanFacts DEF TypeInv, TypeOK
<1> DEFINE Edited == \E p \in Plans : plan' = [plan EXCEPT ![w] = p]
<1>2. Edited
  <2>1. CASE plan' = plan
    BY <1>1, <2>1
  <2>2. ASSUME NEW x \in 0..Amount, plan' = [plan EXCEPT ![w].take = x] PROVE Edited
    <3>1. [plan[w] EXCEPT !.take = x] \in Plans
      BY <1>1 DEF Plans
    <3> QED
      BY <1>1, <2>2, <3>1
  <2>3. CASE plan' = [plan EXCEPT ![w].kept = TRUE]
    <3>1. [plan[w] EXCEPT !.kept = TRUE] \in Plans
      BY <1>1 DEF Plans
    <3> QED
      BY <1>1, <2>3, <3>1
  <2>4. ASSUME NEW a \in Amounts \cup {Nil}, plan' = [plan EXCEPT ![w].ask = a] PROVE Edited
    <3>1. [plan[w] EXCEPT !.ask = a] \in Plans
      BY <1>1 DEF Plans
    <3> QED
      BY <1>1, <2>4, <3>1
  <2>5. ASSUME NEW x \in 0..Amount, NEW a \in Amounts \cup {Nil},
               plan' = [plan EXCEPT ![w].ask = a, ![w].take = x]
        PROVE  Edited
    <3>1. [plan[w] EXCEPT !.ask = a, !.take = x] \in Plans
      BY <1>1 DEF Plans
    <3> QED
      BY <1>1, <2>5, <3>1
  <2> QED
    BY <2>1, <2>2, <2>3, <2>4, <2>5
<1>3. plan' \in [Workers -> Plans \cup {Nil}]
  BY <1>1, <1>2
<1> QED
  BY <1>1, <1>2, <1>3, GotoFacts DEF TypeInv

----------------------------------------------------------------------------
(* Types.                                                                  *)

LEMMA InitType == Init => TypeInv
<1> SUFFICES ASSUME Init PROVE TypeInv
  OBVIOUS
<1>1. order \in [status : OrderStatuses, refundAmount : {0} \cup 1..Amount]
      /\ order.status # "REFUND_PENDING"
  BY DEF Init, OrderStatuses
<1>2. \A w \in Workers : pc[w] \notin PlanStages
  BY DEF Init, PlanStages
<1>3. pc \in [Workers -> Stages]
  BY Facts DEF Init
<1>4. /\ plan \in [Workers -> Plans \cup {Nil}]
      /\ answer \in [Workers -> {"success", "pending", "error", Nil}]
      /\ gateway \in [Amounts -> {"none", "pending", "success", "failed"}]
  BY DEF Init
<1>5. /\ funds \in Nat /\ taken \in Int
      /\ newest \in Amounts \cup {Nil} /\ held \in Int /\ paid \in Int /\ unheard \in Int
      /\ detail \in Details \cup {Nil}
      /\ faults \in 0..MaxFaults
  BY Facts DEF Init
<1>6. revoked \in BOOLEAN /\ marked \in BOOLEAN
  BY DEF Init
<1> QED
  BY <1>1, <1>2, <1>3, <1>4, <1>5, <1>6 DEF TypeInv, TypeOK

\* A worker begins.
LEMMA StartType ==
  ASSUME TypeInv, NEW w \in Workers, Start(w) PROVE TypeInv'
<1> USE Facts
<1>1. CASE RequestRefund(w)
  BY <1>1, GotoFacts DEF RequestRefund, Keep, userVars, providerVars, auditVars, TypeInv, TypeOK
<1>2. ASSUME NEW a \in Amounts, NEW f \in Forces, PrepareRefund(w, a, f) PROVE TypeInv'
  <2>1. PICK l \in {"prepare", "claim"} : Goto(w, l)
    BY <1>2 DEF PrepareRefund
  <2>2. Plan(a, f) \in Plans
    BY ConstantsAssumption DEF Plan, Plans, TypeInv, TypeOK
  <2> QED
    BY <1>2, <2>1, <2>2, GotoFacts
       DEF PrepareRefund, userVars, providerVars, auditVars, TypeInv, TypeOK
<1>3. CASE QueryAndFinalizeRefund(w)
  <2>1. Plan(order.refundAmount, FALSE) \in Plans
    BY <1>3 DEF QueryAndFinalizeRefund, Plan, Plans, TypeInv, TypeOK
  <2> QED
    BY <1>3, <2>1, GotoFacts
       DEF QueryAndFinalizeRefund, userVars, providerVars, auditVars, TypeInv, TypeOK
<1> QED
  BY <1>1, <1>2, <1>3 DEF Start

\* The provider's answer leaves its side in order, and never takes back a
\* refund or what has been paid.
LEMMA ProviderRefundType ==
  ASSUME TypeInv, NEW w \in Workers, pc[w] \in PlanStages, NEW r,
         ProviderRefund(plan[w].amount, r)
  PROVE  /\ gateway' \in [Amounts -> {"none", "pending", "success", "failed"}]
         /\ newest' \in Amounts \cup {Nil} /\ held' \in Int /\ paid' \in Int
<1>1. plan[w].amount \in Amounts /\ plan[w].amount \in Int
  BY PlanFacts, Facts
<1> QED
  BY <1>1 DEF ProviderRefund, gatewayVars, TypeInv, TypeOK

\* A worker reaches the outcome of ExecuteRefund.
LEMMA ExecuteType ==
  ASSUME TypeInv, NEW w \in Workers,
         \/ ClaimRequest(w) \/ PrepareDeduction(w) \/ ClaimRefund(w) \/ CheckRollback(w)
         \/ Deduct(w) \/ GatewayRefund(w) \/ MarkRefundOk(w) \/ Rollback(w)
  PROVE  TypeInv'
<1> USE Facts
<1> USE DEF providerVars, auditVars
<1>1. CASE ClaimRequest(w)
  <2>1. order' \in [status : OrderStatuses, refundAmount : {0} \cup 1..Amount]
    BY <1>1 DEF ClaimRequest, OrderStatuses, TypeInv, TypeOK
  <2> QED
    BY <1>1, <2>1, DoneFacts DEF ClaimRequest, userVars, TypeInv, TypeOK
<1>2. CASE PrepareDeduction(w)
  <2>1. CASE Done(w)
    BY <1>2, <2>1, DoneFacts DEF PrepareDeduction, userVars, TypeInv, TypeOK
  <2>2. CASE ~Done(w)
    <3>1. PICK x \in 0..Amount : plan' = [plan EXCEPT ![w].take = x]
      BY <1>2, <2>2, PlanFacts DEF PrepareDeduction, Least, TypeInv, TypeOK
    <3>2. pc[w] \in PlanStages /\ Goto(w, "claim") /\ "claim" \in PlanStages
      BY <1>2, <2>2 DEF PrepareDeduction
    <3> QED
      BY <1>2, <2>2, <3>1, <3>2, MoveFacts
         DEF PrepareDeduction, userVars, TypeInv, TypeOK
  <2> QED
    BY <2>1, <2>2
<1>3. CASE ClaimRefund(w)
  <2>1. CASE Done(w)
    BY <1>3, <2>1, DoneFacts DEF ClaimRefund, SetStatus, OrderStatuses, userVars, TypeInv, TypeOK
  <2>2. CASE ~Done(w)
    <3>1. order' = [order EXCEPT !.status = "REFUNDING"] /\ Keep
      BY <1>3, <2>2 DEF ClaimRefund, SetStatus
    <3>2. PICK l \in {"checkRollback", "gateway"} : Goto(w, l)
      BY <1>3, <2>2 DEF ClaimRefund
    <3>3. {"checkRollback", "gateway"} \subseteq Stages
      BY DEF Executing
    <3>4. pc[w] \in PlanStages
      BY <1>3 DEF ClaimRefund
    <3> QED
      BY <1>3, <3>1, <3>2, <3>3, <3>4, GotoFacts
         DEF ClaimRefund, OrderStatuses, Keep, userVars, TypeInv, TypeOK
  <2> QED
    BY <2>1, <2>2
<1>4. CASE CheckRollback(w)
  <2>1. pc[w] \in PlanStages /\ {"deduct", "gateway"} \subseteq Stages
    BY <1>4 DEF CheckRollback, Executing
  <2>2. /\ pc' \in [Workers -> Stages]
        /\ plan' \in [Workers -> Plans \cup {Nil}]
        /\ \A v \in Workers : pc'[v] \in PlanStages => plan'[v] \in Plans
    <3>1. PICK l \in {"deduct", "gateway"} : Goto(w, l)
      BY <1>4 DEF CheckRollback
    <3>2. plan' = plan \/ plan' = [plan EXCEPT ![w].take = 0]
      BY <1>4 DEF CheckRollback
    <3>3. 0 \in 0..Amount
      BY ConstantsAssumption
    <3> QED
      BY <2>1, <3>1, <3>2, <3>3, MoveFacts
  <2> QED
    BY <1>4, <2>2 DEF CheckRollback, userVars, TypeInv, TypeOK
<1>5. CASE Deduct(w)
  <2>1. pc[w] \in PlanStages /\ {"gateway", "restore"} \subseteq Stages
    BY <1>5 DEF Deduct, Executing
  <2>2. CASE Take(plan[w].take)
    <3>1. PICK x \in 0..Amount : plan' = [plan EXCEPT ![w].take = x]
      BY <1>5, <2>1, <2>2, PlanFacts DEF Deduct, Take, Least, TypeInv, TypeOK
    <3>2. Goto(w, "gateway")
      BY <1>5, <2>2 DEF Deduct, Take
    <3>3. funds' \in Nat /\ revoked' \in BOOLEAN /\ taken' \in Int
      BY <2>1, <2>2, PlanFacts, TakeFacts
    <3>4. UNCHANGED <<order, gateway, newest, held, paid, unheard, marked, detail, answer, faults>>
      BY <1>5 DEF Deduct
    <3>5. /\ pc' \in [Workers -> Stages]
          /\ plan' \in [Workers -> Plans \cup {Nil}]
          /\ \A v \in Workers : pc'[v] \in PlanStages => plan'[v] \in Plans
      BY <2>1, <3>1, <3>2, MoveFacts
    <3> QED
      BY <3>3, <3>4, <3>5 DEF TypeInv, TypeOK
  <2>3. CASE ~Take(plan[w].take)
    BY <1>5, <2>1, <2>3, GotoFacts DEF Deduct, userVars, TypeInv, TypeOK
  <2> QED
    BY <2>2, <2>3
<1>6. CASE GatewayRefund(w)
  <2>1. pc[w] \in PlanStages /\ {"markOk", "rollback"} \subseteq Stages
    BY <1>6 DEF GatewayRefund, Executing
  <2>2. PICK r \in {"success", "pending", "error"} :
          /\ ProviderRefund(plan[w].amount, r)
          /\ answer' = [answer EXCEPT ![w] = r]
          /\ Goto(w, IF r = "success" THEN "markOk" ELSE "rollback")
    BY <1>6 DEF GatewayRefund
  <2>3. /\ gateway' \in [Amounts -> {"none", "pending", "success", "failed"}]
        /\ newest' \in Amounts \cup {Nil} /\ held' \in Int /\ paid' \in Int
    BY <2>1, <2>2, ProviderRefundType
  <2>4. answer' \in [Workers -> {"success", "pending", "error", Nil}]
    BY <2>2 DEF TypeInv, TypeOK
  <2>5. /\ pc' \in [Workers -> Stages]
        /\ \A v \in Workers : pc'[v] \in PlanStages => plan'[v] \in Plans
    BY <1>6, <2>1, <2>2, MoveFacts DEF GatewayRefund
  <2> QED
    BY <1>6, <2>3, <2>4, <2>5 DEF GatewayRefund, userVars, TypeInv, TypeOK
<1>7. CASE MarkRefundOk(w)
  <2>1. plan[w].amount \in Amounts
    BY <1>7, PlanFacts DEF MarkRefundOk, Executing
  <2>2. FinalStatus(plan[w].amount) \in OrderStatuses \ {"REFUND_PENDING"}
    BY DEF FinalStatus, OrderStatuses
  <2> QED
    BY <1>7, <2>1, <2>2, DoneFacts DEF MarkRefundOk, userVars, TypeInv, TypeOK
<1>8. CASE Rollback(w)
  <2>1. pc[w] \in PlanStages /\ {"markPending", "restore", "markRollbackFailed"} \subseteq Stages
    BY <1>8 DEF Rollback, Executing
  <2>2. PICK l \in Stages : Goto(w, l)
    BY <1>8, <2>1 DEF Rollback, AfterRollback
  <2>3. /\ pc' \in [Workers -> Stages]
        /\ \A v \in Workers : pc'[v] \in PlanStages => plan'[v] \in Plans
    BY <1>8, <2>1, <2>2, MoveFacts DEF Rollback, Keep
  <2>4. funds' \in Nat /\ taken' \in Int
    BY <1>8, <2>1, PlanFacts DEF Rollback, TypeInv, TypeOK
  <2> QED
    BY <1>8, <2>3, <2>4 DEF Rollback, Keep, TypeInv, TypeOK
<1> QED
  BY <1>1, <1>2, <1>3, <1>4, <1>5, <1>6, <1>7, <1>8

\* A worker notes how a refund went.
LEMMA OutcomeType ==
  ASSUME TypeInv, NEW w \in Workers,
         \/ MarkRollbackFailed(w) \/ MarkRefundPending(w) \/ LogPending(w)
         \/ RestoreStatus(w) \/ MarkRefundFailed(w) \/ FinalizeFailed(w)
  PROVE  TypeInv'
<1> USE Facts
<1> USE DEF userVars, providerVars, auditVars
<1>1. CASE MarkRollbackFailed(w)
  <2>1. pc[w] \in PlanStages /\ {"markPending", "markFailed"} \subseteq Stages
    BY <1>1 DEF MarkRollbackFailed, Executing
  <2>2. Goto(w, AfterKeeping(w)) /\ AfterKeeping(w) \in Stages
    BY <1>1, <2>1 DEF MarkRollbackFailed, AfterKeeping
  <2>3. /\ pc' \in [Workers -> Stages]
        /\ plan' \in [Workers -> Plans \cup {Nil}]
        /\ \A v \in Workers : pc'[v] \in PlanStages => plan'[v] \in Plans
    BY <1>1, <2>1, <2>2, MoveFacts DEF MarkRollbackFailed
  <2> QED
    BY <1>1, <2>3 DEF MarkRollbackFailed, TypeInv, TypeOK
<1>2. CASE MarkRefundPending(w)
  <2>1. pc[w] \in PlanStages
    BY <1>2 DEF MarkRefundPending, Executing
  <2>2. /\ order' \in [status : OrderStatuses, refundAmount : {0} \cup 1..Amount]
        /\ order'.refundAmount \in Amounts
    BY <1>2, <2>1, PlanFacts DEF MarkRefundPending, OrderStatuses
  <2>3. pc' \in [Workers -> Stages] /\ \A v \in Workers : pc'[v] \in PlanStages => plan'[v] \in Plans
    BY <1>2, <2>1, MoveFacts DEF MarkRefundPending, Keep
  <2> QED
    BY <1>2, <2>2, <2>3 DEF MarkRefundPending, Keep, TypeInv, TypeOK
<1>3. CASE LogPending(w)
  <2>1. detail' \in Details \cup {Nil}
    BY <1>3, PlanFacts DEF LogPending, Details
  <2> QED
    BY <1>3, <2>1, DoneFacts DEF LogPending, TypeInv, TypeOK
<1>4. CASE RestoreStatus(w) \/ MarkRefundFailed(w) \/ FinalizeFailed(w)
  <2>1. PICK s \in OrderStatuses \ {"REFUND_PENDING"} : SetStatus(s)
    BY <1>4 DEF RestoreStatus, MarkRefundFailed, FinalizeFailed, OrderStatuses
  <2>2. Done(w) /\ UNCHANGED <<userVars, providerVars, auditVars, faults>>
    BY <1>4 DEF RestoreStatus, MarkRefundFailed, FinalizeFailed
  <2> QED
    BY <2>1, <2>2, DoneFacts DEF SetStatus, TypeInv, TypeOK
<1> QED
  BY <1>1, <1>2, <1>3, <1>4

\* A worker asks for a pending refund and finalizes it.
LEMMA QueryType ==
  ASSUME TypeInv, NEW w \in Workers, ReadDetail(w) \/ QueryRefund(w) \/ FinalizeSuccess(w)
  PROVE  TypeInv'
<1> USE Facts
<1> USE DEF providerVars, auditVars
<1>1. CASE ReadDetail(w)
  <2>1. FallbackRefund(w) \in Amounts \cup {Nil}
    BY <1>1, PlanFacts DEF ReadDetail, FallbackRefund, TypeInv, TypeOK
  <2>2. \/ \E a \in Amounts \cup {Nil} : plan' = [plan EXCEPT ![w].ask = a]
        \/ \E x \in 0..Amount, a \in Amounts \cup {Nil} :
             plan' = [plan EXCEPT ![w].ask = a, ![w].take = x]
    BY <1>1, <2>1 DEF ReadDetail, Details, TypeInv, TypeOK
  <2>3. /\ pc' \in [Workers -> Stages]
        /\ plan' \in [Workers -> Plans \cup {Nil}]
        /\ \A v \in Workers : pc'[v] \in PlanStages => plan'[v] \in Plans
    BY <1>1, <2>2, MoveFacts DEF ReadDetail
  <2> QED
    BY <1>1, <2>3 DEF ReadDetail, userVars, TypeInv, TypeOK
<1>2. CASE QueryRefund(w)
  <2>1. CASE Done(w)
    BY <1>2, <2>1, DoneFacts DEF QueryRefund, userVars, TypeInv, TypeOK
  <2>2. CASE Keep /\ \E l \in {"finalize", "finalizeFailed"} : Goto(w, l)
    BY <1>2, <2>2, GotoFacts DEF QueryRefund, Keep, userVars, TypeInv, TypeOK
  <2> QED
    BY <1>2, <2>1, <2>2 DEF QueryRefund
<1>3. CASE FinalizeSuccess(w)
  <2>1. pc[w] \in PlanStages /\ plan[w].amount \in Amounts
    BY <1>3, PlanFacts DEF FinalizeSuccess
  <2>2. /\ order' \in [status : OrderStatuses, refundAmount : {0} \cup 1..Amount]
        /\ order'.status = "REFUND_PENDING" => order'.refundAmount \in Amounts
    BY <1>3, <2>1 DEF FinalizeSuccess, FinalStatus, OrderStatuses, TypeInv, TypeOK
  <2>3. funds' \in Nat /\ revoked' \in BOOLEAN /\ taken' \in Int
    <3>1. CASE UNCHANGED userVars
      BY <3>1 DEF userVars, TypeInv, TypeOK
    <3>2. CASE Take(plan[w].take)
      BY <2>1, <3>2, PlanFacts, TakeFacts
    <3> QED
      BY <1>3, <3>1, <3>2 DEF FinalizeSuccess
  <2> QED
    BY <1>3, <2>2, <2>3, DoneFacts DEF FinalizeSuccess, TypeInv, TypeOK
<1> QED
  BY <1>1, <1>2, <1>3

\* A request meets an error or dies.
LEMMA MishapType ==
  ASSUME TypeInv, NEW w \in Workers, Mishap(w) PROVE TypeInv'
<1> USE Facts
<1> USE DEF providerVars, auditVars
<1>1. CASE Abandon(w)
  BY <1>1, DoneFacts, FaultFacts DEF Abandon, userVars, TypeInv, TypeOK
<1>2. CASE StatementError(w)
  <2>1. pc[w] \in PlanStages /\ {"claim", "restore", "markRollbackFailed"} \subseteq Stages
    BY <1>2 DEF StatementError, Executing
  <2>2. PICK l \in Stages : Goto(w, l)
    BY <1>2, <2>1 DEF StatementError
  <2>3. pc' \in [Workers -> Stages] /\ \A v \in Workers : pc'[v] \in PlanStages => plan'[v] \in Plans
    BY <1>2, <2>1, <2>2, MoveFacts DEF StatementError, Keep
  <2> QED
    BY <1>2, <2>3, FaultFacts DEF StatementError, Keep, userVars, TypeInv, TypeOK
<1>3. CASE LostAnswer(w)
  <2>1. pc[w] \in PlanStages /\ "rollback" \in Stages
    BY <1>3 DEF LostAnswer, Executing
  <2>2. /\ gateway' \in [Amounts -> {"none", "pending", "success", "failed"}]
        /\ newest' \in Amounts \cup {Nil} /\ held' \in Int /\ paid' \in Int
    BY <1>3, <2>1, ProviderRefundType DEF LostAnswer
  <2>3. pc' \in [Workers -> Stages] /\ \A v \in Workers : pc'[v] \in PlanStages => plan'[v] \in Plans
    BY <1>3, <2>1, MoveFacts DEF LostAnswer
  <2>4. answer' \in [Workers -> {"success", "pending", "error", Nil}]
    BY <1>3 DEF LostAnswer, TypeInv, TypeOK
  <2>5. unheard' \in Int
    BY <1>3, <2>2 DEF LostAnswer, TypeInv, TypeOK
  <2> QED
    BY <1>3, <2>2, <2>3, <2>4, <2>5, FaultFacts DEF LostAnswer, userVars, TypeInv, TypeOK
<1>4. CASE SilentError(w) /\ AuditError(w)
  <2>1. UNCHANGED <<order, userVars, providerVars, auditVars>> /\ faults' \in 0..MaxFaults
    BY <1>4, FaultFacts DEF SilentError, AuditError
  <2>2. answer' \in [Workers -> {"success", "pending", "error", Nil}]
    BY <1>4 DEF AuditError, TypeInv, TypeOK
  <2>3. CASE pc[w] = "logPending"
    <3>1. Goto(w, "idle") /\ plan' = [plan EXCEPT ![w] = Nil]
      BY <1>4, <2>3 DEF AuditError
    <3> QED
      BY <2>1, <2>2, <3>1, GotoFacts DEF userVars, TypeInv, TypeOK
  <2>4. CASE pc[w] # "logPending"
    <3>1. pc[w] \in PlanStages /\ {"deduct", "markPending", "markFailed", "query"} \subseteq Stages
      BY <1>4 DEF AuditError, Executing
    <3>2. PICK l \in Stages : Goto(w, l)
      BY <1>4, <3>1 DEF AuditError, AfterKeeping
    <3>3. \/ plan' = plan
          \/ plan' = [plan EXCEPT ![w].kept = TRUE]
          \/ \E a \in Amounts \cup {Nil} : plan' = [plan EXCEPT ![w].ask = a]
      <4>1. FallbackRefund(w) \in Amounts \cup {Nil}
        BY <3>1, PlanFacts DEF FallbackRefund, TypeInv, TypeOK
      <4> QED
        BY <1>4, <2>4, <4>1 DEF AuditError
    <3>4. /\ pc' \in [Workers -> Stages]
          /\ plan' \in [Workers -> Plans \cup {Nil}]
          /\ \A v \in Workers : pc'[v] \in PlanStages => plan'[v] \in Plans
      BY <3>1, <3>2, <3>3, MoveFacts
    <3> QED
      BY <2>1, <2>2, <3>4 DEF userVars, TypeInv, TypeOK
  <2> QED
    BY <2>3, <2>4
<1>5. CASE SilentError(w) /\ HiddenCommit(w)
  <2>1. pc[w] \in PlanStages /\ {"restore", "markRollbackFailed"} \subseteq Stages
    BY <1>5 DEF HiddenCommit, Executing
  <2>2. UNCHANGED <<order, providerVars, auditVars, plan, answer>> /\ faults' \in 0..MaxFaults
    BY <1>5, FaultFacts DEF SilentError, HiddenCommit, Keep
  <2>3. PICK l \in Stages : Goto(w, l)
    BY <1>5, <2>1 DEF HiddenCommit
  <2>4. pc' \in [Workers -> Stages] /\ \A v \in Workers : pc'[v] \in PlanStages => plan'[v] \in Plans
    BY <2>1, <2>2, <2>3, MoveFacts
  <2>5. funds' \in Nat /\ revoked' \in BOOLEAN /\ taken' \in Int
    <3>1. CASE Take(plan[w].take)
      BY <2>1, <3>1, PlanFacts, TakeFacts
    <3>2. CASE ~Take(plan[w].take)
      BY <1>5, <2>1, <3>2, PlanFacts DEF HiddenCommit, TypeInv, TypeOK
    <3> QED
      BY <3>1, <3>2
  <2> QED
    BY <2>2, <2>4, <2>5 DEF TypeInv, TypeOK
<1> QED
  BY <1>1, <1>2, <1>3, <1>4, <1>5 DEF Mishap, SilentError

\* The provider settles a refund, the user spends, or nothing happens.
LEMMA OutsideType ==
  ASSUME TypeInv, (\E a \in Amounts : ProviderSettles(a)) \/ Spend \/ UNCHANGED vars
  PROVE  TypeInv'
<1> USE Facts
<1>1. ASSUME NEW a \in Amounts, ProviderSettles(a) PROVE TypeInv'
  <2>1. /\ gateway' \in [Amounts -> {"none", "pending", "success", "failed"}]
        /\ held' \in Int /\ paid' \in Int
    BY <1>1 DEF ProviderSettles, TypeInv, TypeOK
  <2> QED
    BY <1>1, <2>1 DEF ProviderSettles, userVars, auditVars, TypeInv, TypeOK
<1>2. CASE Spend
  <2>1. funds' \in Nat
    BY <1>2 DEF Spend, TypeInv, TypeOK
  <2> QED
    BY <1>2, <2>1 DEF Spend, providerVars, auditVars, TypeInv, TypeOK
<1>3. CASE UNCHANGED vars
  BY <1>3 DEF vars, TypeInv, TypeOK
<1> QED
  BY <1>1, <1>2, <1>3

LEMMA NextType == TypeInv /\ [Next]_vars => TypeInv'
<1> SUFFICES ASSUME TypeInv, [Next]_vars PROVE TypeInv'
  OBVIOUS
<1>1. ASSUME NEW w \in Workers, Work(w) PROVE TypeInv'
  BY <1>1, ExecuteType, OutcomeType, QueryType DEF Work
<1> QED
  BY <1>1, StartType, MishapType, OutsideType DEF Next

\* Every variable keeps its type, whatever the provider, the faults and the
\* order of requests.
THEOREM TypeCorrect == Spec => []TypeOK
<1>1. TypeInv => TypeOK
  BY DEF TypeInv
<1> QED
  BY <1>1, InitType, NextType, PTL DEF Spec

----------------------------------------------------------------------------
(* No refund without a payment, for every provider and whatever goes wrong. *)

\* A worker on its way to call the order refunded knows that the provider paid.
PaidInv ==
  /\ paid >= 0
  /\ \A a \in Amounts : gateway[a] = "success" => paid > 0
  /\ \A w \in Workers : pc[w] \in {"markOk", "finalize"} => paid > 0
  /\ PaidBeforeFinished

LEMMA ProviderRefundPaid ==
  ASSUME TypeInv, PaidInv, NEW w \in Workers, pc[w] \in PlanStages, NEW r,
         ProviderRefund(plan[w].amount, r)
  PROVE  /\ paid' >= paid
         /\ r = "success" => paid' > 0
         /\ \A a \in Amounts : gateway'[a] = "success" => paid' > 0
         /\ \A a \in Amounts : gateway[a] # "none" => gateway'[a] # "none"
         /\ Keyed /\ r = "pending" => gateway'[plan[w].amount] # "none"
<1>1. plan[w].amount \in Amounts /\ plan[w].amount \in Nat \ {0}
  BY PlanFacts, Facts
<1>2. gateway \in [Amounts -> {"none", "pending", "success", "failed"}] /\ paid \in Int
  BY DEF TypeInv, TypeOK
<1>3. Keyed => Provider # "alipay"
  BY DEF Keyed
<1> QED
  BY <1>1, <1>2, <1>3 DEF ProviderRefund, gatewayVars, PaidInv

\* Steps that move no worker towards a finished refund.
LEMMA QuietPaid ==
  ASSUME TypeInv, PaidInv, UNCHANGED <<gateway, paid>>,
         order'.status \in Finished => order'.status = order.status,
         \A w \in Workers : pc'[w] \in {"markOk", "finalize"} => pc'[w] = pc[w]
  PROVE  PaidInv'
BY DEF PaidInv, PaidBeforeFinished

LEMMA WorkPaid ==
  ASSUME TypeInv, PaidInv, NEW w \in Workers, Start(w) \/ Work(w) PROVE PaidInv'
<1> USE Facts
<1> USE DEF providerVars
<1>1. CASE GatewayRefund(w)
  <2>1. pc[w] \in PlanStages
    BY <1>1 DEF GatewayRefund, Executing
  <2>2. PICK r \in {"success", "pending", "error"} :
          /\ ProviderRefund(plan[w].amount, r)
          /\ Goto(w, IF r = "success" THEN "markOk" ELSE "rollback")
    BY <1>1 DEF GatewayRefund
  <2>3. order' = order
    BY <1>1 DEF GatewayRefund
  <2>4. /\ paid' >= paid /\ paid \in Int /\ paid' \in Int
        /\ r = "success" => paid' > 0
        /\ \A a \in Amounts : gateway'[a] = "success" => paid' > 0
    BY <2>1, <2>2, ProviderRefundPaid, ProviderRefundType DEF TypeInv, TypeOK
  <2>5. \A v \in Workers : pc'[v] \in {"markOk", "finalize"} => pc'[v] = pc[v] \/ r = "success"
    BY <2>2 DEF Goto, TypeInv, TypeOK
  <2> QED
    BY <2>3, <2>4, <2>5 DEF PaidInv, PaidBeforeFinished
<1>2. CASE MarkRefundOk(w) \/ FinalizeSuccess(w)
  <2>1. pc[w] \in {"markOk", "finalize"} /\ paid' = paid /\ paid > 0 /\ gateway' = gateway
    BY <1>2 DEF MarkRefundOk, FinalizeSuccess, PaidInv
  <2>2. \A v \in Workers : pc'[v] \in {"markOk", "finalize"} => pc'[v] = pc[v]
    BY <1>2, DoneFacts DEF MarkRefundOk, FinalizeSuccess
  <2> QED
    BY <2>1, <2>2 DEF PaidInv, PaidBeforeFinished
<1>3. CASE QueryRefund(w)
  <2>1. UNCHANGED <<order, gateway, paid>>
    BY <1>3 DEF QueryRefund
  <2>2. \A v \in Workers \ {w} : pc'[v] = pc[v]
    BY <1>3 DEF QueryRefund, Goto, Done, TypeInv, TypeOK
  <2>3. pc'[w] = "finalize" => paid > 0
    <3>1. plan[w].ask \in Amounts \cup {Nil}
      BY <1>3, PlanFacts DEF QueryRefund
    <3> QED
      BY <1>3, <3>1 DEF QueryRefund, Goto, Done, PaidInv, TypeInv, TypeOK
  <2>4. pc'[w] # "markOk"
    BY <1>3 DEF QueryRefund, Goto, Done, TypeInv, TypeOK
  <2> QED
    BY <2>1, <2>2, <2>3, <2>4 DEF PaidInv, PaidBeforeFinished
<1>4. CASE Start(w)
  BY <1>4, QuietPaid
     DEF Start, RequestRefund, PrepareRefund, QueryAndFinalizeRefund, Goto, TypeInv, TypeOK
<1>5. CASE \/ ClaimRequest(w) \/ PrepareDeduction(w) \/ ClaimRefund(w) \/ CheckRollback(w)
           \/ Deduct(w) \/ Rollback(w)
  <2>1. UNCHANGED <<gateway, paid>>
    BY <1>5 DEF ClaimRequest, PrepareDeduction, ClaimRefund, CheckRollback, Deduct, Rollback
  <2>2. order'.status \in Finished => order'.status = order.status
    BY <1>5 DEF ClaimRequest, PrepareDeduction, ClaimRefund, CheckRollback, Deduct, Rollback,
         SetStatus, Finished, TypeInv, TypeOK
  <2>3. \A v \in Workers : pc'[v] \in {"markOk", "finalize"} => pc'[v] = pc[v]
    BY <1>5 DEF ClaimRequest, PrepareDeduction, ClaimRefund, CheckRollback, Deduct, Rollback,
         AfterRollback, Goto, Done, TypeInv, TypeOK
  <2> QED
    BY <2>1, <2>2, <2>3, QuietPaid
<1>6. CASE \/ MarkRollbackFailed(w) \/ MarkRefundPending(w) \/ LogPending(w) \/ RestoreStatus(w)
           \/ MarkRefundFailed(w) \/ ReadDetail(w) \/ FinalizeFailed(w)
  <2>1. UNCHANGED <<gateway, paid>>
    BY <1>6 DEF MarkRollbackFailed, MarkRefundPending, LogPending, RestoreStatus,
         MarkRefundFailed, ReadDetail, FinalizeFailed
  <2>2. order'.status \in Finished => order'.status = order.status
    BY <1>6 DEF MarkRollbackFailed, MarkRefundPending, LogPending, RestoreStatus,
         MarkRefundFailed, ReadDetail, FinalizeFailed, SetStatus, Finished, TypeInv, TypeOK
  <2>3. \A v \in Workers : pc'[v] \in {"markOk", "finalize"} => pc'[v] = pc[v]
    BY <1>6 DEF MarkRollbackFailed, MarkRefundPending, LogPending, RestoreStatus,
         MarkRefundFailed, ReadDetail, FinalizeFailed, AfterKeeping, Goto, Done, TypeInv, TypeOK
  <2> QED
    BY <2>1, <2>2, <2>3, QuietPaid
<1> QED
  BY <1>1, <1>2, <1>3, <1>4, <1>5, <1>6 DEF Work

LEMMA MishapPaid ==
  ASSUME TypeInv, PaidInv, NEW w \in Workers, Mishap(w) PROVE PaidInv'
<1> USE Facts
<1> USE DEF providerVars
<1>1. CASE LostAnswer(w)
  <2>1. pc[w] \in PlanStages
    BY <1>1 DEF LostAnswer, Executing
  <2>2. PICK r \in {"success", "pending"} : ProviderRefund(plan[w].amount, r)
    BY <1>1 DEF LostAnswer
  <2>3. order' = order
    BY <1>1 DEF LostAnswer
  <2>4. /\ paid' >= paid /\ paid \in Int /\ paid' \in Int
        /\ \A a \in Amounts : gateway'[a] = "success" => paid' > 0
    BY <2>1, <2>2, ProviderRefundPaid, ProviderRefundType DEF TypeInv, TypeOK
  <2>5. \A v \in Workers : pc'[v] \in {"markOk", "finalize"} => pc'[v] = pc[v]
    BY <1>1 DEF LostAnswer, Goto, TypeInv, TypeOK
  <2> QED
    BY <2>3, <2>4, <2>5 DEF PaidInv, PaidBeforeFinished
<1>2. CASE Abandon(w) \/ StatementError(w) \/ SilentError(w)
  <2>1. UNCHANGED <<order, gateway, paid>>
    BY <1>2 DEF Abandon, StatementError, SilentError
  <2>2. \A v \in Workers : pc'[v] \in {"markOk", "finalize"} => pc'[v] = pc[v]
    BY <1>2 DEF Abandon, StatementError, SilentError, AuditError, HiddenCommit, AfterKeeping,
         Goto, Done, TypeInv, TypeOK
  <2> QED
    BY <2>1, <2>2, QuietPaid
<1> QED
  BY <1>1, <1>2 DEF Mishap

LEMMA NextPaid == TypeInv /\ PaidInv /\ [Next]_vars => PaidInv'
<1> SUFFICES ASSUME TypeInv, PaidInv, [Next]_vars PROVE PaidInv'
  OBVIOUS
<1>1. ASSUME NEW a \in Amounts, ProviderSettles(a) PROVE PaidInv'
  <2>1. a \in Nat \ {0}
    BY Facts
  <2>2. paid' >= paid /\ paid \in Int /\ paid' \in Int /\ UNCHANGED <<order, pc>>
    BY <1>1, <2>1 DEF ProviderSettles, TypeInv, TypeOK
  <2>3. \A b \in Amounts : gateway'[b] = "success" => paid' > 0
    BY <1>1, <2>1 DEF ProviderSettles, PaidInv, TypeInv, TypeOK
  <2> QED
    BY <2>2, <2>3 DEF PaidInv, PaidBeforeFinished
<1>2. CASE Spend \/ UNCHANGED vars
  BY <1>2, QuietPaid DEF Spend, vars, providerVars
<1> QED
  BY <1>1, <1>2, WorkPaid, MishapPaid DEF Next

\* However requests interleave, fail and are repeated, and whatever audit rows
\* are lost, an order is called refunded only after its provider has paid.
THEOREM NoRefundUnpaid == Spec => []PaidBeforeFinished
<1>1. Init => PaidInv
  BY Facts DEF Init, PaidInv, PaidBeforeFinished, Finished
<1>2. PaidInv => PaidBeforeFinished
  BY DEF PaidInv
<1> QED
  BY <1>1, <1>2, InitType, NextType, NextPaid, PTL DEF Spec

----------------------------------------------------------------------------
(* No pending refund that the provider does not have.                      *)

Waiting == {"rollback", "markRollbackFailed", "markPending"}

\* A worker that was told "pending" asked for a refund the provider has.
AskedInv ==
  /\ \A w \in Workers :
       /\ pc[w] = "markPending" => answer[w] = "pending"
       /\ Keyed /\ pc[w] \in Waiting /\ answer[w] = "pending"
            => gateway[plan[w].amount] # "none"
  /\ PendingIsAsked

\* Steps after which nobody waits who did not wait before.
LEMMA QuietAsked ==
  ASSUME TypeInv, AskedInv,
         \A a \in Amounts : gateway[a] # "none" => gateway'[a] # "none",
         order'.status = "REFUND_PENDING" => order' = order,
         \A w \in Workers : pc'[w] \in Waiting =>
           \/ /\ pc[w] \in Waiting
              /\ plan'[w].amount = plan[w].amount /\ answer'[w] = answer[w]
              /\ pc'[w] = "markPending" => answer[w] = "pending"
           \/ answer'[w] # "pending" /\ pc'[w] # "markPending"
  PROVE  AskedInv'
<1>1. \A w \in Workers : pc[w] \in Waiting => plan[w].amount \in Amounts
  BY PlanFacts, Facts DEF Waiting, Executing
<1>2. PendingIsAsked'
  BY DEF AskedInv, PendingIsAsked, TypeInv, Keyed
<1> QED
  BY <1>1, <1>2 DEF AskedInv, Keyed, Waiting

LEMMA WorkAsked ==
  ASSUME TypeInv, PaidInv, AskedInv, NEW w \in Workers, Start(w) \/ Work(w) PROVE AskedInv'
<1> USE Facts
<1> USE DEF providerVars, Waiting
<1>1. CASE GatewayRefund(w)
  <2>1. pc[w] \in PlanStages
    BY <1>1 DEF GatewayRefund, Executing
  <2>2. PICK r \in {"success", "pending", "error"} :
          /\ ProviderRefund(plan[w].amount, r)
          /\ answer' = [answer EXCEPT ![w] = r]
          /\ Goto(w, IF r = "success" THEN "markOk" ELSE "rollback")
    BY <1>1 DEF GatewayRefund
  <2>3. /\ \A a \in Amounts : gateway[a] # "none" => gateway'[a] # "none"
        /\ Keyed /\ r = "pending" => gateway'[plan[w].amount] # "none"
    BY <2>1, <2>2, ProviderRefundPaid
  <2>4. order' = order /\ plan' = plan
    BY <1>1 DEF GatewayRefund
  <2>5. \A v \in Workers : v # w => pc'[v] = pc[v] /\ answer'[v] = answer[v]
    BY <2>2 DEF Goto, TypeInv, TypeOK
  <2>6. pc'[w] # "markPending" /\ answer'[w] = r
    BY <2>2 DEF Goto, TypeInv, TypeOK
  <2>7. \A v \in Workers : pc[v] \in Waiting => plan[v].amount \in Amounts
    BY PlanFacts DEF Executing
  <2>8. PendingIsAsked'
    BY <2>3, <2>4 DEF AskedInv, PendingIsAsked, TypeInv, Keyed
  <2> QED
    BY <2>3, <2>4, <2>5, <2>6, <2>7, <2>8 DEF AskedInv, Keyed
<1>2. CASE MarkRefundPending(w)
  <2>1. UNCHANGED <<gateway, plan, answer>> /\ order'.refundAmount = plan[w].amount
    BY <1>2 DEF MarkRefundPending, Keep
  <2>2. Keyed => gateway[plan[w].amount] # "none"
    BY <1>2 DEF MarkRefundPending, AskedInv
  <2>3. \A v \in Workers : pc'[v] \in Waiting => pc'[v] = pc[v]
    BY <1>2 DEF MarkRefundPending, Goto, TypeInv, TypeOK
  <2> QED
    BY <2>1, <2>2, <2>3 DEF AskedInv, PendingIsAsked, Keyed
<1>3. CASE Start(w)
  <2>1. UNCHANGED <<order, gateway>>
    BY <1>3 DEF Start, RequestRefund, PrepareRefund, QueryAndFinalizeRefund
  <2>2. \A v \in Workers : pc'[v] \in Waiting => v # w /\ pc'[v] = pc[v]
    BY <1>3 DEF Start, RequestRefund, PrepareRefund, QueryAndFinalizeRefund, Goto, TypeInv, TypeOK
  <2>3. \A v \in Workers : v # w => plan'[v] = plan[v] /\ answer'[v] = answer[v]
    BY <1>3 DEF Start, RequestRefund, PrepareRefund, QueryAndFinalizeRefund, Keep, TypeInv, TypeOK
  <2> QED
    BY <2>1, <2>2, <2>3, QuietAsked DEF AskedInv
<1>4. CASE Rollback(w) \/ MarkRollbackFailed(w)
  <2>1. UNCHANGED <<order, gateway, answer>>
    BY <1>4 DEF Rollback, MarkRollbackFailed, Keep
  <2>2. pc[w] \in Waiting /\ pc[w] \in PlanStages
    BY <1>4 DEF Rollback, MarkRollbackFailed, Executing
  <2>3. \A v \in Workers : plan'[v] = plan[v] \/ (v = w /\ plan'[v].amount = plan[v].amount)
    BY <1>4, <2>2, PlanFacts DEF Rollback, MarkRollbackFailed, Keep, Plans, TypeInv, TypeOK
  <2>4. /\ \A v \in Workers : v # w => pc'[v] = pc[v]
        /\ pc'[w] = "markPending" => answer[w] = "pending"
    BY <1>4 DEF Rollback, MarkRollbackFailed, AfterRollback, AfterKeeping, Goto, TypeInv, TypeOK
  <2> QED
    BY <2>1, <2>2, <2>3, <2>4, QuietAsked DEF AskedInv
<1>5. CASE \/ ClaimRequest(w) \/ PrepareDeduction(w) \/ ClaimRefund(w) \/ CheckRollback(w)
           \/ Deduct(w) \/ MarkRefundOk(w)
  <2>1. UNCHANGED gateway /\ (order'.status = "REFUND_PENDING" => order' = order)
    BY <1>5 DEF ClaimRequest, PrepareDeduction, ClaimRefund, CheckRollback, Deduct, MarkRefundOk,
         SetStatus, FinalStatus, TypeInv, TypeOK
  <2>2. \A v \in Workers : pc'[v] \in Waiting => v # w /\ pc'[v] = pc[v]
    BY <1>5 DEF ClaimRequest, PrepareDeduction, ClaimRefund, CheckRollback, Deduct, MarkRefundOk,
         Goto, Done, TypeInv, TypeOK
  <2>3. \A v \in Workers : v # w => plan'[v] = plan[v] /\ answer'[v] = answer[v]
    BY <1>5 DEF ClaimRequest, PrepareDeduction, ClaimRefund, CheckRollback, Deduct, MarkRefundOk,
         Done, Keep, TypeInv, TypeOK
  <2> QED
    BY <2>1, <2>2, <2>3, QuietAsked DEF AskedInv
<1>6. CASE \/ LogPending(w) \/ RestoreStatus(w) \/ MarkRefundFailed(w) \/ ReadDetail(w)
           \/ QueryRefund(w) \/ FinalizeSuccess(w) \/ FinalizeFailed(w)
  <2>1. UNCHANGED gateway /\ (order'.status = "REFUND_PENDING" => order' = order)
    BY <1>6 DEF LogPending, RestoreStatus, MarkRefundFailed, ReadDetail, QueryRefund,
         FinalizeSuccess, FinalizeFailed, SetStatus, FinalStatus, TypeInv, TypeOK
  <2>2. \A v \in Workers : pc'[v] \in Waiting => v # w /\ pc'[v] = pc[v]
    BY <1>6 DEF LogPending, RestoreStatus, MarkRefundFailed, ReadDetail, QueryRefund,
         FinalizeSuccess, FinalizeFailed, Goto, Done, TypeInv, TypeOK
  <2>3. \A v \in Workers : v # w => plan'[v] = plan[v] /\ answer'[v] = answer[v]
    BY <1>6 DEF LogPending, RestoreStatus, MarkRefundFailed, ReadDetail, QueryRefund,
         FinalizeSuccess, FinalizeFailed, Done, Keep, TypeInv, TypeOK
  <2> QED
    BY <2>1, <2>2, <2>3, QuietAsked DEF AskedInv
<1> QED
  BY <1>1, <1>2, <1>3, <1>4, <1>5, <1>6 DEF Work

LEMMA MishapAsked ==
  ASSUME TypeInv, PaidInv, AskedInv, NEW w \in Workers, Mishap(w) PROVE AskedInv'
<1> USE Facts
<1> USE DEF Waiting
<1>1. CASE LostAnswer(w)
  <2>1. pc[w] \in PlanStages /\ UNCHANGED <<order, plan>>
    BY <1>1 DEF LostAnswer, Executing
  <2>2. \A a \in Amounts : gateway[a] # "none" => gateway'[a] # "none"
    BY <1>1, <2>1, ProviderRefundPaid DEF LostAnswer
  <2>3. /\ \A v \in Workers : v # w => pc'[v] = pc[v] /\ answer'[v] = answer[v]
        /\ answer'[w] = "error" /\ pc'[w] = "rollback"
    BY <1>1 DEF LostAnswer, Goto, TypeInv, TypeOK
  <2> QED
    BY <2>1, <2>2, <2>3, QuietAsked DEF AskedInv
<1>2. CASE Abandon(w) \/ StatementError(w) \/ SilentError(w)
  <2>1. UNCHANGED <<order, gateway>>
    BY <1>2 DEF Abandon, StatementError, SilentError, providerVars
  <2>2. /\ \A v \in Workers : v # w => pc'[v] = pc[v] /\ plan'[v] = plan[v]
                                          /\ answer'[v] = answer[v]
        /\ pc'[w] \in Waiting => /\ pc[w] \in Waiting /\ answer'[w] = answer[w]
                                 /\ pc'[w] = "markPending" => answer[w] = "pending"
    BY <1>2 DEF Abandon, StatementError, SilentError, AuditError, HiddenCommit, AfterKeeping,
         Goto, Done, Keep, TypeInv, TypeOK
  <2>3. pc'[w] \in Waiting => plan'[w].amount = plan[w].amount
    <3>1. pc[w] \in PlanStages => plan[w] \in Plans
      BY PlanFacts
    <3> QED
      BY <1>2, <2>2, <3>1
         DEF Abandon, StatementError, SilentError, AuditError, HiddenCommit, AfterKeeping,
             Goto, Done, Keep, Executing, Plans, TypeInv, TypeOK
  <2> QED
    BY <2>1, <2>2, <2>3, QuietAsked DEF AskedInv
<1> QED
  BY <1>1, <1>2 DEF Mishap

LEMMA NextAsked == TypeInv /\ PaidInv /\ AskedInv /\ [Next]_vars => AskedInv'
<1> SUFFICES ASSUME TypeInv, PaidInv, AskedInv, [Next]_vars PROVE AskedInv'
  OBVIOUS
<1>1. ASSUME NEW a \in Amounts, ProviderSettles(a) PROVE AskedInv'
  BY <1>1, QuietAsked DEF ProviderSettles, AskedInv, TypeInv, TypeOK
<1>2. CASE Spend \/ UNCHANGED vars
  BY <1>2, QuietAsked DEF Spend, vars, providerVars, AskedInv
<1> QED
  BY <1>1, <1>2, WorkAsked, MishapAsked DEF Next

\* Stages of a query that may end the refund.
Ending == {"query", "finalize", "finalizeFailed"}

\* At Airwallex a query that has something to ask for has it from an audit row.
LoggedInv ==
  \A w \in Workers :
    /\ pc[w] = "query" /\ plan[w].ask # Nil => detail # Nil
    /\ pc[w] \in {"finalize", "finalizeFailed"} => detail # Nil

\* A step of w after which w is not about to end the refund, or is rightly so.
LEMMA LoggedStep ==
  ASSUME LoggedInv, detail # Nil => detail' # Nil, NEW w \in Workers,
         \A v \in Workers : v # w => pc'[v] = pc[v] /\ plan'[v] = plan[v],
         \/ pc'[w] \notin Ending
         \/ detail' # Nil
         \/ pc'[w] = "query" /\ plan'[w].ask = Nil
  PROVE  LoggedInv'
BY DEF LoggedInv, Ending

LEMMA WorkLogged ==
  ASSUME Provider = "airwallex", TypeInv, LoggedInv, NEW w \in Workers,
         Start(w) \/ Work(w) \/ Mishap(w)
  PROVE  LoggedInv'
<1>1. ASSUME NEW v \in Workers, pc'[v] = "query", plan' = [plan EXCEPT ![v].ask = FallbackRefund(v)],
             pc[v] \in PlanStages
      PROVE plan'[v].ask = Nil
  <2>1. FallbackRefund(v) = Nil
    BY "airwallex" # "stripe" DEF FallbackRefund
  <2> QED
    BY <1>1, <2>1, PlanFacts DEF Plans, TypeInv, TypeOK
<1>2. CASE LogPending(w)
  <2>1. detail' \in Details
    BY <1>2, PlanFacts, Facts DEF LogPending, Details
  <2>2. detail' # Nil
    BY <2>1, ConstantsAssumption
  <2>3. pc'[w] = "idle" /\ \A v \in Workers : v # w => pc'[v] = pc[v] /\ plan'[v] = plan[v]
    BY <1>2, DoneFacts DEF LogPending
  <2> QED
    BY <2>2, <2>3, LoggedStep
<1>3. CASE ReadDetail(w)
  <2>1. /\ detail' = detail /\ pc[w] \in PlanStages
        /\ pc'[w] = "query"
        /\ \A v \in Workers : v # w => pc'[v] = pc[v] /\ plan'[v] = plan[v]
    BY <1>3, Facts DEF ReadDetail, Goto, auditVars, TypeInv, TypeOK
  <2>2. detail = Nil => plan'[w].ask = Nil
    BY <1>1, <1>3, <2>1 DEF ReadDetail
  <2> QED
    BY <2>1, <2>2, LoggedStep
<1>4. CASE QueryRefund(w)
  <2>1. /\ detail' = detail
        /\ \A v \in Workers : v # w => pc'[v] = pc[v] /\ plan'[v] = plan[v]
    BY <1>4 DEF QueryRefund, Goto, Done, Keep, auditVars, TypeInv, TypeOK
  <2>2. pc'[w] = "idle" \/ plan[w].ask # Nil
    BY <1>4 DEF QueryRefund, Done, Goto, TypeInv, TypeOK
  <2>3. pc'[w] = "idle" \/ detail # Nil
    BY <1>4, <2>2 DEF QueryRefund, LoggedInv
  <2> QED
    BY <2>1, <2>3, LoggedStep DEF Ending
<1>5. CASE AuditError(w) /\ detail' = detail
  <2>1. \A v \in Workers : v # w => pc'[v] = pc[v] /\ plan'[v] = plan[v]
    BY <1>5 DEF AuditError, Goto, TypeInv, TypeOK
  <2>2. CASE pc[w] = "readDetail"
    <3>1. pc'[w] = "query" /\ plan' = [plan EXCEPT ![w].ask = FallbackRefund(w)]
      BY <1>5, <2>2 DEF AuditError, Goto, TypeInv, TypeOK
    <3>2. plan'[w].ask = Nil
      BY <1>1, <2>2, <3>1, Facts
    <3> QED
      BY <1>5, <2>1, <3>1, <3>2, LoggedStep
  <2>3. CASE pc[w] # "readDetail"
    <3>1. pc'[w] \notin Ending
      BY <1>5, <2>3 DEF AuditError, AfterKeeping, Goto, Ending, TypeInv, TypeOK
    <3> QED
      BY <1>5, <2>1, <3>1, LoggedStep
  <2> QED
    BY <2>2, <2>3
<1>6. CASE \/ Start(w) \/ ClaimRequest(w) \/ PrepareDeduction(w) \/ ClaimRefund(w)
           \/ CheckRollback(w) \/ Deduct(w) \/ GatewayRefund(w) \/ MarkRefundOk(w)
  <2>1. detail' = detail
    BY <1>6 DEF Start, RequestRefund, PrepareRefund, QueryAndFinalizeRefund, ClaimRequest,
         PrepareDeduction, ClaimRefund, CheckRollback, Deduct, GatewayRefund, MarkRefundOk, auditVars
  <2>2. \A v \in Workers : v # w => pc'[v] = pc[v] /\ plan'[v] = plan[v]
    BY <1>6 DEF Start, RequestRefund, PrepareRefund, QueryAndFinalizeRefund, ClaimRequest,
         PrepareDeduction, ClaimRefund, CheckRollback, Deduct, GatewayRefund, MarkRefundOk,
         Goto, Done, Keep, TypeInv, TypeOK
  <2>3. pc'[w] \notin Ending
    BY <1>6 DEF Start, RequestRefund, PrepareRefund, QueryAndFinalizeRefund, ClaimRequest,
         PrepareDeduction, ClaimRefund, CheckRollback, Deduct, GatewayRefund, MarkRefundOk,
         Goto, Done, Ending, TypeInv, TypeOK
  <2> QED
    BY <2>1, <2>2, <2>3, LoggedStep
<1>7. CASE \/ Rollback(w) \/ MarkRollbackFailed(w) \/ MarkRefundPending(w) \/ RestoreStatus(w)
           \/ MarkRefundFailed(w) \/ FinalizeSuccess(w) \/ FinalizeFailed(w)
  <2>1. detail' = detail
    BY <1>7 DEF Rollback, MarkRollbackFailed, MarkRefundPending, RestoreStatus,
         MarkRefundFailed, FinalizeSuccess, FinalizeFailed, auditVars
  <2>2. \A v \in Workers : v # w => pc'[v] = pc[v] /\ plan'[v] = plan[v]
    BY <1>7 DEF Rollback, MarkRollbackFailed, MarkRefundPending, RestoreStatus,
         MarkRefundFailed, FinalizeSuccess, FinalizeFailed, Goto, Done, Keep, TypeInv, TypeOK
  <2>3. pc'[w] \notin Ending
    BY <1>7 DEF Rollback, MarkRollbackFailed, MarkRefundPending, RestoreStatus,
         MarkRefundFailed, FinalizeSuccess, FinalizeFailed, AfterRollback, AfterKeeping,
         Goto, Done, Ending, TypeInv, TypeOK
  <2> QED
    BY <2>1, <2>2, <2>3, LoggedStep
<1>8. CASE Abandon(w) \/ StatementError(w) \/ LostAnswer(w) \/ (HiddenCommit(w) /\ detail' = detail)
  <2>1. detail' = detail
    BY <1>8 DEF Abandon, StatementError, LostAnswer, auditVars
  <2>2. \A v \in Workers : v # w => pc'[v] = pc[v] /\ plan'[v] = plan[v]
    BY <1>8 DEF Abandon, StatementError, LostAnswer, HiddenCommit, Goto, Done, Keep, TypeInv, TypeOK
  <2>3. pc'[w] \notin Ending
    BY <1>8 DEF Abandon, StatementError, LostAnswer, HiddenCommit, Goto, Done, Ending, TypeInv, TypeOK
  <2> QED
    BY <2>1, <2>2, <2>3, LoggedStep
<1>9. SilentError(w) => detail' = detail /\ (AuditError(w) \/ HiddenCommit(w))
  BY DEF SilentError, auditVars
<1> QED
  BY <1>2, <1>3, <1>4, <1>5, <1>6, <1>7, <1>8, <1>9 DEF Work, Mishap

LEMMA NextLogged ==
  ASSUME Provider = "airwallex"
  PROVE  TypeInv /\ LoggedInv /\ [Next]_vars => LoggedInv'
<1> SUFFICES ASSUME TypeInv, LoggedInv, [Next]_vars PROVE LoggedInv'
  OBVIOUS
<1>1. CASE (\E a \in Amounts : ProviderSettles(a)) \/ Spend \/ UNCHANGED vars
  <2>1. UNCHANGED <<pc, plan, detail>>
    BY <1>1 DEF ProviderSettles, Spend, vars, auditVars
  <2> QED
    BY <2>1 DEF LoggedInv
<1> QED
  BY <1>1, WorkLogged DEF Next

\* At Airwallex no query ends a refund that has no audit row yet.
THEOREM UnloggedIsNotEnded == Spec => []EndIsLogged
<1>1. CASE Provider = "airwallex"
  <2>1. Init => LoggedInv
    BY DEF Init, LoggedInv
  <2>2. LoggedInv => EndIsLogged
    BY DEF LoggedInv, EndIsLogged
  <2>3. TypeInv /\ LoggedInv /\ [Next]_vars => LoggedInv'
    BY <1>1, NextLogged
  <2> QED
    BY <2>1, <2>2, <2>3, InitType, NextType, PTL DEF Spec
<1>2. CASE Provider # "airwallex"
  <2>1. EndIsLogged
    BY <1>2 DEF EndIsLogged
  <2> QED
    BY <2>1, PTL
<1> QED
  BY <1>1, <1>2

\* An order is called pending only for a refund, of the amount it shows, that
\* the provider really has; and at Airwallex no query ends it without the audit
\* row that names it.
THEOREM PendingRefundExists == Spec => []PendingIsReal
<1>1. Init => PaidInv /\ AskedInv
  BY Facts DEF Init, PaidInv, PaidBeforeFinished, Finished, AskedInv, PendingIsAsked, Waiting
<1>2. AskedInv => PendingIsAsked
  BY DEF AskedInv
<1>3. PendingIsAsked /\ EndIsLogged => PendingIsReal
  BY DEF PendingIsReal
<1> QED
  BY <1>1, <1>2, <1>3, InitType, NextType, NextPaid, NextAsked, UnloggedIsNotEnded, PTL DEF Spec

----------------------------------------------------------------------------
(* Alipay and EasyPay: no query finalizes a refund, so that only the worker  *)
(* that has claimed the order writes to it, takes and gives back.          *)

\* Whoever is between the claim and the outcome is alone, and the order says
\* so.
ExclInv ==
  /\ \A w \in Workers : pc[w] \notin {"readDetail", "query", "finalize", "finalizeFailed"}
  /\ \A w \in Workers : pc[w] \in Executing => order.status = "REFUNDING"
  /\ ExclusiveRefund

\* What a step of w has to show.
LEMMA ExclStep ==
  ASSUME TypeInv, ExclInv, NEW w \in Workers,
         \A v \in Workers : v # w => pc'[v] = pc[v],
         pc'[w] \notin {"readDetail", "query", "finalize", "finalizeFailed"},
         \/ /\ pc'[w] \notin Executing
            /\ order' = order \/ pc[w] \in Executing \/ order.status # "REFUNDING"
         \/ pc[w] \in Executing /\ order' = order
         \/ order.status \in Refundable /\ order'.status = "REFUNDING"
  PROVE  ExclInv'
BY DEF ExclInv, ExclusiveRefund, Refundable

\* The steps under the claim: of what they do, here only where they lead and
\* what becomes of the order matters.
LEMMA WorkExcl ==
  ASSUME ~Keyed, TypeInv, ExclInv, NEW w \in Workers, Start(w) \/ Work(w) \/ Mishap(w)
  PROVE  ExclInv' /\ (order.status \in Finished => order' = order)
<1> USE Facts
<1>1. CASE Start(w)
  <2>1. order' = order /\ pc'[w] \notin Executing
        /\ pc'[w] \notin {"readDetail", "query", "finalize", "finalizeFailed"}
        /\ \A v \in Workers : v # w => pc'[v] = pc[v]
    BY <1>1 DEF Start, RequestRefund, PrepareRefund, QueryAndFinalizeRefund, Goto, Executing,
         TypeInv, TypeOK
  <2> QED
    BY <2>1, ExclStep
<1>2. CASE ClaimRequest(w) \/ PrepareDeduction(w) \/ LogPending(w)
  <2>1. order' = order \/ order.status = "COMPLETED"
    BY <1>2 DEF ClaimRequest, PrepareDeduction, LogPending
  <2>2. /\ pc'[w] \in {"idle", "claim"}
        /\ \A v \in Workers : v # w => pc'[v] = pc[v]
    BY <1>2 DEF ClaimRequest, PrepareDeduction, LogPending, Goto, Done, TypeInv, TypeOK
  <2> QED
    BY <2>1, <2>2, ExclStep DEF Executing, Finished
<1>3. CASE ClaimRefund(w)
  <2>1. \/ order' = order /\ pc'[w] = "idle"
        \/ /\ order.status \in Refundable /\ order'.status = "REFUNDING"
           /\ pc'[w] \in {"checkRollback", "gateway"}
    BY <1>3 DEF ClaimRefund, SetStatus, Goto, Done, TypeInv, TypeOK
  <2>2. \A v \in Workers : v # w => pc'[v] = pc[v]
    BY <1>3 DEF ClaimRefund, Goto, Done, TypeInv, TypeOK
  <2> QED
    BY <2>1, <2>2, ExclStep DEF Executing, Finished, Refundable
<1>4. CASE \/ CheckRollback(w) \/ Deduct(w) \/ GatewayRefund(w) \/ Rollback(w)
           \/ MarkRollbackFailed(w)
  <2>1. pc[w] \in Executing /\ order' = order
    BY <1>4 DEF CheckRollback, Deduct, GatewayRefund, Rollback, MarkRollbackFailed, Executing
  <2>2. /\ pc'[w] \in Executing
        /\ \A v \in Workers : v # w => pc'[v] = pc[v]
    BY <1>4 DEF CheckRollback, Deduct, GatewayRefund, Rollback, MarkRollbackFailed,
         AfterRollback, AfterKeeping, Executing, Goto, TypeInv, TypeOK
  <2> QED
    BY <2>1, <2>2, ExclStep DEF Executing
<1>5. CASE MarkRefundOk(w) \/ MarkRefundPending(w) \/ RestoreStatus(w) \/ MarkRefundFailed(w)
  <2>1. pc[w] \in Executing
    BY <1>5 DEF MarkRefundOk, MarkRefundPending, RestoreStatus, MarkRefundFailed, Executing
  <2>2. /\ pc'[w] \in {"idle", "logPending"}
        /\ \A v \in Workers : v # w => pc'[v] = pc[v]
    BY <1>5 DEF MarkRefundOk, MarkRefundPending, RestoreStatus, MarkRefundFailed,
         Goto, Done, TypeInv, TypeOK
  <2>3. order.status \notin Finished
    BY <2>1 DEF ExclInv, Finished
  <2> QED
    BY <2>1, <2>2, <2>3, ExclStep DEF Executing
<1>6. CASE ReadDetail(w) \/ QueryRefund(w) \/ FinalizeSuccess(w) \/ FinalizeFailed(w)
  BY <1>6 DEF ExclInv, ReadDetail, QueryRefund, FinalizeSuccess, FinalizeFailed
<1>7. CASE Mishap(w)
  <2>1. order' = order
    BY <1>7 DEF Mishap, Abandon, StatementError, LostAnswer, SilentError
  <2>2. /\ pc'[w] \in Executing => pc[w] \in Executing
        /\ pc'[w] \notin {"readDetail", "query", "finalize", "finalizeFailed"}
        /\ \A v \in Workers : v # w => pc'[v] = pc[v]
    BY <1>7 DEF ExclInv, Mishap, Abandon, StatementError, LostAnswer, SilentError, AuditError,
         HiddenCommit, AfterKeeping, Executing, Goto, Done, TypeInv, TypeOK
  <2> QED
    BY <2>1, <2>2, ExclStep
<1> QED
  BY <1>1, <1>2, <1>3, <1>4, <1>5, <1>6, <1>7 DEF Work

LEMMA NextExcl ==
  ASSUME ~Keyed
  PROVE  TypeInv /\ ExclInv /\ [Next]_vars
           => ExclInv' /\ [order.status \in Finished => order' = order]_vars
<1> SUFFICES ASSUME TypeInv, ExclInv, [Next]_vars
             PROVE  ExclInv' /\ (order.status \in Finished => order' = order)
  OBVIOUS
<1>1. ASSUME NEW w \in Workers, Start(w) \/ Work(w) \/ Mishap(w)
      PROVE  ExclInv' /\ (order.status \in Finished => order' = order)
  BY <1>1, WorkExcl
<1>2. CASE (\E a \in Amounts : ProviderSettles(a)) \/ Spend \/ UNCHANGED vars
  BY <1>2 DEF ProviderSettles, Spend, vars, ExclInv, ExclusiveRefund
<1> QED
  BY <1>1, <1>2 DEF Next

LEMMA InitExcl == Init => ExclInv
BY DEF Init, ExclInv, ExclusiveRefund, Executing

\* With Alipay and EasyPay one refund of an order is executed at a time.
THEOREM OneRefundAtATime ==
  ASSUME ~Keyed
  PROVE  Spec => []ExclusiveRefund
<1>1. ExclInv => ExclusiveRefund
  BY DEF ExclInv
<1>2. TypeInv /\ ExclInv /\ [Next]_vars => ExclInv'
  BY NextExcl
<1> QED
  BY <1>1, <1>2, InitType, NextType, InitExcl, PTL DEF Spec

\* With Alipay and EasyPay nothing overwrites a refund that is finished.
THEOREM RefundIsFinal ==
  ASSUME ~Keyed
  PROVE  Spec => RefundedIsFinal
<1>1. TypeInv /\ ExclInv /\ [Next]_vars
        => ExclInv' /\ [order.status \in Finished => order' = order]_vars
  BY NextExcl
<1> QED
  BY <1>1, InitType, NextType, InitExcl, PTL DEF Spec, RefundedIsFinal

----------------------------------------------------------------------------
(* What has been taken, with Alipay and EasyPay.                           *)

\* What w may rely on.  Before the deduction nothing is taken, or the audit log
\* says that something is; after it no more is taken than the plan knows.
Account(w) ==
  /\ pc[w] \in {"checkRollback", "restore", "markPending"} /\ ~marked => taken <= 0
  /\ pc[w] = "deduct" => ~marked /\ taken <= 0
  /\ pc[w] \in {"gateway", "rollback", "markOk"} /\ ~marked => taken <= plan[w].take
  /\ pc[w] \in {"gateway", "rollback", "markOk"} /\ marked => plan[w].take = 0
  /\ pc[w] = "markFailed" => marked

AccountInv ==
  /\ taken <= Amount
  /\ order.status = "REFUND_FAILED" => marked
  /\ order.status \in Refundable /\ ~marked => taken <= 0
  /\ \A w \in Workers : Account(w)

\* What a step of w has to show: that it takes or marks only under its claim,
\* and leaves the account right for itself and for whoever claims next.
LEMMA AccountStep ==
  ASSUME TypeInv, ExclInv, AccountInv, NEW w \in Workers,
         \A v \in Workers : v # w => pc'[v] = pc[v] /\ plan'[v] = plan[v],
         pc[w] \in Executing \/ UNCHANGED <<taken, marked>>,
         taken' <= Amount,
         order'.status = "REFUND_FAILED" => marked',
         order'.status \in Refundable /\ ~marked' => taken' <= 0,
         Account(w)'
  PROVE  AccountInv'
<1>1. ASSUME NEW v \in Workers, v # w PROVE Account(v)'
  <2>1. CASE UNCHANGED <<taken, marked>>
    BY <1>1, <2>1 DEF AccountInv, Account
  <2>2. CASE pc[w] \in Executing
    <3>1. pc'[v] \notin Executing
      BY <1>1, <2>2 DEF ExclInv, ExclusiveRefund
    <3> QED
      BY <3>1 DEF Account, Executing
  <2> QED
    BY <2>1, <2>2
<1> QED
  BY <1>1 DEF AccountInv

LEMMA WorkAccount ==
  ASSUME ~Keyed, ~SilentErrors, TypeInv, ExclInv, AccountInv, NEW w \in Workers,
         Start(w) \/ Work(w) \/ Mishap(w)
  PROVE  AccountInv'
<1> USE Facts
<1>1. taken \in Int /\ funds \in Nat /\ marked \in BOOLEAN
  BY DEF TypeInv, TypeOK
<1>2. CASE Start(w)
  <2>1. UNCHANGED <<order, taken, marked>> /\ pc'[w] \in {"request", "prepare", "claim"}
        /\ \A v \in Workers : v # w => pc'[v] = pc[v] /\ plan'[v] = plan[v]
    BY <1>2 DEF Start, RequestRefund, PrepareRefund, QueryAndFinalizeRefund, Goto, Keep,
         userVars, auditVars, TypeInv, TypeOK
  <2>2. Account(w)'
    BY <2>1 DEF Account
  <2> QED
    BY <2>1, <2>2, AccountStep DEF AccountInv
<1>3. CASE ClaimRequest(w) \/ PrepareDeduction(w) \/ LogPending(w) \/ Abandon(w)
  <2>1. UNCHANGED <<taken, marked>>
    BY <1>3 DEF ClaimRequest, PrepareDeduction, LogPending, Abandon, userVars, auditVars
  <2>2. order' = order \/ (order.status \in Refundable /\ order'.status = "REFUND_REQUESTED")
    BY <1>3 DEF ClaimRequest, PrepareDeduction, LogPending, Abandon, Refundable
  <2>3. pc'[w] \in {"idle", "claim"}
        /\ \A v \in Workers : v # w => pc'[v] = pc[v] /\ plan'[v] = plan[v]
    BY <1>3 DEF ClaimRequest, PrepareDeduction, LogPending, Abandon, Goto, Done, TypeInv, TypeOK
  <2>4. Account(w)'
    BY <2>3 DEF Account
  <2> QED
    BY <2>1, <2>2, <2>3, <2>4, AccountStep DEF AccountInv
<1>4. CASE ClaimRefund(w)
  <2>1. UNCHANGED <<taken, marked>>
        /\ \A v \in Workers : v # w => pc'[v] = pc[v] /\ plan'[v] = plan[v]
    BY <1>4 DEF ClaimRefund, Goto, Done, Keep, userVars, auditVars, TypeInv, TypeOK
  <2>2. CASE Done(w)
    <3>1. pc'[w] = "idle" /\ (order' = order \/ order'.status = "REFUNDING")
      BY <1>4, <2>2 DEF ClaimRefund, Done, Goto, SetStatus, TypeInv, TypeOK
    <3>2. Account(w)'
      BY <3>1 DEF Account
    <3> QED
      BY <2>1, <3>1, <3>2, AccountStep DEF AccountInv, Refundable
  <2>3. CASE ~Done(w)
    <3>1. /\ order.status \in Refundable /\ order'.status = "REFUNDING" /\ plan' = plan
          /\ \/ pc'[w] = "checkRollback"
             \/ pc'[w] = "gateway" /\ ~(plan[w].take > 0)
      BY <1>4, <2>3 DEF ClaimRefund, Goto, Keep, SetStatus, TypeInv, TypeOK
    <3>2. plan[w].take \in 0..Amount
      BY <1>4, PlanFacts DEF ClaimRefund
    <3>3. Account(w)'
      BY <1>1, <2>1, <3>1, <3>2 DEF Account, AccountInv
    <3> QED
      BY <2>1, <3>1, <3>3, AccountStep DEF AccountInv, Refundable
  <2> QED
    BY <2>2, <2>3
<1>5. CASE CheckRollback(w)
  <2>1. UNCHANGED <<order, taken, marked>>
        /\ \A v \in Workers : v # w => pc'[v] = pc[v] /\ plan'[v] = plan[v]
    BY <1>5 DEF CheckRollback, Goto, userVars, auditVars, TypeInv, TypeOK
  <2>2. \/ ~marked /\ taken <= 0 /\ pc'[w] = "deduct"
        \/ marked /\ pc'[w] = "gateway" /\ plan'[w].take = 0
    BY <1>5, PlanFacts DEF CheckRollback, Goto, AccountInv, Account, Executing, Plans, TypeInv, TypeOK
  <2>3. Account(w)'
    BY <1>1, <2>1, <2>2 DEF Account
  <2> QED
    BY <2>1, <2>3, AccountStep DEF AccountInv
<1>6. CASE Deduct(w)
  <2>1. UNCHANGED <<order, marked>>
        /\ \A v \in Workers : v # w => pc'[v] = pc[v] /\ plan'[v] = plan[v]
    BY <1>6 DEF Deduct, Goto, auditVars, TypeInv, TypeOK
  <2>2. pc[w] \in Executing /\ ~marked /\ taken <= 0 /\ order.status = "REFUNDING"
    BY <1>6 DEF Deduct, AccountInv, Account, ExclInv, Executing
  <2>3. plan[w].take \in 0..Amount /\ plan[w] \in Plans
    BY <2>2, PlanFacts
  <2>4. CASE Take(plan[w].take)
    <3>1. taken' = taken + Least(plan[w].take, funds) /\ pc'[w] = "gateway"
      BY <1>6, <2>4 DEF Deduct, Take, Goto, TypeInv, TypeOK
    <3>2. plan'[w].take \in {plan[w].take, Least(plan[w].take, funds)}
      BY <1>6, <2>3, <2>4 DEF Deduct, Take, Plans, TypeInv, TypeOK
    <3>3. /\ Least(plan[w].take, funds) <= plan'[w].take
          /\ Least(plan[w].take, funds) <= Amount
      BY <1>1, <2>3, <3>2 DEF Least
    <3>4. taken' <= plan'[w].take /\ taken' <= Amount
      BY <1>1, <2>2, <2>3, <3>1, <3>2, <3>3 DEF Least
    <3>5. Account(w)'
      BY <2>1, <2>2, <3>1, <3>4 DEF Account
    <3> QED
      BY <2>1, <2>2, <3>4, <3>5, AccountStep DEF Refundable
  <2>5. CASE ~Take(plan[w].take)
    <3>1. taken' = taken /\ pc'[w] = "restore"
      BY <1>6, <2>5 DEF Deduct, Goto, userVars, TypeInv, TypeOK
    <3>2. Account(w)'
      BY <2>1, <2>2, <3>1 DEF Account
    <3> QED
      BY <2>1, <2>2, <3>1, <3>2, AccountStep DEF AccountInv
  <2> QED
    BY <2>4, <2>5
<1>7. CASE GatewayRefund(w) \/ LostAnswer(w)
  <2>1. UNCHANGED <<order, taken, marked, plan>> /\ pc[w] = "gateway"
    BY <1>7 DEF GatewayRefund, LostAnswer, userVars, auditVars
  <2>2. /\ pc'[w] \in {"markOk", "rollback"}
        /\ \A v \in Workers : v # w => pc'[v] = pc[v]
    BY <1>7 DEF GatewayRefund, LostAnswer, Goto, TypeInv, TypeOK
  <2>3. Account(w)'
    BY <2>1, <2>2 DEF AccountInv, Account
  <2> QED
    BY <2>1, <2>2, <2>3, AccountStep DEF AccountInv
<1>8. CASE Rollback(w)
  <2>1. UNCHANGED <<order, marked, plan>> /\ pc[w] = "rollback"
    BY <1>8 DEF Rollback, auditVars, Keep
  <2>2. /\ pc[w] \in Executing /\ order.status = "REFUNDING"
        /\ plan[w].take \in 0..Amount
    BY <2>1, PlanFacts DEF ExclInv, Executing
  <2>3. /\ pc'[w] \in {"markPending", "restore", "markRollbackFailed"}
        /\ \A v \in Workers : v # w => pc'[v] = pc[v]
    BY <1>8 DEF Rollback, AfterRollback, Goto, TypeInv, TypeOK
  <2>4. taken' \in {taken, taken - plan[w].take}
    BY <1>8 DEF Rollback
  <2>5. pc'[w] # "markRollbackFailed" => taken' = taken - plan[w].take
    BY <1>8 DEF Rollback, AfterRollback, Goto, TypeInv, TypeOK
  <2>6. Account(w)'
    BY <1>1, <2>1, <2>2, <2>3, <2>5 DEF AccountInv, Account
  <2>7. taken' <= Amount
    BY <1>1, <2>2, <2>4 DEF AccountInv
  <2> QED
    BY <2>1, <2>2, <2>3, <2>6, <2>7, AccountStep DEF Refundable
<1>9. CASE MarkRollbackFailed(w)
  <2>1. /\ UNCHANGED <<order, taken>> /\ marked' = TRUE
        /\ pc[w] \in Executing /\ order.status = "REFUNDING"
    BY <1>9 DEF MarkRollbackFailed, userVars, ExclInv, Executing
  <2>2. /\ pc'[w] \in {"markPending", "markFailed"}
        /\ \A v \in Workers : v # w => pc'[v] = pc[v] /\ plan'[v] = plan[v]
    BY <1>9 DEF MarkRollbackFailed, AfterKeeping, Goto, TypeInv, TypeOK
  <2>3. Account(w)'
    BY <2>1, <2>2 DEF Account
  <2> QED
    BY <2>1, <2>2, <2>3, AccountStep DEF AccountInv
<1>10. CASE MarkRefundOk(w) \/ MarkRefundPending(w) \/ RestoreStatus(w) \/ MarkRefundFailed(w)
  <2>1. UNCHANGED <<taken, marked>>
    BY <1>10 DEF MarkRefundOk, MarkRefundPending, RestoreStatus, MarkRefundFailed,
         userVars, auditVars
  <2>2. /\ pc'[w] \in {"idle", "logPending"}
        /\ \A v \in Workers : v # w => pc'[v] = pc[v] /\ plan'[v] = plan[v]
    BY <1>10 DEF MarkRefundOk, MarkRefundPending, RestoreStatus, MarkRefundFailed,
         Goto, Done, Keep, TypeInv, TypeOK
  <2>3. Account(w)'
    BY <2>2 DEF Account
  <2>4. order'.status = "REFUND_FAILED" => marked
    BY <1>10 DEF MarkRefundOk, MarkRefundPending, RestoreStatus, MarkRefundFailed, SetStatus,
         FinalStatus, AccountInv, Account, TypeInv, TypeOK
  <2>5. order'.status \in Refundable /\ ~marked => taken <= 0
    BY <1>10 DEF MarkRefundOk, MarkRefundPending, RestoreStatus, MarkRefundFailed, SetStatus,
         FinalStatus, Refundable, AccountInv, Account, TypeInv, TypeOK
  <2> QED
    BY <2>1, <2>2, <2>3, <2>4, <2>5, AccountStep DEF AccountInv
<1>11. CASE ReadDetail(w) \/ QueryRefund(w) \/ FinalizeSuccess(w) \/ FinalizeFailed(w)
  BY <1>11 DEF ExclInv, ReadDetail, QueryRefund, FinalizeSuccess, FinalizeFailed
<1>12. CASE StatementError(w)
  <2>1. UNCHANGED <<order, taken, marked, plan>>
    BY <1>12 DEF StatementError, userVars, auditVars, Keep
  <2>2. /\ \/ pc[w] = "prepare" /\ pc'[w] = "claim"
           \/ pc[w] = "deduct" /\ pc'[w] = "restore"
           \/ pc[w] = "rollback" /\ pc'[w] = "markRollbackFailed"
        /\ \A v \in Workers : v # w => pc'[v] = pc[v]
    BY <1>12 DEF StatementError, Goto, TypeInv, TypeOK
  <2>3. Account(w)'
    BY <2>1, <2>2 DEF AccountInv, Account
  <2> QED
    BY <2>1, <2>2, <2>3, AccountStep DEF AccountInv
<1> QED
  BY <1>2, <1>3, <1>4, <1>5, <1>6, <1>7, <1>8, <1>9, <1>10, <1>11, <1>12
     DEF Work, Mishap, SilentError

LEMMA NextAccount ==
  ASSUME ~Keyed, ~SilentErrors
  PROVE  TypeInv /\ ExclInv /\ AccountInv /\ [Next]_vars => AccountInv'
<1> SUFFICES ASSUME TypeInv, ExclInv, AccountInv, [Next]_vars PROVE AccountInv'
  OBVIOUS
<1>1. CASE (\E a \in Amounts : ProviderSettles(a)) \/ Spend \/ UNCHANGED vars
  <2>1. UNCHANGED <<order, taken, marked, pc, plan>>
    BY <1>1 DEF ProviderSettles, Spend, vars, userVars, auditVars
  <2> QED
    BY <2>1 DEF AccountInv, Account
<1> QED
  BY <1>1, WorkAccount DEF Next

LEMMA InitAccount == Init => AccountInv
BY Facts DEF Init, AccountInv, Account

\* With Alipay and EasyPay, when every failed statement is noticed, no sequence
\* of attempts, failures and rollbacks takes more than the order gave.
THEOREM NeverTakenTwice ==
  ASSUME ~Keyed, ~SilentErrors
  PROVE  Spec => []TakenAtMostOnce
<1>1. AccountInv => TakenAtMostOnce
  BY DEF AccountInv, TakenAtMostOnce
<1>2. TypeInv /\ ExclInv /\ [Next]_vars => ExclInv'
  BY NextExcl
<1>3. TypeInv /\ ExclInv /\ AccountInv /\ [Next]_vars => AccountInv'
  BY NextAccount
<1> QED
  BY <1>1, <1>2, <1>3, InitType, NextType, InitExcl, InitAccount, PTL DEF Spec

\* Nor does a refund that did not happen keep what it took, unless the audit
\* log says so.
THEOREM GivenBackOrMarked ==
  ASSUME ~Keyed, ~SilentErrors
  PROVE  Spec => []NothingKept
<1>1. AccountInv => NothingKept
  BY DEF AccountInv, NothingKept, Refundable
<1>2. TypeInv /\ ExclInv /\ [Next]_vars => ExclInv'
  BY NextExcl
<1>3. TypeInv /\ ExclInv /\ AccountInv /\ [Next]_vars => AccountInv'
  BY NextAccount
<1> QED
  BY <1>1, <1>2, <1>3, InitType, NextType, InitExcl, InitAccount, PTL DEF Spec

\* With Alipay and EasyPay, unless errors go unnoticed, the account is right:
\* one refund at a time takes from it, no more than the order gave, and what
\* an unfinished one took is given back or marked.
THEOREM AccountRight ==
  ASSUME ~Keyed, ~SilentErrors
  PROVE  Spec => []AccountIsRight
<1>1. TypeOK /\ ExclusiveRefund /\ TakenAtMostOnce /\ NothingKept => AccountIsRight
  BY DEF AccountIsRight
<1> QED
  BY <1>1, TypeCorrect, OneRefundAtATime, NeverTakenTwice, GivenBackOrMarked, PTL

----------------------------------------------------------------------------
(* What has been paid, with Alipay and EasyPay.                            *)

\* Unless a refund that was heard of is about to be recorded, or lost its worker
\* and left the order REFUNDING, nothing is paid but what nobody heard of.
SettledInv ==
  /\ \A w \in Workers : pc[w] = "markOk" => paid = plan[w].amount + unheard
  /\ \A w \in Workers : pc[w] \in Executing \ {"markOk"} => paid = unheard
  /\ order.status \notin Finished \cup {"REFUNDING"} => paid = unheard
  /\ RefundedIsPaid
  /\ \A a \in Amounts : gateway[a] # "pending"

\* What a step of w has to show that calls no provider.
LEMMA SettledStep ==
  ASSUME SettledInv, NEW w \in Workers, UNCHANGED <<paid, unheard, gateway>>,
         \A v \in Workers : v # w => pc'[v] = pc[v] /\ plan'[v] = plan[v],
         pc'[w] \in Executing => pc'[w] # "markOk" /\ paid = unheard,
         order' = order \/ (order'.status \notin Finished /\ paid = unheard)
  PROVE  SettledInv'
<1>1. \A v \in Workers : pc'[v] = "markOk" => paid = plan'[v].amount + unheard
  BY DEF SettledInv, Executing
<1>2. \A v \in Workers : pc'[v] \in Executing \ {"markOk"} => paid = unheard
  BY DEF SettledInv
<1>3. (order'.status \notin Finished \cup {"REFUNDING"} => paid = unheard) /\ RefundedIsPaid'
  BY DEF SettledInv, RefundedIsPaid
<1> QED
  BY <1>1, <1>2, <1>3 DEF SettledInv

LEMMA WorkSettled ==
  ASSUME ~Keyed, TypeInv, ExclInv, SettledInv, NEW w \in Workers,
         Start(w) \/ Work(w) \/ Mishap(w)
  PROVE  SettledInv'
<1> USE Facts
<1>1. paid \in Int /\ unheard \in Int
  BY DEF TypeInv, TypeOK
<1>2. CASE GatewayRefund(w) \/ LostAnswer(w)
  <2>1. /\ pc[w] = "gateway" /\ pc[w] \in PlanStages /\ plan[w].amount \in Amounts
        /\ plan[w].amount \in Int /\ UNCHANGED <<order, plan>>
    BY <1>2, PlanFacts DEF GatewayRefund, LostAnswer, Executing
  <2>2. PICK r \in {"success", "pending", "error"} :
          /\ ProviderRefund(plan[w].amount, r)
          /\ \/ pc'[w] = "markOk" /\ r = "success" /\ unheard' = unheard
             \/ pc'[w] = "rollback" /\ r # "success" /\ unheard' = unheard
             \/ pc'[w] = "rollback" /\ unheard' = unheard + (paid' - paid)
    BY <1>2 DEF GatewayRefund, LostAnswer, Goto, TypeInv, TypeOK
  <2>3. /\ r = "success" => paid' = paid + plan[w].amount
        /\ r # "success" => paid' = paid
        /\ \A a \in Amounts : gateway'[a] # "pending"
    BY <2>1, <2>2 DEF ProviderRefund, gatewayVars, SettledInv, TypeInv, TypeOK
  <2>4. paid = unheard
    BY <2>1 DEF SettledInv, Executing
  <2>5. paid' \in Int
    BY <2>1, <2>2, ProviderRefundType
  <2>6. \A v \in Workers : v # w => pc'[v] = pc[v] /\ pc'[v] \notin Executing
    BY <1>2, <2>1 DEF GatewayRefund, LostAnswer, Goto, ExclInv, ExclusiveRefund, Executing,
         TypeInv, TypeOK
  <2>7. order'.status = "REFUNDING"
    BY <2>1 DEF ExclInv, Executing
  <2>8. pc'[w] = "markOk" => paid' = plan'[w].amount + unheard'
    BY <1>1, <2>1, <2>2, <2>3, <2>4
  <2>9. pc'[w] # "markOk" => paid' = unheard'
    BY <1>1, <2>2, <2>3, <2>4, <2>5
  <2>10. RefundedIsPaid'
    BY <2>7 DEF RefundedIsPaid, Finished
  <2>11. \A v \in Workers : pc'[v] = "markOk" => paid' = plan'[v].amount + unheard'
    BY <2>6, <2>8 DEF Executing
  <2>12. \A v \in Workers : pc'[v] \in Executing \ {"markOk"} => paid' = unheard'
    BY <2>6, <2>9
  <2> QED
    BY <2>3, <2>7, <2>10, <2>11, <2>12 DEF SettledInv
<1>3. CASE MarkRefundOk(w)
  <2>1. /\ UNCHANGED <<paid, unheard, gateway>> /\ pc[w] = "markOk"
        /\ order'.refundAmount = plan[w].amount
        /\ order'.status = FinalStatus(plan[w].amount)
    BY <1>3 DEF MarkRefundOk, providerVars
  <2>2. order'.status \in Finished
    BY <2>1 DEF FinalStatus, Finished
  <2>3. pc'[w] = "idle" /\ \A v \in Workers : v # w => pc'[v] = pc[v] /\ pc'[v] \notin Executing
    BY <1>3, <2>1, DoneFacts DEF MarkRefundOk, ExclInv, ExclusiveRefund, Executing
  <2>4. \A v \in Workers : pc'[v] \notin Executing
    BY <2>3 DEF Executing
  <2>5. RefundedIsPaid'
    BY <2>1 DEF RefundedIsPaid, SettledInv
  <2>6. \A v \in Workers : pc'[v] # "markOk"
    BY <2>4 DEF Executing
  <2> QED
    BY <2>1, <2>2, <2>4, <2>5, <2>6 DEF SettledInv
<1>4. CASE Start(w)
  <2>1. UNCHANGED <<order, paid, unheard, gateway>>
    BY <1>4 DEF Start, RequestRefund, PrepareRefund, QueryAndFinalizeRefund, providerVars
  <2>2. /\ pc'[w] \notin Executing
        /\ \A v \in Workers : v # w => pc'[v] = pc[v] /\ plan'[v] = plan[v]
    BY <1>4 DEF Start, RequestRefund, PrepareRefund, QueryAndFinalizeRefund, Goto, Keep,
         Executing, TypeInv, TypeOK
  <2> QED
    BY <2>1, <2>2, SettledStep
<1>5. CASE Mishap(w) /\ ~LostAnswer(w)
  <2>1. UNCHANGED <<order, paid, unheard, gateway>>
    BY <1>5 DEF Mishap, Abandon, StatementError, SilentError, providerVars
  <2>2. /\ pc'[w] \in Executing => pc'[w] # "markOk" /\ pc[w] \in Executing \ {"markOk"}
        /\ \A v \in Workers : v # w => pc'[v] = pc[v] /\ plan'[v] = plan[v]
    BY <1>5 DEF Mishap, Abandon, StatementError, SilentError, AuditError, HiddenCommit,
         AfterKeeping, Goto, Done, Keep, Executing, TypeInv, TypeOK
  <2>3. pc'[w] \in Executing => paid = unheard
    BY <2>2 DEF SettledInv
  <2> QED
    BY <2>1, <2>2, <2>3, SettledStep
<1>6. CASE ClaimRequest(w) \/ PrepareDeduction(w) \/ LogPending(w)
  <2>1. UNCHANGED <<paid, unheard, gateway>>
    BY <1>6 DEF ClaimRequest, PrepareDeduction, LogPending, providerVars
  <2>2. order' = order \/ (order.status = "COMPLETED" /\ order'.status = "REFUND_REQUESTED")
    BY <1>6 DEF ClaimRequest, PrepareDeduction, LogPending
  <2>3. order.status = "COMPLETED" => paid = unheard
    BY DEF SettledInv, Finished
  <2>4. /\ pc'[w] \in {"idle", "claim"}
        /\ \A v \in Workers : v # w => pc'[v] = pc[v] /\ plan'[v] = plan[v]
    BY <1>6 DEF ClaimRequest, PrepareDeduction, LogPending, Goto, Done, TypeInv, TypeOK
  <2>5. pc'[w] \notin Executing
    BY <2>4 DEF Executing
  <2>6. order' = order \/ (order'.status \notin Finished /\ paid = unheard)
    BY <2>2, <2>3 DEF Finished
  <2> QED
    BY <2>1, <2>4, <2>5, <2>6, SettledStep
<1>7. CASE ClaimRefund(w)
  <2>1. UNCHANGED <<paid, unheard, gateway>>
    BY <1>7 DEF ClaimRefund, providerVars
  <2>2. \/ order' = order /\ pc'[w] = "idle"
        \/ /\ order.status \in Refundable /\ order'.status = "REFUNDING"
           /\ pc'[w] \in {"checkRollback", "gateway"}
    BY <1>7 DEF ClaimRefund, SetStatus, Goto, Done, TypeInv, TypeOK
  <2>3. order.status \in Refundable => paid = unheard
    BY DEF SettledInv, Refundable, Finished
  <2>4. \A v \in Workers : v # w => pc'[v] = pc[v] /\ plan'[v] = plan[v]
    BY <1>7 DEF ClaimRefund, Goto, Done, Keep, TypeInv, TypeOK
  <2>5. pc'[w] \in Executing => pc'[w] # "markOk" /\ paid = unheard
    BY <2>2, <2>3 DEF Executing
  <2>6. order' = order \/ (order'.status \notin Finished /\ paid = unheard)
    BY <2>2, <2>3 DEF Finished
  <2> QED
    BY <2>1, <2>4, <2>5, <2>6, SettledStep
<1>8. CASE \/ CheckRollback(w) \/ Deduct(w) \/ Rollback(w) \/ MarkRollbackFailed(w)
           \/ MarkRefundPending(w) \/ RestoreStatus(w) \/ MarkRefundFailed(w)
  <2>1. UNCHANGED <<paid, unheard, gateway>> /\ pc[w] \in Executing \ {"markOk"}
    BY <1>8 DEF CheckRollback, Deduct, Rollback, MarkRollbackFailed, MarkRefundPending,
         RestoreStatus, MarkRefundFailed, providerVars, Executing
  <2>2. paid = unheard
    BY <2>1 DEF SettledInv
  <2>3. order' = order \/ order'.status \notin Finished
    BY <1>8 DEF CheckRollback, Deduct, Rollback, MarkRollbackFailed, MarkRefundPending,
         RestoreStatus, MarkRefundFailed, SetStatus, Finished, TypeInv, TypeOK
  <2>4. /\ pc'[w] # "markOk"
        /\ \A v \in Workers : v # w => pc'[v] = pc[v] /\ plan'[v] = plan[v]
    BY <1>8 DEF CheckRollback, Deduct, Rollback, MarkRollbackFailed, MarkRefundPending,
         RestoreStatus, MarkRefundFailed, AfterRollback, AfterKeeping, Goto, Done, Keep,
         TypeInv, TypeOK
  <2> QED
    BY <2>1, <2>2, <2>3, <2>4, SettledStep
<1>9. CASE ReadDetail(w) \/ QueryRefund(w) \/ FinalizeSuccess(w) \/ FinalizeFailed(w)
  BY <1>9 DEF ExclInv, ReadDetail, QueryRefund, FinalizeSuccess, FinalizeFailed
<1> QED
  BY <1>2, <1>3, <1>4, <1>5, <1>6, <1>7, <1>8, <1>9 DEF Work, Mishap

LEMMA NextSettled ==
  ASSUME ~Keyed
  PROVE  TypeInv /\ ExclInv /\ SettledInv /\ [Next]_vars => SettledInv'
<1> SUFFICES ASSUME TypeInv, ExclInv, SettledInv, [Next]_vars PROVE SettledInv'
  OBVIOUS
<1>1. ASSUME NEW a \in Amounts, ProviderSettles(a) PROVE FALSE
  BY <1>1 DEF ProviderSettles, SettledInv
<1>2. CASE Spend \/ UNCHANGED vars
  <2>1. UNCHANGED <<order, paid, unheard, gateway, pc, plan>>
    BY <1>2 DEF Spend, vars, providerVars
  <2> QED
    BY <2>1 DEF SettledInv, RefundedIsPaid
<1> QED
  BY <1>1, <1>2, WorkSettled DEF Next

\* With Alipay and EasyPay an order that is called refunded, in part or in full,
\* has had paid what it shows, and beyond that only what calls paid whose answer
\* was lost.
THEOREM RefundIsPaid ==
  ASSUME ~Keyed
  PROVE  Spec => []RefundedIsPaid
<1>1. Init => SettledInv
  BY Facts DEF Init, Finished, SettledInv, RefundedIsPaid, Executing
<1>2. SettledInv => RefundedIsPaid
  BY DEF SettledInv
<1>3. TypeInv /\ ExclInv /\ [Next]_vars => ExclInv'
  BY NextExcl
<1>4. TypeInv /\ ExclInv /\ SettledInv /\ [Next]_vars => SettledInv'
  BY NextSettled
<1> QED
  BY <1>1, <1>2, <1>3, <1>4, InitType, NextType, InitExcl, PTL DEF Spec

----------------------------------------------------------------------------
(* What a refund of balance has taken, with Alipay and EasyPay.            *)

\* Between the deduction and the outcome.
Holding == {"gateway", "rollback", "markOk"}

\* What the plan of a worker says it took is taken, and less than nothing is
\* never taken: a deduction writes into the plan what the balance had, and a
\* rollback gives back no more than that.
TakenInv ==
  /\ ~revoked /\ taken >= 0
  /\ \A w \in Workers : pc[w] \in Holding => taken >= plan[w].take

\* What a step of w has to show: that nobody else's deduction is disturbed.
LEMMA TakenStep ==
  ASSUME TypeInv, ExclInv, TakenInv, NEW w \in Workers,
         \A v \in Workers : v # w => pc'[v] = pc[v] /\ plan'[v] = plan[v],
         pc[w] \in Executing \/ taken' = taken,
         ~revoked', taken' >= 0,
         pc'[w] \in Holding => taken' >= plan'[w].take
  PROVE  TakenInv'
<1>1. ASSUME NEW v \in Workers, v # w, pc'[v] \in Holding PROVE taken' >= plan'[v].take
  <2>1. pc[v] \in Executing /\ pc[v] \in Holding
    BY <1>1 DEF Holding, Executing
  <2>2. taken' = taken
    BY <1>1, <2>1 DEF ExclInv, ExclusiveRefund
  <2> QED
    BY <1>1, <2>1, <2>2 DEF TakenInv
<1> QED
  BY <1>1 DEF TakenInv

LEMMA WorkTaken ==
  ASSUME OrderType = "balance", ~Keyed, TypeInv, ExclInv, TakenInv, NEW w \in Workers,
         Start(w) \/ Work(w) \/ Mishap(w)
  PROVE  TakenInv'
<1> USE Facts
<1>1. taken \in Int /\ funds \in Nat /\ ~revoked /\ taken >= 0
  BY DEF TypeInv, TypeOK, TakenInv
<1>2. CASE \/ Start(w) \/ ClaimRequest(w) \/ PrepareDeduction(w) \/ MarkRollbackFailed(w)
           \/ MarkRefundOk(w) \/ MarkRefundPending(w) \/ LogPending(w) \/ RestoreStatus(w)
           \/ MarkRefundFailed(w) \/ Abandon(w)
  <2>1. UNCHANGED <<taken, revoked>>
    BY <1>2 DEF Start, RequestRefund, PrepareRefund, QueryAndFinalizeRefund, ClaimRequest,
         PrepareDeduction, MarkRollbackFailed, MarkRefundOk, MarkRefundPending, LogPending,
         RestoreStatus, MarkRefundFailed, Abandon, userVars
  <2>2. /\ pc'[w] \notin Holding
        /\ \A v \in Workers : v # w => pc'[v] = pc[v] /\ plan'[v] = plan[v]
    BY <1>2 DEF Start, RequestRefund, PrepareRefund, QueryAndFinalizeRefund, ClaimRequest,
         PrepareDeduction, MarkRollbackFailed, MarkRefundOk, MarkRefundPending, LogPending,
         RestoreStatus, MarkRefundFailed, Abandon, AfterKeeping, Goto, Done, Keep, Holding,
         TypeInv, TypeOK
  <2> QED
    BY <1>1, <2>1, <2>2, TakenStep
<1>3. CASE ClaimRefund(w)
  <2>1. /\ UNCHANGED <<taken, revoked>>
        /\ \A v \in Workers : v # w => pc'[v] = pc[v] /\ plan'[v] = plan[v]
    BY <1>3 DEF ClaimRefund, Goto, Done, Keep, userVars, TypeInv, TypeOK
  <2>2. pc'[w] \in Holding => plan' = plan /\ ~(plan[w].take > 0)
    BY <1>3 DEF ClaimRefund, Goto, Done, Keep, Holding, TypeInv, TypeOK
  <2>3. plan[w].take \in 0..Amount
    BY <1>3, PlanFacts DEF ClaimRefund
  <2> QED
    BY <1>1, <2>1, <2>2, <2>3, TakenStep
<1>4. CASE CheckRollback(w)
  <2>1. /\ UNCHANGED <<taken, revoked>>
        /\ \A v \in Workers : v # w => pc'[v] = pc[v] /\ plan'[v] = plan[v]
    BY <1>4 DEF CheckRollback, Goto, userVars, TypeInv, TypeOK
  <2>2. pc'[w] \in Holding => plan'[w].take = 0
    <3>1. pc'[w] = "deduct" \/ plan' = [plan EXCEPT ![w].take = 0]
      BY <1>4 DEF CheckRollback, Goto, TypeInv, TypeOK
    <3>2. pc[w] \in PlanStages
      BY <1>4 DEF CheckRollback, PlanStages, Stages, Executing
    <3>3. plan[w] \in Plans
      BY <3>2, PlanFacts
    <3>4. [plan EXCEPT ![w].take = 0][w].take = 0
      BY <3>3 DEF Plans, TypeInv, TypeOK
    <3> QED
      BY <3>1, <3>4 DEF Holding
  <2> QED
    BY <1>1, <2>1, <2>2, TakenStep
<1>5. CASE Deduct(w)
  <2>1. pc[w] \in Executing /\ \A v \in Workers : v # w => pc'[v] = pc[v] /\ plan'[v] = plan[v]
    BY <1>5 DEF Deduct, Executing, Goto, TypeInv, TypeOK
  <2>2. plan[w].take \in 0..Amount /\ plan[w] \in Plans
    BY <2>1, PlanFacts
  <2>3. Take(plan[w].take) /\ ~revoked'
        /\ plan' = [plan EXCEPT ![w].take = Least(@, funds)]
    BY <1>1, <1>5, "balance" # "subscription" DEF Deduct, Take
  <2>4. taken' = taken + Least(plan[w].take, funds) /\ Least(plan[w].take, funds) >= 0
    BY <2>2, <2>3, TakeFacts
  <2>5. plan'[w].take = Least(plan[w].take, funds)
    BY <2>2, <2>3 DEF Plans, TypeInv, TypeOK
  <2>6. Least(plan[w].take, funds) \in Nat
    BY <1>1, <2>2 DEF Least
  <2> QED
    BY <1>1, <2>1, <2>3, <2>4, <2>5, <2>6, TakenStep
<1>6. CASE GatewayRefund(w) \/ LostAnswer(w)
  <2>1. UNCHANGED <<taken, revoked, plan>> /\ pc[w] \in Holding
    BY <1>6 DEF GatewayRefund, LostAnswer, userVars, Holding
  <2>2. \A v \in Workers : v # w => pc'[v] = pc[v]
    BY <1>6 DEF GatewayRefund, LostAnswer, Goto, TypeInv, TypeOK
  <2> QED
    BY <2>1, <2>2, TakenStep DEF TakenInv
<1>7. CASE Rollback(w) \/ HiddenCommit(w)
  <2>1. pc[w] \in Executing /\ plan' = plan /\ pc'[w] \notin Holding
        /\ \A v \in Workers : v # w => pc'[v] = pc[v]
    BY <1>7 DEF Rollback, AfterRollback, HiddenCommit, Keep, Executing, Holding, Goto,
         TypeInv, TypeOK
  <2>2. plan[w].take \in 0..Amount
    BY <2>1, PlanFacts
  <2>3. CASE Take(plan[w].take)
    <3>1. taken' = taken + Least(plan[w].take, funds) /\ Least(plan[w].take, funds) \in Nat
      BY <1>1, <2>2, <2>3, TakeFacts DEF Least
    <3>2. ~revoked'
      BY <1>1, <2>3, "balance" # "subscription" DEF Take
    <3> QED
      BY <1>1, <2>1, <3>1, <3>2, TakenStep
  <2>4. CASE ~Take(plan[w].take)
    <3>1. pc[w] = "rollback" /\ revoked' = revoked
          /\ (taken' = taken \/ taken' = taken - plan[w].take)
      BY <1>7, <2>4 DEF Rollback, HiddenCommit
    <3>2. taken >= plan[w].take
      BY <3>1 DEF TakenInv, Holding
    <3> QED
      BY <1>1, <2>1, <2>2, <3>1, <3>2, TakenStep
  <2> QED
    BY <2>3, <2>4
<1>8. CASE ReadDetail(w) \/ QueryRefund(w) \/ FinalizeSuccess(w) \/ FinalizeFailed(w)
  BY <1>8 DEF ExclInv, ReadDetail, QueryRefund, FinalizeSuccess, FinalizeFailed
<1>9. CASE StatementError(w) \/ AuditError(w)
  <2>1. /\ UNCHANGED <<taken, revoked>> /\ pc'[w] \notin Holding
        /\ \A v \in Workers : v # w => pc'[v] = pc[v] /\ plan'[v] = plan[v]
    BY <1>9 DEF ExclInv, StatementError, AuditError, AfterKeeping, userVars, Goto, Keep, Holding,
         TypeInv, TypeOK
  <2> QED
    BY <1>1, <2>1, TakenStep
<1> QED
  BY <1>2, <1>3, <1>4, <1>5, <1>6, <1>7, <1>8, <1>9 DEF Work, Mishap, SilentError

LEMMA NextTaken ==
  ASSUME OrderType = "balance", ~Keyed
  PROVE  TypeInv /\ ExclInv /\ TakenInv /\ [Next]_vars => TakenInv'
<1> SUFFICES ASSUME TypeInv, ExclInv, TakenInv, [Next]_vars PROVE TakenInv'
  OBVIOUS
<1>1. CASE (\E a \in Amounts : ProviderSettles(a)) \/ Spend \/ UNCHANGED vars
  <2>1. UNCHANGED <<taken, revoked, pc, plan>>
    BY <1>1 DEF ProviderSettles, Spend, vars, userVars
  <2> QED
    BY <2>1 DEF TakenInv
<1> QED
  BY <1>1, WorkTaken DEF Next

\* With Alipay and EasyPay a refund of balance is about to be recorded only with
\* the deduction of its plan made and not given back, also when errors go unnoticed.
THEOREM RefundIsTaken ==
  ASSUME OrderType = "balance", ~Keyed
  PROVE  Spec => []RefundTakesBack
<1>1. Init => TakenInv
  BY DEF Init, TakenInv, Holding
<1>2. TakenInv => RefundTakesBack
  BY DEF TakenInv, RefundTakesBack, Holding
<1>3. TypeInv /\ ExclInv /\ [Next]_vars => ExclInv'
  BY NextExcl
<1>4. TypeInv /\ ExclInv /\ TakenInv /\ [Next]_vars => TakenInv'
  BY NextTaken
<1> QED
  BY <1>1, <1>2, <1>3, <1>4, InitType, NextType, InitExcl, PTL DEF Spec

=============================================================================
