--------------------------- MODULE BatchImageHold ---------------------------
(***************************************************************************)
(* One batch image job and the money held for it: the submission that      *)
(* creates the job and reserves the hold, the owner's Cancel, the recovery *)
(* of stale submissions, the queue worker that follows the provider and    *)
(* settles, and the three billing transactions reserve, capture and        *)
(* release, each claimed once by its own request id.                       *)
(*                                                                         *)
(* The job's row, the user's balance, the subscription usage and the key's *)
(* quota live in PostgreSQL: a step below is one statement or one          *)
(* transaction.  What a process read before is a snapshot in its own       *)
(* record.  A fault is a transaction that fails, a reply that is lost      *)
(* after the commit, a queue that does not answer or a process that dies.  *)
(***************************************************************************)
EXTENDS BatchImage

CONSTANTS
    LockKept,     \* TRUE: the job lock is never lost while it is held
    Hold,         \* the amount reserved for the job
    SubPart,      \* the part of Hold the subscription covers
    Balances,     \* balances the user may start with
    OtherFrozen,  \* what the user's other jobs keep frozen
    Costs,        \* what the finished job may cost
    MaxRetries    \* batchImageSettlementMaxRetries

ASSUME AmountAssumption ==
    /\ Hold \in Nat \ {0}
    /\ SubPart \in 0..Hold
    /\ Balances \subseteq Nat
    /\ OtherFrozen \in Nat
    /\ Costs \subseteq Nat
ASSUME RetryAssumption ==
    /\ MaxRetries \in Nat \ {0}
    /\ LockKept \in BOOLEAN

VARIABLES
    status,       \* batch_image_jobs.status
    provider,     \* provider_job_name is set
    hidden,       \* user_deleted_at is set
    aged,         \* updated_at is older than the stale cutoff
    retries,      \* retry_count
    reserved,     \* allowance_reserved
    claims,       \* request ids claimed in usage_billing_dedup or its archive
    balance, frozen, subUsed, quota,  \* the user's counters
    queued,       \* the job is in the Redis queue (inflight key set)
    upstream,     \* the provider's batch
    cost,         \* what the job will cost
    sub,          \* Submit
    can,          \* Cancel
    rec,          \* billing recovery
    wk,           \* the workers
    start,        \* history: balance at the start
    gaps          \* history: which known holes of the code were met

row    == <<status, provider, hidden, aged, retries>>
money  == <<reserved, claims, balance, frozen, subUsed, quota>>
procs  == <<sub, can, rec, wk>>
fixed  == <<cost, start>>
jobVars   == <<row, money, queued, upstream, procs, fixed, gaps, faults>>

BalPart == Hold - SubPart

Terminal == {"completed", "failed", "cancelled"}
Unsent   == {"created", "uploading"}
Statuses == {"none", "submitted", "running", "indexing", "settling"}
                \cup Unsent \cup Terminal

\* What a process keeps of the row it loaded: was the hold recorded in it, and
\* was the allowance marked as reserved.
Snapshots == [held : BOOLEAN, reserved : BOOLEAN]
Loaded    == [held |-> "hold" \in claims, reserved |-> reserved]
Blank     == [held |-> FALSE, reserved |-> FALSE]

Gaps == {"early",    \* a release ran on a snapshot older than the hold
         "unowned",  \* the release of an ended job, or the queueing of a
                     \* submitted one, was lost with its process or its reply
         "orphan"}   \* the provider's batch was left running on purpose or
                     \* by accident: nobody can reach it any more

-----------------------------------------------------------------------------
(* The job's row                                                           *)

\* CanTransitionBatchImageJob
CanTransition(from, to) ==
    /\ from \notin Terminal \cup {"none"}
    /\ \/ to = "failed"
       \/ from = "created"   /\ to \in {"uploading", "submitted", "cancelled"}
       \/ from = "uploading" /\ to \in {"submitted", "cancelled"}
       \/ from \in {"submitted", "running"} /\ to \in {"indexing", "cancelled"}
       \/ from \in {"submitted", "running"} /\ to = "running"
       \/ from = "indexing"  /\ to = "settling"
       \/ from = "settling"  /\ to = "completed"

\* Every statement on the row writes updated_at: the job is no longer stale, and
\* the recovery pass that listed it before no longer matches its cutoff.
Touch == aged' = FALSE /\ rec' = [rec EXCEPT !.kept = FALSE]
Quiet == UNCHANGED <<aged, rec>>

Gap(g)  == gaps' = gaps \cup {g}

-----------------------------------------------------------------------------
(* The billing transactions                                                *)

\* What a release or a capture gives back, by the snapshot it was built from.  A
\* snapshot without the recorded split counts the whole hold as balance
\* (EffectiveBatchImageBalanceHoldAmount), the path of older jobs.
BalanceOf(snap) == IF snap.held THEN BalPart ELSE Hold
UsageOf(snap)   == IF snap.held THEN SubPart ELSE 0

Enough == balance >= BalPart

ReserveEffect ==
    /\ claims'   = claims \cup {"hold"}
    /\ balance'  = balance - BalPart
    /\ frozen'   = frozen + BalPart
    /\ subUsed'  = subUsed + SubPart
    /\ quota'    = quota + Hold
    /\ reserved' = TRUE

\* Mutant: the release is not claimed, each one pays.
NeverReplayed == FALSE

Replayed == "release" \in claims
NothingHeld == "hold" \notin claims

ReleaseAllowed(snap) ==
    Replayed \/ NothingHeld \/ frozen >= BalanceOf(snap)

ReleaseEffect(snap) ==
    /\ gaps' = IF snap.held \/ Replayed THEN gaps ELSE gaps \cup {"early"}
    /\ claims' = claims \cup {"release"}
    /\ IF Replayed
       THEN UNCHANGED <<balance, frozen, subUsed, quota, reserved>>
       ELSE /\ IF NothingHeld
               THEN UNCHANGED <<balance, frozen, subUsed>>
               ELSE /\ balance' = balance + BalanceOf(snap)
                    /\ frozen'  = frozen - BalanceOf(snap)
                    /\ subUsed' = subUsed - UsageOf(snap)
            /\ quota' = IF snap.reserved THEN quota - Hold ELSE quota
            /\ reserved' = FALSE

ReleaseOk(snap) == ReleaseAllowed(snap) /\ ReleaseEffect(snap) /\ NoFault

\* The caller sees an error: nothing committed, or the commit's reply was lost.
ReleaseError(snap) ==
    \/ ~ReleaseAllowed(snap) /\ UNCHANGED <<money, gaps, faults>>
    \/ Fault /\ UNCHANGED <<money, gaps>>
    \/ Fault /\ ReleaseAllowed(snap) /\ ReleaseEffect(snap)

CaptureAllowed(snap) ==
    \/ "capture" \in claims
    \/ "hold" \in claims /\ cost <= Hold /\ frozen >= BalanceOf(snap)

\* The subscription covers the cost first; the balance gets the rest back.
KeptUsage(snap)   == IF cost <= UsageOf(snap) THEN cost ELSE UsageOf(snap)
KeptBalance(snap) == cost - KeptUsage(snap)

CaptureEffect(snap) ==
    /\ claims' = claims \cup {"capture"}
    /\ IF "capture" \in claims
       THEN UNCHANGED <<balance, frozen, subUsed, quota, reserved>>
       ELSE /\ balance'  = balance + BalanceOf(snap) - KeptBalance(snap)
            /\ frozen'   = frozen - BalanceOf(snap)
            /\ subUsed'  = subUsed - (UsageOf(snap) - KeptUsage(snap))
            /\ quota'    = IF snap.reserved THEN quota - (Hold - cost) ELSE quota + cost
            /\ reserved' = FALSE

-----------------------------------------------------------------------------
JobInit ==
    /\ status = "none" /\ provider = FALSE /\ hidden = FALSE
    /\ aged = FALSE /\ retries = 0
    /\ reserved = FALSE /\ claims = {}
    /\ start \in Balances /\ balance = start
    /\ frozen = OtherFrozen /\ subUsed = 0 /\ quota = 0
    /\ queued = FALSE /\ upstream = "none" /\ cost \in Costs
    /\ sub = [pc |-> "create", then |-> "end"]
    /\ can = [pc |-> "idle", snap |-> Blank]
    /\ rec = [pc |-> "idle", snap |-> Blank, kept |-> FALSE]
    /\ wk  = [w \in Workers |-> [pc |-> "idle", snap |-> Blank]]
    /\ gaps = {} /\ faults = 0

-----------------------------------------------------------------------------
(* Submit                                                                  *)

SubAt(pc)    == sub.pc = pc
SubGoes(pc)  == sub' = [sub EXCEPT !.pc = pc]
SubFails(then) == sub' = [pc |-> "release", then |-> then]

\* CreateBatchImageJob, with the hold id but before the hold.
CreateJob ==
    /\ SubAt("create") /\ SubGoes("reserve")
    /\ status' = "created" /\ Touch /\ NoFault
    /\ UNCHANGED <<provider, hidden, retries, money, queued, upstream, can, wk, fixed, gaps>>

\* ReserveBatchImageBalance does not look at the job's status.  An error, a lost
\* reply included, ends the job without a release.
ReserveHold ==
    /\ SubAt("reserve")
    /\ UNCHANGED <<status, provider, hidden, retries, queued, upstream, can, wk, fixed>>
    /\ \/ Enough /\ ReserveEffect /\ Touch /\ SubGoes("items") /\ NoFault /\ UNCHANGED gaps
       \/ Enough /\ ReserveEffect /\ Touch /\ SubGoes("fail") /\ Fault /\ Gap("unowned")
       \/ ~Enough /\ Quiet /\ SubGoes("fail") /\ UNCHANGED <<money, gaps, faults>>
       \/ Quiet /\ SubGoes("fail") /\ Fault /\ UNCHANGED <<money, gaps>>

CreateItems ==
    /\ SubAt("items") /\ Quiet
    /\ \/ SubGoes("upload") /\ NoFault
       \/ SubFails("fail") /\ Fault
    /\ UNCHANGED <<status, provider, hidden, retries, money, queued, upstream, can, wk, fixed, gaps>>

\* The job may have been cancelled or given up by the recovery meanwhile: its
\* status is left alone then.
StartUpload ==
    /\ SubAt("upload")
    /\ \/ /\ CanTransition(status, "uploading") /\ NoFault
          /\ status' = "uploading" /\ Touch /\ SubGoes("submit")
       \/ /\ ~CanTransition(status, "uploading") /\ NoFault
          /\ SubFails("end") /\ Quiet /\ UNCHANGED status
       \/ Fault /\ SubFails("fail") /\ Quiet /\ UNCHANGED status
    /\ UNCHANGED <<provider, hidden, retries, money, queued, upstream, can, wk, fixed, gaps>>

\* TouchBatchImageJobSubmitting, while the provider is uploading.
SubmitHeartbeat ==
    /\ SubAt("submit") /\ status \in Unsent /\ aged /\ Touch /\ NoFault
    /\ UNCHANGED <<status, provider, hidden, retries, money, queued, upstream, sub, can, wk, fixed, gaps>>

\* provider.Submit: accepted, refused, or accepted with the reply lost.
ProviderSubmit ==
    /\ SubAt("submit") /\ Quiet
    /\ \/ upstream' = "running" /\ SubGoes("record") /\ NoFault /\ UNCHANGED gaps
       \/ SubFails("fail") /\ UNCHANGED <<upstream, gaps, faults>>
       \/ upstream' = "running" /\ SubFails("fail") /\ Fault /\ Gap("orphan")
    /\ UNCHANGED <<status, provider, hidden, retries, money, queued, can, wk, fixed>>

\* UpdateBatchImageJobProviderSubmit: any error aborts the provider's batch.
RecordSubmit ==
    /\ SubAt("record")
    /\ \/ /\ CanTransition(status, "submitted")
          /\ status' = "submitted" /\ provider' = TRUE /\ Touch
          /\ \/ SubGoes("enqueue") /\ NoFault /\ UNCHANGED gaps
             \/ SubGoes("abort") /\ Fault /\ Gap("unowned")
       \/ /\ ~CanTransition(status, "submitted") /\ NoFault
          /\ SubGoes("abort") /\ Quiet /\ UNCHANGED <<status, provider, gaps>>
       \/ Fault /\ SubGoes("abort") /\ Quiet /\ UNCHANGED <<status, provider, gaps>>
    /\ UNCHANGED <<hidden, retries, money, queued, upstream, can, wk, fixed>>

\* abortOrphanProviderJob: best effort.
AbortProviderJob ==
    /\ SubAt("abort") /\ SubGoes("end") /\ Quiet
    /\ \/ /\ upstream' = IF upstream = "running" THEN "cancelled" ELSE upstream
          /\ NoFault /\ UNCHANGED gaps
       \/ Fault /\ Gap("orphan") /\ UNCHANGED upstream
    /\ UNCHANGED <<status, provider, hidden, retries, money, queued, can, wk, fixed>>

\* The first Enqueue; an error leaves the job submitted and unqueued until the
\* owner repeats the request or cancels.
EnqueueJob ==
    /\ SubAt("enqueue") /\ SubGoes("end") /\ Quiet
    /\ \/ queued' = TRUE /\ NoFault /\ UNCHANGED gaps
       \/ Fault /\ Gap("unowned") /\ UNCHANGED queued
    /\ UNCHANGED <<status, provider, hidden, retries, money, upstream, can, wk, fixed>>

\* A repeated request with the same Idempotency-Key queues a submitted job again.
RepeatSubmit ==
    /\ SubAt("end") /\ status = "submitted" /\ ~queued /\ queued' = TRUE
    /\ Quiet /\ NoFault
    /\ UNCHANGED <<status, provider, hidden, retries, money, upstream, sub, can, wk, fixed, gaps>>

\* releaseFailedSubmitHold, with the snapshot reserveBatchImageBalanceHold filled.
SubmitSnap == [held |-> TRUE, reserved |-> TRUE]
ReleaseSubmit ==
    /\ SubAt("release")
    /\ \/ ReleaseOk(SubmitSnap) /\ SubGoes(sub.then)
       \/ ReleaseError(SubmitSnap) /\ SubGoes("relFailed")
    /\ Touch
    /\ UNCHANGED <<status, provider, hidden, retries, queued, upstream, can, wk, fixed>>

\* RecordBatchImageJobSubmitFailure with markFailed: the status is overwritten
\* whatever it is, and an error of the statement is ignored.
MarkSubmitFailed ==
    /\ sub.pc \in {"fail", "relFailed"}
    /\ SubGoes(IF sub.pc = "fail" THEN "hide" ELSE "relQueue")
    /\ \/ status' = "failed" /\ Touch /\ NoFault
       \/ Fault /\ Quiet /\ UNCHANGED status
    /\ UNCHANGED <<provider, hidden, retries, money, queued, upstream, can, wk, fixed, gaps>>

\* hidePreUpstreamSubmitFailure: an unfinished job is not hidden.
HideJob ==
    /\ SubAt("hide") /\ SubGoes("end")
    /\ hidden' = (hidden \/ status \in Terminal) /\ Quiet /\ NoFault
    /\ UNCHANGED <<status, provider, retries, money, queued, upstream, can, wk, fixed, gaps>>

\* enqueueBillingRetry after a failed release.
QueueRelease ==
    /\ SubAt("relQueue") /\ SubGoes("end") /\ Quiet
    /\ \/ queued' = TRUE /\ NoFault /\ UNCHANGED gaps
       \/ Fault /\ Gap("unowned") /\ UNCHANGED queued
    /\ UNCHANGED <<status, provider, hidden, retries, money, upstream, can, wk, fixed>>

SubmitDies ==
    /\ sub.pc \notin {"create", "end"} /\ SubGoes("end") /\ Fault /\ Quiet
    /\ upstream' \in (IF sub.pc = "submit" THEN {"none", "running"} ELSE {upstream})
    /\ gaps' = gaps \cup (IF sub.pc \in {"enqueue", "relQueue", "abort"} THEN {"unowned"} ELSE {})
                    \cup (IF sub.pc \in {"submit", "record", "abort"} THEN {"orphan"} ELSE {})
    /\ UNCHANGED <<status, provider, hidden, retries, money, queued, can, wk, fixed>>

Submit ==
    \/ CreateJob \/ ReserveHold \/ CreateItems \/ StartUpload
    \/ ProviderSubmit \/ RecordSubmit \/ AbortProviderJob \/ EnqueueJob
    \/ ReleaseSubmit \/ MarkSubmitFailed \/ HideJob \/ QueueRelease

-----------------------------------------------------------------------------
(* Cancel                                                                  *)

CanGoes(pc) == can' = [can EXCEPT !.pc = pc]
CanStops    == can' = [pc |-> "idle", snap |-> Blank]

\* The row is loaded once; everything after works on this snapshot.
LoadCancel ==
    /\ can.pc = "idle" /\ status # "none" /\ ~hidden
    /\ status \notin {"settling", "completed"}
    /\ can' = [pc |-> IF status \in {"failed", "cancelled"} THEN "release"
                      ELSE IF provider THEN "provider" ELSE "transition",
               snap |-> Loaded]
    /\ Quiet /\ NoFault
    /\ UNCHANGED <<status, provider, hidden, retries, money, queued, upstream, sub, wk, fixed, gaps>>

\* provider.Cancel, then the queue lets a worker see what came of it.
CancelProvider ==
    /\ can.pc = "provider" /\ Quiet
    /\ \/ /\ upstream' = IF upstream = "running" THEN "cancelled" ELSE upstream
          /\ CanGoes("enqueue") /\ NoFault
       \/ Fault /\ CanStops /\ UNCHANGED upstream
    /\ UNCHANGED <<status, provider, hidden, retries, money, queued, sub, wk, fixed, gaps>>

CancelEnqueue ==
    /\ can.pc = "enqueue" /\ CanStops /\ Quiet
    /\ \/ queued' = TRUE /\ NoFault
       \/ Fault /\ UNCHANGED queued
    /\ UNCHANGED <<status, provider, hidden, retries, money, upstream, sub, wk, fixed, gaps>>

\* The job had no provider batch when it was loaded.  It may have one by now.
CancelTransition ==
    /\ can.pc = "transition"
    /\ \/ /\ CanTransition(status, "cancelled") /\ status' = "cancelled" /\ Touch
          /\ \/ CanGoes("release") /\ NoFault
                /\ gaps' = IF provider THEN gaps \cup {"orphan"} ELSE gaps
             \/ CanStops /\ Fault
                /\ gaps' = gaps \cup {"unowned"} \cup (IF provider THEN {"orphan"} ELSE {})
       \/ /\ ~CanTransition(status, "cancelled") /\ NoFault
          /\ CanStops /\ Quiet /\ UNCHANGED <<status, gaps>>
       \/ Fault /\ CanStops /\ Quiet /\ UNCHANGED <<status, gaps>>
    /\ UNCHANGED <<provider, hidden, retries, money, queued, upstream, sub, wk, fixed>>

CancelRelease ==
    /\ can.pc = "release"
    /\ \/ ReleaseOk(can.snap) /\ CanStops
       \/ ReleaseError(can.snap) /\ CanGoes("retry")
    /\ Touch
    /\ UNCHANGED <<status, provider, hidden, retries, queued, upstream, sub, wk, fixed>>

CancelRetry ==
    /\ can.pc = "retry" /\ CanStops /\ Quiet
    /\ \/ queued' = TRUE /\ NoFault /\ UNCHANGED gaps
       \/ Fault /\ Gap("unowned") /\ UNCHANGED queued
    /\ UNCHANGED <<status, provider, hidden, retries, money, upstream, sub, wk, fixed>>

CancelDies ==
    /\ can.pc # "idle" /\ CanStops /\ Fault /\ Quiet
    /\ gaps' = IF can.pc \in {"release", "retry"} THEN gaps \cup {"unowned"} ELSE gaps
    /\ UNCHANGED <<status, provider, hidden, retries, money, queued, upstream, sub, wk, fixed>>

Cancel ==
    \/ CancelProvider \/ CancelEnqueue \/ CancelTransition \/ CancelRelease \/ CancelRetry

-----------------------------------------------------------------------------
(* Recovery of submissions that never reached the provider                 *)

RecGoes(pc) == rec' = [rec EXCEPT !.pc = pc]
RecStops    == rec' = [pc |-> "idle", snap |-> Blank, kept |-> FALSE]
RecElse     == UNCHANGED <<provider, hidden, retries, upstream, sub, can, wk, fixed>>

\* ListStaleUnsubmittedBatchImageJobs
ListStale ==
    /\ rec.pc = "idle" /\ status \in Unsent /\ ~provider /\ aged
    /\ rec' = [pc |-> "fail", snap |-> Loaded, kept |-> TRUE]
    /\ NoFault /\ RecElse /\ UNCHANGED <<status, aged, money, queued, gaps>>

\* Mutant: the recovery trusts its list.
AnyStale == status \notin Terminal

\* FailStaleUnsubmittedBatchImageJob re-checks the row against the same cutoff.
StillStale == status \in Unsent /\ ~provider /\ rec.kept

FailStale ==
    /\ rec.pc = "fail" /\ RecElse
    /\ \/ /\ StillStale /\ status' = "failed" /\ aged' = FALSE
          /\ \/ RecGoes("release") /\ NoFault /\ UNCHANGED gaps
             \/ RecStops /\ Fault /\ Gap("unowned")
       \/ ~StillStale /\ RecStops /\ UNCHANGED <<status, aged, gaps, faults>>
       \/ Fault /\ RecStops /\ UNCHANGED <<status, aged, gaps>>
    /\ UNCHANGED <<money, queued>>

RecoveryRelease ==
    /\ rec.pc = "release" /\ RecElse
    /\ \/ ReleaseOk(rec.snap) /\ RecStops
       \/ ReleaseError(rec.snap) /\ RecGoes("retry")
    /\ aged' = FALSE /\ UNCHANGED <<status, queued>>

RecoveryRetry ==
    /\ rec.pc = "retry" /\ RecStops /\ RecElse
    /\ \/ queued' = TRUE /\ NoFault /\ UNCHANGED gaps
       \/ Fault /\ Gap("unowned") /\ UNCHANGED queued
    /\ UNCHANGED <<status, aged, money>>

RecoveryDies ==
    /\ rec.pc # "idle" /\ RecStops /\ Fault /\ RecElse
    /\ gaps' = IF rec.pc \in {"release", "retry"} THEN gaps \cup {"unowned"} ELSE gaps
    /\ UNCHANGED <<status, aged, money, queued>>

Recovery == ListStale \/ FailStale \/ RecoveryRelease \/ RecoveryRetry

-----------------------------------------------------------------------------
(* The worker                                                              *)

WkAt(w, pc)   == wk[w].pc = pc
WkGoes(w, pc) == wk' = [wk EXCEPT ![w].pc = pc]
\* Requeued or acknowledged: RunOnce ends and the job lock is released.
WkStops(w)    == wk' = [wk EXCEPT ![w] = [pc |-> "idle", snap |-> Blank]]
WkElse        == UNCHANGED <<provider, hidden, upstream, sub, can, fixed>>

\* Reserve from the queue and TryAcquireJobLock.
Take(w) ==
    /\ WkAt(w, "idle") /\ queued
    /\ LockKept => \A v \in Workers : WkAt(v, "idle")
    /\ WkGoes(w, "load") /\ Quiet /\ NoFault
    /\ WkElse /\ UNCHANGED <<status, retries, money, queued, gaps>>

\* The pipeline loads the job and chooses the settlement or the processor.  A job
\* without a provider batch is an error, requeued.
NextFor ==
    CASE status = "settling" -> IF retries >= MaxRetries THEN "exhaust" ELSE "capture"
      [] status \in {"failed", "cancelled"} -> "release"
      [] status = "completed" -> "ack"
      [] status = "indexing"  -> "index"
      [] status \in Unsent    -> "requeue"
      [] OTHER                -> "get"

Load(w) ==
    /\ WkAt(w, "load")
    /\ wk' = [wk EXCEPT ![w] = [pc |-> NextFor, snap |-> Loaded]]
    /\ Quiet /\ NoFault /\ WkElse /\ UNCHANGED <<status, retries, money, queued, gaps>>

\* Mutant: a job that cannot go on is acknowledged.
RequeueJobDropped(w) ==
    /\ WkAt(w, "requeue") /\ WkStops(w) /\ queued' = FALSE
    /\ Quiet /\ NoFault /\ WkElse /\ UNCHANGED <<status, retries, money, gaps>>

RequeueJob(w) ==
    /\ WkAt(w, "requeue") /\ WkStops(w)
    /\ Quiet /\ NoFault /\ WkElse /\ UNCHANGED <<status, retries, money, queued, gaps>>

\* provider.Get
GetProvider(w) ==
    /\ WkAt(w, "get") /\ Quiet /\ WkElse
    /\ \/ /\ WkGoes(w, CASE upstream = "succeeded" -> "indexing"
                         [] upstream = "garbled"   -> "indexing"
                         [] upstream = "failed"    -> "failed"
                         [] upstream = "cancelled" -> "cancelled"
                         [] OTHER                  -> "running")
          /\ NoFault
       \/ Fault /\ WkGoes(w, "requeue")
    /\ UNCHANGED <<status, retries, money, queued, gaps>>

\* TransitionBatchImageJobStatus, named by the status it writes.
After == [running |-> "requeue", indexing |-> "index", settling |-> "requeue",
          failed |-> "release", cancelled |-> "release"]

Transition(w) ==
    /\ wk[w].pc \in DOMAIN After /\ WkElse
    /\ \/ /\ CanTransition(status, wk[w].pc) /\ NoFault
          /\ status' = wk[w].pc /\ Touch /\ WkGoes(w, After[wk[w].pc])
       \/ /\ ~CanTransition(status, wk[w].pc) /\ NoFault
          /\ WkGoes(w, "requeue") /\ Quiet /\ UNCHANGED status
       \/ Fault /\ WkGoes(w, "requeue") /\ Quiet /\ UNCHANGED status
    /\ UNCHANGED <<retries, money, queued, gaps>>

\* Index the result.  Output that is missing is retried, output that cannot be
\* read (or a statement that fails) ends the job as failed.
Index(w) ==
    /\ WkAt(w, "index") /\ Quiet /\ WkElse
    /\ \/ status # "indexing" /\ WkGoes(w, "requeue") /\ NoFault
       \/ status = "indexing" /\ upstream = "succeeded" /\ WkGoes(w, "settling") /\ NoFault
       \/ upstream = "garbled" /\ WkGoes(w, "failed") /\ NoFault
       \/ Fault /\ WkGoes(w, "requeue")
       \/ Fault /\ WkGoes(w, "failed")
    /\ UNCHANGED <<status, retries, money, queued, gaps>>

\* releaseTerminalHold; its error requeues the job.
ReleaseTerminal(w) ==
    /\ WkAt(w, "release") /\ WkElse
    /\ \/ ReleaseOk(wk[w].snap) /\ WkGoes(w, "ack")
       \/ ReleaseError(wk[w].snap) /\ WkGoes(w, "requeue")
    /\ Touch /\ UNCHANGED <<status, retries, queued>>

Capture(w) ==
    /\ WkAt(w, "capture") /\ WkElse /\ UNCHANGED <<status, retries, queued, gaps>>
    /\ \/ /\ CaptureAllowed(wk[w].snap) /\ CaptureEffect(wk[w].snap) /\ Touch
          /\ \/ WkGoes(w, "settle") /\ NoFault
             \/ WkGoes(w, "record") /\ Fault
       \/ /\ ~CaptureAllowed(wk[w].snap) /\ NoFault
          /\ WkGoes(w, "record") /\ Quiet /\ UNCHANGED money
       \/ Fault /\ WkGoes(w, "record") /\ Quiet /\ UNCHANGED money

\* recordSettlementFailure: the last attempt gives the hold back at once.
RecordFailure(w) ==
    /\ WkAt(w, "record") /\ WkElse
    /\ \/ /\ retries' = retries + 1 /\ Touch /\ NoFault
          /\ WkGoes(w, IF retries + 1 >= MaxRetries THEN "exhaust" ELSE "requeue")
       \/ Fault /\ WkGoes(w, "requeue") /\ Quiet /\ UNCHANGED retries
    /\ UNCHANGED <<status, money, queued, gaps>>

\* failExhaustedSettlement.  After an error the retry count is not counted
\* further: it is already past the limit.
Exhaust(w) ==
    /\ WkAt(w, "exhaust") /\ WkElse
    /\ \/ ReleaseOk(wk[w].snap) /\ WkGoes(w, "exhausted")
       \/ ReleaseError(wk[w].snap) /\ WkGoes(w, "requeue")
    /\ Touch /\ UNCHANGED <<status, retries, queued>>

FailExhausted(w) ==
    /\ WkAt(w, "exhausted") /\ WkElse
    /\ \/ /\ CanTransition(status, "failed") /\ NoFault
          /\ status' = "failed" /\ Touch /\ WkGoes(w, "ack")
       \/ /\ ~CanTransition(status, "failed") /\ NoFault
          /\ WkGoes(w, "requeue") /\ Quiet /\ UNCHANGED status
       \/ Fault /\ WkGoes(w, "requeue") /\ Quiet /\ UNCHANGED status
    /\ UNCHANGED <<retries, money, queued, gaps>>

\* MarkBatchImageJobSettled
MarkSettled(w) ==
    /\ WkAt(w, "settle") /\ WkElse
    /\ \/ /\ status = "settling" /\ status' = "completed" /\ Touch
          /\ \/ WkGoes(w, "ack") /\ NoFault
             \/ WkGoes(w, "requeue") /\ Fault
       \/ /\ status # "settling" /\ NoFault
          /\ WkGoes(w, "requeue") /\ Quiet /\ UNCHANGED status
       \/ Fault /\ WkGoes(w, "requeue") /\ Quiet /\ UNCHANGED status
    /\ UNCHANGED <<retries, money, queued, gaps>>

AckJob(w) ==
    /\ WkAt(w, "ack") /\ WkStops(w) /\ Quiet /\ WkElse
    /\ \/ queued' = FALSE /\ NoFault
       \/ Fault /\ UNCHANGED queued
    /\ UNCHANGED <<status, retries, money, gaps>>

\* The active set and the lock's TTL bring the job back.
RunDies(w) ==
    /\ ~WkAt(w, "idle") /\ WkStops(w) /\ Fault /\ Quiet /\ WkElse
    /\ UNCHANGED <<status, retries, money, queued, gaps>>

Work(w) ==
    \/ Take(w) \/ Load(w) \/ RequeueJob(w) \/ GetProvider(w) \/ Transition(w)
    \/ Index(w) \/ ReleaseTerminal(w) \/ Capture(w) \/ RecordFailure(w)
    \/ Exhaust(w) \/ FailExhausted(w) \/ MarkSettled(w) \/ AckJob(w)

-----------------------------------------------------------------------------
(* The provider and the clock                                              *)

ProviderEnds ==
    /\ upstream = "running"
    /\ upstream' \in {"succeeded", "garbled", "failed"}
    /\ UNCHANGED <<row, money, queued, procs, fixed, gaps, faults>>

\* A submission that goes on for the stale period without a heartbeat.
Age ==
    /\ status \in Unsent /\ ~aged /\ aged' = TRUE
    /\ UNCHANGED <<status, provider, hidden, retries, money, queued, upstream, procs, fixed, gaps, faults>>

JobNext ==
    \/ Submit \/ SubmitHeartbeat \/ RepeatSubmit \/ SubmitDies
    \/ LoadCancel \/ Cancel \/ CancelDies
    \/ Recovery \/ RecoveryDies
    \/ \E w \in Workers : Work(w) \/ RunDies(w)
    \/ ProviderEnds \/ Age

JobSpec == JobInit /\ [][JobNext]_jobVars

\* Processes that run go on; the recovery ticks; the provider ends a batch; a
\* submission nobody refreshes grows old.  Nobody has to cancel or to repeat.
JobFairSpec ==
    /\ JobSpec
    /\ WF_jobVars(Submit) /\ WF_jobVars(Cancel) /\ WF_jobVars(Recovery)
    /\ \A w \in Workers : WF_jobVars(Work(w))
    /\ WF_jobVars(ProviderEnds) /\ WF_jobVars(Age)

-----------------------------------------------------------------------------
(* Properties                                                              *)

Reserved    == "hold" \in claims
Captured    == "capture" \in claims
Released    == Reserved /\ "release" \in claims
Outstanding == Reserved /\ ~Captured /\ ~Released

WorkerPcs == {"idle", "load", "get", "index", "capture", "record", "settle", "exhaust",
              "exhausted", "ack", "requeue", "release",
              "running", "indexing", "settling", "failed", "cancelled"}

\* Every variable keeps its type, and a job whose lock is kept never counts more
\* failed settlements than batchImageSettlementMaxRetries (the failed releases of
\* the last attempt apart).
JobTypeOK ==
    /\ status \in Statuses
    /\ {provider, hidden, aged, reserved, queued} \subseteq BOOLEAN
    /\ retries \in Nat /\ (LockKept => retries <= MaxRetries)
    /\ claims \subseteq {"hold", "capture", "release"}
    /\ balance \in Int /\ frozen \in Int /\ subUsed \in Int /\ quota \in Int
    /\ upstream \in {"none", "running", "succeeded", "garbled", "failed", "cancelled"}
    /\ cost \in Costs /\ start \in Balances
    /\ sub.pc \in {"create", "reserve", "items", "upload", "submit", "record", "abort",
                   "enqueue", "release", "relFailed", "relQueue", "fail", "hide", "end"}
    /\ sub.then \in {"end", "fail"}
    /\ can \in [pc : {"idle", "release", "provider", "enqueue", "transition", "retry"},
                snap : Snapshots]
    /\ rec \in [pc : {"idle", "fail", "release", "retry"}, snap : Snapshots, kept : BOOLEAN]
    /\ wk \in [Workers -> [pc : WorkerPcs, snap : Snapshots]]
    /\ gaps \subseteq Gaps /\ faults \in 0..MaxFaults

\* Unless the job was charged and refunded, the four counters are what the three
\* transactions, each counted once, leave: nothing is taken twice, nothing given
\* back twice, nothing of another job's frozen balance is used.
OnlyKept == IF cost <= SubPart THEN cost ELSE SubPart
FundsAddUp ==
    "early" \notin gaps /\ ~(Captured /\ Released) =>
        <<balance, frozen, subUsed, quota>> =
            CASE Captured    -> <<start - (cost - OnlyKept), OtherFrozen, OnlyKept, cost>>
              [] Outstanding -> <<start - BalPart, OtherFrozen + BalPart, SubPart, Hold>>
              [] OTHER       -> <<start, OtherFrozen, 0, 0>>

\* A job is never both charged and refunded, unless as many faults as there are
\* attempts hide a capture: the last attempt releases without asking for it.
CapturedOrReleased == faults < MaxRetries => ~(Captured /\ Released)

\* A completed job was charged; an ended one without a result was not, with the
\* same exception.
StatusTellsOutcome ==
    /\ status = "completed" => Captured
    /\ status \in {"failed", "cancelled"} /\ faults < MaxRetries => ~Captured

\* Money of an ended job has somebody on the way to give it back, but for the
\* gaps early (the claim of the release is used up) and unowned (he was lost).
Releaser ==
    \/ queued
    \/ sub.pc \in {"items", "upload", "submit", "record", "abort", "release", "relFailed", "relQueue"}
    \/ can.pc \in {"release", "retry"} \/ rec.pc \in {"release", "retry"}
HoldHasOwner ==
    status \in Terminal /\ Outstanding /\ gaps \cap {"early", "unowned"} = {} => Releaser

\* The money of a job is accounted for at every step of every process: the
\* counters, the outcome, the status and the one on the way to give it back agree,
\* each with its own exception: gap early, gaps early and unowned, or as many
\* faults as there are attempts to capture.
MoneyIsAccountedFor ==
    JobTypeOK /\ FundsAddUp /\ CapturedOrReleased /\ StatusTellsOutcome /\ HoldHasOwner

\* Whoever got the money back does not leave a batch running at the provider, but
\* for one that nobody can reach any more (gap orphan).
RefundStopsProvider ==
    Released /\ upstream = "running" /\ "orphan" \notin gaps => sub.pc \in {"record", "abort"}

\* Money frozen for a job does not stay frozen, unless a release came before the
\* hold or whoever was to release it was lost (gaps early and unowned).
HoldResolves == Outstanding ~> (~Outstanding \/ gaps \cap {"early", "unowned"} # {})

=============================================================================
