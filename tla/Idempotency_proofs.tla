-------------------------- MODULE Idempotency_proofs --------------------------
(***************************************************************************)
(* Proofs about Idempotency, for any number of requests, payloads and      *)
(* times.  The inductive invariant says what a claim is worth: while a     *)
(* request executes, the row is its own, unexpired, and locked for longer  *)
(* than any request now about to reclaim can have been waiting.            *)
(***************************************************************************)
EXTENDS Idempotency, TLAPS

Reclaiming == {"reclaimExpired", "reclaimFailed"}

\* A request is at most StoreLatency old while it claims, and younger than
\* the record it claimed while it executes.
TimeInv ==
  \A c \in Requests :
    /\ now[c] <= clock
    /\ pc[c] \in Claiming => clock <= now[c] + StoreLatency
    /\ pc[c] \in Claimed => clock < now[c] + TTL

\* A claimed record is the one the claim wrote.
HeldInv ==
  \A c \in Requests : pc[c] \in Claimed =>
    /\ row # Nil
    /\ row.id = recId[c]
    /\ row.fingerprint = Payload[c]
    /\ row.status = "processing"
    /\ row.lockedUntil = now[c] + ProcessingTimeout
    /\ row.expiresAt = now[c] + TTL

\* A request that read the record before another claimed it began before the
\* lock of that claim runs out.
RaceInv ==
  \A c, d \in Requests :
    pc[c] \in Reclaiming /\ pc[d] \in Claimed => now[c] < now[d] + ProcessingTimeout

\* Ids are not used twice, and a record keeps its fingerprint.
IdInv ==
  /\ row # Nil => row.id < nextId
  /\ \A c \in Requests : seen[c] # Nil =>
       /\ seen[c].id < nextId
       /\ row # Nil /\ row.id = seen[c].id => row.fingerprint = seen[c].fingerprint

SeenInv ==
  \A c \in Requests :
    pc[c] \in Reclaiming => seen[c] # Nil /\ seen[c].fingerprint = Payload[c]

RanInv ==
  \A c \in Requests :
    /\ pc[c] \in {"start", "run"} \cup Claiming => ran[c] = "no"
    /\ pc[c] = "markSucceeded" => ran[c] = "ok"
    /\ result[c] \in Requests => pc[c] = "done"

\* A stored body is that of a successful execution of the same payload.
BodyInv ==
  row # Nil /\ row.body # Nil =>
    ran[row.body] = "ok" /\ Payload[row.body] = row.fingerprint

IInv ==
  /\ TypeOK
  /\ TimeInv
  /\ HeldInv
  /\ ClaimsExclusive
  /\ RaceInv
  /\ IdInv
  /\ SeenInv
  /\ RanInv
  /\ BodyInv
  /\ ReplayIsGenuine

----------------------------------------------------------------------------
(* What the statements leave behind.                                       *)

\* Nobody reclaims a record that is being executed.
LEMMA NoReclaimWhileHeld ==
  ASSUME TypeOK, HeldInv, RaceInv, NEW c \in Requests, NEW d \in Requests,
         pc[c] \in Reclaiming, CanReclaim(c), pc[d] \in Claimed
  PROVE  FALSE
  BY ConstantsAssumption DEF TypeOK, HeldInv, RaceInv, CanReclaim, Row

\* The rows written are rows.
LEMMA InsertedType ==
  ASSUME TypeOK, NEW c \in Requests
  PROVE  Inserted(c) \in Row
<1>1. Payload[c] \in Fingerprints
  BY DEF Fingerprints
<1> QED
  BY <1>1, ConstantsAssumption DEF TypeOK, Inserted, Row, Status

LEMMA ReclaimedType ==
  ASSUME TypeOK, NEW c \in Requests, row # Nil
  PROVE  /\ Reclaimed(c) \in Row
         /\ Reclaimed(c).id = row.id
         /\ Reclaimed(c).fingerprint = row.fingerprint
         /\ Reclaimed(c).body = row.body
         /\ Reclaimed(c).status = "processing"
         /\ Reclaimed(c).lockedUntil = now[c] + ProcessingTimeout
         /\ Reclaimed(c).expiresAt = now[c] + TTL
<1>1. row \in Row /\ now[c] + ProcessingTimeout \in Nat /\ now[c] + TTL \in Nat
  BY ConstantsAssumption DEF TypeOK
<1>2. Reclaimed(c) \in Row
  BY <1>1 DEF Reclaimed, Row, Status
<1> QED
  BY <1>1, <1>2 DEF Reclaimed, Row

\* A mark by the holder of the claim finds its own record.
LEMMA MarkedSucceededType ==
  ASSUME TypeOK, NEW c \in Requests, row # Nil, row.id = recId[c]
  PROVE  /\ MarkedSucceeded(c) \in Row
         /\ MarkedSucceeded(c).id = row.id
         /\ MarkedSucceeded(c).fingerprint = row.fingerprint
         /\ MarkedSucceeded(c).body = c
<1>1. row \in Row /\ now[c] + TTL \in Nat
  BY ConstantsAssumption DEF TypeOK
<1>2. MarkedSucceeded(c) \in Row
  BY <1>1 DEF MarkedSucceeded, Row, Status
<1> QED
  BY <1>1, <1>2 DEF MarkedSucceeded, Row

LEMMA MarkedFailedType ==
  ASSUME TypeOK, NEW c \in Requests, row # Nil, row.id = recId[c]
  PROVE  /\ MarkedFailed(c) \in Row
         /\ MarkedFailed(c).id = row.id
         /\ MarkedFailed(c).fingerprint = row.fingerprint
         /\ MarkedFailed(c).body = row.body
<1>1. row \in Row /\ now[c] + TTL \in Nat /\ clock + FailedRetryBackoff \in Nat
  BY ConstantsAssumption DEF TypeOK
<1>2. MarkedFailed(c) \in Row
  BY <1>1 DEF MarkedFailed, Row, Status
<1> QED
  BY <1>1, <1>2 DEF MarkedFailed, Row

----------------------------------------------------------------------------
(* Every step preserves the invariant.                                     *)

\* Time passes: Prompt keeps TimeInv.
LEMMA TickStep == IInv /\ Tick => IInv'
<1> SUFFICES ASSUME IInv, Tick PROVE IInv'
  OBVIOUS
<1>1. TypeOK'
  BY ConstantsAssumption DEF IInv, TypeOK, Tick
<1>2. TimeInv'
  BY ConstantsAssumption DEF IInv, TypeOK, TimeInv, Tick, Prompt
<1> QED
  BY <1>1, <1>2 DEF IInv, HeldInv, ClaimsExclusive, RaceInv, IdInv, SeenInv,
                    RanInv, BodyInv, ReplayIsGenuine, Tick

LEMMA DeleteStep == IInv /\ DeleteExpired => IInv'
<1> SUFFICES ASSUME IInv, DeleteExpired PROVE IInv'
  OBVIOUS
<1>1. TypeOK'
  BY DEF IInv, TypeOK, DeleteExpired
<1>2. \A c \in Requests : pc[c] \notin Claimed
  BY ConstantsAssumption DEF IInv, TypeOK, TimeInv, HeldInv, DeleteExpired
<1> QED
  BY <1>1, <1>2 DEF IInv, TimeInv, HeldInv, ClaimsExclusive, RaceInv, IdInv, SeenInv,
                    RanInv, BodyInv, ReplayIsGenuine, DeleteExpired

LEMMA StartStep ==
  ASSUME IInv, NEW c \in Requests, Start(c) PROVE IInv'
<1> USE DEF Claiming, Claimed, Reclaiming
<1>1. TypeOK'
  BY DEF IInv, TypeOK, Start, Goto
<1>2. TimeInv'
  BY ConstantsAssumption DEF IInv, TypeOK, TimeInv, Start, Goto
<1>3. HeldInv' /\ ClaimsExclusive' /\ RaceInv' /\ SeenInv' /\ RanInv'
  BY DEF IInv, TypeOK, HeldInv, ClaimsExclusive, RaceInv, SeenInv, RanInv, Start, Goto
<1> QED
  BY <1>1, <1>2, <1>3 DEF IInv, IdInv, BodyInv, ReplayIsGenuine, Start

LEMMA CreateStep ==
  ASSUME IInv, NEW c \in Requests, CreateProcessing(c) PROVE IInv'
<1> USE DEF Claiming, Claimed, Reclaiming
<1>1. CASE row = Nil
  <2>1. /\ row' = Inserted(c) /\ nextId' = nextId + 1
        /\ recId' = [recId EXCEPT ![c] = nextId]
        /\ pc' = [pc EXCEPT ![c] = "run"]
        /\ pc[c] = "create"
        /\ UNCHANGED <<clock, now, seen, ran, result>>
    BY <1>1 DEF CreateProcessing, Goto
  <2>2. /\ Inserted(c) \in Row
        /\ row'.id = nextId
        /\ row'.fingerprint = Payload[c]
        /\ row'.body = Nil
        /\ row'.status = "processing"
        /\ row'.lockedUntil = now[c] + ProcessingTimeout
        /\ row'.expiresAt = now[c] + TTL
    BY <2>1, InsertedType DEF Inserted, IInv
  <2>3. TypeOK'
    BY <2>1, <2>2 DEF IInv, TypeOK
  <2>4. \A d \in Requests : pc[d] \notin Claimed
    BY <1>1 DEF IInv, HeldInv
  <2>5. TimeInv'
    BY <2>1, ConstantsAssumption, LatencyAssumption DEF IInv, TypeOK, TimeInv
  <2>6. row' # Nil
    BY <2>1, <2>2, NilAssumption
  <2>7. HeldInv' /\ ClaimsExclusive'
    BY <2>1, <2>2, <2>4, <2>6 DEF IInv, TypeOK, HeldInv, ClaimsExclusive
  <2>8. RaceInv'
    BY <2>1, <2>4, ConstantsAssumption, LatencyAssumption DEF IInv, TypeOK, TimeInv, RaceInv
  <2>9. IdInv'
    BY <2>1, <2>2, <1>1 DEF IInv, TypeOK, IdInv, Row
  <2>10. SeenInv' /\ RanInv' /\ ReplayIsGenuine'
    BY <2>1 DEF IInv, TypeOK, SeenInv, RanInv, ReplayIsGenuine
  <2> QED
    BY <2>2, <2>3, <2>5, <2>7, <2>8, <2>9, <2>10 DEF IInv, BodyInv
<1>2. CASE row # Nil
  <2>1. /\ pc' = [pc EXCEPT ![c] = "get"]
        /\ pc[c] = "create"
        /\ UNCHANGED <<clock, row, nextId, now, seen, recId, ran, result>>
    BY <1>2 DEF CreateProcessing, Goto
  <2>2. TypeOK' /\ TimeInv' /\ HeldInv' /\ ClaimsExclusive'
    BY <2>1 DEF IInv, TypeOK, TimeInv, HeldInv, ClaimsExclusive
  <2>3. RaceInv' /\ SeenInv' /\ RanInv'
    BY <2>1 DEF IInv, TypeOK, RaceInv, SeenInv, RanInv
  <2> QED
    BY <2>1, <2>2, <2>3 DEF IInv, IdInv, BodyInv, ReplayIsGenuine
<1> QED
  BY <1>1, <1>2

\* A request that goes away without having changed the record, its last
\* statement having read it or not.
LEMMA LeaveStep ==
  ASSUME IInv, NEW c \in Requests, NEW answer \in Answers \cup {Nil},
         Return(c, answer), seen' \in {seen, [seen EXCEPT ![c] = row]},
         UNCHANGED <<clock, row, nextId, now, recId, ran>>
  PROVE  IInv'
<1> USE DEF Claiming, Claimed, Reclaiming
<1>1. TypeOK'
  BY DEF IInv, TypeOK, Return, Goto
<1>2. TimeInv' /\ HeldInv' /\ ClaimsExclusive' /\ RaceInv'
  BY DEF IInv, TypeOK, TimeInv, HeldInv, ClaimsExclusive, RaceInv, Return, Goto
<1>3. IdInv' /\ SeenInv'
  BY DEF IInv, TypeOK, IdInv, SeenInv, Return, Goto
<1>4. RanInv' /\ ReplayIsGenuine'
  BY ConstantsAssumption DEF IInv, TypeOK, RanInv, ReplayIsGenuine, Return, Goto
<1> QED
  BY <1>1, <1>2, <1>3, <1>4 DEF IInv, BodyInv

LEMMA CrashStep ==
  ASSUME IInv, NEW c \in Requests, Crash(c) PROVE IInv'
<1>1. "crashed" \in Answers
  BY DEF Answers
<1> QED
  BY <1>1, LeaveStep DEF Crash

LEMMA RunStep ==
  ASSUME IInv, NEW c \in Requests, RunExecutor(c) PROVE IInv'
<1> USE DEF Claiming, Claimed, Reclaiming
<1>1. TypeOK'
  BY DEF IInv, TypeOK, RunExecutor, Goto
<1>2. TimeInv' /\ HeldInv' /\ ClaimsExclusive' /\ RaceInv' /\ SeenInv' /\ RanInv'
  BY DEF IInv, TypeOK, TimeInv, HeldInv, ClaimsExclusive, RaceInv, SeenInv, RanInv,
         RunExecutor, Goto
<1>3. ran[c] = "no" /\ \A d \in Requests : d # c => ran'[d] = ran[d]
  BY DEF IInv, TypeOK, RanInv, RunExecutor
<1>4. BodyInv'
  <2>1. CASE row # Nil /\ row.body # Nil
    <3>1. row.body \in Requests
      BY <2>1 DEF IInv, TypeOK, Row
    <3> QED
      BY <2>1, <3>1, <1>3 DEF IInv, BodyInv, RunExecutor
  <2> QED
    BY <2>1 DEF BodyInv, RunExecutor
<1>5. ReplayIsGenuine'
  BY <1>3 DEF IInv, RanInv, ReplayIsGenuine, RunExecutor
<1> QED
  BY <1>1, <1>2, <1>4, <1>5 DEF IInv, IdInv, RunExecutor


\* A read of the record: the request answers, replays, or is to reclaim.
LEMMA ReadStep ==
  ASSUME IInv, NEW c \in Requests, pc[c] \in {"get", "reget"},
         seen' = [seen EXCEPT ![c] = row],
         UNCHANGED <<clock, row, nextId, now, recId, ran>>,
         SameRequest(c), NEW l \in Reclaiming,
         row.status # "processing" \/ row.expiresAt <= now[c],
         Goto(c, l), result' = result
  PROVE  IInv'
<1> USE DEF Claiming, Claimed, Reclaiming
<1>1. TypeOK'
  BY DEF IInv, TypeOK, Goto
<1>2. \A d \in Requests : pc[d] \notin Claimed
  BY ConstantsAssumption DEF IInv, TypeOK, TimeInv, HeldInv, Row, SameRequest
<1>3. \A d \in Requests : pc'[d] \notin Claimed
  BY <1>2 DEF IInv, TypeOK, Goto
<1>4. HeldInv' /\ ClaimsExclusive' /\ RaceInv'
  BY <1>3 DEF HeldInv, ClaimsExclusive, RaceInv
<1>5. TimeInv' /\ IdInv' /\ SeenInv' /\ RanInv'
  BY DEF IInv, TypeOK, TimeInv, IdInv, SeenInv, RanInv, Goto, SameRequest
<1> QED
  BY <1>1, <1>4, <1>5 DEF IInv, BodyInv, ReplayIsGenuine

\* A replay: the answer is the body of the record read.
LEMMA ReplayStep ==
  ASSUME IInv, NEW c \in Requests, pc[c] \in {"get", "reget"},
         seen' = [seen EXCEPT ![c] = row],
         UNCHANGED <<clock, row, nextId, now, recId, ran>>,
         SameRequest(c), Return(c, row.body), row.body \in Requests
  PROVE  IInv'
<1> USE DEF Claiming, Claimed, Reclaiming
<1>1. TypeOK'
  BY DEF IInv, TypeOK, Return, Goto
<1>2. TimeInv' /\ HeldInv' /\ ClaimsExclusive' /\ RaceInv'
  BY DEF IInv, TypeOK, TimeInv, HeldInv, ClaimsExclusive, RaceInv, Return, Goto
<1>3. IdInv' /\ SeenInv' /\ RanInv'
  BY DEF IInv, TypeOK, IdInv, SeenInv, RanInv, Return, Goto
<1>4. ran[row.body] = "ok" /\ Payload[row.body] = Payload[c] /\ ran[c] = "no"
  BY ConstantsAssumption DEF IInv, BodyInv, RanInv, SameRequest
<1>5. ReplayIsGenuine'
  BY <1>4 DEF IInv, TypeOK, ReplayIsGenuine, Return
<1> QED
  BY <1>1, <1>2, <1>3, <1>5 DEF IInv, BodyInv

LEMMA DispatchStep ==
  ASSUME IInv, NEW c \in Requests, pc[c] \in {"get", "reget"},
         seen' = [seen EXCEPT ![c] = row],
         UNCHANGED <<clock, row, nextId, now, recId, ran>>,
         SameRequest(c), Dispatch(c)
  PROVE  IInv'
<1>1. CASE /\ row.status = "succeeded"
           /\ Return(c, IF row.body \in Oversized THEN "store_unavailable" ELSE row.body)
  <2>1. CASE row.body \in Oversized
    <3>1. Return(c, "store_unavailable") /\ "store_unavailable" \in Answers
      BY <1>1, <2>1 DEF Answers
    <3> QED
      BY <3>1, LeaveStep
  <2>2. CASE row.body \notin Oversized
    <3>1. Return(c, row.body) /\ row.body \in Requests \cup {Nil}
      BY <1>1, <2>2 DEF IInv, TypeOK, Row, SameRequest
    <3> QED
      BY <3>1, LeaveStep, ReplayStep
  <2> QED
    BY <2>1, <2>2
<1>2. CASE row.status = "processing" /\ Return(c, "in_progress")
  <2>1. "in_progress" \in Answers
    BY DEF Answers
  <2> QED
    BY <1>2, <2>1, LeaveStep
<1>3. CASE row.status = "failed_retryable" /\ Return(c, "retry_backoff")
  <2>1. "retry_backoff" \in Answers
    BY DEF Answers
  <2> QED
    BY <1>3, <2>1, LeaveStep
<1>4. CASE row.status = "failed_retryable" /\ Goto(c, "reclaimFailed") /\ result' = result
  <2>1. row.status # "processing" /\ "reclaimFailed" \in Reclaiming
    BY <1>4 DEF Reclaiming
  <2> QED
    BY <1>4, <2>1, ReadStep
<1> QED
  BY <1>1, <1>2, <1>3, <1>4 DEF Dispatch

LEMMA GetStep ==
  ASSUME IInv, NEW c \in Requests, GetExisting(c) \/ GetLatest(c) PROVE IInv'
<1>1. /\ pc[c] \in {"get", "reget"}
      /\ seen' = [seen EXCEPT ![c] = row]
      /\ UNCHANGED <<clock, row, nextId, now, recId, ran>>
  BY DEF GetExisting, GetLatest
<1>2. CASE Missing(c) \/ Mismatch(c)
  <2>1. \E answer \in Answers : Return(c, answer)
    BY <1>2 DEF Missing, Mismatch, Answers
  <2> QED
    BY <1>1, <2>1, LeaveStep
<1>3. CASE SameRequest(c) /\ row.expiresAt <= now[c] /\ Goto(c, "reclaimExpired")
           /\ result' = result
  <2>1. "reclaimExpired" \in Reclaiming
    BY DEF Reclaiming
  <2> QED
    BY <1>1, <1>3, <2>1, ReadStep
<1>4. CASE SameRequest(c) /\ Dispatch(c)
  BY <1>1, <1>4, DispatchStep
<1> QED
  BY <1>2, <1>3, <1>4 DEF GetExisting, GetLatest


\* The reclaim is applied: nobody is executing, whatever c makes of it.
LEMMA ReclaimApplied ==
  ASSUME IInv, NEW c \in Requests, pc[c] \in Reclaiming, CanReclaim(c),
         row' = Reclaimed(c), UNCHANGED <<nextId, seen, ran>>
  PROVE  /\ row \in Row /\ row' \in Row /\ row' # Nil
         /\ row'.id = seen[c].id /\ row'.fingerprint = Payload[c]
         /\ row'.status = "processing"
         /\ row'.lockedUntil = now[c] + ProcessingTimeout
         /\ row'.expiresAt = now[c] + TTL
         /\ \A d \in Requests : pc[d] \notin Claimed
         /\ IdInv'
         /\ BodyInv'
<1>1. row \in Row /\ row # Nil /\ row.id = seen[c].id
  BY DEF IInv, TypeOK, CanReclaim
<1>2. /\ row' \in Row /\ row'.id = row.id /\ row'.fingerprint = row.fingerprint
      /\ row'.body = row.body /\ row'.status = "processing"
      /\ row'.lockedUntil = now[c] + ProcessingTimeout
      /\ row'.expiresAt = now[c] + TTL
  BY <1>1, ReclaimedType DEF IInv
<1>3. row' # Nil
  BY <1>2, NilAssumption
<1>4. \A d \in Requests : pc[d] \notin Claimed
  BY NoReclaimWhileHeld DEF IInv
<1>5. row.fingerprint = Payload[c]
  BY <1>1 DEF IInv, IdInv, SeenInv
<1>6. IdInv' /\ BodyInv'
  BY <1>1, <1>2, <1>3 DEF IInv, IdInv, BodyInv
<1> QED
  BY <1>1, <1>2, <1>3, <1>4, <1>5, <1>6

LEMMA ReclaimStep ==
  ASSUME IInv, NEW c \in Requests, pc[c] \in Reclaiming, Reclaim(c),
         UNCHANGED <<clock, nextId, now, seen, ran>>
  PROVE  IInv'
<1> USE DEF Claiming, Claimed, Reclaiming
<1>1. /\ row \in Row /\ row' \in Row /\ row' # Nil
      /\ row'.id = seen[c].id /\ row'.fingerprint = Payload[c]
      /\ row'.status = "processing"
      /\ row'.lockedUntil = now[c] + ProcessingTimeout
      /\ row'.expiresAt = now[c] + TTL
      /\ \A d \in Requests : pc[d] \notin Claimed
      /\ IdInv'
      /\ BodyInv'
  BY ReclaimApplied DEF Reclaim
<1>2. /\ recId' = [recId EXCEPT ![c] = seen[c].id]
      /\ pc' = [pc EXCEPT ![c] = "run"]
      /\ UNCHANGED result
      /\ seen[c] \in Row
      /\ seen[c].id \in Nat
  BY DEF IInv, TypeOK, SeenInv, Reclaim, Goto, Row
<1>3. TypeOK'
  BY <1>1, <1>2 DEF IInv, TypeOK
<1>4. TimeInv'
  BY <1>2, ConstantsAssumption, LatencyAssumption DEF IInv, TypeOK, TimeInv
<1>5. HeldInv' /\ ClaimsExclusive'
  BY <1>1, <1>2 DEF IInv, TypeOK, HeldInv, ClaimsExclusive
<1>6. RaceInv'
  BY <1>1, <1>2, ConstantsAssumption, LatencyAssumption DEF IInv, TypeOK, TimeInv, RaceInv
<1>7. SeenInv' /\ RanInv' /\ ReplayIsGenuine'
  BY <1>2 DEF IInv, TypeOK, SeenInv, RanInv, ReplayIsGenuine
<1> QED
  BY <1>1, <1>3, <1>4, <1>5, <1>6, <1>7 DEF IInv

\* The record changes while nobody executes, and c reports an error.
LEMMA UnclaimedWrite ==
  ASSUME IInv, NEW c \in Requests, NEW answer \in Answers, Return(c, answer),
         row' \in Row \cup {Nil}, nextId' \in Nat \ {0}, IdInv', BodyInv',
         \A d \in Requests : pc[d] \in Claimed => d = c,
         UNCHANGED <<clock, now, seen, recId, ran>>
  PROVE  IInv'
<1> USE DEF Claiming, Claimed, Reclaiming
<1>1. TypeOK'
  BY DEF IInv, TypeOK, Return, Goto
<1>2. \A d \in Requests : pc'[d] \notin Claimed
  BY DEF IInv, TypeOK, Return, Goto
<1>3. HeldInv' /\ ClaimsExclusive' /\ RaceInv'
  BY <1>2 DEF HeldInv, ClaimsExclusive, RaceInv
<1>4. TimeInv' /\ SeenInv'
  BY DEF IInv, TypeOK, TimeInv, SeenInv, Return, Goto
<1>5. RanInv' /\ ReplayIsGenuine'
  BY ConstantsAssumption DEF IInv, TypeOK, RanInv, ReplayIsGenuine, Return, Goto
<1> QED
  BY <1>1, <1>3, <1>4, <1>5 DEF IInv

LEMMA MarkStep ==
  ASSUME IInv, NEW c \in Requests, NEW answer \in Answers, Return(c, answer),
         \/ pc[c] = "markSucceeded" /\ row' = MarkedSucceeded(c)
         \/ pc[c] = "markFailed" /\ row' = MarkedFailed(c),
         UNCHANGED <<clock, nextId, now, seen, recId, ran>>
  PROVE  IInv'
<1>1. /\ row \in Row /\ row # Nil /\ row.id = recId[c] /\ row.fingerprint = Payload[c]
      /\ \A d \in Requests : pc[d] \in Claimed => d = c
  BY DEF IInv, TypeOK, HeldInv, ClaimsExclusive, Claimed
<1>2. /\ row' \in Row /\ row'.id = row.id /\ row'.fingerprint = row.fingerprint
      /\ row'.body = row.body \/ (pc[c] = "markSucceeded" /\ row'.body = c)
  BY <1>1, MarkedSucceededType, MarkedFailedType DEF IInv
<1>3. IdInv'
  BY <1>1, <1>2 DEF IInv, IdInv
<1>4. BodyInv'
  BY <1>1, <1>2 DEF IInv, BodyInv, RanInv
<1>5. nextId' \in Nat \ {0}
  BY DEF IInv, TypeOK
<1> QED
  BY <1>1, <1>2, <1>3, <1>4, <1>5, UnclaimedWrite

LEMMA StoreErrorStep ==
  ASSUME IInv, NEW c \in Requests, StoreError(c) PROVE IInv'
<1> DEFINE answer == IF pc[c] = "markFailed" THEN "failed" ELSE "store_unavailable"
<1>1. /\ answer \in Answers /\ Return(c, answer)
      /\ UNCHANGED <<clock, now, seen, recId, ran>>
  BY DEF Answers, StoreError
<1> HIDE DEF answer
<1>2. CASE UNCHANGED <<row, nextId>>
  BY <1>1, <1>2, LeaveStep
<1>3. CASE pc[c] = "create" /\ row = Nil /\ row' = Inserted(c) /\ nextId' = nextId + 1
  <2>1. row' \in Row /\ row'.id = nextId /\ row'.body = Nil
    BY <1>3, InsertedType DEF IInv, Inserted
  <2>2. nextId' \in Nat \ {0} /\ IdInv' /\ BodyInv'
    BY <1>1, <1>3, <2>1 DEF IInv, TypeOK, IdInv, BodyInv, Row
  <2>3. \A d \in Requests : pc[d] \in Claimed => d = c
    BY <1>3 DEF IInv, HeldInv
  <2> QED
    BY <1>1, <2>1, <2>2, <2>3, UnclaimedWrite
<1>4. CASE /\ pc[c] \in Reclaiming /\ CanReclaim(c)
           /\ row' = Reclaimed(c) /\ UNCHANGED nextId
  <2>1. /\ row' \in Row /\ IdInv' /\ BodyInv'
        /\ \A d \in Requests : pc[d] \notin Claimed
    BY <1>1, <1>4, ReclaimApplied
  <2>2. nextId' \in Nat \ {0}
    BY <1>4 DEF IInv, TypeOK
  <2> QED
    BY <1>1, <2>1, <2>2, UnclaimedWrite
<1>5. CASE /\ \/ pc[c] = "markSucceeded" /\ row' = MarkedSucceeded(c)
              \/ pc[c] = "markFailed" /\ row' = MarkedFailed(c)
           /\ UNCHANGED nextId
  BY <1>1, <1>5, MarkStep
<1> QED
  BY <1>2, <1>3, <1>4, <1>5 DEF StoreError, Reclaiming

----------------------------------------------------------------------------
(* The theorems.                                                           *)

LEMMA InitIInv == Init => IInv
<1> USE DEF Claiming, Claimed, Reclaiming
<1>1. Init => TypeOK
  BY ConstantsAssumption DEF Init, TypeOK
<1>2. Init => TimeInv /\ HeldInv /\ ClaimsExclusive /\ RaceInv
  BY ConstantsAssumption DEF Init, TimeInv, HeldInv, ClaimsExclusive, RaceInv
<1>3. Init => IdInv /\ SeenInv /\ RanInv /\ BodyInv /\ ReplayIsGenuine
  BY ConstantsAssumption DEF Init, IdInv, SeenInv, RanInv, BodyInv, ReplayIsGenuine
<1> QED
  BY <1>1, <1>2, <1>3 DEF IInv

LEMMA NextIInv == IInv /\ [Next]_vars => IInv'
<1> SUFFICES ASSUME IInv, [Next]_vars PROVE IInv'
  OBVIOUS
<1>1. CASE UNCHANGED vars
  BY <1>1 DEF IInv, TypeOK, TimeInv, HeldInv, ClaimsExclusive, RaceInv, IdInv,
              SeenInv, RanInv, BodyInv, ReplayIsGenuine, vars
<1>2. ASSUME NEW c \in Requests, Start(c) PROVE IInv'
  BY <1>2, StartStep
<1>3. ASSUME NEW c \in Requests, CreateProcessing(c) PROVE IInv'
  BY <1>3, CreateStep
<1>4. ASSUME NEW c \in Requests, GetExisting(c) \/ GetLatest(c) PROVE IInv'
  BY <1>4, GetStep
<1>5. ASSUME NEW c \in Requests, ReclaimExpired(c) PROVE IInv'
  <2>1. CASE Reclaim(c)
    BY <1>5, <2>1, ReclaimStep DEF ReclaimExpired, Reclaiming
  <2>2. CASE ~CanReclaim(c) /\ Goto(c, "reget") /\ UNCHANGED <<row, recId, result>>
    <3> USE DEF Claiming, Claimed, Reclaiming
    <3>1. /\ pc' = [pc EXCEPT ![c] = "reget"] /\ pc[c] = "reclaimExpired"
          /\ UNCHANGED <<clock, row, nextId, now, seen, recId, ran, result>>
      BY <1>5, <2>2 DEF ReclaimExpired, Goto
    <3>2. TypeOK' /\ TimeInv' /\ HeldInv' /\ ClaimsExclusive'
      BY <3>1 DEF IInv, TypeOK, TimeInv, HeldInv, ClaimsExclusive
    <3>3. RaceInv' /\ SeenInv' /\ RanInv'
      BY <3>1 DEF IInv, TypeOK, RaceInv, SeenInv, RanInv
    <3> QED
      BY <3>1, <3>2, <3>3 DEF IInv, IdInv, BodyInv, ReplayIsGenuine
  <2> QED
    BY <1>5, <2>1, <2>2 DEF ReclaimExpired
<1>6. ASSUME NEW c \in Requests, ReclaimFailed(c) PROVE IInv'
  <2>1. "in_progress" \in Answers
    BY DEF Answers
  <2>2. CASE Reclaim(c)
    BY <1>6, <2>2, ReclaimStep DEF ReclaimFailed, Reclaiming
  <2>3. CASE Return(c, "in_progress") /\ UNCHANGED <<row, recId>>
    BY <1>6, <2>1, <2>3, LeaveStep DEF ReclaimFailed
  <2> QED
    BY <1>6, <2>2, <2>3 DEF ReclaimFailed
<1>7. ASSUME NEW c \in Requests, RunExecutor(c) PROVE IInv'
  BY <1>7, RunStep
<1>8. ASSUME NEW c \in Requests, MarkSucceeded(c) \/ MarkFailedRetryable(c) PROVE IInv'
  <2>1. "ok" \in Answers /\ "failed" \in Answers
    BY DEF Answers
  <2> QED
    BY <1>8, <2>1, MarkStep DEF MarkSucceeded, MarkFailedRetryable
<1>9. ASSUME NEW c \in Requests, StoreError(c) PROVE IInv'
  BY <1>9, StoreErrorStep
<1>10. ASSUME NEW c \in Requests, Crash(c) PROVE IInv'
  BY <1>10, CrashStep
<1>11. CASE DeleteExpired
  BY <1>11, DeleteStep
<1>12. CASE Tick
  BY <1>12, TickStep
<1> QED
  BY <1>1, <1>2, <1>3, <1>4, <1>5, <1>6, <1>7, <1>8, <1>9, <1>10, <1>11, <1>12 DEF Next

\* The whole strengthening holds of every behaviour.
THEOREM Invariant == Spec => []IInv
  BY InitIInv, NextIInv, PTL DEF Spec

\* Every variable keeps its type, whatever the requests and the times.
THEOREM TypeCorrect == Spec => []TypeOK
<1>1. IInv => TypeOK
  BY DEF IInv
<1> QED
  BY <1>1, Invariant, PTL

\* Execute runs the side effect of one key for one request at a time, for any
\* number of requests, crashes and failed statements: this is what the insert
\* and the reclaim of idempotency_repo.go are for.
THEOREM Exclusive == Spec => []ClaimsExclusive
<1>1. IInv => ClaimsExclusive
  BY DEF IInv
<1> QED
  BY <1>1, Invariant, PTL

\* A request that is answered by a replay gets the response of a successful
\* execution of the same payload, and runs nothing itself.
THEOREM GenuineReplay == Spec => []ReplayIsGenuine
<1>1. IInv => ReplayIsGenuine
  BY DEF IInv
<1> QED
  BY <1>1, Invariant, PTL

\* TryReclaim re-tests locked_until, so that a claim is never taken while the
\* back-off of the last failure runs, however stale the request's read.
THEOREM Backoff == Spec => BackoffHonoured
<1> DEFINE Cooling == row # Nil /\ row.status = "failed_retryable" /\ row.lockedUntil > clock
           Entry == \E c \in Requests : pc[c] \notin Claimed /\ pc'[c] \in Claimed
<1>1. IInv /\ [Next]_vars => (Cooling => ~Entry)
  <2> SUFFICES ASSUME IInv, [Next]_vars, Cooling, Entry PROVE FALSE
    OBVIOUS
  <2>1. PICK c \in Requests : pc[c] \notin Claimed /\ pc'[c] \in Claimed
    OBVIOUS
  <2>2. PICK d \in Requests :
          (CreateProcessing(d) /\ row = Nil) \/ Reclaim(d)
    BY <2>1 DEF IInv, TypeOK, Next, vars, Start, CreateProcessing, GetExisting,
       GetLatest, Missing, Mismatch, Dispatch, ReclaimExpired, ReclaimFailed, RunExecutor,
       MarkSucceeded, MarkFailedRetryable, StoreError, Crash, DeleteExpired, Tick,
       Return, Goto, Claimed
  <2>3. row.lockedUntil <= now[d] /\ now[d] <= clock
    BY <2>2 DEF IInv, TimeInv, Reclaim, CanReclaim
  <2> QED
    BY <2>3, ConstantsAssumption DEF IInv, TypeOK, Row
<1> QED
  BY <1>1, Invariant, PTL DEF Spec, BackoffHonoured
=============================================================================
