---------------------------- MODULE Idempotency ----------------------------
(***************************************************************************)
(* The idempotency coordinator of the write endpoints (service/            *)
(* idempotency.go) over its table (repository/idempotency_repo.go), for    *)
(* one (scope, key): rows of different keys never interact, the table      *)
(* being unique on (scope, idempotency_key_hash).  A request is one HTTP   *)
(* call; a client's retry is another request.  Every store statement is    *)
(* one step, so that any two requests interleave between two statements.   *)
(***************************************************************************)
EXTENDS Integers

CONSTANTS
  Requests,            \* the calls of Execute made with this key
  Payload,             \* Payload[c]: the request fingerprint of c
  Oversized,           \* requests whose stored response is cut at MaxStoredResponseLen
  TTL,                 \* opts.TTL, or cfg.DefaultTTL
  ProcessingTimeout,   \* cfg.ProcessingTimeout
  FailedRetryBackoff,  \* cfg.FailedRetryBackoff
  StoreLatency,        \* longest time from now := time.Now() to the claim
  MaxTime,             \* bound of the clock
  Nil                  \* no row, no body

\* What Execute returns but for a replay, which is named by its source.
Answers == {"ok", "failed", "key_conflict", "in_progress", "retry_backoff",
            "store_unavailable", "crashed"}

ASSUME ConstantsAssumption ==
  /\ TTL \in Nat \ {0}
  /\ ProcessingTimeout \in Nat \ {0}
  /\ FailedRetryBackoff \in Nat \ {0}
  /\ StoreLatency \in Nat
  /\ MaxTime \in Nat
  /\ Oversized \subseteq Requests
  /\ Nil \notin Requests
  /\ Requests \cap Answers = {}

\* The claim is made before its own lock and its own expiry have run out.
ASSUME LatencyAssumption ==
  StoreLatency < ProcessingTimeout /\ StoreLatency < TTL

VARIABLES
  clock,    \* wall clock shared by the servers and the database
  row,      \* the idempotency record of the key, or Nil
  nextId,   \* BIGSERIAL of the table
  pc,       \* pc[c]: the statement request c is about to issue
  now,      \* now[c]: time.Now() captured when Execute began
  seen,     \* seen[c]: the row that request c read last (existing), or Nil
  recId,    \* recId[c]: record.ID, 0 until c owns the record
  ran,      \* ran[c]: outcome of the side effect of c
  result    \* result[c]: what Execute returned

vars == <<clock, row, nextId, pc, now, seen, recId, ran, result>>

Status == {"processing", "succeeded", "failed_retryable"}

Fingerprints == {Payload[c] : c \in Requests}

\* locked_until = NULL is 0: "IS NULL OR <= now" holds of it at any time.
Row == [id          : Nat,
        fingerprint : Fingerprints,
        status      : Status,
        lockedUntil : Nat,
        expiresAt   : Nat,
        body        : Requests \cup {Nil}]

ASSUME NilAssumption == Nil \notin Row

Claiming == {"create", "get", "reclaimExpired", "reget", "reclaimFailed"}
Claimed  == {"run", "markSucceeded", "markFailed"}

Init ==
  /\ clock = 0
  /\ row = Nil
  /\ nextId = 1
  /\ pc = [c \in Requests |-> "start"]
  /\ now = [c \in Requests |-> 0]
  /\ seen = [c \in Requests |-> Nil]
  /\ recId = [c \in Requests |-> 0]
  /\ ran = [c \in Requests |-> "no"]
  /\ result = [c \in Requests |-> Nil]

----------------------------------------------------------------------------
(* The statements of the repository: the row each would leave behind.      *)

Inserted(c) ==
  [id |-> nextId, fingerprint |-> Payload[c], status |-> "processing",
   lockedUntil |-> now[c] + ProcessingTimeout, expiresAt |-> now[c] + TTL,
   body |-> Nil]

\* Mutant: locked_until is not looked at.
CanReclaimLocked(c) ==
  /\ row # Nil
  /\ row.id = seen[c].id
  /\ row.status = seen[c].status

\* The WHERE clause of TryReclaim(existing.ID, existing.Status, now, ...).
CanReclaim(c) ==
  /\ row # Nil
  /\ row.id = seen[c].id
  /\ row.status = seen[c].status
  /\ row.lockedUntil <= now[c]

Reclaimed(c) ==
  [row EXCEPT !.status = "processing",
              !.lockedUntil = now[c] + ProcessingTimeout,
              !.expiresAt = now[c] + TTL]

\* The two marks name the row by id only.
MarkedSucceeded(c) ==
  IF row # Nil /\ row.id = recId[c]
  THEN [row EXCEPT !.status = "succeeded", !.lockedUntil = 0,
                   !.expiresAt = now[c] + TTL, !.body = c]
  ELSE row

MarkedFailed(c) ==
  IF row # Nil /\ row.id = recId[c]
  THEN [row EXCEPT !.status = "failed_retryable",
                   !.lockedUntil = clock + FailedRetryBackoff,
                   !.expiresAt = now[c] + TTL]
  ELSE row

----------------------------------------------------------------------------
(* Execute, one action per store statement.                                *)

Goto(c, l) == pc' = [pc EXCEPT ![c] = l]

Return(c, answer) ==
  /\ Goto(c, "done")
  /\ result' = [result EXCEPT ![c] = answer]

Start(c) ==
  /\ pc[c] = "start"
  /\ now' = [now EXCEPT ![c] = clock]
  /\ Goto(c, "create")
  /\ UNCHANGED <<clock, row, nextId, seen, recId, ran, result>>

\* INSERT ... ON CONFLICT DO NOTHING.
CreateProcessing(c) ==
  /\ pc[c] = "create"
  /\ \/ /\ row = Nil
        /\ row' = Inserted(c)
        /\ nextId' = nextId + 1
        /\ recId' = [recId EXCEPT ![c] = nextId]
        /\ Goto(c, "run")
     \/ /\ row # Nil
        /\ Goto(c, "get")
        /\ UNCHANGED <<row, nextId, recId>>
  /\ UNCHANGED <<clock, now, seen, ran, result>>

\* The switch on existing.Status.
Dispatch(c) ==
  \/ /\ row.status = "succeeded"
     /\ Return(c, IF row.body \in Oversized THEN "store_unavailable" ELSE row.body)
  \/ /\ row.status = "processing"
     /\ Return(c, "in_progress")
  \/ /\ row.status = "failed_retryable"
     /\ row.lockedUntil > now[c]
     /\ Return(c, "retry_backoff")
  \/ /\ row.status = "failed_retryable"
     /\ row.lockedUntil <= now[c]
     /\ Goto(c, "reclaimFailed")
     /\ UNCHANGED result

Missing(c) == row = Nil /\ Return(c, "store_unavailable")

\* Mutant: the fingerprint is not compared.
SameKey(c) == row # Nil

SameRequest(c) == row # Nil /\ row.fingerprint = Payload[c]

Mismatch(c) ==
  /\ row # Nil
  /\ ~SameRequest(c)
  /\ Return(c, "key_conflict")

\* GetByScopeAndKeyHash, the fingerprint check and the expiry check.
GetExisting(c) ==
  /\ pc[c] = "get"
  /\ seen' = [seen EXCEPT ![c] = row]
  /\ \/ Missing(c)
     \/ Mismatch(c)
     \/ /\ SameRequest(c)
        /\ row.expiresAt <= now[c]
        /\ Goto(c, "reclaimExpired")
        /\ UNCHANGED result
     \/ /\ SameRequest(c)
        /\ row.expiresAt > now[c]
        /\ Dispatch(c)
  /\ UNCHANGED <<clock, row, nextId, now, recId, ran>>

\* After a lost reclaim the latest row is read and not tested for expiry.
GetLatest(c) ==
  /\ pc[c] = "reget"
  /\ seen' = [seen EXCEPT ![c] = row]
  /\ \/ Missing(c)
     \/ Mismatch(c)
     \/ SameRequest(c) /\ Dispatch(c)
  /\ UNCHANGED <<clock, row, nextId, now, recId, ran>>

Reclaim(c) ==
  /\ CanReclaim(c)
  /\ row' = Reclaimed(c)
  /\ recId' = [recId EXCEPT ![c] = seen[c].id]
  /\ Goto(c, "run")
  /\ UNCHANGED result

ReclaimExpired(c) ==
  /\ pc[c] = "reclaimExpired"
  /\ \/ Reclaim(c)
     \/ ~CanReclaim(c) /\ Goto(c, "reget") /\ UNCHANGED <<row, recId, result>>
  /\ UNCHANGED <<clock, nextId, now, seen, ran>>

ReclaimFailed(c) ==
  /\ pc[c] = "reclaimFailed"
  /\ \/ Reclaim(c)
     \/ ~CanReclaim(c) /\ Return(c, "in_progress") /\ UNCHANGED <<row, recId>>
  /\ UNCHANGED <<clock, nextId, now, seen, ran>>

\* execute(ctx): the side effect happens, or it reports an error.
RunExecutor(c) ==
  /\ pc[c] = "run"
  /\ \/ ran' = [ran EXCEPT ![c] = "ok"] /\ Goto(c, "markSucceeded")
     \/ ran' = [ran EXCEPT ![c] = "failed"] /\ Goto(c, "markFailed")
  /\ UNCHANGED <<clock, row, nextId, now, seen, recId, result>>

MarkSucceeded(c) ==
  /\ pc[c] = "markSucceeded"
  /\ row' = MarkedSucceeded(c)
  /\ Return(c, "ok")
  /\ UNCHANGED <<clock, nextId, now, seen, recId, ran>>

MarkFailedRetryable(c) ==
  /\ pc[c] = "markFailed"
  /\ row' = MarkedFailed(c)
  /\ Return(c, "failed")
  /\ UNCHANGED <<clock, nextId, now, seen, recId, ran>>

----------------------------------------------------------------------------
(* What the environment does to a request and to the table.                *)

\* A statement returns an error; it may have been applied all the same.
StoreError(c) ==
  /\ pc[c] \in Claiming \cup {"markSucceeded", "markFailed"}
  /\ \/ UNCHANGED <<row, nextId>>
     \/ /\ pc[c] = "create"
        /\ row = Nil
        /\ row' = Inserted(c)
        /\ nextId' = nextId + 1
     \/ /\ pc[c] \in {"reclaimExpired", "reclaimFailed"}
        /\ CanReclaim(c)
        /\ row' = Reclaimed(c)
        /\ UNCHANGED nextId
     \/ /\ pc[c] = "markSucceeded"
        /\ row' = MarkedSucceeded(c)
        /\ UNCHANGED nextId
     \/ /\ pc[c] = "markFailed"
        /\ row' = MarkedFailed(c)
        /\ UNCHANGED nextId
  /\ Return(c, IF pc[c] = "markFailed" THEN "failed" ELSE "store_unavailable")
  /\ UNCHANGED <<clock, now, seen, recId, ran>>

\* The server process dies; whatever c had written stays.
Crash(c) ==
  /\ pc[c] \in Claiming \cup Claimed
  /\ Return(c, "crashed")
  /\ UNCHANGED <<clock, row, nextId, now, seen, recId, ran>>

\* IdempotencyCleanupService deletes expired rows, whatever their status.
DeleteExpired ==
  /\ row # Nil
  /\ row.expiresAt <= clock
  /\ row' = Nil
  /\ UNCHANGED <<clock, nextId, pc, now, seen, recId, ran, result>>

\* Time passes, but a live request claims within StoreLatency and a claimed
\* one finishes before the record it claimed expires.
Prompt(t) ==
  \A c \in Requests :
    /\ pc[c] \in Claiming => t <= now[c] + StoreLatency
    /\ pc[c] \in Claimed => t < now[c] + TTL

Tick ==
  /\ clock < MaxTime
  /\ Prompt(clock + 1)
  /\ clock' = clock + 1
  /\ UNCHANGED <<row, nextId, pc, now, seen, recId, ran, result>>

Next ==
  \/ \E c \in Requests :
       \/ Start(c)
       \/ CreateProcessing(c)
       \/ GetExisting(c)
       \/ GetLatest(c)
       \/ ReclaimExpired(c)
       \/ ReclaimFailed(c)
       \/ RunExecutor(c)
       \/ MarkSucceeded(c)
       \/ MarkFailedRetryable(c)
       \/ StoreError(c)
       \/ Crash(c)
  \/ DeleteExpired
  \/ Tick

Spec == Init /\ [][Next]_vars

----------------------------------------------------------------------------
(* Properties.                                                             *)

\* Every variable holds a value of its type; in particular a lock and an
\* expiry are times, and a request names a record only by an allocated id.
TypeOK ==
  /\ clock \in 0..MaxTime
  /\ row \in Row \cup {Nil}
  /\ nextId \in Nat \ {0}
  /\ pc \in [Requests -> {"start", "done"} \cup Claiming \cup Claimed]
  /\ now \in [Requests -> Nat]
  /\ seen \in [Requests -> Row \cup {Nil}]
  /\ recId \in [Requests -> Nat]
  /\ ran \in [Requests -> {"no", "ok", "failed"}]
  /\ result \in [Requests -> Requests \cup {Nil} \cup Answers]

\* Two requests never execute the side effect of one key at the same time:
\* while one holds the claim, neither the insert, the reclaim of an expired
\* or failed row, nor the clean-up lets another in.
ClaimsExclusive ==
  \A c, d \in Requests : pc[c] \in Claimed /\ pc[d] \in Claimed => c = d

\* A replayed answer is the stored response of an execution that succeeded
\* and was asked for with the same payload.
ReplayIsGenuine ==
  \A c \in Requests :
    result[c] \in Requests =>
      /\ ran[result[c]] = "ok"
      /\ Payload[result[c]] = Payload[c]
      /\ ran[c] = "no"

\* A failed row is not claimed again while the back-off of the LAST failure
\* is in force, however long ago the claiming request read the row.
BackoffHonoured ==
  [][(row # Nil /\ row.status = "failed_retryable" /\ row.lockedUntil > clock)
       => ~(\E c \in Requests : pc[c] \notin Claimed /\ pc'[c] \in Claimed)]_vars

\* The side effect of a key is not run again while its recorded success is
\* unexpired: a claim is never taken from a live "succeeded" row.
NoRepeatWhileRecorded ==
  [][(row # Nil /\ row.status = "succeeded" /\ row.expiresAt > clock)
       => ~(\E c \in Requests : pc[c] \notin Claimed /\ pc'[c] \in Claimed)]_vars
=============================================================================
