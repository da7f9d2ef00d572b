-------------------------- MODULE BatchImageQueue --------------------------
(***************************************************************************)
(* The Redis queue of batch image jobs and the workers that serve it, one  *)
(* per process.                                                            *)
(*                                                                         *)
(*   ready (list) -> active (zset) -> Process -> gone, or delayed (zset)   *)
(*     -> ready; a member of active that nobody refreshes is pushed back   *)
(*                                                                         *)
(* An in-flight key keeps a job from being queued twice, a lock from being *)
(* processed twice.  A step is one script, one MULTI/EXEC pipeline or one  *)
(* command: what Redis runs atomically.  What Process does to a job is in  *)
(* BatchImageHold; here it finishes the job, leaves it for later, or fails.*)
(***************************************************************************)
EXTENDS BatchImage, Sequences

CONSTANT Jobs

VARIABLES
    ready,      \* the list, from the end RPOP takes to the end LPUSH adds to
    delayed,    \* the zset of jobs to look at later
    active,     \* the zset of reserved jobs: its score is fresh or stale
    inflight,   \* the in-flight keys
    lock,       \* the job locks: the worker whose token it is, Left or Free
    worker,     \* the workers
    done,       \* jobs whose processing is over
    entered     \* history: jobs that Enqueue has accepted

vars == <<ready, delayed, active, inflight, lock, worker, done, entered, faults>>

\* Left: a lock whose token no worker has any more.
Free == "free"
Left == "left"

ASSUME WorkerAssumption == IsFiniteSet(Workers) /\ Free \notin Workers /\ Left \notin Workers
ASSUME JobAssumption == Jobs # {}

At(w, pcs)   == worker[w].pc \in pcs
Goes(w, pc)  == worker' = [worker EXCEPT ![w].pc = pc]
Idle         == [pc |-> "idle", job |-> CHOOSE j \in Jobs : TRUE, lapsed |-> FALSE]
BecomesIdle(w) == worker' = [worker EXCEPT ![w] = Idle]

\* From the lock's acquisition to its release.
Holding(w)    == At(w, {"process", "requeue", "ack", "release"})
WorksOn(w, j) == ~At(w, {"idle"}) /\ worker[w].job = j

Push(j) == ready' = Append(ready, j)

Init ==
    /\ ready = <<>> /\ delayed = {} /\ active = [j \in Jobs |-> "no"]
    /\ inflight = {} /\ lock = [j \in Jobs |-> Free]
    /\ worker = [w \in Workers |-> Idle]
    /\ done = {} /\ entered = {} /\ faults = 0

-----------------------------------------------------------------------------
(* Putting a job in the queue                                              *)

\* Enqueue: the submission, its repetition, a cancellation or a retry of the
\* refund.  A job whose in-flight key exists is left as it is.
Enqueue(j) ==
    /\ j \notin inflight
    /\ inflight' = inflight \cup {j} /\ entered' = entered \cup {j} /\ Push(j)
    /\ UNCHANGED <<delayed, active, lock, worker, done, faults>>

\* MoveDueDelayedToReady, for one job of the batch it moves.
MoveDue(j) ==
    /\ j \in delayed /\ delayed' = delayed \ {j} /\ Push(j)
    /\ UNCHANGED <<active, inflight, lock, worker, done, entered, faults>>

\* Time passes: a reserved job was not refreshed for StaleActiveAfter.  A worker
\* refreshes the job it works on three times in that time, so with a worker that
\* is a fault.
GetsStale(j) ==
    /\ active[j] = "fresh" /\ active' = [active EXCEPT ![j] = "stale"]
    /\ IF \E w \in Workers : WorksOn(w, j) THEN Fault ELSE NoFault
    /\ UNCHANGED <<ready, delayed, inflight, lock, worker, done, entered>>

\* RecoverStaleActive, for one job of the batch it moves.
RecoverStale(j) ==
    /\ active[j] = "stale" /\ active' = [active EXCEPT ![j] = "no"] /\ Push(j)
    /\ UNCHANGED <<delayed, inflight, lock, worker, done, entered, faults>>

-----------------------------------------------------------------------------
(* RunOnce                                                                 *)

\* Mutant: BRPOP, with active written by a later command.
ReservePopsOnly(w) ==
    /\ At(w, {"idle"}) /\ ready # <<>> /\ ready' = Tail(ready)
    /\ worker' = [worker EXCEPT ![w] = [Idle EXCEPT !.pc = "reserved", !.job = Head(ready)]]
    /\ UNCHANGED <<active, delayed, inflight, lock, done, entered, faults>>

\* Reserve pops a job and writes it to active.
Reserve(w) ==
    /\ At(w, {"idle"}) /\ ready # <<>> /\ ready' = Tail(ready)
    /\ active' = [active EXCEPT ![Head(ready)] = "fresh"]
    /\ \/ /\ worker' = [worker EXCEPT ![w] = [Idle EXCEPT !.pc = "reserved", !.job = Head(ready)]]
          /\ NoFault
       \/ Fault /\ UNCHANGED worker    \* the reply is lost
    /\ UNCHANGED <<delayed, inflight, lock, done, entered>>

\* TryAcquireJobLock.  A lock that is held and an error both lead to a requeue;
\* the error may hide a lock that was set.
AcquireLock(w) ==
    LET j == worker[w].job IN
    /\ At(w, {"reserved"})
    /\ \/ lock[j] = Free /\ lock' = [lock EXCEPT ![j] = w] /\ Goes(w, "process") /\ NoFault
       \/ lock[j] # Free /\ UNCHANGED lock /\ Goes(w, "conflict") /\ NoFault
       \/ lock[j] = Free /\ lock' = [lock EXCEPT ![j] = Left] /\ Goes(w, "conflict") /\ Fault
       \/ UNCHANGED lock /\ Goes(w, "conflict") /\ Fault
    /\ UNCHANGED <<ready, delayed, active, inflight, done, entered>>

\* Heartbeat, while Process runs: ZADD XX refreshes a member and adds none.  The
\* refresh of the lock that follows is what makes LockExpires a fault.
Heartbeat(w) ==
    LET j == worker[w].job IN
    /\ At(w, {"process"}) /\ active[j] = "stale"
    /\ active' = [active EXCEPT ![j] = "fresh"]
    /\ UNCHANGED <<ready, delayed, inflight, lock, worker, done, entered, faults>>

\* Process reports a job that is finished as terminal, ...
Finish(w, j) ==
    /\ At(w, {"process"}) /\ worker[w].job = j
    /\ done' = done \cup {j} /\ Goes(w, "ack")
    /\ UNCHANGED <<ready, delayed, active, inflight, lock, entered, faults>>

\* ... asks for another look later, or fails.
NotYet(w) ==
    /\ At(w, {"process"}) /\ Goes(w, "requeue")
    /\ IF worker[w].job \in done THEN Fault ELSE NoFault
    /\ UNCHANGED <<ready, delayed, active, inflight, lock, done, entered>>

\* Where a worker without the lock goes.
AfterRequeue(w) == IF At(w, {"requeue"}) THEN Goes(w, "release") ELSE BecomesIdle(w)

\* RequeueAfter with the conflict's, the error's or the processor's delay.  After
\* an error the job is still in active.
Requeue(w) ==
    LET j == worker[w].job IN
    /\ At(w, {"requeue", "conflict"}) /\ AfterRequeue(w)
    /\ \/ /\ active' = [active EXCEPT ![j] = "no"] /\ delayed' = delayed \cup {j}
          /\ NoFault
       \/ Fault /\ UNCHANGED <<active, delayed>>
    /\ UNCHANGED <<ready, inflight, lock, done, entered>>

\* Ack of a terminal job.
Ack(w) ==
    LET j == worker[w].job IN
    /\ At(w, {"ack"}) /\ Goes(w, "release")
    /\ \/ /\ active' = [active EXCEPT ![j] = "no"] /\ delayed' = delayed \ {j}
          /\ inflight' = inflight \ {j} /\ NoFault
       \/ Fault /\ UNCHANGED <<active, delayed, inflight>>
    /\ UNCHANGED <<ready, lock, done, entered>>

\* Mutant: the lock is deleted whoever holds it.
IsOwn(w) == TRUE

HasToken(w) == lock[worker[w].job] = w

\* The deferred Release deletes the lock if the token is still the worker's.
ReleaseLock(w) ==
    LET j == worker[w].job IN
    /\ At(w, {"release"}) /\ BecomesIdle(w)
    /\ \/ lock' = [lock EXCEPT ![j] = IF HasToken(w) THEN Free ELSE @] /\ NoFault
       \/ lock' = [lock EXCEPT ![j] = IF @ = w THEN Left ELSE @] /\ Fault
    /\ UNCHANGED <<ready, delayed, active, inflight, done, entered>>

-----------------------------------------------------------------------------
(* What happens to them                                                    *)

\* The worker's process ends, or stops with its context cancelled: no further
\* command reaches Redis.
WorkerDies(w) ==
    /\ ~At(w, {"idle"}) /\ Fault /\ BecomesIdle(w)
    /\ lock' = [lock EXCEPT ![worker[w].job] = IF @ = w THEN Left ELSE @]
    /\ UNCHANGED <<ready, delayed, active, inflight, done, entered>>

\* Mutant: a lock without a lifetime.
NoTTL(j) == FALSE

HasTTL(j) == lock[j] # Free

\* A lock ends by its TTL: that of a worker that is alive only if its refreshes
\* fail or come late.
LockExpires(j) ==
    /\ HasTTL(j) /\ lock' = [lock EXCEPT ![j] = Free]
    /\ IF lock[j] = Left
       THEN UNCHANGED <<worker, faults>>
       ELSE Fault /\ worker' = [worker EXCEPT ![lock[j]].lapsed = TRUE]
    /\ UNCHANGED <<ready, delayed, active, inflight, done, entered>>

\* The in-flight key ends by its TTL of a week.
InflightExpires(j) ==
    /\ j \in inflight /\ Fault /\ inflight' = inflight \ {j}
    /\ UNCHANGED <<ready, delayed, active, lock, worker, done, entered>>

-----------------------------------------------------------------------------
Step(w) ==
    \/ Reserve(w) \/ AcquireLock(w) \/ NotYet(w) \/ Requeue(w) \/ Ack(w) \/ ReleaseLock(w)

Next ==
    \/ \E j \in Jobs :
        \/ Enqueue(j) \/ MoveDue(j) \/ GetsStale(j) \/ RecoverStale(j)
        \/ LockExpires(j) \/ InflightExpires(j)
        \/ \E w \in Workers : Finish(w, j)
    \/ \E w \in Workers : Step(w) \/ Heartbeat(w) \/ WorkerDies(w)

Spec == Init /\ [][Next]_vars

\* Workers and the two periodic loops of every process run on, abandoned members
\* and locks get old, and a job that is processed again and again is finished.
FairSpec ==
    /\ Spec
    /\ \A w \in Workers : WF_vars(Step(w) \/ \E j \in Jobs : Finish(w, j))
    /\ \A j \in Jobs :
        /\ WF_vars(MoveDue(j)) /\ WF_vars(GetsStale(j)) /\ WF_vars(RecoverStale(j))
        /\ WF_vars(LockExpires(j))
        /\ SF_vars(\E w \in Workers : Finish(w, j))

-----------------------------------------------------------------------------
(* Properties                                                              *)

Pcs == {"idle", "reserved", "process", "conflict", "requeue", "ack", "release"}

\* Every variable keeps its type.
TypeOK ==
    /\ ready \in Seq(Jobs) /\ delayed \subseteq Jobs /\ inflight \subseteq Jobs
    /\ active \in [Jobs -> {"no", "fresh", "stale"}]
    /\ lock \in [Jobs -> Workers \cup {Free, Left}]
    /\ worker \in [Workers -> [pc : Pcs, job : Jobs, lapsed : BOOLEAN]]
    /\ done \subseteq Jobs /\ entered \subseteq Jobs
    /\ faults \in 0..MaxFaults

InReady(j) == \E i \in 1..Len(ready) : ready[i] = j
Queued(j)  == InReady(j) \/ j \in delayed \/ active[j] # "no"

\* No crash, lost reply or failed command leaves a job outside the queue while it
\* is unfinished, or while its in-flight key keeps it from being queued again.
NeverForgotten == \A j \in inflight \cup (entered \ done) : Queued(j)

\* A worker has the lock of the job it processes, unless it expired under it; in
\* particular two workers process one job only after a lock expired.  No worker
\* gives up another's lock.
LockIsOwn == \A w \in Workers : Holding(w) => lock[worker[w].job] = w \/ worker[w].lapsed

\* How often a job is in the queue.
Copies(j) ==
    Cardinality({i \in 1..Len(ready) : ready[i] = j})
      + (IF j \in delayed THEN 1 ELSE 0) + (IF active[j] # "no" THEN 1 ELSE 0)

\* An unfinished job is in the queue once, and once more for every fault at the
\* most: recoveries and conflicts do not multiply it.
CopiesBounded == \A j \in Jobs \ done : Copies(j) <= 1 + faults

\* Every job is accounted for, neither forgotten nor multiplied, by any sequence
\* of crashes, lost replies, expired locks and recoveries.
JobsAccountedFor == TypeOK /\ NeverForgotten /\ CopiesBounded

\* A job that was queued is finished in the end.
JobFinishes == \A j \in Jobs : (j \in entered) ~> (j \in done)

=============================================================================
