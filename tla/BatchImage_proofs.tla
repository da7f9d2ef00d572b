------------------------- MODULE BatchImage_proofs -------------------------
(***************************************************************************)
(* What holds of the batch image jobs for every number of workers and      *)
(* faults: first of the queue (BatchImageQueue), then of one job and the   *)
(* money held for it (BatchImageHold).  The two specifications share only  *)
(* the workers and the count of faults.                                    *)
(***************************************************************************)
EXTENDS BatchImageHold, BatchImageQueue, FiniteSetTheorems, FunctionTheorems, TLAPS

-----------------------------------------------------------------------------
(* The queue: the invariant                                                *)

\* A worker that acknowledges a job has finished it.
AckedIsDone == \A w \in Workers : At(w, {"ack"}) => worker[w].job \in done

\* Where a job is in the list, and who has it and has not yet put it back.
Positions(s, j) == {i \in 1..Len(s) : s[i] = j}
Carries(w, j) == At(w, {"reserved", "process", "conflict", "requeue"}) /\ worker[w].job = j
Carriers(j) == {w \in Workers : Carries(w, j)}

Listed(j)  == Cardinality(Positions(ready, j))
Waiting(j) == IF j \in delayed THEN 1 ELSE 0
Booked(j) == IF active[j] # "no" THEN 1 ELSE 0
Carried(j) == Cardinality(Carriers(j))

\* The copies of a job there are, or will be when every worker that has it has
\* put it back.
Burden(j) == Listed(j) + Waiting(j) + IF Booked(j) > Carried(j) THEN Booked(j) ELSE Carried(j)

\* The copies more that may come without another fault: a stale job is pushed
\* back although a worker has it; a job without its in-flight key is queued again.
Threat(j) == (IF active[j] = "stale" /\ Carried(j) > 0 THEN 1 ELSE 0)
               + IF j \notin inflight /\ Burden(j) > 0 THEN 1 ELSE 0

LoadBounded == \A j \in Jobs \ done : Burden(j) + Threat(j) <= 1 + faults

IInv == TypeOK /\ AckedIsDone /\ LockIsOwn /\ NeverForgotten /\ LoadBounded

-----------------------------------------------------------------------------
(* The queue: the list                                                     *)

LEMMA PositionsFinite ==
    ASSUME NEW s \in Seq(Jobs), NEW j
    PROVE  IsFiniteSet(Positions(s, j)) /\ Cardinality(Positions(s, j)) \in Nat
<1>1. Len(s) \in Nat /\ Positions(s, j) \in SUBSET (1..Len(s))
  BY DEF Positions
<1>2. IsFiniteSet(1..Len(s))
  BY <1>1, FS_Interval
<1>3. IsFiniteSet(Positions(s, j))
  BY <1>1, <1>2, FS_Subset
<1> QED
  BY <1>3, FS_CardinalityType

\* LPUSH adds one.
LEMMA PushCount ==
    ASSUME NEW s \in Seq(Jobs), NEW k \in Jobs, NEW j \in Jobs
    PROVE  Cardinality(Positions(Append(s, k), j))
             = Cardinality(Positions(s, j)) + IF k = j THEN 1 ELSE 0
<1> DEFINE a == Append(s, k)
<1>1. Len(s) \in Nat /\ Len(a) = Len(s) + 1 /\ a[Len(s) + 1] = k
      /\ \A i \in 1..Len(s) : a[i] = s[i]
  OBVIOUS
<1>2. CASE k = j
  <2>1. Positions(a, j) = Positions(s, j) \cup {Len(s) + 1}
    BY <1>1, <1>2 DEF Positions
  <2>2. Len(s) + 1 \notin Positions(s, j)
    BY <1>1 DEF Positions
  <2> QED
    BY <1>2, <2>1, <2>2, PositionsFinite, FS_AddElement
<1>3. CASE k # j
  <2>1. Positions(a, j) = Positions(s, j)
    BY <1>1, <1>3 DEF Positions
  <2> QED
    BY <1>3, <2>1, PositionsFinite
<1> QED
  BY <1>2, <1>3

\* RPOP takes one.
LEMMA PopCount ==
    ASSUME NEW s \in Seq(Jobs), s # <<>>, NEW j \in Jobs
    PROVE  Cardinality(Positions(Tail(s), j))
             = Cardinality(Positions(s, j)) - IF Head(s) = j THEN 1 ELSE 0
<1> DEFINE t == Tail(s)
           P == Positions(s, j) \ {1}
           Q == Positions(t, j)
           shift == [i \in P |-> i - 1]
<1>1. Len(s) \in Nat \ {0} /\ Len(t) = Len(s) - 1 /\ Head(s) = s[1]
      /\ \A i \in 1..Len(t) : t[i] = s[i + 1]
  OBVIOUS
<1>2. \A i \in P : i \in Nat /\ i > 1 /\ i <= Len(s) /\ s[i] = j
  BY DEF Positions
<1>3. shift \in [P -> Q]
  <2>1. \A i \in P : i - 1 \in Q
    BY <1>1, <1>2 DEF Positions
  <2> QED
    BY <2>1
<1>4. \A a, b \in P : shift[a] = shift[b] => a = b
  BY <1>2
<1>5. \A i \in Q : \E k \in P : shift[k] = i
  <2> SUFFICES ASSUME NEW i \in Q PROVE \E k \in P : shift[k] = i
    OBVIOUS
  <2>1. i \in Nat /\ i >= 1 /\ i <= Len(s) - 1 /\ s[i + 1] = j
    BY <1>1 DEF Positions
  <2>2. i + 1 \in P
    BY <1>1, <2>1 DEF Positions
  <2>3. shift[i + 1] = i
    BY <2>1, <2>2
  <2> QED
    BY <2>2, <2>3
<1>6. shift \in Bijection(P, Q)
  BY <1>3, <1>4, <1>5, Fun_IsBij
<1>7. IsFiniteSet(P) /\ Cardinality(P)
        = Cardinality(Positions(s, j)) - IF 1 \in Positions(s, j) THEN 1 ELSE 0
  BY PositionsFinite, FS_RemoveElement
<1>8. Cardinality(Q) = Cardinality(P)
  BY <1>6, <1>7, FS_Bijection DEF ExistsBijection
<1>9. 1 \in Positions(s, j) <=> Head(s) = j
  BY <1>1 DEF Positions
<1> QED
  BY <1>7, <1>8, <1>9

-----------------------------------------------------------------------------
(* The queue: the workers                                                  *)

Worker == [pc : Pcs, job : Jobs, lapsed : BOOLEAN]

LEMMA IdleFacts == Idle \in Worker /\ Idle.pc = "idle"
<1>1. Idle.job \in Jobs
  BY JobAssumption DEF Idle
<1> QED
  BY <1>1 DEF Idle, Worker, Pcs

\* Only w moves.
Others(w) == \A v \in Workers : v # w => worker'[v] = worker[v]

LEMMA GoesFacts ==
    ASSUME TypeOK, NEW w \in Workers, NEW pc \in Pcs, Goes(w, pc)
    PROVE  /\ worker' \in [Workers -> Worker] /\ Others(w)
           /\ worker'[w].pc = pc /\ worker'[w].job = worker[w].job
           /\ worker'[w].lapsed = worker[w].lapsed
<1>1. worker \in [Workers -> Worker] /\ worker[w] \in Worker
  BY DEF TypeOK, Worker
<1>2. worker' = [worker EXCEPT ![w] = [worker[w] EXCEPT !.pc = pc]]
  BY DEF Goes
<1>3. [worker[w] EXCEPT !.pc = pc] \in Worker
  BY <1>1 DEF Worker
<1>4. worker'[w] = [worker[w] EXCEPT !.pc = pc]
  BY <1>1, <1>2
<1> QED
  BY <1>1, <1>2, <1>3, <1>4 DEF Others, Worker

LEMMA RestFacts ==
    ASSUME TypeOK, NEW w \in Workers, BecomesIdle(w)
    PROVE  worker' \in [Workers -> Worker] /\ Others(w) /\ worker'[w].pc = "idle"
<1>1. worker \in [Workers -> Worker]
  BY DEF TypeOK, Worker
<1> QED
  BY <1>1, IdleFacts DEF BecomesIdle, Others

LEMMA TakeFacts ==
    ASSUME TypeOK, NEW w \in Workers, NEW j \in Jobs,
           worker' = [worker EXCEPT ![w] = [Idle EXCEPT !.pc = "reserved", !.job = j]]
    PROVE  /\ worker' \in [Workers -> Worker] /\ Others(w)
           /\ worker'[w].pc = "reserved" /\ worker'[w].job = j
<1>1. worker \in [Workers -> Worker]
  BY DEF TypeOK, Worker
<1>2. [Idle EXCEPT !.pc = "reserved", !.job = j] \in Worker
      /\ [Idle EXCEPT !.pc = "reserved", !.job = j].pc = "reserved"
      /\ [Idle EXCEPT !.pc = "reserved", !.job = j].job = j
  BY IdleFacts DEF Worker, Pcs
<1> QED
  BY <1>1, <1>2 DEF Others

LEMMA LapseFacts ==
    ASSUME TypeOK, NEW w \in Workers, worker' = [worker EXCEPT ![w].lapsed = TRUE]
    PROVE  /\ worker' \in [Workers -> Worker] /\ Others(w)
           /\ worker'[w].pc = worker[w].pc /\ worker'[w].job = worker[w].job
           /\ worker'[w].lapsed
<1>1. worker \in [Workers -> Worker] /\ worker[w] \in Worker
  BY DEF TypeOK, Worker
<1>2. worker' = [worker EXCEPT ![w] = [worker[w] EXCEPT !.lapsed = TRUE]]
  OBVIOUS
<1>3. [worker[w] EXCEPT !.lapsed = TRUE] \in Worker
  BY <1>1 DEF Worker
<1>4. worker'[w] = [worker[w] EXCEPT !.lapsed = TRUE]
  BY <1>1, <1>2
<1> QED
  BY <1>1, <1>2, <1>3, <1>4 DEF Others, Worker

\* How the number of workers that have a job changes.
LEMMA CarryCount ==
    ASSUME NEW w \in Workers, Others(w), NEW j \in Jobs
    PROVE  /\ Carried(j) \in Nat
           /\ Carries(w, j) => Carried(j) > 0
           /\ Carries(w, j)' <=> Carries(w, j) => Carried(j)' = Carried(j)
           /\ Carries(w, j) /\ ~Carries(w, j)' => Carried(j)' = Carried(j) - 1
           /\ ~Carries(w, j) /\ Carries(w, j)' => Carried(j)' = Carried(j) + 1
<1>1. IsFiniteSet(Carriers(j))
  <2>1. Carriers(j) \in SUBSET Workers
    BY DEF Carriers
  <2> QED
    BY <2>1, WorkerAssumption, FS_Subset
<1>2. Carried(j) \in Nat
  BY <1>1, FS_CardinalityType DEF Carried
<1>3. Carries(w, j) => Carried(j) > 0
  <2>1. Carries(w, j) => Carriers(j) # {}
    BY DEF Carriers
  <2> QED
    BY <1>1, <1>2, <2>1, FS_EmptySet DEF Carried
<1>4. \A v \in Workers : v # w => (Carries(v, j)' <=> Carries(v, j))
  BY DEF Carries, At, Others
<1>5. ASSUME Carries(w, j)' <=> Carries(w, j) PROVE Carried(j)' = Carried(j)
  <2>1. Carriers(j)' = Carriers(j)
    BY <1>4, <1>5 DEF Carriers
  <2> QED
    BY <2>1 DEF Carried
<1>6. ASSUME Carries(w, j), ~Carries(w, j)' PROVE Carried(j)' = Carried(j) - 1
  <2>1. Carriers(j)' = Carriers(j) \ {w} /\ w \in Carriers(j)
    BY <1>4, <1>6 DEF Carriers
  <2> QED
    BY <1>1, <2>1, FS_RemoveElement DEF Carried
<1>7. ASSUME ~Carries(w, j), Carries(w, j)' PROVE Carried(j)' = Carried(j) + 1
  <2>1. Carriers(j)' = Carriers(j) \cup {w} /\ w \notin Carriers(j)
    BY <1>4, <1>7 DEF Carriers
  <2> QED
    BY <1>1, <2>1, FS_AddElement DEF Carried
<1> QED
  BY <1>2, <1>3, <1>5, <1>6, <1>7

-----------------------------------------------------------------------------
(* The queue: types                                                        *)

LEMMA TypeInit == Init => TypeOK
BY IdleFacts, FaultAssumption DEF Init, TypeOK, Worker

LEMMA FaultType ==
    ASSUME TypeOK, Fault \/ NoFault
    PROVE  faults' \in 0..MaxFaults /\ faults' >= faults /\ faults \in Nat
BY FaultAssumption DEF TypeOK, Fault, NoFault

LEMMA QueueType ==
    ASSUME TypeOK, NEW j \in Jobs,
           Enqueue(j) \/ MoveDue(j) \/ GetsStale(j) \/ RecoverStale(j) \/ InflightExpires(j)
    PROVE  TypeOK'
<1>1. Append(ready, j) \in Seq(Jobs)
  BY DEF TypeOK
<1> QED
  BY <1>1, FaultType
  DEF Enqueue, MoveDue, GetsStale, RecoverStale, InflightExpires, Push, TypeOK

LEMMA WorkerType ==
    ASSUME TypeOK, NEW w \in Workers,
           \/ Step(w) \/ Heartbeat(w) \/ WorkerDies(w)
           \/ \E j \in Jobs : Finish(w, j) \/ LockExpires(j)
    PROVE  TypeOK'
<1> DEFINE k == worker[w].job
<1>1. k \in Jobs /\ worker \in [Workers -> Worker]
  BY DEF TypeOK, Worker
<1>2. CASE Reserve(w)
  <2>1. Head(ready) \in Jobs /\ Tail(ready) \in Seq(Jobs)
    BY <1>2 DEF Reserve, TypeOK
  <2>2. worker' \in [Workers -> Worker]
    BY <1>1, <1>2, <2>1, TakeFacts DEF Reserve
  <2> QED
    BY <1>2, <2>1, <2>2, FaultType DEF Reserve, TypeOK, Worker
<1>3. CASE AcquireLock(w)
  <2>1. worker' \in [Workers -> Worker]
    BY <1>3, GoesFacts DEF AcquireLock, Pcs
  <2>2. lock' \in [Jobs -> Workers \cup {Free, Left}]
    BY <1>1, <1>3 DEF AcquireLock, TypeOK
  <2> QED
    BY <1>3, <2>1, <2>2, FaultType DEF AcquireLock, TypeOK, Worker
<1>4. CASE NotYet(w)
  <2>1. worker' \in [Workers -> Worker]
    BY <1>4, GoesFacts DEF NotYet, Pcs
  <2> QED
    BY <1>4, <2>1, FaultType DEF NotYet, TypeOK, Worker
<1>5. CASE Requeue(w)
  <2>1. worker' \in [Workers -> Worker]
    BY <1>5, GoesFacts, RestFacts DEF Requeue, AfterRequeue, Pcs
  <2> QED
    BY <1>1, <1>5, <2>1, FaultType DEF Requeue, TypeOK, Worker
<1>6. CASE Ack(w)
  <2>1. worker' \in [Workers -> Worker]
    BY <1>6, GoesFacts DEF Ack, Pcs
  <2> QED
    BY <1>1, <1>6, <2>1, FaultType DEF Ack, TypeOK, Worker
<1>7. CASE ReleaseLock(w)
  <2>1. worker' \in [Workers -> Worker]
    BY <1>7, RestFacts DEF ReleaseLock
  <2>2. lock' \in [Jobs -> Workers \cup {Free, Left}]
    BY <1>1, <1>7 DEF ReleaseLock, TypeOK
  <2> QED
    BY <1>7, <2>1, <2>2, FaultType DEF ReleaseLock, TypeOK, Worker
<1>8. CASE Heartbeat(w)
  BY <1>8 DEF Heartbeat, TypeOK
<1>9. CASE WorkerDies(w)
  <2>1. worker' \in [Workers -> Worker]
    BY <1>9, RestFacts DEF WorkerDies
  <2>2. lock' \in [Jobs -> Workers \cup {Free, Left}]
    BY <1>1, <1>9 DEF WorkerDies, TypeOK
  <2> QED
    BY <1>9, <2>1, <2>2, FaultType DEF WorkerDies, TypeOK, Worker
<1>10. ASSUME NEW j \in Jobs, Finish(w, j) PROVE TypeOK'
  <2>1. worker' \in [Workers -> Worker]
    BY <1>10, GoesFacts DEF Finish, Pcs
  <2> QED
    BY <1>10, <2>1 DEF Finish, TypeOK, Worker
<1>11. ASSUME NEW j \in Jobs, LockExpires(j) PROVE TypeOK'
  <2>1. worker' \in [Workers -> Worker] /\ faults' \in 0..MaxFaults
    <3>1. CASE lock[j] = Left
      BY <1>1, <1>11, <3>1 DEF LockExpires, TypeOK
    <3>2. CASE lock[j] # Left
      <4>1. lock[j] \in Workers
        BY <1>11, <3>2 DEF LockExpires, HasTTL, TypeOK
      <4> QED
        BY <1>11, <3>2, <4>1, LapseFacts, FaultType DEF LockExpires
    <3> QED
      BY <3>1, <3>2
  <2> QED
    BY <1>11, <2>1 DEF LockExpires, TypeOK, Worker
<1> QED
  BY <1>2, <1>3, <1>4, <1>5, <1>6, <1>7, <1>8, <1>9, <1>10, <1>11 DEF Step

LEMMA TypeStep == TypeOK /\ [Next]_vars => TypeOK'
<1> SUFFICES ASSUME TypeOK, [Next]_vars PROVE TypeOK'
  OBVIOUS
<1>1. CASE UNCHANGED vars
  BY <1>1 DEF vars, TypeOK
<1>2. ASSUME NEW j \in Jobs, LockExpires(j) PROVE TypeOK'
  <2>1. CASE Workers # {}
    BY <1>2, <2>1, WorkerType
  <2>2. CASE Workers = {}
    BY <1>2, <2>2 DEF LockExpires, HasTTL, TypeOK
  <2> QED
    BY <2>1, <2>2
<1> QED
  BY <1>1, <1>2, QueueType, WorkerType DEF Next

-----------------------------------------------------------------------------
(* The queue: the locks                                                    *)

\* Steps that move no worker.
LEMMA QueueFrame ==
    ASSUME NEW j \in Jobs,
           Enqueue(j) \/ MoveDue(j) \/ GetsStale(j) \/ RecoverStale(j) \/ InflightExpires(j)
    PROVE  UNCHANGED <<worker, lock, done>>
BY DEF Enqueue, MoveDue, GetsStale, RecoverStale, InflightExpires

\* What a worker's step does to the worker.
LEMMA WorkerFrame ==
    ASSUME TypeOK, NEW w \in Workers, Step(w) \/ WorkerDies(w) \/ \E j \in Jobs : Finish(w, j)
    PROVE  /\ Others(w) \/ worker' = worker
           /\ done \subseteq done'
           /\ At(w, {"ack"})' => \/ worker[w].job \in done' /\ worker'[w].job = worker[w].job
                                 \/ worker' = worker
<1>1. CASE Reserve(w)
  <2>1. Head(ready) \in Jobs
    BY <1>1 DEF Reserve, TypeOK
  <2> QED
    BY <1>1, <2>1, TakeFacts DEF Reserve, At
<1>2. CASE AcquireLock(w) \/ NotYet(w) \/ Ack(w)
  <2>1. PICK pc \in Pcs \ {"ack"} : Goes(w, pc)
    BY <1>2 DEF AcquireLock, NotYet, Ack, Pcs
  <2> QED
    BY <1>2, <2>1, GoesFacts DEF AcquireLock, NotYet, Ack, At
<1>3. CASE Requeue(w)
  BY <1>3, GoesFacts, RestFacts DEF Requeue, AfterRequeue, Pcs, At
<1>4. CASE ReleaseLock(w) \/ WorkerDies(w)
  BY <1>4, RestFacts DEF ReleaseLock, WorkerDies, At
<1>5. ASSUME NEW j \in Jobs, Finish(w, j)
      PROVE  Others(w) /\ done' = done \cup {j} /\ worker[w].job = j /\ worker'[w].job = j
  BY <1>5, GoesFacts DEF Finish, Pcs
<1> QED
  BY <1>1, <1>2, <1>3, <1>4, <1>5 DEF Step

LEMMA AckStep == TypeOK /\ AckedIsDone /\ [Next]_vars => AckedIsDone'
<1> SUFFICES ASSUME TypeOK, AckedIsDone, [Next]_vars PROVE AckedIsDone'
  OBVIOUS
<1>1. CASE UNCHANGED <<worker, done>>
  BY <1>1 DEF AckedIsDone, At
<1>2. ASSUME NEW w \in Workers, Step(w) \/ WorkerDies(w) \/ \E j \in Jobs : Finish(w, j)
      PROVE  AckedIsDone'
  BY <1>2, WorkerFrame DEF AckedIsDone, At, Others
<1>3. ASSUME NEW j \in Jobs, LockExpires(j) PROVE AckedIsDone'
  <2>1. done' = done
    BY <1>3 DEF LockExpires
  <2>2. CASE lock[j] = Left
    BY <1>1, <1>3, <2>1, <2>2 DEF LockExpires
  <2>3. CASE lock[j] # Left
    <3>1. lock[j] \in Workers
      BY <1>3, <2>3 DEF LockExpires, HasTTL, TypeOK
    <3> QED
      BY <1>3, <2>1, <2>3, <3>1, LapseFacts DEF LockExpires, AckedIsDone, At, Others
  <2> QED
    BY <2>2, <2>3
<1> QED
  BY <1>1, <1>2, <1>3, QueueFrame DEF Next, Heartbeat, vars

\* A lock that is free is nobody's: who takes it takes it from nobody.
LEMMA LockStep == TypeOK /\ LockIsOwn /\ [Next]_vars => LockIsOwn'
<1> SUFFICES ASSUME TypeOK, LockIsOwn, [Next]_vars PROVE LockIsOwn'
  OBVIOUS
<1>1. CASE UNCHANGED <<worker, lock>>
  BY <1>1 DEF LockIsOwn, Holding, At
<1>2. ASSUME NEW w \in Workers, AcquireLock(w) PROVE LockIsOwn'
  <2> DEFINE k == worker[w].job
  <2>1. k \in Jobs /\ \A v \in Workers : v # Free
    BY WorkerAssumption DEF TypeOK
  <2>2. Others(w) /\ worker'[w].job = k
        /\ (worker'[w].pc = "process" => lock'[k] = w)
        /\ worker'[w].pc \in {"process", "conflict"}
    BY <1>2, <2>1, GoesFacts DEF AcquireLock, Pcs, TypeOK
  <2>3. lock[k] = Free \/ lock' = lock
    BY <1>2 DEF AcquireLock
  <2>4. \A i \in Jobs : i # k => lock'[i] = lock[i]
    BY <1>2, <2>1 DEF AcquireLock, TypeOK
  <2>5. \A v \in Workers : worker[v].job \in Jobs
    BY DEF TypeOK
  <2> QED
    BY <2>1, <2>2, <2>3, <2>4, <2>5 DEF LockIsOwn, Holding, At, Others
<1>3. ASSUME NEW w \in Workers, ReleaseLock(w) \/ WorkerDies(w) PROVE LockIsOwn'
  <2> DEFINE k == worker[w].job
  <2>1. k \in Jobs /\ \A v \in Workers : worker[v].job \in Jobs
    BY DEF TypeOK
  <2>2. Others(w) /\ worker'[w].pc = "idle"
    BY <1>3, RestFacts DEF ReleaseLock, WorkerDies
  <2>3. \A i \in Jobs : lock'[i] = lock[i] \/ lock[i] = w
    BY <1>3, <2>1 DEF ReleaseLock, WorkerDies, HasToken, TypeOK
  <2> QED
    BY <2>1, <2>2, <2>3 DEF LockIsOwn, Holding, At, Others
<1>4. ASSUME NEW j \in Jobs, LockExpires(j) PROVE LockIsOwn'
  <2>1. \A i \in Jobs : i # j => lock'[i] = lock[i]
    BY <1>4 DEF LockExpires, TypeOK
  <2>2. \A v \in Workers : worker[v].job \in Jobs /\ v # Left
    BY WorkerAssumption DEF TypeOK
  <2>3. CASE lock[j] = Left
    BY <1>4, <2>1, <2>2, <2>3 DEF LockExpires, LockIsOwn, Holding, At
  <2>4. CASE lock[j] # Left
    <3>1. lock[j] \in Workers
      BY <1>4, <2>4 DEF LockExpires, HasTTL, TypeOK
    <3> QED
      BY <1>4, <2>1, <2>2, <2>4, <3>1, LapseFacts DEF LockExpires, LockIsOwn, Holding, At, Others
  <2> QED
    BY <2>3, <2>4
<1>5. ASSUME NEW w \in Workers, Reserve(w) PROVE LockIsOwn'
  <2>1. Head(ready) \in Jobs /\ lock' = lock
    BY <1>5 DEF Reserve, TypeOK
  <2>2. ASSUME worker' # worker PROVE Others(w) /\ worker'[w].pc = "reserved"
    <3>1. worker' = [worker EXCEPT ![w] = [Idle EXCEPT !.pc = "reserved", !.job = Head(ready)]]
      BY <1>5, <2>2 DEF Reserve
    <3> QED
      BY <2>1, <3>1, TakeFacts
  <2> QED
    BY <2>1, <2>2 DEF LockIsOwn, Holding, At, Others
<1>6. ASSUME NEW w \in Workers, NotYet(w) \/ Requeue(w) \/ Ack(w) \/ \E j \in Jobs : Finish(w, j)
      PROVE  LockIsOwn'
  <2>1. lock' = lock
    BY <1>6 DEF NotYet, Requeue, Ack, Finish
  <2>2. Others(w)
    BY <1>6, WorkerFrame DEF Step, NotYet, Requeue, Ack, Finish, Others
  <2>3. Holding(w)' => Holding(w) /\ worker'[w].job = worker[w].job
                       /\ worker'[w].lapsed = worker[w].lapsed
    <3>1. CASE NotYet(w)
      BY <3>1, GoesFacts DEF NotYet, Holding, At, Pcs
    <3>2. CASE Requeue(w)
      BY <3>2, GoesFacts, RestFacts DEF Requeue, AfterRequeue, Holding, At, Pcs
    <3>3. CASE Ack(w)
      BY <3>3, GoesFacts DEF Ack, Holding, At, Pcs
    <3>4. ASSUME NEW j \in Jobs, Finish(w, j)
          PROVE  Holding(w) /\ worker'[w].job = worker[w].job
                 /\ worker'[w].lapsed = worker[w].lapsed
      BY <3>4, GoesFacts DEF Finish, Holding, At, Pcs
    <3> QED
      BY <1>6, <3>1, <3>2, <3>3, <3>4
  <2> QED
    BY <2>1, <2>2, <2>3 DEF LockIsOwn, Holding, At, Others
<1> QED
  BY <1>1, <1>2, <1>3, <1>4, <1>5, <1>6, QueueFrame DEF Next, Step, Heartbeat, vars

-----------------------------------------------------------------------------
(* The queue: no job is forgotten                                          *)

LEMMA QueuedStep ==
    ASSUME TypeOK, AckedIsDone, [Next]_vars, NEW j \in Jobs, Queued(j)
    PROVE  Queued(j)' \/ (j \in done /\ j \notin inflight')
<1> USE DEF Queued
<1>1. CASE UNCHANGED <<ready, delayed, active>>
  BY <1>1 DEF InReady
<1>2. ASSUME NEW k \in Jobs, Enqueue(k) \/ MoveDue(k) \/ RecoverStale(k)
      PROVE  Queued(j)'
  <2>1. /\ Len(ready) \in Nat /\ Len(ready') = Len(ready) + 1 /\ ready'[Len(ready) + 1] = k
        /\ \A i \in 1..Len(ready) : ready'[i] = ready[i]
    BY <1>2 DEF Enqueue, MoveDue, RecoverStale, Push, TypeOK
  <2>2. InReady(j) => InReady(j)'
    BY <2>1 DEF InReady
  <2>3. InReady(k)'
    BY <2>1 DEF InReady
  <2>4. j # k => (j \in delayed' <=> j \in delayed) /\ active'[j] = active[j]
    BY <1>2 DEF Enqueue, MoveDue, RecoverStale, TypeOK
  <2> QED
    BY <2>2, <2>3, <2>4
<1>3. ASSUME NEW k \in Jobs, GetsStale(k) PROVE Queued(j)'
  BY <1>3 DEF GetsStale, TypeOK, InReady
<1>4. ASSUME NEW w \in Workers, Reserve(w) PROVE Queued(j)'
  <2>1. /\ Head(ready) = ready[1] /\ Head(ready) \in Jobs
        /\ Len(ready) \in Nat \ {0} /\ Len(ready') = Len(ready) - 1
        /\ \A i \in 1..Len(ready') : ready'[i] = ready[i + 1]
        /\ delayed' = delayed
    BY <1>4 DEF Reserve, TypeOK
  <2>2. active'[Head(ready)] = "fresh" /\ \A i \in Jobs : i # Head(ready) => active'[i] = active[i]
    BY <1>4, <2>1 DEF Reserve, TypeOK
  <2>3. InReady(j) /\ j # Head(ready) => InReady(j)'
    <3> SUFFICES ASSUME NEW i \in 1..Len(ready), ready[i] = j, j # Head(ready) PROVE InReady(j)'
      BY DEF InReady
    <3>1. i \in Nat /\ i # 1 /\ i - 1 \in 1..Len(ready') /\ ready'[i - 1] = ready[i]
      BY <2>1
    <3> QED
      BY <3>1 DEF InReady
  <2> QED
    BY <2>1, <2>2, <2>3
<1>5. ASSUME NEW w \in Workers, Requeue(w) PROVE Queued(j)'
  BY <1>5 DEF Requeue, InReady, TypeOK
<1>6. ASSUME NEW w \in Workers, Ack(w) PROVE Queued(j)' \/ (j \in done /\ j \notin inflight')
  <2>1. worker[w].job \in done
    BY <1>6 DEF Ack, AckedIsDone
  <2>2. j # worker[w].job => Queued(j)'
    BY <1>6 DEF Ack, InReady, TypeOK
  <2>3. UNCHANGED <<active, delayed, ready>> \/ worker[w].job \notin inflight'
    BY <1>6 DEF Ack
  <2> QED
    BY <1>1, <2>1, <2>2, <2>3
<1>7. ASSUME NEW w \in Workers, Heartbeat(w) PROVE Queued(j)'
  BY <1>7 DEF Heartbeat, InReady, TypeOK
<1> QED
  BY <1>1, <1>2, <1>3, <1>4, <1>5, <1>6, <1>7
  DEF Next, Step, AcquireLock, NotYet, ReleaseLock, Finish, WorkerDies, LockExpires,
      InflightExpires, vars

LEMMA ForgottenStep == TypeOK /\ AckedIsDone /\ NeverForgotten /\ [Next]_vars => NeverForgotten'
<1> SUFFICES ASSUME TypeOK, AckedIsDone, NeverForgotten, [Next]_vars PROVE NeverForgotten'
  OBVIOUS
<1>1. ASSUME NEW k \in Jobs, Enqueue(k) PROVE NeverForgotten'
  <2>1. /\ Len(ready) \in Nat /\ Len(ready') = Len(ready) + 1 /\ ready'[Len(ready) + 1] = k
        /\ \A i \in 1..Len(ready) : ready'[i] = ready[i]
    BY <1>1 DEF Enqueue, Push, TypeOK
  <2>2. InReady(k)' /\ \A j : InReady(j) => InReady(j)'
    BY <2>1 DEF InReady
  <2> QED
    BY <1>1, <2>2 DEF Enqueue, NeverForgotten, Queued
<1>2. CASE inflight' \subseteq inflight /\ entered' = entered /\ done \subseteq done'
  <2> SUFFICES ASSUME NEW j \in inflight' \cup (entered' \ done') PROVE Queued(j)'
    BY DEF NeverForgotten
  <2>1. j \in Jobs /\ Queued(j)
    BY <1>2 DEF NeverForgotten, TypeOK
  <2>2. ~(j \in done /\ j \notin inflight')
    BY <1>2
  <2> QED
    BY <2>1, <2>2, QueuedStep
<1> QED
  BY <1>1, <1>2 DEF Next, Step, MoveDue, GetsStale, RecoverStale, LockExpires, InflightExpires,
     Finish, Reserve, AcquireLock, NotYet, Requeue, Ack, ReleaseLock, Heartbeat, WorkerDies, vars

-----------------------------------------------------------------------------
(* The queue: no job is multiplied                                         *)

LoadOk(j) == Burden(j) + Threat(j) <= 1 + faults

LEMMA CountTypes ==
    ASSUME TypeOK, NEW j \in Jobs
    PROVE  /\ Listed(j) \in Nat /\ Waiting(j) \in {0, 1} /\ Booked(j) \in {0, 1}
           /\ Carried(j) \in Nat /\ faults \in Nat
<1>1. Listed(j) \in Nat
  BY PositionsFinite DEF Listed, TypeOK
<1>2. Carried(j) \in Nat
  <2>1. Carriers(j) \in SUBSET Workers
    BY DEF Carriers
  <2> QED
    BY <2>1, WorkerAssumption, FS_Subset, FS_CardinalityType DEF Carried
<1>3. Waiting(j) \in {0, 1} /\ Booked(j) \in {0, 1}
  BY DEF Waiting, Booked
<1>4. faults \in Nat
  BY FaultAssumption DEF TypeOK
<1> QED
  BY <1>1, <1>2, <1>3, <1>4

\* Nothing of the job changes but perhaps its lock.
LEMMA LoadSame ==
    ASSUME TypeOK, NEW j \in Jobs, LoadOk(j), faults' \in Nat, faults' >= faults,
           Listed(j)' = Listed(j), Waiting(j)' = Waiting(j), active'[j] = active[j],
           j \in inflight => j \in inflight', Carried(j)' = Carried(j)
    PROVE  LoadOk(j)'
BY CountTypes DEF LoadOk, Burden, Threat, Booked

LEMMA PushListed ==
    ASSUME TypeOK, NEW k \in Jobs, Push(k), NEW j \in Jobs
    PROVE  Listed(j)' = Listed(j) + IF k = j THEN 1 ELSE 0
BY PushCount DEF Push, Listed, TypeOK

LEMMA LoadQueue ==
    ASSUME TypeOK, NEW j \in Jobs, LoadOk(j), NEW k \in Jobs,
           Enqueue(k) \/ MoveDue(k) \/ GetsStale(k) \/ RecoverStale(k) \/ InflightExpires(k)
    PROVE  LoadOk(j)'
<1>1. Carried(j)' = Carried(j)
  BY QueueFrame DEF Carried, Carriers, Carries, At
<1>2. faults' \in Nat /\ faults' >= faults
  BY CountTypes
  DEF Enqueue, MoveDue, GetsStale, RecoverStale, InflightExpires, Fault, NoFault
<1>3. CASE Enqueue(k)
  <2>1. Listed(j)' = Listed(j) + IF k = j THEN 1 ELSE 0
    BY <1>3, PushListed DEF Enqueue
  <2>2. /\ Waiting(j)' = Waiting(j) /\ active' = active /\ faults' = faults
        /\ k \notin inflight /\ inflight' = inflight \cup {k}
    BY <1>3 DEF Enqueue, Waiting
  <2>3. CASE k = j
    BY <1>1, <2>1, <2>2, <2>3, CountTypes DEF LoadOk, Burden, Threat, Booked
  <2>4. CASE k # j
    BY <1>1, <1>2, <2>1, <2>2, <2>4, LoadSame, CountTypes
  <2> QED
    BY <2>3, <2>4
<1>4. CASE MoveDue(k)
  <2>1. Listed(j)' = Listed(j) + IF k = j THEN 1 ELSE 0
    BY <1>4, PushListed DEF MoveDue
  <2>2. /\ Waiting(j) = (IF j \in delayed THEN 1 ELSE 0)
        /\ Waiting(j)' = (IF j \in delayed' THEN 1 ELSE 0)
    BY DEF Waiting
  <2>3. /\ k \in delayed /\ delayed' = delayed \ {k}
        /\ active' = active /\ inflight' = inflight /\ faults' = faults
    BY <1>4 DEF MoveDue
  <2> QED
    BY <1>1, <2>1, <2>2, <2>3, CountTypes DEF LoadOk, Burden, Threat, Booked
<1>5. CASE RecoverStale(k)
  <2>1. Listed(j)' = Listed(j) + IF k = j THEN 1 ELSE 0
    BY <1>5, PushListed DEF RecoverStale
  <2>2. /\ Waiting(j)' = Waiting(j) /\ inflight' = inflight /\ faults' = faults
        /\ active[k] = "stale" /\ active'[k] = "no" /\ (j # k => active'[j] = active[j])
    BY <1>5 DEF RecoverStale, Waiting, TypeOK
  <2>3. CASE k = j
    BY <1>1, <2>1, <2>2, <2>3, CountTypes DEF LoadOk, Burden, Threat, Booked
  <2>4. CASE k # j
    BY <1>1, <1>2, <2>1, <2>2, <2>4, LoadSame, CountTypes
  <2> QED
    BY <2>3, <2>4
<1>6. CASE GetsStale(k)
  <2>1. /\ Listed(j)' = Listed(j) /\ Waiting(j)' = Waiting(j) /\ inflight' = inflight
        /\ active[k] = "fresh" /\ active'[k] = "stale" /\ (j # k => active'[j] = active[j])
    BY <1>6 DEF GetsStale, Waiting, Listed, TypeOK
  <2>2. CASE k # j
    BY <1>1, <1>2, <2>1, <2>2, LoadSame
  <2>3. CASE k = j
    <3>1. Carried(j) > 0 => faults' = faults + 1
      <4>1. Carriers(j) = {} => Carried(j) = 0
        BY FS_EmptySet DEF Carried
      <4>2. Carriers(j) # {} => \E w \in Workers : WorksOn(w, j)
        BY DEF Carriers, Carries, WorksOn, At
      <4> QED
        BY <1>6, <2>3, <4>1, <4>2, CountTypes DEF GetsStale, Fault
    <3> QED
      BY <1>1, <1>2, <2>1, <2>3, <3>1, CountTypes DEF LoadOk, Burden, Threat, Booked
  <2> QED
    BY <2>2, <2>3
<1>7. CASE InflightExpires(k)
  <2>1. /\ Listed(j)' = Listed(j) /\ Waiting(j)' = Waiting(j) /\ active' = active
        /\ inflight' = inflight \ {k} /\ faults' = faults + 1
    BY <1>7 DEF InflightExpires, Waiting, Listed, Fault
  <2> QED
    BY <1>1, <2>1, CountTypes DEF LoadOk, Burden, Threat, Booked
<1> QED
  BY <1>3, <1>4, <1>5, <1>6, <1>7

\* A job that a worker pops, or that goes on its way with the reply lost.
LEMMA LoadReserve ==
    ASSUME TypeOK, NEW j \in Jobs, LoadOk(j), NEW w \in Workers, Reserve(w)
    PROVE  LoadOk(j)'
<1> DEFINE k == Head(ready)
<1>1. k \in Jobs /\ ready \in Seq(Jobs) /\ ready # <<>> /\ ready' = Tail(ready)
  BY DEF Reserve, TypeOK
<1>2. Listed(j)' = Listed(j) - IF k = j THEN 1 ELSE 0
  BY <1>1, PopCount DEF Listed
<1>3. /\ Waiting(j)' = Waiting(j) /\ inflight' = inflight
      /\ active'[k] = "fresh" /\ (j # k => active'[j] = active[j])
  BY <1>1 DEF Reserve, Waiting, TypeOK
<1>4. faults' \in Nat /\ faults' >= faults
  BY CountTypes DEF Reserve, Fault, NoFault
<1>5. CASE UNCHANGED worker
  <2>1. Carried(j)' = Carried(j)
    BY <1>5 DEF Carried, Carriers, Carries, At
  <2>2. CASE k = j
    <3>1. Listed(j)' \in Nat
      <4>1. ready' \in Seq(Jobs)
        BY <1>1
      <4> QED
        BY <4>1, PositionsFinite DEF Listed
    <3> QED
      BY <1>2, <1>3, <1>4, <2>1, <2>2, <3>1, CountTypes DEF LoadOk, Burden, Threat, Booked
  <2>3. CASE k # j
    BY <1>2, <1>3, <1>4, <2>1, <2>3, LoadSame, CountTypes
  <2> QED
    BY <2>2, <2>3
<1>6. CASE worker' = [worker EXCEPT ![w] = [Idle EXCEPT !.pc = "reserved", !.job = k]]
  <2>1. Others(w) /\ worker'[w].pc = "reserved" /\ worker'[w].job = k
    BY <1>1, <1>6, TakeFacts
  <2>2. ~Carries(w, j) /\ (Carries(w, j)' <=> k = j)
    BY <2>1 DEF Carries, At, Reserve
  <2>3. Carried(j)' = Carried(j) + IF k = j THEN 1 ELSE 0
    BY <2>1, <2>2, CarryCount
  <2>4. CASE k = j
    BY <1>2, <1>3, <1>4, <2>3, <2>4, CountTypes DEF LoadOk, Burden, Threat, Booked
  <2>5. CASE k # j
    BY <1>2, <1>3, <1>4, <2>3, <2>5, LoadSame, CountTypes
  <2> QED
    BY <2>4, <2>5
<1> QED
  BY <1>5, <1>6 DEF Reserve

\* A worker that puts its job back, with or without success.
LEMMA LoadRequeue ==
    ASSUME TypeOK, NEW j \in Jobs, LoadOk(j), NEW w \in Workers, Requeue(w)
    PROVE  LoadOk(j)'
<1> DEFINE k == worker[w].job
<1>1. k \in Jobs /\ Listed(j)' = Listed(j) /\ inflight' = inflight
  BY DEF TypeOK, Requeue, Listed
<1>2. Others(w) /\ worker'[w].pc \in {"release", "idle"}
  BY GoesFacts, RestFacts DEF Requeue, AfterRequeue, Pcs
<1>3. ~Carries(w, j)' /\ (Carries(w, j) <=> k = j)
  BY <1>2 DEF Carries, At, Requeue
<1>4. Carried(j) \in Nat /\ (k = j => Carried(j) > 0 /\ Carried(j)' = Carried(j) - 1)
      /\ (k # j => Carried(j)' = Carried(j))
  BY <1>2, <1>3, CarryCount
<1>5. CASE active' = [active EXCEPT ![k] = "no"] /\ delayed' = delayed \cup {k} /\ NoFault
  <2>1. active'[k] = "no" /\ (k # j => active'[j] = active[j])
    BY <1>1, <1>5 DEF TypeOK
  <2>2. Waiting(j) = (IF j \in delayed THEN 1 ELSE 0)
        /\ Waiting(j)' = (IF j \in delayed' THEN 1 ELSE 0)
    BY DEF Waiting
  <2>3. CASE k = j
    BY <1>1, <1>4, <1>5, <2>1, <2>2, <2>3, CountTypes
    DEF LoadOk, Burden, Threat, Booked, NoFault
  <2>4. CASE k # j
    BY <1>1, <1>4, <1>5, <2>1, <2>2, <2>4, LoadSame, CountTypes DEF NoFault
  <2> QED
    BY <2>3, <2>4
<1>6. CASE Fault /\ UNCHANGED <<active, delayed>>
  <2>1. Waiting(j)' = Waiting(j)
    BY <1>6 DEF Waiting
  <2>2. CASE k = j
    BY <1>1, <1>4, <1>6, <2>1, <2>2, CountTypes DEF LoadOk, Burden, Threat, Booked, Fault
  <2>3. CASE k # j
    BY <1>1, <1>4, <1>6, <2>1, <2>3, LoadSame, CountTypes DEF Fault
  <2> QED
    BY <2>2, <2>3
<1> QED
  BY <1>5, <1>6 DEF Requeue

\* Steps of a worker that keep its job where it is.
LEMMA LoadKeeps ==
    ASSUME TypeOK, NEW j \in Jobs, LoadOk(j), NEW w \in Workers,
           AcquireLock(w) \/ NotYet(w) \/ ReleaseLock(w)
    PROVE  LoadOk(j)'
<1>1. /\ Listed(j)' = Listed(j) /\ Waiting(j)' = Waiting(j) /\ active' = active
      /\ inflight' = inflight
  BY DEF AcquireLock, NotYet, ReleaseLock, Listed, Waiting
<1>2. faults' \in Nat /\ faults' >= faults
  BY CountTypes DEF AcquireLock, NotYet, ReleaseLock, Fault, NoFault
<1>3. Others(w) /\ (Carries(w, j)' <=> Carries(w, j))
  <2>1. CASE AcquireLock(w) \/ NotYet(w)
    <3>1. PICK pc \in {"process", "conflict", "requeue"} : Goes(w, pc)
      BY <2>1 DEF AcquireLock, NotYet
    <3>2. Others(w) /\ worker'[w].pc = pc /\ worker'[w].job = worker[w].job
      BY <3>1, GoesFacts DEF Pcs
    <3> QED
      BY <2>1, <3>2 DEF AcquireLock, NotYet, Carries, At
  <2>2. CASE ReleaseLock(w)
    BY <2>2, RestFacts DEF ReleaseLock, Carries, At
  <2> QED
    BY <2>1, <2>2
<1> QED
  BY <1>1, <1>2, <1>3, CarryCount, LoadSame

\* A worker that ends, finishes or acknowledges drops no more than its own job.
LEMMA LoadEnds ==
    ASSUME TypeOK, AckedIsDone, NEW j \in Jobs \ done', LoadOk(j), NEW w \in Workers,
           WorkerDies(w) \/ Ack(w) \/ Finish(w, worker[w].job)
    PROVE  LoadOk(j)'
<1>1. CASE WorkerDies(w)
  <2>1. /\ Listed(j)' = Listed(j) /\ Waiting(j)' = Waiting(j) /\ active' = active
        /\ inflight' = inflight /\ faults' = faults + 1
    BY <1>1 DEF WorkerDies, Listed, Waiting, Fault
  <2>2. Others(w) /\ ~Carries(w, j)'
    BY <1>1, RestFacts DEF WorkerDies, Carries, At
  <2>3. Carried(j)' \in {Carried(j), Carried(j) - 1} /\ (Carried(j)' # Carried(j) => Carried(j) > 0)
    BY <2>2, CarryCount
  <2> QED
    BY <2>1, <2>3, CountTypes DEF LoadOk, Burden, Threat, Booked
<1>2. CASE Ack(w)
  <2>1. worker[w].job # j
    BY <1>2 DEF Ack, AckedIsDone
  <2>2. /\ Listed(j)' = Listed(j) /\ Waiting(j)' = Waiting(j) /\ active'[j] = active[j]
        /\ (j \in inflight => j \in inflight')
    BY <1>2, <2>1 DEF Ack, Listed, Waiting, TypeOK
  <2>3. faults' \in Nat /\ faults' >= faults
    BY <1>2, CountTypes DEF Ack, Fault, NoFault
  <2>4. Others(w) /\ (Carries(w, j)' <=> Carries(w, j))
    BY <1>2, GoesFacts DEF Ack, Carries, At, Pcs
  <2> QED
    BY <2>2, <2>3, <2>4, CarryCount, LoadSame
<1>3. CASE Finish(w, worker[w].job)
  <2>1. worker[w].job # j
    BY <1>3 DEF Finish
  <2>2. /\ Listed(j)' = Listed(j) /\ Waiting(j)' = Waiting(j) /\ active' = active
        /\ inflight' = inflight /\ faults' = faults
    BY <1>3 DEF Finish, Listed, Waiting
  <2>3. Others(w) /\ (Carries(w, j)' <=> Carries(w, j))
    BY <1>3, <2>1, GoesFacts DEF Finish, Carries, At, Pcs
  <2> QED
    BY <2>2, <2>3, CarryCount, LoadSame, CountTypes
<1> QED
  BY <1>1, <1>2, <1>3

LEMMA LoadLock ==
    ASSUME TypeOK, NEW j \in Jobs, LoadOk(j), NEW k \in Jobs, LockExpires(k)
    PROVE  LoadOk(j)'
<1>1. /\ Listed(j)' = Listed(j) /\ Waiting(j)' = Waiting(j) /\ active' = active
      /\ inflight' = inflight
  BY DEF LockExpires, Listed, Waiting
<1>2. faults' \in Nat /\ faults' >= faults
  BY CountTypes DEF LockExpires, Fault
<1>3. Carried(j)' = Carried(j)
  <2>1. CASE lock[k] = Left
    BY <2>1 DEF LockExpires, Carried, Carriers, Carries, At
  <2>2. CASE lock[k] # Left
    <3>1. PICK u \in Workers : u = lock[k]
      BY <2>2 DEF LockExpires, HasTTL, TypeOK
    <3>2. worker' = [worker EXCEPT ![u].lapsed = TRUE]
      BY <2>2, <3>1 DEF LockExpires
    <3>3. Others(u) /\ worker'[u].pc = worker[u].pc /\ worker'[u].job = worker[u].job
      BY <3>2, LapseFacts
    <3>4. Carries(u, j)' <=> Carries(u, j)
      BY <3>3 DEF Carries, At
    <3> QED
      BY <3>3, <3>4, CarryCount
  <2> QED
    BY <2>1, <2>2
<1> QED
  BY <1>1, <1>2, <1>3, LoadSame

LEMMA LoadStep == TypeOK /\ AckedIsDone /\ LoadBounded /\ [Next]_vars => LoadBounded'
<1> SUFFICES ASSUME TypeOK, AckedIsDone, LoadBounded, [Next]_vars, NEW j \in Jobs \ done'
             PROVE  LoadOk(j)'
  BY DEF LoadBounded, LoadOk
<1>1. done \subseteq done'
  BY DEF Next, Step, Enqueue, MoveDue, GetsStale, RecoverStale, LockExpires, InflightExpires,
     Finish, Reserve, AcquireLock, NotYet, Requeue, Ack, ReleaseLock, Heartbeat, WorkerDies, vars
<1>2. LoadOk(j)
  BY <1>1 DEF LoadBounded, LoadOk
<1>3. ASSUME NEW w \in Workers, Heartbeat(w) PROVE LoadOk(j)'
  <2> DEFINE k == worker[w].job
  <2>1. /\ Listed(j)' = Listed(j) /\ Waiting(j)' = Waiting(j) /\ inflight' = inflight
        /\ faults' = faults /\ k \in Jobs
    BY <1>3 DEF Heartbeat, Listed, Waiting, TypeOK
  <2>2. Carried(j)' = Carried(j)
    BY <1>3 DEF Heartbeat, Carried, Carriers, Carries, At
  <2>3. active[k] = "stale" /\ active'[k] = "fresh" /\ (k # j => active'[j] = active[j])
    BY <1>3, <2>1 DEF Heartbeat, TypeOK
  <2> QED
    BY <1>2, <2>1, <2>2, <2>3, CountTypes DEF LoadOk, Burden, Threat, Booked
<1>4. CASE UNCHANGED vars
  BY <1>2, <1>4 DEF vars, LoadOk, Burden, Threat, Listed, Waiting, Booked, Carried,
     Carriers, Carries, At
<1>5. ASSUME NEW w \in Workers, NEW k \in Jobs, Finish(w, k) PROVE Finish(w, worker[w].job)
  BY <1>5 DEF Finish
<1> QED
  BY <1>2, <1>3, <1>4, <1>5, LoadQueue, LoadReserve, LoadRequeue, LoadKeeps, LoadEnds, LoadLock
  DEF Next, Step

\* What the bound says of the copies there are.
LEMMA CopiesOfLoad == TypeOK /\ LoadBounded => CopiesBounded
<1> SUFFICES ASSUME TypeOK, LoadBounded, NEW j \in Jobs \ done PROVE Copies(j) <= 1 + faults
  BY DEF CopiesBounded
<1>1. Copies(j) = Listed(j) + Waiting(j) + Booked(j)
  BY DEF Copies, Listed, Positions, Waiting, Booked
<1> QED
  BY <1>1, CountTypes DEF LoadBounded, Burden, Threat

-----------------------------------------------------------------------------
(* The queue: theorems                                                     *)

LEMMA Initially == Init => IInv
<1> SUFFICES ASSUME Init PROVE IInv
  OBVIOUS
<1>1. TypeOK
  BY TypeInit
<1>2. AckedIsDone /\ LockIsOwn
  BY IdleFacts DEF Init, AckedIsDone, LockIsOwn, Holding, At
<1>3. NeverForgotten
  BY DEF Init, NeverForgotten
<1>4. LoadBounded
  <2> SUFFICES ASSUME NEW j \in Jobs PROVE Burden(j) + Threat(j) <= 1 + faults
    BY DEF LoadBounded
  <2>1. Positions(ready, j) = {} /\ Carriers(j) = {}
    BY IdleFacts DEF Init, Positions, Carriers, Carries, At
  <2>2. Listed(j) = 0 /\ Carried(j) = 0
    BY <2>1, FS_EmptySet DEF Listed, Carried
  <2>3. Waiting(j) = 0 /\ Booked(j) = 0 /\ faults = 0
    BY DEF Init, Waiting, Booked
  <2> QED
    BY <2>2, <2>3 DEF Burden, Threat
<1> QED
  BY <1>1, <1>2, <1>3, <1>4 DEF IInv

LEMMA Stays == IInv /\ [Next]_vars => IInv'
BY TypeStep, AckStep, LockStep, ForgottenStep, LoadStep DEF IInv

LEMMA Invariant == Spec => []IInv
BY Initially, Stays, PTL DEF Spec

\* No job is forgotten, and none is in the queue more often than once and once
\* for every fault, for any number of workers and jobs.
THEOREM JobsCounted == Spec => []JobsAccountedFor
<1>1. IInv => JobsAccountedFor
  BY CopiesOfLoad DEF IInv, JobsAccountedFor
<1> QED
  BY <1>1, Invariant, PTL

\* A worker has the lock of the job it processes, unless it expired under it, and
\* releases no other.
THEOREM OwnLock == Spec => []LockIsOwn
<1>1. IInv => LockIsOwn
  BY DEF IInv
<1> QED
  BY <1>1, Invariant, PTL

-----------------------------------------------------------------------------
(* The hold: the invariant, for a job whose lock is kept                  *)

\* The statuses of a job that ended without a result, and of one that the
\* provider has.
Over == {"failed", "cancelled"}
Sent == {"submitted", "running", "indexing", "settling", "completed"}

SubPcs == {"create", "reserve", "items", "upload", "submit", "record", "abort",
           "enqueue", "release", "relFailed", "relQueue", "fail", "hide", "end"}

\* The stages of Submit from the reservation's reply to the last look at the hold.
AfterHold == {"items", "upload", "submit", "record", "abort", "enqueue", "release",
              "relFailed", "relQueue"}

\* The types, without the bound of the retries.
JobTypes ==
    /\ status \in Statuses
    /\ provider \in BOOLEAN /\ hidden \in BOOLEAN /\ aged \in BOOLEAN
    /\ reserved \in BOOLEAN /\ queued \in BOOLEAN
    /\ retries \in Nat
    /\ claims \subseteq {"hold", "capture", "release"}
    /\ balance \in Int /\ frozen \in Int /\ subUsed \in Int /\ quota \in Int
    /\ upstream \in {"none", "running", "succeeded", "garbled", "failed", "cancelled"}
    /\ cost \in Costs /\ start \in Balances
    /\ sub \in [pc : SubPcs, then : {"end", "fail"}]
    /\ can \in [pc : {"idle", "release", "provider", "enqueue", "transition", "retry"},
                snap : Snapshots]
    /\ rec \in [pc : {"idle", "fail", "release", "retry"}, snap : Snapshots, kept : BOOLEAN]
    /\ wk \in [Workers -> [pc : WorkerPcs, snap : Snapshots]]
    /\ gaps \subseteq Gaps /\ faults \in 0..MaxFaults

\* What the lock gives: one run at a time.
OneRun == \A v, w \in Workers : ~WkAt(v, "idle") /\ ~WkAt(w, "idle") => v = w

\* How far Submit is, and what the row and the claims can say by then.
SubmitInv ==
    /\ sub.pc \in {"create", "reserve"} => "hold" \notin claims
    /\ sub.pc \in AfterHold => "hold" \in claims
    /\ sub.pc = "create" <=> status = "none"
    /\ sub.pc \in {"reserve", "items", "upload"} => status \in {"created"} \cup Over
    /\ sub.pc \in {"submit", "record"} => status \in {"uploading"} \cup Over
    /\ status \in Sent => sub.pc \in {"abort", "enqueue", "end"}
    /\ status \in Sent \cup {"uploading"} => "hold" \in claims
    /\ status \in Sent => provider
    /\ provider => status \in Sent \cup Over /\ sub.pc \in {"abort", "enqueue", "end"}

\* The hold is given back when the job is over, when Submit gives it up, or
\* when the attempts to settle are used up; it is captured while settling.
ClaimInv ==
    /\ "release" \in claims =>
         \/ status \in Over
         \/ status \in Unsent /\ sub.pc \in {"fail", "hide", "end", "relFailed", "relQueue"}
         \/ status = "settling" /\ retries >= MaxRetries
    /\ "early" \in gaps => "release" \in claims
    /\ "release" \in claims /\ "early" \notin gaps => "hold" \in claims
    /\ Captured => /\ Reserved /\ cost <= Hold
                   /\ \/ status \in {"settling", "completed"}
                      \/ status = "failed" /\ faults >= MaxRetries
    /\ status = "completed" => Captured
    /\ Captured /\ Released => faults >= MaxRetries
    /\ can.pc \in {"release", "retry"} => status \in Over
    /\ rec.pc \in {"release", "retry"} => status \in Over

\* A snapshot that saw the hold saw its allowance, unless it came after the end.
SnapOk(snap) ==
    /\ snap.held => "hold" \in claims
    /\ snap.reserved => snap.held
    /\ snap.held /\ ~snap.reserved => Captured \/ Released

SnapInv ==
    /\ SnapOk(Loaded) /\ SnapOk(can.snap) /\ SnapOk(rec.snap)
    /\ \A w \in Workers : SnapOk(wk[w].snap)

\* What the run of w relies on.
Run(w) ==
    /\ ~WkAt(w, "idle") => queued
    /\ wk[w].pc \in {"capture", "record", "settle", "exhaust", "exhausted"} =>
         status = "settling" /\ wk[w].snap.held
    /\ wk[w].pc \in {"capture", "record", "settle"} => retries < MaxRetries
    /\ wk[w].pc \in {"exhaust", "exhausted"} => retries >= MaxRetries
    /\ wk[w].pc = "settle" => Captured
    /\ wk[w].pc = "exhausted" => Released
    /\ wk[w].pc = "release" => status \in Over
    /\ wk[w].pc \in {"get", "index"} \cup DOMAIN After => status \notin {"settling", "completed"}
    /\ wk[w].pc = "ack" => status \in Terminal /\ claims \cap {"capture", "release"} # {}

\* Each attempt that a job within its hold has lost has cost a fault.
CountInv ==
    /\ retries <= MaxRetries
    /\ cost <= Hold => retries <= faults
    /\ \A w \in Workers : cost <= Hold /\ WkAt(w, "record") => retries < faults

\* Who is on the way to release, without those who only might.
Returning ==
    \/ queued \/ sub.pc = "relQueue"
    \/ can.pc \in {"release", "retry"} \/ rec.pc \in {"release", "retry"}

\* Money is held, or about to be, and no transaction has resolved it.
Owed ==
    (Reserved \/ sub.pc = "reserve") /\ "capture" \notin claims /\ "release" \notin claims

OwnerInv ==
    /\ sub.pc = "fail" /\ Reserved => "release" \in claims \/ "unowned" \in gaps
    /\ status \in Over /\ Owed /\ "unowned" \notin gaps => Returning

\* The provider's batch may run only while somebody can reach it.
Going == {"none", "running"}

ProviderInv ==
    /\ sub.pc \in {"create", "reserve", "items", "upload", "submit"} => upstream = "none"
    /\ upstream = "running" /\ "orphan" \notin gaps => sub.pc \in {"record", "abort"} \/ provider
    /\ status \in {"indexing", "settling", "completed"} => upstream \notin Going
    /\ \A w \in Workers :
         wk[w].pc \in {"index", "indexing", "settling", "failed", "cancelled"} => upstream \notin Going
    /\ provider /\ status \in Over /\ "orphan" \notin gaps => upstream # "running"

JobInv ==
    /\ JobTypes /\ OneRun /\ SubmitInv /\ ClaimInv /\ SnapInv
    /\ (\A w \in Workers : Run(w))
    /\ CountInv /\ FundsAddUp /\ OwnerInv /\ ProviderInv

-----------------------------------------------------------------------------
(* The hold: types                                                         *)

LEMMA JobConstants ==
    /\ Hold \in Nat \ {0} /\ SubPart \in Nat /\ SubPart <= Hold /\ BalPart \in Nat
    /\ OtherFrozen \in Nat /\ MaxRetries \in Nat \ {0} /\ MaxFaults \in Nat
    /\ \A c \in Costs : c \in Nat
    /\ \A b \in Balances : b \in Nat
BY AmountAssumption, RetryAssumption, FaultAssumption DEF BalPart

LEMMA AfterFacts ==
    /\ DOMAIN After = {"running", "indexing", "settling", "failed", "cancelled"}
    /\ \A pc \in DOMAIN After : After[pc] \in {"requeue", "index", "release"}
    /\ After["running"] = "requeue" /\ After["indexing"] = "index"
    /\ After["settling"] = "requeue"
    /\ After["failed"] = "release" /\ After["cancelled"] = "release"
BY DEF After

\* The values of the money after any of the three transactions.
Counted ==
    /\ reserved \in BOOLEAN /\ claims \subseteq {"hold", "capture", "release"}
    /\ balance \in Int /\ frozen \in Int /\ subUsed \in Int /\ quota \in Int

LEMMA FaultFacts ==
    ASSUME JobTypes, Fault \/ NoFault
    PROVE  faults' \in 0..MaxFaults /\ faults' >= faults
BY JobConstants DEF JobTypes, Fault, NoFault

LEMMA SnapFacts ==
    /\ Blank \in Snapshots /\ SubmitSnap \in Snapshots
    /\ JobTypes => Loaded \in Snapshots
BY DEF Blank, SubmitSnap, Loaded, Snapshots, JobTypes

LEMMA PartFacts ==
    ASSUME NEW snap \in Snapshots
    PROVE  BalanceOf(snap) \in Nat /\ UsageOf(snap) \in Nat
BY JobConstants DEF BalanceOf, UsageOf

\* The records of the processes.
Subs == [pc : SubPcs, then : {"end", "fail"}]
Cans == [pc : {"idle", "release", "provider", "enqueue", "transition", "retry"},
         snap : Snapshots]
Recs == [pc : {"idle", "fail", "release", "retry"}, snap : Snapshots, kept : BOOLEAN]
Runs == [Workers -> [pc : WorkerPcs, snap : Snapshots]]

\* A statement on the row leaves the recovery where it is.
LEMMA RowFacts ==
    ASSUME JobTypes, Touch \/ Quiet
    PROVE  aged' \in BOOLEAN /\ rec' \in Recs /\ rec'.pc = rec.pc /\ rec'.snap = rec.snap
BY DEF JobTypes, Touch, Quiet, Recs

LEMMA SubmitMoves ==
    ASSUME JobTypes, NEW pc \in SubPcs, SubGoes(pc)
    PROVE  sub' \in Subs /\ sub'.pc = pc
BY DEF JobTypes, SubGoes, Subs

LEMMA SubmitGivesUp ==
    ASSUME NEW then \in {"end", "fail"}, SubFails(then)
    PROVE  sub' \in Subs /\ sub'.pc = "release"
BY DEF SubFails, Subs, SubPcs

LEMMA CancelMoves ==
    ASSUME JobTypes
    PROVE  /\ \A pc \in {"enqueue", "release", "retry"} :
                CanGoes(pc) => can' \in Cans /\ can'.pc = pc /\ can'.snap = can.snap
           /\ CanStops => can' \in Cans /\ can'.pc = "idle" /\ can'.snap = Blank
BY SnapFacts DEF JobTypes, CanGoes, CanStops, Cans

LEMMA RecoveryMoves ==
    ASSUME JobTypes
    PROVE  /\ \A pc \in {"release", "retry"} :
                RecGoes(pc) => rec' \in Recs /\ rec'.pc = pc /\ rec'.snap = rec.snap
           /\ RecStops => rec' \in Recs /\ rec'.pc = "idle" /\ rec'.snap = Blank
<1>1. rec \in Recs
  BY DEF JobTypes, Recs
<1>2. \A pc \in {"release", "retry"} :
        RecGoes(pc) => rec' \in Recs /\ rec'.pc = pc /\ rec'.snap = rec.snap
  BY <1>1 DEF RecGoes, Recs
<1>3. RecStops => rec' \in Recs /\ rec'.pc = "idle" /\ rec'.snap = Blank
  BY SnapFacts DEF RecStops, Recs
<1> QED
  BY <1>2, <1>3

LEMMA RunMoves ==
    ASSUME JobTypes, NEW w \in Workers
    PROVE  /\ \A pc \in WorkerPcs :
                WkGoes(w, pc) =>
                  /\ wk' \in Runs /\ wk'[w].pc = pc /\ wk'[w].snap = wk[w].snap
                  /\ \A v \in Workers : v # w => wk'[v] = wk[v]
           /\ WkStops(w) => /\ wk' \in Runs /\ wk'[w].pc = "idle" /\ wk'[w].snap = Blank
                            /\ \A v \in Workers : v # w => wk'[v] = wk[v]
BY SnapFacts DEF JobTypes, WkGoes, WkStops, Runs, WorkerPcs

LEMMA ReserveTypes ==
    ASSUME JobTypes, ReserveEffect PROVE Counted'
BY JobConstants DEF JobTypes, ReserveEffect, Counted

LEMMA ReleaseTypes ==
    ASSUME JobTypes, NEW snap \in Snapshots, ReleaseOk(snap) \/ ReleaseError(snap)
    PROVE  Counted' /\ gaps' \subseteq Gaps /\ faults' \in 0..MaxFaults
<1>1. CASE ReleaseEffect(snap)
  <2>1. claims' \subseteq {"hold", "capture", "release"} /\ gaps' \subseteq Gaps
    BY <1>1 DEF ReleaseEffect, JobTypes, Gaps
  <2>2. reserved' \in BOOLEAN
    BY <1>1 DEF ReleaseEffect, JobTypes
  <2>3. balance' \in Int /\ frozen' \in Int /\ subUsed' \in Int /\ quota' \in Int
    BY <1>1, PartFacts, JobConstants DEF ReleaseEffect, JobTypes
  <2>4. Fault \/ NoFault \/ faults' = faults
    BY DEF ReleaseOk, ReleaseError
  <2> QED
    BY <2>1, <2>2, <2>3, <2>4, FaultFacts DEF Counted, JobTypes
<1>2. CASE ~ReleaseEffect(snap)
  BY <1>2, FaultFacts DEF ReleaseOk, ReleaseError, JobTypes, Counted, money
<1> QED
  BY <1>1, <1>2

LEMMA CaptureTypes ==
    ASSUME JobTypes, NEW snap \in Snapshots, CaptureEffect(snap) PROVE Counted'
<1>1. cost \in Nat /\ KeptUsage(snap) \in Nat /\ KeptBalance(snap) \in Int
  BY PartFacts, JobConstants DEF KeptUsage, KeptBalance, JobTypes
<1>2. claims' \subseteq {"hold", "capture", "release"} /\ reserved' \in BOOLEAN
  BY DEF CaptureEffect, JobTypes
<1>3. balance' \in Int /\ frozen' \in Int /\ subUsed' \in Int /\ quota' \in Int
  BY <1>1, PartFacts, JobConstants DEF CaptureEffect, JobTypes
<1> QED
  BY <1>2, <1>3 DEF Counted

LEMMA JobInitTypes == JobInit => JobTypes
<1> SUFFICES ASSUME JobInit PROVE JobTypes
  OBVIOUS
<1>1. start \in Int /\ frozen \in Int
  BY JobConstants DEF JobInit
<1>2. wk \in [Workers -> [pc : WorkerPcs, snap : Snapshots]]
  BY SnapFacts DEF JobInit, WorkerPcs
<1>3. /\ sub \in [pc : SubPcs, then : {"end", "fail"}]
      /\ can \in [pc : {"idle", "release", "provider", "enqueue", "transition", "retry"},
                  snap : Snapshots]
      /\ rec \in [pc : {"idle", "fail", "release", "retry"}, snap : Snapshots, kept : BOOLEAN]
  BY SnapFacts DEF JobInit, SubPcs
<1>4. provider \in BOOLEAN /\ hidden \in BOOLEAN /\ aged \in BOOLEAN
      /\ reserved \in BOOLEAN /\ queued \in BOOLEAN
  BY DEF JobInit
<1> QED
  BY <1>1, <1>2, <1>3, <1>4, JobConstants DEF JobInit, JobTypes, Statuses

LEMMA SubmitTypes ==
    ASSUME JobTypes, Submit \/ SubmitHeartbeat \/ RepeatSubmit \/ SubmitDies
    PROVE  JobTypes'
<1> USE DEF Gap, money, fixed
<1>1. CASE CreateJob
  <2>1. sub' \in Subs
    BY <1>1, SubmitMoves DEF CreateJob, SubPcs
  <2> QED
    BY <1>1, <2>1, RowFacts, FaultFacts DEF CreateJob, JobTypes, Statuses, Unsent, Subs, Recs
<1>2. CASE ReserveHold
  <2>1. sub' \in Subs
    BY <1>2, SubmitMoves DEF ReserveHold, SubPcs
  <2>2. Counted' /\ aged' \in BOOLEAN /\ rec' \in Recs
    BY <1>2, RowFacts, ReserveTypes DEF ReserveHold, JobTypes, Counted
  <2>3. gaps' \subseteq Gaps /\ faults' \in 0..MaxFaults
    BY <1>2, FaultFacts DEF ReserveHold, JobTypes, Gaps
  <2> QED
    BY <1>2, <2>1, <2>2, <2>3 DEF ReserveHold, JobTypes, Counted, Subs, Recs
<1>3. CASE CreateItems \/ HideJob
  <2>1. sub' \in Subs
    BY <1>3, SubmitMoves, SubmitGivesUp DEF CreateItems, HideJob, SubPcs
  <2> QED
    BY <1>3, <2>1, RowFacts, FaultFacts DEF CreateItems, HideJob, JobTypes, Subs, Recs
<1>4. CASE StartUpload
  <2>1. sub' \in Subs
    BY <1>4, SubmitMoves, SubmitGivesUp DEF StartUpload, SubPcs
  <2>2. status' \in Statuses /\ aged' \in BOOLEAN /\ rec' \in Recs /\ faults' \in 0..MaxFaults
    BY <1>4, RowFacts, FaultFacts DEF StartUpload, JobTypes, Statuses, Unsent
  <2> QED
    BY <1>4, <2>1, <2>2 DEF StartUpload, JobTypes, Subs, Recs
<1>5. CASE SubmitHeartbeat
  BY <1>5, RowFacts, FaultFacts DEF SubmitHeartbeat, JobTypes, Subs, Recs
<1>6. CASE ProviderSubmit
  <2>1. sub' \in Subs
    BY <1>6, SubmitMoves, SubmitGivesUp DEF ProviderSubmit, SubPcs
  <2>2. gaps' \subseteq Gaps /\ faults' \in 0..MaxFaults
    BY <1>6, FaultFacts DEF ProviderSubmit, JobTypes, Gaps
  <2> QED
    BY <1>6, <2>1, <2>2, RowFacts DEF ProviderSubmit, JobTypes, Subs, Recs
<1>7. CASE RecordSubmit
  <2>1. sub' \in Subs
    BY <1>7, SubmitMoves DEF RecordSubmit, SubPcs
  <2>2. status' \in Statuses /\ provider' \in BOOLEAN
    BY <1>7 DEF RecordSubmit, JobTypes, Statuses
  <2>3. gaps' \subseteq Gaps /\ faults' \in 0..MaxFaults
    BY <1>7, FaultFacts DEF RecordSubmit, JobTypes, Gaps
  <2>4. aged' \in BOOLEAN /\ rec' \in Recs
    BY <1>7, RowFacts DEF RecordSubmit
  <2> QED
    BY <1>7, <2>1, <2>2, <2>3, <2>4 DEF RecordSubmit, JobTypes, Subs, Recs
<1>8. CASE AbortProviderJob
  <2>1. sub' \in Subs
    BY <1>8, SubmitMoves DEF AbortProviderJob, SubPcs
  <2>2. gaps' \subseteq Gaps /\ faults' \in 0..MaxFaults
    BY <1>8, FaultFacts DEF AbortProviderJob, JobTypes, Gaps
  <2> QED
    BY <1>8, <2>1, <2>2, RowFacts DEF AbortProviderJob, JobTypes, Subs, Recs
<1>9. CASE EnqueueJob \/ QueueRelease \/ RepeatSubmit
  <2>1. sub' \in Subs
    BY <1>9, SubmitMoves DEF EnqueueJob, QueueRelease, RepeatSubmit, SubPcs, JobTypes, Subs
  <2>2. gaps' \subseteq Gaps /\ faults' \in 0..MaxFaults /\ queued' \in BOOLEAN
    BY <1>9, FaultFacts DEF EnqueueJob, QueueRelease, RepeatSubmit, JobTypes, Gaps
  <2> QED
    BY <1>9, <2>1, <2>2, RowFacts DEF EnqueueJob, QueueRelease, RepeatSubmit, JobTypes, Subs, Recs
<1>10. CASE ReleaseSubmit
  <2>1. Counted' /\ gaps' \subseteq Gaps /\ faults' \in 0..MaxFaults
    BY <1>10, SnapFacts, ReleaseTypes DEF ReleaseSubmit
  <2>2. sub' \in Subs
    BY <1>10, SubmitMoves DEF ReleaseSubmit, JobTypes, SubPcs
  <2> QED
    BY <1>10, <2>1, <2>2, RowFacts DEF ReleaseSubmit, JobTypes, Counted, Subs, Recs
<1>11. CASE MarkSubmitFailed
  <2>1. sub' \in Subs
    BY <1>11, SubmitMoves DEF MarkSubmitFailed, SubPcs
  <2>2. status' \in Statuses /\ aged' \in BOOLEAN /\ rec' \in Recs /\ faults' \in 0..MaxFaults
    BY <1>11, RowFacts, FaultFacts DEF MarkSubmitFailed, JobTypes, Statuses, Terminal
  <2> QED
    BY <1>11, <2>1, <2>2 DEF MarkSubmitFailed, JobTypes, Subs, Recs
<1>12. CASE SubmitDies
  <2>1. upstream' \in {"none", "running", "succeeded", "garbled", "failed", "cancelled"}
    BY <1>12 DEF SubmitDies, JobTypes
  <2>2. gaps' \subseteq Gaps /\ sub' \in Subs
    BY <1>12, SubmitMoves DEF SubmitDies, JobTypes, SubPcs, Gaps
  <2> QED
    BY <1>12, <2>1, <2>2, RowFacts, FaultFacts DEF SubmitDies, JobTypes, Subs, Recs
<1> QED
  BY <1>1, <1>2, <1>3, <1>4, <1>5, <1>6, <1>7, <1>8, <1>9, <1>10, <1>11, <1>12 DEF Submit

LEMMA CancelTypes ==
    ASSUME JobTypes, LoadCancel \/ Cancel \/ CancelDies
    PROVE  JobTypes'
<1> USE DEF Gap, money, fixed
<1>1. CASE LoadCancel
  <2>1. can' \in Cans
    BY <1>1, SnapFacts DEF LoadCancel, Cans
  <2> QED
    BY <1>1, <2>1, RowFacts, FaultFacts DEF LoadCancel, JobTypes, Cans, Recs
<1>2. CASE CancelProvider \/ CancelEnqueue \/ CancelRetry \/ CancelDies
  <2>1. can' \in Cans
    BY <1>2, CancelMoves DEF CancelProvider, CancelEnqueue, CancelRetry, CancelDies
  <2>2. gaps' \subseteq Gaps /\ faults' \in 0..MaxFaults /\ aged' \in BOOLEAN /\ rec' \in Recs
    BY <1>2, RowFacts, FaultFacts
       DEF CancelProvider, CancelEnqueue, CancelRetry, CancelDies, JobTypes, Gaps
  <2> QED
    BY <1>2, <2>1, <2>2
       DEF CancelProvider, CancelEnqueue, CancelRetry, CancelDies, JobTypes, Cans, Recs
<1>3. CASE CancelTransition
  <2>1. can' \in Cans
    BY <1>3, CancelMoves DEF CancelTransition
  <2>2. gaps' \subseteq Gaps /\ status' \in Statuses
    BY <1>3 DEF CancelTransition, JobTypes, Gaps, Statuses, Terminal
  <2>3. faults' \in 0..MaxFaults /\ aged' \in BOOLEAN /\ rec' \in Recs
    BY <1>3, RowFacts, FaultFacts DEF CancelTransition
  <2> QED
    BY <1>3, <2>1, <2>2, <2>3 DEF CancelTransition, JobTypes, Cans, Recs
<1>4. CASE CancelRelease
  <2>1. can.snap \in Snapshots
    BY DEF JobTypes
  <2>2. Counted' /\ gaps' \subseteq Gaps /\ faults' \in 0..MaxFaults
    BY <1>4, <2>1, ReleaseTypes DEF CancelRelease
  <2>3. can' \in Cans
    BY <1>4, CancelMoves DEF CancelRelease
  <2> QED
    BY <1>4, <2>2, <2>3, RowFacts DEF CancelRelease, JobTypes, Counted, Cans, Recs
<1> QED
  BY <1>1, <1>2, <1>3, <1>4 DEF Cancel

LEMMA RecoveryTypes ==
    ASSUME JobTypes, Recovery \/ RecoveryDies
    PROVE  JobTypes'
<1> USE DEF Gap, money, fixed, RecElse
<1>1. CASE ListStale
  <2>1. rec' \in Recs
    BY <1>1, SnapFacts DEF ListStale, Recs
  <2> QED
    BY <1>1, <2>1, FaultFacts DEF ListStale, JobTypes, Recs
<1>2. CASE FailStale
  <2>1. rec' \in Recs
    BY <1>2, RecoveryMoves DEF FailStale
  <2>2. status' \in Statuses /\ aged' \in BOOLEAN /\ gaps' \subseteq Gaps
    BY <1>2 DEF FailStale, JobTypes, Statuses, Terminal, Gaps
  <2> QED
    BY <1>2, <2>1, <2>2, FaultFacts DEF FailStale, JobTypes, Recs
<1>3. CASE RecoveryRelease
  <2>1. rec.snap \in Snapshots
    BY DEF JobTypes
  <2>2. Counted' /\ gaps' \subseteq Gaps /\ faults' \in 0..MaxFaults
    BY <1>3, <2>1, ReleaseTypes DEF RecoveryRelease
  <2>3. rec' \in Recs
    BY <1>3, RecoveryMoves DEF RecoveryRelease
  <2> QED
    BY <1>3, <2>2, <2>3 DEF RecoveryRelease, JobTypes, Counted, Recs
<1>4. CASE RecoveryRetry \/ RecoveryDies
  <2>1. rec' \in Recs
    BY <1>4, RecoveryMoves DEF RecoveryRetry, RecoveryDies
  <2>2. gaps' \subseteq Gaps
    BY <1>4 DEF RecoveryRetry, RecoveryDies, JobTypes, Gaps
  <2> QED
    BY <1>4, <2>1, <2>2, FaultFacts DEF RecoveryRetry, RecoveryDies, JobTypes, Recs
<1> QED
  BY <1>1, <1>2, <1>3, <1>4 DEF Recovery

LEMMA WorkTypes ==
    ASSUME JobTypes, NEW w \in Workers, Work(w) \/ RunDies(w)
    PROVE  JobTypes'
<1> USE DEF money, fixed, WkElse, Runs
<1>1. CASE Take(w) \/ RequeueJob(w) \/ RunDies(w) \/ AckJob(w)
  <2>1. wk' \in Runs
    BY <1>1, RunMoves DEF Take, RequeueJob, RunDies, AckJob, WorkerPcs
  <2> QED
    BY <1>1, <2>1, RowFacts, FaultFacts DEF Take, RequeueJob, RunDies, AckJob, JobTypes, Recs
<1>2. CASE Load(w)
  <2>1. NextFor \in WorkerPcs
    BY DEF NextFor, WorkerPcs
  <2>2. wk' \in Runs
    BY <1>2, <2>1, SnapFacts DEF Load, JobTypes
  <2> QED
    BY <1>2, <2>2, RowFacts, FaultFacts DEF Load, JobTypes, Recs
<1>3. CASE GetProvider(w) \/ Index(w)
  <2>1. wk' \in Runs
    BY <1>3, RunMoves DEF GetProvider, Index, WorkerPcs
  <2> QED
    BY <1>3, <2>1, RowFacts, FaultFacts DEF GetProvider, Index, JobTypes, Recs
<1>4. CASE Transition(w)
  <2>1. wk' \in Runs
    BY <1>4, RunMoves, AfterFacts DEF Transition, WorkerPcs
  <2>2. status' \in Statuses
    BY <1>4, AfterFacts DEF Transition, JobTypes, Statuses, Terminal
  <2>3. faults' \in 0..MaxFaults /\ aged' \in BOOLEAN /\ rec' \in Recs
    BY <1>4, RowFacts, FaultFacts DEF Transition
  <2> QED
    BY <1>4, <2>1, <2>2, <2>3 DEF Transition, JobTypes, Recs
<1>5. CASE ReleaseTerminal(w) \/ Exhaust(w)
  <2>1. wk[w].snap \in Snapshots
    BY DEF JobTypes
  <2>2. Counted' /\ gaps' \subseteq Gaps /\ faults' \in 0..MaxFaults
    BY <1>5, <2>1, ReleaseTypes DEF ReleaseTerminal, Exhaust
  <2>3. wk' \in Runs
    BY <1>5, RunMoves DEF ReleaseTerminal, Exhaust, WorkerPcs
  <2> QED
    BY <1>5, <2>2, <2>3, RowFacts DEF ReleaseTerminal, Exhaust, JobTypes, Counted, Recs
<1>6. CASE Capture(w)
  <2>1. wk[w].snap \in Snapshots
    BY DEF JobTypes
  <2>2. Counted'
    BY <1>6, <2>1, CaptureTypes DEF Capture, JobTypes, Counted
  <2>3. wk' \in Runs
    BY <1>6, RunMoves DEF Capture, WorkerPcs
  <2>4. faults' \in 0..MaxFaults /\ aged' \in BOOLEAN /\ rec' \in Recs
    BY <1>6, RowFacts, FaultFacts DEF Capture
  <2> QED
    BY <1>6, <2>2, <2>3, <2>4 DEF Capture, JobTypes, Counted, Recs
<1>7. CASE RecordFailure(w)
  <2>1. wk' \in Runs
    BY <1>7, RunMoves DEF RecordFailure, WorkerPcs
  <2>2. retries' \in Nat /\ faults' \in 0..MaxFaults /\ aged' \in BOOLEAN /\ rec' \in Recs
    BY <1>7, RowFacts, FaultFacts DEF RecordFailure, JobTypes
  <2> QED
    BY <1>7, <2>1, <2>2 DEF RecordFailure, JobTypes, Recs
<1>8. CASE FailExhausted(w) \/ MarkSettled(w)
  <2>1. wk' \in Runs
    BY <1>8, RunMoves DEF FailExhausted, MarkSettled, WorkerPcs
  <2>2. status' \in Statuses
    BY <1>8 DEF FailExhausted, MarkSettled, JobTypes, Statuses, Terminal
  <2>3. faults' \in 0..MaxFaults /\ aged' \in BOOLEAN /\ rec' \in Recs
    BY <1>8, RowFacts, FaultFacts DEF FailExhausted, MarkSettled
  <2> QED
    BY <1>8, <2>1, <2>2, <2>3 DEF FailExhausted, MarkSettled, JobTypes, Recs
<1> QED
  BY <1>1, <1>2, <1>3, <1>4, <1>5, <1>6, <1>7, <1>8 DEF Work

LEMMA JobNextTypes == JobTypes /\ [JobNext]_jobVars => JobTypes'
<1> SUFFICES ASSUME JobTypes, [JobNext]_jobVars PROVE JobTypes'
  OBVIOUS
<1>1. CASE ProviderEnds \/ Age \/ UNCHANGED jobVars
  BY <1>1 DEF ProviderEnds, Age, jobVars, JobTypes, row, money, procs, fixed
<1> QED
  BY <1>1, SubmitTypes, CancelTypes, RecoveryTypes, WorkTypes DEF JobNext

-----------------------------------------------------------------------------
(* The hold: what the steps of one process leave to the others             *)

\* A release, by its reply or without one, happens once or changes nothing.
LEMMA ReleaseCases ==
    ASSUME NEW snap, ReleaseOk(snap) \/ ReleaseError(snap)
    PROVE  /\ \/ UNCHANGED <<money, gaps>>
              \/ ~Replayed /\ ReleaseAllowed(snap) /\ ReleaseEffect(snap)
           /\ ReleaseOk(snap) => "release" \in claims'
           /\ claims \subseteq claims' /\ claims' \subseteq claims \cup {"release"}
<1>1. ReleaseEffect(snap) /\ Replayed => UNCHANGED <<money, gaps>>
  BY DEF ReleaseEffect, Replayed, money
<1>2. ReleaseOk(snap) => ReleaseAllowed(snap) /\ ReleaseEffect(snap)
  BY DEF ReleaseOk
<1>3. ReleaseError(snap) => \/ UNCHANGED <<money, gaps>>
                            \/ ReleaseAllowed(snap) /\ ReleaseEffect(snap)
  BY DEF ReleaseError
<1>4. ReleaseEffect(snap) => claims' = claims \cup {"release"}
  BY DEF ReleaseEffect
<1> QED
  BY <1>1, <1>2, <1>3, <1>4 DEF money

LEMMA CaptureCases ==
    ASSUME NEW snap, CaptureEffect(snap)
    PROVE  /\ Captured => UNCHANGED money
           /\ claims' = claims \cup {"capture"}
BY DEF CaptureEffect, Captured, money

\* The owner, the recovery, the provider and the clock.
Outside ==
    \/ LoadCancel \/ Cancel \/ CancelDies \/ Recovery \/ RecoveryDies
    \/ ProviderEnds \/ Age

\* Every process but the workers.
Aside == Submit \/ SubmitHeartbeat \/ RepeatSubmit \/ SubmitDies \/ Outside

\* With the lock kept, the other workers are idle at a worker's step.
LEMMA WorkAlone ==
    ASSUME LockKept, JobTypes, OneRun, NEW w \in Workers, Work(w) \/ RunDies(w)
    PROVE  \A v \in Workers : v # w => WkAt(v, "idle") /\ wk'[v] = wk[v]
<1>1. CASE Take(w)
  BY <1>1, RunMoves DEF Take, WorkerPcs
<1>2. CASE ~Take(w)
  <2>1. ~WkAt(w, "idle")
    BY <1>2, AfterFacts
       DEF Work, RunDies, Load, RequeueJob, GetProvider, Transition, Index, ReleaseTerminal,
           Capture, RecordFailure, Exhaust, FailExhausted, MarkSettled, AckJob, WkAt
  <2>2. \A v \in Workers : v # w => wk'[v] = wk[v]
    <3>1. CASE Load(w)
      BY <3>1 DEF Load, JobTypes
    <3>2. CASE Transition(w)
      BY <3>2, AfterFacts, RunMoves DEF Transition, WorkerPcs
    <3>3. CASE \/ RunDies(w) \/ RequeueJob(w) \/ GetProvider(w) \/ Index(w)
               \/ ReleaseTerminal(w) \/ AckJob(w)
      BY <3>3, RunMoves
         DEF RunDies, RequeueJob, GetProvider, Index, ReleaseTerminal, AckJob, WorkerPcs
    <3>4. CASE Capture(w) \/ RecordFailure(w) \/ Exhaust(w) \/ FailExhausted(w) \/ MarkSettled(w)
      BY <3>4, RunMoves
         DEF Capture, RecordFailure, Exhaust, FailExhausted, MarkSettled, WorkerPcs
    <3> QED
      BY <1>2, <3>1, <3>2, <3>3, <3>4 DEF Work
  <2> QED
    BY <2>1, <2>2 DEF OneRun
<1> QED
  BY <1>1, <1>2

LEMMA AsideRuns ==
    ASSUME Aside
    PROVE  wk' = wk /\ retries' = retries
BY DEF Aside, Outside, Submit, SubmitHeartbeat, RepeatSubmit, SubmitDies, CreateJob, ReserveHold, CreateItems,
       StartUpload, ProviderSubmit, RecordSubmit, AbortProviderJob, EnqueueJob, ReleaseSubmit,
       MarkSubmitFailed, HideJob, QueueRelease, LoadCancel, Cancel, CancelDies, CancelProvider,
       CancelEnqueue, CancelTransition, CancelRelease, CancelRetry, Recovery, RecoveryDies,
       ListStale, FailStale, RecoveryRelease, RecoveryRetry, RecElse, ProviderEnds, Age, procs, row

LEMMA OneRunStep ==
    ASSUME LockKept, JobTypes, OneRun, [JobNext]_jobVars PROVE OneRun'
<1>1. CASE Aside \/ UNCHANGED jobVars
  <2>1. wk' = wk
    BY <1>1, AsideRuns DEF jobVars, procs
  <2> QED
    BY <2>1 DEF OneRun, WkAt
<1>2. ASSUME NEW w \in Workers, Work(w) \/ RunDies(w) PROVE OneRun'
  BY <1>2, WorkAlone DEF OneRun, WkAt
<1> QED
  BY <1>1, <1>2 DEF JobNext, Aside, Outside

-----------------------------------------------------------------------------
(* The hold: the stages of Submit                                          *)

\* What the other processes may do with the row while Submit stands still.
RowMoves ==
    /\ sub' = sub /\ provider' = provider
    /\ "hold" \in claims' <=> "hold" \in claims
    /\ \/ status' = status
       \/ status' \in Over /\ status \notin Terminal \cup {"none"}
       \/ status' \in Sent /\ status \in Sent

LEMMA OutsideRow ==
    ASSUME JobTypes, Outside PROVE RowMoves
<1> USE DEF money, procs, row, RowMoves
<1>1. CASE LoadCancel \/ CancelProvider \/ CancelEnqueue \/ CancelRetry \/ CancelDies \/ ProviderEnds \/ Age
  BY <1>1 DEF LoadCancel, CancelProvider, CancelEnqueue, CancelRetry, CancelDies, ProviderEnds, Age
<1>2. CASE CancelTransition
  BY <1>2 DEF CancelTransition, CanTransition, Over
<1>3. CASE CancelRelease \/ RecoveryRelease
  BY <1>3, ReleaseCases DEF CancelRelease, RecoveryRelease, RecElse
<1>4. CASE ListStale \/ FailStale \/ RecoveryRetry \/ RecoveryDies
  BY <1>4 DEF ListStale, FailStale, RecoveryRetry, RecoveryDies, RecElse, StillStale, Unsent,
       Terminal, Over
<1> QED
  BY <1>1, <1>2, <1>3, <1>4 DEF Outside, Cancel, Recovery

LEMMA WorkRow ==
    ASSUME JobTypes, NEW w \in Workers, Work(w) \/ RunDies(w) PROVE RowMoves
<1> USE DEF money, procs, row, RowMoves
<1>5. CASE \/ Take(w) \/ Load(w) \/ RequeueJob(w) \/ GetProvider(w) \/ Index(w)
           \/ RecordFailure(w) \/ AckJob(w) \/ RunDies(w)
  BY <1>5 DEF Take, Load, RequeueJob, GetProvider, Index, RecordFailure, AckJob, RunDies, WkElse
<1>6. CASE Transition(w)
  <2>1. status' # status => CanTransition(status, wk[w].pc) /\ status' = wk[w].pc
    BY <1>6 DEF Transition
  <2>2. wk[w].pc \in {"running", "indexing", "settling", "failed", "cancelled"}
    BY <1>6, AfterFacts DEF Transition
  <2>3. \/ status' = status
        \/ status' \in Over /\ status \notin Terminal \cup {"none"}
        \/ status' \in Sent /\ status \in Sent
    BY <2>1, <2>2 DEF CanTransition, Over, Sent
  <2> QED
    BY <1>6, <2>3 DEF Transition, WkElse
<1>7. CASE ReleaseTerminal(w) \/ Exhaust(w)
  BY <1>7, ReleaseCases DEF ReleaseTerminal, Exhaust, WkElse
<1>8. CASE Capture(w)
  BY <1>8, CaptureCases DEF Capture, WkElse
<1>9. CASE FailExhausted(w) \/ MarkSettled(w)
  BY <1>9 DEF FailExhausted, MarkSettled, CanTransition, WkElse, Over, Sent, Terminal
<1> QED
  BY <1>5, <1>6, <1>7, <1>8, <1>9 DEF Work

LEMMA SubmitStep ==
    ASSUME JobTypes, SubmitInv, [JobNext]_jobVars PROVE SubmitInv'
<1> USE DEF SubmitInv, AfterHold, Over, Sent, money
<1>1. CASE CreateJob
  BY <1>1, SubmitMoves DEF CreateJob, SubAt, SubPcs
<1>2. CASE ReserveHold
  <2>1. sub'.pc \in {"items", "fail"} /\ sub.pc = "reserve"
    BY <1>2, SubmitMoves DEF ReserveHold, SubAt, SubPcs
  <2>2. sub'.pc = "items" => "hold" \in claims'
    BY <1>2, SubmitMoves DEF ReserveHold, ReserveEffect, SubPcs
  <2> QED
    BY <1>2, <2>1, <2>2 DEF ReserveHold
<1>3. CASE CreateItems
  BY <1>3, SubmitMoves, SubmitGivesUp DEF CreateItems, SubAt, SubPcs
<1>4. CASE StartUpload
  <2>1. /\ sub.pc = "upload" /\ claims' = claims /\ provider' = provider
        /\ \/ sub'.pc = "submit" /\ status' = "uploading" /\ CanTransition(status, "uploading")
           \/ sub'.pc = "release" /\ status' = status
    BY <1>4, SubmitMoves, SubmitGivesUp DEF StartUpload, SubAt, SubPcs
  <2> QED
    BY <2>1
<1>5. CASE ProviderSubmit
  BY <1>5, SubmitMoves, SubmitGivesUp DEF ProviderSubmit, SubAt, SubPcs
<1>6. CASE RecordSubmit
  <2>1. /\ sub.pc = "record" /\ claims' = claims
        /\ \/ sub'.pc \in {"enqueue", "abort"} /\ status' = "submitted" /\ provider' = TRUE
           \/ sub'.pc = "abort" /\ status' = status /\ provider' = provider
    BY <1>6, SubmitMoves DEF RecordSubmit, SubAt, SubPcs
  <2> QED
    BY <2>1
<1>7. CASE AbortProviderJob \/ EnqueueJob \/ QueueRelease \/ HideJob
  <2>1. /\ sub.pc \in {"abort", "enqueue", "relQueue", "hide"} /\ sub'.pc = "end"
        /\ claims' = claims /\ status' = status /\ provider' = provider
    BY <1>7, SubmitMoves
       DEF AbortProviderJob, EnqueueJob, QueueRelease, HideJob, SubAt, SubPcs
  <2> QED
    BY <2>1
<1>8. CASE ReleaseSubmit
  <2>1. sub.pc = "release" /\ sub'.pc \in {"end", "fail", "relFailed"}
    BY <1>8, SubmitMoves DEF ReleaseSubmit, SubAt, SubPcs, JobTypes
  <2>2. "hold" \in claims'
    BY <1>8, <2>1, ReleaseCases DEF ReleaseSubmit
  <2> QED
    BY <1>8, <2>1, <2>2 DEF ReleaseSubmit
<1>9. CASE MarkSubmitFailed
  <2>1. /\ claims' = claims /\ provider' = provider
        /\ \/ sub.pc = "fail" /\ sub'.pc = "hide"
           \/ sub.pc = "relFailed" /\ sub'.pc = "relQueue"
        /\ status' \in {status, "failed"}
    BY <1>9, SubmitMoves DEF MarkSubmitFailed, SubPcs
  <2> QED
    BY <2>1
<1>10. CASE SubmitHeartbeat \/ RepeatSubmit \/ UNCHANGED jobVars
  BY <1>10 DEF SubmitHeartbeat, RepeatSubmit, jobVars, procs, row
<1>11. CASE SubmitDies
  <2>1. /\ sub.pc \notin {"create", "end"} /\ sub'.pc = "end"
        /\ claims' = claims /\ status' = status /\ provider' = provider
    BY <1>11, SubmitMoves DEF SubmitDies, SubPcs
  <2> QED
    BY <2>1
<1>12. CASE Outside \/ \E w \in Workers : Work(w) \/ RunDies(w)
  <2>1. RowMoves
    BY <1>12, OutsideRow, WorkRow
  <2>2. status \in Statuses
    BY DEF JobTypes
  <2> QED
    BY <2>1, <2>2 DEF RowMoves, Terminal, Unsent, Statuses
<1> QED
  BY <1>1, <1>2, <1>3, <1>4, <1>5, <1>6, <1>7, <1>8, <1>9, <1>10, <1>11, <1>12 DEF JobNext, Submit, Outside

-----------------------------------------------------------------------------
(* The hold: what no step takes back, and how the status and the money move *)

Grow ==
    /\ claims \subseteq claims' /\ gaps \subseteq gaps' /\ faults' >= faults
    /\ cost' = cost /\ start' = start

LEMMA ReleaseGrows ==
    ASSUME JobTypes, NEW snap, ReleaseOk(snap) \/ ReleaseError(snap)
    PROVE  claims \subseteq claims' /\ gaps \subseteq gaps' /\ faults' >= faults
<1>1. faults' >= faults
  <2>1. Fault \/ NoFault \/ faults' = faults
    BY DEF ReleaseOk, ReleaseError
  <2> QED
    BY <2>1, FaultFacts DEF JobTypes
<1>2. gaps \subseteq gaps'
  BY DEF ReleaseOk, ReleaseError, ReleaseEffect
<1> QED
  BY <1>1, <1>2, ReleaseCases

LEMMA Grows ==
    ASSUME JobTypes, [JobNext]_jobVars PROVE Grow
<1> USE DEF Grow, fixed, money, Gap
<1>1. faults \in Nat
  BY DEF JobTypes
<1>2. CASE UNCHANGED jobVars \/ SubmitHeartbeat \/ RepeatSubmit \/ SubmitDies \/ ProviderEnds \/ Age
  BY <1>1, <1>2, FaultFacts DEF jobVars, SubmitHeartbeat, RepeatSubmit, SubmitDies, ProviderEnds, Age
<1>3. CASE Submit
  <2>1. CASE \/ CreateJob \/ CreateItems \/ StartUpload \/ ProviderSubmit \/ AbortProviderJob
             \/ EnqueueJob \/ MarkSubmitFailed \/ HideJob \/ QueueRelease \/ RecordSubmit
    BY <1>1, <2>1, FaultFacts
       DEF CreateJob, CreateItems, StartUpload, ProviderSubmit, RecordSubmit, AbortProviderJob,
           EnqueueJob, MarkSubmitFailed, HideJob, QueueRelease
  <2>2. CASE ReserveHold
    BY <1>1, <2>2, FaultFacts DEF ReserveHold, ReserveEffect
  <2>3. CASE ReleaseSubmit
    BY <2>3, ReleaseGrows DEF ReleaseSubmit
  <2> QED
    BY <1>3, <2>1, <2>2, <2>3 DEF Submit
<1>4. CASE LoadCancel \/ Cancel \/ CancelDies
  <2>1. CASE CancelRelease
    BY <2>1, ReleaseGrows DEF CancelRelease
  <2> QED
    BY <1>1, <1>4, <2>1, FaultFacts
       DEF LoadCancel, CancelDies, Cancel, CancelProvider, CancelEnqueue, CancelTransition, CancelRetry
<1>5. CASE Recovery \/ RecoveryDies
  <2>1. CASE RecoveryRelease
    BY <2>1, ReleaseGrows DEF RecoveryRelease, RecElse
  <2> QED
    BY <1>1, <1>5, <2>1, FaultFacts
       DEF Recovery, RecoveryDies, ListStale, FailStale, RecoveryRetry, RecElse
<1>6. ASSUME NEW w \in Workers, Work(w) \/ RunDies(w) PROVE Grow
  <2>1. CASE ReleaseTerminal(w) \/ Exhaust(w)
    BY <2>1, ReleaseGrows DEF ReleaseTerminal, Exhaust, WkElse
  <2>2. CASE Capture(w)
    BY <1>1, <2>2, CaptureCases, FaultFacts DEF Capture, WkElse
  <2>3. CASE \/ Take(w) \/ Load(w) \/ RequeueJob(w) \/ GetProvider(w) \/ Transition(w) \/ Index(w)
             \/ RecordFailure(w) \/ FailExhausted(w) \/ MarkSettled(w) \/ AckJob(w) \/ RunDies(w)
    BY <1>1, <2>3, FaultFacts
       DEF Take, Load, RequeueJob, GetProvider, Transition, Index, RecordFailure, FailExhausted,
           MarkSettled, AckJob, RunDies, WkElse
  <2> QED
    BY <1>6, <2>1, <2>2, <2>3 DEF Work
<1> QED
  BY <1>2, <1>3, <1>4, <1>5, <1>6 DEF JobNext

\* How the status of a submission moves, and how it ends.
Quietly == UNCHANGED <<money, retries>> /\ ("early" \in gaps' <=> "early" \in gaps)

AsideStatus ==
    \/ status' = status
    \/ Quietly /\ status = "none" /\ status' = "created"
    \/ Quietly /\ status = "created" /\ status' = "uploading" /\ sub.pc = "upload"
    \/ Quietly /\ status \in Unsent /\ status' = "submitted" /\ sub.pc = "record"
    \/ Quietly /\ status \in {"submitted", "running", "indexing"} \cup Unsent \cup Over
       /\ status' \in Over /\ (status = "failed" => status' = "failed")

LEMMA AsideMoves ==
    ASSUME JobTypes, SubmitInv, Aside PROVE AsideStatus
<1> USE DEF AsideStatus, Quietly, money, row, procs, fixed, Over, Sent, AfterHold, SubAt
<1>1. CASE CreateJob
  BY <1>1 DEF CreateJob, SubmitInv
<1>2. CASE StartUpload
  BY <1>2 DEF StartUpload, SubmitInv, CanTransition
<1>3. CASE RecordSubmit
  BY <1>3 DEF RecordSubmit, SubmitInv, CanTransition, Unsent, Terminal, Gap
<1>4. CASE MarkSubmitFailed
  BY <1>4 DEF MarkSubmitFailed, SubmitInv, JobTypes, Statuses, Unsent, Terminal
<1>5. CASE CancelTransition
  <2>1. CASE status' # status
    <3>1. CanTransition(status, "cancelled") /\ status' = "cancelled"
      BY <1>5, <2>1 DEF CancelTransition
    <3>2. status \in {"submitted", "running", "indexing"} \cup Unsent
      BY <3>1 DEF CanTransition, Unsent
    <3>3. status # "failed"
      BY <3>2 DEF Unsent
    <3> QED
      BY <1>5, <3>1, <3>2, <3>3 DEF CancelTransition
  <2> QED
    BY <2>1
<1>6. CASE FailStale
  BY <1>6 DEF FailStale, StillStale, Unsent, RecElse, Gap
<1>7. CASE ~(CreateJob \/ StartUpload \/ RecordSubmit \/ MarkSubmitFailed \/ CancelTransition \/ FailStale)
  BY <1>7
     DEF Aside, Outside, Submit, SubmitHeartbeat, RepeatSubmit, SubmitDies, ReserveHold, CreateItems,
         ProviderSubmit, AbortProviderJob, EnqueueJob, ReleaseSubmit, HideJob, QueueRelease,
         LoadCancel, Cancel, CancelDies, CancelProvider, CancelEnqueue, CancelRelease, CancelRetry,
         Recovery, RecoveryDies, ListStale, RecoveryRelease, RecoveryRetry, RecElse, ProviderEnds, Age
<1> QED
  BY <1>1, <1>2, <1>3, <1>4, <1>5, <1>6, <1>7

\* How the status of a job moves with the worker.
WorkStatus ==
    \/ status' = status
    \/ Quietly /\ status \in {"submitted", "running", "indexing"} \cup Unsent
       /\ status' \in Over /\ sub' = sub
    \/ Quietly /\ status \in {"submitted", "running", "indexing"}
       /\ status' \in {"running", "indexing", "settling"} /\ sub' = sub
    \/ Quietly /\ status = "settling" /\ status' = "completed" /\ retries < MaxRetries /\ Captured
    \/ Quietly /\ status = "settling" /\ status' = "failed" /\ retries >= MaxRetries

LEMMA WorkMoves ==
    ASSUME JobTypes, NEW w \in Workers, Run(w), Work(w) \/ RunDies(w) PROVE WorkStatus
<1> USE DEF WorkStatus, Quietly, money, WkElse, WkAt
<1>1. CASE Transition(w)
  <2>1. wk[w].pc \in {"running", "indexing", "settling", "failed", "cancelled"}
    BY <1>1, AfterFacts DEF Transition
  <2>2. status \notin {"settling", "completed"}
    BY <2>1, AfterFacts DEF Run
  <2>3. CASE status' # status
    <3>1. CanTransition(status, wk[w].pc) /\ status' = wk[w].pc
      BY <1>1, <2>3 DEF Transition
    <3>2. status \in {"submitted", "running", "indexing"} \cup Unsent
      BY <2>2, <3>1 DEF CanTransition, Unsent, JobTypes, Statuses, Terminal
    <3>3. CASE wk[w].pc \in Over
      BY <1>1, <3>1, <3>2, <3>3 DEF Transition
    <3>4. CASE wk[w].pc \notin Over
      <4>1. status \in {"submitted", "running", "indexing"}
        BY <2>1, <3>1, <3>4 DEF CanTransition, Over
      <4>2. status' \in {"running", "indexing", "settling"}
        BY <2>1, <3>1, <3>4 DEF Over
      <4> QED
        BY <1>1, <4>1, <4>2 DEF Transition
    <3> QED
      BY <3>3, <3>4
  <2> QED
    BY <2>3
<1>2. CASE FailExhausted(w)
  <2>1. status = "settling" /\ retries >= MaxRetries
    BY <1>2 DEF FailExhausted, Run
  <2> QED
    BY <1>2, <2>1 DEF FailExhausted
<1>3. CASE MarkSettled(w)
  <2>1. status = "settling" /\ retries < MaxRetries /\ Captured
    BY <1>3 DEF MarkSettled, Run
  <2> QED
    BY <1>3, <2>1 DEF MarkSettled
<1>4. CASE ~(Transition(w) \/ FailExhausted(w) \/ MarkSettled(w))
  BY <1>4
     DEF Work, RunDies, Take, Load, RequeueJob, GetProvider, Index, ReleaseTerminal, Capture,
         RecordFailure, Exhaust, AckJob
<1> QED
  BY <1>1, <1>2, <1>3, <1>4

\* How the money moves, and on whose word.
SameEarly == "early" \in gaps' <=> "early" \in gaps

Reserves == ReserveEffect /\ sub.pc = "reserve" /\ SameEarly /\ status' = status /\ retries' = retries

Releases ==
    /\ status' = status /\ retries' = retries /\ ~Replayed
    /\ \E snap \in Snapshots : SnapOk(snap) /\ ReleaseAllowed(snap) /\ ReleaseEffect(snap)
    /\ \/ status \in Over
       \/ status \in Unsent /\ sub.pc = "release" /\ sub'.pc \in {"fail", "end", "relFailed"}
       \/ status = "settling" /\ retries >= MaxRetries

Captures ==
    /\ status' = status /\ retries' = retries
    /\ status = "settling" /\ retries < MaxRetries /\ SameEarly
    /\ Reserved /\ cost <= Hold /\ ~Captured
    /\ \E snap \in Snapshots : SnapOk(snap) /\ snap.held /\ CaptureEffect(snap)

MoneyMoves ==
    (UNCHANGED money /\ SameEarly) \/ Reserves \/ Releases \/ Captures

LEMMA ReleaseMoves ==
    ASSUME JobTypes, NEW snap \in Snapshots, SnapOk(snap), ReleaseOk(snap) \/ ReleaseError(snap),
           status' = status, retries' = retries,
           \/ status \in Over
           \/ status \in Unsent /\ sub.pc = "release" /\ sub'.pc \in {"fail", "end", "relFailed"}
           \/ status = "settling" /\ retries >= MaxRetries
    PROVE  MoneyMoves
<1>1. CASE UNCHANGED <<money, gaps>>
  BY <1>1 DEF MoneyMoves, SameEarly
<1>2. CASE ~Replayed /\ ReleaseAllowed(snap) /\ ReleaseEffect(snap)
  BY <1>2 DEF MoneyMoves, Releases
<1> QED
  BY <1>1, <1>2, ReleaseCases

LEMMA SubmitMoney ==
    ASSUME JobTypes, SubmitInv, Submit \/ SubmitHeartbeat \/ RepeatSubmit \/ SubmitDies
    PROVE  MoneyMoves
<1> USE DEF MoneyMoves, SameEarly, Gap, SubAt
<1>1. CASE ReserveHold
  BY <1>1 DEF ReserveHold, Reserves
<1>2. CASE ReleaseSubmit
  <2>1. SubmitSnap \in Snapshots /\ SnapOk(SubmitSnap)
    BY <1>2, SnapFacts DEF SnapOk, SubmitSnap, ReleaseSubmit, SubmitInv, AfterHold
  <2>2. sub.pc = "release" /\ sub'.pc \in {"fail", "end", "relFailed"}
    BY <1>2, SubmitMoves DEF ReleaseSubmit, JobTypes, SubPcs
  <2>3. status \in Unsent \cup Over
    BY <2>2 DEF SubmitInv, JobTypes, Statuses, Sent, Unsent, Over, Terminal
  <2> QED
    BY <1>2, <2>1, <2>2, <2>3, ReleaseMoves DEF ReleaseSubmit
<1>3. CASE ~(ReserveHold \/ ReleaseSubmit)
  BY <1>3
     DEF Submit, SubmitHeartbeat, RepeatSubmit, SubmitDies, CreateJob, CreateItems, StartUpload,
         ProviderSubmit, RecordSubmit, AbortProviderJob, EnqueueJob, MarkSubmitFailed, HideJob,
         QueueRelease
<1> QED
  BY <1>1, <1>2, <1>3

LEMMA OutsideMoney ==
    ASSUME JobTypes, SnapInv, ClaimInv, Outside PROVE MoneyMoves
<1> USE DEF MoneyMoves, SameEarly, Gap
<1>1. CASE CancelRelease
  <2>1. can.snap \in Snapshots /\ SnapOk(can.snap) /\ status \in Over
    BY <1>1 DEF CancelRelease, JobTypes, SnapInv, ClaimInv
  <2> QED
    BY <1>1, <2>1, ReleaseMoves DEF CancelRelease
<1>2. CASE RecoveryRelease
  <2>1. rec.snap \in Snapshots /\ SnapOk(rec.snap) /\ status \in Over
    BY <1>2 DEF RecoveryRelease, JobTypes, SnapInv, ClaimInv
  <2> QED
    BY <1>2, <2>1, ReleaseMoves DEF RecoveryRelease, RecElse
<1>3. CASE ~(CancelRelease \/ RecoveryRelease)
  BY <1>3
     DEF Outside, LoadCancel, Cancel, CancelDies, CancelProvider, CancelEnqueue, CancelTransition,
         CancelRetry, Recovery, RecoveryDies, ListStale, FailStale, RecoveryRetry, RecElse,
         ProviderEnds, Age
<1> QED
  BY <1>1, <1>2, <1>3

LEMMA WorkMoney ==
    ASSUME JobTypes, SnapInv, NEW w \in Workers, Run(w), Work(w) \/ RunDies(w) PROVE MoneyMoves
<1> USE DEF MoneyMoves, SameEarly, WkElse, WkAt
<1>1. wk[w].snap \in Snapshots /\ SnapOk(wk[w].snap)
  BY DEF JobTypes, SnapInv
<1>2. CASE ReleaseTerminal(w)
  BY <1>1, <1>2, ReleaseMoves DEF ReleaseTerminal, Run
<1>3. CASE Exhaust(w)
  BY <1>1, <1>3, ReleaseMoves DEF Exhaust, Run
<1>4. CASE Capture(w)
  <2>1. status = "settling" /\ retries < MaxRetries /\ wk[w].snap.held
    BY <1>4 DEF Capture, Run
  <2>2. CASE UNCHANGED money
    BY <1>4, <2>2 DEF Capture
  <2>3. CASE ~UNCHANGED money
    <3>1. CaptureAllowed(wk[w].snap) /\ CaptureEffect(wk[w].snap)
      BY <1>4, <2>3 DEF Capture
    <3>2. ~Captured
      BY <2>3, <3>1, CaptureCases
    <3> QED
      BY <1>1, <1>4, <2>1, <3>1, <3>2 DEF Capture, Captures, CaptureAllowed, Captured, Reserved
  <2> QED
    BY <2>2, <2>3
<1>5. CASE ~(ReleaseTerminal(w) \/ Exhaust(w) \/ Capture(w))
  BY <1>5
     DEF Work, RunDies, Take, Load, RequeueJob, GetProvider, Index, Transition, RecordFailure,
         FailExhausted, MarkSettled, AckJob
<1> QED
  BY <1>2, <1>3, <1>4, <1>5

Running == \A w \in Workers : Run(w)

LEMMA MoneyStep ==
    ASSUME JobTypes, SubmitInv, ClaimInv, SnapInv, Running, [JobNext]_jobVars PROVE MoneyMoves
<1>1. CASE UNCHANGED jobVars
  BY <1>1 DEF jobVars, MoneyMoves, SameEarly
<1> QED
  BY <1>1, SubmitMoney, OutsideMoney, WorkMoney DEF JobNext, Outside, Running

-----------------------------------------------------------------------------
(* The hold: what a snapshot says                                          *)

\* A process keeps its snapshot, drops it or takes the row as it is.
KeepsSnap(old, new) == new = old \/ new = Blank \/ new = Loaded

LEMMA SnapSources ==
    ASSUME JobTypes, [JobNext]_jobVars
    PROVE  /\ KeepsSnap(can.snap, can'.snap)
           /\ KeepsSnap(rec.snap, rec'.snap)
           /\ \A w \in Workers : KeepsSnap(wk[w].snap, wk'[w].snap)
<1> USE DEF procs, row, KeepsSnap
<1>1. CASE Submit \/ SubmitHeartbeat \/ RepeatSubmit \/ SubmitDies \/ ProviderEnds \/ Age \/ UNCHANGED jobVars
  <2>1. can' = can /\ wk' = wk
    BY <1>1
       DEF jobVars, Submit, SubmitHeartbeat, RepeatSubmit, SubmitDies, CreateJob, ReserveHold,
           CreateItems, StartUpload, ProviderSubmit, RecordSubmit, AbortProviderJob, EnqueueJob,
           ReleaseSubmit, MarkSubmitFailed, HideJob, QueueRelease, ProviderEnds, Age
  <2>2. Touch \/ Quiet \/ rec' = rec
    BY <1>1
       DEF jobVars, Submit, SubmitHeartbeat, RepeatSubmit, SubmitDies, CreateJob, ReserveHold,
           CreateItems, StartUpload, ProviderSubmit, RecordSubmit, AbortProviderJob, EnqueueJob,
           ReleaseSubmit, MarkSubmitFailed, HideJob, QueueRelease, ProviderEnds, Age
  <2> QED
    BY <2>1, <2>2, RowFacts
<1>2. CASE LoadCancel \/ Cancel \/ CancelDies
  <2>1. wk' = wk /\ (Touch \/ Quiet)
    BY <1>2 DEF LoadCancel, Cancel, CancelDies, CancelProvider, CancelEnqueue, CancelTransition,
       CancelRelease, CancelRetry
  <2>2. KeepsSnap(can.snap, can'.snap)
    BY <1>2, CancelMoves DEF LoadCancel, Cancel, CancelDies, CancelProvider, CancelEnqueue,
       CancelTransition, CancelRelease, CancelRetry
  <2> QED
    BY <2>1, <2>2, RowFacts
<1>3. CASE Recovery \/ RecoveryDies
  BY <1>3, RecoveryMoves
     DEF Recovery, RecoveryDies, ListStale, FailStale, RecoveryRelease, RecoveryRetry, RecElse
<1>4. ASSUME NEW w \in Workers, Work(w) \/ RunDies(w)
      PROVE  /\ can' = can /\ (Touch \/ Quiet)
             /\ \A v \in Workers : KeepsSnap(wk[v].snap, wk'[v].snap)
  <2>1. can' = can /\ (Touch \/ Quiet)
    BY <1>4 DEF Work, RunDies, Take, Load, RequeueJob, GetProvider, Transition, Index,
       ReleaseTerminal, Capture, RecordFailure, Exhaust, FailExhausted, MarkSettled, AckJob, WkElse
  <2>2. CASE Load(w)
    BY <2>1, <2>2 DEF Load, JobTypes
  <2>3. CASE Transition(w)
    BY <2>1, <2>3, AfterFacts, RunMoves DEF Transition, WorkerPcs
  <2>4. CASE \/ Take(w) \/ RunDies(w) \/ RequeueJob(w) \/ GetProvider(w) \/ Index(w)
             \/ ReleaseTerminal(w) \/ AckJob(w)
    BY <2>1, <2>4, RunMoves
       DEF Take, RunDies, RequeueJob, GetProvider, Index, ReleaseTerminal, AckJob, WorkerPcs
  <2>5. CASE Capture(w) \/ RecordFailure(w) \/ Exhaust(w) \/ FailExhausted(w) \/ MarkSettled(w)
    BY <2>1, <2>5, RunMoves DEF Capture, RecordFailure, Exhaust, FailExhausted, MarkSettled, WorkerPcs
  <2> QED
    BY <1>4, <2>1, <2>2, <2>3, <2>4, <2>5 DEF Work
<1> QED
  BY <1>1, <1>2, <1>3, <1>4, RowFacts DEF JobNext

LEMMA SnapStep ==
    ASSUME JobTypes, SubmitInv, ClaimInv, SnapInv, Running, [JobNext]_jobVars PROVE SnapInv'
<1>1. claims \subseteq claims'
  BY Grows DEF Grow
<1>2. Blank \in Snapshots /\ Loaded \in Snapshots /\ can.snap \in Snapshots /\ rec.snap \in Snapshots
      /\ \A w \in Workers : wk[w].snap \in Snapshots
  BY SnapFacts DEF JobTypes
<1>3. SnapOk(Blank)
  BY DEF SnapOk, Blank
<1>4. ASSUME NEW snap \in {can.snap, rec.snap, Blank, Loaded} \cup {wk[w].snap : w \in Workers}
      PROVE  snap \in Snapshots /\ SnapOk(snap)
  BY <1>2, <1>3 DEF SnapInv
<1>5. \A snap \in Snapshots : SnapOk(snap) =>
        (snap.held => "hold" \in claims') /\ (snap.reserved => snap.held)
        /\ (snap.held /\ ~snap.reserved =>
              "capture" \in claims' \/ ("hold" \in claims' /\ "release" \in claims'))
  BY <1>1 DEF Snapshots, SnapOk, Captured, Released, Reserved
<1>6. SnapOk(can.snap)' /\ SnapOk(rec.snap)' /\ (\A w \in Workers : SnapOk(wk[w].snap))'
  BY <1>4, <1>5, SnapSources DEF KeepsSnap, SnapOk, Captured, Released, Reserved
<1>7. SnapOk(Loaded)'
  <2> SUFFICES (reserved' => "hold" \in claims')
               /\ ("hold" \in claims' /\ ~reserved' => "capture" \in claims' \/ "release" \in claims')
    BY DEF SnapOk, Loaded, Captured, Released, Reserved
  <2>1. (reserved => "hold" \in claims)
        /\ ("hold" \in claims /\ ~reserved => "capture" \in claims \/ "release" \in claims)
    BY DEF SnapInv, SnapOk, Loaded, Captured, Released, Reserved
  <2>2. CASE UNCHANGED money
    BY <2>1, <2>2 DEF money
  <2>3. CASE Reserves
    BY <2>3 DEF Reserves, ReserveEffect
  <2>4. CASE Releases
    BY <2>4 DEF Releases, ReleaseEffect, Replayed
  <2>5. CASE Captures
    BY <2>5 DEF Captures, CaptureEffect, Captured
  <2> QED
    BY <2>2, <2>3, <2>4, <2>5, MoneyStep DEF MoneyMoves
<1> QED
  BY <1>6, <1>7 DEF SnapInv

-----------------------------------------------------------------------------
(* The hold: the claims and the status                                     *)

\* Where Submit goes once it has given the job up.
GivingUp == {"fail", "hide", "end", "relFailed", "relQueue"}

LEMMA GivenUp ==
    ASSUME JobTypes, [JobNext]_jobVars, sub.pc \in GivingUp
    PROVE  sub'.pc \in GivingUp
<1> USE DEF GivingUp, procs
<1>1. CASE Submit
  BY <1>1, SubmitMoves
     DEF Submit, CreateJob, ReserveHold, CreateItems, StartUpload, ProviderSubmit, RecordSubmit,
         AbortProviderJob, EnqueueJob, ReleaseSubmit, MarkSubmitFailed, HideJob, QueueRelease, SubAt,
         SubPcs
<1>2. CASE SubmitDies
  BY <1>2, SubmitMoves DEF SubmitDies, SubPcs
<1>3. CASE SubmitHeartbeat \/ RepeatSubmit \/ UNCHANGED jobVars
  BY <1>3 DEF SubmitHeartbeat, RepeatSubmit, jobVars
<1>4. CASE Outside \/ \E w \in Workers : Work(w) \/ RunDies(w)
  BY <1>4, OutsideRow, WorkRow DEF RowMoves
<1> QED
  BY <1>1, <1>2, <1>3, <1>4 DEF JobNext, Outside

StatusMoves == AsideStatus \/ WorkStatus

LEMMA StatusStep ==
    ASSUME JobTypes, SubmitInv, Running, [JobNext]_jobVars PROVE StatusMoves
<1>1. CASE UNCHANGED jobVars
  BY <1>1 DEF jobVars, row, StatusMoves, AsideStatus
<1> QED
  BY <1>1, AsideMoves, WorkMoves DEF JobNext, Aside, Outside, StatusMoves, Running

\* A job that is over stays over, as failed if it failed.
LEMMA OverStays ==
    ASSUME StatusMoves, status \in Over
    PROVE  status' \in Over /\ (status = "failed" => status' = "failed")
BY DEF StatusMoves, AsideStatus, WorkStatus, Over, Unsent

\* Cancel and the recovery release only what is over.
LEMMA ReturnersStep ==
    ASSUME JobTypes, ClaimInv, StatusMoves, [JobNext]_jobVars
    PROVE  can'.pc \in {"release", "retry"} \/ rec'.pc \in {"release", "retry"} => status' \in Over
<1> USE DEF procs, row
<1>1. can.pc \in {"release", "retry"} \/ rec.pc \in {"release", "retry"} => status' \in Over
  BY OverStays DEF ClaimInv
<1>2. CASE LoadCancel
  BY <1>1, <1>2, RowFacts DEF LoadCancel, Over
<1>3. CASE CancelTransition
  BY <1>1, <1>3, CancelMoves, RowFacts DEF CancelTransition, Over
<1>4. CASE CancelProvider \/ CancelEnqueue \/ CancelRelease \/ CancelRetry \/ CancelDies
  BY <1>1, <1>4, CancelMoves, RowFacts
     DEF CancelProvider, CancelEnqueue, CancelRelease, CancelRetry, CancelDies
<1>5. CASE ListStale
  BY <1>1, <1>5 DEF ListStale, RecElse
<1>6. CASE FailStale
  BY <1>1, <1>6, RecoveryMoves DEF FailStale, RecElse, Over
<1>7. CASE RecoveryRelease \/ RecoveryRetry \/ RecoveryDies
  BY <1>1, <1>7, RecoveryMoves DEF RecoveryRelease, RecoveryRetry, RecoveryDies, RecElse
<1>8. CASE \/ Submit \/ SubmitHeartbeat \/ RepeatSubmit \/ SubmitDies \/ ProviderEnds \/ Age
           \/ UNCHANGED jobVars \/ \E w \in Workers : Work(w) \/ RunDies(w)
  <2>1. can' = can
    BY <1>8
       DEF jobVars, Submit, SubmitHeartbeat, RepeatSubmit, SubmitDies, CreateJob, ReserveHold,
           CreateItems, StartUpload, ProviderSubmit, RecordSubmit, AbortProviderJob, EnqueueJob,
           ReleaseSubmit, MarkSubmitFailed, HideJob, QueueRelease, ProviderEnds, Age,
           Work, RunDies, Take, Load, RequeueJob, GetProvider, Transition, Index, ReleaseTerminal,
           Capture, RecordFailure, Exhaust, FailExhausted, MarkSettled, AckJob, WkElse
  <2>2. Touch \/ Quiet \/ rec' = rec
    BY <1>8
       DEF jobVars, Submit, SubmitHeartbeat, RepeatSubmit, SubmitDies, CreateJob, ReserveHold,
           CreateItems, StartUpload, ProviderSubmit, RecordSubmit, AbortProviderJob, EnqueueJob,
           ReleaseSubmit, MarkSubmitFailed, HideJob, QueueRelease, ProviderEnds, Age,
           Work, RunDies, Take, Load, RequeueJob, GetProvider, Transition, Index, ReleaseTerminal,
           Capture, RecordFailure, Exhaust, FailExhausted, MarkSettled, AckJob, WkElse
  <2> QED
    BY <1>1, <2>1, <2>2, RowFacts
<1> QED
  BY <1>2, <1>3, <1>4, <1>5, <1>6, <1>7, <1>8 DEF JobNext, Cancel, Recovery

\* Failed attempts are counted, never forgotten.
LEMMA RetriesStep ==
    ASSUME JobTypes, [JobNext]_jobVars PROVE retries' \in Nat /\ retries' >= retries
<1> USE DEF JobTypes
<1>1. CASE Aside \/ UNCHANGED jobVars
  BY <1>1, AsideRuns DEF jobVars, row
<1>2. ASSUME NEW w \in Workers, Work(w) \/ RunDies(w) PROVE retries' \in Nat /\ retries' >= retries
  BY <1>2
     DEF Work, RunDies, Take, Load, RequeueJob, GetProvider, Transition, Index, ReleaseTerminal,
         Capture, RecordFailure, Exhaust, FailExhausted, MarkSettled, AckJob
<1> QED
  BY <1>1, <1>2 DEF JobNext, Aside, Outside

LEMMA ClaimStep ==
    ASSUME JobTypes, SubmitInv, ClaimInv, SnapInv, CountInv, Running, [JobNext]_jobVars
    PROVE  ClaimInv'
<1>1. MoneyMoves /\ StatusMoves /\ Grow
  BY MoneyStep, StatusStep, Grows
<1>2. status \in Statuses /\ retries \in Nat /\ faults \in Nat /\ faults' \in Nat /\ MaxRetries \in Nat
  BY JobConstants, JobNextTypes DEF JobTypes
<1>3. retries' \in Nat /\ retries' >= retries
  BY RetriesStep
<1>4. Captured => cost <= Hold /\ (status = "settling" \/ status = "completed" \/ status = "failed")
  BY DEF ClaimInv
<1>5. Captured /\ retries >= MaxRetries => faults >= MaxRetries
  BY <1>2, <1>4 DEF CountInv
<1>6. ("release" \in claims => \/ status \in Over
                               \/ status \in Unsent /\ sub.pc \in GivingUp
                               \/ status = "settling" /\ retries >= MaxRetries)'
  <2>1. CASE "release" \in claims /\ status' = status
    BY <1>2, <1>3, <2>1, GivenUp, OverStays DEF ClaimInv, GivingUp
  <2>2. CASE "release" \in claims /\ status' # status
    BY <1>1, <1>2, <2>2, GivenUp
       DEF ClaimInv, StatusMoves, AsideStatus, WorkStatus, Over, Unsent, GivingUp, Quietly
  <2>3. CASE "release" \notin claims /\ "release" \in claims'
    <3>1. Releases
      BY <1>1, <2>3
         DEF MoneyMoves, money, Reserves, ReserveEffect, Captures, CaptureEffect
    <3> QED
      BY <3>1 DEF Releases, GivingUp
  <2> QED
    BY <2>1, <2>2, <2>3
<1>7. ("early" \in gaps => "release" \in claims)'
      /\ ("release" \in claims /\ "early" \notin gaps => "hold" \in claims)'
  <2>1. CASE UNCHANGED money /\ SameEarly
    BY <2>1 DEF ClaimInv, money, SameEarly
  <2>2. CASE Reserves
    BY <2>2 DEF Reserves, ReserveEffect, ClaimInv, SameEarly
  <2>3. CASE Releases
    <3>1. PICK snap \in Snapshots : SnapOk(snap) /\ ReleaseEffect(snap)
      BY <2>3 DEF Releases
    <3> QED
      BY <2>3, <3>1 DEF Releases, ReleaseEffect, SnapOk, Replayed
  <2>4. CASE Captures
    BY <2>4 DEF Captures, CaptureEffect, ClaimInv, SameEarly
  <2> QED
    BY <1>1, <2>1, <2>2, <2>3, <2>4 DEF MoneyMoves
<1>8. (Captured => /\ Reserved /\ cost <= Hold
                   /\ \/ status \in {"settling", "completed"}
                      \/ status = "failed" /\ faults >= MaxRetries)'
  <2>1. CASE Captured
    <3>1. Reserved' /\ cost' <= Hold /\ faults' >= faults
      BY <1>1, <2>1 DEF ClaimInv, Grow, Reserved
    <3>2. \/ status' \in {"settling", "completed"}
          \/ status' = "failed" /\ faults' >= MaxRetries
      <4>1. CASE status \in {"settling", "completed"}
        BY <1>1, <1>2, <1>5, <2>1, <3>1, <4>1
           DEF StatusMoves, AsideStatus, WorkStatus, Over, Unsent
      <4>2. CASE status = "failed"
        BY <1>1, <1>2, <2>1, <3>1, <4>2, OverStays DEF ClaimInv, Over
      <4> QED
        BY <1>4, <2>1, <4>1, <4>2
    <3> QED
      BY <3>1, <3>2
  <2>2. CASE ~Captured /\ Captured'
    <3>1. Captures
      BY <1>1, <2>2
         DEF MoneyMoves, money, Reserves, ReserveEffect, Releases, ReleaseEffect, Captured
    <3> QED
      BY <1>1, <3>1 DEF Captures, Grow, Reserved
  <2> QED
    BY <2>1, <2>2
<1>9. (status = "completed" => Captured)'
  BY <1>1 DEF StatusMoves, AsideStatus, WorkStatus, Grow, Captured, ClaimInv, Over
<1>10. (Captured /\ Released => faults >= MaxRetries)'
  <2>2. CASE Reserves
    BY <2>2 DEF Reserves, ReserveEffect, SubmitInv, ClaimInv, Captured, Reserved
  <2>3. CASE Releases
    <3>1. Captured' => Captured
      BY <2>3 DEF Releases, ReleaseEffect, Captured
    <3>2. Captured => faults >= MaxRetries
      BY <1>2, <1>4, <1>5, <2>3 DEF Releases, ClaimInv, Over, Unsent
    <3> QED
      BY <1>1, <1>2, <3>1, <3>2 DEF Grow
  <2>4. CASE Captures
    <3>1. ~Released'
      BY <1>2, <2>4 DEF Captures, CaptureEffect, Released, Reserved, ClaimInv, Over, Unsent
    <3> QED
      BY <3>1
  <2>5. CASE UNCHANGED money
    BY <1>1, <1>2, <2>5 DEF money, Captured, Released, Reserved, ClaimInv, Grow
  <2> QED
    BY <1>1, <2>2, <2>3, <2>4, <2>5 DEF MoneyMoves
<1>11. (can.pc \in {"release", "retry"} => status \in Over)'
       /\ (rec.pc \in {"release", "retry"} => status \in Over)'
  BY <1>1, ReturnersStep
<1> QED
  BY <1>6, <1>7, <1>8, <1>9, <1>10, <1>11 DEF ClaimInv, GivingUp

-----------------------------------------------------------------------------
(* The hold: the run of a worker                                           *)

LEMMA NextForFacts ==
    /\ NextFor \in {"exhaust", "capture", "release", "ack", "index", "requeue", "get"}
    /\ NextFor \in {"exhaust", "capture"} => status = "settling"
    /\ NextFor = "exhaust" => retries >= MaxRetries
    /\ NextFor = "capture" => ~(retries >= MaxRetries)
    /\ NextFor = "release" => status \in {"failed", "cancelled"}
    /\ NextFor = "ack" => status = "completed"
    /\ NextFor = "index" => status = "indexing"
    /\ NextFor = "get" => status \notin {"settling", "completed", "failed", "cancelled"}
BY DEF NextFor

\* The other processes do not make a job dequeued or settled.
LEMMA AsideQueue ==
    ASSUME Aside PROVE queued' = queued \/ queued' = TRUE
BY DEF Aside, Outside, Submit, SubmitHeartbeat, RepeatSubmit, SubmitDies, CreateJob, ReserveHold,
       CreateItems, StartUpload, ProviderSubmit, RecordSubmit, AbortProviderJob, EnqueueJob,
       ReleaseSubmit, MarkSubmitFailed, HideJob, QueueRelease, LoadCancel, Cancel, CancelDies,
       CancelProvider, CancelEnqueue, CancelTransition, CancelRelease, CancelRetry, Recovery,
       RecoveryDies, ListStale, FailStale, RecoveryRelease, RecoveryRetry, RecElse, ProviderEnds, Age

LEMMA RunAside ==
    ASSUME JobTypes, SubmitInv, NEW w \in Workers, Run(w), Aside PROVE Run(w)'
<1>1. wk' = wk /\ retries' = retries /\ (queued => queued')
  <2>1. queued' = queued \/ queued' = TRUE
    BY AsideQueue
  <2>2. queued \in BOOLEAN
    BY DEF JobTypes
  <2> QED
    BY <2>1, <2>2, AsideRuns
<1>2. claims \subseteq claims'
  BY Grows DEF Grow, JobNext, Aside, Outside
<1>3. AsideStatus
  BY AsideMoves
<1>4. (status = "settling" => status' = "settling") /\ (status \in Over => status' \in Over)
      /\ (status \notin {"settling", "completed"} => status' \notin {"settling", "completed"})
  BY <1>3 DEF AsideStatus, Over, Unsent
<1>5. status \in Terminal => status' \in Terminal
  BY <1>3 DEF AsideStatus, Over, Unsent, Terminal
<1> QED
  BY <1>1, <1>2, <1>4, <1>5 DEF Run, WkAt, Captured, Released, Reserved

LEMMA RunOwn ==
    ASSUME JobTypes, SubmitInv, ClaimInv, SnapInv, NEW w \in Workers, Run(w), Work(w) \/ RunDies(w)
    PROVE  Run(w)'
<1> USE DEF WkAt, WkElse, Captured, Released, Reserved
<1>1. ASSUME NEW pc \in {"idle", "load", "requeue"}, wk'[w].pc = pc, pc # "idle" => queued'
      PROVE  Run(w)'
  BY <1>1, AfterFacts DEF Run
<1>2. ~WkAt(w, "idle") => queued
  BY DEF Run
<1>3. retries \in Nat /\ MaxRetries \in Nat
  BY JobConstants DEF JobTypes
<1>4. CASE Take(w)
  <2>1. wk'[w].pc = "load" /\ queued'
    BY <1>4, RunMoves DEF Take, WorkerPcs
  <2> QED
    BY <1>1, <2>1
<1>5. CASE RequeueJob(w) \/ AckJob(w) \/ RunDies(w)
  <2>1. wk'[w].pc = "idle"
    BY <1>5, RunMoves DEF RequeueJob, AckJob, RunDies
  <2> QED
    BY <1>1, <2>1
<1>6. CASE Load(w)
  <2>1. /\ wk'[w].pc = NextFor /\ ("hold" \in claims => wk'[w].snap.held)
        /\ queued' /\ status' = status /\ retries' = retries /\ claims' = claims
    BY <1>2, <1>6 DEF Load, JobTypes, Loaded, money
  <2>2. status = "settling" => "hold" \in claims
    BY DEF SubmitInv, Sent
  <2>3. status = "completed" => "capture" \in claims
    BY DEF ClaimInv
  <2>4. CASE NextFor \in {"exhaust", "capture"}
    <3>1. status = "settling" /\ wk'[w].snap.held
      BY <2>1, <2>2, <2>4, NextForFacts
    <3>2. (NextFor = "exhaust" => retries >= MaxRetries) /\ (NextFor = "capture" => retries < MaxRetries)
      BY <1>3, NextForFacts
    <3> QED
      BY <2>1, <2>4, <3>1, <3>2, AfterFacts DEF Run
  <2>5. CASE NextFor \in {"release", "ack"}
    BY <2>1, <2>3, <2>5, NextForFacts, AfterFacts DEF Run, Over, Terminal
  <2>6. CASE NextFor \in {"index", "get", "requeue"}
    <3>1. NextFor \in {"index", "get"} => status \notin {"settling", "completed"}
      BY NextForFacts
    <3> QED
      BY <2>1, <2>6, <3>1, AfterFacts DEF Run
  <2> QED
    BY <2>4, <2>5, <2>6, NextForFacts
<1>7. CASE GetProvider(w)
  <2>1. wk'[w].pc \in {"requeue", "indexing", "failed", "cancelled", "running"}
    BY <1>7, RunMoves DEF GetProvider, WorkerPcs
  <2>2. queued' /\ status' = status /\ status \notin {"settling", "completed"}
    BY <1>2, <1>7 DEF GetProvider, Run
  <2> QED
    BY <2>1, <2>2 DEF Run
<1>8. CASE Transition(w)
  <2>1. wk[w].pc \in DOMAIN After /\ queued' /\ status \notin {"settling", "completed"}
    BY <1>2, <1>8, AfterFacts DEF Transition, Run
  <2>2. CASE wk'[w].pc = "requeue"
    BY <1>1, <2>1, <2>2
  <2>3. CASE wk'[w].pc # "requeue"
    <3>1. status' = wk[w].pc /\ wk'[w].pc = After[wk[w].pc]
      BY <1>8, <2>1, <2>3, RunMoves, AfterFacts DEF Transition, WorkerPcs
    <3> QED
      BY <2>1, <2>3, <3>1, AfterFacts DEF Run, Over
  <2> QED
    BY <2>2, <2>3
<1>9. CASE Index(w)
  <2>1. wk'[w].pc \in {"requeue", "settling", "failed"}
    BY <1>9, RunMoves DEF Index, WorkerPcs
  <2>2. queued' /\ status' = status /\ status \notin {"settling", "completed"}
    BY <1>2, <1>9 DEF Index, Run
  <2> QED
    BY <2>1, <2>2 DEF Run
<1>10. CASE ReleaseTerminal(w)
  <2>1. queued' /\ status' = status /\ status \in Over
    BY <1>2, <1>10 DEF ReleaseTerminal, Run
  <2>2. wk'[w].pc = "requeue" \/ (wk'[w].pc = "ack" /\ "release" \in claims')
    BY <1>10, RunMoves, ReleaseCases DEF ReleaseTerminal, WorkerPcs
  <2> QED
    BY <2>1, <2>2, AfterFacts DEF Run, Over, Terminal
<1>11. CASE Capture(w)
  <2>1. queued' /\ status' = status /\ status = "settling" /\ retries' = retries
        /\ retries < MaxRetries /\ wk[w].snap.held
    BY <1>2, <1>11 DEF Capture, Run
  <2>2. /\ wk'[w].snap = wk[w].snap
        /\ wk'[w].pc = "record" \/ (wk'[w].pc = "settle" /\ "capture" \in claims')
    BY <1>11, RunMoves, CaptureCases DEF Capture, WorkerPcs
  <2> QED
    BY <2>1, <2>2, AfterFacts DEF Run
<1>12. CASE RecordFailure(w)
  <2>1. queued' /\ status' = status /\ status = "settling" /\ wk[w].snap.held
    BY <1>2, <1>12 DEF RecordFailure, Run
  <2>2. /\ wk'[w].snap = wk[w].snap
        /\ wk'[w].pc = "requeue" \/ (wk'[w].pc = "exhaust" /\ retries' >= MaxRetries)
    BY <1>12, RunMoves DEF RecordFailure, WorkerPcs
  <2> QED
    BY <2>1, <2>2, AfterFacts DEF Run
<1>13. CASE Exhaust(w)
  <2>1. queued' /\ status' = status /\ status = "settling" /\ wk[w].snap.held
        /\ retries' = retries /\ retries >= MaxRetries
    BY <1>2, <1>13 DEF Exhaust, Run
  <2>2. "hold" \in claims
    BY <2>1 DEF SnapInv, SnapOk
  <2>3. /\ wk'[w].snap = wk[w].snap
        /\ wk'[w].pc = "requeue"
           \/ (wk'[w].pc = "exhausted" /\ "release" \in claims' /\ "hold" \in claims')
    BY <1>13, <2>2, RunMoves, ReleaseCases DEF Exhaust, WorkerPcs
  <2> QED
    BY <2>1, <2>3, AfterFacts DEF Run
<1>14. CASE FailExhausted(w)
  <2>1. queued' /\ "release" \in claims'
    BY <1>2, <1>14 DEF FailExhausted, Run, money
  <2>2. wk'[w].pc = "requeue" \/ (wk'[w].pc = "ack" /\ status' = "failed")
    BY <1>14, RunMoves DEF FailExhausted, WorkerPcs
  <2> QED
    BY <2>1, <2>2, AfterFacts DEF Run, Terminal
<1>15. CASE MarkSettled(w)
  <2>1. queued' /\ "capture" \in claims'
    BY <1>2, <1>15 DEF MarkSettled, Run, money
  <2>2. wk'[w].pc = "requeue" \/ (wk'[w].pc = "ack" /\ status' = "completed")
    BY <1>15, RunMoves DEF MarkSettled, WorkerPcs
  <2> QED
    BY <2>1, <2>2, AfterFacts DEF Run, Terminal
<1> QED
  BY <1>4, <1>5, <1>6, <1>7, <1>8, <1>9, <1>10, <1>11, <1>12, <1>13, <1>14, <1>15 DEF Work

\* One run at a time: the others are idle and stay so.
LEMMA RunStep ==
    ASSUME LockKept, JobTypes, OneRun, SubmitInv, ClaimInv, SnapInv, Running, [JobNext]_jobVars
    PROVE  Running'
<1> SUFFICES ASSUME NEW w \in Workers PROVE Run(w)'
  BY DEF Running
<1>0. Run(w)
  BY DEF Running
<1>1. CASE UNCHANGED jobVars
  BY <1>0, <1>1
     DEF jobVars, row, money, procs, Run, WkAt, Captured, Released, Reserved
<1>2. CASE Aside
  BY <1>0, <1>2, RunAside
<1>3. ASSUME NEW v \in Workers, Work(v) \/ RunDies(v) PROVE Run(w)'
  <2>1. CASE v = w
    BY <1>0, <1>3, <2>1, RunOwn
  <2>2. CASE v # w
    <3>1. wk'[w].pc = "idle"
      BY <1>3, <2>2, WorkAlone DEF WkAt
    <3> QED
      BY <3>1, AfterFacts DEF Run, WkAt
  <2> QED
    BY <2>1, <2>2
<1> QED
  BY <1>1, <1>2, <1>3 DEF JobNext, Aside, Outside

-----------------------------------------------------------------------------
(* The hold: the counters                                                  *)

\* FundsAddUp without its table.
LEMMA FundsCases ==
    FundsAddUp <=>
      ("early" \notin gaps /\ ~(Captured /\ Released) =>
        /\ Captured =>
             /\ balance = start - (cost - OnlyKept) /\ frozen = OtherFrozen
             /\ subUsed = OnlyKept /\ quota = cost
        /\ ~Captured /\ Outstanding =>
             /\ balance = start - BalPart /\ frozen = OtherFrozen + BalPart
             /\ subUsed = SubPart /\ quota = Hold
        /\ ~Captured /\ ~Outstanding =>
             /\ balance = start /\ frozen = OtherFrozen /\ subUsed = 0 /\ quota = 0)
<1>1. CASE Captured
  BY <1>1 DEF FundsAddUp, Outstanding
<1>2. CASE ~Captured /\ Outstanding
  BY <1>2 DEF FundsAddUp
<1>3. CASE ~Captured /\ ~Outstanding
  BY <1>3 DEF FundsAddUp
<1> QED
  BY <1>1, <1>2, <1>3

LEMMA FundsStep ==
    ASSUME JobTypes, SubmitInv, ClaimInv, SnapInv, Running, FundsAddUp, [JobNext]_jobVars
    PROVE  FundsAddUp'
<1> USE DEF Captured, Released, Reserved, Outstanding, OnlyKept
<1>1. MoneyMoves /\ cost' = cost /\ start' = start
  BY MoneyStep, Grows DEF Grow
<1>2. /\ Hold \in Nat /\ SubPart \in Nat /\ SubPart <= Hold /\ OtherFrozen \in Nat
      /\ BalPart = Hold - SubPart
  BY JobConstants DEF BalPart
<1>3. /\ cost \in Nat /\ start \in Nat
      /\ balance \in Int /\ frozen \in Int /\ subUsed \in Int /\ quota \in Int
  BY JobConstants DEF JobTypes
<1>4. CASE UNCHANGED money /\ SameEarly
  BY <1>1, <1>4, FundsCases DEF money, SameEarly, FundsAddUp
<1>5. CASE Reserves
  <2>1. "hold" \notin claims /\ "capture" \notin claims
    BY <1>5 DEF Reserves, SubmitInv, ClaimInv
  <2>2. "early" \notin gaps => "release" \notin claims
    BY <2>1 DEF ClaimInv
  <2>3. "early" \notin gaps => balance = start /\ frozen = OtherFrozen /\ subUsed = 0 /\ quota = 0
    BY <2>1, <2>2, FundsCases
  <2> QED
    BY <1>1, <1>2, <1>3, <1>5, <2>1, <2>2, <2>3 DEF Reserves, ReserveEffect, SameEarly, FundsAddUp
<1>6. CASE Releases
  <2>1. PICK snap \in Snapshots : SnapOk(snap) /\ ReleaseEffect(snap)
    BY <1>6 DEF Releases
  <2>2. "early" \notin gaps' => snap.held /\ "early" \notin gaps
    BY <1>6, <2>1 DEF Releases, ReleaseEffect
  <2>3. "release" \notin claims /\ claims' = claims \cup {"release"}
    BY <1>6, <2>1 DEF Releases, ReleaseEffect, Replayed
  <2>4. CASE "early" \notin gaps' /\ "capture" \notin claims
    <3>1. snap.held /\ snap.reserved /\ "hold" \in claims
      BY <2>1, <2>2, <2>3, <2>4 DEF SnapOk, Snapshots
    <3>2. /\ balance = start - BalPart /\ frozen = OtherFrozen + BalPart
          /\ subUsed = SubPart /\ quota = Hold
      BY <2>2, <2>3, <2>4, <3>1, FundsCases
    <3>3. /\ balance' = balance + BalPart /\ frozen' = frozen - BalPart
          /\ subUsed' = subUsed - SubPart /\ quota' = quota - Hold
      BY <2>1, <2>3, <3>1 DEF ReleaseEffect, Replayed, NothingHeld, BalanceOf, UsageOf
    <3>4. balance' = start /\ frozen' = OtherFrozen /\ subUsed' = 0 /\ quota' = 0
      BY <1>2, <1>3, <3>2, <3>3
    <3> QED
      BY <1>1, <2>3, <2>4, <3>1, <3>4 DEF FundsAddUp
  <2>5. CASE "early" \in gaps' \/ "capture" \in claims
    <3>1. "capture" \in claims /\ "early" \notin gaps' => "hold" \in claims
      BY DEF ClaimInv
    <3> QED
      BY <2>3, <2>5, <3>1 DEF FundsAddUp
  <2> QED
    BY <2>4, <2>5
<1>7. CASE Captures
  <2>1. PICK snap \in Snapshots : SnapOk(snap) /\ snap.held /\ CaptureEffect(snap)
    BY <1>7 DEF Captures
  <2>2. /\ "hold" \in claims /\ "capture" \notin claims /\ claims' = claims \cup {"capture"}
    BY <1>7, <2>1 DEF Captures, CaptureEffect
  <2>3. CASE "early" \notin gaps /\ "release" \notin claims
    <3>1. snap.reserved
      BY <2>1, <2>2, <2>3 DEF SnapOk, Snapshots
    <3>2. /\ balance = start - BalPart /\ frozen = OtherFrozen + BalPart
          /\ subUsed = SubPart /\ quota = Hold
      BY <2>2, <2>3, FundsCases
    <3>3. /\ balance' = balance + BalPart - (cost - OnlyKept) /\ frozen' = frozen - BalPart
          /\ subUsed' = subUsed - (SubPart - OnlyKept) /\ quota' = quota - (Hold - cost)
      BY <2>1, <2>2, <3>1
         DEF CaptureEffect, BalanceOf, UsageOf, KeptUsage, KeptBalance, OnlyKept
    <3>4. OnlyKept \in Int /\ BalPart \in Int
      BY <1>2, <1>3
    <3>5. /\ balance' = start - (cost - OnlyKept) /\ frozen' = OtherFrozen
          /\ subUsed' = OnlyKept /\ quota' = cost
      BY <1>2, <1>3, <3>2, <3>3, <3>4
    <3> QED
      BY <1>1, <2>2, <3>5 DEF FundsAddUp
  <2>4. CASE "early" \in gaps \/ "release" \in claims
    BY <1>7, <2>2, <2>4 DEF FundsAddUp, Captures, SameEarly
  <2> QED
    BY <2>3, <2>4
<1> QED
  BY <1>1, <1>4, <1>5, <1>6, <1>7 DEF MoneyMoves

\* An attempt to settle a job within its hold is only lost to a fault: the other
\* jobs of the user never leave too little frozen for the capture.
LEMMA CountStep ==
    ASSUME JobTypes, SubmitInv, ClaimInv, SnapInv, Running, CountInv, FundsAddUp, OneRun, LockKept,
           [JobNext]_jobVars
    PROVE  CountInv'
<1>1. retries \in Nat /\ faults \in Nat /\ faults' \in Nat /\ faults' >= faults /\ cost' = cost
      /\ MaxRetries \in Nat
  BY JobConstants, JobNextTypes, Grows DEF JobTypes, Grow
<1>2. CASE Aside \/ UNCHANGED jobVars
  <2>1. wk' = wk /\ retries' = retries
    BY <1>2, AsideRuns DEF jobVars, procs, row
  <2> QED
    BY <1>1, <2>1 DEF CountInv, WkAt
<1>3. ASSUME NEW w \in Workers, Work(w) \/ RunDies(w) PROVE CountInv'
  <2>1. \A v \in Workers : v # w => wk'[v].pc = "idle"
    BY <1>3, WorkAlone DEF WkAt
  <2>2. CASE RecordFailure(w)
    <3>1. wk'[w].pc # "record"
      BY <2>2, RunMoves DEF RecordFailure, WorkerPcs
    <3>2. retries < MaxRetries /\ (cost <= Hold => retries < faults)
      BY <2>2 DEF RecordFailure, CountInv, Running, Run, WkAt
    <3>3. retries' = retries \/ retries' = retries + 1
      BY <2>2 DEF RecordFailure
    <3> QED
      BY <1>1, <2>1, <3>1, <3>2, <3>3 DEF CountInv, WkAt
  <2>3. CASE ~RecordFailure(w)
    <3>1. retries' = retries
      BY <1>3, <2>3
         DEF Work, RunDies, Take, Load, RequeueJob, GetProvider, Transition, Index, ReleaseTerminal,
             Capture, Exhaust, FailExhausted, MarkSettled, AckJob
    <3>2. CASE Capture(w)
      <4>1. /\ status = "settling" /\ retries < MaxRetries /\ wk[w].snap.held
            /\ SnapOk(wk[w].snap)
        BY <2>2, <3>2 DEF Capture, Running, Run, SnapInv, WkAt
      <4>2. cost <= Hold => CaptureAllowed(wk[w].snap)
        <5>1. "hold" \in claims
          BY <4>1 DEF SnapOk
        <5>2. "release" \notin claims /\ "early" \notin gaps
          BY <1>1, <4>1 DEF ClaimInv, Over, Unsent
        <5>3. CASE "capture" \in claims
          BY <5>3 DEF CaptureAllowed
        <5>4. CASE "capture" \notin claims
          <6>1. frozen = OtherFrozen + BalPart
            BY <5>1, <5>2, <5>4, FundsCases DEF Captured, Outstanding, Released, Reserved
          <6>2. frozen >= BalPart
            BY <6>1, JobConstants
          <6> QED
            BY <4>1, <5>1, <6>2 DEF CaptureAllowed, BalanceOf
        <5> QED
          BY <5>3, <5>4
      <4>3. wk'[w].pc = "record" /\ cost <= Hold => faults' = faults + 1
        BY <3>2, <4>2, RunMoves DEF Capture, Fault, WorkerPcs
      <4>4. cost <= Hold /\ wk'[w].pc = "record" => retries < faults'
        BY <1>1, <4>3 DEF CountInv
      <4> QED
        BY <1>1, <2>1, <3>1, <4>4 DEF CountInv, WkAt
    <3>3. CASE ~Capture(w)
      <4>1. wk'[w].pc # "record"
        <5>1. CASE Load(w)
          BY <5>1, NextForFacts DEF Load, JobTypes
        <5>2. CASE Transition(w)
          BY <5>2, AfterFacts, RunMoves DEF Transition, WorkerPcs
        <5>3. CASE \/ Take(w) \/ RunDies(w) \/ RequeueJob(w) \/ GetProvider(w) \/ Index(w)
                   \/ ReleaseTerminal(w) \/ AckJob(w)
          BY <5>3, RunMoves
             DEF Take, RunDies, RequeueJob, GetProvider, Index, ReleaseTerminal, AckJob, WorkerPcs
        <5>4. CASE Exhaust(w) \/ FailExhausted(w) \/ MarkSettled(w)
          BY <5>4, RunMoves DEF Exhaust, FailExhausted, MarkSettled, WorkerPcs
        <5> QED
          BY <1>3, <2>3, <3>3, <5>1, <5>2, <5>3, <5>4 DEF Work
      <4> QED
        BY <1>1, <2>1, <3>1, <4>1 DEF CountInv, WkAt
    <3> QED
      BY <3>2, <3>3
  <2> QED
    BY <2>2, <2>3
<1> QED
  BY <1>2, <1>3 DEF JobNext, Aside, Outside

-----------------------------------------------------------------------------
(* The hold: who gives it back                                             *)

\* What makes a job over names somebody to give its money back.
Named == Returning' \/ "unowned" \in gaps'

\* A worker's step.
LEMMA OwnerWork ==
    ASSUME JobTypes, OwnerInv, NEW w \in Workers, Run(w), Work(w) \/ RunDies(w),
           status' \in Over, Owed'
    PROVE  Named
<1> USE DEF Named, Returning, WkElse, WkAt
<1>1. claims \subseteq claims' /\ gaps \subseteq gaps'
  BY Grows DEF Grow, JobNext
<1>2. sub' = sub /\ can' = can /\ rec'.pc = rec.pc /\ ("hold" \in claims' <=> "hold" \in claims)
  <2>1. Touch \/ Quiet
    BY DEF Work, RunDies, Take, Load, RequeueJob, GetProvider, Transition, Index,
       ReleaseTerminal, Capture, RecordFailure, Exhaust, FailExhausted, MarkSettled, AckJob
  <2>2. can' = can
    BY DEF Work, RunDies, Take, Load, RequeueJob, GetProvider, Transition, Index,
       ReleaseTerminal, Capture, RecordFailure, Exhaust, FailExhausted, MarkSettled, AckJob
  <2> QED
    BY <2>1, <2>2, RowFacts, WorkRow DEF RowMoves
<1>3. Owed
  BY <1>1, <1>2 DEF Owed, Reserved
<1>4. CASE wk[w].pc = "ack"
  BY <1>3, <1>4 DEF Run, Owed
<1>5. CASE wk[w].pc # "ack"
  <2>1. queued' = queued
    BY <1>5
       DEF Work, RunDies, Take, Load, RequeueJob, GetProvider, Transition, Index, ReleaseTerminal,
           Capture, RecordFailure, Exhaust, FailExhausted, MarkSettled, AckJob
  <2>2. CASE queued
    BY <2>1, <2>2
  <2>3. CASE ~queued
    <3>1. Take(w) \/ RunDies(w)
      BY <2>3, AfterFacts
         DEF Run, Work, Load, RequeueJob, GetProvider, Transition, Index, ReleaseTerminal, Capture,
             RecordFailure, Exhaust, FailExhausted, MarkSettled, AckJob
    <3>2. status' = status
      BY <3>1 DEF Take, RunDies
    <3> QED
      BY <1>1, <1>2, <1>3, <2>1, <3>2 DEF OwnerInv
  <2> QED
    BY <2>2, <2>3
<1> QED
  BY <1>4, <1>5

\* A step of Submit.
LEMMA OwnerSubmit ==
    ASSUME JobTypes, SubmitInv, OwnerInv, Submit \/ SubmitHeartbeat \/ RepeatSubmit \/ SubmitDies,
           status' \in Over, Owed'
    PROVE  Named
<1> USE DEF Named, Returning, SubAt, Gap, row, procs
<1>1. claims \subseteq claims' /\ gaps \subseteq gaps'
  BY Grows DEF Grow, JobNext
<1>2. can' = can /\ rec'.pc = rec.pc
  <2>1. can' = can /\ (Touch \/ Quiet)
    BY DEF Submit, SubmitHeartbeat, RepeatSubmit, SubmitDies, CreateJob, ReserveHold, CreateItems,
       StartUpload, ProviderSubmit, RecordSubmit, AbortProviderJob, EnqueueJob, ReleaseSubmit,
       MarkSubmitFailed, HideJob, QueueRelease
  <2> QED
    BY <2>1, RowFacts
<1>3. "release" \notin claims /\ "capture" \notin claims
  BY <1>1 DEF Owed
<1>4. CASE CreateJob
  BY <1>4 DEF CreateJob, Over
<1>5. CASE ReserveHold
  <2>1. status' = status /\ queued' = queued /\ Owed
    BY <1>3, <1>5 DEF ReserveHold, Owed
  <2>2. sub.pc # "relQueue"
    BY <1>5 DEF ReserveHold
  <2> QED
    BY <1>1, <1>2, <2>1, <2>2 DEF OwnerInv
<1>6. CASE \/ CreateItems \/ StartUpload \/ ProviderSubmit \/ AbortProviderJob \/ EnqueueJob
           \/ ReleaseSubmit \/ HideJob
  <2>1. Owed
    <3>1. sub.pc \in AfterHold \cup {"hide"} /\ sub'.pc # "reserve"
      BY <1>6, SubmitMoves, SubmitGivesUp
         DEF CreateItems, StartUpload, ProviderSubmit, AbortProviderJob, EnqueueJob,
             ReleaseSubmit, HideJob, AfterHold, SubPcs, JobTypes
    <3>2. "hold" \in claims
      <4>1. CASE ReleaseSubmit
        BY <4>1, <3>1 DEF SubmitInv, ReleaseSubmit, AfterHold
      <4>2. CASE ~ReleaseSubmit
        <5>1. claims' = claims
          BY <1>6, <4>2
             DEF CreateItems, StartUpload, ProviderSubmit, AbortProviderJob, EnqueueJob, HideJob, money
        <5> QED
          BY <3>1, <5>1 DEF Owed, Reserved
      <4> QED
        BY <4>1, <4>2
    <3> QED
      BY <1>3, <3>2 DEF Owed, Reserved
  <2>2. queued => queued'
    BY <1>6
       DEF CreateItems, StartUpload, ProviderSubmit, AbortProviderJob, EnqueueJob, ReleaseSubmit, HideJob
  <2>3. status' = status
    BY <1>6
       DEF CreateItems, StartUpload, ProviderSubmit, AbortProviderJob, EnqueueJob, ReleaseSubmit,
           HideJob, Over
  <2>4. sub.pc # "relQueue"
    BY <1>6
       DEF CreateItems, StartUpload, ProviderSubmit, AbortProviderJob, EnqueueJob, ReleaseSubmit, HideJob
  <2> QED
    BY <1>1, <1>2, <2>1, <2>2, <2>3, <2>4 DEF OwnerInv
<1>7. CASE RecordSubmit
  <2>1. status' = status /\ queued' = queued /\ claims' = claims /\ sub.pc = "record"
    BY <1>7 DEF RecordSubmit, Over, money
  <2>2. Owed
    BY <1>3, <2>1 DEF Owed, Reserved, SubmitInv, AfterHold
  <2> QED
    BY <1>1, <1>2, <2>1, <2>2 DEF OwnerInv
<1>8. CASE MarkSubmitFailed
  <2>1. claims' = claims /\ queued' = queued
    BY <1>8 DEF MarkSubmitFailed, money
  <2>2. CASE sub.pc = "fail"
    <3>1. sub'.pc = "hide"
      BY <1>8, <2>2, SubmitMoves DEF MarkSubmitFailed, SubPcs
    <3>2. "hold" \in claims
      BY <2>1, <3>1 DEF Owed, Reserved
    <3> QED
      BY <1>1, <1>3, <2>2, <3>2 DEF OwnerInv, Reserved
  <2>3. CASE sub.pc # "fail"
    BY <1>8, <2>3, SubmitMoves DEF MarkSubmitFailed, SubPcs
  <2> QED
    BY <2>2, <2>3
<1>9. CASE QueueRelease
  BY <1>9 DEF QueueRelease
<1>10. CASE SubmitHeartbeat \/ RepeatSubmit
  BY <1>10 DEF SubmitHeartbeat, RepeatSubmit, OwnerInv, Owed, Reserved, Over, Unsent, money
<1>11. CASE SubmitDies
  <2>1. sub'.pc = "end" /\ claims' = claims /\ status' = status /\ queued' = queued
    BY <1>11, SubmitMoves DEF SubmitDies, SubPcs, money
  <2>2. Owed
    BY <2>1 DEF Owed, Reserved
  <2>3. CASE sub.pc = "relQueue"
    BY <1>11, <2>3 DEF SubmitDies
  <2>4. CASE sub.pc # "relQueue"
    BY <1>1, <1>2, <2>1, <2>2, <2>4 DEF OwnerInv
  <2> QED
    BY <2>3, <2>4
<1> QED
  BY <1>4, <1>5, <1>6, <1>7, <1>8, <1>9, <1>10, <1>11 DEF Submit

\* A step of the owner, the recovery, the provider or the clock.
LEMMA OwnerOutside ==
    ASSUME JobTypes, OwnerInv, Outside, status' \in Over, Owed'
    PROVE  Named
<1> USE DEF Named, Returning, RecElse, Gap, row, procs
<1>1. claims \subseteq claims' /\ gaps \subseteq gaps'
  BY Grows DEF Grow, JobNext, Outside
<1>2. sub' = sub /\ Owed
  BY <1>1, OutsideRow DEF RowMoves, Owed, Reserved
<1>3. queued => queued'
  BY DEF Outside, LoadCancel, Cancel, CancelDies, CancelProvider, CancelEnqueue, CancelTransition,
     CancelRelease, CancelRetry, Recovery, RecoveryDies, ListStale, FailStale, RecoveryRelease,
     RecoveryRetry, ProviderEnds, Age
<1>4. "release" \notin claims'
  BY DEF Owed
<1>5. CASE CancelTransition
  <2>1. CASE status' = status
    BY <1>1, <1>2, <1>3, <1>5, <2>1, CancelMoves, RowFacts DEF CancelTransition, OwnerInv
  <2>2. CASE status' # status
    BY <1>5, <2>2, CancelMoves DEF CancelTransition
  <2> QED
    BY <2>1, <2>2
<1>6. CASE CancelRelease
  <2>1. ReleaseError(can.snap) /\ CanGoes("retry")
    BY <1>4, <1>6, ReleaseCases DEF CancelRelease
  <2> QED
    BY <2>1, CancelMoves
<1>7. CASE CancelRetry
  BY <1>7 DEF CancelRetry
<1>8. CASE CancelDies
  <2>1. status' = status /\ rec'.pc = rec.pc
    BY <1>8, RowFacts DEF CancelDies
  <2> QED
    BY <1>1, <1>2, <1>3, <1>8, <2>1 DEF CancelDies, OwnerInv
<1>9. CASE LoadCancel \/ CancelProvider \/ CancelEnqueue
  <2>1. status' = status /\ rec'.pc = rec.pc /\ can.pc \notin {"release", "retry"}
    BY <1>9, RowFacts DEF LoadCancel, CancelProvider, CancelEnqueue
  <2> QED
    BY <1>1, <1>2, <1>3, <2>1 DEF OwnerInv
<1>10. CASE ListStale
  BY <1>10 DEF ListStale, Over, Unsent
<1>11. CASE FailStale
  <2>1. CASE status' = status
    BY <1>1, <1>2, <1>3, <1>11, <2>1, RecoveryMoves DEF FailStale, OwnerInv
  <2>2. CASE status' # status
    BY <1>11, <2>2, RecoveryMoves DEF FailStale
  <2> QED
    BY <2>1, <2>2
<1>12. CASE RecoveryRelease
  <2>1. ReleaseError(rec.snap) /\ RecGoes("retry")
    BY <1>4, <1>12, ReleaseCases DEF RecoveryRelease
  <2> QED
    BY <2>1, RecoveryMoves
<1>13. CASE RecoveryRetry
  BY <1>13 DEF RecoveryRetry
<1>14. CASE RecoveryDies
  BY <1>1, <1>2, <1>3, <1>14 DEF RecoveryDies, OwnerInv
<1>15. CASE ProviderEnds \/ Age
  BY <1>1, <1>2, <1>3, <1>15 DEF ProviderEnds, Age, OwnerInv
<1> QED
  BY <1>5, <1>6, <1>7, <1>8, <1>9, <1>10, <1>11, <1>12, <1>13, <1>14, <1>15
     DEF Outside, Cancel, Recovery

\* A failing submission that holds money and will not release it is known.
LEMMA FailStep ==
    ASSUME JobTypes, SubmitInv, OwnerInv, [JobNext]_jobVars
    PROVE  (sub.pc = "fail" /\ Reserved => "release" \in claims \/ "unowned" \in gaps)'
<1> SUFFICES ASSUME sub'.pc = "fail", "hold" \in claims'
             PROVE  "release" \in claims' \/ "unowned" \in gaps'
  BY DEF Reserved
<1>1. claims \subseteq claims' /\ gaps \subseteq gaps'
  BY Grows DEF Grow
<1>2. CASE sub' = sub /\ ("hold" \in claims' <=> "hold" \in claims)
  BY <1>1, <1>2 DEF OwnerInv, Reserved
<1>3. CASE ReserveHold
  <2>1. "hold" \notin claims
    BY <1>3 DEF ReserveHold, SubmitInv, SubAt
  <2> QED
    BY <1>3, <2>1, SubmitMoves DEF ReserveHold, Gap, SubPcs, money
<1>4. CASE ReleaseSubmit
  <2>1. ReleaseOk(SubmitSnap)
    BY <1>4, SubmitMoves DEF ReleaseSubmit, SubPcs
  <2> QED
    BY <2>1, ReleaseCases
<1>5. CASE Submit /\ ~ReserveHold /\ ~ReleaseSubmit
  BY <1>5, SubmitMoves, SubmitGivesUp
     DEF Submit, CreateJob, CreateItems, StartUpload, ProviderSubmit, RecordSubmit,
         AbortProviderJob, EnqueueJob, MarkSubmitFailed, HideJob, QueueRelease, SubPcs
<1>6. CASE SubmitDies
  BY <1>6, SubmitMoves DEF SubmitDies, SubPcs
<1>7. CASE SubmitHeartbeat \/ RepeatSubmit \/ UNCHANGED jobVars
  BY <1>2, <1>7 DEF SubmitHeartbeat, RepeatSubmit, jobVars, procs, money
<1>8. CASE Outside \/ \E w \in Workers : Work(w) \/ RunDies(w)
  BY <1>2, <1>8, OutsideRow, WorkRow DEF RowMoves
<1> QED
  BY <1>3, <1>4, <1>5, <1>6, <1>7, <1>8 DEF JobNext, Outside

LEMMA OwnerStep ==
    ASSUME JobTypes, SubmitInv, OwnerInv, Running, [JobNext]_jobVars PROVE OwnerInv'
<1>1. ASSUME status' \in Over, Owed' PROVE Named
  <2>1. CASE UNCHANGED jobVars
    BY <1>1, <2>1
       DEF jobVars, row, money, procs, OwnerInv, Named, Returning, Owed, Reserved
  <2> QED
    BY <1>1, <2>1, OwnerSubmit, OwnerOutside, OwnerWork DEF JobNext, Outside, Running
<1> QED
  BY <1>1, FailStep DEF OwnerInv, Named

-----------------------------------------------------------------------------
(* The hold: the provider's batch                                          *)

\* A batch runs from the submission on and never starts again.
LEMMA UpstreamMoves ==
    ASSUME JobTypes, [JobNext]_jobVars
    PROVE  /\ upstream = "none" \/ sub.pc = "submit" \/ (upstream \notin Going => upstream' \notin Going)
           /\ upstream' = "running" /\ upstream # "running" => sub.pc = "submit"
           /\ provider => provider'
           /\ sub.pc # "submit" /\ upstream = "none" => upstream' = "none"
<1> USE DEF Going, row, SubAt
<1>1. CASE UNCHANGED jobVars \/ SubmitHeartbeat \/ RepeatSubmit \/ SubmitDies \/ ProviderEnds \/ Age
  BY <1>1 DEF jobVars, SubmitHeartbeat, RepeatSubmit, SubmitDies, ProviderEnds, Age
<1>2. CASE Submit
  BY <1>2
     DEF Submit, CreateJob, ReserveHold, CreateItems, StartUpload, ProviderSubmit, RecordSubmit,
         AbortProviderJob, EnqueueJob, ReleaseSubmit, MarkSubmitFailed, HideJob, QueueRelease
<1>3. CASE LoadCancel \/ Cancel \/ CancelDies
  BY <1>3
     DEF LoadCancel, Cancel, CancelDies, CancelProvider, CancelEnqueue, CancelTransition,
         CancelRelease, CancelRetry
<1>4. CASE Recovery \/ RecoveryDies
  BY <1>4 DEF Recovery, RecoveryDies, ListStale, FailStale, RecoveryRelease, RecoveryRetry, RecElse
<1>5. ASSUME NEW w \in Workers, Work(w) \/ RunDies(w)
      PROVE  upstream' = upstream /\ provider' = provider
  BY <1>5
     DEF Work, RunDies, Take, Load, RequeueJob, GetProvider, Transition, Index, ReleaseTerminal,
         Capture, RecordFailure, Exhaust, FailExhausted, MarkSettled, AckJob, WkElse
<1> QED
  BY <1>1, <1>2, <1>3, <1>4, <1>5 DEF JobNext

\* Nothing runs at the provider before Submit asks it to.
LEMMA NotYetStep ==
    ASSUME JobTypes, ProviderInv, [JobNext]_jobVars
    PROVE  (sub.pc \in {"create", "reserve", "items", "upload", "submit"} => upstream = "none")'
<1> DEFINE Early == {"create", "reserve", "items", "upload", "submit"}
<1> USE DEF SubAt, procs
<1> SUFFICES ASSUME sub'.pc \in Early PROVE upstream' = "none"
  OBVIOUS
<1>1. CASE sub' = sub /\ ~ProviderSubmit
  <2>1. upstream = "none"
    BY <1>1 DEF ProviderInv
  <2>2. CASE Submit \/ SubmitDies
    BY <1>1, <2>1, <2>2, SubmitMoves, SubmitGivesUp
       DEF Submit, SubmitDies, CreateJob, ReserveHold, CreateItems, StartUpload, RecordSubmit,
           AbortProviderJob, EnqueueJob, ReleaseSubmit, MarkSubmitFailed, HideJob, QueueRelease,
           SubPcs
  <2>3. CASE ~(Submit \/ SubmitDies)
    BY <2>1, <2>3
       DEF JobNext, SubmitHeartbeat, RepeatSubmit, LoadCancel, Cancel, CancelDies, CancelProvider,
           CancelEnqueue, CancelTransition, CancelRelease, CancelRetry, Recovery, RecoveryDies,
           ListStale, FailStale, RecoveryRelease, RecoveryRetry, RecElse, ProviderEnds, Age, Work,
           RunDies, Take, Load, RequeueJob, GetProvider, Transition, Index, ReleaseTerminal, Capture,
           RecordFailure, Exhaust, FailExhausted, MarkSettled, AckJob, WkElse, jobVars
  <2> QED
    BY <2>2, <2>3
<1>2. CASE CreateJob \/ ReserveHold \/ CreateItems \/ StartUpload
  BY <1>2 DEF CreateJob, ReserveHold, CreateItems, StartUpload, ProviderInv
<1>3. CASE ProviderSubmit
  BY <1>3, SubmitMoves, SubmitGivesUp DEF ProviderSubmit, SubPcs
<1>4. CASE \/ RecordSubmit \/ AbortProviderJob \/ EnqueueJob \/ ReleaseSubmit \/ MarkSubmitFailed
           \/ HideJob \/ QueueRelease \/ SubmitDies
  BY <1>4, SubmitMoves
     DEF RecordSubmit, AbortProviderJob, EnqueueJob, ReleaseSubmit, MarkSubmitFailed, HideJob,
         QueueRelease, SubmitDies, SubPcs, JobTypes
<1>5. CASE ~(Submit \/ SubmitDies)
  <2>1. sub' = sub
    BY <1>5, OutsideRow, WorkRow
       DEF JobNext, Outside, RowMoves, SubmitHeartbeat, RepeatSubmit, jobVars
  <2>2. ~ProviderSubmit
    BY <1>5 DEF Submit
  <2> QED
    BY <1>1, <2>1, <2>2
<1> QED
  BY <1>2, <1>3, <1>4, <1>5 DEF Submit

\* A batch that runs can be reached.
LEMMA ReachedStep ==
    ASSUME JobTypes, ProviderInv, [JobNext]_jobVars
    PROVE  (upstream = "running" /\ "orphan" \notin gaps => sub.pc \in {"record", "abort"} \/ provider)'
<1> USE DEF SubAt, procs, row, Gap
<1> SUFFICES ASSUME upstream' = "running", "orphan" \notin gaps', ~provider'
             PROVE  sub'.pc \in {"record", "abort"}
  OBVIOUS
<1>1. "orphan" \notin gaps /\ ~provider
  BY Grows, UpstreamMoves DEF Grow
<1>2. CASE upstream = "running"
  <2>1. sub.pc \in {"record", "abort"}
    BY <1>1, <1>2 DEF ProviderInv
  <2>2. CASE RecordSubmit
    BY <2>2, SubmitMoves DEF RecordSubmit, SubPcs
  <2>3. CASE AbortProviderJob \/ SubmitDies
    BY <1>2, <2>1, <2>3 DEF AbortProviderJob, SubmitDies
  <2>4. CASE Submit /\ ~RecordSubmit /\ ~AbortProviderJob
    BY <2>1, <2>4
       DEF Submit, CreateJob, ReserveHold, CreateItems, StartUpload, ProviderSubmit, EnqueueJob,
           ReleaseSubmit, MarkSubmitFailed, HideJob, QueueRelease
  <2>5. CASE ~(Submit \/ SubmitDies)
    <3>1. sub' = sub
      BY <2>5, OutsideRow, WorkRow
         DEF JobNext, Outside, RowMoves, SubmitHeartbeat, RepeatSubmit, jobVars
    <3> QED
      BY <2>1, <3>1
  <2> QED
    BY <2>2, <2>3, <2>4, <2>5
<1>3. CASE upstream # "running"
  <2>1. sub.pc = "submit"
    BY <1>3, UpstreamMoves
  <2>2. ProviderSubmit \/ SubmitDies
    BY <1>3, <2>1
       DEF JobNext, Submit, SubmitHeartbeat, RepeatSubmit, CreateJob, ReserveHold, CreateItems,
           StartUpload, RecordSubmit, AbortProviderJob, EnqueueJob, ReleaseSubmit, MarkSubmitFailed,
           HideJob, QueueRelease, LoadCancel, Cancel, CancelDies, CancelProvider, CancelEnqueue,
           CancelTransition, CancelRelease, CancelRetry, Recovery, RecoveryDies, ListStale, FailStale,
           RecoveryRelease, RecoveryRetry, RecElse, ProviderEnds, Age, Work, RunDies, Take, Load,
           RequeueJob, GetProvider, Transition, Index, ReleaseTerminal, Capture, RecordFailure,
           Exhaust, FailExhausted, MarkSettled, AckJob, WkElse, jobVars
  <2> QED
    BY <1>3, <2>1, <2>2, SubmitMoves DEF ProviderSubmit, SubmitDies, SubPcs
<1> QED
  BY <1>2, <1>3

\* What a worker saw ended has ended.
LEMMA EndedStep ==
    ASSUME LockKept, JobTypes, OneRun, SubmitInv, ProviderInv, Running, [JobNext]_jobVars
    PROVE  (\A w \in Workers :
              wk[w].pc \in {"index", "indexing", "settling", "failed", "cancelled"} =>
                upstream \notin Going)'
<1> DEFINE Seen == {"index", "indexing", "settling", "failed", "cancelled"}
<1>1. upstream \notin Going => upstream' \notin Going
  BY UpstreamMoves DEF ProviderInv, Going
<1>2. CASE Aside \/ UNCHANGED jobVars
  <2>1. wk' = wk
    BY <1>2, AsideRuns DEF jobVars, procs
  <2> QED
    BY <1>1, <2>1 DEF ProviderInv
<1>3. ASSUME NEW w \in Workers, Work(w) \/ RunDies(w)
      PROVE  \A v \in Workers : wk'[v].pc \in Seen => upstream' \notin Going
  <2>1. \A v \in Workers : v # w => wk'[v].pc = "idle"
    BY <1>3, WorkAlone DEF WkAt
  <2>2. wk'[w].pc \in Seen => upstream \notin Going
    <3>1. CASE GetProvider(w)
      <4>1. \/ wk'[w].pc \in {"requeue", "running"}
            \/ upstream \in {"succeeded", "garbled", "failed", "cancelled"}
        BY <3>1, RunMoves DEF GetProvider, WorkerPcs
      <4> QED
        BY <4>1 DEF Going
    <3>2. CASE Load(w)
      <4>1. wk'[w].pc = NextFor
        BY <3>2 DEF Load, JobTypes
      <4> QED
        BY <4>1, NextForFacts DEF ProviderInv
    <3>3. CASE Transition(w)
      <4>1. wk[w].pc \in DOMAIN After /\ (wk'[w].pc = "requeue" \/ wk'[w].pc = After[wk[w].pc])
        BY <3>3, AfterFacts, RunMoves DEF Transition, WorkerPcs
      <4> QED
        BY <4>1, AfterFacts DEF ProviderInv
    <3>4. CASE Index(w)
      BY <3>4 DEF Index, ProviderInv, WkAt
    <3>5. CASE \/ Take(w) \/ RunDies(w) \/ RequeueJob(w) \/ ReleaseTerminal(w) \/ AckJob(w)
      BY <3>5, RunMoves DEF Take, RunDies, RequeueJob, ReleaseTerminal, AckJob, WorkerPcs
    <3>6. CASE Capture(w) \/ RecordFailure(w) \/ Exhaust(w) \/ FailExhausted(w) \/ MarkSettled(w)
      BY <3>6, RunMoves DEF Capture, RecordFailure, Exhaust, FailExhausted, MarkSettled, WorkerPcs
    <3> QED
      BY <1>3, <3>1, <3>2, <3>3, <3>4, <3>5, <3>6 DEF Work
  <2> QED
    BY <1>1, <2>1, <2>2
<1> QED
  BY <1>2, <1>3 DEF JobNext, Aside, Outside

\* The status follows the batch.
LEMMA FollowStep ==
    ASSUME JobTypes, SubmitInv, ProviderInv, Running, [JobNext]_jobVars
    PROVE  /\ (status \in {"indexing", "settling", "completed"} => upstream \notin Going)'
           /\ (provider /\ status \in Over /\ "orphan" \notin gaps => upstream # "running")'
<1> USE DEF row
<1>1. upstream \notin Going => upstream' \notin Going
  BY UpstreamMoves DEF ProviderInv, Going
<1>2. "orphan" \notin gaps' => "orphan" \notin gaps
  BY Grows DEF Grow
<1>3. StatusMoves
  BY StatusStep
<1>4. provider' /\ ~provider => status' = "submitted"
  <2>1. CASE RecordSubmit
    BY <2>1 DEF RecordSubmit
  <2>2. CASE ~RecordSubmit
    <3>1. provider' = provider
      <4>1. CASE Outside \/ \E w \in Workers : Work(w) \/ RunDies(w)
        BY <4>1, OutsideRow, WorkRow DEF RowMoves
      <4>2. CASE ~(Outside \/ \E w \in Workers : Work(w) \/ RunDies(w))
        BY <2>2, <4>2
           DEF JobNext, Outside, Submit, SubmitHeartbeat, RepeatSubmit, SubmitDies, CreateJob,
               ReserveHold, CreateItems, StartUpload, ProviderSubmit, AbortProviderJob, EnqueueJob,
               ReleaseSubmit, MarkSubmitFailed, HideJob, QueueRelease, jobVars
      <4> QED
        BY <4>1, <4>2
    <3> QED
      BY <3>1
  <2> QED
    BY <2>1, <2>2
<1>5. provider /\ upstream' = "running" => upstream = "running"
  BY UpstreamMoves DEF SubmitInv
\* The status moves only by what saw the batch ended.
<1>6. CASE status' = status
  BY <1>1, <1>2, <1>4, <1>5, <1>6 DEF ProviderInv, Over
<1>7. ASSUME NEW w \in Workers, Work(w) \/ RunDies(w), status' # status
      PROVE  /\ status' \in {"indexing", "settling", "completed"} \cup Over => upstream' \notin Going
  <2>1. CASE Transition(w)
    <3>1. status' = wk[w].pc /\ wk[w].pc \in DOMAIN After
      BY <1>7, <2>1 DEF Transition
    <3> QED
      BY <1>1, <3>1, AfterFacts DEF ProviderInv, Over
  <2>2. CASE FailExhausted(w) \/ MarkSettled(w)
    <3>1. status = "settling"
      BY <2>2 DEF FailExhausted, MarkSettled, Running, Run, WkAt
    <3> QED
      BY <1>1, <3>1 DEF ProviderInv
  <2> QED
    BY <1>7, <2>1, <2>2
       DEF Work, RunDies, Take, Load, RequeueJob, GetProvider, Index, ReleaseTerminal, Capture,
           RecordFailure, Exhaust, AckJob
<1>8. CASE Aside /\ status' # status
  <2>1. status' \notin {"indexing", "settling", "completed"}
    BY <1>8, AsideMoves DEF AsideStatus, Over
  <2>2. provider' /\ status' \in Over => provider
    BY <1>4 DEF Over
  <2>3. provider' /\ status' \in Over /\ "orphan" \notin gaps' => upstream' # "running"
    <3>1. CancelTransition /\ provider => "orphan" \in gaps'
      BY <1>8 DEF CancelTransition
    <3>2. FailStale => ~provider
      BY <1>8 DEF FailStale, StillStale
    <3>3. MarkSubmitFailed => ~provider
      BY DEF MarkSubmitFailed, SubmitInv
    <3>4. status' \in Over => CancelTransition \/ FailStale \/ MarkSubmitFailed
      BY <1>8
         DEF Aside, Outside, Submit, SubmitHeartbeat, RepeatSubmit, SubmitDies, CreateJob,
             ReserveHold, CreateItems, StartUpload, ProviderSubmit, RecordSubmit, AbortProviderJob,
             EnqueueJob, ReleaseSubmit, HideJob, QueueRelease, LoadCancel, Cancel, CancelDies,
             CancelProvider, CancelEnqueue, CancelRelease, CancelRetry, Recovery, RecoveryDies,
             ListStale, RecoveryRelease, RecoveryRetry, RecElse, ProviderEnds, Age, Over
    <3> QED
      BY <2>2, <3>1, <3>2, <3>3, <3>4
  <2> QED
    BY <2>1, <2>3
<1> QED
  BY <1>6, <1>7, <1>8 DEF JobNext, Aside, Outside, Going, jobVars

LEMMA ProviderStep ==
    ASSUME LockKept, JobTypes, OneRun, SubmitInv, ProviderInv, Running, [JobNext]_jobVars
    PROVE  ProviderInv'
BY NotYetStep, ReachedStep, EndedStep, FollowStep DEF ProviderInv

-----------------------------------------------------------------------------
(* The hold: the theorems                                                  *)

LEMMA JobStarts == JobInit => JobInv
<1> SUFFICES ASSUME JobInit PROVE JobInv
  OBVIOUS
<1>1. JobTypes
  BY JobInitTypes
<1>2. /\ status = "none" /\ provider = FALSE /\ retries = 0 /\ reserved = FALSE /\ claims = {}
      /\ balance = start /\ frozen = OtherFrozen /\ subUsed = 0 /\ quota = 0
      /\ upstream = "none" /\ sub.pc = "create" /\ can.pc = "idle" /\ can.snap = Blank
      /\ rec.pc = "idle" /\ rec.snap = Blank /\ gaps = {} /\ faults = 0
      /\ \A w \in Workers : wk[w].pc = "idle" /\ wk[w].snap = Blank
  BY DEF JobInit
<1>3. OneRun /\ (\A w \in Workers : Run(w))
  BY <1>2, AfterFacts DEF OneRun, Run, WkAt
<1>4. SubmitInv
  BY <1>2 DEF SubmitInv, AfterHold, Over, Sent
<1>5. ClaimInv
  BY <1>2 DEF ClaimInv, Captured, Released, Reserved
<1>6. SnapInv
  <2>1. SnapOk(Blank)
    BY DEF SnapOk, Blank
  <2>2. ~Loaded.held /\ ~Loaded.reserved
    BY <1>2 DEF Loaded
  <2>3. SnapOk(Loaded)
    BY <2>2 DEF SnapOk
  <2> QED
    BY <1>2, <2>1, <2>3 DEF SnapInv
<1>7. CountInv
  BY <1>2, JobConstants DEF CountInv, WkAt
<1>8. FundsAddUp
  BY <1>2, FundsCases DEF Captured, Outstanding, Reserved
<1>9. OwnerInv /\ ProviderInv
  BY <1>2 DEF OwnerInv, ProviderInv, Owed, Reserved, Over, Going
<1> QED
  BY <1>1, <1>3, <1>4, <1>5, <1>6, <1>7, <1>8, <1>9 DEF JobInv

LEMMA JobStays == ASSUME LockKept, JobInv, [JobNext]_jobVars PROVE JobInv'
<1>1. /\ JobTypes /\ OneRun /\ SubmitInv /\ ClaimInv /\ SnapInv /\ Running
      /\ CountInv /\ FundsAddUp /\ OwnerInv /\ ProviderInv
  BY DEF JobInv, Running
<1>2. JobTypes' /\ OneRun' /\ SubmitInv'
  BY <1>1, JobNextTypes, OneRunStep, SubmitStep
<1>3. ClaimInv' /\ SnapInv' /\ Running'
  BY <1>1, ClaimStep, SnapStep, RunStep
<1>4. CountInv' /\ FundsAddUp'
  BY <1>1, CountStep, FundsStep
<1>5. OwnerInv' /\ ProviderInv'
  BY <1>1, OwnerStep, ProviderStep
<1> QED
  BY <1>2, <1>3, <1>4, <1>5 DEF JobInv, Running

LEMMA JobInvariant == ASSUME LockKept PROVE JobSpec => []JobInv
BY JobStarts, JobStays, PTL DEF JobSpec

\* With the job lock kept, the money of a batch image job is accounted for at
\* every step of Submit, Cancel, the recovery and the workers: the counters are
\* what the three claimed transactions leave, unless a release ran before the hold
\* (gap early) or the job was charged and refunded; it is not charged and refunded,
\* and its status says which, with fewer faults than attempts; and an ended job's
\* hold has somebody who releases it, but for the gaps early and unowned.
THEOREM MoneyAccounted ==
    ASSUME LockKept PROVE JobSpec => []MoneyIsAccountedFor
<1>1. JobInv => MoneyIsAccountedFor
  <2> SUFFICES ASSUME JobInv PROVE MoneyIsAccountedFor
    OBVIOUS
  <2>1. /\ JobTypes /\ ClaimInv /\ CountInv /\ FundsAddUp /\ OwnerInv
    BY DEF JobInv
  <2>2. JobTypeOK
    BY <2>1 DEF JobTypes, JobTypeOK, CountInv, SubPcs
  <2>3. faults \in Nat /\ MaxRetries \in Nat
    BY <2>1, JobConstants DEF JobTypes
  <2>4. CapturedOrReleased
    BY <2>1, <2>3 DEF CapturedOrReleased, ClaimInv
  <2>5. StatusTellsOutcome
    BY <2>1, <2>3 DEF StatusTellsOutcome, ClaimInv
  <2>6. HoldHasOwner
    <3> SUFFICES ASSUME status \in Terminal, Outstanding, gaps \cap {"early", "unowned"} = {}
                 PROVE  Releaser
      BY DEF HoldHasOwner
    <3>1. status \in Over /\ Owed /\ "unowned" \notin gaps
      BY <2>1 DEF ClaimInv, Terminal, Over, Outstanding, Owed, Captured, Released, Reserved
    <3> QED
      BY <2>1, <3>1 DEF OwnerInv, Returning, Releaser
  <2> QED
    BY <2>1, <2>2, <2>4, <2>5, <2>6 DEF MoneyIsAccountedFor
<1> QED
  BY <1>1, JobInvariant, PTL

\* With the job lock kept, a refunded job leaves no batch running at the
\* provider, but for the ones the code knowingly gives up: releases by Submit,
\* Cancel, the recovery and the worker all come after the batch ended.
THEOREM NoBatchAfterRefund ==
    ASSUME LockKept PROVE JobSpec => []RefundStopsProvider
<1>1. JobInv => RefundStopsProvider
  <2> SUFFICES ASSUME JobInv, Released, upstream = "running", "orphan" \notin gaps,
                      sub.pc \notin {"record", "abort"}
               PROVE  FALSE
    BY DEF RefundStopsProvider
  <2>1. provider
    BY DEF JobInv, ProviderInv
  <2>2. status \in Sent \cup Over
    BY <2>1 DEF JobInv, SubmitInv
  <2>3. status \in Over \/ status = "settling"
    BY <2>2 DEF JobInv, ClaimInv, Released, Sent, Over, Unsent
  <2> QED
    BY <2>1, <2>3 DEF JobInv, ProviderInv, Going
<1> QED
  BY <1>1, JobInvariant, PTL

=============================================================================
