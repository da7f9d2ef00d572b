------------------------- MODULE UsageBilling_proofs -------------------------
(* Proofs about UsageBilling. *)
EXTENDS UsageBilling, TLAPS

-----------------------------------------------------------------------------
(* The invariant                                                           *)

\* A poll at work knows its price.
Priced == \A p \in Polls : ~At(p, {"idle"}) => poll[p].price \in Prices

\* The key a transaction has inserted, and that only it can see, has no row
\* yet, and no other transaction has inserted it.
KeyIsFree ==
    /\ \A p \in Polls : At(p, HoldsKey) => dedup[poll[p].task] = 0
    /\ \A p, q \in Polls : p # q /\ At(p, HoldsKey) /\ At(q, HoldsKey)
                               => poll[p].task # poll[q].task

\* Nor is it in the archive once that has been looked at.
NotInArchive == \A p \in Polls : At(p, {"lock", "commit"}) => archive[poll[p].task] = 0

\* A key is in one table at most.
OneRow == \A t \in Tasks : dedup[t] = 0 \/ archive[t] = 0

\* A poll about to log a cost has found it recorded.
LogsRecorded == \A p \in Polls : At(p, {"logOk"}) => Recorded(poll[p].task) = poll[p].price

KeyInv == Priced /\ KeyIsFree /\ NotInArchive /\ OneRow /\ LogsRecorded /\ ChargedOnce

\* One transaction at a time has the rows, and what it read still stands.
RowsHeld ==
    /\ \A p, q \in Polls : At(p, HoldsRows) /\ At(q, HoldsRows) => p = q
    /\ \A p \in Polls : At(p, HoldsRows) =>
          /\ win <= poll[p].window /\ poll[p].window <= day
          /\ poll[p].seen = IF win < poll[p].window THEN 0 ELSE used

\* A reset under way has read a window that has passed.
PassedWindow == win <= day /\ reset < day

WindowInv == RowsHeld /\ PassedWindow /\ UsageOfWindow

IInv == TypeOK /\ KeyInv /\ WindowInv /\ ClaimHasOwner /\ LogIsCharged

-----------------------------------------------------------------------------
(* Facts about the polls                                                   *)

LEMMA PriceFacts == /\ Prices \subseteq Nat \ {0} /\ FullPrice \in Prices
                    /\ BasePrice \in Prices /\ 0 \notin Prices
BY PriceAssumption DEF Prices

LEMMA DayFacts == Days \subseteq Nat /\ 0 \in Days
BY BoundAssumption DEF Days

LEMMA IdleFacts == Idle \in Entry /\ Idle.pc = "idle" /\ Idle.price = 0
                   /\ Idle.seen = 0 /\ Idle.window = 0 /\ Idle.task \in Tasks
<1>1. Idle.task \in Tasks /\ Idle = [pc |-> "idle", task |-> Idle.task, price |-> 0,
                                     seen |-> 0, window |-> 0]
  BY TaskAssumption DEF Idle
<1>2. 0 \in 0..SubLimit
  BY PriceAssumption
<1> QED
  BY <1>1, <1>2, DayFacts DEF Entry, Pcs

\* The other polls stay where they are.
Others(p) == \A q \in Polls : q # p => poll'[q] = poll[q]

\* p goes to pc with the task and the price it has.
Moved(p, pc) ==
    /\ poll' \in [Polls -> Entry] /\ Others(p)
    /\ poll'[p].pc = pc /\ poll'[p].task = poll[p].task /\ poll'[p].price = poll[p].price

LEMMA GoesFacts ==
    ASSUME TypeOK, NEW p \in Polls, NEW pc \in Pcs, Goes(p, pc)
    PROVE  Moved(p, pc) /\ poll'[p].seen = poll[p].seen /\ poll'[p].window = poll[p].window
<1>1. poll \in [Polls -> Entry] /\ poll[p] \in Entry
  BY DEF TypeOK
<1>2. [poll[p] EXCEPT !.pc = pc] \in Entry
  BY <1>1 DEF Entry
<1>3. poll' = [poll EXCEPT ![p] = [poll[p] EXCEPT !.pc = pc]]
  BY DEF Goes
<1>4. poll'[p] = [poll[p] EXCEPT !.pc = pc]
  BY <1>1, <1>3
<1> QED
  BY <1>1, <1>2, <1>3, <1>4 DEF Moved, Others, Entry

LEMMA EndsFacts ==
    ASSUME TypeOK, NEW p \in Polls, NEW pc \in Pcs, Ends(p, pc)
    PROVE  Moved(p, pc)
<1>1. poll \in [Polls -> Entry] /\ poll[p] \in Entry
  BY DEF TypeOK
<1>2. 0 \in 0..SubLimit /\ 0 \in Days
  BY PriceAssumption, DayFacts
<1>3. [poll[p] EXCEPT !.pc = pc, !.seen = 0, !.window = 0] \in Entry
  BY <1>1, <1>2 DEF Entry
<1>4. poll' = [poll EXCEPT ![p] = [poll[p] EXCEPT !.pc = pc, !.seen = 0, !.window = 0]]
  BY DEF Ends
<1>5. poll'[p] = [poll[p] EXCEPT !.pc = pc, !.seen = 0, !.window = 0]
  BY <1>1, <1>4
<1> QED
  BY <1>1, <1>3, <1>4, <1>5 DEF Moved, Others, Entry

LEMMA RestFacts ==
    ASSUME TypeOK, NEW p \in Polls, poll' = [poll EXCEPT ![p] = Idle]
    PROVE  /\ poll' \in [Polls -> Entry] /\ Others(p) /\ poll'[p] = Idle
           /\ poll'[p].pc = "idle" /\ poll'[p].price = 0
BY IdleFacts DEF TypeOK, Others

\* The share of a charge is within the price and the limit.
LEMMA ShareFacts ==
    ASSUME TypeOK, NEW p \in Polls
    PROVE  /\ Share(p) \in Nat /\ Share(p) <= poll[p].price
           /\ poll[p].seen + Share(p) \in 0..SubLimit
<1>1. poll[p].price \in Nat /\ poll[p].seen \in 0..SubLimit /\ SubLimit \in Nat
  BY PriceAssumption DEF TypeOK, Entry, Prices
<1> QED
  BY <1>1 DEF Share, Smaller

-----------------------------------------------------------------------------
(* Types                                                                   *)

LEMMA FaultType == ASSUME TypeOK, Fault \/ NoFault PROVE faults' \in 0..MaxFaults
BY BoundAssumption DEF TypeOK, Fault, NoFault

LEMMA TypeInit == Init => TypeOK
BY IdleFacts, PriceAssumption, BoundAssumption DEF Init, TypeOK, Prices, Days

\* The steps of the handler and the pool.
LEMMA HandlerType ==
    ASSUME TypeOK, NEW p \in Polls, NEW t \in Tasks, NEW price \in Prices,
           DropTask(p, t) \/ ClaimUnanswered(p, t) \/ Poll(p, t, price)
    PROVE  TypeOK'
<1>1. CASE Poll(p, t, price)
  <2>1. [Idle EXCEPT !.pc = "insert", !.task = t, !.price = price] \in Entry
    BY IdleFacts DEF Entry, Pcs
  <2>2. poll' \in [Polls -> Entry]
    BY <1>1, <2>1 DEF Poll, TypeOK
  <2> QED
    BY <1>1, <2>2 DEF Poll, ClaimSet, money, other, TypeOK
<1>2. CASE DropTask(p, t) \/ ClaimUnanswered(p, t)
  BY <1>2, FaultType DEF DropTask, ClaimUnanswered, ClaimSet, money, other, TypeOK
<1> QED
  BY <1>1, <1>2

\* The statements of Apply before its commit.
LEMMA ApplyType ==
    ASSUME TypeOK, NEW p \in Polls,
           InsertKey(p) \/ LookupKey(p) \/ CheckArchive(p) \/ Allocate(p) \/ Rollback(p)
    PROVE  TypeOK'
<1>1. CASE InsertKey(p) \/ LookupKey(p) \/ CheckArchive(p)
  <2>1. PICK pc \in Pcs : Goes(p, pc)
    BY <1>1 DEF InsertKey, LookupKey, CheckArchive, Pcs
  <2>2. poll' \in [Polls -> Entry]
    BY <2>1, GoesFacts DEF Moved
  <2> QED
    BY <1>1, <2>2 DEF InsertKey, LookupKey, CheckArchive, money, other, TypeOK
<1>2. CASE Allocate(p)
  <2>1. (IF win < day THEN 0 ELSE used) \in 0..SubLimit /\ day \in Days
    BY PriceAssumption DEF TypeOK
  <2> DEFINE snap == IF win < day THEN 0 ELSE used
  <2>2. [poll[p] EXCEPT !.pc = "commit", !.window = day, !.seen = snap] \in Entry
    BY <2>1 DEF TypeOK, Entry, Pcs
  <2>3. poll' = [poll EXCEPT ![p] = [poll[p] EXCEPT !.pc = "commit", !.window = day,
                                                   !.seen = snap]]
    BY <1>2 DEF Allocate
  <2>4. poll' \in [Polls -> Entry]
    BY <2>2, <2>3 DEF TypeOK
  <2> QED
    BY <1>2, <2>4 DEF Allocate, money, other, TypeOK
<1>3. CASE Rollback(p)
  <2>1. PICK pc \in Pcs : Ends(p, pc)
    BY <1>3 DEF Rollback, Pcs
  <2>2. poll' \in [Polls -> Entry]
    BY <2>1, EndsFacts DEF Moved
  <2> QED
    BY <1>3, <2>2, FaultType DEF Rollback, money, other, TypeOK
<1> QED
  BY <1>1, <1>2, <1>3

LEMMA CommitType ==
    ASSUME TypeOK, Priced, NEW p \in Polls, Commit(p) PROVE TypeOK'
<1>1. PICK pc \in {"logOk", "logFailed"} : Ends(p, pc)
  BY DEF Commit
<1>2. poll' \in [Polls -> Entry]
  BY <1>1, EndsFacts DEF Moved, Pcs
<1>3. ~At(p, {"idle"}) /\ poll[p].price \in Prices /\ poll[p].price \in Nat
  BY PriceFacts DEF Commit, At, Priced
<1>4. /\ poll[p].task \in Tasks /\ poll[p].window \in Days
  BY DEF TypeOK, Entry
<1>5. dedup' \in [Tasks -> Prices \cup {0}] /\ paid' \in [Tasks -> Nat]
  BY <1>3, <1>4 DEF Commit, ChargeEffect, TypeOK
<1>6. used' \in 0..SubLimit /\ win' \in Days /\ balance' \in Int
  BY <1>3, <1>4, ShareFacts DEF Commit, ChargeEffect, TypeOK
<1>7. covered' \in Nat
  BY ShareFacts DEF Commit, ChargeEffect, TypeOK
<1>8. faults' \in 0..MaxFaults
  BY FaultType DEF Commit
<1> QED
  BY <1>2, <1>5, <1>6, <1>7, <1>8 DEF Commit, ChargeEffect, other, TypeOK

\* The steps after Apply, and the death of the process.
LEMMA AfterType ==
    ASSUME TypeOK, NEW p \in Polls,
           WriteLog(p) \/ WriteFailedLog(p) \/ ReleaseClaim(p) \/ PollDies(p)
    PROVE  TypeOK'
<1>1. poll[p].task \in Tasks /\ poll[p].price \in Prices \cup {0}
  BY DEF TypeOK, Entry
<1>2. poll' \in [Polls -> Entry]
  <2>1. CASE poll' = [poll EXCEPT ![p] = Idle]
    BY <2>1, RestFacts
  <2>2. CASE Goes(p, "release")
    BY <2>2, GoesFacts DEF Moved, Pcs
  <2> QED
    BY <2>1, <2>2 DEF WriteLog, WriteFailedLog, ReleaseClaim, PollDies
<1>3. log' \in [Tasks -> Prices \cup {0, -1}]
  BY <1>1 DEF WriteLog, WriteFailedLog, ReleaseClaim, PollDies, FirstLog, TypeOK
<1>4. claim' \subseteq Tasks /\ lost' \subseteq Tasks
  BY <1>1 DEF WriteLog, WriteFailedLog, ReleaseClaim, PollDies, TypeOK
<1>5. faults' \in 0..MaxFaults
  BY FaultType DEF WriteLog, WriteFailedLog, ReleaseClaim, PollDies
<1> QED
  BY <1>2, <1>3, <1>4, <1>5
  DEF WriteLog, WriteFailedLog, ReleaseClaim, PollDies, money, other, TypeOK

\* The other writers of the tables, and the clock.
LEMMA OthersType ==
    ASSUME TypeOK,
           \/ \E t \in Tasks : ArchiveKey(t) \/ ClaimGone(t)
           \/ NewDay \/ ReadWindow \/ ResetDailyUsage \/ AdminResetQuota
    PROVE  TypeOK'
<1>1. 0 \in 0..SubLimit
  BY PriceAssumption
<1>2. ASSUME NEW t \in Tasks, ArchiveKey(t) PROVE TypeOK'
  BY <1>2 DEF ArchiveKey, other, TypeOK
<1>3. ASSUME NEW t \in Tasks, ClaimGone(t) PROVE TypeOK'
  BY <1>3 DEF ClaimGone, money, other, TypeOK
<1>4. CASE NewDay
  BY <1>4, BoundAssumption DEF NewDay, money, Days, TypeOK
<1>5. CASE ReadWindow
  BY <1>5 DEF ReadWindow, money, TypeOK
<1>6. CASE ResetDailyUsage
  BY <1>1, <1>6 DEF ResetDailyUsage, TypeOK
<1>7. CASE AdminResetQuota
  BY <1>1, <1>7, FaultType DEF AdminResetQuota, TypeOK
<1> QED
  BY <1>2, <1>3, <1>4, <1>5, <1>6, <1>7

LEMMA TypeStep == TypeOK /\ Priced /\ [Next]_vars => TypeOK'
<1> SUFFICES ASSUME TypeOK, Priced, [Next]_vars PROVE TypeOK'
  OBVIOUS
<1>1. CASE UNCHANGED vars
  BY <1>1 DEF vars, money, other, TypeOK
<1> QED
  BY <1>1, HandlerType, ApplyType, CommitType, AfterType, OthersType, PriceFacts
  DEF Next, Step

-----------------------------------------------------------------------------
(* A task is charged once                                                  *)

LEMMA KeyInit == Init => KeyInv
BY IdleFacts DEF Init, KeyInv, Priced, KeyIsFree, NotInArchive, OneRow, LogsRecorded,
   ChargedOnce, Recorded, At, HoldsKey

\* A step of one poll that leaves the tables alone.
LEMMA KeyPoll ==
    ASSUME KeyInv, NEW p \in Polls, Others(p), UNCHANGED <<dedup, archive, paid>>,
           poll'[p].pc # "idle" => poll'[p].price \in Prices,
           poll'[p].pc \in HoldsKey =>
               /\ dedup[poll'[p].task] = 0
               /\ \A q \in Polls : q # p /\ At(q, HoldsKey) => poll[q].task # poll'[p].task,
           poll'[p].pc \in {"lock", "commit"} => archive[poll'[p].task] = 0,
           poll'[p].pc = "logOk" => Recorded(poll'[p].task) = poll'[p].price
    PROVE  KeyInv'
<1>1. \A t : Recorded(t)' = Recorded(t)
  BY DEF Recorded
<1>2. OneRow' /\ ChargedOnce'
  BY <1>1 DEF KeyInv, OneRow, ChargedOnce
<1>3. Priced'
  BY DEF KeyInv, Priced, At, Others
<1>4. KeyIsFree'
  BY DEF KeyInv, KeyIsFree, At, Others
<1>5. NotInArchive'
  BY DEF KeyInv, NotInArchive, At, Others
<1>6. LogsRecorded'
  BY <1>1 DEF KeyInv, LogsRecorded, At, Others
<1> QED
  BY <1>2, <1>3, <1>4, <1>5, <1>6 DEF KeyInv

LEMMA KeyHandler ==
    ASSUME TypeOK, KeyInv, NEW p \in Polls, NEW t \in Tasks, NEW price \in Prices,
           DropTask(p, t) \/ ClaimUnanswered(p, t) \/ Poll(p, t, price)
    PROVE  KeyInv'
<1>1. CASE Poll(p, t, price)
  <2>1. poll'[p] = [Idle EXCEPT !.pc = "insert", !.task = t, !.price = price] /\ Others(p)
    BY <1>1 DEF Poll, TypeOK, Others
  <2>2. poll'[p].pc = "insert" /\ poll'[p].price = price
    BY <2>1 DEF Idle
  <2> QED
    BY <1>1, <2>1, <2>2, KeyPoll DEF Poll, money, HoldsKey
<1>2. CASE DropTask(p, t) \/ ClaimUnanswered(p, t)
  BY <1>2 DEF DropTask, ClaimUnanswered, money, KeyInv, Priced, KeyIsFree,
     NotInArchive, OneRow, LogsRecorded, ChargedOnce, Recorded, At
<1> QED
  BY <1>1, <1>2

LEMMA KeyApply ==
    ASSUME TypeOK, KeyInv, NEW p \in Polls,
           InsertKey(p) \/ LookupKey(p) \/ CheckArchive(p) \/ Allocate(p) \/ Rollback(p)
    PROVE  KeyInv'
<1>1. CASE InsertKey(p)
  <2>1. PICK pc \in {"archive", "lookup"} :
            Goes(p, pc) /\ (pc = "archive" => dedup[poll[p].task] = 0)
    BY <1>1 DEF InsertKey
  <2>2. Moved(p, pc)
    BY <2>1, GoesFacts DEF Pcs
  <2>3. \A q \in Polls : At(q, HoldsKey) => poll[q].task # poll[p].task
    BY <1>1 DEF InsertKey, KeyTaken
  <2>4. poll[p].price \in Prices
    BY <1>1 DEF InsertKey, At, KeyInv, Priced
  <2> QED
    BY <1>1, <2>1, <2>2, <2>3, <2>4, KeyPoll DEF InsertKey, money, Moved, HoldsKey
<1>2. CASE LookupKey(p)
  <2>1. PICK pc \in {"logOk", "logFailed"} :
            Goes(p, pc) /\ (pc = "logOk" => dedup[poll[p].task] = poll[p].price)
    BY <1>2 DEF LookupKey
  <2>2. Moved(p, pc)
    BY <2>1, GoesFacts DEF Pcs
  <2>3. poll[p].price \in Prices
    BY <1>2 DEF LookupKey, At, KeyInv, Priced
  <2>4. pc = "logOk" => Recorded(poll[p].task) = poll[p].price
    BY <2>1, <2>3, PriceFacts DEF Recorded
  <2> QED
    BY <1>2, <2>2, <2>3, <2>4, KeyPoll DEF LookupKey, money, Moved, HoldsKey
<1>3. CASE CheckArchive(p)
  <2>1. PICK pc \in {"lock", "logOk", "logFailed"} :
            /\ Goes(p, pc)
            /\ pc = "lock" => archive[poll[p].task] = 0
            /\ pc = "logOk" => archive[poll[p].task] = poll[p].price
    BY <1>3 DEF CheckArchive, Archived
  <2>2. Moved(p, pc)
    BY <2>1, GoesFacts DEF Pcs
  <2>3. At(p, HoldsKey) /\ poll[p].price \in Prices
    BY <1>3 DEF CheckArchive, At, HoldsKey, KeyInv, Priced
  <2>4. /\ dedup[poll[p].task] = 0
        /\ \A q \in Polls : q # p /\ At(q, HoldsKey) => poll[q].task # poll[p].task
    BY <2>3 DEF KeyInv, KeyIsFree
  <2>5. pc = "logOk" => Recorded(poll[p].task) = poll[p].price
    BY <2>1, <2>4 DEF Recorded
  <2> QED
    BY <1>3, <2>1, <2>2, <2>3, <2>4, <2>5, KeyPoll DEF CheckArchive, money, Moved
<1>4. CASE Allocate(p)
  <2>1. Others(p) /\ poll'[p].pc = "commit" /\ poll'[p].task = poll[p].task
        /\ poll'[p].price = poll[p].price
    BY <1>4 DEF Allocate, TypeOK, Entry, Others
  <2>2. At(p, HoldsKey) /\ poll[p].price \in Prices
    BY <1>4 DEF Allocate, At, HoldsKey, KeyInv, Priced
  <2>3. /\ dedup[poll[p].task] = 0
        /\ \A q \in Polls : q # p /\ At(q, HoldsKey) => poll[q].task # poll[p].task
    BY <2>2 DEF KeyInv, KeyIsFree
  <2>4. archive[poll[p].task] = 0
    BY <1>4 DEF Allocate, At, KeyInv, NotInArchive
  <2> QED
    BY <1>4, <2>1, <2>2, <2>3, <2>4, KeyPoll DEF Allocate, money
<1>5. CASE Rollback(p)
  <2>1. PICK pc \in {"logFailed", "insert"} : Ends(p, pc)
    BY <1>5 DEF Rollback
  <2>2. Moved(p, pc)
    BY <2>1, EndsFacts DEF Pcs
  <2>3. poll[p].price \in Prices
    BY <1>5 DEF Rollback, At, HoldsKey, KeyInv, Priced
  <2> QED
    BY <1>5, <2>2, <2>3, KeyPoll DEF Rollback, money, Moved, HoldsKey
<1> QED
  BY <1>1, <1>2, <1>3, <1>4, <1>5

LEMMA KeyAfter ==
    ASSUME TypeOK, KeyInv, NEW p \in Polls,
           WriteLog(p) \/ WriteFailedLog(p) \/ ReleaseClaim(p) \/ PollDies(p)
    PROVE  KeyInv'
<1>1. CASE WriteFailedLog(p)
  <2>1. Moved(p, "release")
    BY <1>1, GoesFacts DEF WriteFailedLog, Pcs
  <2>2. poll[p].price \in Prices
    BY <1>1 DEF WriteFailedLog, At, KeyInv, Priced
  <2> QED
    BY <1>1, <2>1, <2>2, KeyPoll DEF WriteFailedLog, money, Moved, HoldsKey
<1>2. CASE WriteLog(p) \/ ReleaseClaim(p) \/ PollDies(p)
  <2>1. Others(p) /\ poll'[p].pc = "idle"
    BY <1>2, RestFacts DEF WriteLog, ReleaseClaim, PollDies
  <2> QED
    BY <1>2, <2>1, KeyPoll DEF WriteLog, ReleaseClaim, PollDies, money, HoldsKey
<1> QED
  BY <1>1, <1>2

\* The charge: what is recorded was not recorded before.
LEMMA CommitFacts ==
    ASSUME TypeOK, KeyInv, NEW p \in Polls, Commit(p)
    PROVE  LET t == poll[p].task IN
           /\ t \in Tasks /\ poll[p].price \in Prices
           /\ dedup[t] = 0 /\ archive[t] = 0 /\ paid[t] = 0
           /\ dedup'[t] = poll[p].price /\ paid'[t] = poll[p].price
           /\ \A u \in Tasks : u # t => dedup'[u] = dedup[u] /\ paid'[u] = paid[u]
           /\ archive' = archive
           /\ Others(p) /\ poll'[p].pc \in {"logOk", "logFailed"}
           /\ poll'[p].task = t /\ poll'[p].price = poll[p].price
<1> DEFINE t == poll[p].task
<1>1. t \in Tasks /\ poll[p].price \in Prices /\ poll[p].price \in Nat
  BY PriceFacts DEF TypeOK, Entry, Commit, At, KeyInv, Priced
<1>2. dedup[t] = 0 /\ archive[t] = 0
  BY DEF Commit, At, HoldsKey, KeyInv, KeyIsFree, NotInArchive
<1>3. paid[t] = 0
  BY <1>1, <1>2 DEF KeyInv, ChargedOnce, Recorded
<1>4. /\ dedup'[t] = poll[p].price /\ paid'[t] = poll[p].price
      /\ \A u \in Tasks : u # t => dedup'[u] = dedup[u] /\ paid'[u] = paid[u]
      /\ archive' = archive
  BY <1>1, <1>3 DEF Commit, ChargeEffect, TypeOK
<1>5. PICK pc \in {"logOk", "logFailed"} : Ends(p, pc)
  BY DEF Commit
<1>6. Moved(p, pc)
  BY <1>5, EndsFacts DEF Pcs
<1> QED
  BY <1>1, <1>2, <1>3, <1>4, <1>6 DEF Moved

LEMMA KeyCommit == ASSUME TypeOK, KeyInv, NEW p \in Polls, Commit(p) PROVE KeyInv'
<1> DEFINE t == poll[p].task
<1>1. \A u \in Tasks : u # t => Recorded(u)' = Recorded(u)
  BY CommitFacts DEF Recorded
<1>2. ~(dedup'[t] = 0) /\ dedup'[t] = poll[p].price /\ paid'[t] = poll[p].price
  BY CommitFacts, PriceFacts
<1>3. At(p, HoldsKey)
  BY DEF Commit, At, HoldsKey
<1>4. \A q \in Polls : q # p /\ At(q, HoldsKey) => poll[q].task # t
  BY <1>3 DEF KeyInv, KeyIsFree
<1>5. \A q \in Polls : poll[q].task \in Tasks
  BY DEF TypeOK, Entry
<1>6. ChargedOnce'
  BY <1>1, <1>2, CommitFacts DEF KeyInv, ChargedOnce, Recorded
<1>7. OneRow'
  BY CommitFacts DEF KeyInv, OneRow
<1>8. Priced' /\ NotInArchive'
  BY CommitFacts DEF KeyInv, Priced, NotInArchive, At, Others
<1>9. KeyIsFree'
  BY <1>4, <1>5, CommitFacts DEF KeyInv, KeyIsFree, At, HoldsKey, Others
<1>10. LogsRecorded'
  <2> DEFINE Now(u) == IF dedup'[u] # 0 THEN dedup'[u] ELSE archive'[u]
  <2>1. SUFFICES ASSUME NEW q \in Polls, poll'[q].pc = "logOk"
                 PROVE  Now(poll'[q].task) = poll'[q].price
    BY DEF LogsRecorded, At, Recorded
  <2>2. CASE q = p
    BY <2>2, CommitFacts, PriceFacts
  <2>3. CASE q # p
    <3>1. poll'[q] = poll[q] /\ Recorded(poll[q].task) = poll[q].price
          /\ poll[q].price \in Prices
      BY <2>1, <2>3, CommitFacts DEF Others, KeyInv, LogsRecorded, Priced, At
    <3>2. poll[q].task # t
      BY <3>1, CommitFacts, PriceFacts DEF Recorded
    <3>3. Now(poll[q].task) = Recorded(poll[q].task)
      BY <1>5, <3>2, CommitFacts DEF Recorded
    <3> QED
      BY <3>1, <3>3
  <2> QED
    BY <2>2, <2>3
<1> QED
  BY <1>6, <1>7, <1>8, <1>9, <1>10 DEF KeyInv

\* The archive job keeps what is recorded.
LEMMA ArchiveFacts ==
    ASSUME TypeOK, KeyInv, NEW t \in Tasks, ArchiveKey(t)
    PROVE  /\ dedup[t] # 0 /\ dedup'[t] = 0 /\ archive'[t] = dedup[t]
           /\ \A u \in Tasks : u # t => dedup'[u] = dedup[u] /\ archive'[u] = archive[u]
           /\ \A u \in Tasks : Recorded(u)' = Recorded(u)
<1>1. /\ dedup[t] # 0 /\ dedup'[t] = 0 /\ archive'[t] = dedup[t]
      /\ \A u \in Tasks : u # t => dedup'[u] = dedup[u] /\ archive'[u] = archive[u]
  BY DEF ArchiveKey, TypeOK, KeyInv, OneRow
<1> QED
  BY <1>1 DEF Recorded

LEMMA KeyOthers ==
    ASSUME TypeOK, KeyInv,
           \/ \E t \in Tasks : ArchiveKey(t) \/ ClaimGone(t)
           \/ NewDay \/ ReadWindow \/ ResetDailyUsage \/ AdminResetQuota
    PROVE  KeyInv'
<1>1. ASSUME NEW t \in Tasks, ArchiveKey(t) PROVE KeyInv'
  <2>1. poll' = poll /\ paid' = paid /\ \A q \in Polls : poll[q].task \in Tasks
    BY <1>1 DEF ArchiveKey, TypeOK, Entry
  <2>2. Priced' /\ LogsRecorded' /\ ChargedOnce'
    BY <1>1, <2>1, ArchiveFacts DEF KeyInv, Priced, LogsRecorded, ChargedOnce, At
  <2>3. KeyIsFree' /\ OneRow'
    BY <1>1, <2>1, ArchiveFacts DEF KeyInv, KeyIsFree, OneRow, At
  <2>4. NotInArchive'
    <3> SUFFICES ASSUME NEW q \in Polls, At(q, {"lock", "commit"})
                 PROVE  archive'[poll[q].task] = 0
      BY <2>1 DEF NotInArchive, At
    <3>1. dedup[poll[q].task] = 0 /\ archive[poll[q].task] = 0
      BY DEF KeyInv, KeyIsFree, NotInArchive, At, HoldsKey
    <3> QED
      BY <1>1, <2>1, <3>1, ArchiveFacts
  <2> QED
    BY <2>2, <2>3, <2>4 DEF KeyInv
<1>2. CASE UNCHANGED <<dedup, archive, paid, poll>>
  BY <1>2 DEF KeyInv, Priced, KeyIsFree, NotInArchive, OneRow, LogsRecorded,
     ChargedOnce, Recorded, At
<1> QED
  BY <1>1, <1>2 DEF ClaimGone, NewDay, ReadWindow, ResetDailyUsage, AdminResetQuota, money

LEMMA KeyStep == TypeOK /\ KeyInv /\ [Next]_vars => KeyInv'
<1> SUFFICES ASSUME TypeOK, KeyInv, [Next]_vars PROVE KeyInv'
  OBVIOUS
<1>1. CASE UNCHANGED vars
  BY <1>1 DEF vars, money, KeyInv, Priced, KeyIsFree, NotInArchive, OneRow, LogsRecorded,
     ChargedOnce, Recorded, At
<1> QED
  BY <1>1, KeyHandler, KeyApply, KeyCommit, KeyAfter, KeyOthers, PriceFacts DEF Next, Step

-----------------------------------------------------------------------------
(* The window of the subscription                                          *)

LEMMA WindowInit == Init => WindowInv
BY IdleFacts DEF Init, WindowInv, RowsHeld, PassedWindow, UsageOfWindow, At, HoldsRows

\* A step of one poll that does not take the rows, and leaves them alone.
LEMMA WindowPoll ==
    ASSUME WindowInv, NEW p \in Polls, Others(p), poll'[p].pc # "commit",
           UNCHANGED <<used, win, covered, day, reset>>
    PROVE  WindowInv'
BY DEF WindowInv, RowsHeld, PassedWindow, UsageOfWindow, At, HoldsRows, Others

LEMMA WindowHandler ==
    ASSUME TypeOK, WindowInv, NEW p \in Polls, NEW t \in Tasks, NEW price \in Prices,
           DropTask(p, t) \/ ClaimUnanswered(p, t) \/ Poll(p, t, price)
    PROVE  WindowInv'
<1>1. CASE Poll(p, t, price)
  <2>1. poll'[p] = [Idle EXCEPT !.pc = "insert", !.task = t, !.price = price] /\ Others(p)
    BY <1>1 DEF Poll, TypeOK, Others
  <2>2. poll'[p].pc = "insert"
    BY <2>1 DEF Idle
  <2> QED
    BY <1>1, <2>1, <2>2, WindowPoll DEF Poll, money, other
<1>2. CASE DropTask(p, t) \/ ClaimUnanswered(p, t)
  BY <1>2 DEF DropTask, ClaimUnanswered, money, other, WindowInv, RowsHeld,
     PassedWindow, UsageOfWindow, At
<1> QED
  BY <1>1, <1>2

LEMMA WindowApply ==
    ASSUME TypeOK, WindowInv, NEW p \in Polls,
           InsertKey(p) \/ LookupKey(p) \/ CheckArchive(p) \/ Allocate(p) \/ Rollback(p)
    PROVE  WindowInv'
<1>1. CASE InsertKey(p) \/ LookupKey(p) \/ CheckArchive(p)
  <2>1. PICK pc \in Pcs \ {"commit"} : Goes(p, pc)
    BY <1>1 DEF InsertKey, LookupKey, CheckArchive, Pcs
  <2>2. Moved(p, pc)
    BY <2>1, GoesFacts
  <2> QED
    BY <1>1, <2>2, WindowPoll DEF InsertKey, LookupKey, CheckArchive, money, other, Moved
<1>2. CASE Allocate(p)
  <2>1. /\ Others(p) /\ poll'[p].window = day
        /\ poll'[p].seen = IF win < day THEN 0 ELSE used
    BY <1>2 DEF Allocate, TypeOK, Entry, Others
  <2>2. \A q \in Polls : ~At(q, HoldsRows)
    BY <1>2 DEF Allocate, UserLocked
  <2>3. UNCHANGED <<used, win, covered, day, reset>>
    BY <1>2 DEF Allocate, money, other
  <2>4. win <= day /\ day \in Nat
    BY DayFacts DEF TypeOK, WindowInv, PassedWindow
  <2>5. RowsHeld'
    BY <2>1, <2>2, <2>3, <2>4 DEF RowsHeld, At, HoldsRows, Others
  <2> QED
    BY <2>3, <2>5 DEF WindowInv, PassedWindow, UsageOfWindow
<1>3. CASE Rollback(p)
  <2>1. PICK pc \in Pcs \ {"commit"} : Ends(p, pc)
    BY <1>3 DEF Rollback, Pcs
  <2>2. Moved(p, pc)
    BY <2>1, EndsFacts
  <2> QED
    BY <1>3, <2>2, WindowPoll DEF Rollback, money, other, Moved
<1> QED
  BY <1>1, <1>2, <1>3

LEMMA WindowCommit ==
    ASSUME TypeOK, WindowInv, NEW p \in Polls, Commit(p) PROVE WindowInv'
<1>1. PICK pc \in {"logOk", "logFailed"} : Ends(p, pc)
  BY DEF Commit
<1>2. Others(p) /\ poll'[p].pc # "commit"
  BY <1>1, EndsFacts DEF Moved, Pcs
<1>3. At(p, HoldsRows)
  BY DEF Commit, At, HoldsRows
<1>4. /\ win <= poll[p].window /\ poll[p].window <= day
      /\ poll[p].seen = IF win < poll[p].window THEN 0 ELSE used
      /\ \A q \in Polls : q # p => ~At(q, HoldsRows)
  BY <1>3 DEF WindowInv, RowsHeld
<1>5. /\ used' = poll[p].seen + Share(p) /\ win' = poll[p].window
      /\ covered' = Share(p) + IF poll[p].window = win THEN covered ELSE 0
      /\ day' = day /\ reset' = reset
  BY DEF Commit, ChargeEffect, other
<1>6. /\ Share(p) \in Nat /\ used \in Nat /\ covered \in Nat
      /\ win \in Nat /\ poll[p].window \in Nat /\ day \in Nat
  <2>1. Share(p) \in Nat
    BY ShareFacts
  <2>2. used \in Nat /\ covered \in Nat /\ win \in Nat /\ day \in Nat
    BY DayFacts, PriceAssumption DEF TypeOK
  <2>3. poll[p].window \in Nat
    BY DayFacts DEF TypeOK, Entry
  <2> QED
    BY <2>1, <2>2, <2>3
<1>7. UsageOfWindow'
  <2>1. used = covered
    BY DEF WindowInv, UsageOfWindow
  <2>2. CASE win = poll[p].window
    BY <1>4, <1>5, <1>6, <2>1, <2>2 DEF UsageOfWindow
  <2>3. CASE win < poll[p].window
    BY <1>4, <1>5, <1>6, <2>3 DEF UsageOfWindow
  <2> QED
    BY <1>4, <1>6, <2>2, <2>3
<1>8. RowsHeld'
  BY <1>2, <1>4 DEF RowsHeld, At, HoldsRows, Others
<1>9. PassedWindow'
  BY <1>4, <1>5 DEF WindowInv, PassedWindow
<1> QED
  BY <1>7, <1>8, <1>9 DEF WindowInv

LEMMA WindowAfter ==
    ASSUME TypeOK, WindowInv, NEW p \in Polls,
           WriteLog(p) \/ WriteFailedLog(p) \/ ReleaseClaim(p) \/ PollDies(p)
    PROVE  WindowInv'
<1>1. Others(p) /\ poll'[p].pc # "commit"
  <2>1. CASE poll' = [poll EXCEPT ![p] = Idle]
    BY <2>1, RestFacts
  <2>2. CASE Goes(p, "release")
    BY <2>2, GoesFacts DEF Moved, Pcs
  <2> QED
    BY <2>1, <2>2 DEF WriteLog, WriteFailedLog, ReleaseClaim, PollDies
<1> QED
  BY <1>1, WindowPoll DEF WriteLog, WriteFailedLog, ReleaseClaim, PollDies, money, other

\* A reset that is late finds another window than the one it read.
LEMMA WindowOthers ==
    ASSUME TypeOK, WindowInv,
           \/ \E t \in Tasks : ArchiveKey(t) \/ ClaimGone(t)
           \/ NewDay \/ ReadWindow \/ ResetDailyUsage \/ AdminResetQuota
    PROVE  WindowInv'
<1>1. win \in Nat /\ day \in Nat /\ reset \in Int /\ win <= day /\ reset < day
  BY DayFacts DEF TypeOK, WindowInv, PassedWindow
<1>2. CASE \E t \in Tasks : ArchiveKey(t) \/ ClaimGone(t)
  <2>1. UNCHANGED <<poll, used, win, covered, day, reset>>
    BY <1>2 DEF ArchiveKey, ClaimGone, money, other
  <2> QED
    BY <2>1 DEF WindowInv, RowsHeld, PassedWindow, UsageOfWindow, At
<1>3. CASE NewDay
  <2>1. /\ \A q \in Polls : poll[q].window \in Nat
        /\ day' = day + 1 /\ UNCHANGED <<poll, win, used, covered, reset>>
    BY <1>3, DayFacts DEF NewDay, money, TypeOK, Entry
  <2>2. RowsHeld'
    BY <1>1, <2>1 DEF WindowInv, RowsHeld, At
  <2> QED
    BY <1>1, <2>1, <2>2 DEF WindowInv, PassedWindow, UsageOfWindow
<1>4. CASE ReadWindow
  BY <1>1, <1>4 DEF ReadWindow, money, WindowInv, RowsHeld, PassedWindow, UsageOfWindow, At
<1>5. CASE ResetDailyUsage
  <2>1. poll' = poll /\ day' = day /\ reset' = -1 /\ \A q \in Polls : ~At(q, HoldsRows)
    BY <1>5 DEF ResetDailyUsage, SubscriptionLocked
  <2>2. RowsHeld'
    BY <2>1 DEF RowsHeld, At
  <2>3. PassedWindow'
    BY <1>1, <1>5, <2>1 DEF ResetDailyUsage, PassedWindow
  <2>4. UsageOfWindow'
    BY <1>1, <1>5 DEF ResetDailyUsage, StillWindow, WindowInv, UsageOfWindow
  <2> QED
    BY <2>2, <2>3, <2>4 DEF WindowInv
<1>6. CASE AdminResetQuota
  <2>1. /\ poll' = poll /\ day' = day /\ reset' = reset /\ used' = 0 /\ covered' = 0
        /\ win' = day /\ \A q \in Polls : ~At(q, HoldsRows)
    BY <1>6 DEF AdminResetQuota, SubscriptionLocked
  <2>2. RowsHeld'
    BY <2>1 DEF RowsHeld, At
  <2> QED
    BY <1>1, <2>1, <2>2 DEF WindowInv, PassedWindow, UsageOfWindow
<1> QED
  BY <1>2, <1>3, <1>4, <1>5, <1>6

LEMMA WindowStep == TypeOK /\ WindowInv /\ [Next]_vars => WindowInv'
<1> SUFFICES ASSUME TypeOK, WindowInv, [Next]_vars PROVE WindowInv'
  OBVIOUS
<1>1. CASE UNCHANGED vars
  BY <1>1 DEF vars, money, other, WindowInv, RowsHeld, PassedWindow, UsageOfWindow, At
<1> QED
  BY <1>1, WindowHandler, WindowApply, WindowCommit, WindowAfter, WindowOthers, PriceFacts
  DEF Next, Step

-----------------------------------------------------------------------------
(* Claims and logs                                                         *)

\* What is recorded stays recorded.
LEMMA RecordStays ==
    ASSUME TypeOK, KeyInv, [Next]_vars, NEW t \in Tasks, Recorded(t) # 0
    PROVE  Recorded(t)' = Recorded(t)
<1>1. ASSUME NEW p \in Polls, Commit(p) PROVE Recorded(t)' = Recorded(t)
  BY <1>1, CommitFacts DEF Recorded
<1>2. ASSUME NEW u \in Tasks, ArchiveKey(u) PROVE Recorded(t)' = Recorded(t)
  BY <1>2, ArchiveFacts
<1>3. CASE UNCHANGED <<dedup, archive>>
  BY <1>3 DEF Recorded
<1>4. \/ UNCHANGED <<dedup, archive>>
      \/ \E p \in Polls : Commit(p)
      \/ \E u \in Tasks : ArchiveKey(u)
  BY DEF Next, Step, vars, money, DropTask, ClaimUnanswered, Poll, InsertKey, LookupKey,
     CheckArchive, Allocate, WriteLog, WriteFailedLog, ReleaseClaim, Rollback, PollDies,
     ClaimGone, NewDay, ReadWindow, ResetDailyUsage, AdminResetQuota
<1> QED
  BY <1>1, <1>2, <1>3, <1>4

\* A log gets a cost only from a poll that found it recorded.
LEMMA LogStep ==
    TypeOK /\ KeyInv /\ LogIsCharged /\ [Next]_vars => LogIsCharged'
<1> SUFFICES ASSUME TypeOK, KeyInv, LogIsCharged, [Next]_vars, NEW t \in Tasks, log'[t] > 0
             PROVE  log'[t] = Recorded(t)'
  BY DEF LogIsCharged
<1>1. CASE log'[t] = log[t]
  <2>1. log[t] = Recorded(t) /\ Recorded(t) # 0
    BY <1>1 DEF LogIsCharged
  <2> QED
    BY <1>1, <2>1, RecordStays
<1>2. CASE log'[t] # log[t]
  <2>1. PICK p \in Polls : WriteLog(p) \/ WriteFailedLog(p)
    BY <1>2 DEF Next, Step, vars, DropTask, ClaimUnanswered, Poll, InsertKey, LookupKey,
       CheckArchive, Allocate, Commit, ReleaseClaim, Rollback, PollDies, ArchiveKey,
       ClaimGone, NewDay, ReadWindow, ResetDailyUsage, AdminResetQuota
  <2>2. poll[p].task = t
    BY <1>2, <2>1 DEF WriteLog, WriteFailedLog, FirstLog, TypeOK
  <2>3. CASE WriteLog(p)
    <3>1. log'[t] = poll[p].price
      BY <1>2, <2>2, <2>3 DEF WriteLog, FirstLog, TypeOK
    <3>2. Recorded(t) = poll[p].price
      BY <2>2, <2>3 DEF WriteLog, KeyInv, LogsRecorded
    <3> QED
      BY <3>1, <3>2, RecordStays
  <2>4. CASE WriteFailedLog(p)
    BY <1>2, <2>2, <2>4 DEF WriteFailedLog, FirstLog, TypeOK
  <2> QED
    BY <2>1, <2>3, <2>4
<1> QED
  BY <1>1, <1>2

\* A poll leaves the task of its claim only when the task is recorded, with the
\* claim, or lost.
LEMMA OwnerStep ==
    TypeOK /\ KeyInv /\ ClaimHasOwner /\ [Next]_vars => ClaimHasOwner'
<1> SUFFICES ASSUME TypeOK, KeyInv, ClaimHasOwner, [Next]_vars PROVE ClaimHasOwner'
  OBVIOUS
<1>0. claim' \subseteq Tasks
  BY TypeStep DEF KeyInv, TypeOK
<1> SUFFICES ASSUME NEW t \in Tasks, t \in claim', t \notin lost', Recorded(t)' = 0
             PROVE  \E p \in Polls : poll'[p].task = t /\ poll'[p].pc # "idle"
  BY <1>0 DEF ClaimHasOwner, At
<1>1. Recorded(t) = 0
  BY RecordStays
<1> DEFINE Owner(p) == poll[p].task = t /\ poll[p].pc # "idle"
           Stays(p) == Owner(p) => poll'[p].task = t /\ poll'[p].pc # "idle"
<1>2. CASE \E p \in Polls, u \in Tasks :
              DropTask(p, u) \/ ClaimUnanswered(p, u) \/ \E price \in Prices : Poll(p, u, price)
  <2>1. PICK p \in Polls, u \in Tasks :
              DropTask(p, u) \/ ClaimUnanswered(p, u) \/ \E price \in Prices : Poll(p, u, price)
    BY <1>2
  <2>2. CASE DropTask(p, u) \/ ClaimUnanswered(p, u)
    BY <1>1, <2>2 DEF DropTask, ClaimUnanswered, ClaimSet, ClaimHasOwner, At
  <2>3. ASSUME NEW price \in Prices, Poll(p, u, price)
        PROVE  \E q \in Polls : poll'[q].task = t /\ poll'[q].pc # "idle"
    <3>1. poll'[p] = [Idle EXCEPT !.pc = "insert", !.task = u, !.price = price] /\ Others(p)
      BY <2>3 DEF Poll, TypeOK, Others
    <3>2. poll'[p].pc = "insert" /\ poll'[p].task = u /\ poll[p].pc = "idle"
      BY <2>3, <3>1 DEF Idle, Poll, ClaimSet, At
    <3>3. CASE u = t
      BY <3>2, <3>3
    <3>4. CASE u # t
      <4>1. t \in claim \ lost
        BY <2>3, <3>4 DEF Poll, ClaimSet
      <4>2. PICK q \in Polls : Owner(q)
        BY <1>1, <4>1 DEF ClaimHasOwner, At
      <4> QED
        BY <3>1, <3>2, <4>2 DEF Others
    <3> QED
      BY <3>3, <3>4
  <2> QED
    BY <2>1, <2>2, <2>3
<1>3. CASE \E p \in Polls : InsertKey(p) \/ LookupKey(p) \/ CheckArchive(p) \/ Allocate(p)
                            \/ Rollback(p) \/ WriteFailedLog(p)
  <2>1. PICK p \in Polls : InsertKey(p) \/ LookupKey(p) \/ CheckArchive(p) \/ Allocate(p)
                           \/ Rollback(p) \/ WriteFailedLog(p)
    BY <1>3
  <2>2. t \in claim \ lost
    BY <2>1 DEF InsertKey, LookupKey, CheckArchive, Allocate, Rollback, WriteFailedLog
  <2>3. PICK q \in Polls : Owner(q)
    BY <1>1, <2>2 DEF ClaimHasOwner, At
  <2>4. Others(p) /\ poll'[p].task = poll[p].task /\ poll'[p].pc # "idle"
    <3>1. CASE \E pc \in Pcs \ {"idle"} : Goes(p, pc)
      BY <3>1, GoesFacts DEF Moved
    <3>2. CASE \E pc \in Pcs \ {"idle"} : Ends(p, pc)
      BY <3>2, EndsFacts DEF Moved
    <3>3. CASE Allocate(p)
      BY <3>3 DEF Allocate, TypeOK, Entry, Others
    <3> QED
      BY <2>1, <3>1, <3>2, <3>3
      DEF InsertKey, LookupKey, CheckArchive, Rollback, WriteFailedLog, Pcs
  <2> QED
    BY <2>3, <2>4 DEF Others
<1>4. CASE \E p \in Polls : WriteLog(p) \/ ReleaseClaim(p) \/ PollDies(p)
  <2>1. PICK p \in Polls : WriteLog(p) \/ ReleaseClaim(p) \/ PollDies(p)
    BY <1>4
  <2>2. t \in claim \ lost
    BY <2>1 DEF WriteLog, ReleaseClaim, PollDies
  <2>3. PICK q \in Polls : Owner(q)
    BY <1>1, <2>2 DEF ClaimHasOwner, At
  <2>4. poll[p].task # t
    <3>1. CASE WriteLog(p)
      <4>1. Recorded(poll[p].task) \in Prices
        BY <3>1 DEF WriteLog, At, KeyInv, LogsRecorded, Priced
      <4> QED
        BY <1>1, <4>1, PriceFacts
    <3>2. CASE ReleaseClaim(p)
      BY <3>2 DEF ReleaseClaim
    <3>3. CASE PollDies(p)
      BY <3>3 DEF PollDies
    <3> QED
      BY <2>1, <3>1, <3>2, <3>3
  <2>5. Others(p)
    BY <2>1, RestFacts DEF WriteLog, ReleaseClaim, PollDies
  <2> QED
    BY <2>3, <2>4, <2>5 DEF Others
<1>5. ASSUME NEW p \in Polls, Commit(p)
      PROVE  \E q \in Polls : poll'[q].task = t /\ poll'[q].pc # "idle"
  <2>1. t \in claim \ lost
    BY <1>5 DEF Commit
  <2>2. PICK q \in Polls : Owner(q)
    BY <1>1, <2>1 DEF ClaimHasOwner, At
  <2> QED
    BY <1>5, <2>2, CommitFacts DEF Others
<1>6. CASE UNCHANGED poll /\ t \in claim \ lost
  BY <1>1, <1>6 DEF ClaimHasOwner, At
<1>7. CASE \/ \E u \in Tasks : ArchiveKey(u) \/ ClaimGone(u)
           \/ NewDay \/ ReadWindow \/ ResetDailyUsage \/ AdminResetQuota \/ UNCHANGED vars
  <2>1. UNCHANGED poll /\ t \in claim
    BY <1>7 DEF ArchiveKey, ClaimGone, NewDay, ReadWindow, ResetDailyUsage,
       AdminResetQuota, vars
  <2>2. t \notin lost
    BY <1>7 DEF ArchiveKey, ClaimGone, NewDay, ReadWindow, ResetDailyUsage,
       AdminResetQuota, vars
  <2> QED
    BY <1>6, <2>1, <2>2
<1> QED
  BY <1>2, <1>3, <1>4, <1>5, <1>7 DEF Next, Step

-----------------------------------------------------------------------------
(* Theorems                                                                *)

LEMMA Initially == Init => IInv
<1>1. Init => ClaimHasOwner /\ LogIsCharged
  BY DEF Init, ClaimHasOwner, LogIsCharged
<1> QED
  BY <1>1, TypeInit, KeyInit, WindowInit DEF IInv

LEMMA Stays == IInv /\ [Next]_vars => IInv'
BY TypeStep, KeyStep, WindowStep, OwnerStep, LogStep DEF IInv, KeyInv

LEMMA Invariant == Spec => []IInv
BY Initially, Stays, PTL DEF Spec

\* No video is charged twice or otherwise than its record says, and a claim that
\* keeps other polls away has a charge or a poll behind it unless a fault left it
\* behind, for any number of polls, tasks, days and faults.
THEOREM Balanced == Spec => []BooksBalance
<1>1. IInv => BooksBalance
  BY DEF IInv, KeyInv, BooksBalance
<1> QED
  BY <1>1, Invariant, PTL

\* No charge overwrites a reset of the window and no late reset a charge.
THEOREM UsageCounted == Spec => []UsageOfWindow
<1>1. IInv => UsageOfWindow
  BY DEF IInv, WindowInv
<1> QED
  BY <1>1, Invariant, PTL

\* The cost a usage log shows is the cost that was charged.
THEOREM LogsCharged == Spec => []LogIsCharged
<1>1. IInv => LogIsCharged
  BY DEF IInv
<1> QED
  BY <1>1, Invariant, PTL
=============================================================================
