-------------------------- MODULE AuthCache_proofs --------------------------
(***************************************************************************)
(* Proofs about AuthCache, for any number of servers, changes and faults.  *)
(***************************************************************************)
EXTENDS AuthCache, TLAPS

\* The steps by what they do, for the proofs by cases.
LEMMA Cases ==
  ASSUME [Next]_vars
  PROVE
    \/ \E p \in Servers : Lookup(p) \/ Copy(p) \/ Load(p) \/ Store(p) \/ Share(p)
    \/ \E p \in Servers : Change(p) \/ WriterDeletes(p) \/ WriterPublishes(p)
    \/ \E p \in Servers : Claim(p)
    \/ \E p \in Servers, v \in Changes :
          DeleteEntry(p, v) \/ PublishEvent(p, v) \/ Record(p, v) \/ Retry(p, v)
    \/ \E p \in Servers : Deliver(p) \/ LoseMessage(p) \/ ForgetL1(p) \/ Restart(p)
    \/ \E v \in Changes : BecomeDue(v) \/ LeaseEnds(v)
    \/ ForgetL2
    \/ UNCHANGED vars
BY RoleAssumption DEF Next, Look, Write, Process, Time

LEMMA FaultFacts ==
  ASSUME TypeOK, Fault \/ NoFault PROVE faults' \in 0..MaxFaults
BY BoundAssumption DEF TypeOK, Fault, NoFault

\* What becomes of a server's memory.
LEMMA MemoryFacts ==
  ASSUME TypeOK, NEW p \in Servers, NEW e \in Entry, Remembers(p, e)
  PROVE  /\ l1' \in [Servers -> Entry]
         /\ l1'[p] = e
         /\ \A q \in Servers : q # p => l1'[q] = l1[q]
BY DEF TypeOK, Remembers

LEMMA NoEntryFacts == None \in Entry
BY DEF Entry

LEMMA ForgetFacts ==
  ASSUME TypeOK, NEW p \in Servers, Forgets(p)
  PROVE  /\ l1' \in [Servers -> Entry] /\ missed' \in [Servers -> BOOLEAN]
         /\ l1'[p] = None
         /\ Copying(p) => missed'[p] = missed[p]
         /\ \A q \in Servers : q # p => l1'[q] = l1[q] /\ missed'[q] = missed[q]
<1>1. Remembers(p, None) /\ missed' = [missed EXCEPT ![p] = @ /\ Copying(p)]
  BY DEF Forgets
<1>2. missed \in [Servers -> BOOLEAN] /\ Copying(p) \in BOOLEAN
  BY DEF TypeOK, Copying
<1>3. /\ missed' \in [Servers -> BOOLEAN]
      /\ Copying(p) => missed'[p] = missed[p]
      /\ \A q \in Servers : q # p => missed'[q] = missed[q]
  BY <1>1, <1>2
<1> QED
  BY <1>1, <1>3, MemoryFacts, NoEntryFacts

LEMMA VersionFacts ==
  /\ MaxVersion \in Nat /\ None \in Nat /\ None = MaxVersion + 1
  /\ Versions \subseteq Nat /\ Changes \subseteq Nat /\ Changes \subseteq Versions
  /\ \A v \in Versions : v < None
BY BoundAssumption DEF None, Versions, Changes

LEMMA GoesFacts ==
  ASSUME TypeOK, NEW p \in Servers, NEW v \in Changes,
         NEW pc \in {"publish", "record", "retry"}, Goes(p, v, pc)
  PROVE  /\ task' \in [Servers -> [Changes -> Task]]
         /\ task'[p][v] = [pc |-> pc, stage |-> task[p][v].stage]
         /\ \A q \in Servers, w \in Changes : q # p \/ w # v => task'[q][w] = task[q][w]
<1>1. [pc |-> pc, stage |-> task[p][v].stage] \in Task
  BY DEF TypeOK, Task
<1>2. task \in [Servers -> [Changes -> Task]]
  BY DEF TypeOK
<1> HIDE DEF Task
<1> QED
  BY <1>1, <1>2 DEF Goes

-----------------------------------------------------------------------------
(* Types                                                                   *)

LEMMA TypeStep == TypeOK /\ [Next]_vars => TypeOK'
<1> SUFFICES ASSUME TypeOK, [Next]_vars PROVE TypeOK'
  OBVIOUS
<1> USE BoundAssumption
<1>1. ASSUME NEW p \in Servers, Lookup(p) PROVE TypeOK'
  <2>1. [pc |-> "load", got |-> 0] \in Reader
    BY DEF Reader, Versions
  <2>2. InRedis => [pc |-> "copy", got |-> l2] \in Reader
    BY DEF Reader, TypeOK, InRedis, Entry
  <2>3. reader' \in [Servers -> Reader]
    BY <1>1, <2>1, <2>2 DEF Lookup, TypeOK
  <2>4. missed' \in [Servers -> BOOLEAN]
    BY <1>1 DEF Lookup, TypeOK
  <2> QED
    BY <1>1, <2>3, <2>4, FaultFacts DEF Lookup, TypeOK
<1>2. ASSUME NEW p \in Servers, Copy(p) PROVE TypeOK'
  <2>1. reader[p].got \in Versions /\ NoReader \in Reader
    BY DEF TypeOK, NoReader, Reader, Versions
  <2>2. reader[p].got \in Entry
    BY <2>1 DEF Entry
  <2> QED
    BY <1>2, <2>1, <2>2, MemoryFacts DEF Copy, TypeOK
<1>3. ASSUME NEW p \in Servers, Load(p) PROVE TypeOK'
  BY <1>3 DEF Load, TypeOK, memory, Reader
<1>4. ASSUME NEW p \in Servers, Store(p) PROVE TypeOK'
  <2>1. reader[p].got \in Versions /\ NoReader \in Reader
    BY DEF TypeOK, NoReader, Reader, Versions
  <2>2. reader[p].got \in Entry
    BY <2>1 DEF Entry
  <2>3. l1' \in [Servers -> Entry] /\ missed' \in [Servers -> BOOLEAN]
    BY <1>4, <2>2, MemoryFacts DEF Store, TypeOK
  <2> QED
    BY <1>4, <2>1, <2>3 DEF Store, TypeOK, Reader
<1>5. ASSUME NEW p \in Servers, Share(p) PROVE TypeOK'
  <2>1. reader[p].got \in Versions /\ NoReader \in Reader
    BY DEF TypeOK, NoReader, Reader, Versions
  <2> QED
    BY <1>5, <2>1, FaultFacts DEF Share, TypeOK, Entry, memory
<1>6. ASSUME NEW p \in Servers, Change(p) PROVE TypeOK'
  BY <1>6 DEF Change, TypeOK, memory, Versions
<1>7. ASSUME NEW p \in Servers, WriterDeletes(p) PROVE TypeOK'
  BY <1>7, ForgetFacts, FaultFacts DEF WriterDeletes, TypeOK
<1>8. ASSUME NEW p \in Servers, WriterPublishes(p) PROVE TypeOK'
  BY <1>8, FaultFacts DEF WriterPublishes, TypeOK, memory, Publish
<1>9. ASSUME NEW p \in Servers, Claim(p) PROVE TypeOK'
  <2>1. outbox' \in [Changes -> Event]
    BY <1>9 DEF Claim, TypeOK, ClaimedBy, Event
  <2>2. \A v \in Claimable : v \in Changes /\ outbox[v].stage \in {0, 1}
    BY DEF Claimable, Pending, Changes, Versions, TypeOK, Stages, Event
  <2>3. task' \in [Servers -> [Changes -> Task]]
    <3>1. \A v \in Claimable : [pc |-> "delete", stage |-> outbox[v].stage] \in Task
      BY <2>2 DEF Task
    <3>2. NoTask \in Task
      BY DEF NoTask, Task
    <3>3. [v \in Changes |-> IF v \in Claimable
              THEN [pc |-> "delete", stage |-> outbox[v].stage] ELSE NoTask] \in [Changes -> Task]
      BY <3>1, <3>2
    <3>4. task \in [Servers -> [Changes -> Task]]
      BY DEF TypeOK
    <3> QED
      BY <1>9, <3>3, <3>4 DEF Claim
  <2> QED
    BY <1>9, <2>1, <2>3, FaultFacts DEF Claim, TypeOK, memory
<1>10. ASSUME NEW p \in Servers, NEW v \in Changes, DeleteEntry(p, v) PROVE TypeOK'
  BY <1>10, ForgetFacts, FaultFacts, GoesFacts, NoEntryFacts DEF DeleteEntry, TypeOK
<1>11. ASSUME NEW p \in Servers, NEW v \in Changes, PublishEvent(p, v) PROVE TypeOK'
  <2>1. inbox' \in [Servers -> Nat]
    BY <1>11 DEF PublishEvent, TypeOK, Publish
  <2>2. task' \in [Servers -> [Changes -> Task]] /\ faults' \in 0..MaxFaults
    BY <1>11, FaultFacts, GoesFacts DEF PublishEvent
  <2> QED
    BY <1>11, <2>1, <2>2 DEF PublishEvent, TypeOK, memory
<1>12. ASSUME NEW p \in Servers, NEW v \in Changes, Record(p, v) PROVE TypeOK'
  <2>1. task[p][v].stage \in {0, 1}
    BY DEF TypeOK, Task
  <2>2. AfterPass(task[p][v].stage) \in Event
    BY <2>1 DEF AfterPass, Unclaimed, Event, Stages
  <2>3. task' \in [Servers -> [Changes -> Task]]
    BY <1>12 DEF Record, TypeOK, NoTask, Task
  <2> QED
    BY <1>12, <2>2, <2>3, FaultFacts DEF Record, TypeOK, memory
<1>13. ASSUME NEW p \in Servers, NEW v \in Changes, Retry(p, v) PROVE TypeOK'
  <2>1. task' \in [Servers -> [Changes -> Task]]
    BY <1>13 DEF Retry, TypeOK, NoTask, Task
  <2>2. Unclaimed(outbox[v].stage, FALSE) \in Event
    BY DEF TypeOK, Unclaimed, Event
  <2> QED
    BY <1>13, <2>1, <2>2, FaultFacts DEF Retry, TypeOK, memory
<1>14. ASSUME NEW p \in Servers, Deliver(p) PROVE TypeOK'
  <2>1. l1' \in [Servers -> Entry]
    BY <1>14, MemoryFacts, NoEntryFacts DEF Deliver
  <2>2. missed' \in [Servers -> BOOLEAN]
    BY <1>14 DEF Deliver, TypeOK, Copying
  <2> QED
    BY <1>14, <2>1, <2>2 DEF Deliver, TypeOK
<1>15. ASSUME NEW p \in Servers, LoseMessage(p) PROVE TypeOK'
  BY <1>15, FaultFacts DEF LoseMessage, TypeOK
<1>16. ASSUME NEW p \in Servers, ForgetL1(p) PROVE TypeOK'
  BY <1>16, ForgetFacts DEF ForgetL1, TypeOK
<1>17. ASSUME NEW p \in Servers, Restart(p) PROVE TypeOK'
  <2>1. NoReader \in Reader /\ NoTask \in Task
    BY DEF NoReader, Reader, Task, NoTask, Versions
  <2>2. outbox' \in [Changes -> Event]
    BY <1>17 DEF Restart, TypeOK, Event
  <2>3. task' \in [Servers -> [Changes -> Task]]
    BY <1>17, <2>1 DEF Restart, TypeOK
  <2>4. l1' \in [Servers -> Entry]
    BY <1>17, MemoryFacts, NoEntryFacts DEF Restart
  <2>5. missed' \in [Servers -> BOOLEAN]
    BY <1>17 DEF Restart, TypeOK
  <2> QED
    BY <1>17, <2>1, <2>2, <2>3, <2>4, <2>5, FaultFacts DEF Restart, TypeOK
<1>18. ASSUME NEW v \in Changes, BecomeDue(v) PROVE TypeOK'
  BY <1>18 DEF BecomeDue, TypeOK, memory, Event
<1>19. ASSUME NEW v \in Changes, LeaseEnds(v) PROVE TypeOK'
  BY <1>19, FaultFacts DEF LeaseEnds, TypeOK, memory, Event
<1>20. CASE ForgetL2
  BY <1>20 DEF ForgetL2, TypeOK, Entry, memory
<1>21. CASE UNCHANGED vars
  BY <1>21 DEF vars, memory, TypeOK
<1> QED
  BY <1>1, <1>2, <1>3, <1>4, <1>5, <1>6, <1>7, <1>8, <1>9, <1>10, <1>11, <1>12, <1>13,
     <1>14, <1>15, <1>16, <1>17, <1>18, <1>19, <1>20, <1>21, Cases

LEMMA TypeInit == Init => TypeOK
BY BoundAssumption DEF Init, TypeOK, Entry, NoReader, NoTask, Unclaimed, Event, Reader, Task, Versions, Stages, Changes

\* Every variable keeps its type.
THEOREM TypeCorrect == Spec => []TypeOK
<1> QED
  BY TypeInit, TypeStep, PTL DEF Spec

-----------------------------------------------------------------------------
(* The inductive invariant                                                 *)

\* No lookup is about to store what it read before the change.
NoOlder(v) == \A p \in Servers : ~Older(p, v)

\* The server remembers, or is about to copy, what is of before the change.
HoldsOlder(p, v) == l1[p] < v \/ (Copying(p) /\ reader[p].got < v)

\* Whoever does has a message about it on its way, or has missed one.
Told(v) == \A p \in Servers : HoldsOlder(p, v) => missed[p] \/ inbox[p] > 0

\* The second pass of an event may begin, is under way, has deleted the entry in
\* Redis, and has told the servers.
MayPass(v)   == outbox[v].stage = 2 \/ (outbox[v].stage = 1 /\ outbox[v].due)
Passing(v)   == \E p \in Servers : task[p][v].pc # "idle" /\ task[p][v].stage = 1
HasDeleted(v) ==
    outbox[v].stage = 2
    \/ \E p \in Servers : task[p][v].pc \in {"publish", "record"} /\ task[p][v].stage = 1
HasTold(v) ==
    outbox[v].stage = 2 \/ \E p \in Servers : task[p][v].pc = "record" /\ task[p][v].stage = 1

Bounded ==
    /\ l2 # None => l2 <= row
    /\ \A p \in Servers : /\ reader[p].got <= row
                          /\ l1[p] # None => l1[p] <= row

\* Nothing has begun about a change that has not been made.
Future ==
    \A v \in Changes : v > row =>
        outbox[v].stage = 0 /\ \A p \in Servers : task[p][v].pc = "idle"

Passes ==
    \A v \in Changes :
        /\ MayPass(v) \/ Passing(v) => NoOlder(v)
        /\ HasDeleted(v) => l2 >= v
        /\ HasTold(v) => Told(v)

IInv == TypeOK /\ Bounded /\ Future /\ Passes

\* The steps that neither look up nor change the row only forget entries.
Quiet ==
    /\ UNCHANGED <<row, reader>> /\ l2' \in {l2, None}
    /\ \A q \in Servers : l1'[q] \in {l1[q], None}

LEMMA QuietSteps ==
  ASSUME TypeOK, [Next]_vars
  PROVE  \/ Quiet
         \/ \E p \in Servers : Lookup(p) \/ Copy(p) \/ Load(p) \/ Store(p) \/ Share(p)
                               \/ Change(p) \/ Restart(p)
<1>1. ASSUME NEW p \in Servers, Forgets(p) \/ Remembers(p, None)
      PROVE  \A q \in Servers : l1'[q] \in {l1[q], None}
  BY <1>1, MemoryFacts, NoEntryFacts DEF Forgets
<1>2. ASSUME NEW p \in Servers, NEW v \in Changes, DeleteEntry(p, v) PROVE Quiet
  BY <1>1, <1>2 DEF DeleteEntry, Quiet
<1>3. ASSUME NEW p \in Servers, NEW v \in Changes,
             PublishEvent(p, v) \/ Record(p, v) \/ Retry(p, v)
      PROVE Quiet
  BY <1>3 DEF PublishEvent, Record, Retry, Quiet, memory
<1>4. ASSUME NEW p \in Servers, WriterDeletes(p) PROVE Quiet
  BY <1>1, <1>4 DEF WriterDeletes, Quiet
<1>5. ASSUME NEW p \in Servers, Deliver(p) \/ ForgetL1(p) PROVE Quiet
  BY <1>1, <1>5 DEF Deliver, ForgetL1, Quiet
<1>6. ASSUME NEW p \in Servers, WriterPublishes(p) \/ Claim(p) \/ LoseMessage(p) PROVE Quiet
  BY <1>6 DEF WriterPublishes, Claim, LoseMessage, Quiet, memory
<1>7. ASSUME NEW v \in Changes, BecomeDue(v) \/ LeaseEnds(v) PROVE Quiet
  BY <1>7 DEF BecomeDue, LeaseEnds, Quiet, memory
<1>8. CASE ForgetL2 \/ UNCHANGED vars
  BY <1>8 DEF ForgetL2, vars, memory, Quiet
<1> QED
  BY <1>2, <1>3, <1>4, <1>5, <1>6, <1>7, <1>8, Cases

LEMMA BoundedStep == TypeOK /\ Bounded /\ [Next]_vars => Bounded'
<1> SUFFICES ASSUME TypeOK, Bounded, [Next]_vars PROVE Bounded'
  OBVIOUS
<1>1. ASSUME NEW p \in Servers, Lookup(p) PROVE Bounded'
  BY <1>1, VersionFacts DEF Lookup, Bounded, TypeOK, InRedis
<1>2. ASSUME NEW p \in Servers, Copy(p) PROVE Bounded'
  BY <1>2, VersionFacts DEF Copy, Bounded, TypeOK, Remembers, NoReader
<1>3. ASSUME NEW p \in Servers, Load(p) PROVE Bounded'
  BY <1>3, VersionFacts DEF Load, Bounded, TypeOK, memory
<1>4. ASSUME NEW p \in Servers, Store(p) PROVE Bounded'
  BY <1>4, VersionFacts DEF Store, Bounded, TypeOK, Remembers, NoReader
<1>5. ASSUME NEW p \in Servers, Share(p) PROVE Bounded'
  <2>1. \A q \in Servers : reader'[q] \in {reader[q], NoReader}
    BY <1>5 DEF Share, TypeOK
  <2>2. row' = row /\ row \in Nat /\ l1' = l1 /\ l2' \in {l2, reader[p].got}
    BY <1>5, VersionFacts DEF Share, TypeOK, memory
  <2> QED
    BY <2>1, <2>2 DEF Bounded, NoReader
<1>6. ASSUME NEW p \in Servers, Change(p) PROVE Bounded'
  <2>1. /\ row \in Nat /\ l2 \in Nat
        /\ \A q \in Servers : reader[q].got \in Nat /\ l1[q] \in Nat
    BY VersionFacts DEF TypeOK, Entry, Reader
  <2>2. row' = row + 1 /\ l1' = l1 /\ l2' = l2 /\ reader' = reader
    BY <1>6 DEF Change, memory
  <2> QED
    BY <2>1, <2>2 DEF Bounded
<1>7. ASSUME NEW p \in Servers, Restart(p) PROVE Bounded'
  <2>1. \A q \in Servers : l1'[q] \in {l1[q], None}
    BY <1>7, MemoryFacts, NoEntryFacts DEF Restart
  <2>2. \A q \in Servers : reader'[q] \in {reader[q], NoReader}
    BY <1>7 DEF Restart, TypeOK
  <2>3. row' = row /\ l2' = l2 /\ row \in Nat
    BY <1>7, VersionFacts DEF Restart, TypeOK
  <2> QED
    BY <2>1, <2>2, <2>3 DEF Bounded, NoReader
<1>8. CASE Quiet
  BY <1>8 DEF Quiet, Bounded
<1> QED
  BY <1>1, <1>2, <1>3, <1>4, <1>5, <1>6, <1>7, <1>8, QuietSteps

\* A lookup reads the newest version, so that no older one comes up again.
LEMMA NoOlderStays ==
  ASSUME TypeOK, [Next]_vars, NEW v \in Changes, v <= row, NoOlder(v)
  PROVE  NoOlder(v)'
<1>1. ASSUME NEW p \in Servers, Load(p) PROVE NoOlder(v)'
  BY <1>1, VersionFacts DEF Load, NoOlder, Older, TypeOK, Reader
<1>2. ASSUME NEW p \in Servers, Lookup(p) \/ Copy(p) PROVE NoOlder(v)'
  BY <1>2 DEF Lookup, Copy, TypeOK, NoReader, NoOlder, Older
<1>3. ASSUME NEW p \in Servers, Store(p) \/ Share(p) PROVE NoOlder(v)'
  BY <1>3 DEF Store, Share, TypeOK, NoReader, NoOlder, Older
<1>4. ASSUME NEW p \in Servers, Restart(p) PROVE NoOlder(v)'
  BY <1>4 DEF Restart, NoOlder, Older, TypeOK, NoReader
<1>5. CASE UNCHANGED reader
  BY <1>5 DEF NoOlder, Older
<1> QED
  BY <1>1, <1>2, <1>3, <1>4, <1>5, QuietSteps DEF Quiet, Change

\* Then what Redis holds is not of before the change either, from when it was
\* deleted.
LEMMA DeletedStays ==
  ASSUME TypeOK, [Next]_vars, NEW v \in Changes, NoOlder(v), l2 >= v
  PROVE  l2' >= v
<1>1. None >= v
  BY VersionFacts DEF Changes
<1>2. ASSUME NEW p \in Servers, Share(p) PROVE l2' >= v
  <2>1. reader[p].got >= v
    <3>1. reader[p].got \in Nat /\ v \in Nat
      BY VersionFacts DEF TypeOK, Reader
    <3> QED
      BY <1>2, <3>1 DEF Share, NoOlder, Older
  <2> QED
    BY <1>2, <2>1 DEF Share
<1>3. ASSUME NEW p \in Servers,
             Lookup(p) \/ Copy(p) \/ Load(p) \/ Store(p) \/ Change(p) \/ Restart(p)
      PROVE l2' = l2
  BY <1>3 DEF Lookup, Copy, Load, Store, Change, Restart
<1> QED
  BY <1>1, <1>2, <1>3, QuietSteps DEF Quiet

\* Nor is what a server remembers or is about to copy, unless a message about it is
\* to come or was missed.
LEMMA ToldStays ==
  ASSUME TypeOK, [Next]_vars, NEW v \in Changes, NoOlder(v), l2 >= v, Told(v)
  PROVE  Told(v)'
<1> DEFINE Same(q) == (HoldsOlder(q, v)' => HoldsOlder(q, v))
                      /\ (missed'[q] \/ (missed'[q] = missed[q] /\ inbox'[q] >= inbox[q]))
           Newer(q) == ~HoldsOlder(q, v)'
           Untouched(q) == /\ l1'[q] = l1[q] /\ missed'[q] = missed[q] /\ inbox'[q] >= inbox[q]
                           /\ Copying(q)' => Copying(q) /\ reader'[q] = reader[q]
<1>0. /\ \A q \in Servers : inbox[q] \in Nat /\ reader[q].got \in Nat /\ l1[q] \in Nat
      /\ v \in Nat /\ None \in Nat /\ ~(None < v) /\ l2 \in Nat
  <2>1. v \in Nat /\ None \in Nat /\ v < None
    BY VersionFacts
  <2>2. l2 \in Nat /\ \A q \in Servers : l1[q] \in Nat
    BY VersionFacts DEF TypeOK, Entry
  <2>3. \A q \in Servers : inbox[q] \in Nat /\ reader[q].got \in Nat
    BY VersionFacts DEF TypeOK, Reader
  <2> QED
    BY <2>1, <2>2, <2>3
<1>1. ASSUME NEW q \in Servers, Untouched(q) PROVE Same(q)
  BY <1>1 DEF HoldsOlder
<1>2. ASSUME NEW p \in Servers, Forgets(p), reader' = reader,
             \A q \in Servers : inbox'[q] = inbox[q]
      PROVE \A q \in Servers : Same(q) \/ Newer(q)
  <2>1. \A q \in Servers : q # p => Untouched(q)
    BY <1>0, <1>2, ForgetFacts DEF Copying
  <2>2. l1'[p] = None /\ (Copying(p) => missed'[p] = missed[p])
    BY <1>2, ForgetFacts
  <2>3. CASE Copying(p)
    <3>1. HoldsOlder(p, v)' => HoldsOlder(p, v)
      BY <1>0, <1>2, <2>2 DEF HoldsOlder, Copying
    <3> QED
      BY <1>0, <1>1, <1>2, <2>1, <2>2, <2>3, <3>1
  <2>4. CASE ~Copying(p)
    <3>1. Newer(p)
      BY <1>0, <1>2, <2>2, <2>4 DEF HoldsOlder, Copying
    <3> QED
      BY <1>1, <2>1, <3>1
  <2> QED
    BY <2>3, <2>4
<1>3. ASSUME UNCHANGED <<memory, reader>>, \A q \in Servers : inbox'[q] >= inbox[q]
      PROVE \A q \in Servers : Same(q)
  BY <1>1, <1>3 DEF memory, Copying
<1>4. ASSUME UNCHANGED <<memory, reader, inbox>> PROVE \A q \in Servers : Same(q)
  BY <1>0, <1>1, <1>4 DEF memory, Copying
<1>5. ASSUME NEW p \in Servers, Lookup(p) PROVE \A q \in Servers : Same(q) \/ Newer(q)
  <2>1. \A q \in Servers : q # p => Untouched(q)
    BY <1>0, <1>5 DEF Lookup, TypeOK, Copying
  <2>2. l1'[p] = None /\ (Copying(p)' => reader'[p].got = l2)
    BY <1>5 DEF Lookup, TypeOK, Copying
  <2>3. Newer(p)
    BY <1>0, <2>2 DEF HoldsOlder
  <2> QED
    BY <1>1, <2>1, <2>3
<1>6. ASSUME NEW p \in Servers, Copy(p) PROVE \A q \in Servers : Same(q)
  <2>1. \A q \in Servers : q # p => Untouched(q)
    BY <1>0, <1>6 DEF Copy, Remembers, TypeOK, Copying
  <2>2. /\ l1'[p] = reader[p].got /\ Copying(p) /\ ~Copying(p)'
        /\ missed' = missed /\ inbox' = inbox
    BY <1>6 DEF Copy, Remembers, TypeOK, Copying, NoReader
  <2>3. HoldsOlder(p, v)' => HoldsOlder(p, v)
    BY <2>2 DEF HoldsOlder
  <2> QED
    BY <1>0, <1>1, <2>1, <2>2, <2>3
<1>7. ASSUME NEW p \in Servers, Store(p) PROVE \A q \in Servers : Same(q) \/ Newer(q)
  <2>1. reader[p].got >= v
    BY <1>0, <1>7 DEF Store, NoOlder, Older
  <2>2. \A q \in Servers : q # p => Untouched(q)
    BY <1>0, <1>7 DEF Store, Remembers, TypeOK, Copying
  <2>3. l1'[p] = reader[p].got /\ ~Copying(p)'
    BY <1>7 DEF Store, Remembers, TypeOK, Copying, NoReader
  <2>4. Newer(p)
    BY <1>0, <2>1, <2>3 DEF HoldsOlder
  <2> QED
    BY <1>1, <2>2, <2>4
<1>8. ASSUME NEW p \in Servers, Load(p) \/ Share(p) PROVE \A q \in Servers : Same(q)
  <2>1. \A q \in Servers : Untouched(q)
    <3>1. UNCHANGED <<memory, inbox>>
      BY <1>8 DEF Load, Share
    <3>2. /\ \A q \in Servers : q # p => reader'[q] = reader[q]
          /\ reader'[p].pc # "copy"
      BY <1>8 DEF Load, Share, TypeOK, NoReader
    <3> QED
      BY <1>0, <3>1, <3>2 DEF memory, Copying
  <2> QED
    BY <1>1, <2>1
<1>9. ASSUME NEW p \in Servers, Change(p) \/ Claim(p) PROVE UNCHANGED <<memory, reader, inbox>>
  BY <1>9 DEF Change, Claim
<1>10. ASSUME NEW p \in Servers, WriterDeletes(p) PROVE \A q \in Servers : Same(q) \/ Newer(q)
  BY <1>2, <1>10 DEF WriterDeletes
<1>11. ASSUME NEW p \in Servers, WriterPublishes(p) PROVE \A q \in Servers : Same(q) \/ Newer(q)
  <2>1. UNCHANGED <<memory, reader>> /\ \A q \in Servers : inbox'[q] >= inbox[q]
    BY <1>0, <1>11 DEF WriterPublishes, Publish
  <2> QED
    BY <1>3, <2>1
<1>12. ASSUME NEW p \in Servers, NEW w \in Changes, DeleteEntry(p, w)
       PROVE \A q \in Servers : Same(q) \/ Newer(q)
  BY <1>2, <1>12 DEF DeleteEntry
<1>13. ASSUME NEW p \in Servers, NEW w \in Changes, PublishEvent(p, w)
       PROVE \A q \in Servers : Same(q) \/ Newer(q)
  <2>1. UNCHANGED <<memory, reader>> /\ \A q \in Servers : inbox'[q] >= inbox[q]
    BY <1>0, <1>13 DEF PublishEvent, Publish
  <2> QED
    BY <1>3, <2>1
<1>14. ASSUME NEW p \in Servers, NEW w \in Changes, Record(p, w) \/ Retry(p, w)
       PROVE UNCHANGED <<memory, reader, inbox>>
  BY <1>14 DEF Record, Retry
<1>15. ASSUME NEW p \in Servers, Deliver(p) PROVE \A q \in Servers : Same(q) \/ Newer(q)
  <2>1. \A q \in Servers : q # p => Untouched(q)
    BY <1>0, <1>15 DEF Deliver, Remembers, TypeOK, Copying
  <2>2. l1'[p] = None /\ reader' = reader /\ missed'[p] = Copying(p)
    BY <1>15 DEF Deliver, Remembers, TypeOK
  <2>3. HoldsOlder(p, v)' => Copying(p) /\ HoldsOlder(p, v)
    BY <1>0, <2>2 DEF HoldsOlder, Copying
  <2> QED
    BY <1>1, <2>1, <2>2, <2>3
<1>16. ASSUME NEW p \in Servers, ForgetL1(p) PROVE \A q \in Servers : Same(q) \/ Newer(q)
  BY <1>2, <1>16 DEF ForgetL1
<1>17. ASSUME NEW p \in Servers, Restart(p) PROVE \A q \in Servers : Same(q) \/ Newer(q)
  <2>1. \A q \in Servers : q # p => Untouched(q)
    BY <1>0, <1>17 DEF Restart, Remembers, TypeOK, Copying
  <2>2. l1'[p] = None /\ ~Copying(p)'
    BY <1>17 DEF Restart, Remembers, TypeOK, Copying, NoReader
  <2>3. Newer(p)
    BY <1>0, <2>2 DEF HoldsOlder
  <2> QED
    BY <1>1, <2>1, <2>3
<1>18. ASSUME NEW p \in Servers, LoseMessage(p) PROVE \A q \in Servers : Same(q) \/ Newer(q)
  <2>1. /\ l1' = l1 /\ reader' = reader /\ missed'[p] = TRUE
        /\ \A q \in Servers : q # p => missed'[q] = missed[q] /\ inbox'[q] = inbox[q]
    BY <1>18 DEF LoseMessage, TypeOK
  <2>2. \A q \in Servers : HoldsOlder(q, v)' => HoldsOlder(q, v)
    BY <2>1 DEF HoldsOlder, Copying
  <2>3. \A q \in Servers : q # p => inbox'[q] >= inbox[q]
    BY <1>0, <2>1
  <2> QED
    BY <2>1, <2>2, <2>3
<1>19. ASSUME NEW w \in Changes, BecomeDue(w) \/ LeaseEnds(w)
       PROVE UNCHANGED <<memory, reader, inbox>>
  BY <1>19 DEF BecomeDue, LeaseEnds
<1>20. ASSUME ForgetL2 \/ UNCHANGED vars PROVE UNCHANGED <<memory, reader, inbox>>
  BY <1>20 DEF ForgetL2, vars, memory
<1>21. \A q \in Servers : Same(q) \/ Newer(q)
  <2> HIDE DEF Same, Newer
  <2> QED
    BY <1>4, <1>5, <1>6, <1>7, <1>8, <1>9, <1>10, <1>11, <1>12, <1>13, <1>14, <1>15,
       <1>16, <1>17, <1>18, <1>19, <1>20, Cases
<1>22. \A q \in Servers : inbox'[q] \in Nat
  BY TypeStep DEF TypeOK
<1> QED
  <2> SUFFICES ASSUME NEW q \in Servers, HoldsOlder(q, v)' PROVE missed'[q] \/ inbox'[q] > 0
    BY DEF Told
  <2>1. Same(q)
    BY <1>21
  <2>2. missed[q] \/ inbox[q] > 0
    BY <2>1 DEF Told
  <2> QED
    BY <1>0, <1>22, <2>1, <2>2

\* How an event gets on: no stage is reached but through the one before.
EventStep(v) ==
    /\ outbox'[v].stage = 2 =>
           outbox[v].stage = 2
           \/ \E p \in Servers : task[p][v].pc = "record" /\ task[p][v].stage = 1
    /\ outbox'[v].stage = 1 /\ outbox'[v].due =>
           NoOlder(v)' \/ (outbox[v].stage = 1 /\ outbox[v].due)
    /\ \A p \in Servers : task'[p][v].pc # "idle" /\ task'[p][v].stage = 1 =>
           (task[p][v].pc # "idle" /\ task[p][v].stage = 1) \/ MayPass(v)
    /\ \A p \in Servers : task'[p][v].pc \in {"publish", "record"} /\ task'[p][v].stage = 1 =>
           l2' = None \/ (task[p][v].pc \in {"publish", "record"} /\ task[p][v].stage = 1)
    /\ \A p \in Servers : task'[p][v].pc = "record" /\ task'[p][v].stage = 1 =>
           (\A q \in Servers : inbox'[q] > 0) \/ (task[p][v].pc = "record" /\ task[p][v].stage = 1)

LEMMA EventStepCases ==
  ASSUME TypeOK, [Next]_vars, NEW v \in Changes
  PROVE  EventStep(v)
<1>1. ASSUME UNCHANGED task, outbox'[v].stage = outbox[v].stage,
             outbox'[v].due => outbox[v].due \/ outbox[v].stage # 1
      PROVE EventStep(v)
  BY <1>1 DEF EventStep
<1>2. ASSUME UNCHANGED <<outbox, task>> PROVE EventStep(v)
  BY <1>2 DEF EventStep
<1>3. ASSUME NEW p \in Servers, Claim(p) PROVE EventStep(v)
  <2>1. outbox'[v].stage = outbox[v].stage /\ outbox'[v].due = outbox[v].due
    BY <1>3 DEF Claim, ClaimedBy, TypeOK, Event
  <2>2. \A q \in Servers : q # p => task'[q][v] = task[q][v]
    BY <1>3 DEF Claim, TypeOK
  <2>3. task'[p][v] \in {NoTask, task[p][v]}
        \/ (v \in Claimable /\ task'[p][v] = [pc |-> "delete", stage |-> outbox[v].stage])
    BY <1>3 DEF Claim, TypeOK
  <2>4. v \in Claimable => outbox[v].due
    BY DEF Claimable
  <2> QED
    BY <2>1, <2>2, <2>3, <2>4 DEF EventStep, MayPass, NoTask
<1>4. ASSUME NEW p \in Servers, NEW w \in Changes, DeleteEntry(p, w) PROVE EventStep(v)
  <2>1. outbox' = outbox /\ task[p][w].pc = "delete"
    BY <1>4 DEF DeleteEntry
  <2>2. PICK pc \in {"publish", "retry"} : Goes(p, w, pc) /\ (pc = "publish" => l2' = None)
    BY <1>4 DEF DeleteEntry
  <2>3. /\ task'[p][w].pc = pc /\ task'[p][w].stage = task[p][w].stage
        /\ \A q \in Servers : q # p \/ v # w => task'[q][v] = task[q][v]
    <3>1. pc \in {"publish", "record", "retry"} /\ Goes(p, w, pc)
      BY <2>2
    <3>2. task'[p][w] = [pc |-> pc, stage |-> task[p][w].stage]
      BY <3>1, GoesFacts
    <3>3. task \in [Servers -> [Changes -> Task]]
      BY DEF TypeOK
    <3>4. ASSUME NEW q \in Servers, q # p \/ v # w PROVE task'[q][v] = task[q][v]
      BY <3>1, <3>3, <3>4 DEF Goes
    <3> QED
      BY <3>2, <3>4
  <2> QED
    BY <2>1, <2>2, <2>3 DEF EventStep
<1>5. ASSUME NEW p \in Servers, NEW w \in Changes, PublishEvent(p, w) PROVE EventStep(v)
  <2>1. outbox' = outbox /\ task[p][w].pc = "publish"
    BY <1>5 DEF PublishEvent
  <2>2. PICK pc \in {"record", "retry"} : Goes(p, w, pc) /\ (pc = "record" => Publish)
    BY <1>5 DEF PublishEvent
  <2>3. Publish => \A q \in Servers : inbox'[q] > 0
    BY DEF Publish, TypeOK
  <2>4. /\ task'[p][w].pc = pc /\ task'[p][w].stage = task[p][w].stage
        /\ \A q \in Servers : q # p \/ v # w => task'[q][v] = task[q][v]
    <3>1. pc \in {"publish", "record", "retry"} /\ Goes(p, w, pc)
      BY <2>2
    <3>2. task'[p][w] = [pc |-> pc, stage |-> task[p][w].stage]
      BY <3>1, GoesFacts
    <3>3. task \in [Servers -> [Changes -> Task]]
      BY DEF TypeOK
    <3>4. ASSUME NEW q \in Servers, q # p \/ v # w PROVE task'[q][v] = task[q][v]
      BY <3>1, <3>3, <3>4 DEF Goes
    <3> QED
      BY <3>2, <3>4
  <2> QED
    BY <2>1, <2>2, <2>3, <2>4 DEF EventStep
<1>6. ASSUME NEW p \in Servers, NEW w \in Changes, Record(p, w) PROVE EventStep(v)
  <2>1. task[p][w].pc = "record" /\ task[p][w].stage \in {0, 1}
    BY <1>6 DEF Record, TypeOK, Task
  <2>2. \A q \in Servers : task'[q][v] \in {NoTask, task[q][v]}
    BY <1>6 DEF Record, TypeOK
  <2>3. outbox'[v] = outbox[v] \/ (v = w /\ outbox'[v] = AfterPass(task[p][v].stage))
    BY <1>6 DEF Record, TypeOK
  <2>4. \A q \in Servers : task'[q][v].pc # "idle" => task'[q][v] = task[q][v]
    BY <2>2 DEF NoTask
  <2>5. CASE outbox'[v] = outbox[v]
    BY <2>4, <2>5 DEF EventStep
  <2>6. CASE v = w /\ outbox'[v] = AfterPass(task[p][v].stage)
    <3>1. \/ task[p][v].stage = 1 /\ outbox'[v].stage = 2
          \/ task[p][v].stage = 0 /\ outbox'[v].stage = 1 /\ outbox'[v].due = FALSE
      BY <2>1, <2>6 DEF AfterPass, Unclaimed
    <3> QED
      BY <2>1, <2>4, <2>6, <3>1 DEF EventStep
  <2> QED
    BY <2>3, <2>5, <2>6
<1>7. ASSUME NEW p \in Servers, NEW w \in Changes, Retry(p, w) PROVE EventStep(v)
  <2>1. \A q \in Servers : task'[q][v] \in {NoTask, task[q][v]}
    BY <1>7 DEF Retry, TypeOK
  <2>2. outbox'[v] = outbox[v] \/ outbox'[v] = Unclaimed(outbox[v].stage, FALSE)
    BY <1>7 DEF Retry, TypeOK
  <2> QED
    BY <2>1, <2>2 DEF EventStep, NoTask, Unclaimed
<1>8. ASSUME NEW p \in Servers, Restart(p) PROVE EventStep(v)
  <2>1. \A q \in Servers : task'[q][v] \in {NoTask, task[q][v]}
    BY <1>8 DEF Restart, TypeOK
  <2>2. outbox'[v].stage = outbox[v].stage /\ outbox'[v].due = outbox[v].due
    BY <1>8 DEF Restart, TypeOK, Event
  <2> QED
    BY <2>1, <2>2 DEF EventStep, NoTask
<1>9. ASSUME NEW w \in Changes, BecomeDue(w) PROVE EventStep(v)
  <2>1. task' = task /\ outbox'[v].stage = outbox[v].stage
    BY <1>9 DEF BecomeDue, TypeOK, Event
  <2>2. v # w => outbox'[v] = outbox[v]
    BY <1>9 DEF BecomeDue, TypeOK
  <2>3. v = w /\ outbox[v].stage = 1 => NoOlder(v)'
    BY <1>9 DEF BecomeDue, NoOlder, Older
  <2> QED
    BY <2>1, <2>2, <2>3 DEF EventStep
<1>10. ASSUME NEW w \in Changes, LeaseEnds(w) PROVE EventStep(v)
  <2>1. task' = task /\ outbox'[v].stage = outbox[v].stage /\ outbox'[v].due = outbox[v].due
    BY <1>10 DEF LeaseEnds, TypeOK, Event
  <2> QED
    BY <2>1, <1>1
<1>11. ASSUME NEW p \in Servers,
              Lookup(p) \/ Copy(p) \/ Load(p) \/ Store(p) \/ Share(p) \/ Change(p)
              \/ WriterDeletes(p) \/ WriterPublishes(p) \/ Deliver(p) \/ LoseMessage(p)
              \/ ForgetL1(p)
       PROVE UNCHANGED <<outbox, task>>
  BY <1>11 DEF Lookup, Copy, Load, Store, Share, Change, WriterDeletes, WriterPublishes,
               Deliver, LoseMessage, ForgetL1
<1>12. ASSUME ForgetL2 \/ UNCHANGED vars PROVE UNCHANGED <<outbox, task>>
  BY <1>12 DEF ForgetL2, vars
<1> QED
  BY <1>2, <1>3, <1>4, <1>5, <1>6, <1>7, <1>8, <1>9, <1>10, <1>11, <1>12, Cases

LEMMA FutureStep == TypeOK /\ Future /\ [Next]_vars => Future'
<1> SUFFICES ASSUME TypeOK, Future, [Next]_vars, NEW v \in Changes, v > row'
             PROVE  outbox'[v].stage = 0 /\ \A p \in Servers : task'[p][v].pc = "idle"
  BY DEF Future
<1>0. row' >= row /\ row \in Nat /\ v \in Nat /\ row' \in Nat
  <2>1. row' = row \/ row' = row + 1
    <3>1. CASE Quiet
      BY <3>1 DEF Quiet
    <3>2. ASSUME NEW p \in Servers,
                 Lookup(p) \/ Copy(p) \/ Load(p) \/ Store(p) \/ Share(p) \/ Change(p) \/ Restart(p)
          PROVE row' = row \/ row' = row + 1
      BY <3>2 DEF Lookup, Copy, Load, Store, Share, Change, Restart
    <3> QED
      BY <3>1, <3>2, QuietSteps
  <2> QED
    BY <2>1, VersionFacts DEF TypeOK
<1>1. v > row /\ outbox[v].stage = 0 /\ \A p \in Servers : task[p][v].pc = "idle"
  BY <1>0 DEF Future
<1>2. v \notin Pending /\ v \notin Claimable
  BY <1>0, <1>1 DEF Pending, Claimable
<1>3. ASSUME NEW p \in Servers, Claim(p)
      PROVE outbox'[v].stage = 0 /\ \A q \in Servers : task'[q][v].pc = "idle"
  <2>1. outbox'[v] = outbox[v]
    BY <1>2, <1>3 DEF Claim, TypeOK
  <2>2. \A q \in Servers : task'[q][v] \in {NoTask, task[q][v]}
    BY <1>2, <1>3 DEF Claim, TypeOK
  <2> QED
    BY <1>1, <2>1, <2>2 DEF NoTask
<1>4. ASSUME NEW p \in Servers, NEW w \in Changes, DeleteEntry(p, w) \/ PublishEvent(p, w)
      PROVE outbox'[v].stage = 0 /\ \A q \in Servers : task'[q][v].pc = "idle"
  <2>1. v # w /\ outbox' = outbox
    BY <1>1, <1>4 DEF DeleteEntry, PublishEvent
  <2>2. PICK pc \in {"publish", "record", "retry"} : Goes(p, w, pc)
    BY <1>4 DEF DeleteEntry, PublishEvent
  <2>3. \A q \in Servers : task'[q][v] = task[q][v]
    BY <2>1, <2>2 DEF Goes, TypeOK
  <2> QED
    BY <1>1, <2>1, <2>3
<1>5. ASSUME NEW p \in Servers, NEW w \in Changes, Record(p, w) \/ Retry(p, w)
      PROVE outbox'[v].stage = 0 /\ \A q \in Servers : task'[q][v].pc = "idle"
  <2>1. v # w
    BY <1>1, <1>5 DEF Record, Retry
  <2>2. outbox'[v] = outbox[v]
    BY <2>1, <1>5 DEF Record, Retry, TypeOK
  <2>3. task' = [task EXCEPT ![p][w] = NoTask]
    BY <1>5 DEF Record, Retry
  <2>4. \A q \in Servers : task'[q][v] = task[q][v]
    BY <2>1, <2>3 DEF TypeOK
  <2> QED
    BY <1>1, <2>2, <2>4
<1>6. ASSUME NEW p \in Servers, Restart(p)
      PROVE outbox'[v].stage = 0 /\ \A q \in Servers : task'[q][v].pc = "idle"
  <2>1. outbox'[v].stage = outbox[v].stage
    BY <1>6 DEF Restart, TypeOK, Event
  <2>2. \A q \in Servers : task'[q][v] \in {NoTask, task[q][v]}
    BY <1>6 DEF Restart, TypeOK
  <2> QED
    BY <1>1, <2>1, <2>2 DEF NoTask
<1>7. ASSUME NEW w \in Changes, BecomeDue(w) \/ LeaseEnds(w)
      PROVE outbox'[v].stage = 0 /\ \A q \in Servers : task'[q][v].pc = "idle"
  <2>1. task' = task /\ outbox'[v].stage = outbox[v].stage
    BY <1>7 DEF BecomeDue, LeaseEnds, TypeOK, Event
  <2> QED
    BY <1>1, <2>1
<1>8. ASSUME NEW p \in Servers,
             Lookup(p) \/ Copy(p) \/ Load(p) \/ Store(p) \/ Share(p) \/ Change(p)
             \/ WriterDeletes(p) \/ WriterPublishes(p) \/ Deliver(p) \/ LoseMessage(p)
             \/ ForgetL1(p)
      PROVE UNCHANGED <<outbox, task>>
  BY <1>8 DEF Lookup, Copy, Load, Store, Share, Change, WriterDeletes, WriterPublishes,
              Deliver, LoseMessage, ForgetL1
<1>9. ASSUME ForgetL2 \/ UNCHANGED vars PROVE UNCHANGED <<outbox, task>>
  BY <1>9 DEF ForgetL2, vars
<1> QED
  BY <1>1, <1>3, <1>4, <1>5, <1>6, <1>7, <1>8, <1>9, Cases

LEMMA PassesStep ==
  TypeOK /\ Future /\ Passes /\ [Next]_vars => Passes'
<1> SUFFICES ASSUME TypeOK, Future, Passes, [Next]_vars, NEW v \in Changes
             PROVE  /\ MayPass(v)' \/ Passing(v)' => NoOlder(v)'
                    /\ HasDeleted(v)' => l2' >= v
                    /\ HasTold(v)' => Told(v)'
  BY DEF Passes
<1>1. EventStep(v)
  BY EventStepCases
<1>2. MayPass(v) \/ Passing(v) => v <= row /\ NoOlder(v)
  BY VersionFacts DEF Future, Passes, MayPass, Passing, TypeOK
<1>3. MayPass(v) \/ Passing(v) => NoOlder(v)'
  BY <1>2, NoOlderStays
<1>4. HasDeleted(v) => MayPass(v) \/ Passing(v)
  BY DEF HasDeleted, MayPass, Passing
<1>5. HasTold(v) => HasDeleted(v)
  BY DEF HasTold, HasDeleted
<1>6. MayPass(v)' \/ Passing(v)' => NoOlder(v)'
  <2>1. Passing(v)' => MayPass(v) \/ Passing(v)
    BY <1>1 DEF EventStep, Passing
  <2>2. MayPass(v)' => MayPass(v) \/ Passing(v) \/ NoOlder(v)'
    BY <1>1 DEF EventStep, Passing, MayPass
  <2> QED
    BY <1>3, <2>1, <2>2
<1>7. HasDeleted(v)' => l2' >= v
  <2>1. HasDeleted(v)' => HasDeleted(v) \/ l2' = None
    BY <1>1 DEF EventStep, HasDeleted
  <2>2. None >= v
    BY VersionFacts DEF Changes
  <2>3. HasDeleted(v) => l2' >= v
    BY <1>2, <1>4, DeletedStays DEF Passes
  <2> QED
    BY <2>1, <2>2, <2>3
<1>8. HasTold(v)' => Told(v)'
  <2>1. HasTold(v)' => HasTold(v) \/ \A q \in Servers : inbox'[q] > 0
    BY <1>1 DEF EventStep, HasTold
  <2>2. (\A q \in Servers : inbox'[q] > 0) => Told(v)'
    BY DEF Told
  <2>3. HasTold(v) => Told(v)'
    BY <1>2, <1>4, <1>5, ToldStays DEF Passes
  <2> QED
    BY <2>1, <2>2, <2>3
<1> QED
  BY <1>6, <1>7, <1>8

LEMMA IInvInit == Init => IInv
<1> SUFFICES ASSUME Init PROVE IInv
  OBVIOUS
<1>1. TypeOK
  BY TypeInit
<1>2. Bounded
  BY DEF Init, Bounded, NoReader
<1>3. Future
  BY DEF Init, Future, Unclaimed, NoTask
<1>4. Passes
  BY DEF Init, Passes, MayPass, Passing, HasDeleted, HasTold, Unclaimed, NoTask
<1> QED
  BY <1>1, <1>2, <1>3, <1>4 DEF IInv

LEMMA IInvAlways == Spec => []IInv
<1>1. IInv /\ [Next]_vars => IInv'
  BY TypeStep, BoundedStep, FutureStep, PassesStep DEF IInv
<1> QED
  BY <1>1, IInvInit, PTL DEF Spec

\* If no event is pending the event of the last change has been deleted.
LEMMA LastDeleted ==
  ASSUME IInv, Pending = {}, row # 0
  PROVE  row \in Changes /\ outbox[row].stage = 2
<1>1. row \in Changes
  BY VersionFacts DEF IInv, TypeOK, Versions, Changes
<1>2. outbox[row].stage \in {0, 1, 2}
  BY <1>1 DEF IInv, TypeOK, Event, Stages
<1>3. row \in 1..row
  BY <1>1 DEF Changes
<1> QED
  BY <1>1, <1>2, <1>3 DEF Pending

-----------------------------------------------------------------------------
(* Theorems                                                                *)

\* When the outbox is empty Redis holds no entry of before the last change,
\* whatever lookups, faults and restarts came in between.
THEOREM RedisIsFresh == Spec => []L2Fresh
<1>1. IInv => L2Fresh
  <2> SUFFICES ASSUME IInv, Pending = {} PROVE Fresh(l2)
    BY DEF L2Fresh
  <2>1. l2 \in Nat /\ row \in Nat /\ (l2 # None => l2 <= row)
    BY VersionFacts DEF IInv, TypeOK, Bounded, Entry
  <2>2. CASE row = 0
    BY <2>1, <2>2 DEF Fresh
  <2>3. CASE row # 0
    <3>1. l2 >= row
      BY <2>3, LastDeleted DEF IInv, Passes, HasDeleted
    <3> QED
      BY <2>1, <3>1 DEF Fresh
  <2> QED
    BY <2>2, <2>3
<1> QED
  BY <1>1, IInvAlways, PTL

\* Then a server's memory holds none either, but for a server that missed a message
\* about it, lost or taken while it copied Redis's entry, or is to get one.
THEOREM MemoryIsFresh == Spec => []L1Fresh
<1>1. IInv => L1Fresh
  <2> SUFFICES ASSUME IInv, Pending = {}, NEW p \in Servers, ~missed[p], ~(inbox[p] > 0)
               PROVE  Fresh(l1[p])
    BY DEF L1Fresh
  <2>1. l1[p] \in Nat /\ row \in Nat /\ (l1[p] # None => l1[p] <= row)
    BY VersionFacts DEF IInv, TypeOK, Bounded, Entry
  <2>2. CASE row = 0
    BY <2>1, <2>2 DEF Fresh
  <2>3. CASE row # 0
    <3>1. Told(row)
      BY <2>3, LastDeleted DEF IInv, Passes, HasTold
    <3>2. ~(l1[p] < row)
      BY <3>1 DEF Told, HoldsOlder
    <3> QED
      BY <2>1, <3>2 DEF Fresh
  <2> QED
    BY <2>2, <2>3
<1> QED
  BY <1>1, IInvAlways, PTL

\* Once every event is processed, what is still of before the last change is in the
\* memory of a server that missed a message about it, or is to get one; Redis holds
\* nothing of it.
THEOREM OnlyMissedIsOld == Spec => []OnlyMissedRemains
<1>1. L2Fresh /\ L1Fresh => OnlyMissedRemains
  BY DEF OnlyMissedRemains
<1> QED
  BY <1>1, RedisIsFresh, MemoryIsFresh, PTL

\* A claim whose lease runs is ended by its worker, or by the end of its worker.
THEOREM OnlyOwnersEnd == Spec => ClaimsRespected
<1> DEFINE Respected(v) ==
      outbox[v].by \in Servers /\ ~outbox[v].expired /\ outbox'[v].by # outbox[v].by
          => task[outbox[v].by][v].pc \in {"record", "retry"} \/ outbox'[v].by = Former
<1>1. ASSUME TypeOK, [Next]_vars, NEW v \in Changes PROVE Respected(v)
  <2>1. ASSUME NEW p \in Servers, Claim(p) PROVE Respected(v)
    <3>1. v \notin Claimable => outbox'[v] = outbox[v]
      BY <1>1, <2>1 DEF Claim, TypeOK
    <3>2. v \in Claimable => outbox[v].by = Nobody \/ outbox[v].expired
      BY DEF Claimable, Free
    <3> QED
      BY <3>1, <3>2, ServerAssumption
  <2>2. ASSUME NEW p \in Servers, NEW w \in Changes, Record(p, w) PROVE Respected(v)
    <3>1. outbox'[v] = outbox[v] \/ (v = w /\ outbox[v].by = p /\ task[p][v].pc = "record")
      BY <1>1, <2>2 DEF Record, Owns, TypeOK
    <3> QED
      BY <3>1
  <2>3. ASSUME NEW p \in Servers, NEW w \in Changes, Retry(p, w) PROVE Respected(v)
    <3>1. outbox'[v] = outbox[v] \/ (v = w /\ outbox[v].by = p /\ task[p][v].pc = "retry")
      BY <1>1, <2>3 DEF Retry, Owns, TypeOK
    <3> QED
      BY <3>1
  <2>4. ASSUME NEW p \in Servers, Restart(p) PROVE Respected(v)
    <3>1. outbox'[v].by \in {outbox[v].by, Former}
      BY <1>1, <2>4 DEF Restart, TypeOK, Event
    <3> QED
      BY <3>1
  <2>5. ASSUME NEW w \in Changes, BecomeDue(w) \/ LeaseEnds(w) PROVE Respected(v)
    <3>1. outbox'[v].by = outbox[v].by
      <4>1. CASE BecomeDue(w)
        BY <1>1, <4>1 DEF BecomeDue, TypeOK, Event
      <4>2. CASE LeaseEnds(w)
        BY <1>1, <4>2 DEF LeaseEnds, TypeOK, Event
      <4> QED
        BY <2>5, <4>1, <4>2
    <3> QED
      BY <3>1
  <2>6. ASSUME NEW p \in Servers,
               Lookup(p) \/ Copy(p) \/ Load(p) \/ Store(p) \/ Share(p) \/ Change(p)
               \/ WriterDeletes(p) \/ WriterPublishes(p) \/ Deliver(p) \/ LoseMessage(p)
               \/ ForgetL1(p)
        PROVE UNCHANGED outbox
    BY <2>6 DEF Lookup, Copy, Load, Store, Share, Change, WriterDeletes, WriterPublishes,
                Deliver, LoseMessage, ForgetL1
  <2>7. ASSUME NEW p \in Servers, NEW w \in Changes, DeleteEntry(p, w) \/ PublishEvent(p, w)
        PROVE UNCHANGED outbox
    BY <2>7 DEF DeleteEntry, PublishEvent
  <2>8. ASSUME ForgetL2 \/ UNCHANGED vars PROVE UNCHANGED outbox
    BY <2>8 DEF ForgetL2, vars
  <2>9. ASSUME UNCHANGED outbox PROVE Respected(v)
    BY <2>9
  <2> QED
    <3> HIDE DEF Respected
    <3> QED
      BY <1>1, <2>1, <2>2, <2>3, <2>4, <2>5, <2>6, <2>7, <2>8, <2>9, Cases
<1>2. TypeOK /\ [Next]_vars => [\A v \in Changes : Respected(v)]_vars
  BY <1>1
<1>3. TypeOK /\ [Next]_vars => [\A v \in Changes :
        outbox[v].by \in Servers /\ ~outbox[v].expired /\ outbox'[v].by # outbox[v].by
            => task[outbox[v].by][v].pc \in {"record", "retry"}
               \/ outbox'[v].by = Former]_vars
  BY <1>2
<1> QED
  BY <1>3, TypeCorrect, PTL DEF Spec, ClaimsRespected
=============================================================================
