------------------------------ MODULE AuthCache ------------------------------
(***************************************************************************)
(* What the servers remember of one API key when they authenticate         *)
(* requests, and how a change of the key reaches them.                     *)
(*                                                                         *)
(* Every server keeps an entry in its memory (L1) above a shared one in    *)
(* Redis (L2), and fills both from the database.  A change of the row      *)
(* writes, by a trigger of its transaction, an event to an outbox.  The    *)
(* worker of any server claims events under a lease, deletes the entries,  *)
(* tells the other servers by Pub/Sub, and does so again after a safety    *)
(* delay, for the lookups that had read the row before the change.         *)
(*                                                                         *)
(* The row is known by its version, the number of its changes; the event   *)
(* of a change by the version it made.  A step is one command of Redis,    *)
(* one statement, or one access to memory.                                 *)
(***************************************************************************)
EXTENDS Naturals

CONSTANTS
    Servers,
    Readers,         \* bound: the servers that are asked for the key
    Editors,         \* bound: the servers that change it
    Nobody, Former,  \* no claim, and the claim of a worker that is gone
    MaxVersion,      \* bound: changes of one behaviour
    Deleted,         \* versions of which the key does not exist
    MaxFaults        \* bound: faults of one behaviour

ASSUME RoleAssumption   == Readers \subseteq Servers /\ Editors \subseteq Servers
ASSUME ServerAssumption == Nobody \notin Servers /\ Former \notin Servers /\ Nobody # Former
ASSUME BoundAssumption  == MaxVersion \in Nat /\ Deleted \subseteq Nat /\ MaxFaults \in Nat

VARIABLES
    row,     \* version of the row
    outbox,  \* event of a version: stage, due, by (claim), expired (lease)
    l1,      \* entry of a server's memory
    l2,      \* entry in Redis
    reader,  \* the lookup of a server
    writer,  \* the server that invalidates at once what it changed
    task,    \* what a server's worker does about an event
    inbox,   \* messages on their way to a server
    missed,  \* history: the server's entry, or the copy of Redis's entry it is about
             \* to store, outlived a message that was lost or came while it copied
    faults

memory == <<l1, missed>>
vars == <<row, outbox, l1, l2, reader, writer, task, inbox, missed, faults>>

Versions == 0..MaxVersion
Changes  == 1..MaxVersion
None     == MaxVersion + 1

Fault   == faults < MaxFaults /\ faults' = faults + 1
NoFault == faults' = faults

\* Stage 2 is an event that has been deleted.
Stages  == 0..2
Pending == {v \in 1..row : outbox[v].stage < 2}

\* An event of this stage without, and with a claim.
Unclaimed(stage, due) == [stage |-> stage, due |-> due, by |-> Nobody, expired |-> FALSE]
ClaimedBy(p, e) == [stage |-> e.stage, due |-> e.due, by |-> p, expired |-> FALSE]

NoTask   == [pc |-> "idle", stage |-> 0]
NoReader == [pc |-> "idle", got |-> 0]

Init ==
    /\ row = 0
    /\ outbox = [v \in Changes |-> Unclaimed(0, TRUE)]
    /\ l1 = [p \in Servers |-> None] /\ l2 = None
    /\ reader = [p \in Servers |-> NoReader] /\ writer = [p \in Servers |-> "idle"]
    /\ task = [p \in Servers |-> [v \in Changes |-> NoTask]]
    /\ inbox = [p \in Servers |-> 0] /\ missed = [p \in Servers |-> FALSE]
    /\ faults = 0

\* Between reading Redis's entry and storing it.
Copying(p) == reader[p].pc = "copy"

Remembers(p, entry) == l1' = [l1 EXCEPT ![p] = entry]

\* The entry goes, but not the copy that is about to be stored.
Forgets(p) == Remembers(p, None) /\ missed' = [missed EXCEPT ![p] = @ /\ Copying(p)]

\* PublishAuthCacheInvalidation
Publish == inbox' = [p \in Servers |-> inbox[p] + 1]

-----------------------------------------------------------------------------
(* Lookups                                                                 *)

InRedis == l2 # None

\* getAuthCacheEntry, when the memory has nothing.  An error of Redis counts as
\* a miss.
Lookup(p) ==
    /\ reader[p].pc = "idle" /\ l1[p] = None
    /\ \/ InRedis /\ reader' = [reader EXCEPT ![p] = [pc |-> "copy", got |-> l2]] /\ NoFault
       \/ reader' = [reader EXCEPT ![p] = [pc |-> "load", got |-> 0]] /\ IF InRedis THEN Fault ELSE NoFault
    /\ missed' = [missed EXCEPT ![p] = FALSE]
    /\ UNCHANGED <<row, outbox, l1, l2, writer, task, inbox>>

Copy(p) ==
    /\ Copying(p) /\ Remembers(p, reader[p].got)
    /\ reader' = [reader EXCEPT ![p] = NoReader]
    /\ UNCHANGED <<row, outbox, missed, l2, writer, task, inbox, faults>>

\* loadAuthCacheEntry: the row, or its absence.
Load(p) ==
    /\ reader[p].pc = "load" /\ reader' = [reader EXCEPT ![p] = [pc |-> "store", got |-> row]]
    /\ UNCHANGED <<row, outbox, memory, l2, writer, task, inbox, faults>>

\* That a key does not exist is remembered by the server alone.
Store(p) ==
    LET got == reader[p].got IN
    /\ reader[p].pc = "store" /\ Remembers(p, got) /\ missed' = [missed EXCEPT ![p] = FALSE]
    /\ reader' = [reader EXCEPT ![p] = IF got \in Deleted THEN NoReader
                                       ELSE [pc |-> "share", got |-> got]]
    /\ UNCHANGED <<row, outbox, l2, writer, task, inbox, faults>>

Share(p) ==
    /\ reader[p].pc = "share" /\ reader' = [reader EXCEPT ![p] = NoReader]
    /\ \/ l2' = reader[p].got /\ NoFault
       \/ UNCHANGED l2 /\ Fault
    /\ UNCHANGED <<row, outbox, memory, writer, task, inbox>>

-----------------------------------------------------------------------------
(* Changes                                                                 *)

\* The row and the event of the trigger.  Some handlers go on to invalidate the
\* key, and ignore errors.
Change(p) ==
    /\ row < MaxVersion /\ row' = row + 1
    /\ writer[p] = "idle" /\ writer' \in {writer, [writer EXCEPT ![p] = "delete"]}
    /\ UNCHANGED <<outbox, memory, l2, reader, task, inbox, faults>>

WriterDeletes(p) ==
    /\ writer[p] = "delete" /\ writer' = [writer EXCEPT ![p] = "publish"]
    /\ Forgets(p)
    /\ \/ l2' = None /\ NoFault
       \/ UNCHANGED l2 /\ Fault
    /\ UNCHANGED <<row, outbox, reader, task, inbox>>

WriterPublishes(p) ==
    /\ writer[p] = "publish" /\ writer' = [writer EXCEPT ![p] = "idle"]
    /\ \/ Publish /\ NoFault
       \/ UNCHANGED inbox /\ Fault
    /\ UNCHANGED <<row, outbox, memory, l2, reader, task>>

-----------------------------------------------------------------------------
(* The outbox                                                              *)

Free(v) == outbox[v].by = Nobody
Claimable == {v \in Pending : outbox[v].due /\ (Free(v) \/ outbox[v].expired)}

\* Claim, when the worker is done with its batch.  The answer may be lost.
Claim(p) ==
    /\ Claimable # {} /\ \A v \in Changes : task[p][v].pc = "idle"
    /\ outbox' = [v \in Changes |->
            IF v \in Claimable THEN ClaimedBy(p, outbox[v]) ELSE outbox[v]]
    /\ \/ /\ NoFault
          /\ task' = [task EXCEPT ![p] = [v \in Changes |->
                    IF v \in Claimable THEN [pc |-> "delete", stage |-> outbox[v].stage]
                    ELSE NoTask]]
       \/ UNCHANGED task /\ Fault
    /\ UNCHANGED <<row, memory, l2, reader, writer, inbox>>

Goes(p, v, pc) == task' = [task EXCEPT ![p][v] = [pc |-> pc, stage |-> task[p][v].stage]]

\* processEvent: the worker's own memory, and Redis.  An error may hide that the
\* command was done.
DeleteEntry(p, v) ==
    /\ task[p][v].pc = "delete" /\ Forgets(p)
    /\ \/ l2' = None /\ Goes(p, v, "publish") /\ NoFault
       \/ l2' \in {l2, None} /\ Goes(p, v, "retry") /\ Fault
    /\ UNCHANGED <<row, outbox, reader, writer, inbox>>

PublishEvent(p, v) ==
    /\ task[p][v].pc = "publish"
    /\ \/ Publish /\ Goes(p, v, "record") /\ NoFault
       \/ (Publish \/ UNCHANGED inbox) /\ Goes(p, v, "retry") /\ Fault
    /\ UNCHANGED <<row, outbox, memory, l2, reader, writer>>

\* Mutant: whoever holds the claim by now.
OwnsAny(p, v) == TRUE

Owns(p, v) == outbox[v].by = p

\* Mutant: the event is deleted after the first pass.
AfterPassOnce(stage) == Unclaimed(2, TRUE)

\* ScheduleSecondPass after the first pass, DeleteClaimed after the second.
AfterPass(stage) == IF stage = 0 THEN Unclaimed(1, FALSE) ELSE Unclaimed(2, TRUE)

\* The update is refused when the claim was taken over.
Record(p, v) ==
    /\ task[p][v].pc = "record" /\ task' = [task EXCEPT ![p][v] = NoTask]
    /\ \/ /\ outbox' = IF Owns(p, v) /\ (task[p][v].stage = 0 => outbox[v].stage = 0)
                       THEN [outbox EXCEPT ![v] = AfterPass(task[p][v].stage)] ELSE outbox
          /\ NoFault
       \/ UNCHANGED outbox /\ Fault
    /\ UNCHANGED <<row, memory, l2, reader, writer, inbox>>

\* RetryClaimed
Retry(p, v) ==
    /\ task[p][v].pc = "retry" /\ task' = [task EXCEPT ![p][v] = NoTask]
    /\ \/ /\ outbox' = IF Owns(p, v)
                       THEN [outbox EXCEPT ![v] = Unclaimed(outbox[v].stage, FALSE)]
                       ELSE outbox
          /\ NoFault
       \/ UNCHANGED outbox /\ Fault
    /\ UNCHANGED <<row, memory, l2, reader, writer, inbox>>

\* The lookup read the row before this change, and has not stored it yet.
Older(p, v) == reader[p].pc \in {"store", "share"} /\ reader[p].got < v

\* The time of an event comes.  The safety delay is longer than a lookup takes
\* from the row to the caches.
BecomeDue(v) ==
    /\ v \in Pending /\ ~outbox[v].due
    /\ outbox[v].stage = 1 => \A p \in Servers : ~Older(p, v)
    /\ outbox' = [outbox EXCEPT ![v].due = TRUE]
    /\ UNCHANGED <<row, memory, l2, reader, writer, task, inbox, faults>>

\* Mutant: claims without a lease.
NoLease(v) == FALSE

HasLease(v) == ~Free(v)

\* The lease ends; while the worker still works on the event, only if it was slow.
LeaseEnds(v) ==
    /\ v \in Pending /\ HasLease(v) /\ ~outbox[v].expired
    /\ outbox' = [outbox EXCEPT ![v].expired = TRUE]
    /\ IF outbox[v].by \in Servers /\ task[outbox[v].by][v].pc # "idle" THEN Fault ELSE NoFault
    /\ UNCHANGED <<row, memory, l2, reader, writer, task, inbox>>

-----------------------------------------------------------------------------
(* The world                                                               *)

Deliver(p) ==
    /\ inbox[p] > 0 /\ inbox' = [inbox EXCEPT ![p] = @ - 1]
    /\ Remembers(p, None) /\ missed' = [missed EXCEPT ![p] = Copying(p)]
    /\ UNCHANGED <<row, outbox, l2, reader, writer, task, faults>>

\* The subscription breaks, and is made again.
LoseMessage(p) ==
    /\ inbox[p] > 0 /\ Fault
    /\ inbox' = [inbox EXCEPT ![p] = @ - 1] /\ missed' = [missed EXCEPT ![p] = TRUE]
    /\ UNCHANGED <<row, outbox, l1, l2, reader, writer, task>>

ForgetL1(p) ==
    /\ l1[p] # None /\ Forgets(p)
    /\ UNCHANGED <<row, outbox, l2, reader, writer, task, inbox, faults>>

ForgetL2 ==
    /\ l2 # None /\ l2' = None
    /\ UNCHANGED <<row, outbox, memory, reader, writer, task, inbox, faults>>

\* Its worker comes back under another name.
Restart(p) ==
    /\ Fault /\ Remembers(p, None) /\ missed' = [missed EXCEPT ![p] = FALSE]
    /\ outbox' = [v \in Changes |->
            IF outbox[v].by = p THEN [outbox[v] EXCEPT !.by = Former] ELSE outbox[v]]
    /\ task' = [task EXCEPT ![p] = [v \in Changes |-> NoTask]]
    /\ reader' = [reader EXCEPT ![p] = NoReader] /\ writer' = [writer EXCEPT ![p] = "idle"]
    /\ inbox' = [inbox EXCEPT ![p] = 0]
    /\ UNCHANGED <<row, l2>>

-----------------------------------------------------------------------------
Look(p)    == Lookup(p) \/ Copy(p) \/ Load(p) \/ Store(p) \/ Share(p)
Write(p)   == WriterDeletes(p) \/ WriterPublishes(p)
Process(p) == \E v \in Changes :
                  DeleteEntry(p, v) \/ PublishEvent(p, v) \/ Record(p, v) \/ Retry(p, v)
Time(v)    == BecomeDue(v) \/ LeaseEnds(v)

Next ==
    \/ \E p \in Readers : Look(p)
    \/ \E p \in Editors : Change(p) \/ Write(p)
    \/ \E p \in Servers :
        \/ Claim(p) \/ Process(p) \/ Deliver(p) \/ LoseMessage(p) \/ ForgetL1(p) \/ Restart(p)
    \/ \E v \in Changes : Time(v)
    \/ ForgetL2

Spec == Init /\ [][Next]_vars

\* Servers go on, workers poll, messages arrive and times pass.  Nothing is
\* asked of the lifetime of the entry in Redis.
FairSpec ==
    /\ Spec
    /\ \A p \in Servers :
        /\ WF_vars(Copy(p) \/ Load(p) \/ Store(p) \/ Share(p)) /\ WF_vars(Write(p))
        /\ SF_vars(Claim(p)) /\ WF_vars(Deliver(p)) /\ WF_vars(ForgetL1(p))
    /\ \A p \in Servers, v \in Changes :
        WF_vars(DeleteEntry(p, v) \/ PublishEvent(p, v) \/ Record(p, v) \/ Retry(p, v))
    /\ \A v \in Changes : SF_vars(BecomeDue(v)) /\ WF_vars(LeaseEnds(v))

-----------------------------------------------------------------------------
(* Properties                                                              *)

Event == [stage : Stages, due : BOOLEAN, by : Servers \cup {Nobody, Former}, expired : BOOLEAN]
Entry == Versions \cup {None}
Reader == [pc : {"idle", "copy", "load", "store", "share"}, got : Versions]
Task  == [pc : {"idle", "delete", "publish", "record", "retry"}, stage : {0, 1}]

\* Every variable keeps its type.
TypeOK ==
    /\ row \in Versions /\ l2 \in Entry
    /\ outbox \in [Changes -> Event] /\ task \in [Servers -> [Changes -> Task]]
    /\ l1 \in [Servers -> Entry] /\ reader \in [Servers -> Reader]
    /\ writer \in [Servers -> {"idle", "delete", "publish"}]
    /\ inbox \in [Servers -> Nat] /\ missed \in [Servers -> BOOLEAN] /\ faults \in 0..MaxFaults

Fresh(version) == version \in {row, None}

\* Once no event is pending, Redis holds nothing of an earlier version, whatever
\* lookups were under way during the changes, and whatever failed.
L2Fresh == Pending = {} => Fresh(l2)

\* Then an old entry in a server's memory outlived a message: one that is still on
\* its way, one that was lost, or one that arrived while the server was copying
\* the entry from Redis.  No other is left, whether it was read of the row or copied.
L1Fresh ==
    Pending = {} => \A p \in Servers : Fresh(l1[p]) \/ missed[p] \/ inbox[p] > 0

\* When the outbox is empty the only old entries left are those in a memory that
\* missed a message, or is to get one; there is none in Redis.
OnlyMissedRemains == L2Fresh /\ L1Fresh

\* A claim whose lease runs is ended by its worker only.
ClaimsRespected ==
    [][\A v \in Changes :
        outbox[v].by \in Servers /\ ~outbox[v].expired /\ outbox'[v].by # outbox[v].by
            => task[outbox[v].by][v].pc \in {"record", "retry"}
               \/ outbox'[v].by = Former]_vars

\* When changes come to an end every server comes to see the last version, though
\* the old entry in Redis would live on.
ChangeArrives == <>[](Fresh(l2) /\ \A p \in Servers : Fresh(l1[p]))

=============================================================================
