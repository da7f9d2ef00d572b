------------------------------- MODULE LiveCall -------------------------------
(***************************************************************************)
(* Live voice calls over the slots of one account                          *)
(* (service/openai_live.go, repository/gateway_cache.go).                  *)
(*                                                                         *)
(* CreateLiveCall takes an ordinary slot, replaces it by a lease, opens    *)
(* the session at the provider, saves a record in Redis and leaves an      *)
(* observer behind.  The observer keeps a control connection, refreshes    *)
(* the lease, and finalizes the call when the session ends or its time is  *)
(* over: it marks the record closed, releases the lease and writes the     *)
(* usage log.  A client may join (ProxyLiveSideband): it takes control     *)
(* from the observer, and leaves an observer behind when it goes.          *)
(*                                                                         *)
(* The observer is a goroutine of the flow that starts it: it is the tail  *)
(* of that flow here.  Calls and joins are the flows.                      *)
(***************************************************************************)
EXTENDS ConcurrencySlots

CONSTANTS
    Joins,          \* joins of clients, each to one call
    CallOf,         \* the call a join is for
    FlowHome        \* the process that runs a flow

Flows == Calls \cup Joins

\* The call a flow works on.
Target(f) == IF f \in Calls THEN f ELSE CallOf[f]

ASSUME FlowsAssumption ==
    /\ Joins \cap (Requests \cup Calls) = {}
    /\ CallOf \in [Joins -> Calls]
    /\ FlowHome \in [Flows -> Processes]

VARIABLES
    pc,         \* where each flow stands
    control,    \* field controller of the record, "none" before it is saved
    owner,      \* field controller_owner: the flow that claimed last
    session,    \* the session at the provider
    over,       \* calls whose ExpiresAt has passed
    logs        \* usage logs written for each call

callVars == <<pc, control, owner, session, over, logs>>
vars == <<slotVars, callVars>>

Creating == {"idle", "lease", "call", "save", "undo", "giveUpSlot"}
Observing == {"observe", "watch", "dial", "watching", "pause", "waitExpiry"}
Closing == {"finalize", "release", "log"}
Joining == {"claim", "settle", "proxying", "handBack", "leave", "leaveEnded"}
Steps == Creating \cup Observing \cup Closing \cup Joining \cup {"done"}

Nobody == "nobody"

CallTypeOK ==
    /\ pc \in [Flows -> Steps]
    /\ control \in [Calls -> {"none", "pending", "observer", "proxy", "closed"}]
    /\ owner \in [Calls -> Flows \cup {Nobody}]
    /\ session \in [Calls -> {"none", "open", "ended"}]
    /\ over \in SUBSET Calls
    /\ logs \in [Calls -> 0..2]

TypeOK == SlotTypeOK /\ CallTypeOK

Init ==
    /\ SlotInit
    /\ pc = [f \in Flows |-> "idle"]
    /\ control = [c \in Calls |-> "none"]
    /\ owner = [c \in Calls |-> Nobody]
    /\ session = [c \in Calls |-> "none"]
    /\ over = {} /\ logs = [c \in Calls |-> 0]

Moves(f, from, to) ==
    /\ pc[f] = from /\ FlowHome[f] \notin down
    /\ pc' = [pc EXCEPT ![f] = to]

Orphaned == troubles' = troubles \cup {"orphan"}

\* What most steps of a flow leave alone.
NoSlots == UNCHANGED <<slots, live, unbacked>>
NoQueue == UNCHANGED <<waiting, stage, down>>
NoRecord == UNCHANGED <<control, owner>>
NoSession == UNCHANGED <<session, over>>
Quiet == UNCHANGED <<troubles, faults>>

-----------------------------------------------------------------------------
(* Creation. *)

\* The scheduler hands out an account with an ordinary slot acquired.
TakeSlot(c) ==
    /\ \/ HasRoom /\ slots' = slots \cup {c} /\ Moves(c, "idle", "lease")
       \/ ~HasRoom /\ UNCHANGED slots /\ Moves(c, "idle", "done")
    /\ UNCHANGED <<live, unbacked, logs>> /\ NoQueue /\ NoRecord /\ NoSession /\ Quiet

\* acquireLiveLeaseScript.
TakeLease(c) ==
    /\ \/ RoomForLease /\ live' = live \cup {c} /\ Moves(c, "lease", "call")
       \/ ~RoomForLease /\ UNCHANGED live /\ Moves(c, "lease", "giveUpSlot")
    /\ UNCHANGED <<slots, unbacked, logs>> /\ NoQueue /\ NoRecord /\ NoSession /\ Quiet

\* The caller sees an error and returns: a lease that was taken is left.
TakeLeaseUnanswered(c) ==
    /\ Fault
    /\ live' \in {live} \cup IF RoomForLease THEN {live \cup {c}} ELSE {}
    /\ Moves(c, "lease", "giveUpSlot")
    /\ UNCHANGED <<slots, unbacked, troubles, logs>> /\ NoQueue /\ NoRecord /\ NoSession

GiveUpSlot(c) ==
    /\ Moves(c, "giveUpSlot", "done")
    /\ slots' = slots \ {c}
    /\ UNCHANGED <<live, unbacked, logs>> /\ NoQueue /\ NoRecord /\ NoSession /\ Quiet

\* The provider answers, and the ordinary slot is released either way.
OpenSession(c) ==
    /\ \/ /\ Moves(c, "call", "save")
          /\ session' = [session EXCEPT ![c] = "open"]
       \/ Moves(c, "call", "undo") /\ UNCHANGED session
    /\ slots' = slots \ {c}
    /\ UNCHANGED <<live, unbacked, over, logs>> /\ NoQueue /\ NoRecord /\ Quiet

\* The release of the ordinary slot fails: it is left to its score.
OpenSessionSlotLeft(c) ==
    /\ Fault
    /\ Moves(c, "call", "save")
    /\ session' = [session EXCEPT ![c] = "open"]
    /\ UNCHANGED <<over, troubles, logs>> /\ NoSlots /\ NoQueue /\ NoRecord

Saved(c) == control' = [control EXCEPT ![c] = "pending"]

\* SaveLiveCall, then the observer starts.
SaveCall(c) ==
    /\ Moves(c, "save", "observe")
    /\ Saved(c)
    /\ UNCHANGED <<owner, logs>> /\ NoSlots /\ NoQueue /\ NoSession /\ Quiet

\* An error releases the lease and returns; the record may be there.
SaveCallUnanswered(c) ==
    /\ Fault /\ Orphaned
    /\ Moves(c, "save", "undo")
    /\ Saved(c) \/ UNCHANGED control
    /\ UNCHANGED <<owner, logs>> /\ NoSlots /\ NoQueue /\ NoSession

\* releaseLiveLease of a creation that failed; its error is ignored.
UndoLease(c) ==
    /\ Moves(c, "undo", "done")
    /\ live' = live \ {c}
    /\ UNCHANGED <<slots, unbacked, logs>> /\ NoQueue /\ NoRecord /\ NoSession /\ Quiet

-----------------------------------------------------------------------------
(* Control of the record. *)

\* Mutant: whoever controls the call may be replaced.
MayClaimAny(c, role) ==
    control[c] \in {"pending", "observer", "proxy"}

\* claimLiveControllerScript: an observer claims what nobody controls, a proxy
\* also what an observer controls; what another proxy controls is refused.
MayClaim(c, role) ==
    control[c] \in IF role = "proxy" THEN {"pending", "observer"} ELSE {"pending"}

Claims(f, role) ==
    /\ control' = [control EXCEPT ![Target(f)] = role]
    /\ owner' = [owner EXCEPT ![Target(f)] = f]

\* releaseLiveControllerScript: only the proxy that holds it gives it back.
GivesBack(f) ==
    LET c == Target(f) IN
    IF control[c] = "proxy" /\ owner[c] = f
    THEN /\ control' = [control EXCEPT ![c] = "pending"]
         /\ owner' = [owner EXCEPT ![c] = Nobody]
    ELSE UNCHANGED <<control, owner>>

\* refreshLiveLeaseScript never puts a missing member back.
LeaseKept(f) == Target(f) \in live

-----------------------------------------------------------------------------
(* The observer: observeLiveCall. *)

ObserverStep(f, from, to) ==
    /\ Moves(f, from, to)
    /\ UNCHANGED logs /\ NoSlots /\ NoQueue /\ NoSession

Observe(f) ==
    /\ \/ /\ MayClaim(Target(f), "observer") /\ Claims(f, "observer")
          /\ ObserverStep(f, "observe", "watch")
       \/ ~MayClaim(Target(f), "observer") /\ NoRecord /\ ObserverStep(f, "observe", "done")
    /\ Quiet

\* An observer that does not learn whether it has control keeps its snapshot
\* until the call's time is over.
ObserveUnanswered(f) ==
    /\ Fault
    /\ \/ MayClaim(Target(f), "observer") /\ Claims(f, "observer")
       \/ NoRecord
    /\ ObserverStep(f, "observe", "waitExpiry")
    /\ UNCHANGED troubles

\* The head of the loop: read the record again, stop when control has gone,
\* finalize when the time is over, otherwise dial.
ReadCall(f) ==
    LET c == Target(f) IN
    /\ \/ control[c] # "observer" /\ ObserverStep(f, "watch", "done")
       \/ control[c] = "observer" /\ c \in over /\ ObserverStep(f, "watch", "finalize")
       \/ control[c] = "observer" /\ c \notin over /\ ObserverStep(f, "watch", "dial")
    /\ NoRecord /\ Quiet

\* Five reads in a row that fail.
ReadCallUnanswered(f) ==
    /\ Fault
    /\ ObserverStep(f, "watch", "waitExpiry")
    /\ UNCHANGED troubles /\ NoRecord

\* A dial takes long, and nothing is looked at while it does.
Dial(f) ==
    /\ ObserverStep(f, "dial", "watching") \/ ObserverStep(f, "dial", "pause")
    /\ NoRecord /\ Quiet

\* The poll of the controller finds another role than its own.
PollControl(f) ==
    /\ control[Target(f)] # "observer"
    /\ ObserverStep(f, "watching", "done")
    /\ NoRecord /\ Quiet

\* The poll fails, or the control connection breaks.
Disconnect(f) ==
    /\ ObserverStep(f, "watching", "pause")
    /\ NoRecord /\ Quiet

\* One second later: only a poll that answers another role ends the observer.
Resume(f) ==
    /\ \/ control[Target(f)] = "observer" /\ ObserverStep(f, "pause", "watch")
       \/ control[Target(f)] # "observer" /\ ObserverStep(f, "pause", "done")
    /\ NoRecord /\ Quiet

\* Mutant: a connection that breaks is taken for the end of the session.
AnyEndIsOver(f) == TRUE

\* runLiveObserverConnection returns for good: the session has ended, the lease
\* is gone at a refresh, or the timer has fired and session.close was written.
SessionIsOver(f) == session[Target(f)] = "ended" \/ ~LeaseKept(f)

StopWatching(f) ==
    /\ SessionIsOver(f) /\ ObserverStep(f, "watching", "finalize")
    /\ NoRecord /\ Quiet

ClosesSession(f, from, to) ==
    /\ Target(f) \in over
    /\ Moves(f, from, to)
    /\ session' = [session EXCEPT ![Target(f)] = "ended"]
    /\ UNCHANGED <<over, logs>> /\ NoSlots /\ NoQueue /\ NoRecord /\ Quiet

WatchTimer(f) == ClosesSession(f, "watching", "finalize")

\* A refresh that fails is taken for a lease that is lost.
WatchRefreshUnanswered(f) ==
    /\ Fault /\ troubles' = troubles \cup {Target(f)}
    /\ ObserverStep(f, "watching", "finalize")
    /\ NoRecord

\* finalizeLiveCallAfterExpiry.
WaitedLong(f) ==
    /\ Target(f) \in over /\ ObserverStep(f, "waitExpiry", "finalize")
    /\ NoRecord /\ Quiet

-----------------------------------------------------------------------------
(* finalizeLiveCall. *)

Closed(c) ==
    /\ control' = [control EXCEPT ![c] = "closed"]
    /\ owner' = [owner EXCEPT ![c] = Nobody]

\* markLiveCallClosedScript answers first only once.
NotClosed(c) == control[c] \notin {"none", "closed"}

MarkClosed(f) ==
    LET c == Target(f) IN
    /\ \/ NotClosed(c) /\ Closed(c) /\ ObserverStep(f, "finalize", "release")
       \/ ~NotClosed(c) /\ NoRecord /\ ObserverStep(f, "finalize", "done")
    /\ Quiet

\* An error ends the attempt, whether the record is closed or not.
MarkClosedUnanswered(f) ==
    LET c == Target(f) IN
    /\ Fault /\ Orphaned
    /\ \/ NoRecord
       \/ NotClosed(c) /\ Closed(c)
    /\ ObserverStep(f, "finalize", "done")

ReleaseLease(f) ==
    /\ Moves(f, "release", "log")
    /\ live' = live \ {Target(f)}
    /\ UNCHANGED <<slots, unbacked, logs>> /\ NoQueue /\ NoRecord /\ NoSession /\ Quiet

\* Its error is ignored: the lease is left to its score.
ReleaseLeaseFails(f) ==
    /\ Fault
    /\ ObserverStep(f, "release", "log")
    /\ NoRecord /\ UNCHANGED troubles

WriteLog(f) ==
    /\ Moves(f, "log", "done")
    /\ logs' = [logs EXCEPT ![Target(f)] = IF @ < 2 THEN @ + 1 ELSE @]
    /\ NoSlots /\ NoQueue /\ NoRecord /\ NoSession /\ Quiet

-----------------------------------------------------------------------------
(* A client joins: LiveSideband and ProxyLiveSideband. *)

\* GetLiveCallForIdentity.
Join(j) ==
    /\ control[Target(j)] \notin {"none", "closed"}
    /\ ObserverStep(j, "idle", "claim")
    /\ NoRecord /\ Quiet

ClaimProxy(j) ==
    LET c == Target(j) IN
    /\ \/ MayClaim(c, "proxy") /\ Claims(j, "proxy") /\ ObserverStep(j, "claim", "settle")
       \/ ~MayClaim(c, "proxy") /\ NoRecord /\ ObserverStep(j, "claim", "done")
    /\ Quiet

\* The client gets an error; a control that was taken stays taken for good.
ClaimProxyUnanswered(j) ==
    /\ Fault
    /\ \/ MayClaim(Target(j), "proxy") /\ Claims(j, "proxy") /\ Orphaned
       \/ NoRecord /\ UNCHANGED troubles
    /\ ObserverStep(j, "claim", "done")

\* One poll interval for the observer to notice, then the dial.
DialProxy(j) ==
    /\ ObserverStep(j, "settle", "proxying") \/ ObserverStep(j, "settle", "handBack")
    /\ NoRecord /\ Quiet

\* A connection breaks or the client leaves; the session goes on.
ProxyBreaks(j) ==
    /\ ObserverStep(j, "proxying", "leave")
    /\ NoRecord /\ Quiet

ProxyStops(j) ==
    /\ SessionIsOver(j) /\ ObserverStep(j, "proxying", "leaveEnded")
    /\ NoRecord /\ Quiet

ProxyTimer(j) == ClosesSession(j, "proxying", "leaveEnded")

ProxyRefreshUnanswered(j) ==
    /\ Fault /\ troubles' = troubles \cup {Target(j)}
    /\ ObserverStep(j, "proxying", "leaveEnded")
    /\ NoRecord

\* Mutant: no observer follows a proxy.
AfterProxyNobody(j) ==
    IF pc[j] = "leaveEnded" \/ (pc[j] = "leave" /\ Target(j) \in over)
    THEN "finalize" ELSE "done"

\* Where a proxy goes once it has given control back.
AfterProxy(j) ==
    IF pc[j] = "leaveEnded" \/ (pc[j] = "leave" /\ Target(j) \in over)
    THEN "finalize" ELSE "observe"

Leaving(j) ==
    /\ pc[j] \in {"handBack", "leave", "leaveEnded"}
    /\ ObserverStep(j, pc[j], AfterProxy(j))

LeaveProxy(j) == Leaving(j) /\ GivesBack(j) /\ Quiet

\* Its error is ignored, and the observer that follows finds a proxy in control.
LeaveProxyUnanswered(j) ==
    /\ Fault /\ Orphaned
    /\ Leaving(j) /\ NoRecord

-----------------------------------------------------------------------------
(* Time, the provider and processes. *)

\* ExpiresAt passes.
TimePasses(c) ==
    /\ control[c] # "none" /\ c \notin over
    /\ over' = over \cup {c}
    /\ UNCHANGED <<pc, session, logs>> /\ NoSlots /\ NoQueue /\ NoRecord /\ Quiet

\* The provider or the caller hangs up.
HangsUp(c) ==
    /\ session[c] = "open"
    /\ session' = [session EXCEPT ![c] = "ended"]
    /\ UNCHANGED <<pc, over, logs>> /\ NoSlots /\ NoQueue /\ NoRecord /\ Quiet

\* A lease that nobody has refreshed for 60 seconds is trimmed.  A connected
\* controller refreshes every 20 seconds.
Refreshed(c) ==
    \E f \in Flows : Target(f) = c /\ pc[f] \in {"watching", "proxying"} /\ FlowHome[f] \notin down

\* Mutant: a lease has no score.
LeaseNeverExpires(c) == FALSE

LeaseMayExpire(c) == c \in live /\ ~Refreshed(c)

LeaseExpires(c) ==
    /\ LeaseMayExpire(c)
    /\ live' = live \ {c}
    /\ UNCHANGED <<slots, unbacked, callVars>> /\ NoQueue /\ Quiet

\* A process dies with its requests and its flows; nothing looks for the calls
\* it controlled.
Dies(p) ==
    /\ SlotsDie(p)
    /\ pc' = [f \in Flows |-> IF FlowHome[f] = p /\ pc[f] # "idle" THEN "done" ELSE pc[f]]
    /\ troubles' = troubles
          \cup {t \in {"queue"} : \E r \in InQueue : HomeOf[r] = p}
          \cup {t \in {"orphan"} : \E f \in Flows :
                                      FlowHome[f] = p /\ pc[f] \notin {"idle", "done"}}
    /\ UNCHANGED logs /\ NoRecord /\ NoSession

-----------------------------------------------------------------------------
Create(c) ==
    \/ TakeSlot(c) \/ TakeLease(c) \/ TakeLeaseUnanswered(c) \/ GiveUpSlot(c)
    \/ OpenSession(c) \/ OpenSessionSlotLeft(c)
    \/ SaveCall(c) \/ SaveCallUnanswered(c) \/ UndoLease(c)

Control(f) ==
    \/ Observe(f) \/ ObserveUnanswered(f) \/ ReadCall(f) \/ ReadCallUnanswered(f)
    \/ Dial(f) \/ PollControl(f) \/ Disconnect(f) \/ Resume(f)
    \/ StopWatching(f) \/ WatchTimer(f) \/ WatchRefreshUnanswered(f) \/ WaitedLong(f)
    \/ MarkClosed(f) \/ MarkClosedUnanswered(f)
    \/ ReleaseLease(f) \/ ReleaseLeaseFails(f) \/ WriteLog(f)

Sideband(j) ==
    \/ Join(j) \/ ClaimProxy(j) \/ ClaimProxyUnanswered(j) \/ DialProxy(j)
    \/ ProxyBreaks(j) \/ ProxyStops(j) \/ ProxyTimer(j) \/ ProxyRefreshUnanswered(j)
    \/ LeaveProxy(j) \/ LeaveProxyUnanswered(j)

Next ==
    \/ SlotStep /\ UNCHANGED callVars
    \/ \E c \in Calls : Create(c) \/ TimePasses(c) \/ HangsUp(c) \/ LeaseExpires(c)
    \/ \E f \in Flows : Control(f)
    \/ \E j \in Joins : Sideband(j)
    \/ \E p \in Processes : Dies(p)

Spec == Init /\ [][Next]_vars

\* The connected controller's own timer, its poll and its refresh.
Attends(f) ==
    \/ StopWatching(f) \/ WatchTimer(f) \/ PollControl(f)
    \/ ProxyStops(f) \/ ProxyTimer(f)

\* Every other step of the code that its flow takes unasked.
Proceeds(f) ==
    \/ Observe(f) \/ ReadCall(f) \/ Dial(f) \/ Resume(f) \/ WaitedLong(f)
    \/ MarkClosed(f) \/ ReleaseLease(f) \/ WriteLog(f)
    \/ LeaveProxy(f) \/ (f \in Joins /\ (ClaimProxy(f) \/ DialProxy(f)))

\* Time passes, goroutines run, timers fire.  A connection may break as often
\* as it likes: nothing is assumed of a dial's outcome.
Fairness ==
    /\ \A c \in Calls : WF_vars(TimePasses(c)) /\ WF_vars(LeaseExpires(c))
    /\ \A h \in Holders : WF_vars(SlotExpires(h) /\ UNCHANGED callVars)
    /\ \A f \in Flows : SF_vars(Attends(f)) /\ WF_vars(Proceeds(f))

FairSpec == Spec /\ Fairness

-----------------------------------------------------------------------------
(* Properties. *)

\* The usage of a call is logged once, however many observers, proxies and
\* waiters try to finalize it: closing the record decides.
LoggedOnce == \A c \in Calls : logs[c] <= 1

\* Requests and calls add up: the places they hold to the limit, but for a lease
\* taken over a slot that was gone (`unbacked`), the places they wait for to the
\* counter, unless something disturbed it (trouble "queue"), and the logs to one
\* for each call.
CallsAddUp == TypeOK /\ LimitKept /\ QueueIsCounted /\ LoggedOnce

\* The control a client's proxy has taken stays with it until it gives it back
\* or the record is closed: neither an observer that was slow to claim nor
\* another client takes it away in between.
ControlIsKept == [][\A c \in Calls :
    control[c] = "proxy" /\ ~(control'[c] = "proxy" /\ owner'[c] = owner[c]) =>
        control'[c] = "closed" \/ pc[owner[c]] \in {"handBack", "leave", "leaveEnded"}]_vars

\* A record is closed only over a call that has ended: the session is over at
\* the provider, its time has passed, or its lease was lost for good.  A refresh
\* of this lease that failed for another reason is the exception the code makes;
\* it closes no other call.
ClosedAfterEnd == [][\A c \in Calls :
    control[c] # "closed" /\ control'[c] = "closed" /\ c \notin troubles =>
        session[c] = "ended" \/ c \in over \/ c \notin live]_vars

\* Every call that is saved is closed and logged in the end, whatever breaks in
\* between, unless a step left it without a controller: a process that died, a
\* lost answer to a claim or to the end of one, a failed close or save.
CallIsLogged == \A c \in Calls :
    control[c] = "pending" ~> logs[c] = 1 \/ "orphan" \in troubles

\* No slot and no lease stays in Redis for ever.
PlacesComeBack == \A h \in Holders : h \in slots \cup live ~> h \notin slots \cup live
=============================================================================
