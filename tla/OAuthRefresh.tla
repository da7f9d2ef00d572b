---------------------------- MODULE OAuthRefresh ----------------------------
(***************************************************************************)
(* The OAuth credentials of one Grok account, whose refresh token the      *)
(* provider accepts once and answers with the next one.                    *)
(*                                                                         *)
(* A flow is a background cycle or a request of some process that finds    *)
(* the access token due: local mutex, lock in Redis, row read again,       *)
(* provider, conditional update; and, outside the locks, the update that   *)
(* takes the account out of service if the refresh failed.  An             *)
(* administrator edits or reauthorizes the account meanwhile.              *)
(*                                                                         *)
(* Credentials are numbered in the order the provider issues them; a step  *)
(* is one Redis command, one statement or one call of the provider.        *)
(***************************************************************************)
EXTENDS Naturals

CONSTANTS
    Flows,
    Procs, ProcOf,  \* processes, and the process of a flow
    MaxTries,       \* maxRetries of the background cycle
    MaxIssued,      \* bound: no credentials get due, or are authorized, beyond
    MaxFaults       \* bound: faults, and edits, of one behaviour

ASSUME ProcAssumption  == ProcOf \in [Flows -> Procs]
ASSUME BoundAssumption == MaxTries \in Nat \ {0} /\ MaxIssued \in Nat /\ MaxFaults \in Nat

VARIABLES
    row,      \* accounts: cred, status, schedulable, cooldown (with its reason)
    issued,   \* the newest credentials the provider issued
    live,     \* credentials whose refresh token it accepts
    due,      \* credentials whose access token expires soon or has expired
    lock,     \* the lock in Redis: Free, Left, or the flow that set it
    flow,
    admin,
    trouble,  \* history: the lock failed to exclude
    lost,     \* history: a refreshed token was lost on its way to the row
    faults

provider == <<issued, live, due>>
history  == <<trouble, lost, faults>>
vars     == <<row, provider, lock, flow, admin, history>>

Free == "free"
Left == "left"

ASSUME FlowAssumption == Free \notin Flows /\ Left \notin Flows

Fault   == faults < MaxFaults /\ faults' = faults + 1
NoFault == faults' = faults

At(f, pcs)   == flow[f].pc \in pcs
Goes(f, pc)  == flow' = [flow EXCEPT ![f].pc = pc]
\* RefreshIfNeeded is about to return with this outcome.
Returns(f, out, base) ==
    flow' = [flow EXCEPT ![f].pc = "release", ![f].out = out, ![f].base = base]
Idle == [pc |-> "idle", path |-> "request", base |-> 0, snap |-> 0, got |-> 0,
         held |-> FALSE, out |-> "none", try |-> 0]
Ends(f) == flow' = [flow EXCEPT ![f] = Idle]

\* Inside RefreshIfNeeded, with the process's local mutex.
Inside(f) == At(f, {"reread", "refresh", "recover", "persist", "release"})

Active      == row.status = "active"
Schedulable == Active /\ row.schedulable /\ row.cooldown = "no"

\* Mutant: the row is updated whatever it holds by now.
UnchangedOrNot(cred) == TRUE

\* The row still holds the credentials the flow worked with: the WHERE clause
\* of the conditional updates.
Unchanged(cred) == row.cred = cred

Init ==
    /\ row = [cred |-> 1, status |-> "active", schedulable |-> TRUE, cooldown |-> "no"]
    /\ issued = 1 /\ live = {1} /\ due = {}
    /\ lock = Free /\ flow = [f \in Flows |-> Idle]
    /\ admin = [pc |-> "idle", row |-> row]
    /\ trouble = FALSE /\ lost = FALSE /\ faults = 0

-----------------------------------------------------------------------------
(* RefreshIfNeeded                                                         *)

\* A candidate of the background cycle, or a request that selected the account,
\* with the row as it read it.
Begin(f, path) ==
    /\ At(f, {"idle"}) /\ row.cred \in due
    /\ \/ path = "background" /\ Active /\ row.schedulable /\ row.cooldown # "background"
       \/ path = "request" /\ Schedulable
    /\ flow' = [flow EXCEPT ![f] = [Idle EXCEPT !.pc = "lock", !.path = path,
                                                !.base = row.cred, !.try = 1]]
    /\ UNCHANGED <<row, provider, lock, admin, history>>

\* AcquireRefreshLock under the local mutex.  A lock that is held ends the flow;
\* an error, which may hide a lock that was set, is ignored.
AcquireLock(f) ==
    /\ At(f, {"lock"})
    /\ ~ \E g \in Flows \ {f} : ProcOf[g] = ProcOf[f] /\ Inside(g)
    /\ \/ /\ lock = Free /\ lock' = f
          /\ flow' = [flow EXCEPT ![f].pc = "reread", ![f].held = TRUE]
          /\ UNCHANGED <<trouble, faults>>
       \/ lock # Free /\ Ends(f) /\ UNCHANGED <<lock, trouble, faults>>
       \/ /\ Fault /\ trouble' = TRUE /\ Goes(f, "reread")
          /\ lock' \in {lock, IF lock = Free THEN Left ELSE lock}
    /\ UNCHANGED <<row, provider, admin, lost>>

\* The row is read again and the need for a refresh checked again.
Reread(f) ==
    /\ At(f, {"reread"})
    /\ \/ /\ NoFault
          /\ IF Active /\ row.cred \in due /\ (flow[f].path = "request" => Schedulable)
             THEN flow' = [flow EXCEPT ![f].pc = "refresh", ![f].snap = row.cred]
             ELSE Returns(f, "none", flow[f].base)
       \/ Fault /\ Returns(f, "none", flow[f].base)
    /\ UNCHANGED <<row, provider, lock, admin, trouble, lost>>

\* The provider takes the refresh token and issues the next credentials.
Rotate(f) ==
    /\ issued' = issued + 1 /\ live' = (live \ {flow[f].snap}) \cup {issued + 1}
    /\ UNCHANGED due

\* Refresh.  An answer after the attempt's deadline is not used, and what failed
\* then is known only as the credentials the flow began with.
Refresh(f) ==
    LET s == flow[f].snap IN
    /\ At(f, {"refresh"})
    /\ \/ /\ s \in live /\ Rotate(f)
          /\ \/ /\ flow' = [flow EXCEPT ![f].pc = "persist", ![f].got = issued + 1]
                /\ UNCHANGED <<lost, faults>>
             \/ Returns(f, "transient", flow[f].base) /\ Fault /\ lost' = TRUE
       \/ s \notin live /\ Goes(f, "recover") /\ UNCHANGED <<provider, lost, faults>>
       \/ Returns(f, "transient", s) /\ Fault /\ UNCHANGED <<provider, lost>>
    /\ UNCHANGED <<row, lock, admin, trouble>>

\* tryRecoverFromRefreshRace: a rejected token that is no longer the row's was
\* used by another flow.
Recover(f) ==
    /\ At(f, {"recover"})
    /\ \/ Returns(f, IF Unchanged(flow[f].snap) THEN "rejected" ELSE "none", flow[f].snap) /\ NoFault
       \/ Returns(f, "rejected", flow[f].snap) /\ Fault
    /\ UNCHANGED <<row, provider, lock, admin, trouble, lost>>

\* Mutant: the old refresh token is merged over the new one.
NewCredentialsOverOld(f) == flow[f].snap

NewCredentials(f) == flow[f].got

\* UpdateGrokOAuthCredentialsIfUnchanged, and the row that is read after it.
\* After an error the update may have happened.
Persist(f) ==
    LET s == flow[f].snap IN
    /\ At(f, {"persist"})
    /\ \/ /\ row' = [row EXCEPT !.cred = IF Unchanged(s) THEN NewCredentials(f) ELSE @]
          /\ \/ /\ Returns(f, IF Unchanged(s) /\ row.cooldown # "no" THEN "clear" ELSE "none", s)
                /\ NoFault
             \/ Returns(f, "none", s) /\ Fault
          /\ UNCHANGED lost
       \/ Returns(f, "none", s) /\ Fault /\ lost' = TRUE /\ UNCHANGED row
    /\ UNCHANGED <<provider, lock, admin, trouble>>

\* Where the flow goes with its outcome.
After(f) ==
    LET out == flow[f].out
        background == flow[f].path = "background" IN
    CASE out = "none" -> "idle"
      [] out = "clear" -> IF background THEN "clear" ELSE "idle"
      [] out = "rejected" -> "quarantine"
      [] out = "transient" /\ background /\ flow[f].try < MaxTries -> "lock"
      [] OTHER -> "cooldown"

\* The deferred ReleaseRefreshLock deletes the lock, whoever holds it.
Release(f) ==
    /\ At(f, {"release"})
    /\ \/ lock' = (IF flow[f].held THEN Free ELSE lock) /\ NoFault
       \/ lock' = (IF lock = f THEN Left ELSE lock) /\ flow[f].held /\ Fault
    /\ IF After(f) = "idle" THEN Ends(f)
       ELSE flow' = [flow EXCEPT ![f].pc = After(f), ![f].held = FALSE,
                                 ![f].snap = 0, ![f].got = 0,
                                 ![f].try = IF After(f) = "lock" THEN @ + 1 ELSE @]
    /\ UNCHANGED <<row, provider, admin, trouble, lost>>

-----------------------------------------------------------------------------
(* After the locks                                                         *)

\* SetGrokOAuthRefreshErrorIfCredentialsUnchanged of the cycle, ...IfMatch of a
\* request.
Quarantine(f) ==
    /\ At(f, {"quarantine"}) /\ Ends(f)
    /\ IF Unchanged(flow[f].base)
          /\ IF flow[f].path = "request" THEN Schedulable ELSE Active
       THEN \/ row' = [row EXCEPT !.status = "error", !.schedulable = FALSE] /\ NoFault
            \/ UNCHANGED row /\ Fault
       ELSE UNCHANGED <<row, faults>>
    /\ UNCHANGED <<provider, lock, admin, trouble, lost>>

\* The same for ten minutes, when tries are exhausted or a request failed.
Cooldown(f) ==
    /\ At(f, {"cooldown"}) /\ Ends(f)
    /\ IF Unchanged(flow[f].base)
          /\ IF flow[f].path = "request" THEN Schedulable ELSE Active
       THEN \/ row' = [row EXCEPT !.cooldown = flow[f].path] /\ NoFault
            \/ UNCHANGED row /\ Fault
       ELSE UNCHANGED <<row, faults>>
    /\ UNCHANGED <<provider, lock, admin, trouble, lost>>

\* postRefreshActions ends a cooldown.
ClearCooldown(f) ==
    /\ At(f, {"clear"}) /\ Ends(f)
    /\ \/ row' = [row EXCEPT !.cooldown = "no"] /\ NoFault
       \/ UNCHANGED row /\ Fault
    /\ UNCHANGED <<provider, lock, admin, trouble, lost>>

CooldownEnds ==
    /\ row.cooldown # "no" /\ row' = [row EXCEPT !.cooldown = "no"]
    /\ UNCHANGED <<provider, lock, flow, admin, history>>

-----------------------------------------------------------------------------
(* Process, provider and lock                                              *)

FlowDies(f) ==
    /\ ~At(f, {"idle"}) /\ Fault /\ Ends(f)
    /\ lock' = IF lock = f THEN Left ELSE lock
    /\ lost' = (lost \/ At(f, {"persist"}))
    /\ UNCHANGED <<row, provider, admin, trouble>>

\* Mutant: a lock without a lifetime.
NoTTL == FALSE

HasTTL == lock # Free

\* The lock ends by its TTL.  Attempts end before it does, so that under a flow
\* this takes a process that stood still.
LockExpires ==
    /\ HasTTL /\ lock' = Free
    /\ IF lock = Left THEN UNCHANGED <<trouble, faults>> ELSE Fault /\ trouble' = TRUE
    /\ UNCHANGED <<row, provider, flow, admin, lost>>

TokenGetsDue ==
    /\ row.cred \notin due /\ row.cred <= MaxIssued /\ due' = due \cup {row.cred}
    /\ UNCHANGED <<row, issued, live, lock, flow, admin, history>>

-----------------------------------------------------------------------------
(* The administrator                                                       *)

\* UpdateAccount reads the row and writes it back as a whole, to change another
\* setting or with new credentials.
AdminReads(kind) ==
    /\ admin.pc = "idle" /\ admin' = [pc |-> kind, row |-> row]
    /\ IF kind = "edit" THEN Fault ELSE issued < MaxIssued /\ NoFault
    /\ UNCHANGED <<row, provider, lock, flow, trouble, lost>>

\* The cooldown is not among the columns it writes.
WrittenBack(cred) ==
    [admin.row EXCEPT !.cred = cred, !.cooldown = row.cooldown,
                      !.schedulable = @ /\ admin.row.status # "error"]

AdminEdits ==
    /\ admin.pc = "edit" /\ admin' = [admin EXCEPT !.pc = "idle"]
    /\ row' = WrittenBack(admin.row.cred)
    /\ lost' = (lost \/ row.cred # admin.row.cred)
    /\ UNCHANGED <<provider, lock, flow, trouble, faults>>

Reauthorize ==
    /\ admin.pc = "reauthorize" /\ admin' = [admin EXCEPT !.pc = "clear"]
    /\ issued' = issued + 1 /\ live' = live \cup {issued + 1}
    /\ row' = WrittenBack(issued + 1)
    /\ UNCHANGED <<due, lock, flow, history>>

\* ClearAccountError, which leaves schedulable to the administrator.
AdminClears ==
    /\ admin.pc = "clear" /\ admin' = [admin EXCEPT !.pc = "idle"]
    /\ row' = [row EXCEPT !.status = "active", !.cooldown = "no"]
    /\ UNCHANGED <<provider, lock, flow, history>>

SetSchedulable ==
    /\ ~row.schedulable /\ row' = [row EXCEPT !.schedulable = TRUE]
    /\ UNCHANGED <<provider, lock, flow, admin, history>>

-----------------------------------------------------------------------------
Step(f) ==
    \/ AcquireLock(f) \/ Reread(f) \/ Refresh(f) \/ Recover(f) \/ Persist(f) \/ Release(f)
    \/ Quarantine(f) \/ Cooldown(f) \/ ClearCooldown(f)

Next ==
    \/ \E f \in Flows :
        \/ \E path \in {"background", "request"} : Begin(f, path)
        \/ Step(f) \/ FlowDies(f)
    \/ CooldownEnds \/ LockExpires \/ TokenGetsDue
    \/ \E kind \in {"edit", "reauthorize"} : AdminReads(kind)
    \/ AdminEdits \/ Reauthorize \/ AdminClears \/ SetSchedulable

Spec == Init /\ [][Next]_vars

\* A flow that began goes on, the background cycle comes back, and lifetimes end.
FairSpec ==
    /\ Spec
    /\ \A f \in Flows : WF_vars(Step(f))
    /\ SF_vars(\E f \in Flows : Begin(f, "background"))
    /\ WF_vars(LockExpires) /\ WF_vars(CooldownEnds)

-----------------------------------------------------------------------------
(* Properties                                                              *)

Statuses == {"active", "error"}
Row == [cred : 1..issued, status : Statuses, schedulable : BOOLEAN,
        cooldown : {"no", "background", "request"}]
FlowState == [pc : {"idle", "lock", "reread", "refresh", "recover", "persist", "release",
                    "quarantine", "cooldown", "clear"},
              path : {"background", "request"}, base : 0..issued, snap : 0..issued,
              got : 0..issued, held : BOOLEAN,
              out : {"none", "clear", "rejected", "transient"}, try : 0..MaxTries]

\* Every variable keeps its type.
TypeOK ==
    /\ issued \in Nat \ {0} /\ live \subseteq 1..issued /\ due \subseteq 1..issued
    /\ row \in Row
    /\ lock \in Flows \cup {Free, Left}
    /\ flow \in [Flows -> FlowState]
    /\ admin \in [pc : {"idle", "edit", "reauthorize", "clear"}, row : Row]
    /\ trouble \in BOOLEAN /\ lost \in BOOLEAN /\ faults \in 0..MaxFaults

Refreshing(f) == At(f, {"refresh", "recover", "persist"})

\* Two flows are at the provider at once only if the lock failed.
OneRefresher ==
    \A f, g \in Flows : Refreshing(f) /\ Refreshing(g) /\ f # g => trouble

\* The row's refresh token is one the provider accepts, or its successor is on
\* the way into the row, or was lost: no race of flows, with the lock or without
\* it, leaves the account with a token that was used.
TokenNotLost ==
    row.cred \in live \/ lost \/ \E f \in Flows : At(f, {"persist"}) /\ flow[f].snap = row.cred

\* Together: whoever refreshes does so alone, or the account bears it.
TokenIsSafe == TypeOK /\ OneRefresher /\ TokenNotLost

\* An account in error has a refresh token the provider rejects, unless the lock
\* failed or the administrator is about to clear the error: no late failure takes
\* an account out of service that was refreshed or reauthorized since.
QuarantineJustified ==
    row.status = "error" /\ ~trouble /\ admin.pc # "clear" => row.cred \notin live

\* Refreshing writes newer credentials only: an authorization that came between
\* is not overwritten with the refresh of what it replaced.
RefreshMovesForward ==
    [][(\E f \in Flows : Step(f)) => row'.cred = row.cred
                                     \/ (row'.cred > row.cred /\ row.cred \notin live)]_vars

\* Credentials that get due are renewed in the end, unless the account leaves
\* service or the administrator switched it off.
DueIsHandled ==
    row.cred \in due ~> row.cred \notin due \/ row.status = "error" \/ ~row.schedulable

=============================================================================
