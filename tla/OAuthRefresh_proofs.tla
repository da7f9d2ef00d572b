------------------------ MODULE OAuthRefresh_proofs -------------------------
(***************************************************************************)
(* What holds of the refresh of credentials for any number of flows,       *)
(* processes, tries, edits and faults.                                     *)
(***************************************************************************)
EXTENDS OAuthRefresh, TLAPS

-----------------------------------------------------------------------------
(* The invariant                                                           *)

\* While the lock excludes, a flow inside RefreshIfNeeded has it.
LockHeld == ~trouble => \A f \in Flows : Inside(f) => lock = f

\* The credentials a flow brings back are newer than those it gave for them, are
\* the only good ones of the two, and are known to nobody else yet.
Fetched ==
    \A f \in Flows : At(f, {"persist"}) =>
        /\ flow[f].got \in live /\ flow[f].snap \notin live /\ flow[f].got > flow[f].snap
        /\ flow[f].got # row.cred /\ flow[f].got # admin.row.cred
        /\ \A g \in Flows : flow[g].snap # flow[f].got
        /\ \A g \in Flows \ {f} : At(g, {"persist"}) => flow[g].got # flow[f].got

\* Flow f is on the way to say of credentials c that the provider rejected them.
Accuses(f, c) ==
    \/ At(f, {"recover"}) /\ flow[f].snap = c
    \/ At(f, {"release"}) /\ flow[f].out = "rejected" /\ flow[f].base = c
    \/ At(f, {"quarantine"}) /\ flow[f].base = c

\* Flow f has exchanged c and is about to write what it got.
Replaces(f, c) == At(f, {"persist"}) /\ flow[f].snap = c

\* What is said to be rejected is, and while the lock excludes it was not
\* exchanged by a flow that is still to write.
AccusedIsDead ==
    \A f \in Flows, c \in live : ~Accuses(f, c)
AccusedIsLost ==
    ~trouble => \A f, g \in Flows, c \in 0..issued : ~(Accuses(f, c) /\ Replaces(g, c))

\* The same of an account in error, and of one that is to be written back so.
ErrorIsLost ==
    ~trouble /\ row.status = "error" /\ admin.pc # "clear" =>
        \A f \in Flows : ~Replaces(f, row.cred)
EditIsOld ==
    ~trouble /\ admin.pc = "edit" /\ admin.row.status = "error" =>
        admin.row.cred \notin live /\ \A f \in Flows : ~Replaces(f, admin.row.cred)

IInv ==
    /\ TypeOK /\ LockHeld /\ Fetched /\ AccusedIsDead /\ AccusedIsLost
    /\ ErrorIsLost /\ EditIsOld /\ TokenNotLost /\ QuarantineJustified

-----------------------------------------------------------------------------
(* Facts about the flows                                                   *)

\* Flow f becomes r, the others stay as they are.
Moves(f, r) ==
    /\ flow' \in [Flows -> FlowState'] /\ flow'[f] = r
    /\ \A g \in Flows \ {f} : flow'[g] = flow[g]

LEMMA FieldFacts ==
    ASSUME TypeOK, NEW f \in Flows
    PROVE  /\ flow[f] \in FlowState
           /\ flow[f].base \in 0..issued /\ flow[f].snap \in 0..issued /\ flow[f].got \in 0..issued
           /\ flow[f].held \in BOOLEAN /\ flow[f].try \in 0..MaxTries
           /\ flow[f].path \in {"background", "request"}
           /\ flow[f].out \in {"none", "clear", "rejected", "transient"}
BY DEF TypeOK, FlowState

\* Newer credentials enlarge the types only.
LEMMA Widens ==
    ASSUME TypeOK, issued' \in Nat, issued' >= issued
    PROVE  FlowState \subseteq FlowState' /\ Row \subseteq Row' /\ 0..issued \subseteq 0..(issued')
           /\ 1..issued \subseteq 1..(issued')
<1>1. issued \in Nat /\ 0..issued \subseteq 0..(issued') /\ 1..issued \subseteq 1..(issued')
  BY DEF TypeOK
<1> QED
  BY <1>1 DEF FlowState, Row

LEMMA MovesFacts ==
    ASSUME TypeOK, issued' \in Nat, issued' >= issued, NEW f \in Flows, NEW r \in FlowState',
           flow' = [flow EXCEPT ![f] = r]
    PROVE  Moves(f, r)
<1>1. flow \in [Flows -> FlowState']
  BY Widens DEF TypeOK
<1> HIDE DEF FlowState
<1> QED
  BY <1>1 DEF Moves

LEMMA SameIssued == TypeOK /\ issued' = issued => issued' \in Nat /\ issued' >= issued
BY DEF TypeOK

LEMMA GoesFacts ==
    ASSUME TypeOK, issued' = issued, NEW f \in Flows,
           NEW pc \in {"reread", "recover"}, Goes(f, pc)
    PROVE  Moves(f, [flow[f] EXCEPT !.pc = pc])
<1>0. flow[f] \in FlowState'
  BY FieldFacts, Widens, SameIssued
<1>1. [flow[f] EXCEPT !.pc = pc] \in FlowState'
  BY <1>0 DEF FlowState
<1>2. flow' = [flow EXCEPT ![f] = [flow[f] EXCEPT !.pc = pc]]
  BY DEF Goes
<1> QED
  BY <1>1, <1>2, MovesFacts, SameIssued

LEMMA ReturnsFacts ==
    ASSUME TypeOK, issued' \in Nat, issued' >= issued, NEW f \in Flows, NEW b \in 0..issued,
           NEW out \in {"none", "clear", "rejected", "transient"}, Returns(f, out, b)
    PROVE  Moves(f, [flow[f] EXCEPT !.pc = "release", !.out = out, !.base = b])
<1>1. flow[f] \in FlowState' /\ b \in 0..(issued')
  BY FieldFacts, Widens
<1>2. [flow[f] EXCEPT !.pc = "release", !.out = out, !.base = b] \in FlowState'
  BY <1>1 DEF FlowState
<1>3. flow' = [flow EXCEPT ![f] = [flow[f] EXCEPT !.pc = "release", !.out = out, !.base = b]]
  BY DEF Returns
<1> QED
  BY <1>2, <1>3, MovesFacts

LEMMA EndsFacts ==
    ASSUME TypeOK, issued' = issued, NEW f \in Flows, Ends(f)
    PROVE  Moves(f, Idle)
<1>1. 0 \in 0..(issued') /\ 0 \in 0..MaxTries
  BY BoundAssumption DEF TypeOK
<1>2. Idle \in FlowState'
  BY <1>1 DEF Idle, FlowState
<1> QED
  BY <1>2, MovesFacts, SameIssued DEF Ends

LEMMA AfterFacts ==
    ASSUME TypeOK, NEW f \in Flows
    PROVE  /\ After(f) \in {"idle", "clear", "quarantine", "lock", "cooldown"}
           /\ After(f) = "quarantine" => flow[f].out = "rejected"
           /\ After(f) = "lock" => flow[f].try + 1 \in 0..MaxTries
<1>1. flow[f].try \in Nat /\ MaxTries \in Nat
  BY FieldFacts, BoundAssumption
<1>2. CASE flow[f].out = "none"
  BY <1>2 DEF After
<1>3. CASE flow[f].out = "clear"
  BY <1>3 DEF After
<1>4. CASE flow[f].out = "rejected"
  BY <1>4 DEF After
<1>5. CASE flow[f].out = "transient"
  <2>1. CASE flow[f].path = "background" /\ flow[f].try < MaxTries
    BY <1>1, <1>5, <2>1 DEF After
  <2>2. CASE ~(flow[f].path = "background" /\ flow[f].try < MaxTries)
    BY <1>5, <2>2 DEF After
  <2> QED
    BY <2>1, <2>2
<1> QED
  BY <1>2, <1>3, <1>4, <1>5, FieldFacts

LEMMA BeginFacts ==
    ASSUME TypeOK, NEW f \in Flows, NEW path \in {"background", "request"}, Begin(f, path)
    PROVE  /\ Moves(f, flow'[f])
           /\ flow'[f].pc = "lock" /\ flow'[f].base = row.cred /\ flow'[f].snap = 0
<1> DEFINE r == [Idle EXCEPT !.pc = "lock", !.path = path, !.base = row.cred, !.try = 1]
<1>1. /\ issued' = issued /\ 0 \in 0..(issued') /\ row.cred \in 0..(issued')
      /\ 1 \in 0..MaxTries
  BY BoundAssumption DEF TypeOK, Row, Begin, provider
<1>2. Idle \in FlowState' /\ Idle.snap = 0
  BY <1>1, BoundAssumption DEF Idle, FlowState
<1>3. r \in FlowState' /\ r.pc = "lock" /\ r.base = row.cred /\ r.snap = 0
  BY <1>1, <1>2 DEF FlowState
<1>4. Moves(f, r)
  <2>1. flow' = [flow EXCEPT ![f] = r]
    BY DEF Begin
  <2> QED
    BY <1>1, <1>3, <2>1, MovesFacts, SameIssued
<1>5. flow'[f] = r
  BY <1>4 DEF Moves
<1> QED
  BY <1>3, <1>4, <1>5

LEMMA AcquireFacts ==
    ASSUME TypeOK, NEW f \in Flows, AcquireLock(f)
    PROVE  /\ Moves(f, flow'[f])
           /\ flow'[f].pc \in {"reread", "idle"} /\ flow'[f].snap \in {0, flow[f].snap}
           /\ flow'[f].pc = "reread" => lock' = f \/ trouble'
           /\ lock' # lock => lock = Free
<1>0. issued' = issued /\ flow[f] \in FlowState
  BY FieldFacts DEF AcquireLock, provider
<1>1. ASSUME lock = Free, lock' = f, UNCHANGED <<trouble, faults>>,
             flow' = [flow EXCEPT ![f].pc = "reread", ![f].held = TRUE]
      PROVE  Moves(f, flow'[f]) /\ flow'[f].pc = "reread" /\ flow'[f].snap = flow[f].snap
  <2> DEFINE r == [flow[f] EXCEPT !.pc = "reread", !.held = TRUE]
  <2>1. r \in FlowState /\ r.pc = "reread" /\ r.snap = flow[f].snap
    BY <1>0 DEF FlowState
  <2>2. flow' = [flow EXCEPT ![f] = r]
    BY <1>1
  <2>3. Moves(f, r)
    BY <1>0, <2>1, <2>2, MovesFacts, SameIssued, Widens
  <2> QED
    BY <2>1, <2>3 DEF Moves
<1>2. ASSUME Ends(f) PROVE Moves(f, flow'[f]) /\ flow'[f].pc = "idle" /\ flow'[f].snap = 0
  BY <1>0, <1>2, EndsFacts DEF Moves, Idle
<1>3. ASSUME Goes(f, "reread")
      PROVE  Moves(f, flow'[f]) /\ flow'[f].pc = "reread" /\ flow'[f].snap = flow[f].snap
  BY <1>0, <1>3, GoesFacts DEF Moves, FlowState
<1> QED
  BY <1>1, <1>2, <1>3 DEF AcquireLock

\* A return of RefreshIfNeeded.
LEMMA ReturnFields ==
    ASSUME TypeOK, issued' \in Nat, issued' >= issued, NEW f \in Flows, NEW b \in 0..issued,
           NEW out \in {"none", "clear", "rejected", "transient"}, Returns(f, out, b)
    PROVE  /\ Moves(f, flow'[f]) /\ flow'[f].pc = "release" /\ flow'[f].out = out
           /\ flow'[f].base = b /\ flow'[f].snap = flow[f].snap
<1> DEFINE r == [flow[f] EXCEPT !.pc = "release", !.out = out, !.base = b]
<1>1. Moves(f, r)
  BY ReturnsFacts
<1>2. r.pc = "release" /\ r.out = out /\ r.base = b /\ r.snap = flow[f].snap
  BY FieldFacts DEF FlowState
<1> QED
  BY <1>1, <1>2 DEF Moves

LEMMA RereadFacts ==
    ASSUME TypeOK, NEW f \in Flows, Reread(f)
    PROVE  /\ Moves(f, flow'[f]) /\ flow'[f].snap \in {row.cred, flow[f].snap}
           /\ \/ flow'[f].pc = "release" /\ flow'[f].out = "none"
              \/ flow'[f].pc = "refresh"
<1>0. issued' = issued /\ flow[f] \in FlowState /\ flow[f].base \in 0..issued
  BY FieldFacts DEF Reread, provider
<1>1. ASSUME flow' = [flow EXCEPT ![f].pc = "refresh", ![f].snap = row.cred]
      PROVE  Moves(f, flow'[f]) /\ flow'[f].pc = "refresh" /\ flow'[f].snap = row.cred
  <2> DEFINE r == [flow[f] EXCEPT !.pc = "refresh", !.snap = row.cred]
  <2>1. row.cred \in 0..issued
    BY DEF TypeOK, Row
  <2>2. r \in FlowState /\ r.pc = "refresh" /\ r.snap = row.cred
    BY <1>0, <2>1 DEF FlowState
  <2>3. flow' = [flow EXCEPT ![f] = r]
    BY <1>1
  <2>4. Moves(f, r)
    BY <1>0, <2>2, <2>3, MovesFacts, SameIssued, Widens
  <2> QED
    BY <2>2, <2>4 DEF Moves
<1>2. ASSUME Returns(f, "none", flow[f].base)
      PROVE  Moves(f, flow'[f]) /\ flow'[f].pc = "release" /\ flow'[f].out = "none"
             /\ flow'[f].snap = flow[f].snap
  BY <1>0, <1>2, ReturnFields, SameIssued
<1> QED
  BY <1>1, <1>2 DEF Reread

\* A refresh is answered with new credentials, with an answer that comes too
\* late, with a rejection, or not at all.
LEMMA RefreshFacts ==
    ASSUME TypeOK, NEW f \in Flows, Refresh(f)
    PROVE  /\ Moves(f, flow'[f]) /\ flow'[f].snap = flow[f].snap
           /\ \/ /\ flow[f].snap \in live /\ Rotate(f)
                 /\ \/ flow'[f].pc = "persist" /\ flow'[f].got = issued + 1 /\ lost' = lost
                    \/ flow'[f].pc = "release" /\ flow'[f].out = "transient" /\ lost'
              \/ /\ UNCHANGED provider /\ lost' = lost
                 /\ \/ flow[f].snap \notin live /\ flow'[f].pc = "recover"
                    \/ flow'[f].pc = "release" /\ flow'[f].out = "transient"
<1>0. /\ flow[f] \in FlowState /\ flow[f].base \in 0..issued /\ flow[f].snap \in 0..issued
      /\ issued \in Nat
  BY FieldFacts DEF TypeOK
<1>1. ASSUME Rotate(f), flow' = [flow EXCEPT ![f].pc = "persist", ![f].got = issued + 1]
      PROVE  /\ Moves(f, flow'[f]) /\ flow'[f].pc = "persist" /\ flow'[f].got = issued + 1
             /\ flow'[f].snap = flow[f].snap
  <2> DEFINE r == [flow[f] EXCEPT !.pc = "persist", !.got = issued + 1]
  <2>1. issued' = issued + 1 /\ issued' \in Nat /\ issued' >= issued /\ issued + 1 \in 0..(issued')
    BY <1>0, <1>1 DEF Rotate
  <2>2. flow[f] \in FlowState'
    BY <1>0, <2>1, Widens
  <2>3. r \in FlowState' /\ r.pc = "persist" /\ r.got = issued + 1 /\ r.snap = flow[f].snap
    BY <2>1, <2>2 DEF FlowState
  <2>4. flow' = [flow EXCEPT ![f] = r]
    BY <1>1
  <2>5. Moves(f, r)
    BY <2>1, <2>3, <2>4, MovesFacts
  <2> QED
    BY <2>3, <2>5 DEF Moves
<1>2. ASSUME Rotate(f), Returns(f, "transient", flow[f].base)
      PROVE  /\ Moves(f, flow'[f]) /\ flow'[f].pc = "release" /\ flow'[f].out = "transient"
             /\ flow'[f].snap = flow[f].snap
  <2>1. issued' \in Nat /\ issued' >= issued
    BY <1>0, <1>2 DEF Rotate
  <2> QED
    BY <1>0, <1>2, <2>1, ReturnFields
<1>3. ASSUME UNCHANGED provider, Goes(f, "recover")
      PROVE  Moves(f, flow'[f]) /\ flow'[f].pc = "recover" /\ flow'[f].snap = flow[f].snap
  <2>1. issued' = issued
    BY <1>3 DEF provider
  <2> QED
    BY <1>0, <1>3, <2>1, GoesFacts DEF Moves, FlowState
<1>4. ASSUME UNCHANGED provider, Returns(f, "transient", flow[f].snap)
      PROVE  /\ Moves(f, flow'[f]) /\ flow'[f].pc = "release" /\ flow'[f].out = "transient"
             /\ flow'[f].snap = flow[f].snap
  <2>1. issued' = issued
    BY <1>4 DEF provider
  <2> QED
    BY <1>0, <1>4, <2>1, ReturnFields, SameIssued
<1> QED
  BY <1>1, <1>2, <1>3, <1>4 DEF Refresh

LEMMA RecoverFacts ==
    ASSUME TypeOK, NEW f \in Flows, Recover(f)
    PROVE  /\ Moves(f, flow'[f]) /\ flow'[f].pc = "release"
           /\ flow'[f].base = flow[f].snap /\ flow'[f].snap = flow[f].snap
<1>0. issued' = issued /\ flow[f].snap \in 0..issued
  BY FieldFacts DEF Recover, provider
<1>1. ASSUME NEW out \in {"rejected", "none"}, Returns(f, out, flow[f].snap)
      PROVE  /\ Moves(f, flow'[f]) /\ flow'[f].pc = "release"
             /\ flow'[f].base = flow[f].snap /\ flow'[f].snap = flow[f].snap
  BY <1>0, <1>1, ReturnFields, SameIssued
<1> QED
  BY <1>1 DEF Recover

LEMMA PersistFacts ==
    ASSUME TypeOK, NEW f \in Flows, Persist(f)
    PROVE  /\ Moves(f, flow'[f]) /\ flow'[f].pc = "release" /\ flow'[f].out # "rejected"
           /\ flow'[f].snap = flow[f].snap
           /\ \/ lost' /\ row' = row
              \/ lost' = lost /\ row.cred # flow[f].snap /\ row' = row
              \/ lost' = lost /\ row.cred = flow[f].snap /\ row' = [row EXCEPT !.cred = flow[f].got]
<1>0. issued' = issued /\ flow[f].snap \in 0..issued
  BY FieldFacts DEF Persist, provider
<1>1. ASSUME NEW out \in {"clear", "none"}, Returns(f, out, flow[f].snap)
      PROVE  /\ Moves(f, flow'[f]) /\ flow'[f].pc = "release" /\ flow'[f].out # "rejected"
             /\ flow'[f].snap = flow[f].snap
  BY <1>0, <1>1, ReturnFields, SameIssued
<1>2. row.cred # flow[f].snap => [row EXCEPT !.cred = row.cred] = row
  BY DEF TypeOK, Row
<1> QED
  BY <1>1, <1>2 DEF Persist, Unchanged, NewCredentials

LEMMA ReleaseFacts ==
    ASSUME TypeOK, NEW f \in Flows, Release(f)
    PROVE  /\ Moves(f, flow'[f])
           /\ flow'[f].pc \in {"idle", "clear", "quarantine", "lock", "cooldown"}
           /\ flow'[f].pc = "quarantine" => flow[f].out = "rejected" /\ flow'[f].base = flow[f].base
           /\ flow'[f].snap = 0
<1>0. issued' = issued /\ flow[f] \in FlowState /\ 0 \in 0..issued
  BY FieldFacts DEF Release, provider, TypeOK
<1>1. CASE After(f) = "idle"
  <2>1. Moves(f, Idle)
    BY <1>0, <1>1, EndsFacts DEF Release
  <2> QED
    BY <2>1 DEF Moves, Idle
<1>2. CASE After(f) # "idle"
  <2> DEFINE t == IF After(f) = "lock" THEN flow[f].try + 1 ELSE flow[f].try
             r == [flow[f] EXCEPT !.pc = After(f), !.held = FALSE, !.snap = 0, !.got = 0, !.try = t]
  <2>1. t \in 0..MaxTries
    BY AfterFacts, FieldFacts
  <2>2. /\ After(f) \in {"idle", "clear", "quarantine", "lock", "cooldown"}
        /\ After(f) = "quarantine" => flow[f].out = "rejected"
    BY AfterFacts
  <2>3. flow' = [flow EXCEPT ![f] = r]
    BY <1>2 DEF Release
  <2> HIDE DEF t
  <2>4. r \in FlowState /\ r.pc = After(f) /\ r.snap = 0 /\ r.base = flow[f].base
    BY <1>0, <2>1, <2>2 DEF FlowState
  <2>5. Moves(f, r)
    BY <1>0, <2>3, <2>4, MovesFacts, SameIssued, Widens
  <2>6. flow'[f] = r
    BY <2>5 DEF Moves
  <2> QED
    BY <2>2, <2>4, <2>5, <2>6
<1> QED
  BY <1>1, <1>2

\* A step after the locks, and the death of a flow.
LEMMA EndFacts ==
    ASSUME TypeOK, NEW f \in Flows,
           Quarantine(f) \/ Cooldown(f) \/ ClearCooldown(f) \/ FlowDies(f)
    PROVE  Moves(f, flow'[f]) /\ flow'[f].pc = "idle" /\ flow'[f].snap = 0
<1>1. issued' = issued /\ Ends(f)
  BY DEF Quarantine, Cooldown, ClearCooldown, FlowDies, provider
<1>2. Moves(f, Idle) /\ Idle.pc = "idle" /\ Idle.snap = 0
  BY <1>1, EndsFacts DEF Idle
<1> QED
  BY <1>2 DEF Moves

-----------------------------------------------------------------------------
(* The steps                                                               *)

FlowStep(f) ==
    \/ \E path \in {"background", "request"} : Begin(f, path)
    \/ AcquireLock(f) \/ Reread(f) \/ Refresh(f) \/ Recover(f) \/ Persist(f) \/ Release(f)
    \/ Quarantine(f) \/ Cooldown(f) \/ ClearCooldown(f) \/ FlowDies(f)

OtherStep ==
    \/ CooldownEnds \/ LockExpires \/ TokenGetsDue
    \/ \E kind \in {"edit", "reauthorize"} : AdminReads(kind)
    \/ AdminEdits \/ Reauthorize \/ AdminClears \/ SetSchedulable

LEMMA Cases == [Next]_vars => (\E f \in Flows : FlowStep(f)) \/ OtherStep \/ UNCHANGED vars
BY DEF Next, Step, FlowStep, OtherStep

LEMMA FlowMoves ==
    ASSUME TypeOK, NEW f \in Flows, FlowStep(f) PROVE Moves(f, flow'[f])
BY BeginFacts, AcquireFacts, RereadFacts, RefreshFacts, RecoverFacts, PersistFacts,
   ReleaseFacts, EndFacts DEF FlowStep

-----------------------------------------------------------------------------
(* Types                                                                   *)

LEMMA InitInv == Init => IInv
<1> SUFFICES ASSUME Init PROVE IInv
  OBVIOUS
<1>1. Idle \in [pc : {"idle"}, path : {"background", "request"}, base : {0}, snap : {0},
                got : {0}, held : BOOLEAN, out : {"none"}, try : {0}]
  BY DEF Idle
<1>2. \A f \in Flows : flow[f] = Idle /\ flow[f].pc = "idle"
  BY DEF Init, Idle
<1>3. TypeOK
  <2>1. 0 \in 0..MaxTries /\ 0 \in 0..issued /\ issued = 1 /\ 1 \in 1..issued /\ 0 \in 0..MaxFaults
    BY BoundAssumption DEF Init
  <2>2. Idle \in FlowState
    BY <2>1 DEF Idle, FlowState
  <2>3. flow \in [Flows -> FlowState]
    BY <2>2 DEF Init
  <2>4. row \in Row /\ admin \in [pc : {"idle", "edit", "reauthorize", "clear"}, row : Row]
    BY <2>1 DEF Init, Row, Statuses
  <2>5. issued \in Nat \ {0} /\ live \subseteq 1..issued /\ due \subseteq 1..issued
        /\ faults \in 0..MaxFaults
    BY <2>1 DEF Init
  <2>6. lock \in Flows \cup {Free, Left} /\ trouble \in BOOLEAN /\ lost \in BOOLEAN
    BY DEF Init
  <2> QED
    BY <2>3, <2>4, <2>5, <2>6 DEF TypeOK
<1>4. LockHeld /\ Fetched /\ AccusedIsDead /\ AccusedIsLost
  BY <1>2 DEF LockHeld, Inside, At, Fetched, Accuses, AccusedIsDead, AccusedIsLost, Replaces
<1>5. ErrorIsLost /\ EditIsOld /\ TokenNotLost /\ QuarantineJustified
  BY DEF Init, ErrorIsLost, EditIsOld, TokenNotLost, QuarantineJustified
<1> QED
  BY <1>3, <1>4, <1>5 DEF IInv

LEMMA FaultFacts ==
    ASSUME TypeOK, Fault \/ NoFault \/ UNCHANGED faults PROVE faults' \in 0..MaxFaults
BY BoundAssumption DEF TypeOK, Fault, NoFault

\* The steps by what they do to the row.
LEMMA RowFacts ==
    ASSUME TypeOK, Fetched, NEW f \in Flows, FlowStep(f)
    PROVE  /\ row' \in Row
           /\ row'.cred # row.cred =>
                /\ Persist(f) /\ row.cred = flow[f].snap /\ row'.cred = flow[f].got
           /\ row'.status # row.status =>
                Quarantine(f) /\ row.cred = flow[f].base /\ row'.status = "error"
<1>0. row \in Row
  BY DEF TypeOK
<1>1. CASE Persist(f)
  <2> DEFINE r == [row EXCEPT !.cred = flow[f].got]
  <2>1. row' = row \/ (row.cred = flow[f].snap /\ row' = r)
    BY <1>1, PersistFacts
  <2>2. flow[f].got \in 1..issued
    BY <1>1 DEF TypeOK, Fetched, Persist
  <2>3. r \in Row /\ r.cred = flow[f].got /\ r.status = row.status
    BY <1>0, <2>2 DEF Row
  <2> QED
    BY <1>0, <1>1, <2>1, <2>3
<1>2. CASE Quarantine(f)
  <2> DEFINE r == [row EXCEPT !.status = "error", !.schedulable = FALSE]
  <2>1. row' = row \/ (row.cred = flow[f].base /\ row' = r)
    BY <1>2 DEF Quarantine, Unchanged
  <2>2. r \in Row /\ r.cred = row.cred /\ r.status = "error"
    BY <1>0 DEF Row, Statuses
  <2> QED
    BY <1>0, <1>2, <2>1, <2>2
<1>3. CASE Cooldown(f)
  <2> DEFINE r == [row EXCEPT !.cooldown = flow[f].path]
  <2>1. row' = row \/ row' = r
    BY <1>3 DEF Cooldown
  <2>2. r \in Row /\ r.cred = row.cred /\ r.status = row.status
    BY <1>0, FieldFacts DEF Row
  <2> QED
    BY <1>0, <2>1, <2>2
<1>4. CASE ClearCooldown(f)
  <2> DEFINE r == [row EXCEPT !.cooldown = "no"]
  <2>1. row' = row \/ row' = r
    BY <1>4 DEF ClearCooldown
  <2>2. r \in Row /\ r.cred = row.cred /\ r.status = row.status
    BY <1>0 DEF Row
  <2> QED
    BY <1>0, <2>1, <2>2
<1>5. CASE ~(Persist(f) \/ Quarantine(f) \/ Cooldown(f) \/ ClearCooldown(f))
  <2>1. row' = row
    BY <1>5 DEF FlowStep, Begin, AcquireLock, Reread, Refresh, Recover, Release, FlowDies
  <2> QED
    BY <1>0, <2>1
<1> QED
  BY <1>1, <1>2, <1>3, <1>4, <1>5

\* What an administrator writes back.
LEMMA WrittenFacts ==
    ASSUME TypeOK, issued' \in Nat, issued' >= issued, NEW c \in 1..(issued')
    PROVE  /\ WrittenBack(c) \in Row'
           /\ WrittenBack(c).cred = c /\ WrittenBack(c).status = admin.row.status
<1>1. row \in Row' /\ admin.row \in Row'
  BY Widens DEF TypeOK
<1>2. (admin.row.schedulable /\ admin.row.status # "error") \in BOOLEAN
  OBVIOUS
<1> QED
  BY <1>1, <1>2 DEF WrittenBack, Row

LEMMA OtherKeeps ==
    ASSUME OtherStep
    PROVE  /\ UNCHANGED issued \/ Reauthorize
           /\ \/ AdminEdits \/ Reauthorize \/ CooldownEnds \/ AdminClears \/ SetSchedulable
              \/ UNCHANGED row
BY DEF OtherStep, CooldownEnds, LockExpires, TokenGetsDue, AdminReads,
   AdminEdits, Reauthorize, AdminClears, SetSchedulable, provider

LEMMA OtherFaults ==
    ASSUME TypeOK, OtherStep PROVE faults' \in 0..MaxFaults
<1>1. Fault \/ NoFault \/ UNCHANGED faults
  BY DEF OtherStep, CooldownEnds, LockExpires, TokenGetsDue, AdminReads,
     AdminEdits, Reauthorize, AdminClears, SetSchedulable, history
<1> QED
  BY <1>1, FaultFacts

LEMMA TypeStep ==
    ASSUME TypeOK, Fetched, [Next]_vars PROVE TypeOK'
<1>1. ASSUME NEW f \in Flows, FlowStep(f) PROVE TypeOK'
  <2>1. flow' \in [Flows -> FlowState']
    BY <1>1, FlowMoves DEF Moves
  <2>2. /\ issued' \in Nat \ {0} /\ issued' >= issued
        /\ live' \subseteq 1..(issued') /\ due' \subseteq 1..(issued')
    <3>1. UNCHANGED provider \/ Rotate(f)
      BY <1>1, RefreshFacts DEF FlowStep, Begin, AcquireLock, Reread, Recover, Persist,
         Release, Quarantine, Cooldown, ClearCooldown, FlowDies
    <3>2. CASE UNCHANGED provider
      BY <3>2 DEF TypeOK, provider
    <3>3. CASE Rotate(f)
      <4>1. issued' = issued + 1 /\ issued \in Nat \ {0}
        BY <3>3 DEF Rotate, TypeOK
      <4>2. issued' \in Nat \ {0} /\ issued' >= issued /\ 1..issued \subseteq 1..(issued')
            /\ issued + 1 \in 1..(issued')
        BY <4>1
      <4> QED
        BY <3>3, <4>2 DEF TypeOK, Rotate
    <3> QED
      BY <3>1, <3>2, <3>3
  <2>3. row' \in Row' /\ admin' = admin /\ admin.row \in Row'
    <3>1. admin' = admin
      BY <1>1 DEF FlowStep, Begin, AcquireLock, Reread, Refresh, Recover, Persist,
         Release, Quarantine, Cooldown, ClearCooldown, FlowDies
    <3> QED
      BY <1>1, <2>2, <3>1, RowFacts, Widens DEF TypeOK
  <2>4. lock' \in Flows \cup {Free, Left}
    BY <1>1 DEF TypeOK, FlowStep, Begin, AcquireLock, Reread, Refresh, Recover, Persist,
       Release, Quarantine, Cooldown, ClearCooldown, FlowDies
  <2>5. trouble' \in BOOLEAN
    BY <1>1 DEF TypeOK, FlowStep, Begin, AcquireLock, Reread, Refresh, Recover, Persist,
       Release, Quarantine, Cooldown, ClearCooldown, FlowDies, history
  <2>6. lost' \in BOOLEAN
    BY <1>1 DEF TypeOK, FlowStep, Begin, AcquireLock, Reread, Refresh, Recover, Persist,
       Release, Quarantine, Cooldown, ClearCooldown, FlowDies, history
  <2>7. faults' \in 0..MaxFaults
    <3>1. Fault \/ NoFault \/ UNCHANGED faults
      BY <1>1 DEF FlowStep, Begin, AcquireLock, Reread, Refresh, Recover, Persist,
         Release, Quarantine, Cooldown, ClearCooldown, FlowDies, history, NoFault
    <3> QED
      BY <3>1, FaultFacts
  <2> QED
    BY <2>1, <2>2, <2>3, <2>4, <2>5, <2>6, <2>7 DEF TypeOK
<1>2. ASSUME OtherStep PROVE TypeOK'
  <2>1. CASE UNCHANGED issued
    <3>0. issued' \in Nat /\ issued' >= issued /\ issued' = issued
      BY <2>1, SameIssued
    <3>1. row' \in Row
      <4>1. row \in Row /\ admin.row \in Row /\ row.cred \in 1..issued /\ admin.row.cred \in 1..issued
        BY DEF TypeOK, Row
      <4>2. CASE AdminEdits
        BY <3>0, <4>1, <4>2, WrittenFacts DEF AdminEdits, Row
      <4>3. CASE CooldownEnds \/ AdminClears \/ SetSchedulable
        BY <4>1, <4>3 DEF CooldownEnds, AdminClears, SetSchedulable, Row, Statuses
      <4>4. CASE UNCHANGED row
        BY <3>0, <4>1, <4>4 DEF Row
      <4>5. ~Reauthorize
        BY <3>0 DEF Reauthorize, TypeOK
      <4> QED
        BY <1>2, <3>0, <4>2, <4>3, <4>4, <4>5, OtherKeeps
    <3>2. admin' \in [pc : {"idle", "edit", "reauthorize", "clear"}, row : Row]
      BY <1>2 DEF TypeOK, OtherStep, CooldownEnds, LockExpires, TokenGetsDue, AdminReads,
         AdminEdits, Reauthorize, AdminClears, SetSchedulable
    <3>3. live' = live /\ due' \subseteq 1..issued /\ flow' = flow
      BY <1>2, <2>1 DEF TypeOK, Row, OtherStep, CooldownEnds, LockExpires, TokenGetsDue, AdminReads,
         AdminEdits, Reauthorize, AdminClears, SetSchedulable, provider
    <3>4. lock' \in Flows \cup {Free, Left}
      BY <1>2 DEF TypeOK, OtherStep, CooldownEnds, LockExpires, TokenGetsDue, AdminReads,
         AdminEdits, Reauthorize, AdminClears, SetSchedulable
    <3>5. trouble' \in BOOLEAN /\ lost' \in BOOLEAN
      BY <1>2 DEF TypeOK, OtherStep, CooldownEnds, LockExpires, TokenGetsDue, AdminReads,
         AdminEdits, Reauthorize, AdminClears, SetSchedulable, history
    <3> QED
      BY <1>2, <3>0, <3>1, <3>2, <3>3, <3>4, <3>5, OtherFaults DEF TypeOK, FlowState, Row
  <2>2. CASE Reauthorize
    <3>1. /\ issued' = issued + 1 /\ issued' \in Nat \ {0} /\ issued' >= issued
          /\ issued + 1 \in 1..(issued')
      BY <2>2 DEF TypeOK, Reauthorize
    <3>2. row' \in Row' /\ Row \subseteq Row' /\ FlowState \subseteq FlowState'
          /\ 1..issued \subseteq 1..(issued')
      BY <2>2, <3>1, WrittenFacts, Widens DEF Reauthorize
    <3>3. live' \subseteq 1..(issued') /\ due' \subseteq 1..(issued')
      BY <2>2, <3>1, <3>2 DEF TypeOK, Reauthorize
    <3>4. admin' \in [pc : {"idle", "edit", "reauthorize", "clear"}, row : Row']
      BY <2>2, <3>2 DEF TypeOK, Reauthorize
    <3>5. flow' \in [Flows -> FlowState']
      BY <2>2, <3>2 DEF TypeOK, Reauthorize
    <3> QED
      BY <2>2, <3>1, <3>2, <3>3, <3>4, <3>5 DEF TypeOK, Reauthorize, history
  <2> QED
    BY <1>2, <2>1, <2>2, OtherKeeps
<1>3. ASSUME UNCHANGED vars PROVE TypeOK'
  BY <1>3 DEF TypeOK, vars, provider, history, FlowState, Row
<1> QED
  BY <1>1, <1>2, <1>3, Cases

-----------------------------------------------------------------------------
(* The lock                                                                *)

LEMMA LockStep ==
    ASSUME TypeOK, LockHeld, [Next]_vars PROVE LockHeld'
<1>0. Free \notin Flows /\ Left \notin Flows
  BY FlowAssumption
<1>1. ASSUME NEW f \in Flows, FlowStep(f) PROVE LockHeld'
  <2> SUFFICES ASSUME ~trouble', NEW g \in Flows, Inside(g)' PROVE lock' = g
    BY DEF LockHeld
  <2>1. Moves(f, flow'[f])
    BY <1>1, FlowMoves
  <2>2. ~trouble
    BY <1>1 DEF FlowStep, Begin, AcquireLock, Reread, Refresh, Recover, Persist, Release,
       Quarantine, Cooldown, ClearCooldown, FlowDies, history
  <2>3. g # f => Inside(g) /\ lock = g
    BY <2>1, <2>2 DEF Moves, Inside, At, LockHeld
  <2>4. CASE \E path \in {"background", "request"} : Begin(f, path)
    BY <2>3, <2>4, BeginFacts DEF Inside, At, Begin
  <2>5. CASE AcquireLock(f)
    <3>1. CASE g = f
      <4>1. flow'[f].pc = "reread"
        BY <2>5, <3>1, AcquireFacts DEF Inside, At
      <4> QED
        BY <2>5, <3>1, <4>1, AcquireFacts
    <3>2. CASE g # f
      BY <1>0, <2>3, <2>5, <3>2, AcquireFacts
    <3> QED
      BY <3>1, <3>2
  <2>6. CASE Reread(f) \/ Refresh(f) \/ Recover(f) \/ Persist(f)
    <3>1. Inside(f) /\ lock' = lock
      BY <2>6 DEF Reread, Refresh, Recover, Persist, Inside, At
    <3> QED
      BY <2>2, <2>3, <3>1 DEF LockHeld
  <2>7. CASE Release(f)
    <3>1. Inside(f) /\ lock = f
      BY <2>2, <2>7 DEF Release, Inside, At, LockHeld
    <3>2. g # f
      BY <2>7, ReleaseFacts DEF Inside, At
    <3> QED
      BY <2>3, <3>1, <3>2
  <2>8. CASE Quarantine(f) \/ Cooldown(f) \/ ClearCooldown(f) \/ FlowDies(f)
    <3>1. g # f
      BY <2>8, EndFacts DEF Inside, At
    <3> QED
      BY <2>3, <2>8, <3>1 DEF Quarantine, Cooldown, ClearCooldown, FlowDies
  <2> QED
    BY <1>1, <2>4, <2>5, <2>6, <2>7, <2>8 DEF FlowStep
<1>2. ASSUME OtherStep PROVE LockHeld'
  <2> SUFFICES ASSUME ~trouble', NEW g \in Flows, Inside(g)' PROVE lock' = g
    BY DEF LockHeld
  <2>1. ~trouble /\ flow' = flow
    BY <1>2 DEF OtherStep, CooldownEnds, LockExpires, TokenGetsDue, AdminReads,
       AdminEdits, Reauthorize, AdminClears, SetSchedulable, history
  <2>2. lock = g
    BY <2>1 DEF LockHeld, Inside, At
  <2>3. CASE LockExpires
    BY <1>0, <2>2, <2>3 DEF LockExpires
  <2>4. CASE UNCHANGED lock
    BY <2>2, <2>4
  <2> QED
    BY <1>2, <2>3, <2>4 DEF OtherStep, CooldownEnds, TokenGetsDue, AdminReads,
       AdminEdits, Reauthorize, AdminClears, SetSchedulable
<1>3. ASSUME UNCHANGED vars PROVE LockHeld'
  BY <1>3 DEF LockHeld, vars, history, Inside, At
<1> QED
  BY <1>1, <1>2, <1>3, Cases

LEMMA AloneFacts == LockHeld => OneRefresher
BY DEF LockHeld, OneRefresher, Refreshing, Inside, At

-----------------------------------------------------------------------------
(* The credentials                                                         *)

\* What the steps that bring no new credentials have in common.
Plain(f) ==
    /\ Moves(f, flow'[f]) /\ flow'[f].pc # "persist"
    /\ flow'[f].snap \in {flow[f].snap, 0, row.cred}
    /\ live' = live /\ issued' = issued /\ admin' = admin
    /\ (trouble => trouble') /\ (lost => lost')

\* A step that accuses nobody anew, or the credentials it has just seen rejected.
Fair(f) ==
    \A c \in 0..issued :
        Accuses(f, c)' => Accuses(f, c) \/ (c \notin live /\ (~trouble' => \A g \in Flows : ~Replaces(g, c)))

LEMMA PlainFetched ==
    ASSUME TypeOK, Fetched, NEW f \in Flows, Plain(f),
           row'.cred = row.cred \/ (At(f, {"persist"}) /\ row'.cred = flow[f].got)
    PROVE  Fetched'
<1> SUFFICES ASSUME NEW g \in Flows, At(g, {"persist"})'
             PROVE  /\ flow'[g].got \in live' /\ flow'[g].snap \notin live'
                    /\ flow'[g].got > flow'[g].snap
                    /\ flow'[g].got # row'.cred /\ flow'[g].got # admin'.row.cred
                    /\ \A h \in Flows : flow'[h].snap # flow'[g].got
                    /\ \A h \in Flows \ {g} : At(h, {"persist"})' => flow'[h].got # flow'[g].got
  BY DEF Fetched
<1>1. g # f /\ flow'[g] = flow[g] /\ At(g, {"persist"})
  BY DEF Plain, Moves, At
<1>2. flow[g].got \in live /\ flow[g].got # 0 /\ flow[g].got # row.cred
  BY <1>1 DEF Fetched, TypeOK
<1>3. ASSUME NEW h \in Flows PROVE flow'[h].snap # flow[g].got
  BY <1>1, <1>2, <1>3 DEF Fetched, Plain, Moves
<1>4. ASSUME NEW h \in Flows \ {g}, At(h, {"persist"})' PROVE flow'[h].got # flow[g].got
  <2>1. flow'[h] = flow[h] /\ At(h, {"persist"})
    BY <1>4 DEF Plain, Moves, At
  <2> QED
    BY <1>1, <1>4, <2>1 DEF Fetched
<1> QED
  BY <1>1, <1>2, <1>3, <1>4 DEF Fetched, Plain

\* Only f's standing changes, and f replaces nothing any more.
LEMMA PlainStandings ==
    ASSUME TypeOK, NEW f \in Flows, Plain(f), NEW g \in Flows, NEW c
    PROVE  /\ Replaces(g, c)' => Replaces(g, c)
           /\ g # f => (Accuses(g, c)' <=> Accuses(g, c))
           /\ g # f => (Replaces(g, c)' <=> Replaces(g, c))
           /\ ~Replaces(f, c)'
BY DEF Plain, Moves, Replaces, Accuses, At

LEMMA PlainAccused ==
    ASSUME TypeOK, AccusedIsDead, AccusedIsLost, NEW f \in Flows, Plain(f), Fair(f)
    PROVE  AccusedIsDead' /\ AccusedIsLost'
<1>1. live \subseteq 0..issued /\ live' = live /\ issued' = issued
  BY DEF TypeOK, Plain
<1>2. AccusedIsDead'
  <2> SUFFICES ASSUME NEW g \in Flows, NEW c \in live, Accuses(g, c)' PROVE FALSE
    BY <1>1 DEF AccusedIsDead
  <2>1. CASE g = f
    BY <1>1, <2>1 DEF Fair, AccusedIsDead
  <2>2. CASE g # f
    BY <2>2, PlainStandings DEF AccusedIsDead
  <2> QED
    BY <2>1, <2>2
<1>3. AccusedIsLost'
  <2> SUFFICES ASSUME ~trouble', NEW g \in Flows, NEW h \in Flows, NEW c \in 0..issued,
                      Accuses(g, c)', Replaces(h, c)'
               PROVE  FALSE
    BY <1>1 DEF AccusedIsLost
  <2>1. ~trouble /\ Replaces(h, c)
    BY PlainStandings DEF Plain
  <2>2. CASE g = f
    BY <2>1, <2>2 DEF Fair, AccusedIsLost
  <2>3. CASE g # f
    BY <2>1, <2>3, PlainStandings DEF AccusedIsLost
  <2> QED
    BY <2>2, <2>3
<1> QED
  BY <1>2, <1>3

\* Nor is an account put into error but on an accusation.
LEMMA PlainRow ==
    ASSUME IInv, NEW f \in Flows, Plain(f), row'.cred = row.cred,
           row'.status # row.status => row'.status = "error" /\ Accuses(f, row.cred),
           flow[f].pc = "persist" => lost' \/ row.cred # flow[f].snap
    PROVE  ErrorIsLost' /\ EditIsOld' /\ TokenNotLost' /\ QuarantineJustified'
<1>0. row.cred \in 0..issued /\ row'.cred = row.cred /\ live' = live /\ admin' = admin
      /\ (~trouble' => ~trouble)
  BY DEF IInv, TypeOK, Row, Plain
<1>1. row'.status = "error" => row.status = "error" \/ Accuses(f, row.cred)
  OBVIOUS
<1>2. ErrorIsLost'
  <2> SUFFICES ASSUME ~trouble', row'.status = "error", admin'.pc # "clear",
                      NEW g \in Flows, flow'[g].pc = "persist", flow'[g].snap = row.cred
               PROVE  FALSE
    BY <1>0 DEF ErrorIsLost, Replaces, At
  <2>1. Replaces(g, row.cred)
    BY DEF Plain, Moves, Replaces, At
  <2> QED
    BY <1>0, <1>1, <2>1 DEF IInv, ErrorIsLost, AccusedIsLost
<1>3. EditIsOld'
  <2> SUFFICES ASSUME ~trouble', admin.pc = "edit", admin.row.status = "error"
               PROVE  /\ admin.row.cred \notin live
                      /\ \A g \in Flows : ~(flow'[g].pc = "persist" /\ flow'[g].snap = admin.row.cred)
    BY <1>0 DEF EditIsOld, Replaces, At
  <2>1. admin.row.cred \notin live /\ \A g \in Flows : ~Replaces(g, admin.row.cred)
    BY <1>0 DEF IInv, EditIsOld
  <2> QED
    BY <2>1 DEF Plain, Moves, Replaces, At
<1>4. TokenNotLost'
  <2>1. CASE row.cred \in live \/ lost
    BY <1>0, <2>1 DEF TokenNotLost, Plain
  <2>2. ASSUME NEW g \in Flows, At(g, {"persist"}), flow[g].snap = row.cred PROVE TokenNotLost'
    <3>1. CASE g = f
      BY <2>2, <3>1 DEF TokenNotLost, At
    <3>2. CASE g # f
      BY <1>0, <2>2, <3>2 DEF TokenNotLost, At, Plain, Moves
    <3> QED
      BY <3>1, <3>2
  <2> QED
    BY <2>1, <2>2 DEF IInv, TokenNotLost
<1>5. QuarantineJustified'
  BY <1>0, <1>1 DEF IInv, QuarantineJustified, AccusedIsDead
<1> QED
  BY <1>2, <1>3, <1>4, <1>5

LEMMA FlowFrame ==
    ASSUME NEW f \in Flows, FlowStep(f)
    PROVE  admin' = admin /\ (trouble => trouble') /\ (lost => lost')
<1>1. admin' = admin
  BY DEF FlowStep, Begin, AcquireLock, Reread, Refresh, Recover, Persist,
   Release, Quarantine, Cooldown, ClearCooldown, FlowDies
<1>2. trouble => trouble'
  <2>1. CASE AcquireLock(f)
    BY <2>1 DEF AcquireLock
  <2>2. CASE ~AcquireLock(f)
    BY <2>2 DEF FlowStep, Begin, Reread, Refresh, Recover, Persist,
       Release, Quarantine, Cooldown, ClearCooldown, FlowDies, history
  <2> QED
    BY <2>1, <2>2
<1>3. lost => lost'
  <2>1. CASE Refresh(f)
    BY <2>1 DEF Refresh
  <2>2. CASE Persist(f)
    BY <2>2 DEF Persist
  <2>3. CASE FlowDies(f)
    BY <2>3 DEF FlowDies
  <2>4. CASE ~(Refresh(f) \/ Persist(f) \/ FlowDies(f))
    BY <2>4 DEF FlowStep, Begin, AcquireLock, Reread, Recover,
       Release, Quarantine, Cooldown, ClearCooldown, history
  <2> QED
    BY <2>1, <2>2, <2>3, <2>4
<1> QED
  BY <1>1, <1>2, <1>3

LEMMA PlainHolds ==
    ASSUME IInv, NEW f \in Flows, FlowStep(f), UNCHANGED provider PROVE Plain(f) /\ Fair(f)
<1>0. /\ TypeOK /\ LockHeld /\ AccusedIsDead /\ issued' = issued /\ live' = live /\ issued \in Nat
      /\ flow[f].snap \in 0..issued
  BY FieldFacts DEF IInv, provider, TypeOK
<1>1. Moves(f, flow'[f])
  BY <1>0, FlowMoves
<1>2. SUFFICES /\ flow'[f].pc # "persist" /\ flow'[f].snap \in {flow[f].snap, 0, row.cred}
               /\ Fair(f)
  BY <1>0, <1>1, <1>2, FlowFrame DEF Plain
<1>3. SUFFICES ASSUME NEW c \in 0..issued
               PROVE  /\ flow'[f].pc # "persist" /\ flow'[f].snap \in {flow[f].snap, 0, row.cred}
                      /\ Accuses(f, c)' =>
                            \/ Accuses(f, c)
                            \/ c \notin live /\ (~trouble' => \A g \in Flows : ~Replaces(g, c))
  BY <1>0, <1>3 DEF Fair
<1>4. CASE \E path \in {"background", "request"} : Begin(f, path)
  BY <1>0, <1>4, BeginFacts DEF Accuses, At
<1>5. CASE AcquireLock(f)
  BY <1>0, <1>5, AcquireFacts DEF Accuses, At
<1>6. CASE Reread(f)
  BY <1>0, <1>6, RereadFacts DEF Accuses, At
<1>7. CASE Refresh(f)
  <2>1. ~Rotate(f)
    BY <1>0 DEF Rotate
  <2>2. /\ flow'[f].snap = flow[f].snap
        /\ \/ flow[f].snap \notin live /\ flow'[f].pc = "recover"
           \/ flow'[f].pc = "release" /\ flow'[f].out = "transient"
    BY <1>0, <1>7, <2>1, RefreshFacts
  <2>3. ~trouble' => \A g \in Flows : ~Replaces(g, flow[f].snap)
    <3>1. At(f, {"refresh"}) /\ (~trouble' => ~trouble)
      BY <1>7, FlowFrame DEF Refresh
    <3> QED
      BY <1>0, <3>1, AloneFacts DEF OneRefresher, Refreshing, Replaces, At
  <2> QED
    BY <2>2, <2>3 DEF Accuses, At
<1>8. CASE Recover(f)
  <2>1. At(f, {"recover"})
    BY <1>8 DEF Recover
  <2> QED
    BY <1>0, <1>8, <2>1, RecoverFacts DEF Accuses, At
<1>9. CASE Persist(f)
  BY <1>0, <1>9, PersistFacts DEF Accuses, At
<1>10. CASE Release(f)
  <2>1. At(f, {"release"})
    BY <1>10 DEF Release
  <2> QED
    BY <1>0, <1>10, <2>1, ReleaseFacts DEF Accuses, At
<1>11. CASE Quarantine(f) \/ Cooldown(f) \/ ClearCooldown(f) \/ FlowDies(f)
  BY <1>0, <1>11, EndFacts DEF Accuses, At
<1> QED
  BY <1>4, <1>5, <1>6, <1>7, <1>8, <1>9, <1>10, <1>11 DEF FlowStep

LEMMA FlowIsNext == ASSUME NEW f \in Flows, FlowStep(f) PROVE [Next]_vars
BY DEF FlowStep, Next, Step

\* The new credentials are written over those they were exchanged for.
LEMMA PersistStep ==
    ASSUME IInv, NEW f \in Flows, Persist(f), Plain(f), Fair(f),
           row.cred = flow[f].snap, row' = [row EXCEPT !.cred = flow[f].got], lost' = lost
    PROVE  IInv'
<1>0. TypeOK /\ Fetched /\ LockHeld /\ FlowStep(f) /\ AccusedIsDead /\ AccusedIsLost
  BY DEF IInv, FlowStep
<1>1. TypeOK' /\ LockHeld'
  BY <1>0, FlowIsNext, TypeStep, LockStep
<1>2. At(f, {"persist"}) /\ flow[f].got \in live
  BY <1>0 DEF Persist, Fetched
<1>3. row'.cred = flow[f].got /\ row'.status = row.status /\ live' = live /\ admin' = admin
      /\ (~trouble' => ~trouble)
  BY <1>0 DEF TypeOK, Row, Plain
<1>4. Fetched' /\ AccusedIsDead' /\ AccusedIsLost'
  BY <1>0, <1>2, <1>3, PlainFetched, PlainAccused
<1>5. ~trouble => row.status # "error" \/ admin.pc = "clear"
  BY <1>2 DEF IInv, ErrorIsLost, Replaces
<1>6. ErrorIsLost' /\ QuarantineJustified'
  BY <1>3, <1>5 DEF ErrorIsLost, QuarantineJustified
<1>7. TokenNotLost'
  BY <1>2, <1>3 DEF TokenNotLost
<1>8. EditIsOld'
  <2> SUFFICES ASSUME ~trouble', admin.pc = "edit", admin.row.status = "error"
               PROVE  /\ admin.row.cred \notin live
                      /\ \A g \in Flows : ~(flow'[g].pc = "persist" /\ flow'[g].snap = admin.row.cred)
    BY <1>3 DEF EditIsOld, Replaces, At
  <2>1. admin.row.cred \notin live /\ \A g \in Flows : ~Replaces(g, admin.row.cred)
    BY <1>3 DEF IInv, EditIsOld
  <2> QED
    BY <2>1 DEF Plain, Moves, Replaces, At
<1> QED
  BY <1>1, <1>4, <1>6, <1>7, <1>8 DEF IInv

LEMMA PlainStep ==
    ASSUME IInv, NEW f \in Flows, FlowStep(f), UNCHANGED provider PROVE IInv'
<1>0. TypeOK /\ Fetched /\ LockHeld /\ AccusedIsDead /\ AccusedIsLost
  BY DEF IInv
<1>1. Plain(f) /\ Fair(f)
  BY PlainHolds
<1>2. CASE Persist(f) /\ lost' = lost /\ row.cred = flow[f].snap
           /\ row' = [row EXCEPT !.cred = flow[f].got]
  BY <1>1, <1>2, PersistStep
<1>3. CASE ~Persist(f) \/ (row' = row /\ (lost' \/ row.cred # flow[f].snap))
  <2>1. row'.cred = row.cred
    BY <1>0, <1>3, RowFacts
  <2>2. row'.status # row.status => row'.status = "error" /\ Accuses(f, row.cred)
    BY <1>0, RowFacts DEF Quarantine, Accuses
  <2>3. flow[f].pc = "persist" => lost' \/ row.cred # flow[f].snap
    <3>1. CASE Persist(f)
      BY <1>3, <3>1
    <3>2. CASE FlowDies(f)
      BY <3>2 DEF FlowDies, At
    <3>3. CASE ~Persist(f) /\ ~FlowDies(f)
      BY <3>3 DEF FlowStep, Begin, AcquireLock, Reread, Refresh, Recover, Release,
         Quarantine, Cooldown, ClearCooldown, At
    <3> QED
      BY <3>1, <3>2, <3>3
  <2>4. ErrorIsLost' /\ EditIsOld' /\ TokenNotLost' /\ QuarantineJustified'
    BY <1>1, <2>1, <2>2, <2>3, PlainRow
  <2>5. Fetched' /\ AccusedIsDead' /\ AccusedIsLost'
    BY <1>0, <1>1, <2>1, PlainFetched, PlainAccused
  <2>6. TypeOK' /\ LockHeld'
    BY <1>0, FlowIsNext, TypeStep, LockStep
  <2> QED
    BY <2>4, <2>5, <2>6 DEF IInv
<1> QED
  BY <1>0, <1>2, <1>3, PersistFacts

\* The provider issues new credentials to a flow, whose answer may be late.
LEMMA RotateStep ==
    ASSUME IInv, NEW f \in Flows, Refresh(f), Rotate(f) PROVE IInv'
<1> DEFINE s == flow[f].snap
           n == issued + 1
<1>0. /\ TypeOK /\ Fetched /\ LockHeld /\ FlowStep(f) /\ AccusedIsDead /\ AccusedIsLost
      /\ issued \in Nat /\ live \subseteq 1..issued
  BY DEF IInv, FlowStep, TypeOK
<1>1. TypeOK' /\ LockHeld'
  BY <1>0, FlowIsNext, TypeStep, LockStep
<1>2. /\ Moves(f, flow'[f]) /\ flow'[f].snap = s
      /\ \/ flow'[f].pc = "persist" /\ flow'[f].got = n
         \/ flow'[f].pc = "release" /\ flow'[f].out = "transient" /\ lost'
  <2>1. ~ UNCHANGED provider
    BY <1>0 DEF Rotate, provider
  <2> QED
    BY <1>0, <2>1, RefreshFacts
<1>3. s \in live
  <2>1. ~ UNCHANGED provider
    BY <1>0 DEF Rotate, provider
  <2> QED
    BY <1>0, <2>1, RefreshFacts
<1>4. /\ live' = (live \ {s}) \cup {n} /\ issued' = n /\ row' = row /\ admin' = admin
      /\ (trouble => trouble') /\ (lost => lost') /\ At(f, {"refresh"})
  BY <1>0, FlowFrame DEF Rotate, Refresh
<1>5. /\ row.cred \in 0..issued /\ admin.row.cred \in 0..issued /\ n \notin 0..issued
      /\ n > s /\ s \in 0..issued
  <2>1. row.cred \in 0..issued /\ admin.row.cred \in 0..issued
    BY <1>0 DEF TypeOK, Row
  <2>2. s \in 1..issued
    BY <1>0, <1>3
  <2> QED
    BY <1>0, <2>1, <2>2
<1>6. \A g \in Flows : flow[g].snap \in 0..issued /\ flow[g].base \in 0..issued /\ flow[g].got \in 0..issued
  BY <1>0, FieldFacts
<1>7. \A g \in Flows \ {f} : flow'[g] = flow[g]
  BY <1>2 DEF Moves
<1>8. \A c \in 0..issued : c \notin live => c \notin live'
  BY <1>4, <1>5
<1>9. \A g \in Flows : flow'[g].snap = flow[g].snap
  BY <1>2, <1>7
<1> HIDE DEF n, s
<1>10. Fetched'
  <2> SUFFICES ASSUME NEW g \in Flows, flow'[g].pc = "persist"
               PROVE  /\ flow'[g].got \in live' /\ flow'[g].snap \notin live'
                      /\ flow'[g].got > flow'[g].snap
                      /\ flow'[g].got # row.cred /\ flow'[g].got # admin.row.cred
                      /\ \A h \in Flows : flow'[h].snap # flow'[g].got
                      /\ \A h \in Flows \ {g} : flow'[h].pc = "persist" => flow'[h].got # flow'[g].got
    BY <1>4 DEF Fetched, At
  <2>1. CASE g = f
    <3>1. flow'[g].got = n /\ flow'[g].snap = s
      BY <1>2, <2>1
    <3>2. s \notin live' /\ n \in live'
      BY <1>4, <1>5
    <3>3. \A h \in Flows : flow'[h].snap # n
      BY <1>5, <1>6, <1>9
    <3>4. \A h \in Flows \ {g} : flow'[h].got # n
      BY <1>5, <1>6, <1>7, <2>1
    <3> QED
      BY <1>5, <3>1, <3>2, <3>3, <3>4
  <2>2. CASE g # f
    <3>1. flow'[g] = flow[g] /\ At(g, {"persist"})
      BY <1>7, <2>2 DEF At
    <3>2. /\ flow[g].got \in live /\ flow[g].snap \notin live
          /\ flow[g].got > flow[g].snap
          /\ flow[g].got # row.cred /\ flow[g].got # admin.row.cred
          /\ \A h \in Flows : flow[h].snap # flow[g].got
          /\ \A h \in Flows \ {g} : At(h, {"persist"}) => flow[h].got # flow[g].got
      BY <1>0, <3>1 DEF Fetched
    <3>3. flow[g].got \in live' /\ flow[g].snap \notin live'
      BY <1>4, <1>6, <1>8, <3>2 DEF s
    <3>4. \A h \in Flows : flow'[h].snap # flow[g].got
      BY <1>9, <3>2
    <3>5. ASSUME NEW h \in Flows \ {g}, flow'[h].pc = "persist" PROVE flow'[h].got # flow[g].got
      <4>1. CASE h = f
        BY <1>2, <1>5, <1>6, <3>5, <4>1
      <4>2. CASE h # f
        BY <1>7, <3>2, <3>5, <4>2 DEF At
      <4> QED
        BY <4>1, <4>2
    <3> QED
      BY <3>1, <3>2, <3>3, <3>4, <3>5
  <2> QED
    BY <2>1, <2>2
<1>11. ASSUME NEW g \in Flows, NEW c, Accuses(g, c)'
       PROVE  Accuses(g, c) /\ c \in 0..issued /\ c \notin live
  <2>1. g # f
    BY <1>2, <1>11 DEF Accuses, At
  <2>2. Accuses(g, c)
    BY <1>7, <1>11, <2>1 DEF Accuses, At
  <2>3. c \in 0..issued
    BY <1>6, <2>2 DEF Accuses
  <2> QED
    BY <1>0, <2>2, <2>3 DEF AccusedIsDead
<1>12. ASSUME NEW g \in Flows, NEW c, c \notin live, flow'[g].pc = "persist", flow'[g].snap = c
       PROVE  Replaces(g, c)
  <2>1. g # f
    BY <1>2, <1>3, <1>12
  <2> QED
    BY <1>7, <1>12, <2>1 DEF Replaces, At
<1>13. AccusedIsDead'
  <2> SUFFICES ASSUME NEW g \in Flows, NEW c \in live', Accuses(g, c)' PROVE FALSE
    BY DEF AccusedIsDead
  <2> QED
    BY <1>8, <1>11
<1>14. AccusedIsLost'
  <2> SUFFICES ASSUME ~trouble', NEW g \in Flows, NEW h \in Flows, NEW c \in 0..(issued'),
                      Accuses(g, c)', Replaces(h, c)'
               PROVE  FALSE
    BY DEF AccusedIsLost
  <2>1. Accuses(g, c) /\ c \in 0..issued /\ c \notin live
    BY <1>11
  <2>2. Replaces(h, c)
    BY <1>12, <2>1 DEF Replaces, At
  <2> QED
    BY <1>0, <1>4, <2>1, <2>2 DEF AccusedIsLost
<1>15. ErrorIsLost' /\ QuarantineJustified'
  <2> SUFFICES ASSUME ~trouble', row.status = "error", admin.pc # "clear"
               PROVE  /\ \A g \in Flows : ~(flow'[g].pc = "persist" /\ flow'[g].snap = row.cred)
                      /\ row.cred \notin live'
    BY <1>4 DEF ErrorIsLost, QuarantineJustified, Replaces, At
  <2>1. row.cred \notin live /\ \A g \in Flows : ~Replaces(g, row.cred)
    BY <1>4 DEF IInv, QuarantineJustified, ErrorIsLost
  <2> QED
    BY <1>5, <1>8, <1>12, <2>1
<1>16. EditIsOld'
  <2> SUFFICES ASSUME ~trouble', admin.pc = "edit", admin.row.status = "error"
               PROVE  /\ admin.row.cred \notin live'
                      /\ \A g \in Flows : ~(flow'[g].pc = "persist" /\ flow'[g].snap = admin.row.cred)
    BY <1>4 DEF EditIsOld, Replaces, At
  <2>1. admin.row.cred \notin live /\ \A g \in Flows : ~Replaces(g, admin.row.cred)
    BY <1>4 DEF IInv, EditIsOld
  <2> QED
    BY <1>5, <1>8, <1>12, <2>1
<1>17. TokenNotLost'
  <2>1. CASE lost
    BY <1>4, <2>1 DEF TokenNotLost
  <2>2. CASE row.cred \in live /\ row.cred # s
    BY <1>4, <2>2 DEF TokenNotLost
  <2>3. CASE row.cred = s
    BY <1>2, <1>4, <2>3 DEF TokenNotLost, At
  <2>4. ASSUME NEW g \in Flows, At(g, {"persist"}), flow[g].snap = row.cred PROVE TokenNotLost'
    <3>1. flow'[g] = flow[g]
      BY <1>4, <1>7, <2>4 DEF At
    <3> QED
      BY <1>4, <2>4, <3>1 DEF TokenNotLost, At
  <2> QED
    BY <2>1, <2>2, <2>3, <2>4 DEF IInv, TokenNotLost
<1> QED
  BY <1>1, <1>10, <1>13, <1>14, <1>15, <1>16, <1>17 DEF IInv

LEMMA FlowStepInv ==
    ASSUME IInv, NEW f \in Flows, FlowStep(f) PROVE IInv'
<1>1. UNCHANGED provider \/ (Refresh(f) /\ Rotate(f))
  <2>1. CASE Refresh(f)
    BY <2>1, RefreshFacts DEF IInv
  <2>2. CASE ~Refresh(f)
    BY <2>2 DEF FlowStep, Begin, AcquireLock, Reread, Recover, Persist,
       Release, Quarantine, Cooldown, ClearCooldown, FlowDies
  <2> QED
    BY <2>1, <2>2
<1> QED
  BY <1>1, PlainStep, RotateStep

-----------------------------------------------------------------------------
(* The steps beside the flows                                              *)

\* The row takes credentials it or the edit had, or ones issued this moment.
LEMMA FlowsStay ==
    ASSUME IInv, flow' = flow, trouble => trouble',
           \/ live' = live /\ issued' = issued /\ row'.cred \in {row.cred, admin.row.cred}
           \/ live' = live \cup {issued + 1} /\ issued' = issued + 1 /\ row'.cred = issued + 1,
           admin'.row.cred \in {row.cred, admin.row.cred}
    PROVE  Fetched' /\ AccusedIsDead' /\ AccusedIsLost'
<1>0. TypeOK /\ Fetched /\ AccusedIsDead /\ AccusedIsLost /\ issued \in Nat /\ live \subseteq 0..issued
  BY DEF IInv, TypeOK
<1>1. \A g \in Flows : flow[g].snap \in 0..issued /\ flow[g].base \in 0..issued /\ flow[g].got \in 0..issued
  BY <1>0, FieldFacts
<1>2. live \subseteq live' /\ \A c \in 0..issued : c \notin live => c \notin live'
  BY <1>0
<1>3. \A c \in 0..issued : c # row.cred /\ c # admin.row.cred => c # row'.cred /\ c # admin'.row.cred
  BY <1>0
<1>4. Fetched'
  <2> SUFFICES ASSUME NEW f \in Flows, At(f, {"persist"})
               PROVE  /\ flow[f].got \in live' /\ flow[f].snap \notin live'
                      /\ flow[f].got > flow[f].snap
                      /\ flow[f].got # row'.cred /\ flow[f].got # admin'.row.cred
                      /\ \A g \in Flows : flow[g].snap # flow[f].got
                      /\ \A g \in Flows \ {f} : At(g, {"persist"}) => flow[g].got # flow[f].got
    BY DEF Fetched, At
  <2>1. /\ flow[f].got \in live /\ flow[f].snap \notin live
        /\ flow[f].got > flow[f].snap
        /\ flow[f].got # row.cred /\ flow[f].got # admin.row.cred
        /\ \A g \in Flows : flow[g].snap # flow[f].got
        /\ \A g \in Flows \ {f} : At(g, {"persist"}) => flow[g].got # flow[f].got
    BY <1>0 DEF Fetched
  <2> QED
    BY <1>1, <1>2, <1>3, <2>1
<1>5. ASSUME NEW f \in Flows, NEW c, Accuses(f, c)'
      PROVE  Accuses(f, c) /\ c \in 0..issued /\ c \notin live
  <2>1. Accuses(f, c)
    BY <1>5 DEF Accuses, At
  <2>2. c \in 0..issued
    BY <1>1, <2>1 DEF Accuses
  <2> QED
    BY <1>0, <2>1, <2>2 DEF AccusedIsDead
<1>6. AccusedIsDead'
  <2> SUFFICES ASSUME NEW f \in Flows, NEW c \in live', Accuses(f, c)' PROVE FALSE
    BY DEF AccusedIsDead
  <2> QED
    BY <1>2, <1>5
<1>7. AccusedIsLost'
  <2> SUFFICES ASSUME ~trouble', NEW f \in Flows, NEW g \in Flows, NEW c \in 0..(issued'),
                      Accuses(f, c)', Replaces(g, c)'
               PROVE  FALSE
    BY DEF AccusedIsLost
  <2>1. Accuses(f, c) /\ c \in 0..issued
    BY <1>5
  <2>2. Replaces(g, c)
    BY DEF Replaces, At
  <2> QED
    BY <1>0, <2>1, <2>2 DEF AccusedIsLost
<1> QED
  BY <1>4, <1>6, <1>7

\* Of the row only what is beside credentials and status changes, or nothing.
LEMMA StillStep ==
    ASSUME IInv, flow' = flow, live' = live, issued' = issued, admin' = admin,
           row'.cred = row.cred, row'.status = row.status, trouble => trouble', lost' = lost
    PROVE  ErrorIsLost' /\ EditIsOld' /\ TokenNotLost' /\ QuarantineJustified'
<1>1. ErrorIsLost' /\ QuarantineJustified'
  <2> SUFFICES ASSUME ~trouble', row.status = "error", admin.pc # "clear"
               PROVE  /\ \A f \in Flows : ~Replaces(f, row.cred)
                      /\ row.cred \notin live
    BY DEF ErrorIsLost, QuarantineJustified, Replaces, At
  <2> QED
    BY DEF IInv, ErrorIsLost, QuarantineJustified
<1>2. EditIsOld'
  <2> SUFFICES ASSUME ~trouble', admin.pc = "edit", admin.row.status = "error"
               PROVE  admin.row.cred \notin live /\ \A f \in Flows : ~Replaces(f, admin.row.cred)
    BY DEF EditIsOld, Replaces, At
  <2> QED
    BY DEF IInv, EditIsOld
<1>3. TokenNotLost'
  BY DEF IInv, TokenNotLost, At
<1> QED
  BY <1>1, <1>2, <1>3

LEMMA AdminReadsStep ==
    ASSUME IInv, NEW kind \in {"edit", "reauthorize"}, AdminReads(kind)
    PROVE  ErrorIsLost' /\ EditIsOld' /\ TokenNotLost' /\ QuarantineJustified'
<1>1. /\ admin.pc = "idle" /\ admin'.pc \in {"edit", "reauthorize"} /\ admin'.row = row
      /\ row' = row /\ flow' = flow /\ live' = live /\ trouble' = trouble /\ lost' = lost
  BY DEF AdminReads, provider
<1>2. ASSUME ~trouble, row.status = "error"
      PROVE  row.cred \notin live /\ \A f \in Flows : ~Replaces(f, row.cred)
  BY <1>1, <1>2 DEF IInv, ErrorIsLost, QuarantineJustified
<1>3. ErrorIsLost' /\ EditIsOld' /\ QuarantineJustified'
  BY <1>1, <1>2 DEF ErrorIsLost, EditIsOld, QuarantineJustified, Replaces, At
<1>4. TokenNotLost'
  BY <1>1 DEF IInv, TokenNotLost, At
<1> QED
  BY <1>3, <1>4

LEMMA AdminEditsStep ==
    ASSUME IInv, AdminEdits
    PROVE  /\ ErrorIsLost' /\ EditIsOld' /\ TokenNotLost' /\ QuarantineJustified'
           /\ row'.cred = admin.row.cred
<1>1. /\ admin.pc = "edit" /\ admin'.pc = "idle"
      /\ flow' = flow /\ live' = live /\ trouble' = trouble
      /\ lost' = (lost \/ row.cred # admin.row.cred)
  BY DEF AdminEdits, provider, IInv, TypeOK
<1>2. row'.cred = admin.row.cred /\ row'.status = admin.row.status
  <2>1. admin.row.cred \in 1..(issued') /\ issued' \in Nat /\ issued' >= issued
    BY DEF AdminEdits, provider, IInv, TypeOK, Row
  <2> QED
    BY <2>1, WrittenFacts DEF AdminEdits, IInv
<1>3. ErrorIsLost' /\ EditIsOld' /\ QuarantineJustified'
  BY <1>1, <1>2 DEF IInv, ErrorIsLost, EditIsOld, QuarantineJustified, Replaces, At
<1>4. TokenNotLost'
  BY <1>1, <1>2 DEF IInv, TokenNotLost, At
<1> QED
  BY <1>2, <1>3, <1>4

LEMMA ReauthorizeStep ==
    ASSUME IInv, Reauthorize
    PROVE  /\ ErrorIsLost' /\ EditIsOld' /\ TokenNotLost' /\ QuarantineJustified'
           /\ row'.cred = issued + 1
<1>1. admin'.pc = "clear" /\ live' = live \cup {issued + 1}
  BY DEF Reauthorize, IInv, TypeOK
<1>2. row'.cred = issued + 1
  <2>1. issued + 1 \in 1..(issued') /\ issued' \in Nat /\ issued' >= issued
    BY DEF Reauthorize, IInv, TypeOK
  <2> QED
    BY <2>1, WrittenFacts DEF Reauthorize, IInv
<1> QED
  BY <1>1, <1>2 DEF ErrorIsLost, EditIsOld, TokenNotLost, QuarantineJustified

LEMMA AdminClearsStep ==
    ASSUME IInv, AdminClears
    PROVE  /\ ErrorIsLost' /\ EditIsOld' /\ TokenNotLost' /\ QuarantineJustified'
           /\ row'.cred = row.cred
<1>1. /\ admin'.pc = "idle" /\ flow' = flow /\ live' = live /\ lost' = lost
      /\ row'.cred = row.cred /\ row'.status = "active"
  BY DEF AdminClears, provider, history, IInv, TypeOK, Row
<1>2. ErrorIsLost' /\ EditIsOld' /\ QuarantineJustified'
  BY <1>1 DEF ErrorIsLost, EditIsOld, QuarantineJustified
<1>3. TokenNotLost'
  BY <1>1 DEF IInv, TokenNotLost, At
<1> QED
  BY <1>1, <1>2, <1>3

LEMMA OtherStepInv ==
    ASSUME IInv, OtherStep PROVE IInv'
<1>0. TypeOK' /\ LockHeld'
  <2>1. [Next]_vars
    BY DEF OtherStep, Next
  <2> QED
    BY <2>1, TypeStep, LockStep DEF IInv
<1>1. CASE CooldownEnds \/ LockExpires \/ TokenGetsDue \/ SetSchedulable
  <2>1. /\ flow' = flow /\ live' = live /\ issued' = issued /\ admin' = admin
        /\ row'.cred = row.cred /\ row'.status = row.status /\ (trouble => trouble') /\ lost' = lost
    BY <1>1 DEF CooldownEnds, LockExpires, TokenGetsDue, SetSchedulable, provider, history,
       IInv, TypeOK, Row
  <2> QED
    BY <1>0, <2>1, FlowsStay, StillStep DEF IInv
<1>2. ASSUME NEW kind \in {"edit", "reauthorize"}, AdminReads(kind) PROVE IInv'
  <2>1. /\ flow' = flow /\ live' = live /\ issued' = issued /\ trouble' = trouble
        /\ row'.cred = row.cred /\ admin'.row.cred = row.cred
    BY <1>2 DEF AdminReads, provider
  <2> QED
    BY <1>0, <1>2, <2>1, FlowsStay, AdminReadsStep DEF IInv
<1>3. CASE AdminEdits
  <2>1. /\ flow' = flow /\ live' = live /\ issued' = issued /\ trouble' = trouble
        /\ admin'.row.cred = admin.row.cred
    BY <1>3 DEF AdminEdits, provider, IInv, TypeOK
  <2> QED
    BY <1>0, <1>3, <2>1, FlowsStay, AdminEditsStep DEF IInv
<1>4. CASE Reauthorize
  <2>1. /\ flow' = flow /\ live' = live \cup {issued + 1} /\ issued' = issued + 1
        /\ trouble' = trouble /\ admin'.row.cred = admin.row.cred
    BY <1>4 DEF Reauthorize, history, IInv, TypeOK
  <2> QED
    BY <1>0, <1>4, <2>1, FlowsStay, ReauthorizeStep DEF IInv
<1>5. CASE AdminClears
  <2>1. /\ flow' = flow /\ live' = live /\ issued' = issued /\ trouble' = trouble
        /\ admin'.row.cred = admin.row.cred
    BY <1>5 DEF AdminClears, provider, history, IInv, TypeOK
  <2> QED
    BY <1>0, <1>5, <2>1, FlowsStay, AdminClearsStep DEF IInv
<1> QED
  BY <1>1, <1>2, <1>3, <1>4, <1>5 DEF OtherStep

LEMMA NextInv == IInv /\ [Next]_vars => IInv'
<1> SUFFICES ASSUME IInv, [Next]_vars PROVE IInv'
  OBVIOUS
<1>1. CASE UNCHANGED vars
  BY <1>1 DEF vars, provider, history, IInv, TypeOK, Row, FlowState, LockHeld, Inside, At,
     Fetched, Accuses, Replaces, AccusedIsDead, AccusedIsLost, ErrorIsLost, EditIsOld,
     TokenNotLost, QuarantineJustified
<1> QED
  BY <1>1, Cases, FlowStepInv, OtherStepInv

LEMMA Invariant == Spec => []IInv
BY InitInv, NextInv, PTL DEF Spec

-----------------------------------------------------------------------------
(* Theorems                                                                *)

\* Every variable keeps its type; while the lock excludes, one flow at most is
\* at the provider; and the token of the row is good, about to be replaced, or
\* lost by a fault: RefreshIfNeeded never leaves the account with a used token.
THEOREM TokenSafe == Spec => []TokenIsSafe
<1>1. IInv => TokenIsSafe
  BY AloneFacts DEF IInv, TokenIsSafe
<1> QED
  BY <1>1, Invariant, PTL

\* An account that a failed refresh put in error has a token the provider
\* rejects, unless the lock failed or the administrator is about to clear the
\* error: the conditional updates stop what was found out about older ones.
THEOREM Justified == Spec => []QuarantineJustified
<1>1. IInv => QuarantineJustified
  BY DEF IInv
<1> QED
  BY <1>1, Invariant, PTL

\* A flow writes newer credentials over ones the provider no longer accepts, and
\* over no others: an authorization that came between stays.
THEOREM MovesForward == Spec => RefreshMovesForward
<1>1. ASSUME IInv, NEW f \in Flows, Step(f)
      PROVE  row'.cred = row.cred \/ (row'.cred > row.cred /\ row.cred \notin live)
  <2>1. TypeOK /\ Fetched /\ FlowStep(f)
    BY <1>1 DEF IInv, Step, FlowStep
  <2>2. CASE row'.cred # row.cred
    <3>1. At(f, {"persist"}) /\ row.cred = flow[f].snap /\ row'.cred = flow[f].got
      BY <2>1, <2>2, RowFacts DEF Persist
    <3> QED
      BY <2>1, <3>1 DEF Fetched
  <2> QED
    BY <2>2
<1>2. IInv => [(\E f \in Flows : Step(f)) => row'.cred = row.cred
                     \/ (row'.cred > row.cred /\ row.cred \notin live)]_vars
  BY <1>1
<1> QED
  BY <1>2, Invariant, PTL DEF RefreshMovesForward

=============================================================================
