----------------------------- MODULE OrderPromise ---------------------------
(***************************************************************************)
(* What a payment order promises, whoever works on it and however often:   *)
(* money is collected; then the entitlement is given, once; then the       *)
(* inviter's rebate is paid, once; then the order is settled, for good.    *)
(***************************************************************************)
EXTENDS Naturals

VARIABLES
  collected,  \* the provider has collected the right amount
  given,      \* entitlements given
  rebated,    \* rebates paid
  settled     \* the order is COMPLETED, or was and is being refunded

promise == <<collected, given, rebated, settled>>

Init == collected = FALSE /\ given = 0 /\ rebated = 0 /\ settled = FALSE

Collect ==
  /\ ~collected /\ collected' = TRUE
  /\ UNCHANGED <<given, rebated, settled>>

Give ==
  /\ collected /\ given = 0
  /\ given' = 1
  /\ UNCHANGED <<collected, rebated, settled>>

Rebate ==
  /\ given = 1 /\ rebated = 0
  /\ rebated' = 1
  /\ UNCHANGED <<collected, given, settled>>

Settle ==
  /\ rebated = 1 /\ ~settled
  /\ settled' = TRUE
  /\ UNCHANGED <<collected, given, rebated>>

Next == Collect \/ Give \/ Rebate \/ Settle

Spec == Init /\ [][Next]_promise
=============================================================================
