--------------------------- MODULE MCUsageBilling ---------------------------
(* Values for checking UsageBilling with TLC. *)
EXTENDS UsageBilling, TLC
CONSTANTS p1, p2, t1, t2
\* Two polls compete for one video while one of them also asks for another.
MCAsks == (t1 :> {p1, p2}) @@ (t2 :> {p2})
=============================================================================
