--------------------------- MODULE MCIdempotency ---------------------------
(* Small instances of Idempotency.                                         *)
EXTENDS Idempotency, TLC

CONSTANTS r1, r2, r3, r4

MCOnePayload == [r \in {r1, r2, r3} |-> "A"]

\* The fourth request reuses the key with another payload.
MCTwoPayloads == [r \in {r1, r2, r3, r4} |-> IF r = r4 THEN "B" ELSE "A"]

\* Requests with one payload and the same response size are interchangeable.
MCSymmetry == Permutations({r1, r2, r3})

\* r1 has the oversized response.
MCSymmetryRest == Permutations({r2, r3})
=============================================================================
