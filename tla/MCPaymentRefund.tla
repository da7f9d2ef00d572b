--------------------------- MODULE MCPaymentRefund ---------------------------
(* Small instances of PaymentRefund.                                       *)
EXTENDS PaymentRefund, TLC

CONSTANTS w1, w2

\* Any worker may run any request.
MCSymmetry == Permutations(Workers)
=============================================================================
