------------------------ MODULE MCPaymentFulfillment ------------------------
(* Small instances of PaymentFulfillment.                                  *)
EXTENDS PaymentFulfillment, TLC

CONSTANTS w1, w2

\* Any worker may run any job.
MCSymmetry == Permutations({w1, w2})
=============================================================================
