--------------------------- MODULE MCBatchImageHold ---------------------------
(* Values for checking BatchImageHold with TLC. *)
EXTENDS BatchImageHold, TLC
CONSTANTS w1, w2
=============================================================================
