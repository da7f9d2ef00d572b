------------------------- MODULE MCBatchImageQueue -------------------------
(* Values for checking BatchImageQueue with TLC. *)
EXTENDS BatchImageQueue, TLC
CONSTANTS w1, w2, w3, j1, j2
=============================================================================
