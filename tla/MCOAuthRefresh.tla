--------------------------- MODULE MCOAuthRefresh ---------------------------
(* Values for checking OAuthRefresh with TLC. *)
EXTENDS OAuthRefresh, TLC
CONSTANTS f1, f2, f3, q1, q2
\* Two flows of one process, and with a third one of another.
MCTwoProcs == (f1 :> q1) @@ (f2 :> q2)
=============================================================================
