---------------------------- MODULE MCAuthCache ----------------------------
(* Values for checking AuthCache with TLC. *)
EXTENDS AuthCache, TLC
CONSTANTS p1, p2
MCServers == {p1, p2}
MCReaders == {p2}
MCEditors == {p1}
=============================================================================
