--------------------------- MODULE MCRelaySession ---------------------------
(* RelaySession for TLC: three sockets, so that two may be closing at once. *)
EXTENDS RelaySession
=============================================================================
