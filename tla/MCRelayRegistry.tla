-------------------------- MODULE MCRelayRegistry --------------------------
(* RelayRegistry for TLC: one peer, two sockets. *)
EXTENDS RelayRegistry
=============================================================================
