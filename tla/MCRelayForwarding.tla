------------------------- MODULE MCRelayForwarding -------------------------
(* RelayForwarding for TLC. *)
EXTENDS RelayForwarding, TLC

Symmetry == Permutations(Sockets) \cup Permutations(Drains)
=============================================================================
