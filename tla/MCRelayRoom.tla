---------------------------- MODULE MCRelayRoom ----------------------------
(* Two sockets of each side: every peer may be replaced once. *)
EXTENDS RelayRoom, TLC

Symmetry == Permutations(Hosts) \cup Permutations(Devices)
=============================================================================
