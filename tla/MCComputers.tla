---------------------------- MODULE MCComputers ----------------------------
(* Two computers and two relays, each like the other. *)
EXTENDS Computers

Symmetry == Permutations(Devices) \cup Permutations(Relays)
=============================================================================
