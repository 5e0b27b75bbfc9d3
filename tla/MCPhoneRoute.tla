---------------------------- MODULE MCPhoneRoute ----------------------------
(* PhoneRoute with small sets of nodes and connections for TLC. *)
EXTENDS PhoneRoute, TLC

Symmetry == Permutations(Nodes) \cup Permutations(Conns)
=============================================================================
