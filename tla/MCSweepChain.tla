---------------------------- MODULE MCSweepChain ----------------------------
(* Instances of SweepChain for TLC, with a time unit of 15 seconds. *)
EXTENDS SweepChain, TLC

CONSTANTS c1, c2, c3

Symmetry == Permutations(Chains)
=============================================================================
