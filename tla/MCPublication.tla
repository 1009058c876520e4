---------------------------- MODULE MCPublication ----------------------------
(* Instances of Publication for TLC. *)
EXTENDS Publication

CONSTANTS p, q, b1, b2

MCPulls == {p, q}
MCBatches == {b1, b2}
MCSymmetry == Permutations(MCPulls) \cup Permutations(MCBatches)
=============================================================================
