------------------------------ MODULE MCMirrors ------------------------------
(* Instances of Mirrors for TLC. *)
EXTENDS Mirrors

MCMirrors == {"m", "n"}
=============================================================================
