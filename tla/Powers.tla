-------------------------------- MODULE Powers --------------------------------
(* The powers of two, by which trees are laid out. *)
EXTENDS Integers

Power[h \in Nat] == IF h = 0 THEN 1 ELSE 2 * Power[h - 1]
=============================================================================
