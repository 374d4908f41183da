------------------------------- MODULE MCLsm3 -------------------------------
(* Small instances of Lsm3 for TLC. *)
EXTENDS Lsm3, TLC

Symmetry == Permutations(Backends)
=============================================================================
