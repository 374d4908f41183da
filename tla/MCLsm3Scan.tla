----------------------------- MODULE MCLsm3Scan -----------------------------
(* Small instances of Lsm3Scan for TLC. *)
EXTENDS Lsm3Scan, TLC
=============================================================================
