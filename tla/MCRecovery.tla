----------------------------- MODULE MCRecovery -----------------------------
(* Small instances of Recovery for TLC. *)
EXTENDS Recovery, TLC

MCHash == [k \in Keys |-> IF k = 1 THEN {"p", "q"} ELSE {"q", "r"}]

Symmetry == Permutations(Vals) \cup Permutations(Adjusters)
=============================================================================
