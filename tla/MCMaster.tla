------------------------------ MODULE MCMaster ------------------------------
(* Small instances of Master for TLC. *)
EXTENDS Master, TLC

\* The first key's bits cover the second's, so that a read of a key that was
\* never written may pass the filter.
MCHash == [k \in Keys |-> IF k = 1 THEN {"p", "q"} ELSE {"q"}]

Symmetry == Permutations(Vals) \cup Permutations(Adjusters)
              \cup Permutations(Threads)
=============================================================================
