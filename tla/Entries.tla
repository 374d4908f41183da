------------------------------ MODULE Entries ------------------------------
(***************************************************************************)
(* What a tree or a file of the store holds: for each key a value, the     *)
(* tombstone, or nothing.  Files keep their entries in the order of the    *)
(* keys.                                                                   *)
(***************************************************************************)
EXTENDS Naturals, FiniteSets

CONSTANTS
  Keys,   \* the keys, numbers in the order of K::operator<
  Vals,   \* the ordinary values
  Tomb,   \* the value whose bytes are all TOMBSTONE_BYTE
  None    \* no entry

ASSUME EntriesAssumption ==
  /\ Keys \subseteq Nat /\ None \notin Keys
  /\ Tomb \notin Vals /\ None \notin Vals /\ Tomb # None

Entry    == Vals \cup {Tomb, None}
Contents == [Keys -> Entry]

Empty   == [k \in Keys |-> None]
Size(c) == Cardinality({k \in Keys : c[k] # None})

\* mutant: on equal keys the oldest file's entry is written.
MergeOlderWins(o2, o1) ==
  LET older(k) == IF o1[k] # None THEN o1[k] ELSE o2[k]
  IN  [k \in Keys |-> IF older(k) = Tomb THEN None ELSE older(k)]

\* What merge_files promises: the newer entry of each key, unless it is a
\* tombstone.
MergeFiles(o2, o1) ==
  LET newer(k) == IF o2[k] # None THEN o2[k] ELSE o1[k]
  IN  [k \in Keys |-> IF newer(k) = Tomb THEN None ELSE newer(k)]

\* What is on disk of a file written in key order, once flushed up to m.
Prefix(c, m) == [k \in Keys |-> IF k <= m THEN c[k] ELSE None]
=============================================================================
