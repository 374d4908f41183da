--------------------------- MODULE MCSearchMerged ---------------------------
(* Small instances of SearchMerged for TLC. *)
EXTENDS SearchMerged
=============================================================================
