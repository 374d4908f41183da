------------------------------ MODULE IndexSet ------------------------------
(***************************************************************************)
(* What the three B-trees of an lsm3 index promise together: a set of      *)
(* entries that only grows, one entry at a time, of which more and more is *)
(* settled in the base index.                                              *)
(***************************************************************************)
CONSTANT Entries

VARIABLES
  content,   \* the entries a scan of the index would find
  settled    \* those that are in the base index

Init == content = {} /\ settled = {}

Insert == \E e \in Entries : content' = content \cup {e} /\ UNCHANGED settled

Settle == \E e \in content : settled' = settled \cup {e} /\ UNCHANGED content

Next == Insert \/ Settle

Spec == Init /\ [][Next]_<<content, settled>>
=============================================================================
