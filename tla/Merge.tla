------------------------------- MODULE Merge -------------------------------
(***************************************************************************)
(* merge_files (src/scratch/include/Core/Merge.hpp): one pass over two     *)
(* files sorted by key, with an entry of each in hand.  Module Master      *)
(* takes what the pass promises (MergeFiles) and that the output grows     *)
(* from its front (Prefix); this module is the pass itself.                *)
(*                                                                         *)
(* A file is its contents, read in the order of the keys: the next fread   *)
(* returns the entry with the least key not read, or sets feof.            *)
(***************************************************************************)
EXTENDS Entries

CONSTANT Eof   \* in place of a key: feof is set

ASSUME MergeAssumption == Eof \notin Keys

VARIABLES
  oldest2,   \* the contents of the second oldest file, the newer of the two
  oldest1,   \* the contents of the oldest file
  newfd,     \* what has been written
  entry2k,   \* the key of oldest2's entry in hand, or Eof
  entry1k,   \* that of oldest1
  loop       \* the loop merge_files is in

vars == <<oldest2, oldest1, newfd, entry2k, entry1k, loop>>

\* What fread returns after the entry with key k.
After(c, k, next) ==
  \/ /\ next \in Keys /\ c[next] # None /\ k < next
     /\ \A j \in Keys : k < j /\ j < next => c[j] = None
  \/ next = Eof /\ \A j \in Keys : k < j => c[j] = None

\* What it returns after the header.
Least(c, next) ==
  \/ /\ next \in Keys /\ c[next] # None
     /\ \A j \in Keys : j < next => c[j] = None
  \/ next = Eof /\ \A j \in Keys : c[j] = None

LoopOnce(k2, k1) == "rest1"   \* mutant: the main loop is left too early

\* The loop that follows a pair of freads.
LoopFor(k2, k1) == IF k1 # Eof /\ k2 # Eof THEN "both" ELSE "rest1"

\* mutant: the tombstone is written.
PutAll(c, k) == newfd' = [newfd EXCEPT ![k] = c[k]]

\* fwrite, unless isTomb.
Put(c, k) ==
  newfd' = IF c[k] = Tomb THEN newfd ELSE [newfd EXCEPT ![k] = c[k]]

Init ==
  /\ oldest2 \in Contents /\ oldest1 \in Contents
  /\ newfd = Empty
  /\ entry2k \in Keys \cup {Eof} /\ Least(oldest2, entry2k)
  /\ entry1k \in Keys \cup {Eof} /\ Least(oldest1, entry1k)
  /\ loop = LoopFor(entry2k, entry1k)

Read1(next) == After(oldest1, entry1k, next) /\ entry1k' = next
Read2(next) == After(oldest2, entry2k, next) /\ entry2k' = next

Take1(next) ==
  /\ loop = "both" /\ entry1k < entry2k
  /\ Put(oldest1, entry1k)
  /\ Read1(next)
  /\ loop' = LoopFor(entry2k, entry1k')
  /\ UNCHANGED <<oldest2, oldest1, entry2k>>

Take2(next) ==
  /\ loop = "both" /\ entry2k < entry1k
  /\ Put(oldest2, entry2k)
  /\ Read2(next)
  /\ loop' = LoopFor(entry2k', entry1k)
  /\ UNCHANGED <<oldest2, oldest1, entry1k>>

\* mutant: on equal keys the oldest file's entry is kept.
TakeBothOlder(next2, next1) ==
  /\ loop = "both" /\ ~(entry1k < entry2k) /\ ~(entry2k < entry1k)
  /\ Put(oldest1, entry1k)
  /\ Read1(next1) /\ Read2(next2)
  /\ loop' = LoopFor(entry2k', entry1k')
  /\ UNCHANGED <<oldest2, oldest1>>

\* Equal keys: the newer entry is kept, the older one is read past.
TakeBoth(next2, next1) ==
  /\ loop = "both" /\ ~(entry1k < entry2k) /\ ~(entry2k < entry1k)
  /\ Put(oldest2, entry2k)
  /\ Read1(next1) /\ Read2(next2)
  /\ loop' = LoopFor(entry2k', entry1k')
  /\ UNCHANGED <<oldest2, oldest1>>

\* What is left of oldest1, then of oldest2.  The code has these two loops
\* twice; the second time there is nothing left.
Rest1(next) ==
  /\ loop = "rest1" /\ entry1k # Eof
  /\ Put(oldest1, entry1k)
  /\ Read1(next)
  /\ UNCHANGED <<oldest2, oldest1, entry2k, loop>>

Rest1End ==
  /\ loop = "rest1" /\ entry1k = Eof
  /\ loop' = "rest2"
  /\ UNCHANGED <<oldest2, oldest1, newfd, entry2k, entry1k>>

Rest2(next) ==
  /\ loop = "rest2" /\ entry2k # Eof
  /\ Put(oldest2, entry2k)
  /\ Read2(next)
  /\ UNCHANGED <<oldest2, oldest1, entry1k, loop>>

Rest2End ==
  /\ loop = "rest2" /\ entry2k = Eof
  /\ loop' = "return"
  /\ UNCHANGED <<oldest2, oldest1, newfd, entry2k, entry1k>>

Next ==
  \/ \E next \in Keys \cup {Eof} :
       Take1(next) \/ Take2(next) \/ Rest1(next) \/ Rest2(next)
  \/ \E next2, next1 \in Keys \cup {Eof} : TakeBoth(next2, next1)
  \/ Rest1End
  \/ Rest2End

Spec == Init /\ [][Next]_vars
-----------------------------------------------------------------------------
\* When merge_files returns, the output has the newer entry of each key, and
\* none where that is a tombstone.
MergesAll == loop = "return" => newfd = MergeFiles(oldest2, oldest1)

\* Until then it is the front of that: it has what it will have of every key
\* before the entries in hand, and nothing else.  So whatever stdio has
\* flushed of it is a file that findEntry can search.
Written(k) == (entry2k = Eof \/ k < entry2k) /\ (entry1k = Eof \/ k < entry1k)
GrowsInOrder ==
  \A k \in Keys :
    newfd[k] = IF Written(k) THEN MergeFiles(oldest2, oldest1)[k] ELSE None

\* Entries are appended in the order of their keys.
AppendsInOrder ==
  [][\A k \in Keys : newfd'[k] # newfd[k] =>
       \A j \in Keys : newfd[j] # None => j < k]_vars
=============================================================================
