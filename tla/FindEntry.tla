----------------------------- MODULE FindEntry -----------------------------
(***************************************************************************)
(* findEntry (src/scratch/include/Core/Read.hpp): binary search for a key  *)
(* in a file of entries of one size, sorted by key.  Entry 0 is the        *)
(* header, a time stamp whose bytes may read as any key.  A file that an   *)
(* adjust has just truncated is empty.                                     *)
(*                                                                         *)
(* The file is [0 .. size - 1 -> key]; the value of an entry is named by   *)
(* the place it is read from.                                              *)
(***************************************************************************)
EXTENDS Entries, Integers

CONSTANT MaxSize    \* bound: entries of a file, with the header

ASSUME FindAssumption == MaxSize \in Nat

VARIABLES
  size,     \* fsize / entrySize
  file,     \* the keys, in the order of the file
  key,      \* the search key
  low, high,
  result    \* where findEntry is: "search", "found" or "missing"

searchVars == <<size, file, key, low, high, result>>

Sorted(f, n) == \A i, j \in 1 .. n - 1 : i < j => f[i] < f[j]

LowFromHeader == 0            \* mutant: the search includes the header
HighHeaderTwice(n) == n - 2   \* mutant: the header is taken off once more
RightOfMid(mid) == mid        \* mutant: mid is not left out
LeftTooFar(mid) == mid - 2    \* mutant: an entry is skipped

LowStart == 1
HighStart(n) == n - 1
RightOf(mid) == mid + 1
LeftOf(mid) == mid - 1

SearchInit ==
  /\ size \in 0 .. MaxSize
  /\ file \in [0 .. size - 1 -> Keys] /\ Sorted(file, size)
  /\ key \in Keys
  /\ low = LowStart /\ high = HighStart(size)
  /\ result = "search"

Mid == (low + high) \div 2

Probe == result = "search" /\ low <= high

GoRight ==
  /\ Probe /\ file[Mid] < key
  /\ low' = RightOf(Mid)
  /\ UNCHANGED <<size, file, key, high, result>>

GoLeft ==
  /\ Probe /\ key < file[Mid]
  /\ high' = LeftOf(Mid)
  /\ UNCHANGED <<size, file, key, low, result>>

Found ==
  /\ Probe /\ ~(file[Mid] < key) /\ ~(key < file[Mid])
  /\ result' = "found"
  /\ UNCHANGED <<size, file, key, low, high>>

GiveUp ==
  /\ result = "search" /\ high < low
  /\ result' = "missing"
  /\ UNCHANGED <<size, file, key, low, high>>

SearchNext == GoRight \/ GoLeft \/ Found \/ GiveUp

SearchSpec == SearchInit /\ [][SearchNext]_searchVars
-----------------------------------------------------------------------------
Stored == \E i \in 1 .. size - 1 : file[i] = key

\* Every read is of an entry of the file, never of the header and never past
\* the end, also when the file is empty or has only its header.
ReadsEntries == Probe => Mid \in 1 .. size - 1

\* findEntry returns true with the value of the key's entry, and false only
\* if the file has no entry with the key.
FindsKey ==
  /\ result = "found" => Mid \in 1 .. size - 1 /\ file[Mid] = key
  /\ result = "missing" => ~Stored
=============================================================================
