------------------------------ MODULE Lsm3Scan ------------------------------
(***************************************************************************)
(* A scan of an lsm3 index (src/pglsm-docker/lsm3/lsm3.c): three B-tree    *)
(* cursors, one for each top index and one for the base index, merged      *)
(* entry by entry, while other processes insert, swap the top indexes and  *)
(* merge.  Lsm3 has the protocol of the merge; here it is reduced to what  *)
(* it does to the three indexes.                                           *)
(*                                                                         *)
(* entry->active_index is read twice at the start of a call, with no lock; *)
(* it is one read here, as the field is not volatile and a compiler that   *)
(* optimises loads it once.                                                *)
(*                                                                         *)
(* An entry is a number, in the order of the index (its key, then its      *)
(* tid).  A B-tree cursor reads a page at a time, and what is inserted     *)
(* into a page after it was read is not seen by it.  With Unique the scan  *)
(* looks up a full key, and the entries are the versions of its row.       *)
(***************************************************************************)
EXTENDS Naturals, Sequences, FiniteSetsExt, Functions

CONSTANTS
  N,          \* bound: the number of entries
  Directions, \* the scan directions of calls, "forward" and "backward"
  Turns,      \* whether a scan may change its direction
  Unique,     \* the index option "unique", in a lookup of a full key
  MaxSwaps    \* bound: swaps of the top indexes

ASSUME ScanAssumption ==
  /\ N \in Nat \ {0} /\ MaxSwaps \in Nat
  /\ Directions \subseteq {"forward", "backward"}
  /\ Turns \in BOOLEAN /\ Unique \in BOOLEAN

VARIABLES
  ix,       \* [0..2 -> entries]: two top indexes and the base index
  active,   \* entry->active_index
  merging,  \* entry->merge_in_progress
  copying,  \* the merger is at work on the index that is not active
  swaps,    \* swaps so far
  pc,       \* where the scan is
  cursor,   \* so->scan: [0..2 -> page read, its bounds, current entry]
  eof,      \* so->eof
  curr,     \* so->curr_index, None for -1
  dir,      \* the direction of the call
  order, j, min,  \* locals of lsm3_gettuple: try_index_order, j, min
  out,      \* the entries returned
  tids,     \* the bitmap
  visible   \* history: what the scan's snapshot sees

data  == <<ix, active, merging, copying, swaps>>
call  == <<dir, order, j, min>>
scan  == <<pc, cursor, eof, curr, call, out, tids, visible>>
vars  == <<data, scan>>

Entries == 1 .. N
None    == 3
Content == ix[0] \cup ix[1] \cup ix[2]

Passive == 1 - active

Nowhere == [page |-> {}, lo |-> 1, hi |-> 0, pos |-> 0]

\* Each insert was into one of the top indexes.  That and the base index may
\* have any entries in common: those copied by a merge under way, or by one
\* that a restart of the server cut short, after which either top index may be
\* active.  What the base index has twice, because that merge was repeated, is
\* left out.
Init ==
  /\ ix \in [0 .. 2 -> SUBSET Entries]
  /\ merging \in BOOLEAN /\ copying \in BOOLEAN
  /\ copying => merging
  /\ active = 0 /\ swaps = 0
  /\ ix[0] \cap ix[1] = {}
  /\ pc = "new" /\ cursor = [i \in 0 .. 2 |-> Nowhere]
  /\ eof = [i \in 0 .. 2 |-> FALSE] /\ curr = None
  /\ dir = "forward" /\ order = <<0, 1, 2>> /\ j = 1 /\ min = None
  /\ out = <<>> /\ tids = {} /\ visible = {}
-----------------------------------------------------------------------------
(* The other processes *)

\* lsm3_insert, also one that began before a swap.
Insert(i, e) ==
  /\ e \notin Content
  /\ i = active \/ (i = Passive /\ merging /\ ~copying)
  /\ ix' = [ix EXCEPT ![i] = @ \cup {e}]
  /\ UNCHANGED <<active, merging, copying, swaps, scan>>

Swap ==
  /\ ~merging /\ swaps < MaxSwaps
  /\ merging' = TRUE /\ active' = Passive /\ swaps' = swaps + 1
  /\ UNCHANGED <<ix, copying, scan>>

StartCopy ==
  /\ merging /\ ~copying
  /\ copying' = TRUE
  /\ UNCHANGED <<ix, active, merging, swaps, scan>>

\* lsm3_merge_indexes, one entry.
Copy(e) ==
  /\ copying /\ e \in ix[Passive] \ ix[2]
  /\ ix' = [ix EXCEPT ![2] = @ \cup {e}]
  /\ UNCHANGED <<active, merging, copying, swaps, scan>>

LockedInCalls == pc \in {"try", "return", "bitmap"}   \* mutant: not between

\* A scan holds AccessShareLock on both top indexes from its begin to its end.
Locked == pc \notin {"new", "closed"}

\* lsm3_truncate_index, under AccessExclusiveLock.
Truncate ==
  /\ copying /\ ix[Passive] \subseteq ix[2] /\ ~Locked
  /\ ix' = [ix EXCEPT ![Passive] = {}]
  /\ merging' = FALSE /\ copying' = FALSE
  /\ UNCHANGED <<active, swaps, scan>>
-----------------------------------------------------------------------------
(* B-tree cursors: the cursors that _bt_first and _bt_next can lead to *)

\* The next page to the right, from l on, or to the left, up to h, that has
\* entries.  How many entries a page has is the B-tree's choice.
Right(i, l) ==
  LET page(h) == {x \in ix[i] : l <= x /\ x <= h}
      ends == {h \in l .. N : page(h) # {}}
  IN IF ends = {} THEN {Nowhere}
     ELSE {[page |-> page(h), lo |-> l, hi |-> h, pos |-> Min(page(h))]
             : h \in ends}

Left(i, h) ==
  LET page(l) == {x \in ix[i] : l <= x /\ x <= h}
      ends == {l \in 1 .. h : page(l) # {}}
  IN IF ends = {} THEN {Nowhere}
     ELSE {[page |-> page(l), lo |-> l, hi |-> h, pos |-> Max(page(l))]
             : l \in ends}

BtFirst(i, d) == IF d = "forward" THEN Right(i, 1) ELSE Left(i, N)

BtNext(i, d) ==
  LET c == cursor[i]
      ahead == {x \in c.page : IF d = "forward" THEN x > c.pos ELSE x < c.pos}
  IN CASE ahead # {} /\ d = "forward"  -> {[c EXCEPT !.pos = Min(ahead)]}
       [] ahead # {} /\ d = "backward" -> {[c EXCEPT !.pos = Max(ahead)]}
       [] ahead = {} /\ d = "forward"  -> Right(i, c.hi + 1)
       [] ahead = {} /\ d = "backward" -> Left(i, c.lo - 1)

\* so->eof[i] = !_bt_...(so->scan[i], dir)
MoveTo(i, c) ==
  /\ cursor' = [cursor EXCEPT ![i] = c]
  /\ eof' = [eof EXCEPT ![i] = (c = Nowhere)]
-----------------------------------------------------------------------------
(* The scan *)

\* lsm3_beginscan.  In a lookup for a unique index the snapshot sees one
\* version of the row.
BeginScan ==
  /\ pc = "new"
  /\ IF Unique THEN \E e \in Content : visible' = {e}
               ELSE visible' = Content
  /\ pc' = "open"
  /\ UNCHANGED <<data, cursor, eof, curr, call, out, tids>>

\* lsm3_rescan: from the start, with the same snapshot.
Rescan ==
  /\ pc \in {"open", "end"} /\ out # <<>>
  /\ curr' = None
  /\ cursor' = [i \in 0 .. 2 |-> Nowhere]
  /\ eof' = [i \in 0 .. 2 |-> FALSE]
  /\ out' = <<>> /\ pc' = "open"
  /\ UNCHANGED <<data, call, tids, visible>>

\* A call of lsm3_gettuple; the index of the last tuple is advanced first.
GetTuple(d) ==
  /\ pc = "open"
  /\ Turns \/ out = <<>> \/ d = dir
  /\ dir' = d /\ order' = <<active, Passive, 2>> /\ j' = 1 /\ min' = None
  /\ IF curr = None THEN UNCHANGED <<cursor, eof>>
                    ELSE \E c \in BtNext(curr, d) : MoveTo(curr, c)
  /\ pc' = "try"
  /\ UNCHANGED <<data, curr, out, tids, visible>>

\* Position the cursor of one index; the first hit of a unique lookup is
\* enough.
First ==
  /\ pc = "try" /\ j <= 3 /\ ~eof[order[j]] /\ cursor[order[j]] = Nowhere
  /\ \E c \in BtFirst(order[j], dir) :
       IF Unique /\ c # Nowhere
       THEN /\ cursor' = [cursor EXCEPT ![order[j]] = c]
            /\ eof' = [i \in 0 .. 2 |-> eof[i] \/ \E k \in j + 1 .. 3 : order[k] = i]
            /\ min' = order[j] /\ pc' = "return"
       ELSE MoveTo(order[j], c) /\ UNCHANGED <<min, pc>>
  /\ UNCHANGED <<data, curr, dir, order, j, out, tids, visible>>

TieKept(i, m) == FALSE   \* mutant: entries are told apart by their index

\* lsm3_compare_index_tuples(i, m) = 0
SameEntry(i, m) == cursor[i].pos = cursor[m].pos

Before(i, m) == IF dir = "forward" THEN cursor[i].pos < cursor[m].pos
                                   ELSE cursor[i].pos > cursor[m].pos

\* Compare the index with the best one so far; one of two equal entries is
\* skipped.
Compare ==
  /\ pc = "try" /\ j <= 3 /\ (eof[order[j]] \/ cursor[order[j]] # Nowhere)
  /\ LET i == order[j]
     IN \/ eof[i] /\ UNCHANGED <<cursor, eof, min>>
        \/ /\ ~eof[i] /\ min = None
           /\ min' = i /\ UNCHANGED <<cursor, eof>>
        \/ /\ ~eof[i] /\ min # None /\ SameEntry(i, min)
           /\ \E c \in BtNext(i, dir) : MoveTo(i, c)
           /\ UNCHANGED min
        \/ /\ ~eof[i] /\ min # None /\ ~SameEntry(i, min)
           /\ min' = IF Before(i, min) THEN i ELSE min
           /\ UNCHANGED <<cursor, eof>>
  /\ j' = j + 1
  /\ UNCHANGED <<data, pc, curr, dir, order, out, tids, visible>>

Return ==
  /\ pc = "return" \/ (pc = "try" /\ j > 3)
  /\ IF min = None
     THEN pc' = "end" /\ UNCHANGED <<curr, out>>
     ELSE /\ out' = Append(out, cursor[min].pos)
          /\ curr' = min /\ pc' = "open"
  /\ UNCHANGED <<data, cursor, eof, call, tids, visible>>

TopIndexes == 0 .. 1   \* mutant: the base index is left out

\* The loop of lsm3_getbitmap.
BitmapIndexes == 0 .. 2

\* lsm3_getbitmap: the entries of one index after the other.
GetBitmap ==
  /\ pc = "open" /\ out = <<>>
  /\ pc' = "bitmap" /\ j' = 0
  /\ UNCHANGED <<data, cursor, eof, curr, dir, order, min, out, tids, visible>>

BitmapIndex ==
  /\ pc = "bitmap"
  /\ tids' = tids \cup ix[j]
  /\ j' = j + 1 /\ pc' = IF j + 1 \in BitmapIndexes THEN "bitmap" ELSE "mapped"
  /\ UNCHANGED <<data, cursor, eof, curr, dir, order, min, out, visible>>

\* lsm3_endscan
EndScan ==
  /\ pc \in {"open", "end", "mapped"}
  /\ pc' = "closed"
  /\ UNCHANGED <<data, cursor, eof, curr, call, out, tids, visible>>
-----------------------------------------------------------------------------
Others ==
  \/ \E i \in 0 .. 1, e \in Entries : Insert(i, e)
  \/ Swap \/ StartCopy \/ Truncate
  \/ \E e \in Entries : Copy(e)

Next ==
  \/ Others
  \/ BeginScan \/ Rescan \/ EndScan
  \/ \E d \in Directions : GetTuple(d)
  \/ First \/ Compare \/ Return
  \/ GetBitmap \/ BitmapIndex

Spec == Init /\ [][Next]_vars
-----------------------------------------------------------------------------
(* Properties *)

Last(s) == s[Len(s)]

Passed(e) == IF dir = "forward" THEN e < Last(out) ELSE e > Last(out)

\* Each call returns an entry beyond the one before it, in the direction of
\* the call (lsm3.c:674 "amcanbackward = true" promises both directions): so
\* none comes out twice, however entries move from a top index to the base
\* index while the scan is between two pages.
InOrder ==
  [][out' # out /\ out # <<>> /\ out' # <<>>
       => IF dir = "forward" THEN Last(out') > Last(out)
                             ELSE Last(out') < Last(out)]_vars

\* What was in the indexes when the scan began, and comes before the last
\* entry returned, has been returned; at the end, all of it (lsm3.c:602 for
\* a lookup in a unique index: "we can stop after locating first occurrence").
NoneSkipped ==
  /\ pc = "end" => visible \subseteq Range(out)
  /\ \A e \in visible : out # <<>> /\ Passed(e) => e \in Range(out)

\* A bitmap has every entry that was in the indexes when the scan began.
BitmapComplete == pc = "mapped" => visible \subseteq tids
=============================================================================
