--------------------------- MODULE Lsm3ScanProofs ---------------------------
(***************************************************************************)
(* Proofs about Lsm3Scan, for every number of entries, every distribution  *)
(* of them over the three indexes, every division into pages and any       *)
(* number of swaps and merges during the scan.                             *)
(***************************************************************************)
EXTENDS Lsm3Scan, WellFoundedInduction, TLAPS

-----------------------------------------------------------------------------
(* Least and greatest elements, and ranges of sequences *)

\* Min returns the least element of a set.
LEMMA LeastOf ==
  ASSUME NEW S \in SUBSET Nat, S # {}
  PROVE  Min(S) \in S /\ \A x \in S : Min(S) <= x
<1> DEFINE R == {ss \in Nat \X Nat : ss[1] < ss[2]}
<1>1. IsWellFoundedOn(R, Nat)
  BY NatLessThanWellFounded DEF OpToRel
<1>2. \E x \in S : \A y \in S : ~(<<y, x>> \in R)
  <2> HIDE DEF R
  <2> QED BY <1>1, WFMin, Zenon
<1>3. \A x, y \in Nat : <<y, x>> \in R <=> y < x
  OBVIOUS
<1>4. \E x \in S : \A y \in S : x <= y
  <2>1. PICK x \in S : \A y \in S : ~(<<y, x>> \in R)
    BY <1>2
  <2>2. \A y \in S : x <= y
    <3> TAKE y \in S
    <3>1. ~(y < x)
      BY <1>3, <2>1
    <3> QED BY <3>1
  <2> QED BY <2>2
<1> QED
  BY <1>4 DEF Min

\* Max returns the greatest element of a set of entries.
LEMMA GreatestOf ==
  ASSUME NEW S \in SUBSET Entries, S # {}
  PROVE  Max(S) \in S /\ \A x \in S : x <= Max(S)
<1> USE DEF Entries
<1> DEFINE T == {N - x : x \in S}
<1>0. N \in Nat
  BY ScanAssumption
<1>1. T \in SUBSET Nat /\ T # {}
  <2>1. \A x \in S : N - x \in Nat
    BY <1>0
  <2> QED BY <2>1
<1>2. PICK m \in T : \A y \in T : m <= y
  <2> HIDE DEF T
  <2> QED BY <1>1, LeastOf
<1>3. PICK x \in S : m = N - x
  BY <1>2
<1>4. \A y \in S : N - y \in T
  OBVIOUS
<1>5. \A y \in S : x >= y
  <2> TAKE y \in S
  <2>1. N - x <= N - y
    BY <1>2, <1>3, <1>4
  <2> QED BY <2>1, <1>0
<1> HIDE DEF T
<1> QED
  BY <1>5 DEF Max

\* What Append adds to a sequence.
LEMMA RangeAppend ==
  ASSUME NEW s \in Seq(Entries), NEW x \in Entries
  PROVE  /\ Append(s, x) \in Seq(Entries) /\ Append(s, x) # <<>>
         /\ Range(Append(s, x)) = Range(s) \cup {x}
         /\ Last(Append(s, x)) = x
<1>1. /\ Len(Append(s, x)) = Len(s) + 1 /\ Len(s) \in Nat
      /\ \A k \in 1 .. Len(s) : Append(s, x)[k] = s[k]
      /\ Append(s, x)[Len(s) + 1] = x
      /\ DOMAIN Append(s, x) = 1 .. Len(s) + 1 /\ DOMAIN s = 1 .. Len(s)
  OBVIOUS
<1>2. 1 .. Len(s) + 1 = (1 .. Len(s)) \cup {Len(s) + 1}
  BY <1>1
<1>3. Range(Append(s, x)) = Range(s) \cup {x}
  BY <1>1, <1>2 DEF Range
<1> QED BY <1>1, <1>3 DEF Last

\* The last element of a sequence is one of it.
LEMMA LastEntry ==
  ASSUME NEW s \in Seq(Entries), s # <<>>
  PROVE  Last(s) \in Entries /\ Last(s) \in Range(s)
<1>1. Len(s) \in 1 .. Len(s) /\ DOMAIN s = 1 .. Len(s)
  OBVIOUS
<1> QED BY <1>1 DEF Last, Range
-----------------------------------------------------------------------------
(* Cursors *)

\* x comes after y in a scan in direction d.
Beyond(d, x, y) == IF d = "forward" THEN x > y ELSE x < y

\* A page that was read has an entry and lies within its bounds.
Pages == {c \in [page : SUBSET Entries, lo : Entries, hi : Entries,
                 pos : Entries] :
            c.pos \in c.page /\ \A x \in c.page : c.lo <= x /\ x <= c.hi}

\* A cursor at c comes to e, if e is in the index: e is still to come in the
\* page, or beyond the page.
Reaches(d, c, e) ==
  \/ Beyond(d, e, IF d = "forward" THEN c.hi ELSE c.lo)
  \/ e \in c.page /\ ~Beyond(d, c.pos, e)

\* A page is not the end.
LEMMA PagesPositioned ==
  ASSUME NEW c \in Pages
  PROVE  c # Nowhere
  BY DEF Pages, Nowhere

\* Entries are numbers.
LEMMA EntriesNat == Entries \subseteq Nat /\ N \in Entries /\ 1 \in Entries
  BY ScanAssumption DEF Entries

\* The order of a scan is strict and total.
LEMMA BeyondOrder ==
  ASSUME NEW d, NEW x \in Nat, NEW y \in Nat
  PROVE  /\ x # y => Beyond(d, x, y) \/ Beyond(d, y, x)
         /\ ~(Beyond(d, x, y) /\ Beyond(d, y, x)) /\ ~Beyond(d, x, x)
         /\ \A z \in Nat : Beyond(d, x, y) /\ Beyond(d, y, z) => Beyond(d, x, z)
  BY DEF Beyond

\* The page to the right of l has the least of the entries from l on.
LEMMA RightPage ==
  ASSUME NEW i, ix[i] \in SUBSET Entries, NEW l \in Nat \ {0}, NEW c \in Right(i, l)
  PROVE  \/ c = Nowhere /\ \A e \in ix[i] : e < l
         \/ /\ c \in Pages /\ c.page \subseteq ix[i] /\ c.pos >= l
            /\ \A e \in ix[i] : e >= l => Reaches("forward", c, e)
<1> DEFINE page(h) == {x \in ix[i] : l <= x /\ x <= h}
           ends == {h \in l .. N : page(h) # {}}
<1>0. N \in Nat /\ Entries \subseteq Nat /\ \A e \in ix[i] : e \in Nat
  BY EntriesNat
<1>1. CASE ends = {}
  <2>1. c = Nowhere
    BY <1>1 DEF Right
  <2>2. ASSUME NEW e \in ix[i], l <= e
        PROVE  FALSE
    <3>1. e \in page(N) /\ N \in l .. N
      BY <1>0, <2>2 DEF Entries
    <3> QED BY <1>1, <3>1
  <2> QED BY <1>0, <2>1, <2>2
<1>2. CASE ends # {}
  <2>1. PICK h \in ends : c = [page |-> page(h), lo |-> l, hi |-> h,
                               pos |-> Min(page(h))]
    BY <1>2 DEF Right
  <2>2. /\ h \in l .. N /\ page(h) # {} /\ page(h) \in SUBSET Nat
        /\ page(h) \subseteq Entries
    BY <1>0, <2>1
  <2>3. Min(page(h)) \in page(h) /\ \A x \in page(h) : Min(page(h)) <= x
    <3> HIDE DEF page
    <3> QED BY <2>2, LeastOf
  <2>4. l \in Entries /\ h \in Entries
    BY <1>0, <2>2 DEF Entries
  <2>5. c \in Pages /\ c.page \subseteq ix[i] /\ c.pos >= l
    BY <1>0, <2>1, <2>2, <2>3, <2>4 DEF Pages
  <2>6. ASSUME NEW e \in ix[i], e >= l
        PROVE  Reaches("forward", c, e)
    <3>1. CASE e <= h
      <4>1. e \in page(h)
        BY <2>6, <3>1
      <4>2. ~(Min(page(h)) > e)
        <5>1. e \in Nat /\ Min(page(h)) \in Nat /\ Min(page(h)) <= e
          BY <1>0, <2>2, <2>3, <4>1
        <5> QED BY <5>1
      <4> QED BY <2>1, <4>1, <4>2 DEF Reaches, Beyond
    <3>2. CASE ~(e <= h)
      <4>1. e \in Nat /\ h \in Nat /\ e > h
        BY <1>0, <2>2, <3>2
      <4> QED BY <2>1, <4>1 DEF Reaches, Beyond
    <3> QED BY <3>1, <3>2
  <2> QED BY <2>5, <2>6
<1> QED BY <1>1, <1>2

\* The page to the left of h has the greatest of the entries up to h.
LEMMA LeftPage ==
  ASSUME NEW i, ix[i] \in SUBSET Entries, NEW h \in 0 .. N, NEW c \in Left(i, h)
  PROVE  \/ c = Nowhere /\ \A e \in ix[i] : e > h
         \/ /\ c \in Pages /\ c.page \subseteq ix[i] /\ c.pos <= h
            /\ \A e \in ix[i] : e <= h => Reaches("backward", c, e)
<1> DEFINE page(l) == {x \in ix[i] : l <= x /\ x <= h}
           ends == {l \in 1 .. h : page(l) # {}}
<1>0. N \in Nat /\ Entries \subseteq Nat /\ \A e \in ix[i] : e \in Nat
  BY EntriesNat
<1>1. CASE ends = {}
  <2>1. c = Nowhere
    BY <1>1 DEF Left
  <2>2. ASSUME NEW e \in ix[i], e <= h
        PROVE  FALSE
    <3>1. e \in page(1) /\ 1 \in 1 .. h
      BY <1>0, <2>2 DEF Entries
    <3> QED BY <1>1, <3>1
  <2> QED BY <1>0, <2>1, <2>2
<1>2. CASE ends # {}
  <2>1. PICK l \in ends : c = [page |-> page(l), lo |-> l, hi |-> h,
                               pos |-> Max(page(l))]
    BY <1>2 DEF Left
  <2>2. l \in 1 .. h /\ page(l) # {} /\ page(l) \in SUBSET Entries
    BY <1>0, <2>1
  <2>3. Max(page(l)) \in page(l) /\ \A x \in page(l) : x <= Max(page(l))
    <3> HIDE DEF page
    <3> QED BY <2>2, GreatestOf
  <2>4. l \in Entries /\ h \in Entries
    BY <1>0, <2>2 DEF Entries
  <2>5. c \in Pages /\ c.page \subseteq ix[i] /\ c.pos <= h
    BY <1>0, <2>1, <2>2, <2>3, <2>4 DEF Pages
  <2>6. ASSUME NEW e \in ix[i], e <= h
        PROVE  Reaches("backward", c, e)
    <3>1. CASE l <= e
      <4>1. e \in page(l)
        BY <2>6, <3>1
      <4>2. ~(Max(page(l)) < e)
        <5>1. e \in Nat /\ Max(page(l)) \in Nat /\ e <= Max(page(l))
          BY <1>0, <2>2, <2>3, <4>1
        <5> QED BY <5>1
      <4> QED BY <2>1, <4>1, <4>2 DEF Reaches, Beyond
    <3>2. CASE ~(l <= e)
      <4>1. e \in Nat /\ l \in Nat /\ e < l
        BY <1>0, <2>2, <3>2
      <4> QED BY <2>1, <4>1 DEF Reaches, Beyond
    <3> QED BY <3>1, <3>2
  <2> QED BY <2>5, <2>6
<1> QED BY <1>1, <1>2

\* _bt_first positions a cursor where it comes to all entries of its index.
LEMMA FirstPage ==
  ASSUME NEW i, ix[i] \in SUBSET Entries, NEW d \in {"forward", "backward"},
         NEW c \in BtFirst(i, d)
  PROVE  \/ c = Nowhere /\ ix[i] = {}
         \/ /\ c \in Pages /\ c.page \subseteq ix[i]
            /\ \A e \in ix[i] : Reaches(d, c, e)
<1>0. \A e \in ix[i] : e >= 1 /\ e <= N /\ e \in Nat
  BY EntriesNat DEF Entries
<1>1. CASE d = "forward"
  BY <1>0, <1>1, RightPage DEF BtFirst
<1>2. CASE d = "backward"
  BY <1>0, <1>2, LeftPage, EntriesNat DEF BtFirst
<1> QED BY <1>1, <1>2

\* _bt_next moves a cursor beyond its entry, and past no other.
LEMMA NextEntry ==
  ASSUME NEW i, ix[i] \in SUBSET Entries,
         cursor[i] \in Pages, cursor[i].page \subseteq ix[i],
         NEW d \in {"forward", "backward"}, NEW c \in BtNext(i, d)
  PROVE  /\ \/ c = Nowhere
            \/ /\ c \in Pages /\ c.page \subseteq ix[i]
               /\ Beyond(d, c.pos, cursor[i].pos)
         /\ \A e \in ix[i] : Reaches(d, cursor[i], e) /\ e # cursor[i].pos
              => c \in Pages /\ Reaches(d, c, e)
<1> DEFINE c0 == cursor[i]
           ahead == {x \in c0.page : IF d = "forward" THEN x > c0.pos
                                                      ELSE x < c0.pos}
<1>0. /\ N \in Nat /\ Entries \subseteq Nat
      /\ \A e \in ix[i] : e \in Nat
      /\ \A x \in c0.page : x \in Nat
      /\ c0.lo \in Nat \ {0} /\ c0.hi \in Nat /\ c0.pos \in Nat
      /\ c0.page \subseteq Entries /\ c0.pos \in c0.page
      /\ c0.lo \in Entries /\ c0.hi \in Entries
      /\ \A x \in c0.page : c0.lo <= x /\ x <= c0.hi
      /\ c0 \in [page : SUBSET Entries, lo : Entries, hi : Entries, pos : Entries]
  <2>1. /\ c0.page \subseteq Entries /\ c0.pos \in c0.page
        /\ c0.lo \in Entries /\ c0.hi \in Entries
        /\ \A x \in c0.page : c0.lo <= x /\ x <= c0.hi
        /\ c0 \in [page : SUBSET Entries, lo : Entries, hi : Entries, pos : Entries]
    BY DEF Pages
  <2>2. Entries \subseteq Nat /\ 0 \notin Entries
    BY EntriesNat DEF Entries
  <2> HIDE DEF c0
  <2> QED BY <2>1, <2>2, EntriesNat
<1>1. ASSUME ahead # {}, NEW m \in ahead, c = [c0 EXCEPT !.pos = m],
             \A x \in ahead : ~Beyond(d, m, x)
      PROVE  /\ c \in Pages /\ Beyond(d, c.pos, c0.pos) /\ c.page \subseteq ix[i]
             /\ \A e \in ix[i] : Reaches(d, c0, e) /\ e # c0.pos
                                   => Reaches(d, c, e)
  <2>1. m \in c0.page /\ m \in Entries /\ Beyond(d, m, c0.pos)
    BY <1>0 DEF Beyond
  <2>2. /\ c.page = c0.page /\ c.lo = c0.lo /\ c.hi = c0.hi /\ c.pos = m
        /\ c \in [page : SUBSET Entries, lo : Entries, hi : Entries, pos : Entries]
    BY <1>0, <1>1, <2>1
  <2>3. c \in Pages /\ Beyond(d, c.pos, c0.pos)
    BY <1>0, <2>1, <2>2 DEF Pages
  <2>4. ASSUME NEW e \in c0.page, ~Beyond(d, c0.pos, e), e # c0.pos
        PROVE  ~Beyond(d, m, e)
    <3>1. e \in ahead
      <4>1. e \in Nat /\ c0.pos \in Nat
        BY <1>0
      <4>2. Beyond(d, e, c0.pos)
        BY <2>4, <4>1, BeyondOrder
      <4> QED BY <4>2 DEF Beyond
    <3> QED BY <1>1, <3>1
  <2> QED BY <2>2, <2>3, <2>4 DEF Reaches
<1>2. CASE ahead # {} /\ d = "forward"
  <2>1. ahead \in SUBSET Nat
    BY <1>0
  <2>2. Min(ahead) \in ahead /\ \A x \in ahead : Min(ahead) <= x
    <3> HIDE DEF ahead
    <3> QED BY <1>2, <2>1, LeastOf
  <2>3. c = [c0 EXCEPT !.pos = Min(ahead)]
    BY <1>2 DEF BtNext
  <2>4. \A x \in ahead : ~Beyond(d, Min(ahead), x)
    <3>1. \A x \in ahead : x \in Nat
      BY <2>1
    <3> HIDE DEF ahead
    <3> QED BY <1>2, <2>2, <3>1 DEF Beyond
  <2> QED BY <1>1, <1>2, <2>2, <2>3, <2>4
<1>3. CASE ahead # {} /\ d = "backward"
  <2>1. ahead \in SUBSET Entries /\ ahead \in SUBSET Nat
    BY <1>0
  <2>2. Max(ahead) \in ahead /\ \A x \in ahead : x <= Max(ahead)
    <3> HIDE DEF ahead
    <3> QED BY <1>3, <2>1, GreatestOf
  <2>3. c = [c0 EXCEPT !.pos = Max(ahead)]
    BY <1>3 DEF BtNext
  <2>4. \A x \in ahead : ~Beyond(d, Max(ahead), x)
    <3>1. \A x \in ahead : x \in Nat
      BY <2>1
    <3> HIDE DEF ahead
    <3> QED BY <1>3, <2>2, <3>1 DEF Beyond
  <2> QED BY <1>1, <1>3, <2>2, <2>3, <2>4
<1>4. CASE ahead = {} /\ d = "forward"
  <2>1. c \in Right(i, c0.hi + 1) /\ c0.hi + 1 \in Nat \ {0}
    BY <1>0, <1>4 DEF BtNext
  <2>2. \/ c = Nowhere /\ \A e \in ix[i] : e < c0.hi + 1
        \/ /\ c \in Pages /\ c.page \subseteq ix[i] /\ c.pos >= c0.hi + 1
           /\ \A e \in ix[i] : e >= c0.hi + 1 => Reaches("forward", c, e)
    BY <2>1, RightPage
  <2>3. ASSUME NEW e \in ix[i], Reaches(d, c0, e), e # c0.pos
        PROVE  e >= c0.hi + 1 /\ ~(e < c0.hi + 1)
    <3>1. ~(e \in c0.page /\ e > c0.pos)
      BY <1>4
    <3>2. e \in Nat /\ c0.hi \in Nat /\ c0.pos \in Nat
      BY <1>0
    <3>3. e > c0.hi
      BY <1>4, <2>3, <3>1, <3>2 DEF Reaches, Beyond
    <3> QED BY <3>2, <3>3
  <2>4. c \in Pages /\ c.pos >= c0.hi + 1 => Beyond(d, c.pos, c0.pos)
    <3> SUFFICES ASSUME c \in Pages, c.pos >= c0.hi + 1
                 PROVE  c.pos > c0.pos
      BY <1>4 DEF Beyond
    <3>1. c.pos \in Nat /\ c0.hi \in Nat /\ c0.pos \in Nat /\ c0.pos <= c0.hi
      BY <1>0 DEF Pages
    <3> QED BY <3>1
  <2> QED BY <1>4, <2>2, <2>3, <2>4, PagesPositioned
<1>5. CASE ahead = {} /\ d = "backward"
  <2>1. c \in Left(i, c0.lo - 1) /\ c0.lo - 1 \in 0 .. N
    <3>1. c0.lo - 1 \in 0 .. N
      BY <1>0 DEF Entries
    <3> QED BY <1>5, <3>1 DEF BtNext
  <2>2. \/ c = Nowhere /\ \A e \in ix[i] : e > c0.lo - 1
        \/ /\ c \in Pages /\ c.page \subseteq ix[i] /\ c.pos <= c0.lo - 1
           /\ \A e \in ix[i] : e <= c0.lo - 1 => Reaches("backward", c, e)
    BY <2>1, LeftPage
  <2>3. ASSUME NEW e \in ix[i], Reaches(d, c0, e), e # c0.pos
        PROVE  e <= c0.lo - 1 /\ ~(e > c0.lo - 1)
    <3>1. ~(e \in c0.page /\ e < c0.pos)
      BY <1>5
    <3>2. e \in Nat /\ c0.lo \in Nat /\ c0.pos \in Nat
      BY <1>0
    <3>3. e < c0.lo
      BY <1>5, <2>3, <3>1, <3>2 DEF Reaches, Beyond
    <3> QED BY <3>2, <3>3
  <2>4. c \in Pages /\ c.pos <= c0.lo - 1 => Beyond(d, c.pos, c0.pos)
    <3> SUFFICES ASSUME c \in Pages, c.pos <= c0.lo - 1
                 PROVE  c.pos < c0.pos
      BY <1>5 DEF Beyond
    <3>1. c.pos \in Nat /\ c0.lo \in Nat /\ c0.pos \in Nat /\ c0.lo <= c0.pos
      BY <1>0 DEF Pages
    <3> QED BY <3>1
  <2> QED BY <1>5, <2>2, <2>3, <2>4, PagesPositioned
<1> QED BY <1>2, <1>3, <1>4, <1>5

\* What is reached is not behind the cursor.
LEMMA ReachedAhead ==
  ASSUME NEW d \in {"forward", "backward"}, NEW c \in Pages, NEW e \in Entries,
         Reaches(d, c, e)
  PROVE  ~Beyond(d, c.pos, e)
<1>1. /\ c.pos \in Nat /\ e \in Nat /\ c.lo \in Nat /\ c.hi \in Nat
      /\ c.lo <= c.pos /\ c.pos <= c.hi
  BY EntriesNat DEF Pages
<1> QED BY <1>1 DEF Reaches, Beyond
-----------------------------------------------------------------------------
(* The other processes *)

DataTypes == ix \in [0 .. 2 -> SUBSET Entries] /\ active \in 0 .. 1

\* While a scan is open, no index loses an entry: what is merged is copied, but
\* not truncated.
LEMMA OthersStep ==
  ASSUME DataTypes, Others
  PROVE  /\ DataTypes' /\ UNCHANGED scan
         /\ Locked => \A i \in 0 .. 2 : ix[i] \subseteq ix'[i]
<1> USE DEF DataTypes
<1>0. Passive \in 0 .. 2 /\ Passive \in 0 .. 1
  BY DEF Passive
<1>1. ASSUME NEW i \in 0 .. 1, NEW e \in Entries, Insert(i, e)
      PROVE  /\ DataTypes' /\ UNCHANGED scan
             /\ \A k \in 0 .. 2 : ix[k] \subseteq ix'[k]
  BY <1>1 DEF Insert
<1>2. ASSUME NEW e \in Entries, Copy(e)
      PROVE  /\ DataTypes' /\ UNCHANGED scan
             /\ \A k \in 0 .. 2 : ix[k] \subseteq ix'[k]
  BY <1>2 DEF Copy
<1>3. CASE Swap \/ StartCopy
  BY <1>0, <1>3 DEF Swap, StartCopy
<1>4. CASE Truncate
  BY <1>0, <1>4 DEF Truncate
<1> QED BY <1>1, <1>2, <1>3, <1>4 DEF Others

\* Every index begins with entries.
LEMMA DataInit == Init => DataTypes
  BY DEF Init, DataTypes
-----------------------------------------------------------------------------
(* Bitmaps *)

\* What the snapshot sees is in the bitmap, or in an index that is still to be
\* read.
BitmapInv ==
  /\ DataTypes
  /\ Locked => visible \subseteq Content
  /\ pc = "bitmap" =>
       /\ j \in 0 .. 2
       /\ \A e \in visible : e \in tids \/ \E i \in j .. 2 : e \in ix[i]
  /\ BitmapComplete

\* The indexes, one by one.
LEMMA ContentParts == \A e : e \in Content <=> \E i \in 0 .. 2 : e \in ix[i]
  BY DEF Content

\* Reading an index into the bitmap keeps the invariant.
LEMMA BitmapStep == BitmapInv /\ [Next]_vars => BitmapInv'
<1> SUFFICES ASSUME BitmapInv, [Next]_vars PROVE BitmapInv'
  OBVIOUS
<1> USE DEF BitmapInv, BitmapComplete, Locked
<1>1. CASE Others
  <2>1. /\ DataTypes' /\ UNCHANGED <<pc, j, tids, visible>>
        /\ Locked => \A i \in 0 .. 2 : ix[i] \subseteq ix'[i]
    BY <1>1, OthersStep DEF scan, call
  <2>2. Locked => Content \subseteq Content'
    BY <2>1 DEF Content
  <2>3. pc = "bitmap" => \A i \in j .. 2 : ix[i] \subseteq ix'[i]
    BY <2>1
  <2> QED BY <2>1, <2>2, <2>3
<1>2. CASE BeginScan
  <2>1. visible' \subseteq Content /\ pc' = "open"
    BY <1>2 DEF BeginScan
  <2> QED BY <1>2, <2>1 DEF BeginScan, data, DataTypes, Content
<1>3. CASE \/ Rescan \/ EndScan \/ \E d \in Directions : GetTuple(d)
           \/ First \/ Compare \/ Return
  <2>1. UNCHANGED <<data, visible>> /\ Locked
        /\ pc' \in {"open", "closed", "try", "return", "end"}
    BY <1>3 DEF Rescan, EndScan, GetTuple, First, Compare, Return
  <2> QED BY <2>1 DEF data, DataTypes, Content
<1>4. CASE GetBitmap
  BY <1>4, ContentParts DEF GetBitmap, data, DataTypes, Content
<1>5. CASE BitmapIndex
  <2>1. /\ tids' = tids \cup ix[j] /\ j' = j + 1 /\ pc = "bitmap" /\ j \in 0 .. 2
        /\ pc' = IF j + 1 \in 0 .. 2 THEN "bitmap" ELSE "mapped"
        /\ UNCHANGED <<data, visible>>
    BY <1>5 DEF BitmapIndex, BitmapIndexes
  <2>2. \A i \in j .. 2 : i = j \/ i \in j + 1 .. 2
    BY <2>1
  <2>3. \A e \in visible : e \in tids' \/ \E i \in j' .. 2 : e \in ix[i]
    BY <2>1, <2>2
  <2>4. pc' = "mapped" => j' .. 2 = {}
    BY <2>1
  <2> QED BY <2>1, <2>3, <2>4 DEF data, DataTypes, Content
<1>6. CASE UNCHANGED vars
  BY <1>6 DEF vars, data, scan, call, DataTypes, Content
<1> QED BY <1>1, <1>2, <1>3, <1>4, <1>5, <1>6 DEF Next

\* A bitmap misses nothing, although entries move to the base index while it
\* is made: a top index keeps what was copied until the scan is closed.
THEOREM BitmapWhole == Spec => []BitmapComplete
<1>1. Init => BitmapInv
  BY DataInit DEF Init, BitmapInv, BitmapComplete, Locked
<1>2. BitmapInv => BitmapComplete
  BY DEF BitmapInv
<1> QED BY <1>1, <1>2, BitmapStep, PTL DEF Spec
-----------------------------------------------------------------------------
(* The merged scan: its types *)

\* The values of try_index_order.
Orders == {<<0, 1, 2>>, <<1, 0, 2>>}

ScanTypes ==
  /\ DataTypes
  /\ pc \in {"new", "open", "try", "return", "end", "bitmap", "mapped", "closed"}
  /\ cursor \in [0 .. 2 -> Pages \cup {Nowhere}]
  /\ eof \in [0 .. 2 -> BOOLEAN]
  /\ \A i \in 0 .. 2 : eof[i] => cursor[i] = Nowhere
  /\ curr \in 0 .. 3 /\ min \in 0 .. 3 /\ order \in Orders
  /\ pc = "try" => j \in 1 .. 4
  /\ dir \in {"forward", "backward"}
  /\ out \in Seq(Entries) /\ visible \subseteq Entries

\* An order has each index once.
LEMMA OrderFacts ==
  ASSUME NEW o \in Orders
  PROVE  /\ \A k \in 1 .. 3 : o[k] \in 0 .. 2
         /\ \A k, l \in 1 .. 3 : k # l => o[k] # o[l]
         /\ \A i \in 0 .. 2 : \E k \in 1 .. 3 : o[k] = i
  BY DEF Orders

\* What it means to move one cursor.
LEMMA Moved ==
  ASSUME ScanTypes, NEW i \in 0 .. 2, NEW c \in Pages \cup {Nowhere}, MoveTo(i, c)
  PROVE  /\ cursor' \in [0 .. 2 -> Pages \cup {Nowhere}]
         /\ eof' \in [0 .. 2 -> BOOLEAN]
         /\ \A k \in 0 .. 2 : eof'[k] => cursor'[k] = Nowhere
         /\ cursor'[i] = c /\ (eof'[i] <=> c = Nowhere)
         /\ \A k \in 0 .. 2 \ {i} : cursor'[k] = cursor[k] /\ eof'[k] = eof[k]
<1> USE DEF ScanTypes, MoveTo
<1>1. cursor'[i] = c /\ (eof'[i] <=> c = Nowhere)
  OBVIOUS
<1>2. \A k \in 0 .. 2 \ {i} : cursor'[k] = cursor[k] /\ eof'[k] = eof[k]
  OBVIOUS
<1>3. cursor' \in [0 .. 2 -> Pages \cup {Nowhere}] /\ eof' \in [0 .. 2 -> BOOLEAN]
  OBVIOUS
<1> QED BY <1>1, <1>2, <1>3

-----------------------------------------------------------------------------
(* The merged scan: its order *)

\* What a cursor has read of its index is there until the scan is closed, and
\* what the snapshot sees is in some index.
Kept ==
  Locked => /\ visible \subseteq Content
            /\ \A i \in 0 .. 2 : cursor[i] # Nowhere => cursor[i].page \subseteq ix[i]

\* Until the first call, no cursor is positioned.
Untouched ==
  /\ out = <<>> /\ pc \in {"new", "open"} =>
       \A i \in 0 .. 2 : cursor[i] = Nowhere /\ ~eof[i]
  /\ pc \in {"new", "bitmap", "mapped", "return"} => out = <<>>
  /\ pc = "new" => curr = None

\* min is the index that comes first of those compared so far.
Best ==
  /\ pc = "try" /\ min # None =>
       cursor[min] # Nowhere /\ \E k \in 1 .. j - 1 : order[k] = min
  /\ pc = "try" => \A k \in 1 .. j - 1 :
       \/ eof[order[k]]
       \/ /\ cursor[order[k]] # Nowhere /\ min # None
          /\ order[k] = min
             \/ Beyond(dir, cursor[order[k]].pos, cursor[min].pos)
  /\ pc = "try" /\ Unique /\ out = <<>> =>
       min = None /\ \A i \in 0 .. 2 : cursor[i] = Nowhere
  /\ pc = "return" =>
       min # None /\ cursor[min] # Nowhere /\ \A i \in 0 .. 2 \ {min} : eof[i]

\* Once an entry was returned, every cursor is beyond it or at its end, but for
\* the one that the entry came from, until the next call.
Moving ==
  /\ pc \in {"open", "try", "return", "end"} /\ out # <<>> =>
       \A i \in 0 .. 2 :
         \/ eof[i]
         \/ /\ cursor[i] # Nowhere
            /\ (pc = "open" /\ i = curr) \/ Beyond(dir, cursor[i].pos, Last(out))
  /\ pc = "open" /\ curr # None =>
       out # <<>> /\ cursor[curr] # Nowhere /\ cursor[curr].pos = Last(out)
  /\ pc = "end" => \A i \in 0 .. 2 : eof[i]

OrderInv == ScanTypes /\ Kept /\ Untouched /\ Best /\ Moving

\* A call first moves on from the entry that the last one returned.
LEMMA GetTupleStep ==
  ASSUME ~Turns, OrderInv, NEW d \in Directions, GetTuple(d)
  PROVE  OrderInv'
<1> USE DEF OrderInv, ScanTypes, Locked
<1>0. /\ pc = "open" /\ pc' = "try" /\ dir' = d /\ j' = 1 /\ min' = None
      /\ order' = <<active, Passive, 2>>
      /\ out = <<>> \/ d = dir
      /\ UNCHANGED <<data, curr, out, tids, visible>>
  BY DEF GetTuple
<1>1. d \in {"forward", "backward"} /\ order' \in Orders /\ Content' = Content
      /\ DataTypes' /\ ix' = ix
  BY <1>0, ScanAssumption DEF DataTypes, Passive, Orders, data, Content
<1>2. CASE curr = None
  <2>1. UNCHANGED <<cursor, eof>>
    BY <1>2 DEF GetTuple
  <2>2. out # <<>> => d = dir
    BY <1>0
  <2>3. ScanTypes'
    BY <1>0, <1>1, <2>1 DEF None
  <2>4. Kept'
    BY <1>0, <1>1, <2>1 DEF Kept
  <2>5. Untouched' /\ Best'
    BY <1>0, <2>1 DEF Untouched, Best
  <2>6. Moving'
    BY <1>0, <1>2, <2>1, <2>2 DEF Moving, None
  <2> QED BY <2>3, <2>4, <2>5, <2>6
<1>3. CASE curr # None
  <2>1. /\ curr \in 0 .. 2 /\ out # <<>> /\ cursor[curr] # Nowhere
        /\ cursor[curr].pos = Last(out) /\ d = dir
    BY <1>0, <1>3 DEF Moving, None
  <2>2. PICK c \in BtNext(curr, d) : MoveTo(curr, c)
    BY <1>3 DEF GetTuple
  <2>3. /\ cursor[curr] \in Pages /\ cursor[curr].page \subseteq ix[curr]
        /\ ix[curr] \in SUBSET Entries
    BY <1>0, <2>1 DEF Kept, DataTypes
  <2>4. \/ c = Nowhere
        \/ c \in Pages /\ c.page \subseteq ix[curr] /\ Beyond(d, c.pos, Last(out))
    BY <1>1, <2>1, <2>3, NextEntry
  <2>5. /\ cursor' \in [0 .. 2 -> Pages \cup {Nowhere}]
        /\ eof' \in [0 .. 2 -> BOOLEAN]
        /\ \A k \in 0 .. 2 : eof'[k] => cursor'[k] = Nowhere
        /\ cursor'[curr] = c /\ (eof'[curr] <=> c = Nowhere)
        /\ \A k \in 0 .. 2 \ {curr} : cursor'[k] = cursor[k] /\ eof'[k] = eof[k]
    BY <2>1, <2>2, <2>4, Moved
  <2>6. ScanTypes'
    BY <1>0, <1>1, <2>5 DEF None
  <2>7. Kept'
    BY <1>0, <1>1, <2>4, <2>5 DEF Kept
  <2>8. Untouched' /\ Best'
    BY <1>0, <2>1 DEF Untouched, Best
  <2>9. Moving'
    BY <1>0, <2>1, <2>4, <2>5 DEF Moving
  <2> QED BY <2>6, <2>7, <2>8, <2>9
<1> QED BY <1>2, <1>3

\* Positioning a cursor: only in the first call.
LEMMA FirstStep ==
  ASSUME OrderInv, First
  PROVE  OrderInv' /\ out = <<>>
<1> USE DEF OrderInv, ScanTypes, Locked
<1> DEFINE i == order[j]
<1>0. /\ pc = "try" /\ j \in 1 .. 3 /\ i \in 0 .. 2 /\ ~eof[i]
      /\ cursor[i] = Nowhere
      /\ UNCHANGED <<data, curr, dir, order, j, out, tids, visible>>
  BY OrderFacts DEF First
<1>1. out = <<>>
  BY <1>0 DEF Moving
<1>2. Content' = Content /\ DataTypes' /\ ix' = ix /\ ix[i] \in SUBSET Entries
  BY <1>0 DEF data, Content, DataTypes
<1>3. \A k \in 1 .. j - 1 : order[k] \in 0 .. 2 /\ order[k] # i
  BY <1>0, OrderFacts
<1>4. PICK c \in BtFirst(i, dir) :
        IF Unique /\ c # Nowhere
        THEN /\ cursor' = [cursor EXCEPT ![i] = c]
             /\ eof' = [m \in 0 .. 2 |->
                          eof[m] \/ \E k \in j + 1 .. 3 : order[k] = m]
             /\ min' = i /\ pc' = "return"
        ELSE MoveTo(i, c) /\ UNCHANGED <<min, pc>>
  BY DEF First
<1>5. c = Nowhere \/ (c \in Pages /\ c.page \subseteq ix[i])
  BY <1>2, <1>4, FirstPage
<1>6. CASE Unique /\ c # Nowhere
  <2>1. /\ cursor' = [cursor EXCEPT ![i] = c] /\ min' = i /\ pc' = "return"
        /\ eof' = [m \in 0 .. 2 |-> eof[m] \/ \E k \in j + 1 .. 3 : order[k] = m]
    BY <1>4, <1>6
  <2>2. min = None /\ \A m \in 0 .. 2 : cursor[m] = Nowhere
    BY <1>0, <1>1, <1>6 DEF Best
  <2>3. \A m \in 0 .. 2 \ {i} : eof'[m]
    <3> TAKE m \in 0 .. 2 \ {i}
    <3>1. PICK k \in 1 .. 3 : order[k] = m
      BY OrderFacts
    <3>2. k # j
      BY <3>1
    <3>3. CASE k \in 1 .. j - 1
      BY <1>0, <2>1, <2>2, <3>1, <3>3 DEF Best
    <3>4. CASE k \in j + 1 .. 3
      BY <2>1, <3>1, <3>4
    <3> QED BY <1>0, <3>2, <3>3, <3>4
  <2>4. ~eof'[i]
    <3>1. \A k \in j + 1 .. 3 : order[k] # i
      BY <1>0, OrderFacts
    <3> QED BY <1>0, <2>1, <3>1
  <2>5. /\ cursor' \in [0 .. 2 -> Pages \cup {Nowhere}] /\ cursor'[i] = c
        /\ \A m \in 0 .. 2 \ {i} : cursor'[m] = Nowhere
    BY <1>0, <1>5, <2>1, <2>2
  <2>6. ScanTypes'
    BY <1>0, <1>2, <2>1, <2>4, <2>5
  <2>7. Kept'
    BY <1>0, <1>2, <1>5, <2>5 DEF Kept
  <2>8. Untouched' /\ Moving'
    BY <1>0, <1>1, <2>1 DEF Untouched, Moving
  <2>9. Best'
    <3>1. i \in 0 .. 2 /\ i # None /\ c # Nowhere
      BY <1>0, <1>6 DEF None
    <3>2. cursor'[i] # Nowhere /\ \A m \in 0 .. 2 \ {i} : eof'[m]
      BY <2>3, <2>5, <3>1
    <3>3. min' = i /\ pc' = "return"
      BY <2>1
    <3> HIDE DEF i
    <3> QED BY <3>1, <3>2, <3>3 DEF Best, None
  <2> QED BY <1>1, <2>6, <2>7, <2>8, <2>9
<1>7. CASE ~(Unique /\ c # Nowhere)
  <2>1. MoveTo(i, c) /\ UNCHANGED <<min, pc>>
    BY <1>4, <1>7
  <2>2. /\ cursor' \in [0 .. 2 -> Pages \cup {Nowhere}]
        /\ eof' \in [0 .. 2 -> BOOLEAN]
        /\ \A k \in 0 .. 2 : eof'[k] => cursor'[k] = Nowhere
        /\ cursor'[i] = c /\ (eof'[i] <=> c = Nowhere)
        /\ \A k \in 0 .. 2 \ {i} : cursor'[k] = cursor[k] /\ eof'[k] = eof[k]
    BY <1>0, <1>5, <2>1, Moved
  <2>3. ScanTypes'
    BY <1>0, <1>2, <2>1, <2>2
  <2>4. Kept'
    BY <1>0, <1>2, <1>5, <2>1, <2>2 DEF Kept
  <2>5. Untouched' /\ Moving'
    BY <1>0, <1>1, <2>1 DEF Untouched, Moving
  <2>6. min # None => min \in 0 .. 2 \ {i}
    BY <1>0, <1>3 DEF Best
  <2>7. Best'
    <3>1. min # None => cursor'[min] = cursor[min]
      BY <2>2, <2>6
    <3>2. \A k \in 1 .. j - 1 : /\ eof'[order[k]] = eof[order[k]]
                              /\ cursor'[order[k]] = cursor[order[k]]
      BY <1>3, <2>2
    <3>3. Unique => \A m \in 0 .. 2 : cursor'[m] = Nowhere
      BY <1>0, <1>1, <1>7, <2>2 DEF Best
    <3>4. min # None =>
            cursor'[min] # Nowhere /\ \E k \in 1 .. j - 1 : order[k] = min
      BY <1>0, <3>1 DEF Best
    <3>5. \A k \in 1 .. j - 1 :
            \/ eof'[order[k]]
            \/ /\ cursor'[order[k]] # Nowhere /\ min # None
               /\ order[k] = min
                  \/ Beyond(dir, cursor'[order[k]].pos, cursor'[min].pos)
      BY <1>0, <3>1, <3>2 DEF Best
    <3>6. Unique => min = None
      BY <1>0, <1>1 DEF Best
    <3> QED BY <1>0, <2>1, <3>3, <3>4, <3>5, <3>6 DEF Best
  <2> QED BY <1>1, <2>3, <2>4, <2>5, <2>7
<1> QED BY <1>6, <1>7

\* Comparing an index with the best so far.
LEMMA CompareStep ==
  ASSUME OrderInv, Compare
  PROVE  OrderInv'
<1> USE DEF OrderInv, ScanTypes, Locked
<1> DEFINE i == order[j]
<1>0. /\ pc = "try" /\ pc' = "try" /\ j \in 1 .. 3 /\ i \in 0 .. 2
      /\ eof[i] \/ cursor[i] # Nowhere
      /\ j' = j + 1 /\ j' \in 1 .. 4
      /\ UNCHANGED <<data, curr, dir, order, out, tids, visible>>
  BY OrderFacts DEF Compare
<1>1. Content' = Content /\ DataTypes' /\ ix' = ix /\ ix[i] \in SUBSET Entries
  BY <1>0 DEF data, Content, DataTypes
<1>2. /\ \A k \in 1 .. j - 1 : order[k] \in 0 .. 2 /\ order[k] # i
      /\ \A k \in 1 .. j' - 1 : k \in 1 .. j - 1 \/ k = j
      /\ \A k \in 1 .. j - 1 : k \in 1 .. j' - 1
      /\ j \in 1 .. j' - 1
  BY <1>0, OrderFacts
<1>3. min # None => min \in 0 .. 2 \ {i} /\ cursor[min] \in Pages
  BY <1>0, <1>2 DEF Best
<1>4. ~eof[i] => cursor[i] \in Pages /\ cursor[i].page \subseteq ix[i]
  BY <1>0 DEF Kept
<1>5. \A k \in 0 .. 2 : cursor[k] \in Pages => cursor[k].pos \in Nat
  BY EntriesNat DEF Pages
<1>6. out # <<>> => Last(out) \in Nat
  BY LastEntry, EntriesNat
<1>7. CASE eof[i] /\ UNCHANGED <<cursor, eof, min>>
  <2>1. ScanTypes' /\ Kept' /\ Untouched' /\ Moving'
    BY <1>0, <1>1, <1>7 DEF Kept, Untouched, Moving
  <2>2. Best'
    BY <1>0, <1>2, <1>7 DEF Best
  <2> QED BY <2>1, <2>2
<1>8. CASE ~eof[i] /\ min = None /\ min' = i /\ UNCHANGED <<cursor, eof>>
  <2>1. ScanTypes' /\ Kept' /\ Untouched' /\ Moving'
    BY <1>0, <1>1, <1>8 DEF Kept, Untouched, Moving
  <2>2. Best'
    BY <1>0, <1>2, <1>8 DEF Best, None
  <2> QED BY <2>1, <2>2
<1>9. CASE /\ ~eof[i] /\ min # None /\ SameEntry(i, min)
           /\ \E c \in BtNext(i, dir) : MoveTo(i, c)
           /\ UNCHANGED min
  <2>1. PICK c \in BtNext(i, dir) : MoveTo(i, c)
    BY <1>9
  <2>2. cursor[i].pos = cursor[min].pos
    BY <1>9 DEF SameEntry
  <2>3. \/ c = Nowhere
        \/ c \in Pages /\ c.page \subseteq ix[i] /\ Beyond(dir, c.pos, cursor[i].pos)
    BY <1>1, <1>4, <1>9, NextEntry
  <2>4. /\ cursor' \in [0 .. 2 -> Pages \cup {Nowhere}]
        /\ eof' \in [0 .. 2 -> BOOLEAN]
        /\ \A k \in 0 .. 2 : eof'[k] => cursor'[k] = Nowhere
        /\ cursor'[i] = c /\ (eof'[i] <=> c = Nowhere)
        /\ \A k \in 0 .. 2 \ {i} : cursor'[k] = cursor[k] /\ eof'[k] = eof[k]
    BY <1>0, <2>1, <2>3, Moved
  <2>5. c # Nowhere /\ out # <<>> => Beyond(dir, c.pos, Last(out))
    <3> HAVE c # Nowhere /\ out # <<>>
    <3>1. Beyond(dir, cursor[i].pos, Last(out))
      BY <1>0, <1>9 DEF Moving
    <3>2. c.pos \in Nat /\ cursor[i].pos \in Nat /\ Last(out) \in Nat
      BY <1>4, <1>5, <1>6, <1>9, <2>3, <1>0, EntriesNat DEF Pages
    <3> QED BY <2>3, <3>1, <3>2 DEF Beyond
  <2>6. ScanTypes'
    BY <1>0, <1>1, <1>9, <2>4
  <2>7. Kept'
    BY <1>0, <1>1, <2>3, <2>4 DEF Kept
  <2>8. Untouched' /\ Moving'
    BY <1>0, <2>4, <2>5 DEF Untouched, Moving
  <2>9. Best'
    <3>1. \A k \in 1 .. j' - 1 :
            \/ eof'[order[k]]
            \/ /\ cursor'[order[k]] # Nowhere
               /\ order[k] = min
                  \/ Beyond(dir, cursor'[order[k]].pos, cursor'[min].pos)
      BY <1>0, <1>2, <1>3, <1>9, <2>2, <2>3, <2>4 DEF Best
    <3>2. cursor'[min] # Nowhere /\ \E k \in 1 .. j' - 1 : order[k] = min
      BY <1>0, <1>2, <1>3, <1>9, <2>4 DEF Best
    <3>3. ~(Unique /\ out = <<>>)
      BY <1>0, <1>9 DEF Best
    <3> QED BY <1>0, <1>9, <3>1, <3>2, <3>3 DEF Best
  <2> QED BY <2>6, <2>7, <2>8, <2>9
<1>10. CASE /\ ~eof[i] /\ min # None /\ ~SameEntry(i, min)
            /\ min' = IF Before(i, min) THEN i ELSE min
            /\ UNCHANGED <<cursor, eof>>
  <2>1. ScanTypes' /\ Kept' /\ Untouched' /\ Moving'
    BY <1>0, <1>1, <1>10 DEF Kept, Untouched, Moving
  <2>2. /\ cursor[i].pos \in Nat /\ cursor[min].pos \in Nat
        /\ cursor[i].pos # cursor[min].pos
        /\ Before(i, min) <=> Beyond(dir, cursor[min].pos, cursor[i].pos)
    <3>1. cursor[i].pos \in Nat /\ cursor[min].pos \in Nat
      BY <1>0, <1>3, <1>4, <1>5, <1>10
    <3> QED BY <1>10, <3>1 DEF SameEntry, Before, Beyond
  <2>3. ASSUME NEW k \in 1 .. j' - 1, ~eof[order[k]]
        PROVE  /\ cursor[order[k]] # Nowhere
               /\ order[k] = min'
                  \/ Beyond(dir, cursor[order[k]].pos, cursor[min'].pos)
    <3>1. CASE k = j
      <4>1. order[k] = i /\ cursor[i] # Nowhere
        BY <1>0, <1>10, <3>1
      <4>2. CASE Before(i, min)
        BY <1>10, <4>1, <4>2
      <4>3. CASE ~Before(i, min)
        <5>1. min' = min /\ Beyond(dir, cursor[i].pos, cursor[min].pos)
          BY <1>10, <2>2, <4>3, BeyondOrder
        <5> QED BY <4>1, <5>1
      <4> QED BY <4>2, <4>3
    <3>2. CASE k \in 1 .. j - 1
      <4>1. /\ cursor[order[k]] \in Pages /\ cursor[order[k]].pos \in Nat
            /\ order[k] = min
               \/ Beyond(dir, cursor[order[k]].pos, cursor[min].pos)
        BY <1>0, <1>2, <1>5, <2>3, <3>2 DEF Best
      <4>2. cursor[order[k]] # Nowhere
        BY <4>1, PagesPositioned
      <4>3. CASE Before(i, min)
        <5>1. min' = i /\ Beyond(dir, cursor[min].pos, cursor[i].pos)
          BY <1>10, <2>2, <4>3
        <5>2. Beyond(dir, cursor[order[k]].pos, cursor[i].pos)
          BY <2>2, <4>1, <5>1 DEF Beyond
        <5> QED BY <4>2, <5>1, <5>2
      <4>4. CASE ~Before(i, min)
        BY <1>10, <4>1, <4>2, <4>4
      <4> QED BY <4>3, <4>4
    <3> QED BY <1>2, <3>1, <3>2
  <2>4. min' # None /\ cursor[min'] # Nowhere /\ \E k \in 1 .. j' - 1 : order[k] = min'
    BY <1>0, <1>2, <1>10 DEF Best, None
  <2>5. ~(Unique /\ out = <<>>)
    BY <1>0, <1>10 DEF Best
  <2> QED BY <1>0, <1>10, <2>1, <2>3, <2>4, <2>5 DEF Best
<1> QED BY <1>7, <1>8, <1>9, <1>10 DEF Compare

\* Returning the best.
LEMMA ReturnStep ==
  ASSUME OrderInv, Return
  PROVE  /\ OrderInv'
         /\ min # None => /\ out' = Append(out, cursor[min].pos)
                          /\ cursor[min].pos \in Entries
                          /\ Last(out') = cursor[min].pos
         /\ min # None /\ out # <<>> => Beyond(dir, cursor[min].pos, Last(out))
<1> USE DEF OrderInv, ScanTypes, Locked
<1>0. /\ pc = "return" \/ (pc = "try" /\ j > 3)
      /\ UNCHANGED <<data, cursor, eof, dir, order, j, min, tids, visible>>
  BY DEF Return, call
<1>1. Content' = Content /\ DataTypes' /\ ix' = ix
  BY <1>0 DEF data, Content, DataTypes
<1>2. pc = "try" => \A i \in 0 .. 2 : \E k \in 1 .. j - 1 : order[k] = i
  <2>1. pc = "try" => j = 4
    BY <1>0
  <2> QED BY <2>1, OrderFacts
<1>3. CASE min = None
  <2>1. pc = "try" /\ pc' = "end" /\ UNCHANGED <<curr, out>>
    BY <1>0, <1>3 DEF Best, Return
  <2>2. \A i \in 0 .. 2 : eof[i]
    BY <1>2, <1>3, <2>1 DEF Best
  <2>3. ScanTypes' /\ Kept'
    BY <1>0, <1>1, <2>1 DEF Kept
  <2>4. Untouched' /\ Best' /\ Moving'
    BY <1>0, <2>1, <2>2 DEF Untouched, Best, Moving
  <2> QED BY <1>3, <2>3, <2>4
<1>4. CASE min # None
  <2>1. /\ out' = Append(out, cursor[min].pos) /\ curr' = min /\ pc' = "open"
    BY <1>4 DEF Return
  <2>2. min \in 0 .. 2 /\ cursor[min] # Nowhere /\ cursor[min] \in Pages
        /\ cursor[min].pos \in Entries
    <3>1. min \in 0 .. 2 /\ cursor[min] # Nowhere
      BY <1>0, <1>4 DEF Best, None
    <3> QED BY <3>1 DEF Pages
  <2>3. out' \in Seq(Entries) /\ out' # <<>> /\ Last(out') = cursor[min].pos
    BY <2>1, <2>2, RangeAppend
  <2>4. ASSUME NEW i \in 0 .. 2, ~eof[i]
        PROVE  /\ cursor[i] # Nowhere
               /\ i = min \/ Beyond(dir, cursor[i].pos, cursor[min].pos)
    <3>1. CASE pc = "return"
      BY <2>2, <2>4, <3>1 DEF Best
    <3>2. CASE pc = "try"
      <4>1. PICK k \in 1 .. j - 1 : order[k] = i
        BY <1>2, <3>2
      <4>2. \/ eof[order[k]]
            \/ /\ cursor[order[k]] # Nowhere /\ min # None
               /\ order[k] = min
                  \/ Beyond(dir, cursor[order[k]].pos, cursor[min].pos)
        BY <3>2 DEF Best
      <4> QED BY <2>4, <4>1, <4>2
    <3> QED BY <1>0, <3>1, <3>2
  <2>5. ScanTypes'
    BY <1>0, <1>1, <2>1, <2>2, <2>3
  <2>6. Kept'
    BY <1>0, <1>1, <2>1 DEF Kept
  <2>7. Untouched' /\ Best'
    BY <1>0, <2>1, <2>3 DEF Untouched, Best
  <2>8. Moving'
    BY <1>0, <2>1, <2>2, <2>3, <2>4 DEF Moving
  <2>9. out # <<>> => Beyond(dir, cursor[min].pos, Last(out))
    <3> HAVE out # <<>>
    <3>1. pc = "try" /\ ~eof[min]
      BY <1>0, <2>2 DEF Untouched
    <3> QED BY <2>2, <3>1 DEF Moving
  <2> QED BY <2>1, <2>2, <2>3, <2>5, <2>6, <2>7, <2>8, <2>9
<1> QED BY <1>3, <1>4

\* Every step keeps the order of the scan.
LEMMA OrderStep ==
  ASSUME ~Turns, OrderInv, [Next]_vars
  PROVE  OrderInv'
<1> USE DEF OrderInv, Locked
<1>1. CASE Others
  <2>1. /\ DataTypes' /\ UNCHANGED scan
        /\ Locked => \A i \in 0 .. 2 : ix[i] \subseteq ix'[i]
    BY <1>1, OthersStep DEF ScanTypes
  <2>2. UNCHANGED <<pc, cursor, eof, curr, dir, order, j, min, out, tids, visible>>
    BY <2>1 DEF scan, call
  <2>3. Locked => Content \subseteq Content'
    BY <2>1 DEF Content
  <2>4. ScanTypes' /\ Untouched' /\ Best' /\ Moving'
    BY <2>1, <2>2 DEF ScanTypes, Untouched, Best, Moving
  <2>5. Kept'
    BY <2>1, <2>2, <2>3 DEF Kept
  <2> QED BY <2>4, <2>5
<1>2. CASE BeginScan
  <2>1. /\ pc = "new" /\ pc' = "open"
        /\ UNCHANGED <<data, cursor, eof, curr, dir, order, j, min, out, tids>>
        /\ visible' \subseteq Content
    BY <1>2 DEF BeginScan, call
  <2>2. Content' = Content /\ DataTypes' /\ ix' = ix /\ Content \subseteq Entries
    BY <2>1 DEF data, Content, DataTypes, ScanTypes
  <2>3. out = <<>> /\ \A i \in 0 .. 2 : cursor[i] = Nowhere /\ ~eof[i]
    BY <2>1 DEF Untouched
  <2>4. curr = None
    BY <2>1 DEF Untouched
  <2> QED BY <2>1, <2>2, <2>3, <2>4
       DEF ScanTypes, Kept, Untouched, Best, Moving
<1>3. CASE Rescan
  <2>1. /\ pc' = "open" /\ curr' = None /\ out' = <<>>
        /\ cursor' = [i \in 0 .. 2 |-> Nowhere] /\ eof' = [i \in 0 .. 2 |-> FALSE]
        /\ pc \in {"open", "end"}
        /\ UNCHANGED <<data, dir, order, j, min, tids, visible>>
    BY <1>3 DEF Rescan, call
  <2>2. Content' = Content /\ DataTypes' /\ ix' = ix
    BY <2>1 DEF data, Content, DataTypes, ScanTypes
  <2>3. ScanTypes'
    BY <2>1, <2>2 DEF ScanTypes, None
  <2>4. Kept' /\ Untouched' /\ Best' /\ Moving'
    BY <2>1, <2>2 DEF Kept, Untouched, Best, Moving
  <2> QED BY <2>3, <2>4
<1>4. CASE EndScan \/ GetBitmap \/ BitmapIndex
  <2>1. /\ pc' \in {"closed", "bitmap", "mapped"}
        /\ pc' # "closed" => out = <<>> /\ Locked
        /\ UNCHANGED <<data, cursor, eof, curr, dir, order, min, out, visible>>
    BY <1>4 DEF EndScan, GetBitmap, BitmapIndex, call, Untouched
  <2>2. Content' = Content /\ DataTypes' /\ ix' = ix
    BY <2>1 DEF data, Content, DataTypes, ScanTypes
  <2> QED BY <2>1, <2>2 DEF ScanTypes, Kept, Untouched, Best, Moving
<1>5. CASE \E d \in Directions : GetTuple(d)
  BY <1>5, GetTupleStep
<1>6. CASE First \/ Compare \/ Return
  BY <1>6, FirstStep, CompareStep, ReturnStep
<1>7. CASE UNCHANGED vars
  BY <1>7 DEF vars, data, scan, call, ScanTypes, DataTypes, Content, Kept,
     Untouched, Best, Moving
<1> QED BY <1>1, <1>2, <1>3, <1>4, <1>5, <1>6, <1>7 DEF Next

\* At first no cursor is positioned.
LEMMA OrderInit == Init => OrderInv
<1> SUFFICES ASSUME Init PROVE OrderInv
  OBVIOUS
<1>1. out \in Seq(Entries) /\ visible \subseteq Entries
  BY DEF Init
<1> QED
  BY <1>1, DataInit DEF Init, OrderInv, ScanTypes, None, Orders, Kept, Locked,
     Untouched, Best, Moving

\* Each call returns an entry beyond the one before it, as long as the scan
\* does not change its direction: none comes out twice, although an entry that
\* is being merged is in two indexes.
THEOREM ScanInOrder ==
  ASSUME ~Turns
  PROVE  Spec => InOrder
<1>1. ASSUME OrderInv, [Next]_vars
      PROVE  [out' # out /\ out # <<>> /\ out' # <<>>
                => IF dir = "forward" THEN Last(out') > Last(out)
                                      ELSE Last(out') < Last(out)]_vars
  <2> SUFFICES ASSUME out' # out, out # <<>>, out' # <<>>
               PROVE  IF dir = "forward" THEN Last(out') > Last(out)
                                         ELSE Last(out') < Last(out)
    OBVIOUS
  <2>1. Return
    <3>1. ~(Others \/ UNCHANGED vars)
      BY OthersStep, <1>1 DEF OrderInv, ScanTypes, scan, vars
    <3> QED BY <1>1, <3>1 DEF Next, BeginScan, Rescan, EndScan, GetTuple, First,
         Compare, GetBitmap, BitmapIndex
  <2>2. min # None
    BY <2>1 DEF Return
  <2>3. Last(out') = cursor[min].pos /\ Beyond(dir, cursor[min].pos, Last(out))
    BY <1>1, <2>1, <2>2, ReturnStep
  <2> QED BY <2>3 DEF Beyond
<1> QED BY <1>1, OrderInit, OrderStep, PTL DEF Spec, InOrder
-----------------------------------------------------------------------------
(* The merged scan: nothing is skipped *)

\* The cursor of index i is still to come to e.
Ahead(i, e) ==
  /\ e \in ix[i] /\ ~eof[i]
  /\ cursor[i] = Nowhere \/ Reaches(dir, cursor[i], e)

\* What the snapshot sees was returned, or some cursor is still to come to it.
Cover ==
  pc \in {"open", "try", "end"} =>
    \A e \in visible : e \in Range(out) \/ \E i \in 0 .. 2 : Ahead(i, e)

\* A closed scan has returned what it passed.
ClosedSeen ==
  pc = "closed" => \A e \in visible : out # <<>> /\ Passed(e) => e \in Range(out)

CoverInv == OrderInv /\ pc # "return" /\ Cover /\ ClosedSeen

\* What is in front of all cursors is beyond the last entry returned.
LEMMA CoverTells == CoverInv => NoneSkipped
<1> SUFFICES ASSUME CoverInv PROVE NoneSkipped
  OBVIOUS
<1> USE DEF CoverInv, OrderInv, ScanTypes
<1>1. CASE pc \in {"new", "bitmap", "mapped"}
  BY <1>1 DEF Untouched, NoneSkipped
<1>2. CASE pc = "closed"
  BY <1>2 DEF ClosedSeen, NoneSkipped
<1>3. CASE pc \in {"open", "try", "end"}
  <2>1. ASSUME NEW e \in visible, e \notin Range(out), NEW i \in 0 .. 2, Ahead(i, e)
        PROVE  pc # "end" /\ ~(out # <<>> /\ Passed(e))
    <3>1. pc # "end"
      BY <2>1 DEF Ahead, Moving
    <3>2. ASSUME out # <<>>, Passed(e)
          PROVE  FALSE
      <4>1. /\ cursor[i] \in Pages
            /\ cursor[i].pos = Last(out) \/ Beyond(dir, cursor[i].pos, Last(out))
        BY <1>3, <2>1, <3>2 DEF Ahead, Moving, None
      <4>2. ~Beyond(dir, cursor[i].pos, e)
        BY <2>1, <4>1, ReachedAhead, PagesPositioned DEF Ahead
      <4>3. cursor[i].pos \in Nat /\ Last(out) \in Nat /\ e \in Nat
        BY <3>2, <4>1, LastEntry, EntriesNat DEF Pages
      <4> QED BY <3>2, <4>1, <4>2, <4>3 DEF Passed, Beyond
    <3> QED BY <3>1, <3>2
  <2> QED BY <1>3, <2>1 DEF Cover, NoneSkipped
<1> QED BY <1>1, <1>2, <1>3

\* A cursor that stays, in an index that keeps its entries, has the same entries
\* to come.
LEMMA AheadStays ==
  ASSUME NEW i \in 0 .. 2, NEW e, Ahead(i, e), ix[i] \subseteq ix'[i],
         cursor'[i] = cursor[i], eof'[i] = eof[i],
         dir' = dir \/ cursor[i] = Nowhere
  PROVE  Ahead(i, e)'
  BY DEF Ahead

\* Moving on from the entry of a cursor leaves the others ahead.
LEMMA AheadMoves ==
  ASSUME OrderInv, Locked, NEW i \in 0 .. 2, cursor[i] # Nowhere, ix' = ix,
         dir' = dir, NEW c \in BtNext(i, dir), MoveTo(i, c)
  PROVE  \A k \in 0 .. 2, e \in Entries :
           Ahead(k, e) => Ahead(k, e)' \/ (k = i /\ e = cursor[i].pos)
<1> USE DEF OrderInv, ScanTypes
<1>1. /\ cursor[i] \in Pages /\ cursor[i].page \subseteq ix[i]
      /\ ix[i] \in SUBSET Entries
  BY DEF Kept, DataTypes
<1>2. /\ c \in Pages \cup {Nowhere}
      /\ \A e \in ix[i] : Reaches(dir, cursor[i], e) /\ e # cursor[i].pos
           => c \in Pages /\ Reaches(dir, c, e)
  BY <1>1, NextEntry
<1>3. /\ cursor'[i] = c /\ (eof'[i] <=> c = Nowhere)
      /\ \A k \in 0 .. 2 \ {i} : cursor'[k] = cursor[k] /\ eof'[k] = eof[k]
  BY <1>2, Moved
<1> TAKE k \in 0 .. 2, e \in Entries
<1>4. CASE k = i
  BY <1>2, <1>3, <1>4, PagesPositioned DEF Ahead
<1>5. CASE k # i
  BY <1>3, <1>5, AheadStays
<1> QED BY <1>4, <1>5

\* A call skips nothing when it moves on.
LEMMA GetTupleCovers ==
  ASSUME ~Turns, CoverInv, NEW d \in Directions, GetTuple(d)
  PROVE  Cover'
<1> USE DEF CoverInv, OrderInv, ScanTypes
<1>0. /\ pc = "open" /\ pc' = "try" /\ dir' = d
      /\ out = <<>> \/ d = dir
      /\ UNCHANGED <<ix, out, visible>> /\ Locked
  BY DEF GetTuple, data, Locked
<1>1. CASE curr = None
  <2>1. UNCHANGED <<cursor, eof>>
    BY <1>1 DEF GetTuple
  <2>2. \A i \in 0 .. 2 : dir' = dir \/ cursor[i] = Nowhere
    BY <1>0 DEF Untouched
  <2>3. \A i \in 0 .. 2, e \in visible : Ahead(i, e) => Ahead(i, e)'
    BY <1>0, <2>1, <2>2, AheadStays
  <2> QED BY <1>0, <2>3 DEF Cover
<1>2. CASE curr # None
  <2>1. /\ curr \in 0 .. 2 /\ out # <<>> /\ cursor[curr] # Nowhere
        /\ cursor[curr].pos = Last(out) /\ d = dir
    BY <1>0, <1>2 DEF Moving, None
  <2>2. PICK c \in BtNext(curr, dir) : MoveTo(curr, c)
    BY <1>2, <2>1 DEF GetTuple
  <2>3. cursor[curr].pos \in Range(out)
    BY <2>1, LastEntry
  <2>4. \A k \in 0 .. 2, e \in Entries :
          Ahead(k, e) => Ahead(k, e)' \/ (k = curr /\ e = cursor[curr].pos)
    BY <1>0, <2>1, <2>2, AheadMoves
  <2> QED BY <1>0, <2>3, <2>4 DEF Cover
<1> QED BY <1>1, <1>2

\* A cursor is positioned where it comes to all of its index.
LEMMA FirstCovers ==
  ASSUME ~Unique, CoverInv, First
  PROVE  Cover' /\ pc' = "try"
<1> USE DEF CoverInv, OrderInv, ScanTypes
<1> DEFINE i == order[j]
<1>0. /\ pc = "try" /\ pc' = "try" /\ j \in 1 .. 3 /\ i \in 0 .. 2 /\ ~eof[i]
      /\ cursor[i] = Nowhere
      /\ UNCHANGED <<ix, dir, out, visible>>
  BY OrderFacts DEF First, data
<1>1. PICK c \in BtFirst(i, dir) : MoveTo(i, c)
  BY DEF First
<1>2. ix[i] \in SUBSET Entries
  BY <1>0 DEF DataTypes
<1>3. \/ c = Nowhere /\ ix[i] = {}
      \/ c \in Pages /\ \A e \in ix[i] : Reaches(dir, c, e)
  BY <1>2, FirstPage
<1>4. /\ cursor'[i] = c /\ (eof'[i] <=> c = Nowhere)
      /\ \A k \in 0 .. 2 \ {i} : cursor'[k] = cursor[k] /\ eof'[k] = eof[k]
  BY <1>0, <1>1, <1>3, Moved
<1> HIDE DEF i
<1>5. \A k \in 0 .. 2, e \in visible : Ahead(k, e) => Ahead(k, e)'
  <2> TAKE k \in 0 .. 2, e \in visible
  <2>1. CASE k = i
    BY <1>0, <1>3, <1>4, <2>1, PagesPositioned DEF Ahead
  <2>2. CASE k # i
    BY <1>0, <1>4, <2>2, AheadStays
  <2> QED BY <2>1, <2>2
<1> QED BY <1>0, <1>5 DEF Cover

\* Of two cursors at one entry only one moves on.
LEMMA CompareCovers ==
  ASSUME CoverInv, Compare
  PROVE  Cover'
<1> USE DEF CoverInv, OrderInv, ScanTypes
<1> DEFINE i == order[j]
<1>0. /\ pc = "try" /\ pc' = "try" /\ j \in 1 .. 3 /\ i \in 0 .. 2
      /\ eof[i] \/ cursor[i] # Nowhere
      /\ UNCHANGED <<ix, dir, out, visible>> /\ Locked
  BY OrderFacts DEF Compare, data, Locked
<1>1. CASE UNCHANGED <<cursor, eof>>
  <2>1. \A k \in 0 .. 2, e \in visible : Ahead(k, e) => Ahead(k, e)'
    BY <1>0, <1>1, AheadStays
  <2> QED BY <1>0, <2>1 DEF Cover
<1>2. CASE /\ ~eof[i] /\ min # None /\ SameEntry(i, min)
           /\ \E c \in BtNext(i, dir) : MoveTo(i, c)
  <2>1. PICK c \in BtNext(i, dir) : MoveTo(i, c)
    BY <1>2
  <2>2. cursor[i] # Nowhere /\ cursor[i].pos = cursor[min].pos
    BY <1>0, <1>2 DEF SameEntry
  <2>3. min \in 0 .. 2 /\ min # i /\ cursor[min] # Nowhere
    <3>1. cursor[min] # Nowhere /\ \E k \in 1 .. j - 1 : order[k] = min
      BY <1>0, <1>2 DEF Best
    <3>2. \A k \in 1 .. j - 1 : order[k] \in 0 .. 2 /\ order[k] # order[j]
      BY <1>0, OrderFacts
    <3> QED BY <3>1, <3>2
  <2>4. \A k \in 0 .. 2, e \in Entries :
          Ahead(k, e) => Ahead(k, e)' \/ (k = i /\ e = cursor[i].pos)
    <3> HIDE DEF i
    <3> QED BY <1>0, <2>1, <2>2, AheadMoves
  <2>5. Ahead(min, cursor[i].pos)
    <3>1. cursor[min] \in Pages /\ cursor[min].page \subseteq ix[min]
      BY <1>0, <2>3 DEF Kept
    <3>2. cursor[min].pos \in cursor[min].page /\ cursor[min].pos \in Nat
      BY <3>1, EntriesNat DEF Pages
    <3>3. ~eof[min] /\ ~Beyond(dir, cursor[min].pos, cursor[min].pos)
      BY <2>3, <3>2 DEF Beyond
    <3> QED BY <2>2, <3>1, <3>2, <3>3 DEF Ahead, Reaches
  <2>6. \A k \in 0 .. 2, e \in visible : Ahead(k, e) => \E m \in 0 .. 2 : Ahead(m, e)'
    <3> HIDE DEF i
    <3> TAKE k \in 0 .. 2, e \in visible
    <3>1. CASE k = i /\ e = cursor[i].pos
      BY <2>3, <2>4, <2>5, <3>1
    <3>2. CASE ~(k = i /\ e = cursor[i].pos)
      BY <2>4, <3>2
    <3> QED BY <3>1, <3>2
  <2> QED BY <1>0, <2>6 DEF Cover
<1> QED BY <1>1, <1>2 DEF Compare

\* Every step keeps what the snapshot sees in front of some cursor, until it is
\* returned.
LEMMA CoverStep ==
  ASSUME ~Turns, ~Unique, CoverInv, [Next]_vars
  PROVE  CoverInv'
<1> USE DEF CoverInv
<1>0. OrderInv'
  BY OrderStep
<1>1. CASE Others
  <2>1. UNCHANGED scan /\ (Locked => \A i \in 0 .. 2 : ix[i] \subseteq ix'[i])
    BY <1>1, OthersStep DEF OrderInv, ScanTypes
  <2>2. UNCHANGED <<pc, cursor, eof, dir, out, visible>>
    BY <2>1 DEF scan, call
  <2>3. pc \in {"open", "try", "end"} =>
          \A i \in 0 .. 2, e \in visible : Ahead(i, e) => Ahead(i, e)'
    BY <2>1, <2>2, AheadStays DEF Locked
  <2>4. Cover'
    BY <2>2, <2>3 DEF Cover
  <2> QED BY <1>0, <2>2, <2>4 DEF ClosedSeen, Passed
<1>2. CASE BeginScan
  <2>1. /\ pc = "new" /\ pc' = "open" /\ visible' = Content
        /\ UNCHANGED <<ix, cursor, eof, dir, out>>
    BY <1>2 DEF BeginScan, data, call
  <2>2. \A i \in 0 .. 2 : cursor[i] = Nowhere /\ ~eof[i]
    BY <2>1 DEF OrderInv, Untouched
  <2>3. Cover'
    BY <2>1, <2>2, ContentParts DEF Cover, Ahead
  <2> QED BY <1>0, <2>1, <2>3 DEF ClosedSeen
<1>3. CASE Rescan
  <2>1. /\ pc' = "open" /\ UNCHANGED <<ix, visible>> /\ Locked
        /\ \A i \in 0 .. 2 : cursor'[i] = Nowhere /\ ~eof'[i]
    BY <1>3 DEF Rescan, data, Locked
  <2>2. \A e \in visible : \E i \in 0 .. 2 : e \in ix[i]
    BY <2>1, ContentParts DEF OrderInv, Kept
  <2>3. Cover'
    BY <2>1, <2>2 DEF Cover, Ahead
  <2> QED BY <1>0, <2>1, <2>3 DEF ClosedSeen
<1>4. CASE EndScan
  <2>1. pc' = "closed" /\ UNCHANGED <<dir, out, visible>>
    BY <1>4 DEF EndScan, call
  <2>2. NoneSkipped
    BY CoverTells
  <2> QED BY <1>0, <2>1, <2>2 DEF Cover, ClosedSeen, NoneSkipped, Passed
<1>5. CASE GetBitmap \/ BitmapIndex
  <2>1. pc' \in {"bitmap", "mapped"}
    BY <1>5 DEF GetBitmap, BitmapIndex
  <2> QED BY <1>0, <2>1 DEF Cover, ClosedSeen
<1>6. CASE \E d \in Directions : GetTuple(d)
  <2>1. Cover' /\ pc' = "try"
    BY <1>6, GetTupleCovers DEF GetTuple
  <2> QED BY <1>0, <2>1 DEF ClosedSeen
<1>7. CASE First \/ Compare
  <2>1. Cover' /\ pc' = "try"
    BY <1>7, FirstCovers, CompareCovers DEF Compare
  <2> QED BY <1>0, <2>1 DEF ClosedSeen
<1>8. CASE Return
  <2>1. /\ pc = "try" /\ pc' \in {"open", "end"}
        /\ UNCHANGED <<ix, cursor, eof, dir, visible>>
    BY <1>8 DEF Return, data, call
  <2>2. \A i \in 0 .. 2, e \in visible : Ahead(i, e) => Ahead(i, e)'
    BY <2>1, AheadStays
  <2>3. Range(out) \subseteq Range(out')
    <3>1. CASE min = None
      BY <1>8, <3>1 DEF Return
    <3>2. CASE min # None
      BY <1>8, <3>2, ReturnStep, RangeAppend DEF OrderInv, ScanTypes
    <3> QED BY <3>1, <3>2
  <2>4. Cover'
    BY <2>1, <2>2, <2>3 DEF Cover
  <2> QED BY <1>0, <2>1, <2>4 DEF ClosedSeen
<1>9. CASE UNCHANGED vars
  <2>1. UNCHANGED <<ix, pc, cursor, eof, dir, out, visible>>
    BY <1>9 DEF vars, data, scan, call
  <2> QED BY <1>0, <2>1 DEF Cover, Ahead, ClosedSeen, Passed
<1> QED BY <1>1, <1>2, <1>3, <1>4, <1>5, <1>6, <1>7, <1>8, <1>9 DEF Next

\* A scan of an index that is not unique, in one direction, skips no entry that
\* was there when it began, although entries move between the indexes and
\* between the pages read: each of them was returned, or some cursor is still
\* to come to it.
THEOREM ScanWhole ==
  ASSUME ~Turns, ~Unique
  PROVE  Spec => []NoneSkipped
<1>1. Init => CoverInv
  BY OrderInit DEF Init, CoverInv, Cover, ClosedSeen
<1>2. CoverInv /\ [Next]_vars => CoverInv'
  BY CoverStep
<1> QED BY <1>1, <1>2, CoverTells, PTL DEF Spec
=============================================================================
