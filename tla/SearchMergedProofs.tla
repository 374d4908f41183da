------------------------- MODULE SearchMergedProofs -------------------------
(***************************************************************************)
(* Proofs about FindEntry, Merge and SearchMerged, for files of every size *)
(* and keys of every kind.                                                 *)
(***************************************************************************)
EXTENDS SearchMerged, FiniteSetTheorems, TLAPS

-----------------------------------------------------------------------------
(* findEntry *)

\* What the loop of findEntry maintains: the entries left of low are smaller
\* than the key, those right of high are greater.
SearchInv ==
  /\ size \in Nat /\ file \in [0 .. size - 1 -> Keys] /\ Sorted(file, size)
  /\ key \in Keys
  /\ low \in Int /\ 1 <= low /\ high \in Int /\ high <= size - 1
  /\ result \in {"search", "found", "missing"}
  /\ \A i \in 1 .. size - 1 : /\ i < low => file[i] < key
                              /\ high < i => key < file[i]
  /\ result = "found" => low <= high /\ file[Mid] = key
  /\ result = "missing" => high < low

\* mid lies between low and high.
LEMMA MidBetween ==
  ASSUME NEW l \in Int, NEW h \in Int, l <= h
  PROVE  /\ (l + h) \div 2 \in Int
         /\ l <= (l + h) \div 2 /\ (l + h) \div 2 <= h
  OBVIOUS

\* What is read are keys.
LEMMA KeysAreNumbers ==
  SearchInv => key \in Int /\ \A i \in 1 .. size - 1 : file[i] \in Int
<1> SUFFICES ASSUME SearchInv, NEW i \in 1 .. size - 1
             PROVE  key \in Int /\ file[i] \in Int
  BY EntriesAssumption, FindAssumption DEF SearchInv
<1>1. i \in 0 .. size - 1
  BY DEF SearchInv
<1>2. file \in [0 .. size - 1 -> Keys]
  BY DEF SearchInv
<1>3. file[i] \in Keys
  BY <1>1, <1>2
<1>4. Keys \subseteq Int
  BY EntriesAssumption
<1> QED BY <1>3, <1>4 DEF SearchInv

\* The loop invariant holds when findEntry enters its loop.
LEMMA SearchBegins == SearchInit => SearchInv
  BY EntriesAssumption, FindAssumption DEF SearchInit, SearchInv, LowStart, HighStart, Sorted

\* Every turn of the loop keeps it.
LEMMA SearchStep == SearchInv /\ [SearchNext]_searchVars => SearchInv'
<1> SUFFICES ASSUME SearchInv, [SearchNext]_searchVars PROVE SearchInv'
  OBVIOUS
<1> USE EntriesAssumption, FindAssumption
<1>1. ASSUME Probe
      PROVE  /\ Mid \in Int /\ low <= Mid /\ Mid <= high
             /\ Mid \in 1 .. size - 1
  <2>1. Mid \in Int /\ low <= Mid /\ Mid <= high
    BY <1>1, MidBetween DEF Probe, Mid, SearchInv
  <2> QED BY <2>1 DEF SearchInv
<1>2. CASE GoRight
  <2>1. Mid \in 1 .. size - 1 /\ low <= Mid /\ file[Mid] < key
    BY <1>1, <1>2 DEF GoRight
  <2>2. \A i \in 1 .. size - 1 : i < Mid + 1 => file[i] < key
    <3> SUFFICES ASSUME NEW i \in 1 .. size - 1, i < Mid + 1
                 PROVE  file[i] < key
      OBVIOUS
    <3>1. i = Mid \/ file[i] < file[Mid]
      BY <2>1 DEF SearchInv, Sorted
    <3>2. file[i] \in Int /\ file[Mid] \in Int /\ key \in Int
      BY <2>1, KeysAreNumbers
    <3> QED BY <2>1, <3>1, <3>2
  <2> QED BY <1>2, <2>1, <2>2 DEF GoRight, RightOf, Probe, SearchInv, Sorted
<1>3. CASE GoLeft
  <2>1. Mid \in 1 .. size - 1 /\ Mid <= high /\ key < file[Mid]
    BY <1>1, <1>3 DEF GoLeft
  <2>2. \A i \in 1 .. size - 1 : Mid - 1 < i => key < file[i]
    <3> SUFFICES ASSUME NEW i \in 1 .. size - 1, Mid - 1 < i
                 PROVE  key < file[i]
      OBVIOUS
    <3>1. i = Mid \/ file[Mid] < file[i]
      BY <2>1 DEF SearchInv, Sorted
    <3>2. file[i] \in Int /\ file[Mid] \in Int /\ key \in Int
      BY <2>1, KeysAreNumbers
    <3> QED BY <2>1, <3>1, <3>2
  <2> QED BY <1>3, <2>1, <2>2 DEF GoLeft, LeftOf, Probe, SearchInv, Sorted
<1>4. CASE Found
  <2>1. file[Mid] = key
    <3>1. file[Mid] \in Int /\ key \in Int
      BY <1>1, <1>4, KeysAreNumbers DEF Found
    <3> QED BY <1>4, <3>1 DEF Found
  <2> QED BY <1>4, <2>1 DEF Found, Probe, Mid, SearchInv, Sorted
<1>5. CASE GiveUp
  BY <1>5 DEF GiveUp, SearchInv, Sorted
<1>6. CASE UNCHANGED searchVars
  BY <1>6 DEF searchVars, SearchInv, Sorted, Mid
<1> QED BY <1>2, <1>3, <1>4, <1>5, <1>6 DEF SearchNext

\* The invariant says that reads stay in the file and that results are right.
LEMMA SearchRight == SearchInv => ReadsEntries /\ FindsKey
<1> SUFFICES ASSUME SearchInv PROVE ReadsEntries /\ FindsKey
  OBVIOUS
<1> USE EntriesAssumption, FindAssumption
<1>1. low <= high => Mid \in 1 .. size - 1
  BY MidBetween DEF Mid, SearchInv
<1>2. ASSUME result = "missing", NEW i \in 1 .. size - 1 PROVE file[i] # key
  <2>1. file[i] \in Int /\ key \in Int /\ (i < low \/ high < i)
    BY <1>2, KeysAreNumbers DEF SearchInv
  <2> QED BY <2>1 DEF SearchInv
<1> QED BY <1>1, <1>2 DEF ReadsEntries, FindsKey, Probe, Stored, SearchInv

\* findEntry never reads the header or past the end of a file.
THEOREM SearchStaysInFile == SearchSpec => []ReadsEntries
<1>1. SearchInv => ReadsEntries
  BY SearchRight
<1> QED BY <1>1, SearchBegins, SearchStep, PTL DEF SearchSpec

\* findEntry is correct for every sorted file and every key.
THEOREM SearchCorrect == SearchSpec => []FindsKey
<1>1. SearchInv => FindsKey
  BY SearchRight
<1> QED BY <1>1, SearchBegins, SearchStep, PTL DEF SearchSpec
-----------------------------------------------------------------------------
(* merge_files *)

\* What a pass over the files maintains: what is written is the front of the
\* merge, and a file whose entry in hand is ahead has nothing between.
Passed(e, k) == e = Eof \/ k < e
Ahead(c, e) == \A k \in Keys : ~Written(k) /\ Passed(e, k) => c[k] = None
InHand(c, k) == k = Eof \/ (k \in Keys /\ c[k] # None)
MergeInv ==
  /\ oldest2 \in Contents /\ oldest1 \in Contents
  /\ InHand(oldest2, entry2k) /\ InHand(oldest1, entry1k)
  /\ Ahead(oldest2, entry2k) /\ Ahead(oldest1, entry1k)
  /\ GrowsInOrder /\ newfd \in [Keys -> Entry]
  /\ loop = "both" <=> entry2k # Eof /\ entry1k # Eof
  /\ loop \in {"both", "rest1", "rest2", "return"}
  /\ loop \in {"rest2", "return"} => entry1k = Eof
  /\ loop = "return" => entry2k = Eof

\* The merge in terms of the two entries of a key.
LEMMA MergeValue ==
  ASSUME NEW o2 \in Contents, NEW o1 \in Contents, NEW k \in Keys
  PROVE  /\ o2[k] # None => MergeFiles(o2, o1)[k] = IF o2[k] = Tomb THEN None ELSE o2[k]
         /\ o2[k] = None => MergeFiles(o2, o1)[k] = IF o1[k] = Tomb THEN None ELSE o1[k]
         /\ MergeFiles(o2, o1)[k] \in Entry
  BY DEF MergeFiles, Contents, Entry

\* The pass begins with the least entry of each file, and nothing written.
LEMMA MergeInit == Init => MergeInv
<1> SUFFICES ASSUME Init PROVE MergeInv
  OBVIOUS
<1> USE EntriesAssumption, MergeAssumption
<1>1. ASSUME NEW k \in Keys, Written(k)
      PROVE  oldest2[k] = None /\ oldest1[k] = None
  BY <1>1 DEF Init, Least, Written
<1>2. GrowsInOrder
  BY <1>1, MergeValue DEF Init, GrowsInOrder, Empty
<1>3. InHand(oldest2, entry2k) /\ InHand(oldest1, entry1k)
  BY DEF Init, Least, InHand
<1>4. Ahead(oldest2, entry2k) /\ Ahead(oldest1, entry1k)
  BY DEF Init, Least, Ahead, Passed
<1> QED BY <1>2, <1>3, <1>4 DEF Init, MergeInv, LoopFor, Empty, Entry

\* One turn of a loop writes an entry and passes its key, and what else it
\* passes is in neither file: the output stays the front of the merge.
LEMMA WriteOne ==
  ASSUME MergeInv, UNCHANGED <<oldest2, oldest1>>,
         NEW w \in Keys, NEW c \in {oldest2, oldest1}, Put(c, w),
         ~Written(w), Written(w)',
         \A k \in Keys : Written(k) => Written(k)',
         \A k \in Keys : Written(k)' /\ ~Written(k) /\ k # w =>
                           oldest2[k] = None /\ oldest1[k] = None,
         MergeFiles(oldest2, oldest1)[w] = IF c[w] = Tomb THEN None ELSE c[w]
  PROVE  GrowsInOrder' /\ newfd' \in [Keys -> Entry]
<1> USE EntriesAssumption
<1>1. \A k \in Keys : newfd'[k] = IF k = w THEN MergeFiles(oldest2, oldest1)[w]
                                           ELSE newfd[k]
  BY DEF Put, MergeInv, GrowsInOrder
<1>2. \A k \in Keys : ~Written(k) /\ k # w /\ Written(k)' =>
                        MergeFiles(oldest2, oldest1)[k] = None
  BY MergeValue DEF MergeInv
<1>3. newfd' \in [Keys -> Entry]
  BY DEF Put, MergeInv, Contents
<1> QED BY <1>1, <1>2, <1>3 DEF GrowsInOrder, MergeInv

\* The same for the output, seen as the order in which it is appended to.
LEMMA AppendOne ==
  ASSUME MergeInv, NEW w \in Keys, NEW c, Put(c, w),
         entry2k = w \/ entry1k = w,
         entry2k = Eof \/ w <= entry2k, entry1k = Eof \/ w <= entry1k
  PROVE  \A k \in Keys : newfd'[k] # newfd[k] =>
           \A j \in Keys : newfd[j] # None => j < k
<1> SUFFICES ASSUME NEW k \in Keys, newfd'[k] # newfd[k],
                    NEW j \in Keys, newfd[j] # None
             PROVE  j < k
  OBVIOUS
<1>1. k = w
  BY DEF Put, MergeInv
<1>2. Written(j)
  BY DEF MergeInv, GrowsInOrder
<1> QED BY <1>1, <1>2, EntriesAssumption, MergeAssumption DEF Written

\* A turn that takes the entry of the oldest file.
LEMMA TakeOne1 ==
  ASSUME MergeInv, UNCHANGED <<oldest2, oldest1, entry2k>>,
         NEW next \in Keys \cup {Eof}, Read1(next), Put(oldest1, entry1k),
         entry1k \in Keys, entry2k = Eof \/ (entry2k \in Keys /\ entry1k < entry2k)
  PROVE  /\ GrowsInOrder' /\ newfd' \in [Keys -> Entry]
         /\ Ahead(oldest2, entry2k)' /\ Ahead(oldest1, entry1k)'
         /\ InHand(oldest2, entry2k)' /\ InHand(oldest1, entry1k)'
         /\ \A k \in Keys : newfd'[k] # newfd[k] =>
              \A j \in Keys : newfd[j] # None => j < k
<1> USE EntriesAssumption, MergeAssumption
<1> PICK w \in Keys : w = entry1k
  OBVIOUS
<1>1. ~Written(w) /\ Written(w)'
  BY DEF Written, Read1, After
<1>2. \A k \in Keys : Written(k) => Written(k)'
  BY DEF Written, Read1, After
<1>3. \A k \in Keys : w < k /\ Passed(entry1k', k) => oldest1[k] = None
  BY DEF Passed, Read1, After
<1>4. \A k \in Keys : ~Written(k) /\ Passed(entry2k, k) => oldest2[k] = None
  BY DEF MergeInv, Ahead
<1>5. \A k \in Keys : Written(k)' /\ ~Written(k) /\ k # w =>
                        oldest2[k] = None /\ oldest1[k] = None
  <2> SUFFICES ASSUME NEW k \in Keys, Written(k)', ~Written(k), k # w
               PROVE  oldest2[k] = None /\ oldest1[k] = None
    OBVIOUS
  <2>1. Passed(entry2k, k) /\ Passed(entry1k', k)
    BY DEF Written, Passed
  <2>2. w < k
    BY <2>1 DEF Written, Passed
  <2> QED BY <1>3, <1>4, <2>1, <2>2
<1>6. oldest2[w] = None
  BY <1>1, <1>4 DEF Passed
<1>7. MergeFiles(oldest2, oldest1)[w] =
        IF oldest1[w] = Tomb THEN None ELSE oldest1[w]
  BY <1>6, MergeValue DEF MergeInv
<1>8. GrowsInOrder' /\ newfd' \in [Keys -> Entry]
  <2>1. Put(oldest1, w) /\ oldest1 \in {oldest2, oldest1}
    OBVIOUS
  <2> QED BY <1>1, <1>2, <1>5, <1>7, <2>1, WriteOne
<1>9. Ahead(oldest2, entry2k)'
  BY <1>2, <1>4 DEF Ahead, Passed
<1>10. Ahead(oldest1, entry1k)'
  <2> SUFFICES ASSUME NEW k \in Keys, ~Written(k)', Passed(entry1k', k)
               PROVE  oldest1[k] = None
    BY DEF Ahead
  <2>1. entry2k \in Keys /\ ~(k < entry2k)
    BY DEF Written, Passed
  <2>2. w \in Nat /\ k \in Nat /\ entry2k \in Nat /\ w < entry2k
    BY <2>1
  <2>3. w < k
    BY <2>1, <2>2
  <2> QED BY <1>3, <2>3
<1>11. InHand(oldest2, entry2k)' /\ InHand(oldest1, entry1k)'
  BY DEF MergeInv, InHand, Read1, After
<1>12. \A k \in Keys : newfd'[k] # newfd[k] =>
         \A j \in Keys : newfd[j] # None => j < k
  <2>1. Put(oldest1, w)
    OBVIOUS
  <2>2. w \in Nat /\ (entry2k = Eof \/ (entry2k \in Nat /\ w < entry2k))
    OBVIOUS
  <2>3. (entry2k = Eof \/ w <= entry2k) /\ (entry1k = Eof \/ w <= entry1k)
    BY <2>2
  <2> QED BY <2>1, <2>3, AppendOne
<1> QED BY <1>8, <1>9, <1>10, <1>11, <1>12

\* A turn that takes the entry of the second oldest file.
LEMMA TakeOne2 ==
  ASSUME MergeInv, UNCHANGED <<oldest1, oldest2, entry1k>>,
         NEW next \in Keys \cup {Eof}, Read2(next), Put(oldest2, entry2k),
         entry2k \in Keys, entry1k = Eof \/ (entry1k \in Keys /\ entry2k < entry1k)
  PROVE  /\ GrowsInOrder' /\ newfd' \in [Keys -> Entry]
         /\ Ahead(oldest1, entry1k)' /\ Ahead(oldest2, entry2k)'
         /\ InHand(oldest1, entry1k)' /\ InHand(oldest2, entry2k)'
         /\ \A k \in Keys : newfd'[k] # newfd[k] =>
              \A j \in Keys : newfd[j] # None => j < k
<1> USE EntriesAssumption, MergeAssumption
<1> PICK w \in Keys : w = entry2k
  OBVIOUS
<1>1. ~Written(w) /\ Written(w)'
  BY DEF Written, Read2, After
<1>2. \A k \in Keys : Written(k) => Written(k)'
  BY DEF Written, Read2, After
<1>3. \A k \in Keys : w < k /\ Passed(entry2k', k) => oldest2[k] = None
  BY DEF Passed, Read2, After
<1>4. \A k \in Keys : ~Written(k) /\ Passed(entry1k, k) => oldest1[k] = None
  BY DEF MergeInv, Ahead
<1>5. \A k \in Keys : Written(k)' /\ ~Written(k) /\ k # w =>
                        oldest1[k] = None /\ oldest2[k] = None
  <2> SUFFICES ASSUME NEW k \in Keys, Written(k)', ~Written(k), k # w
               PROVE  oldest1[k] = None /\ oldest2[k] = None
    OBVIOUS
  <2>1. Passed(entry1k, k) /\ Passed(entry2k', k)
    BY DEF Written, Passed
  <2>2. w < k
    BY <2>1 DEF Written, Passed
  <2> QED BY <1>3, <1>4, <2>1, <2>2
<1>6. oldest1[w] = None
  BY <1>1, <1>4 DEF Passed
<1>7. MergeFiles(oldest2, oldest1)[w] =
        IF oldest2[w] = Tomb THEN None ELSE oldest2[w]
  BY <1>6, MergeValue DEF MergeInv
<1>8. GrowsInOrder' /\ newfd' \in [Keys -> Entry]
  <2>1. Put(oldest2, w) /\ oldest2 \in {oldest1, oldest2}
    OBVIOUS
  <2> QED BY <1>1, <1>2, <1>5, <1>7, <2>1, WriteOne
<1>9. Ahead(oldest1, entry1k)'
  BY <1>2, <1>4 DEF Ahead, Passed
<1>10. Ahead(oldest2, entry2k)'
  <2> SUFFICES ASSUME NEW k \in Keys, ~Written(k)', Passed(entry2k', k)
               PROVE  oldest2[k] = None
    BY DEF Ahead
  <2>1. entry1k \in Keys /\ ~(k < entry1k)
    BY DEF Written, Passed
  <2>2. w \in Nat /\ k \in Nat /\ entry1k \in Nat /\ w < entry1k
    BY <2>1
  <2>3. w < k
    BY <2>1, <2>2
  <2> QED BY <1>3, <2>3
<1>11. InHand(oldest1, entry1k)' /\ InHand(oldest2, entry2k)'
  BY DEF MergeInv, InHand, Read2, After
<1>12. \A k \in Keys : newfd'[k] # newfd[k] =>
         \A j \in Keys : newfd[j] # None => j < k
  <2>1. Put(oldest2, w)
    OBVIOUS
  <2>2. w \in Nat /\ (entry1k = Eof \/ (entry1k \in Nat /\ w < entry1k))
    OBVIOUS
  <2>3. (entry1k = Eof \/ w <= entry1k) /\ (entry2k = Eof \/ w <= entry2k)
    BY <2>2
  <2> QED BY <2>1, <2>3, AppendOne
<1> QED BY <1>8, <1>9, <1>10, <1>11, <1>12

\* A turn that takes both entries, which have the same key.
LEMMA TakeTwo ==
  ASSUME MergeInv, UNCHANGED <<oldest2, oldest1>>,
         NEW next2 \in Keys \cup {Eof}, NEW next1 \in Keys \cup {Eof},
         TakeBoth(next2, next1)
  PROVE  /\ GrowsInOrder' /\ newfd' \in [Keys -> Entry]
         /\ Ahead(oldest2, entry2k)' /\ Ahead(oldest1, entry1k)'
         /\ InHand(oldest2, entry2k)' /\ InHand(oldest1, entry1k)'
         /\ \A k \in Keys : newfd'[k] # newfd[k] =>
              \A j \in Keys : newfd[j] # None => j < k
<1> USE EntriesAssumption, MergeAssumption
<1>1. entry2k \in Keys /\ entry1k \in Keys /\ entry2k = entry1k
  <2>1. entry2k \in Keys /\ entry1k \in Keys
    BY DEF TakeBoth, MergeInv, InHand
  <2>2. entry2k \in Nat /\ entry1k \in Nat
    BY <2>1
  <2> QED BY <2>1, <2>2 DEF TakeBoth
<1> PICK w \in Keys : w = entry2k /\ w = entry1k
  BY <1>1
<1>2. Put(oldest2, w) /\ Read1(next1) /\ Read2(next2)
  BY DEF TakeBoth
<1>3. w \in Nat /\ ~(w < w)
  OBVIOUS
<1>4. ~Written(w) /\ Written(w)'
  BY <1>2, <1>3 DEF Written, Read1, Read2, After
<1>5. \A k \in Keys : Written(k) => Written(k)'
  BY <1>2 DEF Written, Read1, Read2, After
<1>6. \A k \in Keys : /\ w < k /\ Passed(entry1k', k) => oldest1[k] = None
                      /\ w < k /\ Passed(entry2k', k) => oldest2[k] = None
  BY <1>2 DEF Passed, Read1, Read2, After
<1>7. \A k \in Keys : Written(k) \/ k = w \/ w < k
  BY DEF Written
<1>8. \A k \in Keys : Written(k)' /\ ~Written(k) /\ k # w =>
                        oldest2[k] = None /\ oldest1[k] = None
  BY <1>6, <1>7 DEF Written, Passed
<1>9. MergeFiles(oldest2, oldest1)[w] =
        IF oldest2[w] = Tomb THEN None ELSE oldest2[w]
  <2>1. oldest2[w] # None
    BY DEF MergeInv, InHand
  <2> QED BY <2>1, MergeValue DEF MergeInv
<1>10. GrowsInOrder' /\ newfd' \in [Keys -> Entry]
  <2>1. oldest2 \in {oldest2, oldest1}
    OBVIOUS
  <2> QED BY <1>2, <1>4, <1>5, <1>8, <1>9, <2>1, WriteOne
<1>11. Ahead(oldest2, entry2k)' /\ Ahead(oldest1, entry1k)'
  BY <1>4, <1>5, <1>6, <1>7 DEF Ahead
<1>12. InHand(oldest2, entry2k)' /\ InHand(oldest1, entry1k)'
  BY <1>2 DEF InHand, Read1, Read2, After
<1>13. \A k \in Keys : newfd'[k] # newfd[k] =>
         \A j \in Keys : newfd[j] # None => j < k
  <2>1. w <= entry2k /\ w <= entry1k
    BY <1>3
  <2> QED BY <1>2, <2>1, AppendOne
<1> QED BY <1>10, <1>11, <1>12, <1>13

\* Every turn of a loop keeps the invariant, and appends in order.
LEMMA MergeStep ==
  MergeInv /\ [Next]_vars =>
    /\ MergeInv'
    /\ \A k \in Keys : newfd'[k] # newfd[k] =>
         \A j \in Keys : newfd[j] # None => j < k
<1> SUFFICES ASSUME MergeInv, [Next]_vars
             PROVE  /\ MergeInv'
                    /\ \A k \in Keys : newfd'[k] # newfd[k] =>
                         \A j \in Keys : newfd[j] # None => j < k
  OBVIOUS
<1> USE EntriesAssumption, MergeAssumption
<1>1. ASSUME NEW next \in Keys \cup {Eof}, Take1(next) \/ Rest1(next)
      PROVE  /\ MergeInv'
             /\ \A k \in Keys : newfd'[k] # newfd[k] =>
                  \A j \in Keys : newfd[j] # None => j < k
  <2>1. /\ UNCHANGED <<oldest2, oldest1, entry2k>> /\ Read1(next)
        /\ Put(oldest1, entry1k) /\ entry1k \in Keys
        /\ entry2k = Eof \/ (entry2k \in Keys /\ entry1k < entry2k)
    BY <1>1 DEF Take1, Rest1, MergeInv, InHand
  <2> QED BY <1>1, <2>1, TakeOne1 DEF Take1, Rest1, LoopFor, MergeInv
<1>2. ASSUME NEW next \in Keys \cup {Eof}, Take2(next) \/ Rest2(next)
      PROVE  /\ MergeInv'
             /\ \A k \in Keys : newfd'[k] # newfd[k] =>
                  \A j \in Keys : newfd[j] # None => j < k
  <2>1. /\ UNCHANGED <<oldest2, oldest1, entry1k>> /\ Read2(next)
        /\ Put(oldest2, entry2k) /\ entry2k \in Keys
        /\ entry1k = Eof \/ (entry1k \in Keys /\ entry2k < entry1k)
    BY <1>2 DEF Take2, Rest2, MergeInv, InHand
  <2> QED BY <1>2, <2>1, TakeOne2 DEF Take2, Rest2, LoopFor, MergeInv
<1>3. ASSUME NEW next2 \in Keys \cup {Eof}, NEW next1 \in Keys \cup {Eof},
             TakeBoth(next2, next1)
      PROVE  /\ MergeInv'
             /\ \A k \in Keys : newfd'[k] # newfd[k] =>
                  \A j \in Keys : newfd[j] # None => j < k
  <2>1. UNCHANGED <<oldest2, oldest1>> /\ loop' = LoopFor(entry2k, entry1k)'
    BY <1>3 DEF TakeBoth, LoopFor
  <2> QED BY <1>3, <2>1, TakeTwo DEF LoopFor, MergeInv
<1>4. CASE Rest1End \/ Rest2End \/ UNCHANGED vars
  <2>1. /\ UNCHANGED <<oldest2, oldest1, newfd, entry2k, entry1k>>
        /\ \/ loop = "rest1" /\ entry1k = Eof /\ loop' = "rest2"
           \/ loop = "rest2" /\ entry2k = Eof /\ loop' = "return"
           \/ loop' = loop
    BY <1>4 DEF Rest1End, Rest2End, vars
  <2>2. \A k \in Keys : Written(k)' <=> Written(k)
    BY <2>1 DEF Written
  <2> QED BY <2>1, <2>2 DEF MergeInv, GrowsInOrder, Ahead, InHand
<1> QED BY <1>1, <1>2, <1>3, <1>4 DEF Next

\* When the last loop is left, the front is the whole merge.
LEMMA MergeReturns == MergeInv => MergesAll
<1> SUFFICES ASSUME MergeInv, loop = "return"
             PROVE  newfd = MergeFiles(oldest2, oldest1)
  BY DEF MergesAll
<1>1. \A k \in Keys : newfd[k] = MergeFiles(oldest2, oldest1)[k]
  BY DEF MergeInv, GrowsInOrder, Written
<1>2. MergeFiles(oldest2, oldest1) \in [Keys -> Entry]
  BY DEF MergeInv, MergeFiles, Contents, Entry
<1>3. newfd \in [Keys -> Entry]
  BY DEF MergeInv
<1> QED BY <1>1, <1>2, <1>3

\* The output of a merge, also of one cut short, is the front of the merged
\* file.
THEOREM MergeGrowsInOrder == Spec => []GrowsInOrder
<1>1. MergeInv => GrowsInOrder
  BY DEF MergeInv
<1> QED BY <1>1, MergeInit, MergeStep, PTL DEF Spec

\* merge_files returns with the merge that MergeFiles, and so module Master,
\* stands for.
THEOREM MergeCorrect == Spec => []MergesAll
  BY MergeReturns, MergeInit, MergeStep, PTL DEF Spec

\* What merge_files appends is in the order of the keys, as findEntry needs.
THEOREM MergeSorted == Spec => AppendsInOrder
<1>1. MergeInv /\ [Next]_vars =>
        [\A k \in Keys : newfd'[k] # newfd[k] =>
           \A j \in Keys : newfd[j] # None => j < k]_vars
  BY MergeStep
<1> QED BY <1>1, MergeInit, MergeStep, PTL DEF Spec, AppendsInOrder
-----------------------------------------------------------------------------
(* The file that a merge wrote is searched *)

\* The search is of the file with the keys of the merge that has returned, or
\* of an empty one.
Searching ==
  /\ loop = "return" /\ SearchInv
  /\ size > 0 => {file[i] : i \in 1 .. size - 1} = {k \in Keys : newfd[k] # None}

BothInv == MergeInv /\ (result = NoSearch \/ Searching)

\* A file has a number of entries.
LEMMA SizeNat ==
  ASSUME NEW c
  PROVE  Size(c) \in Nat
<1>1. IsFiniteSet({k \in Keys : c[k] # None})
  BY SearchMergedAssumption, FS_Subset
<1> QED BY <1>1, FS_CardinalityType DEF Size

\* The search begins in a file that is sorted, or empty.
LEMMA SearchBeginsMerged ==
  ASSUME BothInv, NEW h \in Keys, NEW k \in Keys, BeginSearch(h, k)
  PROVE  Searching'
<1> USE EntriesAssumption
<1>1. /\ loop = "return" /\ UNCHANGED <<loop, newfd>> /\ key' = k
      /\ low' = 1 /\ high' = size' - 1 /\ result' = "search"
  BY DEF BeginSearch, vars, LowStart, HighStart
<1>2. CASE /\ size' = Size(newfd) + 1
           /\ file' \in {f \in [0 .. Size(newfd) -> Keys] : IsFile(f, newfd, h)}
  <2>1. IsFile(file', newfd, h)
    BY <1>2
  <2> DEFINE n == Size(newfd)
  <2>2. n \in Nat /\ size' = n + 1
    BY <1>2, SizeNat
  <2>3. /\ file' \in [0 .. n -> Keys] /\ Sorted(file', n + 1)
        /\ {file'[i] : i \in 1 .. n} = {j \in Keys : newfd[j] # None}
    BY <2>1 DEF IsFile
  <2> HIDE DEF n
  <2>4. size' \in Nat /\ size' - 1 = n
    BY <2>2
  <2>5. SearchInv'
    BY <1>1, <2>2, <2>3, <2>4 DEF SearchInv
  <2>6. {file'[i] : i \in 1 .. size' - 1} = {j \in Keys : newfd[j] # None}
    BY <2>3, <2>4
  <2> QED BY <1>1, <2>5, <2>6 DEF Searching
<1>3. CASE size' = 0 /\ file' = <<>>
  <2>1. file' \in [0 .. size' - 1 -> Keys]
    <3>1. 0 .. size' - 1 = {}
      BY <1>3
    <3> QED BY <1>3, <3>1
  <2>2. SearchInv'
    BY <1>1, <1>3, <2>1 DEF SearchInv, Sorted
  <2> QED BY <1>1, <1>3, <2>2 DEF Searching
<1> QED BY <1>2, <1>3 DEF BeginSearch

\* The invariant of the two holds at first and is kept.
LEMMA BothBegin == BothInit => BothInv
  BY MergeInit DEF BothInit, BothInv

\* A step of the merge, the begin of a search and its steps keep it.
LEMMA BothStep == BothInv /\ [BothNext]_allVars => BothInv'
<1> SUFFICES ASSUME BothInv, [BothNext]_allVars PROVE BothInv'
  OBVIOUS
<1>1. CASE Next /\ UNCHANGED searchVars
  <2>1. loop # "return"
    BY <1>1 DEF Next, Take1, Take2, TakeBoth, Rest1, Rest2, Rest1End, Rest2End
  <2>2. result = NoSearch /\ result' = NoSearch
    BY <1>1, <2>1 DEF BothInv, Searching, searchVars
  <2>3. MergeInv'
    BY <1>1, MergeStep DEF BothInv
  <2> QED BY <2>2, <2>3 DEF BothInv
<1>2. ASSUME NEW h \in Keys, NEW k \in Keys, BeginSearch(h, k)
      PROVE  BothInv'
  <2>1. MergeInv'
    <3>1. [Next]_vars
      BY <1>2 DEF BeginSearch
    <3> QED BY <3>1, MergeStep DEF BothInv
  <2> QED BY <1>2, <2>1, SearchBeginsMerged DEF BothInv
<1>3. CASE (SearchNext /\ UNCHANGED vars) \/ UNCHANGED allVars
  <2>1. UNCHANGED vars /\ [SearchNext]_searchVars
    BY <1>3 DEF allVars
  <2>2. MergeInv'
    BY <2>1, MergeStep DEF BothInv
  <2>3. CASE result = NoSearch
    <3>1. ~SearchNext
      BY <2>3, SearchMergedAssumption
         DEF SearchNext, GoRight, GoLeft, Found, GiveUp, Probe
    <3> QED BY <2>1, <2>2, <2>3, <3>1 DEF BothInv, searchVars
  <2>4. CASE Searching
    <3>1. SearchInv'
      BY <2>1, <2>4, SearchStep DEF Searching
    <3>2. UNCHANGED <<size, file, newfd, loop>>
      BY <2>1 DEF SearchNext, GoRight, GoLeft, Found, GiveUp, searchVars, vars
    <3> QED BY <2>2, <2>4, <3>1, <3>2 DEF BothInv, Searching
  <2> QED BY <2>3, <2>4 DEF BothInv
<1> QED BY <1>1, <1>2, <1>3 DEF BothNext

\* The invariant says that the lookup is right.
LEMMA LookupRight == BothInv => LookupNewest
<1> SUFFICES ASSUME BothInv, size > 0, result \in {"found", "missing"}
             PROVE  /\ result = "found" =>
                         /\ newfd[file[Mid]] = MergeFiles(oldest2, oldest1)[key]
                         /\ newfd[file[Mid]] # None
                    /\ result = "missing" =>
                         MergeFiles(oldest2, oldest1)[key] = None
  BY DEF LookupNewest
<1>1. MergeInv /\ Searching /\ SearchInv /\ loop = "return"
  BY SearchMergedAssumption DEF BothInv, Searching
<1>2. newfd[key] = MergeFiles(oldest2, oldest1)[key] /\ key \in Keys
  BY <1>1, MergeReturns DEF MergesAll, SearchInv
<1>3. FindsKey
  BY <1>1, SearchRight
<1>4. result = "missing" => newfd[key] = None
  BY <1>1, <1>2, <1>3 DEF Searching, FindsKey, Stored
<1>5. result = "found" => file[Mid] = key /\ newfd[file[Mid]] # None
  BY <1>1, <1>3 DEF Searching, FindsKey
<1> QED BY <1>2, <1>4, <1>5

\* A key looked up in a file that merge_files wrote has the newer of its two
\* entries, and none if that is a tombstone: what findEntry needs of its file
\* is what merge_files makes.
THEOREM MergedLookup == BothSpec => []LookupNewest
  BY BothBegin, BothStep, LookupRight, PTL DEF BothSpec
=============================================================================
