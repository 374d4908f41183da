----------------------------- MODULE MasterReads -----------------------------
(***************************************************************************)
(* The proof that dbread returns a value its key had while it ran, unless  *)
(* a second adjust overtook it: ScanUndisturbed and ReadsValid are         *)
(* invariants of Master.                                                   *)
(***************************************************************************)
EXTENDS MasterCoherence

\* The file j places older than file r.
Ring(r, j) == (r + NumFiles - j) % NumFiles

\* v is what a read may return for a value the key of t had.
SeenAs(v, w) == v = w \/ (v = None /\ w = Tomb)
Valid(t, v)  == \E w \in window[t] : SeenAs(v, w)

\* No adjust has begun to rewrite a file.
Quiet == \A a \in Adjusters : apc[a] \in {"none", "wait", "copied", "unlock"}

\* What the i-th file of a reader holds for its key: until recent moves, what
\* stands for that file in the store, and the file itself from then on.
ShownTo(t, i) == IF recent = snap[t] THEN InFile(i, key[t])
                                     ELSE filesys[Ring(snap[t], i)][key[t]]

\* From its j-th file on the reader finds a value its key had.
FindsFrom(t, j) ==
  \/ \E i \in j .. NumFiles - 1 :
       /\ ShownTo(t, i) # None /\ Valid(t, ShownTo(t, i))
       /\ \A m \in j .. NumFiles - 1 : m < i => ShownTo(t, m) = None
  \/ (\A i \in j .. NumFiles - 1 : ShownTo(t, i) = None) /\ Valid(t, None)

\* The reader has come to its j-th file.
At(t, j) == IF pc[t] = "scan" THEN j <= NumFiles - 3 /\ pos[t] = Ring(snap[t], j)
                              ELSE j = NumFiles - 2

\* At most one adjust has published under the reader, and no other has begun
\* to rewrite files.
Overlap(t) == \/ recent = snap[t]
              \/ recent = (snap[t] + 1) % NumFiles /\ Quiet

\* What came to memory since the read began, the key had.
FreshMemory(t) ==
  /\ bintree[key[t]] \in window[t] \cup {None}
  /\ reserve # Null => reserve[key[t]] \in window[t] \cup {None}

ReaderOK(t) ==
  /\ Overlap(t)
  /\ FreshMemory(t)
  /\ \E j \in 0 .. NumFiles - 2 : At(t, j) /\ FindsFrom(t, j)

\* A read that has returned has returned such a value.
Answered(t) == pc[t] = "check" /\ key[t] # None => Valid(t, reply[t])

ReadOK(t) == ~lapped[t] => Answered(t) /\ (pc[t] \in Reading => ReaderOK(t))

BloomCovers == \A k \in Keys : store[k] # None => BloomHas(k)
NoKeyYet    == \A t \in Threads : pc[t] = "getline" => key[t] = None

ReadInv == CoherentInv /\ BloomCovers /\ NoKeyYet /\ \A t \in Threads : ReadOK(t)
-----------------------------------------------------------------------------
(* The ring, seen from a reader *)

\* The files a reader visits, in order, end at the two that its last loop
\* reads.
LEMMA Rings ==
  ASSUME NEW r \in Index
  PROVE  /\ Ring(r, 0) = r
         /\ Ring(r, NumFiles - 2) = (r + 2) % NumFiles
         /\ Ring(r, NumFiles - 1) = (r + 1) % NumFiles
         /\ \A j \in 0 .. NumFiles - 1 : Ring(r, j) \in Index
         /\ \A j \in 0 .. NumFiles - 3 :
              /\ Older(Ring(r, j)) = Ring(r, j + 1)
              /\ Ring(r, j) # (r + 1) % NumFiles /\ Ring(r, j) # (r + 2) % NumFiles
         /\ \A j \in 0 .. NumFiles - 3 :
              Ring(r, j + 1) = (r + 2) % NumFiles <=> j = NumFiles - 3
<1>1. /\ (r + 1) % NumFiles = IF r + 1 < NumFiles THEN r + 1 ELSE r + 1 - NumFiles
      /\ (r + 2) % NumFiles = IF r + 2 < NumFiles THEN r + 2 ELSE r + 2 - NumFiles
  BY ModWrap, ConstantsAssumption DEF Index
<1>2. ASSUME NEW j \in 0 .. NumFiles - 1
      PROVE  Ring(r, j) = IF r < j THEN r + NumFiles - j ELSE r - j
  <2>1. r + NumFiles - j \in Nat /\ r + NumFiles - j < 2 * NumFiles
    BY ConstantsAssumption DEF Index
  <2> QED
    BY <2>1, ModWrap, ConstantsAssumption DEF Ring, Index
<1>3. ASSUME NEW i \in Index
      PROVE  Older(i) = IF i = 0 THEN NumFiles - 1 ELSE i - 1
  <2>1. i + NumFiles - 1 \in Nat /\ i + NumFiles - 1 < 2 * NumFiles
    BY ConstantsAssumption DEF Index
  <2> QED
    BY <2>1, ModWrap, ConstantsAssumption DEF Older, Index
<1>4. /\ Ring(r, 0) = r
      /\ Ring(r, NumFiles - 2) = (r + 2) % NumFiles
      /\ Ring(r, NumFiles - 1) = (r + 1) % NumFiles
      /\ \A j \in 0 .. NumFiles - 1 : Ring(r, j) \in Index
  BY <1>1, <1>2, ConstantsAssumption DEF Index
<1>5. ASSUME NEW j \in 0 .. NumFiles - 3
      PROVE  /\ Older(Ring(r, j)) = Ring(r, j + 1)
             /\ Ring(r, j) # (r + 1) % NumFiles /\ Ring(r, j) # (r + 2) % NumFiles
             /\ Ring(r, j + 1) = (r + 2) % NumFiles <=> j = NumFiles - 3
  <2>1. j \in 0 .. NumFiles - 1 /\ j + 1 \in 0 .. NumFiles - 1
    BY ConstantsAssumption
  <2>2. /\ Ring(r, j) = IF r < j THEN r + NumFiles - j ELSE r - j
        /\ Ring(r, j + 1) = IF r < j + 1 THEN r + NumFiles - (j + 1) ELSE r - (j + 1)
        /\ Ring(r, j) \in Index
    BY <1>2, <1>4, <2>1
  <2>3. Older(Ring(r, j)) = IF Ring(r, j) = 0 THEN NumFiles - 1 ELSE Ring(r, j) - 1
    BY <1>3, <2>2
  <2> QED
    BY <1>1, <2>2, <2>3, ConstantsAssumption DEF Index
<1> QED BY <1>4, <1>5

\* Until recent moves, the reader's files are the store's.
LEMMA SameRing ==
  ASSUME NEW t \in Threads, recent = snap[t], NEW j
  PROVE  Slot(j) = Ring(snap[t], j)
  BY DEF Slot, Ring

\* What a reader's files show it is what the layers hold, until recent moves.
LEMMA ShownLayers ==
  ASSUME NEW t \in Threads, recent = snap[t], NEW i \in 0 .. NumFiles - 1
  PROVE  ShownTo(t, i) = Layer(i + 2, key[t])
  BY LayerOfFile DEF ShownTo
-----------------------------------------------------------------------------
(* What keeps a reader's prospects *)

\* A step that shows the reader the same files, and forgets no value its key
\* had, changes nothing for it.
LEMMA ReaderKept ==
  ASSUME NEW t \in Threads, ReaderOK(t),
         UNCHANGED <<pc[t], key[t], snap[t], pos[t]>>,
         window[t] \subseteq window'[t],
         \A i \in 0 .. NumFiles - 1 : ShownTo(t, i)' = ShownTo(t, i),
         Overlap(t)', FreshMemory(t)'
  PROVE  ReaderOK(t)'
<1>1. PICK j \in 0 .. NumFiles - 2 : At(t, j) /\ FindsFrom(t, j)
  BY DEF ReaderOK
<1>2. At(t, j)'
  BY <1>1 DEF At, Ring
<1>3. \A v : (\E w \in window[t] : SeenAs(v, w)) => \E w \in window'[t] : SeenAs(v, w)
  OBVIOUS
<1>4. \A i \in j .. NumFiles - 1 : i \in 0 .. NumFiles - 1
  BY ConstantsAssumption
<1>5. FindsFrom(t, j)'
  <2>1. CASE \E i \in j .. NumFiles - 1 :
                /\ ShownTo(t, i) # None /\ Valid(t, ShownTo(t, i))
                /\ \A m \in j .. NumFiles - 1 : m < i => ShownTo(t, m) = None
    <3>1. PICK i \in j .. NumFiles - 1 :
                /\ ShownTo(t, i) # None /\ Valid(t, ShownTo(t, i))
                /\ \A m \in j .. NumFiles - 1 : m < i => ShownTo(t, m) = None
      BY <2>1
    <3>2. ShownTo(t, i)' # None /\ Valid(t, ShownTo(t, i))'
      BY <1>3, <1>4, <3>1 DEF Valid
    <3>3. \A m \in j .. NumFiles - 1 : m < i => ShownTo(t, m)' = None
      BY <1>4, <3>1
    <3> QED BY <3>2, <3>3 DEF FindsFrom
  <2>2. CASE (\A i \in j .. NumFiles - 1 : ShownTo(t, i) = None) /\ Valid(t, None)
    <3>1. \A i \in j .. NumFiles - 1 : ShownTo(t, i)' = None
      BY <1>4, <2>2
    <3>2. Valid(t, None)'
      BY <1>3, <2>2 DEF Valid
    <3> QED BY <3>1, <3>2 DEF FindsFrom
  <2> QED BY <1>1, <2>1, <2>2 DEF FindsFrom
<1> QED
  BY <1>2, <1>5 DEF ReaderOK

\* A step that leaves alone the files and the stages of adjusts shows every
\* reader the same files.
LEMMA SameShown ==
  ASSUME NEW t \in Threads, UNCHANGED <<key[t], snap[t], recent, filesys, tempfile>>,
         Rewriting' = Rewriting, Absorbed' = Absorbed
  PROVE  \A i \in 0 .. NumFiles - 1 : ShownTo(t, i)' = ShownTo(t, i)
  BY DEF ShownTo, InFile, Slot, Ring
-----------------------------------------------------------------------------
(* Steps of the serve threads *)

\* A swap or a step of another serve thread moves no adjust that has begun.
LEMMA ServeStages ==
  ASSUME TypeAndOwner, NEW u \in Threads, Serve(u)
  PROVE  /\ UNCHANGED <<recent, filesys, tempfile>>
         /\ Rewriting' = Rewriting /\ Absorbed' = Absorbed
         /\ Quiet => Quiet'
<1>1. UNCHANGED <<recent, filesys, tempfile>>
  BY DEF Serve, DbWrite, DbRead, ScanFile, ReadDanger, Check, memory, disk
<1>2. \/ apc' = apc
      \/ \E a \in Adjusters : apc[a] = "none" /\ apc' = [apc EXCEPT ![a] = "wait"]
  BY DEF Serve, DbWrite, DbRead, ScanFile, ReadDanger, Check, memory, disk
<1>3. \A b \in Adjusters : apc'[b] = apc[b] \/ (apc[b] = "none" /\ apc'[b] = "wait")
  BY <1>2 DEF TypeAndOwner, TypeOK
<1> QED
  BY <1>1, <1>3 DEF Rewriting, Absorbed, Quiet

\* What a step of another serve thread does to a reader: it may write to its
\* key, or swap the trees.
LEMMA OtherServe ==
  ASSUME ReadInv, NEW t \in Threads, NEW u \in Threads \ {t}, Serve(u)
  PROVE  ReadOK(t)'
<1> USE DEF ReadInv, CoherentInv
<1>1. /\ UNCHANGED <<pc[t], key[t], snap[t], pos[t], reply[t], lapped[t]>>
      /\ pc[t] \notin Reading => window'[t] = window[t]
      /\ window[t] \subseteq window'[t]
  BY DEF Serve, DbWrite, DbRead, ScanFile, ReadDanger, Check, history,
     TypeAndOwner, TypeOK
<1> SUFFICES ASSUME ~lapped[t] PROVE Answered(t)' /\ (pc[t] \in Reading => ReaderOK(t)')
  BY <1>1 DEF ReadOK
<1>2. ReadOK(t)
  OBVIOUS
<1>3. Answered(t)'
  BY <1>1, <1>2 DEF ReadOK, Answered, Valid, Reading
<1>4. ASSUME pc[t] \in Reading PROVE ReaderOK(t)'
  <2>1. ReaderOK(t)
    BY <1>2, <1>4 DEF ReadOK
  <2>2. \A i \in 0 .. NumFiles - 1 : ShownTo(t, i)' = ShownTo(t, i)
    BY <1>1, ServeStages, SameShown
  <2>3. Overlap(t)'
    BY <1>1, <2>1, ServeStages DEF ReaderOK, Overlap
  <2>4. key[t] \in Keys /\ bintree \in [Keys -> Entry]
    BY <1>4 DEF TypeAndOwner, TypeOK, Contents
  <2>5. FreshMemory(t)'
    <3>1. CASE UNCHANGED <<bintree, reserve>>
      BY <1>1, <2>1, <3>1 DEF ReaderOK, FreshMemory
    <3>2. ASSUME NEW k \in Keys, NEW v \in Vals \cup {Tomb}, DbWrite(u, k, v)
          PROVE  FreshMemory(t)'
      <4>1. /\ reserve' = reserve
            /\ bintree'[key[t]] = IF k = key[t] THEN v ELSE bintree[key[t]]
        BY <2>4, <3>2 DEF DbWrite
      <4>2. k = key[t] => v \in window'[t]
        BY <1>4, <3>2 DEF DbWrite, TypeAndOwner, TypeOK
      <4> QED
        BY <1>1, <2>1, <4>1, <4>2 DEF ReaderOK, FreshMemory
    <3>3. CASE Check(u) /\ TreeFull
      <4>1. bintree' = Empty /\ reserve' = bintree
        BY <3>3 DEF Check
      <4>2. bintree'[key[t]] = None
        BY <2>4, <4>1 DEF Empty
      <4> QED
        BY <1>1, <2>1, <4>1, <4>2 DEF ReaderOK, FreshMemory
    <3> QED
      BY <3>1, <3>2, <3>3
      DEF Serve, DbRead, ScanFile, ReadDanger, Check, memory
  <2> QED
    BY <1>1, <2>1, <2>2, <2>3, <2>5, ReaderKept
<1> QED BY <1>3, <1>4

\* The layers above the files, and the files, tell what a key's value is.
LEMMA CoherentKey ==
  ASSUME CoherentInv, NEW k \in Keys
  PROVE  /\ InMemory(k) # None => InMemory(k) = store[k]
         /\ InMemory(k) = None =>
              \/ \E i \in 0 .. NumFiles - 1 :
                   /\ InFile(i, k) # None /\ InFile(i, k) = store[k]
                   /\ \A m \in 0 .. NumFiles - 1 : m < i => InFile(m, k) = None
              \/ /\ \A i \in 0 .. NumFiles - 1 : InFile(i, k) = None
                 /\ store[k] \in {None, Tomb}
<1>1. CoherentAt(k)
  BY DEF CoherentInv, Coherent, CoherentAt
<1>2. 0 \in Layers /\ 1 \in Layers /\ \A n \in Layers : n = 0 \/ n = 1 \/ n >= 2
  BY ConstantsAssumption DEF Layers
<1>3. /\ Layer(0, k) = bintree[k]
      /\ Layer(1, k) = IF reserve = Null THEN None ELSE reserve[k]
  BY DEF Layer
<1>4. InMemory(k) = IF Layer(0, k) # None THEN Layer(0, k) ELSE Layer(1, k)
  BY <1>3 DEF InMemory
<1>5. ASSUME InMemory(k) # None PROVE InMemory(k) = store[k]
  BY <1>1, <1>2, <1>4, <1>5 DEF CoherentAt, Layers
<1>6. ASSUME InMemory(k) = None
      PROVE  \/ \E i \in 0 .. NumFiles - 1 :
                  /\ InFile(i, k) # None /\ InFile(i, k) = store[k]
                  /\ \A m \in 0 .. NumFiles - 1 : m < i => InFile(m, k) = None
             \/ /\ \A i \in 0 .. NumFiles - 1 : InFile(i, k) = None
                /\ store[k] \in {None, Tomb}
  <2>1. Layer(0, k) = None /\ Layer(1, k) = None
    BY <1>4, <1>6
  <2>2. \A i \in 0 .. NumFiles - 1 : i + 2 \in Layers /\ Layer(i + 2, k) = InFile(i, k)
    BY LayerOfFile
  <2>3. CASE (\A n \in Layers : Layer(n, k) = None) /\ store[k] \in {None, Tomb}
    BY <2>2, <2>3
  <2>4. CASE \E n \in Layers : /\ Layer(n, k) # None /\ Layer(n, k) = store[k]
                              /\ \A m \in Layers : m < n => Layer(m, k) = None
    <3>1. PICK n \in Layers : /\ Layer(n, k) # None /\ Layer(n, k) = store[k]
                             /\ \A m \in Layers : m < n => Layer(m, k) = None
      BY <2>4
    <3>2. n >= 2
      BY <1>2, <2>1, <3>1
    <3>3. n - 2 \in 0 .. NumFiles - 1 /\ Layer(n, k) = InFile(n - 2, k)
      BY <3>2, FileLayers
    <3>4. \A m \in 0 .. NumFiles - 1 : m < n - 2 => m + 2 < n
      BY ConstantsAssumption DEF Layers
    <3>5. \A m \in 0 .. NumFiles - 1 : m < n - 2 => InFile(m, k) = None
      BY <2>2, <3>1, <3>4
    <3> QED BY <3>1, <3>3, <3>5
  <2> QED BY <1>1, <2>3, <2>4 DEF CoherentAt
<1> QED BY <1>5, <1>6

\* The start of a read: what the key's value is then, it will find.
LEMMA DbReadOK ==
  ASSUME ReadInv, NEW t \in Threads, NEW k \in Keys, DbRead(t, k)
  PROVE  ReadOK(t)'
<1> USE DEF ReadInv, CoherentInv
<1>1. /\ key'[t] = k /\ snap'[t] = recent /\ pos'[t] = recent
      /\ window'[t] = {store[k]} /\ recent' = recent /\ recent \in Index
      /\ UNCHANGED <<memory, disk, apc>>
  BY DEF DbRead, TypeAndOwner, TypeOK, memory
<1>2. CASE ~BloomHas(k) \/ InMemory(k) # None
  <2>1. pc'[t] = "check" /\ reply'[t] = IF BloomHas(k) THEN InMemory(k) ELSE None
    BY <1>2 DEF DbRead, TypeAndOwner, TypeOK
  <2>2. reply'[t] = store[k]
    BY <1>2, <2>1, CoherentKey DEF BloomCovers
  <2> QED
    BY <1>1, <2>1, <2>2 DEF ReadOK, Answered, Valid, SeenAs, Reading
<1>3. CASE ~(~BloomHas(k) \/ InMemory(k) # None)
  <2>1. pc'[t] = "scan"
    BY <1>3 DEF DbRead, TypeAndOwner, TypeOK
  <2>2. Overlap(t)'
    BY <1>1 DEF Overlap
  <2>3. FreshMemory(t)'
    BY <1>1, <1>3 DEF FreshMemory, InMemory, memory
  <2>4. \A i \in 0 .. NumFiles - 1 : ShownTo(t, i)' = InFile(i, k)
    BY <1>1 DEF ShownTo, InFile, Slot, Rewriting, Absorbed, disk
  <2>5. FindsFrom(t, 0)'
    <3>1. CASE \E i \in 0 .. NumFiles - 1 :
                 /\ InFile(i, k) # None /\ InFile(i, k) = store[k]
                 /\ \A m \in 0 .. NumFiles - 1 : m < i => InFile(m, k) = None
      BY <1>1, <2>4, <3>1 DEF FindsFrom, Valid, SeenAs
    <3>2. CASE /\ \A i \in 0 .. NumFiles - 1 : InFile(i, k) = None
               /\ store[k] \in {None, Tomb}
      BY <1>1, <2>4, <3>2 DEF FindsFrom, Valid, SeenAs
    <3> QED BY <1>3, <3>1, <3>2, CoherentKey
  <2>6. At(t, 0)'
    BY <1>1, <2>1, Rings, ConstantsAssumption DEF At, Ring
  <2>7. 0 \in 0 .. NumFiles - 2
    BY ConstantsAssumption
  <2> QED
    BY <2>1, <2>2, <2>3, <2>5, <2>6, <2>7 DEF ReadOK, Answered, ReaderOK
<1> QED BY <1>2, <1>3

\* A reader's first loop is never at a file an adjust rewrites: the file shows
\* it what the layer holds.
LEMMA ScanShown ==
  ASSUME NEW t \in Threads, NEW j \in 0 .. NumFiles - 3
  PROVE  ShownTo(t, j) = filesys[Ring(snap[t], j)][key[t]]
<1>1. j # NumFiles - 2 /\ j # NumFiles - 1
  BY ConstantsAssumption
<1> QED
  BY <1>1, SameRing DEF ShownTo, InFile

\* A turn of the first loop finds the value, or passes on to the next file.
LEMMA ScanFileOK ==
  ASSUME ReadInv, NEW t \in Threads, ScanFile(t)
  PROVE  ReadOK(t)'
<1> USE DEF ReadInv, CoherentInv
<1>1. /\ pc[t] = "scan" /\ snap[t] \in Index /\ UNCHANGED <<memory, disk, apc, key, snap>>
      /\ window' = window /\ lapped' = lapped /\ pc[t] \in Reading
  BY DEF ScanFile, TypeAndOwner, TypeOK, history, Reading
<1> SUFFICES ASSUME ~lapped[t] PROVE Answered(t)' /\ (pc'[t] \in Reading => ReaderOK(t)')
  BY <1>1 DEF ReadOK
<1>2. ReaderOK(t)
  BY <1>1 DEF ReadOK
<1>3. PICK j \in 0 .. NumFiles - 2 : At(t, j) /\ FindsFrom(t, j)
  BY <1>2 DEF ReaderOK
<1>4. j \in 0 .. NumFiles - 3 /\ pos[t] = Ring(snap[t], j)
  BY <1>1, <1>3, ConstantsAssumption DEF At
<1>5. ShownTo(t, j) = filesys[pos[t]][key[t]]
  BY <1>4, ScanShown
<1>6. j \in j .. NumFiles - 1 /\ \A m \in j .. NumFiles - 1 : ~(m < j)
  BY <1>4, ConstantsAssumption
<1>7. CASE filesys[pos[t]][key[t]] # None
  <2>1. pc'[t] = "check" /\ reply'[t] = ShownTo(t, j)
    BY <1>5, <1>7 DEF ScanFile, TypeAndOwner, TypeOK
  <2>2. Valid(t, ShownTo(t, j))
    BY <1>3, <1>4, <1>5, <1>6, <1>7 DEF FindsFrom
  <2> QED
    BY <1>1, <2>1, <2>2 DEF Answered, Valid, Reading
<1>8. CASE filesys[pos[t]][key[t]] = None
  <2>1. /\ pos'[t] = Ring(snap[t], j + 1)
        /\ pc'[t] = IF j = NumFiles - 3 THEN "danger" ELSE "scan"
    <3>1. /\ Older(pos[t]) = Ring(snap[t], j + 1)
          /\ Ring(snap[t], j + 1) = ScanEnd(t) <=> j = NumFiles - 3
      BY <1>1, <1>4, Rings DEF ScanEnd
    <3>2. /\ pos'[t] = Older(pos[t])
          /\ pc'[t] = IF Older(pos[t]) = ScanEnd(t) THEN "danger" ELSE "scan"
      BY <1>8 DEF ScanFile, TypeAndOwner, TypeOK
    <3> QED BY <3>1, <3>2
  <2>2. j + 1 \in 0 .. NumFiles - 2 /\ At(t, j + 1)'
    <3>1. j + 1 \in 0 .. NumFiles - 2 /\ (j + 1 = NumFiles - 2 <=> j = NumFiles - 3)
          /\ (j # NumFiles - 3 => j + 1 <= NumFiles - 3)
      BY <1>4, ConstantsAssumption
    <3> QED BY <1>1, <2>1, <3>1 DEF At, Ring
  <2>3. \A i : ShownTo(t, i)' = ShownTo(t, i)
    BY <1>1 DEF ShownTo, InFile, Slot, Rewriting, Absorbed, Ring, memory, disk
  <2>4. \A v : Valid(t, v)' <=> Valid(t, v)
    BY <1>1 DEF Valid
  <2>5. FindsFrom(t, j + 1)'
    <3>1. ShownTo(t, j) = None
      BY <1>5, <1>8
    <3>2. \A i \in j .. NumFiles - 1 : i = j \/ i \in j + 1 .. NumFiles - 1
      BY <1>4
    <3>3. \A i \in j + 1 .. NumFiles - 1 : i \in j .. NumFiles - 1
      BY <1>4
    <3>4. FindsFrom(t, j + 1)
      BY <1>3, <3>1, <3>2, <3>3 DEF FindsFrom
    <3> QED BY <1>1, <2>3, <3>4 DEF FindsFrom, Valid
  <2>6. Overlap(t)' /\ FreshMemory(t)'
    BY <1>1, <1>2 DEF ReaderOK, Overlap, Quiet, FreshMemory, memory
  <2> QED
    BY <2>1, <2>2, <2>5, <2>6 DEF Answered, ReaderOK
<1> QED BY <1>7, <1>8

\* The last loop reads the two oldest files while no adjust works on them.
LEMMA ReadDangerOK ==
  ASSUME ReadInv, NEW t \in Threads, ReadDanger(t)
  PROVE  ReadOK(t)'
<1> USE DEF ReadInv, CoherentInv
<1>1. /\ pc[t] = "danger" /\ snap[t] \in Index /\ key' = key /\ pc[t] \in Reading
      /\ pc'[t] = "check" /\ reply'[t] = InDanger(t)
      /\ window' = window /\ lapped' = lapped
  BY DEF ReadDanger, TypeAndOwner, TypeOK, history, Reading
<1> SUFFICES ASSUME ~lapped[t] PROVE Valid(t, InDanger(t))
  BY <1>1 DEF ReadOK, Answered, Reading, Valid
<1>2. ReaderOK(t)
  BY <1>1 DEF ReadOK
<1>3. FindsFrom(t, NumFiles - 2)
  BY <1>1, <1>2 DEF ReaderOK, At
<1>4. ~Rewriting /\ ~Absorbed
  BY ConstantsAssumption DEF ReadDanger, LockFree, TypeAndOwner, OneAdjust, Working,
     Rewriting, Absorbed
<1>5. /\ NumFiles - 2 \in NumFiles - 2 .. NumFiles - 1
      /\ NumFiles - 1 \in NumFiles - 2 .. NumFiles - 1
      /\ NumFiles - 2 < NumFiles - 1
      /\ \A i \in NumFiles - 2 .. NumFiles - 1 : i = NumFiles - 2 \/ i = NumFiles - 1
      /\ \A i \in NumFiles - 2 .. NumFiles - 1 : ~(i < NumFiles - 2)
  BY ConstantsAssumption
<1>6. /\ ShownTo(t, NumFiles - 2) = filesys[(snap[t] + 2) % NumFiles][key[t]]
      /\ ShownTo(t, NumFiles - 1) = filesys[(snap[t] + 1) % NumFiles][key[t]]
  BY <1>1, <1>4, Rings, SameRing DEF ShownTo, InFile
<1>7. CASE ShownTo(t, NumFiles - 2) # None
  BY <1>3, <1>5, <1>6, <1>7 DEF FindsFrom, InDanger
<1>8. CASE ShownTo(t, NumFiles - 2) = None
  BY <1>3, <1>5, <1>6, <1>8 DEF FindsFrom, InDanger
<1> QED BY <1>7, <1>8

\* A thread that writes, or ends its turn, has no read under way.
LEMMA OwnServe ==
  ASSUME ReadInv, NEW t \in Threads, Serve(t)
  PROVE  ReadOK(t)'
<1>1. ASSUME NEW k \in Keys, NEW v \in Vals \cup {Tomb}, DbWrite(t, k, v)
      PROVE  ReadOK(t)'
  <2>1. pc'[t] = "check" /\ key'[t] = None
    BY <1>1 DEF DbWrite, ReadInv, NoKeyYet, CoherentInv, TypeAndOwner, TypeOK
  <2> QED BY <2>1 DEF ReadOK, Answered, Reading
<1>2. CASE Check(t)
  <2>1. pc'[t] = "getline"
    BY <1>2 DEF Check, ReadInv, CoherentInv, TypeAndOwner, TypeOK
  <2> QED BY <2>1 DEF ReadOK, Answered, Reading
<1> QED
  BY <1>1, <1>2, DbReadOK, ScanFileOK, ReadDangerOK DEF Serve
-----------------------------------------------------------------------------
(* Steps of the adjust threads *)

\* An adjust leaves alone the readers, and the values their keys had.
LEMMA AdjustReaders ==
  ASSUME NEW a \in Adjusters, Adjust(a)
  PROVE  UNCHANGED <<readers, bloom, bintree, store, window>>
  BY DEF Adjust, FileStep, AdjustBegin, AdjustTruncate, MergeFlush, MergeDone,
     AdjustReopen, DumpFlush, AdjustDump, AdjustSync, AdjustPublish, AdjustUnlock,
     memory, history

\* The stage of the other adjusts, when one takes a step.
LEMMA AdjustStages ==
  ASSUME TypeAndOwner, NEW a \in Adjusters, Adjust(a)
  PROVE  /\ \A b \in Adjusters \ {a} : apc'[b] = apc[b]
         /\ ~AdjustUnlock(a) => apc[a] \in Pending
         /\ \/ Quiet /\ (AdjustBegin(a) \/ AdjustTruncate(a) \/ AdjustUnlock(a))
            \/ ~Quiet /\ ~AdjustBegin(a) /\ ~AdjustTruncate(a) /\ ~AdjustUnlock(a)
<1>1. /\ \A b \in Adjusters \ {a} : apc'[b] = apc[b]
      /\ ~AdjustUnlock(a) => apc[a] \in Pending
  BY DEF Adjust, FileStep, AdjustBegin, AdjustTruncate, MergeFlush, MergeDone,
     AdjustReopen, DumpFlush, AdjustDump, AdjustSync, AdjustPublish, AdjustUnlock,
     Stage, Pending, Working, TypeAndOwner, TypeOK
<1>2. CASE AdjustBegin(a) \/ AdjustTruncate(a) \/ AdjustUnlock(a)
  <2>1. apc[a] \in {"wait", "copied", "unlock"}
    BY <1>2 DEF AdjustBegin, AdjustTruncate, AdjustUnlock, Stage
  <2>2. \A b \in Adjusters : apc[b] \notin {"merging", "merged", "dumping", "dumped", "synced"}
    BY <1>2, <2>1, ConstantsAssumption
    DEF TypeAndOwner, OneAdjust, Pending, Working, AdjustBegin, LockFree
  <2>3. Quiet
    BY <2>2 DEF Quiet, TypeAndOwner, TypeOK, Pending, Working
  <2>4. ~(\E m \in Keys \cup {0} : MergeFlush(a, m)) /\ ~MergeDone(a)
    BY <2>1 DEF MergeFlush, MergeDone, Stage
  <2> QED BY <1>1, <1>2, <2>3
<1>3. CASE ~AdjustBegin(a) /\ ~AdjustTruncate(a) /\ ~AdjustUnlock(a)
  <2>1. apc[a] \in {"merging", "merged", "dumping", "dumped", "synced"}
    BY <1>3 DEF Adjust, FileStep, MergeFlush, MergeDone, AdjustReopen, DumpFlush,
       AdjustDump, AdjustSync, AdjustPublish, Stage
  <2> QED BY <1>1, <1>3, <2>1 DEF Quiet
<1> QED BY <1>2, <1>3

\* A step that changes no layer changes nothing for a reader: what the adjust
\* rewrites has a copy, or counts for nothing, until recent moves; and after
\* that no adjust writes files without overtaking the reader.
LEMMA QuietReader ==
  ASSUME ReadInv, NEW t \in Threads, pc[t] \in Reading, ReaderOK(t), ~lapped'[t],
         NEW a \in Adjusters, Adjust(a), ~MergeDone(a), ~AdjustPublish(a)
  PROVE  ReaderOK(t)'
<1> USE DEF ReadInv, CoherentInv
<1>1. /\ UNCHANGED <<pc[t], key[t], snap[t], pos[t]>> /\ window' = window
      /\ UNCHANGED memory /\ key[t] \in Keys
      /\ \A n \in Layers, k \in Keys : Layer(n, k)' = Layer(n, k)
  BY AdjustReaders, AdjustFiles, QuietLayers DEF readers, TypeAndOwner, TypeOK
<1>2. FreshMemory(t)'
  BY <1>1 DEF ReaderOK, FreshMemory, memory
<1>3. CASE recent = snap[t]
  <2>1. \A i \in 0 .. NumFiles - 1 : ShownTo(t, i)' = ShownTo(t, i)
    BY <1>1, <1>3, LayerOfFile DEF ShownTo, memory
  <2>2. Overlap(t)'
    BY <1>1, <1>3 DEF Overlap, memory
  <2> QED BY <1>1, <1>2, <2>1, <2>2, ReaderKept
<1>4. CASE recent # snap[t]
  <2>1. recent = (snap[t] + 1) % NumFiles /\ Quiet
    BY <1>4 DEF ReaderOK, Overlap
  <2>2. ~AdjustTruncate(a)
    BY <1>4 DEF AdjustTruncate, TypeAndOwner, TypeOK
  <2>3. AdjustBegin(a) \/ AdjustUnlock(a)
    BY <2>1, <2>2, AdjustStages
  <2>4. filesys' = filesys /\ apc'[a] \in {"copied", "none"}
    BY <2>3 DEF AdjustBegin, AdjustUnlock, Stage, disk, TypeAndOwner, TypeOK
  <2>5. Quiet'
    BY <2>1, <2>4, AdjustStages DEF Quiet
  <2>6. \A i \in 0 .. NumFiles - 1 : ShownTo(t, i)' = ShownTo(t, i)
    BY <1>1, <1>4, <2>4 DEF ShownTo, Ring, memory
  <2>7. Overlap(t)'
    BY <1>1, <2>1, <2>5 DEF Overlap, memory
  <2> QED BY <1>1, <1>2, <2>6, <2>7, ReaderKept
<1> QED BY <1>3, <1>4

\* The end of the merge gives a reader the same value, or nothing in the place
\* of a tombstone.
LEMMA MergeReader ==
  ASSUME ReadInv, NEW t \in Threads, pc[t] \in Reading, ReaderOK(t),
         NEW a \in Adjusters, MergeDone(a)
  PROVE  ReaderOK(t)'
<1> USE DEF ReadInv, CoherentInv
<1>0. Adjust(a)
  BY DEF Adjust, FileStep
<1>1. /\ UNCHANGED <<pc[t], key[t], snap[t], pos[t]>> /\ window' = window
      /\ UNCHANGED memory /\ key[t] \in Keys
  BY <1>0, AdjustReaders, MergeLayers DEF readers, TypeAndOwner, TypeOK
<1>2. recent = snap[t]
  BY DEF ReaderOK, Overlap, Quiet, MergeDone, Stage
<1>3. Overlap(t)' /\ FreshMemory(t)'
  BY <1>1, <1>2 DEF ReaderOK, Overlap, FreshMemory, memory
<1>4. \A i \in 0 .. NumFiles - 1 :
        /\ ShownTo(t, i) = Layer(i + 2, key[t])
        /\ ShownTo(t, i)' = Layer(i + 2, key[t])'
        /\ i + 2 \in Layers
  BY <1>1, <1>2, LayerOfFile DEF ShownTo, memory
<1>5. /\ NumFiles - 2 \in 0 .. NumFiles - 1 /\ NumFiles - 1 \in 0 .. NumFiles - 1
      /\ NumFiles - 2 + 2 = NumFiles /\ NumFiles - 1 + 2 = NumFiles + 1
      /\ NumFiles - 2 < NumFiles - 1
      /\ \A i \in 0 .. NumFiles - 1 :
           i = NumFiles - 2 \/ i = NumFiles - 1 \/ (i + 2 < NumFiles /\ i < NumFiles - 2)
  BY ConstantsAssumption
<1> DEFINE second == ShownTo(t, NumFiles - 2)
           oldest == ShownTo(t, NumFiles - 1)
           newer  == IF second # None THEN second ELSE oldest
<1>6. /\ ShownTo(t, NumFiles - 2)' = IF newer = Tomb THEN None ELSE newer
      /\ ShownTo(t, NumFiles - 1)' = None
  <2>1. /\ second = Layer(NumFiles, key[t]) /\ oldest = Layer(NumFiles + 1, key[t])
        /\ ShownTo(t, NumFiles - 2)' = Layer(NumFiles, key[t])'
        /\ ShownTo(t, NumFiles - 1)' = Layer(NumFiles + 1, key[t])'
    BY <1>4, <1>5
  <2> QED BY <1>1, <2>1, MergeLayers
<1>7. \A i \in 0 .. NumFiles - 3 : ShownTo(t, i)' = ShownTo(t, i)
  <2>1. \A i \in 0 .. NumFiles - 3 : i \in 0 .. NumFiles - 1 /\ i + 2 < NumFiles
    BY ConstantsAssumption
  <2> QED BY <1>1, <1>4, <2>1, MergeLayers
<1>8. PICK j \in 0 .. NumFiles - 2 : At(t, j) /\ FindsFrom(t, j)
  BY DEF ReaderOK
<1>9. At(t, j)'
  BY <1>1, <1>8 DEF At, Ring
<1>10. FindsFrom(t, j)'
  <2>0. \A v : Valid(t, v) => \E w \in window'[t] : SeenAs(v, w)
    BY <1>1 DEF Valid
  <2>1. \A i \in j .. NumFiles - 1 : i = NumFiles - 2 \/ i = NumFiles - 1 \/ i \in 0 .. NumFiles - 3
    BY ConstantsAssumption
  <2>2. /\ NumFiles - 2 \in j .. NumFiles - 1 /\ NumFiles - 1 \in j .. NumFiles - 1
        /\ NumFiles - 2 < NumFiles - 1
        /\ \A i \in 0 .. NumFiles - 3 : i < NumFiles - 2 /\ i < NumFiles - 1
        /\ ~(NumFiles - 1 < NumFiles - 2)
    BY ConstantsAssumption
  <2>3. CASE \E i \in j .. NumFiles - 1 : i \in 0 .. NumFiles - 3 /\ ShownTo(t, i) # None
    <3>1. PICK i \in j .. NumFiles - 1 :
                /\ ShownTo(t, i) # None /\ Valid(t, ShownTo(t, i))
                /\ \A m \in j .. NumFiles - 1 : m < i => ShownTo(t, m) = None
      BY <1>8, <2>3 DEF FindsFrom
    <3>2. i \in 0 .. NumFiles - 3
      BY <2>1, <2>2, <2>3, <3>1
    <3>3. ShownTo(t, i)' # None /\ Valid(t, ShownTo(t, i))'
      BY <1>7, <2>0, <3>1, <3>2 DEF Valid
    <3>4. \A m \in j .. NumFiles - 1 : m < i => m \in 0 .. NumFiles - 3
      BY <3>2, ConstantsAssumption
    <3>5. \A m \in j .. NumFiles - 1 : m < i => ShownTo(t, m)' = None
      BY <1>7, <3>1, <3>4
    <3> QED BY <3>3, <3>5 DEF FindsFrom
  <2>4. CASE \A i \in j .. NumFiles - 1 : i \in 0 .. NumFiles - 3 => ShownTo(t, i) = None
    <3>1. Valid(t, newer)
      BY <1>8, <2>1, <2>2, <2>4 DEF FindsFrom
    <3>2. newer = Tomb => Valid(t, None)
      BY <3>1, EntriesAssumption DEF Valid, SeenAs
    <3>3. Valid(t, ShownTo(t, NumFiles - 2))'
      BY <1>6, <2>0, <3>1, <3>2 DEF Valid
    <3>4. \A m \in j .. NumFiles - 1 : m < NumFiles - 2 => ShownTo(t, m)' = None
      BY <1>7, <2>1, <2>4, ConstantsAssumption
    <3>5. CASE ShownTo(t, NumFiles - 2)' # None
      BY <2>2, <3>3, <3>4, <3>5 DEF FindsFrom
    <3>6. CASE ShownTo(t, NumFiles - 2)' = None
      <4>1. \A i \in j .. NumFiles - 1 : ShownTo(t, i)' = None
        BY <1>6, <1>7, <2>1, <2>4, <3>6
      <4>2. Valid(t, None)'
        BY <3>3, <3>6 DEF Valid
      <4> QED BY <4>1, <4>2 DEF FindsFrom
    <3> QED BY <3>5, <3>6
  <2> QED BY <2>3, <2>4
<1> QED BY <1>3, <1>9, <1>10 DEF ReaderOK

\* The publication moves recent under the reader: the files are the same, but
\* the oldest now holds the tree, and what came into that tree for the key
\* since the read began, the key had.
LEMMA PublishReader ==
  ASSUME ReadInv, NEW t \in Threads, pc[t] \in Reading, ReaderOK(t),
         NEW a \in Adjusters, AdjustPublish(a)
  PROVE  ReaderOK(t)'
<1> USE DEF ReadInv, CoherentInv
<1>0. Adjust(a)
  BY DEF Adjust
<1>1. /\ UNCHANGED <<pc[t], key[t], snap[t], pos[t]>> /\ window' = window
      /\ key[t] \in Keys /\ snap[t] \in Index /\ bintree' = bintree
      /\ filesys' = filesys /\ reserve' = Null /\ recent' = (recent + 1) % NumFiles
      /\ apc[a] = "synced" /\ apc'[a] = "unlock"
  BY <1>0, AdjustReaders DEF readers, TypeAndOwner, TypeOK, AdjustPublish, Stage
<1>2. recent = snap[t]
  BY <1>1 DEF ReaderOK, Overlap, Quiet
<1>3. recent' # snap[t]
  <2>1. snap[t] + 1 \in Nat /\ snap[t] + 1 < 2 * NumFiles
    BY <1>1, ConstantsAssumption DEF Index
  <2> QED BY <1>1, <1>2, <2>1, ModWrap, ConstantsAssumption DEF Index
<1>4. Quiet'
  <2>1. \A b \in Adjusters \ {a} : apc'[b] \in {"none", "unlock"}
    BY <1>0, <1>1, AdjustStages DEF TypeAndOwner, OneAdjust, Pending, Working
  <2> QED BY <1>1, <2>1 DEF Quiet
<1>5. Overlap(t)' /\ FreshMemory(t)'
  BY <1>1, <1>2, <1>4 DEF ReaderOK, Overlap, FreshMemory
<1>6. ~Rewriting /\ Absorbed
  BY <1>1 DEF TypeAndOwner, OneAdjust, Pending, Working, Rewriting, Absorbed
<1>7. reserve # Null /\ filesys[(snap[t] + 1) % NumFiles] = reserve
  BY <1>1, <1>2, ConstantsAssumption, WorkingReserve
  DEF Working, StageContent, Contents, Entry, Oldest
<1>8. ASSUME NEW i \in 0 .. NumFiles - 2
      PROVE  ShownTo(t, i)' = ShownTo(t, i)
  <2>1. i # NumFiles - 1
    BY ConstantsAssumption
  <2>2. ShownTo(t, i) = filesys[Ring(snap[t], i)][key[t]]
    BY <1>2, <1>6, <2>1, SameRing DEF ShownTo, InFile
  <2> QED BY <1>1, <1>3, <2>2 DEF ShownTo, Ring
<1>9. /\ ShownTo(t, NumFiles - 1) = None
      /\ ShownTo(t, NumFiles - 1)' = reserve[key[t]]
  <2>1. NumFiles - 1 # NumFiles - 2
    BY ConstantsAssumption
  <2>2. ShownTo(t, NumFiles - 1) = None
    BY <1>2, <1>6, <2>1 DEF ShownTo, InFile
  <2>3. ShownTo(t, NumFiles - 1)' = filesys[Ring(snap[t], NumFiles - 1)][key[t]]
    BY <1>1, <1>3 DEF ShownTo, Ring
  <2> QED BY <1>1, <1>7, <2>2, <2>3, Rings
<1>10. PICK j \in 0 .. NumFiles - 2 : At(t, j) /\ FindsFrom(t, j)
  BY DEF ReaderOK
<1>11. At(t, j)'
  BY <1>1, <1>10 DEF At, Ring
<1>12. FindsFrom(t, j)'
  <2>1. \A i \in j .. NumFiles - 1 :
          i = NumFiles - 1 \/ (i \in 0 .. NumFiles - 2 /\ i < NumFiles - 1)
    BY ConstantsAssumption
  <2>2. NumFiles - 1 \in j .. NumFiles - 1
    BY ConstantsAssumption
  <2>3. \A v : Valid(t, v) => \E w \in window'[t] : SeenAs(v, w)
    BY <1>1 DEF Valid
  <2>4. CASE \E i \in j .. NumFiles - 1 :
               /\ ShownTo(t, i) # None /\ Valid(t, ShownTo(t, i))
               /\ \A m \in j .. NumFiles - 1 : m < i => ShownTo(t, m) = None
    <3>1. PICK i \in j .. NumFiles - 1 :
                /\ ShownTo(t, i) # None /\ Valid(t, ShownTo(t, i))
                /\ \A m \in j .. NumFiles - 1 : m < i => ShownTo(t, m) = None
      BY <2>4
    <3>2. i \in 0 .. NumFiles - 2
      BY <1>9, <2>1, <3>1
    <3>3. \A m \in j .. NumFiles - 1 : m < i => m \in 0 .. NumFiles - 2
      BY <3>2, ConstantsAssumption
    <3>4. ShownTo(t, i)' # None /\ Valid(t, ShownTo(t, i))'
      BY <1>8, <2>3, <3>1, <3>2 DEF Valid
    <3>5. \A m \in j .. NumFiles - 1 : m < i => ShownTo(t, m)' = None
      BY <1>8, <3>1, <3>3
    <3> QED BY <3>4, <3>5 DEF FindsFrom
  <2>5. CASE (\A i \in j .. NumFiles - 1 : ShownTo(t, i) = None) /\ Valid(t, None)
    <3>1. \A i \in j .. NumFiles - 1 : i < NumFiles - 1 => ShownTo(t, i)' = None
      BY <1>8, <2>1, <2>5
    <3>2. CASE reserve[key[t]] = None
      <4>1. \A i \in j .. NumFiles - 1 : ShownTo(t, i)' = None
        BY <1>9, <2>1, <3>1, <3>2
      <4> QED BY <2>3, <2>5, <4>1 DEF FindsFrom, Valid
    <3>3. CASE reserve[key[t]] # None
      <4>1. reserve[key[t]] \in window[t]
        BY <1>7, <3>3 DEF ReaderOK, FreshMemory
      <4>2. Valid(t, ShownTo(t, NumFiles - 1))'
        BY <1>1, <1>9, <4>1 DEF Valid, SeenAs
      <4> QED BY <1>9, <2>2, <3>1, <3>3, <4>2 DEF FindsFrom
    <3> QED BY <3>2, <3>3
  <2> QED BY <1>10, <2>4, <2>5 DEF FindsFrom
<1> QED BY <1>5, <1>11, <1>12 DEF ReaderOK

\* Every step of an adjust keeps the reads.
LEMMA AdjustReads ==
  ASSUME ReadInv, NEW t \in Threads, NEW a \in Adjusters, Adjust(a)
  PROVE  ReadOK(t)'
<1>1. UNCHANGED <<pc, key, reply, window>>
  BY AdjustReaders DEF readers
<1> SUFFICES ASSUME ~lapped'[t] PROVE Answered(t)' /\ (pc[t] \in Reading => ReaderOK(t)')
  BY <1>1 DEF ReadOK
<1>2. ~lapped[t]
  BY DEF Adjust, FileStep, AdjustBegin, AdjustTruncate, MergeFlush, MergeDone,
     AdjustReopen, DumpFlush, AdjustDump, AdjustSync, AdjustPublish, AdjustUnlock,
     history, ReadInv, CoherentInv, TypeAndOwner, TypeOK
<1>3. ReadOK(t)
  BY DEF ReadInv
<1>4. Answered(t)'
  BY <1>1, <1>2, <1>3 DEF ReadOK, Answered, Valid
<1>5. pc[t] \in Reading => ReaderOK(t)'
  BY <1>2, <1>3, QuietReader, MergeReader, PublishReader DEF ReadOK
<1> QED BY <1>4, <1>5
-----------------------------------------------------------------------------
(* The invariant *)

\* The filter knows every key that was written.
LEMMA BloomStep ==
  ASSUME ReadInv, [Next]_vars PROVE BloomCovers'
<1> USE DEF ReadInv, CoherentInv
<1>1. CASE UNCHANGED <<bloom, store>>
  BY <1>1 DEF BloomCovers, BloomHas
<1>2. ASSUME NEW t \in Threads, NEW k \in Keys, NEW v \in Vals \cup {Tomb},
             DbWrite(t, k, v)
      PROVE  BloomCovers'
  <2>1. bloom' = bloom \cup Hash[k] /\ \A l \in Keys \ {k} : store'[l] = store[l]
    BY <1>2 DEF DbWrite, TypeAndOwner, TypeOK, Contents
  <2> QED BY <2>1 DEF BloomCovers, BloomHas
<1>3. ASSUME NEW a \in Adjusters, Adjust(a) PROVE BloomCovers'
  BY <1>1, <1>3, AdjustReaders
<1> QED
  BY <1>1, <1>2, <1>3
  DEF Next, Serve, DbRead, ScanFile, ReadDanger, Check, memory, history, vars

\* Between two turns of its loop a thread has no key.
LEMMA KeyStep ==
  ASSUME ReadInv, [Next]_vars PROVE NoKeyYet'
<1> USE DEF ReadInv, CoherentInv
<1>1. ASSUME NEW t \in Threads, Serve(t) PROVE NoKeyYet'
  BY <1>1 DEF Serve, DbWrite, DbRead, ScanFile, ReadDanger, Check, NoKeyYet,
     TypeAndOwner, TypeOK
<1>2. ASSUME NEW a \in Adjusters, Adjust(a) PROVE NoKeyYet'
  BY <1>2, AdjustReaders DEF NoKeyYet, readers
<1>3. CASE UNCHANGED vars
  BY <1>3 DEF vars, readers, NoKeyYet
<1> QED BY <1>1, <1>2, <1>3 DEF Next

\* Every step preserves the invariant of the reads.
LEMMA ReadStep ==
  ASSUME ReadInv, [Next]_vars PROVE ReadInv'
<1>1. CoherentInv'
  BY StepTypeAndOwner, StageStep, CoherentStep DEF ReadInv, CoherentInv
<1>2. ASSUME NEW t \in Threads PROVE ReadOK(t)'
  <2>1. ASSUME NEW u \in Threads, Serve(u) PROVE ReadOK(t)'
    BY <2>1, OtherServe, OwnServe
  <2>2. ASSUME NEW a \in Adjusters, Adjust(a) PROVE ReadOK(t)'
    BY <2>2, AdjustReads
  <2>3. CASE UNCHANGED vars
    <3>1. /\ UNCHANGED <<memory, disk, apc, readers, window, lapped>>
      BY <2>3 DEF vars, history
    <3>2. ReadOK(t)
      BY DEF ReadInv
    <3> QED
      BY <3>1, <3>2 DEF ReadOK, Answered, Valid, ReaderOK, Overlap, Quiet,
         FreshMemory, At, FindsFrom, ShownTo, InFile, Slot, Rewriting, Absorbed,
         Ring, readers, memory, disk
  <2> QED BY <2>1, <2>2, <2>3 DEF Next
<1> QED BY <1>1, <1>2, BloomStep, KeyStep DEF ReadInv

\* At the start nothing has been written and nobody reads.
LEMMA InitReads == Init => ReadInv
  BY InitCoherent DEF Init, ReadInv, BloomCovers, NoKeyYet, ReadOK, Answered, Reading

\* dbread's first loop, which takes no lock, is never at a file that an adjust
\* is rewriting, unless a second adjust has overtaken the read.
THEOREM ScanSafe == Spec => []ScanUndisturbed
<1>1. ASSUME ReadInv PROVE ScanUndisturbed
  <2> SUFFICES ASSUME NEW t \in Threads, pc[t] = "scan", ~lapped[t]
               PROVE  /\ pos[t] = Oldest => ~Absorbed
                      /\ pos[t] = SecondOldest => ~Rewriting
    BY DEF ScanUndisturbed
  <2>1. ReaderOK(t) /\ snap[t] \in Index
    BY <1>1 DEF ReadInv, ReadOK, Reading, CoherentInv, TypeAndOwner, TypeOK
  <2>2. PICK j \in 0 .. NumFiles - 2 : At(t, j)
    BY <2>1 DEF ReaderOK
  <2>3. j \in 0 .. NumFiles - 3 /\ pos[t] = Ring(snap[t], j)
    BY <2>2, ConstantsAssumption DEF At
  <2>4. CASE recent = snap[t]
    BY <2>1, <2>3, <2>4, Rings DEF Oldest, SecondOldest
  <2>5. CASE Quiet
    BY <2>5 DEF Quiet, Absorbed, Rewriting
  <2> QED BY <2>1, <2>4, <2>5 DEF ReaderOK, Overlap
<1> QED BY InitReads, ReadStep, <1>1, PTL DEF Spec

\* A read that at most one adjust overlapped returns a value its key had while
\* it ran.
THEOREM ReadsReturnValues == Spec => []ReadsValid
<1>1. ASSUME ReadInv PROVE ReadsValid
  <2> SUFFICES ASSUME NEW t \in Threads, ReturnedRead(t), ~lapped[t]
               PROVE  reply[t] \in UNION {KV!Seen(w) : w \in window[t]}
    BY DEF ReadsValid
  <2>1. Valid(t, reply[t])
    BY <1>1 DEF ReadInv, ReadOK, Answered, ReturnedRead
  <2> QED BY <2>1 DEF Valid, SeenAs, KV!Seen
<1> QED BY InitReads, ReadStep, <1>1, PTL DEF Spec
-----------------------------------------------------------------------------
(* One serve thread: the store is linearizable *)

\* With one serve thread nobody retires a tree under a read: once the adjust it
\* met has published, no other comes, and the read is not overtaken.
SoloInv ==
  /\ ReadInv
  /\ \A t \in Threads :
       /\ ~lapped[t]
       /\ pc[t] \in Reading /\ recent # snap[t] =>
            \A a \in Adjusters : apc[a] \in {"none", "unlock"}
       /\ pc[t] # "check" => reply[t] = None

\* At the start the one thread has no read and no reply.
LEMMA InitSolo == Init => SoloInv
  BY InitReads DEF Init, SoloInv, Reading

\* Steps of the one thread.
LEMMA SoloServe ==
  ASSUME SoloInv, NEW u, Threads = {u}, Serve(u), ReadInv' PROVE SoloInv'
<1> USE DEF SoloInv, ReadInv, CoherentInv, TypeAndOwner, TypeOK
<1>1. CASE \E k \in Keys, v \in Vals \cup {Tomb} : DbWrite(u, k, v)
  BY <1>1 DEF DbWrite, Reading
<1>2. CASE \E k \in Keys : DbRead(u, k)
  BY <1>2 DEF DbRead, memory, Reading
<1>3. CASE ScanFile(u)
  BY <1>3 DEF ScanFile, memory, history, Reading
<1>4. CASE ReadDanger(u)
  BY <1>4 DEF ReadDanger, memory, history, Reading
<1>5. CASE Check(u)
  BY <1>5 DEF Check, Reading
<1> QED BY <1>1, <1>2, <1>3, <1>4, <1>5 DEF Serve

\* Steps of an adjust: only the one that is pending can publish.
LEMMA SoloAdjust ==
  ASSUME SoloInv, NEW u, Threads = {u}, NEW a \in Adjusters, Adjust(a), ReadInv'
  PROVE  SoloInv'
<1> USE DEF SoloInv, ReadInv, CoherentInv, TypeAndOwner, TypeOK
<1>1. UNCHANGED <<pc, key, snap, reply>>
  BY AdjustReaders DEF readers
<1>2. CASE AdjustPublish(a)
  <2>1. /\ apc[a] \in Pending /\ apc'[a] = "unlock" /\ lapped' = lapped
        /\ \A b \in Adjusters \ {a} : apc'[b] = apc[b]
    BY <1>2 DEF AdjustPublish, Stage, history, Pending, Working
  <2>2. \A b \in Adjusters : apc'[b] \in {"none", "unlock"}
    BY <2>1 DEF OneAdjust
  <2> QED BY <1>1, <2>1, <2>2
<1>3. CASE AdjustUnlock(a)
  <2>1. /\ apc'[a] = "none" /\ \A b \in Adjusters \ {a} : apc'[b] = apc[b]
        /\ lapped' = lapped /\ recent' = recent
    BY <1>3 DEF AdjustUnlock, Stage, history, memory
  <2> QED BY <1>1, <2>1
<1>4. CASE ~AdjustPublish(a) /\ ~AdjustUnlock(a)
  <2>1. apc[a] \in Pending /\ recent' = recent
    BY <1>4, AdjustStages DEF Adjust, FileStep, AdjustBegin, AdjustTruncate,
       MergeFlush, MergeDone, AdjustReopen, DumpFlush, AdjustDump, AdjustSync, memory
  <2>2. ~(pc[u] \in Reading /\ recent # snap[u])
    BY <2>1 DEF Pending, Working
  <2>3. ~lapped'[u]
    BY <1>4, <2>2 DEF Adjust, FileStep, AdjustBegin, AdjustTruncate,
       MergeFlush, MergeDone, AdjustReopen, DumpFlush, AdjustDump, AdjustSync, history
  <2> QED BY <1>1, <2>1, <2>2, <2>3
<1> QED BY <1>2, <1>3, <1>4

\* So the one thread's reads are never overtaken.
LEMMA SoloStep ==
  ASSUME SoloInv, NEW u, Threads = {u}, [Next]_vars PROVE SoloInv'
<1>1. ReadInv'
  BY ReadStep DEF SoloInv
<1>2. CASE UNCHANGED vars
  BY <1>1, <1>2 DEF SoloInv, vars, readers, history, memory
<1> QED
  BY <1>1, <1>2, SoloServe, SoloAdjust DEF Next

\* The state of the promise, as Master maps it.
Status == [t \in Threads |-> CASE pc[t] = "getline" -> "idle"
                               [] pc[t] = "check"   -> "answered"
                               [] OTHER             -> "asked"]
Asked  == [t \in Threads |-> IF pc[t] \in Reading THEN key[t] ELSE None]
Heard  == [t \in Threads |-> IF pc[t] \in Reading THEN window[t] ELSE {}]

\* With one thread, what holds of it holds of all.
LEMMA OneValue ==
  ASSUME NEW u, NEW f, NEW g, NEW x, f = [t \in {u} |-> f[u]], g = [t \in {u} |-> g[u]]
  PROVE  /\ g[u] = x => g = [f EXCEPT ![u] = x]
         /\ g[u] = f[u] => g = f
<1>1. ASSUME g[u] = x PROVE g = [f EXCEPT ![u] = x]
  <2>1. [f EXCEPT ![u] = x] = [t \in {u} |-> x]
    OBVIOUS
  <2>2. g = [t \in {u} |-> x]
    BY <1>1
  <2> QED BY <2>1, <2>2
<1>2. ASSUME g[u] = f[u] PROVE g = f
  <2>1. [t \in {u} |-> g[u]] = [t \in {u} |-> f[u]]
    BY <1>2
  <2> QED BY <2>1
<1> QED BY <1>1, <1>2

\* What the one thread is to the promise, by the stage of its loop.
LEMMA Mapped ==
  ASSUME NEW u, Threads = {u}
  PROVE  /\ Status = [t \in {u} |-> Status[u]] /\ Asked = [t \in {u} |-> Asked[u]]
         /\ Heard = [t \in {u} |-> Heard[u]]
         /\ pc[u] = "getline" => Status[u] = "idle"
         /\ pc[u] = "check" => Status[u] = "answered"
         /\ pc[u] \in Reading => /\ Status[u] = "asked" /\ Asked[u] = key[u]
                                 /\ Heard[u] = window[u]
         /\ pc[u] \notin Reading => Asked[u] = None /\ Heard[u] = {}
  BY DEF Status, Asked, Heard, Reading

\* The same for the next state.
LEMMA MappedNext ==
  ASSUME NEW u, Threads = {u}
  PROVE  /\ Status' = [t \in {u} |-> Status'[u]] /\ Asked' = [t \in {u} |-> Asked'[u]]
         /\ Heard' = [t \in {u} |-> Heard'[u]]
         /\ pc'[u] = "getline" => Status'[u] = "idle"
         /\ pc'[u] = "check" => Status'[u] = "answered"
         /\ pc'[u] \in Reading => /\ Status'[u] = "asked" /\ Asked'[u] = key'[u]
                                  /\ Heard'[u] = window'[u]
         /\ pc'[u] \notin Reading => Asked'[u] = None /\ Heard'[u] = {}
  BY DEF Status, Asked, Heard, Reading

\* The steps of the promise, over that state.
LEMMA PromiseSteps ==
  ASSUME NEW c, NEW k, NEW v
  PROVE  /\ KV!Return(c, v) <=> /\ Status' = [Status EXCEPT ![c] = "answered"]
                                /\ reply' = [reply EXCEPT ![c] = v]
         /\ KV!Get(c, k) <=>
              /\ Status[c] = "idle" /\ \E w \in KV!Seen(store[k]) : KV!Return(c, w)
              /\ store' = store /\ Asked' = Asked /\ Heard' = Heard
         /\ KV!Ask(c, k) <=>
              /\ Status[c] = "idle" /\ Status' = [Status EXCEPT ![c] = "asked"]
              /\ Asked' = [Asked EXCEPT ![c] = k]
              /\ Heard' = [Heard EXCEPT ![c] = {store[k]}]
              /\ store' = store /\ reply' = reply
         /\ KV!Answer(c) <=>
              /\ Status[c] = "asked"
              /\ \E w \in Heard[c] : \E x \in KV!Seen(w) : KV!Return(c, x)
              /\ Asked' = [Asked EXCEPT ![c] = None]
              /\ Heard' = [Heard EXCEPT ![c] = {}] /\ store' = store
         /\ KV!Done(c) <=>
              /\ Status[c] = "answered" /\ Status' = [Status EXCEPT ![c] = "idle"]
              /\ reply' = [reply EXCEPT ![c] = None]
              /\ store' = store /\ Asked' = Asked /\ Heard' = Heard
         /\ UNCHANGED KV!kvars <=>
              UNCHANGED <<store, Status, Asked, Heard, reply>>
<1>1. KV!Return(c, v) <=> /\ Status' = [Status EXCEPT ![c] = "answered"]
                          /\ reply' = [reply EXCEPT ![c] = v]
  BY Zenon DEF KV!Return, Status
<1>2. KV!Get(c, k) <=>
        /\ Status[c] = "idle" /\ \E w \in KV!Seen(store[k]) : KV!Return(c, w)
        /\ store' = store /\ Asked' = Asked /\ Heard' = Heard
  BY Zenon DEF KV!Get, Status, Asked, Heard
<1>3. KV!Ask(c, k) <=>
        /\ Status[c] = "idle" /\ Status' = [Status EXCEPT ![c] = "asked"]
        /\ Asked' = [Asked EXCEPT ![c] = k]
        /\ Heard' = [Heard EXCEPT ![c] = {store[k]}]
        /\ store' = store /\ reply' = reply
  BY Zenon DEF KV!Ask, Status, Asked, Heard
<1>4. KV!Answer(c) <=>
        /\ Status[c] = "asked"
        /\ \E w \in Heard[c] : \E x \in KV!Seen(w) : KV!Return(c, x)
        /\ Asked' = [Asked EXCEPT ![c] = None]
        /\ Heard' = [Heard EXCEPT ![c] = {}] /\ store' = store
  BY Zenon DEF KV!Answer, Status, Asked, Heard
<1>5. KV!Done(c) <=>
        /\ Status[c] = "answered" /\ Status' = [Status EXCEPT ![c] = "idle"]
        /\ reply' = [reply EXCEPT ![c] = None]
        /\ store' = store /\ Asked' = Asked /\ Heard' = Heard
  BY Zenon DEF KV!Done, Status, Asked, Heard
<1>6. UNCHANGED KV!kvars <=> UNCHANGED <<store, Status, Asked, Heard, reply>>
  BY Zenon DEF KV!kvars, Status, Asked, Heard
<1> QED BY <1>1, <1>2, <1>3, <1>4, <1>5, <1>6

\* A write, by its parts.
LEMMA PutStep ==
  ASSUME NEW c, NEW k, NEW v, Status[c] = "idle", store' = [store EXCEPT ![k] = v],
         Heard' = [d \in Threads |-> IF Asked[d] = k THEN Heard[d] \cup {v} ELSE Heard[d]],
         KV!Return(c, None), Asked' = Asked
  PROVE  KV!Put(c, k, v)
  BY Zenon DEF KV!Put, Status, Asked, Heard

\* The initial state is one of the promise.
LEMMA InitPromise == Init => KV!Init
  BY DEF Init, KV!Init, Reading

\* A reply the key had while it was asked is one the promise allows.
LEMMA ValidSeen ==
  ASSUME NEW w, NEW v, SeenAs(v, w) PROVE v \in KV!Seen(w)
  BY DEF SeenAs, KV!Seen

\* The end of a read that looked into files.
LEMMA AnswerPromise ==
  ASSUME SoloInv, SoloInv', NEW u, Threads = {u}, pc[u] \in Reading, pc'[u] = "check",
         UNCHANGED <<key, store, window>>
  PROVE  KV!Answer(u)
<1>1. Valid(u, reply[u])'
  <2>1. (pc[u] = "check" /\ key[u] # None /\ ReadOK(u) /\ ~lapped[u])'
    BY EntriesAssumption DEF SoloInv, ReadInv, CoherentInv, TypeAndOwner, TypeOK
  <2> QED BY <2>1 DEF ReadOK, Answered
<1>2. PICK w, x : w \in window[u] /\ x \in KV!Seen(w) /\ reply'[u] = x
  BY <1>1, ValidSeen DEF Valid
<1>3. /\ Status[u] = "asked" /\ Heard[u] = window[u] /\ Status'[u] = "answered"
      /\ Asked'[u] = None /\ Heard'[u] = {}
  BY Mapped, MappedNext DEF Reading
<1>4. reply' = [reply EXCEPT ![u] = x]
  <2>1. reply = [t \in {u} |-> reply[u]] /\ reply' = [t \in {u} |-> reply'[u]]
    BY DEF SoloInv, ReadInv, CoherentInv, TypeAndOwner, TypeOK
  <2> QED BY <1>2, <2>1, OneValue
<1>5. /\ Status' = [Status EXCEPT ![u] = "answered"]
      /\ Asked' = [Asked EXCEPT ![u] = None] /\ Heard' = [Heard EXCEPT ![u] = {}]
  <2>1. /\ Status = [t \in {u} |-> Status[u]] /\ Status' = [t \in {u} |-> Status'[u]]
        /\ Asked = [t \in {u} |-> Asked[u]] /\ Asked' = [t \in {u} |-> Asked'[u]]
        /\ Heard = [t \in {u} |-> Heard[u]] /\ Heard' = [t \in {u} |-> Heard'[u]]
    BY Mapped, MappedNext
  <2>2. Status' = [Status EXCEPT ![u] = "answered"]
    BY <1>3, <2>1, OneValue
  <2>3. Asked' = [Asked EXCEPT ![u] = None]
    BY <1>3, <2>1, OneValue
  <2>4. Heard' = [Heard EXCEPT ![u] = {}]
    BY <1>3, <2>1, OneValue
  <2> QED BY <2>2, <2>3, <2>4
<1>6. KV!Return(u, x)
  BY <1>4, <1>5, PromiseSteps
<1>7. \E v \in Heard[u] : \E y \in KV!Seen(v) : KV!Return(u, y)
  BY <1>2, <1>3, <1>6
<1> QED
  BY <1>3, <1>5, <1>7, PromiseSteps

\* How the one thread's state moves, and with it the state of the promise.
LEMMA MappedMoves ==
  ASSUME NEW u, Threads = {u}, NEW x, NEW y, NEW z
  PROVE  /\ Status'[u] = x => Status' = [Status EXCEPT ![u] = x]
         /\ Asked'[u] = y => Asked' = [Asked EXCEPT ![u] = y]
         /\ Heard'[u] = z => Heard' = [Heard EXCEPT ![u] = z]
         /\ Status'[u] = Status[u] => Status' = Status
         /\ Asked'[u] = Asked[u] => Asked' = Asked
         /\ Heard'[u] = Heard[u] => Heard' = Heard
<1>1. /\ Status = [t \in {u} |-> Status[u]] /\ Status' = [t \in {u} |-> Status'[u]]
      /\ Asked = [t \in {u} |-> Asked[u]] /\ Asked' = [t \in {u} |-> Asked'[u]]
      /\ Heard = [t \in {u} |-> Heard[u]] /\ Heard' = [t \in {u} |-> Heard'[u]]
  BY Mapped, MappedNext
<1>2. /\ Status'[u] = x => Status' = [Status EXCEPT ![u] = x]
      /\ Status'[u] = Status[u] => Status' = Status
  BY <1>1, OneValue
<1>3. /\ Asked'[u] = y => Asked' = [Asked EXCEPT ![u] = y]
      /\ Asked'[u] = Asked[u] => Asked' = Asked
  BY <1>1, OneValue
<1>4. /\ Heard'[u] = z => Heard' = [Heard EXCEPT ![u] = z]
      /\ Heard'[u] = Heard[u] => Heard' = Heard
  BY <1>1, OneValue
<1> QED BY <1>2, <1>3, <1>4

\* A write is the promise's.
LEMMA WritePromise ==
  ASSUME SoloInv, NEW u, Threads = {u}, NEW k \in Keys, NEW v \in Vals \cup {Tomb},
         DbWrite(u, k, v)
  PROVE  KV!Put(u, k, v)
<1>1. /\ pc[u] = "getline" /\ pc'[u] = "check" /\ store' = [store EXCEPT ![k] = v]
      /\ reply' = reply /\ reply[u] = None /\ reply = [t \in {u} |-> reply[u]]
      /\ k # None
  BY EntriesAssumption DEF DbWrite, SoloInv, ReadInv, CoherentInv, TypeAndOwner, TypeOK
<1>2. /\ Status[u] = "idle" /\ Status'[u] = "answered"
      /\ Asked[u] = None /\ Asked'[u] = None /\ Heard[u] = {} /\ Heard'[u] = {}
      /\ Heard = [t \in {u} |-> Heard[u]]
  BY <1>1, Mapped, MappedNext DEF Reading
<1>3. /\ Status' = [Status EXCEPT ![u] = "answered"] /\ Asked' = Asked /\ Heard' = Heard
  BY <1>2, MappedMoves
<1>4. reply' = [reply EXCEPT ![u] = None]
  BY <1>1, OneValue
<1>5. KV!Return(u, None)
  BY <1>3, <1>4, PromiseSteps
<1>6. Heard' = [d \in Threads |-> IF Asked[d] = k THEN Heard[d] \cup {v} ELSE Heard[d]]
  <2>1. \A d \in {u} : Asked[d] # k
    BY <1>1, <1>2
  <2> QED BY <1>2, <1>3, <2>1
<1>7. Status[u] = "idle" /\ store' = [store EXCEPT ![k] = v] /\ Asked' = Asked
  BY <1>1, <1>2, <1>3
<1> QED BY <1>5, <1>6, <1>7, PutStep, Zenon

\* A read that memory answers returns at once; one that looks into files asks.
LEMMA ReadPromise ==
  ASSUME SoloInv, SoloInv', NEW u, Threads = {u}, NEW k \in Keys, DbRead(u, k)
  PROVE  KV!Get(u, k) \/ KV!Ask(u, k)
<1>1. /\ pc[u] = "getline" /\ key'[u] = k /\ store' = store /\ window'[u] = {store[k]}
      /\ reply = [t \in {u} |-> reply[u]] /\ reply' = [t \in {u} |-> reply'[u]]
      /\ pc'[u] = "check" \/ (pc'[u] = "scan" /\ reply' = reply)
      /\ k # None
  BY EntriesAssumption
  DEF DbRead, SoloInv, ReadInv, CoherentInv, TypeAndOwner, TypeOK
<1>2. Status[u] = "idle" /\ Asked[u] = None /\ Heard[u] = {}
  BY <1>1, Mapped DEF Reading
<1>3. CASE pc'[u] = "check"
  <2>1. Valid(u, reply[u])'
    <3>1. (ReadOK(u) /\ ~lapped[u])'
      BY DEF SoloInv, ReadInv
    <3> QED BY <1>1, <1>3, <3>1 DEF ReadOK, Answered
  <2>2. PICK x : x \in KV!Seen(store[k]) /\ reply'[u] = x
    BY <1>1, <2>1, ValidSeen DEF Valid
  <2>3. Status'[u] = "answered" /\ Asked'[u] = None /\ Heard'[u] = {}
    BY <1>3, MappedNext DEF Reading
  <2>4. /\ Status' = [Status EXCEPT ![u] = "answered"] /\ Asked' = Asked /\ Heard' = Heard
    BY <1>2, <2>3, MappedMoves
  <2>5. reply' = [reply EXCEPT ![u] = x]
    BY <1>1, <2>2, OneValue
  <2>6. \E w \in KV!Seen(store[k]) : KV!Return(u, w)
    BY <2>2, <2>4, <2>5, PromiseSteps
  <2>7. KV!Get(u, k)
    BY <1>1, <1>2, <2>4, <2>6, PromiseSteps
  <2> QED BY <2>7
<1>4. CASE pc'[u] = "scan" /\ reply' = reply
  <2>1. Status'[u] = "asked" /\ Asked'[u] = k /\ Heard'[u] = {store[k]}
    BY <1>1, <1>4, MappedNext DEF Reading
  <2>2. /\ Status' = [Status EXCEPT ![u] = "asked"] /\ Asked' = [Asked EXCEPT ![u] = k]
        /\ Heard' = [Heard EXCEPT ![u] = {store[k]}]
    BY <2>1, MappedMoves
  <2>3. KV!Ask(u, k)
    BY <1>1, <1>2, <1>4, <2>2, PromiseSteps
  <2> QED BY <2>3
<1> QED BY <1>1, <1>3, <1>4

\* The end of a turn.
LEMMA DonePromise ==
  ASSUME SoloInv, SoloInv', NEW u, Threads = {u}, Check(u)
  PROVE  KV!Done(u)
<1>1. /\ pc[u] = "check" /\ pc'[u] = "getline" /\ store' = store
      /\ reply' = [reply EXCEPT ![u] = None]
  BY DEF Check, SoloInv, ReadInv, CoherentInv, TypeAndOwner, TypeOK
<1>2. /\ Status[u] = "answered" /\ Asked[u] = None /\ Heard[u] = {}
      /\ Status'[u] = "idle" /\ Asked'[u] = None /\ Heard'[u] = {}
  BY <1>1, Mapped, MappedNext DEF Reading
<1>3. Status' = [Status EXCEPT ![u] = "idle"] /\ Asked' = Asked /\ Heard' = Heard
  BY <1>2, MappedMoves
<1> QED BY <1>1, <1>2, <1>3, PromiseSteps

\* Every step of the one thread, and of the adjusts it starts, is a step of the
\* promise or none.
LEMMA StepPromise ==
  ASSUME SoloInv, SoloInv', NEW u, Threads = {u}, [Next]_vars
  PROVE  [KV!Next]_(KV!kvars)
<1>1. ASSUME UNCHANGED <<store, pc, key, window, reply>> PROVE UNCHANGED KV!kvars
  BY <1>1, PromiseSteps DEF Status, Asked, Heard
<1>2. CASE \E k \in Keys, v \in Vals \cup {Tomb} : DbWrite(u, k, v)
  BY <1>2, WritePromise DEF KV!Next
<1>3. CASE \E k \in Keys : DbRead(u, k)
  BY <1>3, ReadPromise DEF KV!Next
<1>4. CASE ScanFile(u) \/ ReadDanger(u)
  <2>1. /\ pc[u] \in Reading /\ UNCHANGED <<key, store, window, snap>>
        /\ pc'[u] = "check" \/ (pc'[u] \in Reading /\ reply' = reply)
    BY <1>4 DEF ScanFile, ReadDanger, history, Reading, SoloInv, ReadInv, CoherentInv,
       TypeAndOwner, TypeOK
  <2>2. CASE pc'[u] = "check"
    BY <2>1, <2>2, AnswerPromise DEF KV!Next
  <2>3. CASE pc'[u] \in Reading /\ reply' = reply
    <3>1. /\ Status[u] = "asked" /\ Status'[u] = "asked" /\ Asked[u] = key[u]
          /\ Asked'[u] = key[u] /\ Heard[u] = window[u] /\ Heard'[u] = window[u]
      BY <2>1, <2>3, Mapped, MappedNext
    <3>2. Status' = Status /\ Asked' = Asked /\ Heard' = Heard
      BY <3>1, MappedMoves
    <3>3. UNCHANGED KV!kvars
      BY <2>1, <2>3, <3>2, PromiseSteps
    <3> QED BY <3>3
  <2> QED BY <2>1, <2>2, <2>3
<1>5. CASE Check(u)
  BY <1>5, DonePromise DEF KV!Next
<1>6. ASSUME NEW a \in Adjusters, Adjust(a) PROVE UNCHANGED KV!kvars
  BY <1>1, <1>6, AdjustReaders DEF readers
<1>7. CASE UNCHANGED vars
  BY <1>1, <1>7 DEF vars, readers, history
<1> QED
  BY <1>2, <1>3, <1>4, <1>5, <1>6, <1>7 DEF Next, Serve

\* With one serve thread the store is a map that is read and written at single
\* instants, whatever adjusts do meanwhile: Master implements KVStore.
THEOREM OneThreadLinearizable ==
  ASSUME NEW u, Threads = {u}
  PROVE  Spec => Linearizable
<1>1. SoloInv /\ [Next]_vars => SoloInv'
  BY SoloStep
<1>2. SoloInv /\ SoloInv' /\ [Next]_vars => [KV!Next]_(KV!kvars)
  BY StepPromise
<1> QED
  BY InitSolo, InitPromise, <1>1, <1>2, PTL DEF Spec, Linearizable, KV!Spec
=============================================================================
