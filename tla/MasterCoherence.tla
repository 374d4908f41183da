-------------------------- MODULE MasterCoherence --------------------------
(***************************************************************************)
(* The proof that no step of serve or of adjust loses a key, brings one    *)
(* back or lets an older value win: Coherent is an invariant of Master; so *)
(* is BackupsCoverMemory: what memory alone holds is in the backups.    *)
(***************************************************************************)
EXTENDS MasterProofs

\* What the files hold at the stages of an adjust where the next step relies
\* on it.
StageContent ==
  \A a \in Adjusters :
    /\ apc[a] = "copied" => tempfile = filesys[SecondOldest]
    /\ apc[a] \in {"dumped", "synced"} => filesys[Oldest] = reserve

CoherentInv == TypeAndOwner /\ StageContent /\ Coherent

\* The _sync_ record of dump: at run time it empties a backup as well, in a
\* start it does not.
SyncRecord(a) ==
  /\ Stage(a, "dumped", "synced")
  /\ RetireBackup \/ backups' = backups
  /\ UNCHANGED <<memory, filesys, stamp, tempfile, tempStamp, fslock, readers,
                 now, nwrites, history>>

\* The steps of adjust, whoever runs it.
Filing(a) == FileStep(a) \/ SyncRecord(a) \/ AdjustPublish(a) \/ AdjustUnlock(a)

\* Coherent, for one key.
CoherentAt(k) ==
  \/ \E n \in Layers : /\ Layer(n, k) # None /\ Layer(n, k) = store[k]
                       /\ \A m \in Layers : m < n => Layer(m, k) = None
  \/ (\A n \in Layers : Layer(n, k) = None) /\ store[k] \in {None, Tomb}
-----------------------------------------------------------------------------
(* Layers *)

\* The files by age: each has one place in the ring.
LEMMA Slots ==
  ASSUME recent \in Index
  PROVE  /\ \A j \in 0 .. NumFiles - 1 : Slot(j) \in Index
         /\ \A j \in 0 .. NumFiles - 1 : Slot(j) = Oldest <=> j = NumFiles - 1
         /\ \A j \in 0 .. NumFiles - 1 : Slot(j) = SecondOldest <=> j = NumFiles - 2
<1> SUFFICES ASSUME NEW j \in 0 .. NumFiles - 1
             PROVE  /\ Slot(j) \in Index
                    /\ Slot(j) = Oldest <=> j = NumFiles - 1
                    /\ Slot(j) = SecondOldest <=> j = NumFiles - 2
  OBVIOUS
<1>1. recent + NumFiles - j \in Nat /\ recent + NumFiles - j < 2 * NumFiles
  BY ConstantsAssumption DEF Index
<1>2. recent + 1 \in Nat /\ recent + 1 < 2 * NumFiles
  BY ConstantsAssumption DEF Index
<1>3. recent + 2 \in Nat /\ recent + 2 < 2 * NumFiles
  BY ConstantsAssumption DEF Index
<1> QED
  BY <1>1, <1>2, <1>3, ModWrap, ConstantsAssumption
  DEF Slot, Oldest, SecondOldest, Index

\* The file j places behind file r in the ring.
Behind(r, j) == (r + NumFiles - j) % NumFiles

\* Seen from the next file, every file is one place further behind.
LEMMA RingShift ==
  ASSUME NEW r \in Index, NEW q, q = (r + 1) % NumFiles
  PROVE  /\ q \in Index /\ Behind(q, 0) = q
         /\ \A j \in 1 .. NumFiles - 1 : Behind(q, j) = Behind(r, j - 1)
<1>1. r + 1 \in Nat /\ r + 1 < 2 * NumFiles
  BY ConstantsAssumption DEF Index
<1>2. q \in Index /\ q = IF r + 1 < NumFiles THEN r + 1 ELSE 0
  BY <1>1, ModWrap, ConstantsAssumption DEF Index
<1>3. Behind(q, 0) = q
  <2>1. q + NumFiles \in Nat /\ q + NumFiles < 2 * NumFiles
    BY <1>2, ConstantsAssumption DEF Index
  <2> QED
    BY <1>2, <2>1, ModWrap, ConstantsAssumption DEF Behind, Index
<1>4. ASSUME NEW j \in 1 .. NumFiles - 1 PROVE Behind(q, j) = Behind(r, j - 1)
  <2>1. q + NumFiles - j \in Nat /\ q + NumFiles - j < 2 * NumFiles
    BY <1>2, ConstantsAssumption DEF Index
  <2>2. r + NumFiles - (j - 1) \in Nat /\ r + NumFiles - (j - 1) < 2 * NumFiles
    BY ConstantsAssumption DEF Index
  <2>3. CASE r + 1 < NumFiles
    <3>1. q + NumFiles - j = r + NumFiles - (j - 1)
      BY <1>2, <2>3, ConstantsAssumption DEF Index
    <3> QED BY <3>1 DEF Behind
  <2>4. CASE r = NumFiles - 1
    <3>1. Behind(q, j) = NumFiles - j
      BY <1>2, <2>1, <2>4, ModWrap, ConstantsAssumption DEF Behind
    <3>2. Behind(r, j - 1) = NumFiles - j
      BY <2>2, <2>4, ModWrap, ConstantsAssumption DEF Behind
    <3> QED BY <3>1, <3>2
  <2> QED
    BY <2>3, <2>4, ConstantsAssumption DEF Index
<1> QED BY <1>2, <1>3, <1>4

\* Publishing the dumped file moves every other file one place down.
LEMMA SlotShift ==
  ASSUME recent \in Index, recent' = (recent + 1) % NumFiles
  PROVE  /\ Slot(0)' = Oldest
         /\ \A j \in 1 .. NumFiles - 1 : Slot(j)' = Slot(j - 1)
  BY RingShift DEF Slot, Behind, Oldest

\* The stage of the one adjust decides what stands for the two oldest files.
LEMMA Stages ==
  ASSUME TypeAndOwner, NEW a \in Adjusters, apc[a] \in Pending,
         \A b \in Adjusters \ {a} : apc'[b] = apc[b]
  PROVE  /\ Rewriting <=> apc[a] = "merging"
         /\ Absorbed <=> apc[a] \in {"merged", "dumping", "dumped", "synced"}
         /\ Rewriting' <=> apc'[a] = "merging"
         /\ Absorbed' <=> apc'[a] \in {"merged", "dumping", "dumped", "synced"}
  BY DEF TypeAndOwner, OneAdjust, Rewriting, Absorbed

\* A step that changes no layer of a key and does not write it preserves its
\* coherence.
LEMMA SameLayers ==
  ASSUME NEW k, CoherentAt(k), store'[k] = store[k],
         \A n \in Layers : Layer(n, k)' = Layer(n, k)
  PROVE  CoherentAt(k)'
  BY DEF CoherentAt, Layers

\* Coherent is the coherence of every key.
LEMMA EveryKey ==
  /\ Coherent <=> \A k \in Keys : CoherentAt(k)
  /\ Coherent' <=> \A k \in Keys : CoherentAt(k)'
  BY DEF Coherent, CoherentAt

\* Run-time adjust is one of those who run adjust.
LEMMA AdjustFiles ==
  ASSUME NEW a, Adjust(a) PROVE Filing(a)
  BY DEF Adjust, Filing, AdjustSync, SyncRecord, RetireBackup

\* A layer above the files changes with its tree alone.
LEMMA FileLayers ==
  ASSUME NEW n \in Layers, n >= 2, NEW k
  PROVE  /\ n - 2 \in 0 .. NumFiles - 1
         /\ Layer(n, k) = InFile(n - 2, k)
         /\ Layer(n, k)' = InFile(n - 2, k)'
  BY ConstantsAssumption DEF Layers, Layer

\* The files by age are the layers from the third on.
LEMMA LayerOfFile ==
  ASSUME NEW i \in 0 .. NumFiles - 1, NEW k
  PROVE  /\ i + 2 \in Layers
         /\ Layer(i + 2, k) = InFile(i, k)
         /\ Layer(i + 2, k)' = InFile(i, k)'
<1> DEFINE n == i + 2
<1>1. n \in Layers /\ n >= 2 /\ n - 2 = i
  BY ConstantsAssumption DEF Layers
<1> HIDE DEF n
<1>2. Layer(n, k) = InFile(n - 2, k) /\ Layer(n, k)' = InFile(n - 2, k)'
  BY <1>1, FileLayers
<1>3. InFile(n - 2, k) = InFile(i, k) /\ InFile(n - 2, k)' = InFile(i, k)'
  BY <1>1, Zenon DEF InFile, Slot
<1> QED
  BY <1>1, <1>2, <1>3 DEF n
-----------------------------------------------------------------------------
(* Steps of the serve threads *)

\* Reads change no layer.
LEMMA ReadCoherent ==
  ASSUME NEW k \in Keys, CoherentAt(k), UNCHANGED <<memory, disk, apc, store>>
  PROVE  CoherentAt(k)'
<1>1. \A n \in Layers : Layer(n, k)' = Layer(n, k)
  BY DEF Layer, InFile, Slot, Rewriting, Absorbed, memory, disk
<1> QED
  BY <1>1, SameLayers

\* A write sets the newest layer, for its key only.
LEMMA WriteCoherent ==
  ASSUME TypeAndOwner, NEW t \in Threads, NEW k \in Keys,
         NEW v \in Vals \cup {Tomb}, DbWrite(t, k, v),
         NEW j \in Keys, CoherentAt(j)
  PROVE  CoherentAt(j)'
<1>1. bintree' = [bintree EXCEPT ![k] = v] /\ store' = [store EXCEPT ![k] = v]
  BY DEF DbWrite
<1>2. v # None /\ bintree \in [Keys -> Entry] /\ store \in [Keys -> Entry]
  BY EntriesAssumption DEF TypeAndOwner, TypeOK, Contents
<1>3. \A n \in Layers : n # 0 => Layer(n, j)' = Layer(n, j)
  BY DEF DbWrite, Layer, InFile, Slot, Rewriting, Absorbed
<1>4. Layer(0, j) = bintree[j] /\ Layer(0, j)' = bintree'[j]
  BY DEF Layer
<1>5. CASE j = k
  <2>1. Layer(0, k)' = v /\ store'[k] = v
    BY <1>1, <1>2 DEF Layer
  <2>2. 0 \in Layers /\ \A m \in Layers : ~(m < 0)
    BY ConstantsAssumption DEF Layers
  <2> QED
    BY <1>2, <1>5, <2>1, <2>2 DEF CoherentAt, Layers
<1>6. CASE j # k
  <2>1. (\A n \in Layers : Layer(n, j)' = Layer(n, j)) /\ store'[j] = store[j]
    BY <1>1, <1>2, <1>3, <1>4, <1>6
  <2> QED
    BY <2>1, SameLayers
<1> QED BY <1>5, <1>6

\* A swap moves the newest layer one place down, over an empty one.
LEMMA CheckCoherent ==
  ASSUME TypeAndOwner, NEW t \in Threads, Check(t),
         NEW k \in Keys, CoherentAt(k)
  PROVE  CoherentAt(k)'
<1>1. CASE ~TreeFull
  BY <1>1, ReadCoherent DEF Check, memory, disk
<1>2. CASE TreeFull
  <2>1. /\ reserve = Null /\ reserve' = bintree /\ bintree' = Empty
        /\ store' = store /\ UNCHANGED <<recent, filesys, tempfile>>
        /\ bintree \in Contents
    BY <1>2 DEF Check, TreeFull, TypeAndOwner, TypeOK
  <2>2. PICK a \in Adjusters : apc[a] = "none" /\ apc' = [apc EXCEPT ![a] = "wait"]
    BY <1>2 DEF Check
  <2>3. \A b \in Adjusters : apc'[b] = apc[b] \/ (apc[b] = "none" /\ apc'[b] = "wait")
    BY <2>2 DEF TypeAndOwner, TypeOK
  <2>4. Rewriting' = Rewriting /\ Absorbed' = Absorbed
    BY <2>3 DEF Rewriting, Absorbed
  <2>5. \A n \in Layers : n >= 2 => Layer(n, k)' = Layer(n, k)
    BY <2>1, <2>4 DEF Layer, InFile, Slot, Layers
  <2>6. reserve' # Null
    BY <2>1, ConstantsAssumption DEF Contents, Entry
  <2>7. /\ Layer(0, k)' = None /\ Layer(1, k)' = bintree[k]
        /\ Layer(0, k) = bintree[k] /\ Layer(1, k) = None
    BY <2>1, <2>6 DEF Layer, Empty
  <2>8. 0 \in Layers /\ 1 \in Layers /\ \A n \in Layers : n = 0 \/ n = 1 \/ n >= 2
    BY ConstantsAssumption DEF Layers
  <2>10. CASE bintree[k] # None
    <3>1. store[k] = bintree[k]
      BY <2>7, <2>8, <2>10 DEF CoherentAt, Layers
    <3>2. \A m \in Layers : m < 1 => Layer(m, k)' = None
      BY <2>7, <2>8 DEF Layers
    <3> QED
      BY <2>1, <2>7, <2>8, <2>10, <3>1, <3>2 DEF CoherentAt, Layers
  <2>11. CASE bintree[k] = None
    <3>1. \A n \in Layers : Layer(n, k)' = Layer(n, k)
      BY <2>5, <2>7, <2>8, <2>11
    <3> QED
      BY <2>1, <3>1, SameLayers
  <2> QED BY <2>10, <2>11
<1> QED BY <1>1, <1>2
-----------------------------------------------------------------------------
(* Steps of the adjust threads *)

\* A step of an adjust that leaves alone the trees, recent and every file but
\* the two it rewrites, and shows those two as before, changes no layer.
LEMMA SameTwoOldest ==
  ASSUME TypeAndOwner,
         UNCHANGED <<memory, store>>,
         \A i \in Index \ {Oldest, SecondOldest} : filesys'[i] = filesys[i],
         \A k \in Keys : InFile(NumFiles - 1, k)' = InFile(NumFiles - 1, k),
         \A k \in Keys : InFile(NumFiles - 2, k)' = InFile(NumFiles - 2, k)
  PROVE  \A n \in Layers, k \in Keys : Layer(n, k)' = Layer(n, k)
<1>1. recent \in Index
  BY DEF TypeAndOwner, TypeOK
<1>2. ASSUME NEW n \in Layers, NEW k \in Keys
      PROVE  Layer(n, k)' = Layer(n, k)
  <2>1. CASE n < 2
    BY <2>1 DEF Layer, Layers, memory
  <2>2. CASE n >= 2 /\ (n - 2 = NumFiles - 1 \/ n - 2 = NumFiles - 2)
    BY <2>2, FileLayers
  <2>3. CASE n >= 2 /\ n - 2 # NumFiles - 1 /\ n - 2 # NumFiles - 2
    <3>1. n - 2 \in 0 .. NumFiles - 1
      BY <2>3, FileLayers
    <3>2. Slot(n - 2) \in Index \ {Oldest, SecondOldest} /\ Slot(n - 2)' = Slot(n - 2)
      BY <1>1, <2>3, <3>1, Slots DEF Slot, memory
    <3>3. InFile(n - 2, k)' = InFile(n - 2, k)
      BY <2>3, <3>2 DEF InFile
    <3> QED
      BY <2>3, <3>3, FileLayers
  <2> QED
    BY <2>1, <2>2, <2>3 DEF Layers
<1> QED
  BY <1>2

\* The two oldest files, through InFile.
LEMMA OldestTwo ==
  ASSUME recent \in Index, NEW k
  PROVE  /\ InFile(NumFiles - 2, k) = IF Rewriting THEN tempfile[k]
                                     ELSE filesys[SecondOldest][k]
         /\ InFile(NumFiles - 1, k) = IF Absorbed THEN None
                                     ELSE filesys[Oldest][k]
<1>1. /\ NumFiles - 1 \in 0 .. NumFiles - 1 /\ NumFiles - 2 \in 0 .. NumFiles - 1
      /\ NumFiles - 1 # NumFiles - 2
  BY ConstantsAssumption
<1>2. Slot(NumFiles - 1) = Oldest /\ Slot(NumFiles - 2) = SecondOldest
  BY <1>1, Slots
<1> QED
  BY <1>1, <1>2 DEF InFile

\* The same after a step that leaves recent alone.
LEMMA OldestTwoNext ==
  ASSUME recent \in Index, recent' = recent, NEW k
  PROVE  /\ InFile(NumFiles - 2, k)' = IF Rewriting' THEN tempfile'[k]
                                      ELSE filesys'[SecondOldest][k]
         /\ InFile(NumFiles - 1, k)' = IF Absorbed' THEN None
                                      ELSE filesys'[Oldest][k]
<1>1. /\ NumFiles - 1 \in 0 .. NumFiles - 1 /\ NumFiles - 2 \in 0 .. NumFiles - 1
      /\ NumFiles - 1 # NumFiles - 2
  BY ConstantsAssumption
<1>2. Slot(NumFiles - 1)' = Oldest /\ Slot(NumFiles - 2)' = SecondOldest
  BY <1>1, Slots DEF Slot
<1> QED
  BY <1>1, <1>2 DEF InFile

\* Every step of adjust but the end of the merge and the publication changes
\* no layer: what it rewrites has a copy, or counts for nothing.
LEMMA QuietLayers ==
  ASSUME TypeAndOwner, StageContent, NEW a \in Adjusters, Filing(a),
         ~MergeDone(a), ~AdjustPublish(a)
  PROVE  /\ UNCHANGED <<memory, store>>
         /\ \A n \in Layers, k \in Keys : Layer(n, k)' = Layer(n, k)
<1>1. /\ recent \in Index /\ recent' = recent /\ UNCHANGED <<memory, store>>
      /\ Oldest \in Index /\ SecondOldest \in Index /\ Oldest # SecondOldest
  <2>1. recent \in Index
    BY DEF TypeAndOwner, TypeOK
  <2>2. Oldest # SecondOldest
    <3>1. /\ NumFiles - 1 \in 0 .. NumFiles - 1 /\ NumFiles - 2 \in 0 .. NumFiles - 1
          /\ NumFiles - 1 # NumFiles - 2
      BY ConstantsAssumption
    <3> QED BY <2>1, <3>1, Slots
  <2> QED
    BY <2>1, <2>2, RingTypes
    DEF Filing, FileStep, AdjustBegin, AdjustTruncate, MergeFlush, AdjustReopen,
        DumpFlush, AdjustDump, SyncRecord, AdjustUnlock, memory, history
<1>2. filesys \in [Index -> Contents]
  BY DEF TypeAndOwner, TypeOK
<1>3. \A i \in Index \ {Oldest, SecondOldest} : filesys'[i] = filesys[i]
  BY <1>1, <1>2
  DEF Filing, FileStep, AdjustBegin, AdjustTruncate, Truncated, MergeFlush,
      Flush, AdjustReopen, DumpFlush, AdjustDump, SyncRecord, AdjustUnlock, disk
<1>4. ASSUME NEW k \in Keys
      PROVE  /\ InFile(NumFiles - 2, k)' = InFile(NumFiles - 2, k)
             /\ InFile(NumFiles - 1, k)' = InFile(NumFiles - 1, k)
  <2>1. CASE AdjustUnlock(a)
    <3>1. Rewriting' = Rewriting /\ Absorbed' = Absorbed
      BY <2>1 DEF AdjustUnlock, Stage, Rewriting, Absorbed, TypeAndOwner, TypeOK
    <3> QED
      BY <1>1, <2>1, <3>1, OldestTwo, OldestTwoNext DEF AdjustUnlock, disk
  <2>2. CASE ~AdjustUnlock(a)
    <3>1. apc[a] \in Pending /\ \A b \in Adjusters \ {a} : apc'[b] = apc[b]
      BY <2>2 DEF Filing, FileStep, AdjustBegin, AdjustTruncate, MergeFlush,
         AdjustReopen, DumpFlush, AdjustDump, SyncRecord, Stage, Pending,
         Working, TypeAndOwner, TypeOK
    <3>2. /\ Rewriting <=> apc[a] = "merging"
          /\ Absorbed <=> apc[a] \in {"merged", "dumping", "dumped", "synced"}
          /\ Rewriting' <=> apc'[a] = "merging"
          /\ Absorbed' <=> apc'[a] \in {"merged", "dumping", "dumped", "synced"}
      BY <3>1, Stages
    <3>3. apc \in [Adjusters -> Pending \cup {"none", "unlock"}]
      BY DEF TypeAndOwner, TypeOK
    <3>4. CASE AdjustBegin(a) \/ SyncRecord(a)
      BY <1>1, <3>2, <3>3, <3>4, OldestTwo, OldestTwoNext
      DEF AdjustBegin, SyncRecord, Stage
    <3>5. CASE AdjustTruncate(a)
      <4>1. tempfile = filesys[SecondOldest]
        BY <3>5 DEF AdjustTruncate, Stage, StageContent
      <4>2. filesys'[Oldest] = filesys[Oldest] /\ tempfile' = tempfile
        BY <1>1, <1>2, <3>5 DEF AdjustTruncate, Truncated
      <4> QED
        BY <1>1, <3>2, <3>3, <3>5, <4>1, <4>2, OldestTwo, OldestTwoNext
        DEF AdjustTruncate, Stage
    <3>6. CASE \E m \in Keys \cup {0} : MergeFlush(a, m)
      <4>1. filesys'[Oldest] = filesys[Oldest] /\ tempfile' = tempfile
        BY <1>1, <1>2, <3>6 DEF MergeFlush, Flush
      <4> QED
        BY <1>1, <3>2, <3>6, <4>1, OldestTwo, OldestTwoNext DEF MergeFlush
    <3>7. CASE AdjustReopen(a) \/ AdjustDump(a) \/ \E m \in Keys \cup {0} : DumpFlush(a, m)
      <4>1. filesys'[SecondOldest] = filesys[SecondOldest]
        BY <1>1, <1>2, <3>7
        DEF AdjustReopen, Truncated, AdjustDump, DumpFlush, Flush
      <4>2. Absorbed /\ Absorbed' /\ ~Rewriting /\ ~Rewriting'
        BY <3>2, <3>3, <3>7 DEF AdjustReopen, AdjustDump, DumpFlush, Stage
      <4> QED
        BY <1>1, <4>1, <4>2, OldestTwo, OldestTwoNext
    <3> QED
      BY <2>2, <3>4, <3>5, <3>6, <3>7 DEF Filing, FileStep
  <2> QED BY <2>1, <2>2
<1> QED
  BY <1>1, <1>3, <1>4, SameTwoOldest

\* So they preserve Coherent.
LEMMA QuietCoherent ==
  ASSUME TypeAndOwner, StageContent, NEW a \in Adjusters, Filing(a),
         ~MergeDone(a), ~AdjustPublish(a), NEW k \in Keys, CoherentAt(k)
  PROVE  CoherentAt(k)'
  BY QuietLayers, SameLayers

\* The last layer is the oldest file.
LEMMA LastLayer ==
  ASSUME NEW k
  PROVE  /\ Layer(NumFiles + 1, k) = InFile(NumFiles - 1, k)
         /\ Layer(NumFiles + 1, k)' = InFile(NumFiles - 1, k)'
<1>1. NumFiles + 1 # 0 /\ NumFiles + 1 # 1 /\ NumFiles + 1 - 2 = NumFiles - 1
  BY ConstantsAssumption
<1> DEFINE n == NumFiles + 1
<1>2. Layer(n, k) = InFile(n - 2, k) /\ Layer(n, k)' = InFile(n - 2, k)'
  BY <1>1 DEF Layer
<1>3. n - 2 = NumFiles - 1
  BY <1>1, ConstantsAssumption
<1> HIDE DEF n
<1>4. InFile(n - 2, k) = InFile(NumFiles - 1, k) /\ InFile(n - 2, k)' = InFile(NumFiles - 1, k)'
  BY <1>3, Zenon DEF InFile, Slot
<1> QED
  BY <1>2, <1>4 DEF n

\* The end of the merge: the second oldest file takes over from its copy and
\* from the oldest file.
LEMMA MergeLayers ==
  ASSUME TypeAndOwner, NEW a \in Adjusters, MergeDone(a)
  PROVE  /\ UNCHANGED <<memory, store>>
         /\ \A n \in Layers, k \in Keys : n < NumFiles => Layer(n, k)' = Layer(n, k)
         /\ \A k \in Keys :
              LET newer == IF Layer(NumFiles, k) # None THEN Layer(NumFiles, k)
                                                       ELSE Layer(NumFiles + 1, k)
              IN  /\ Layer(NumFiles, k)' = IF newer = Tomb THEN None ELSE newer
                  /\ Layer(NumFiles + 1, k)' = None
<1>1. /\ recent \in Index /\ recent' = recent /\ store' = store
      /\ UNCHANGED <<bintree, reserve>>
      /\ filesys \in [Index -> Contents] /\ SecondOldest \in Index
      /\ apc[a] = "merging" /\ apc'[a] = "merged"
      /\ \A b \in Adjusters \ {a} : apc'[b] = apc[b]
  BY RingTypes DEF MergeDone, Stage, memory, history, TypeAndOwner, TypeOK
<1>2. Rewriting /\ ~Absorbed /\ ~Rewriting' /\ Absorbed'
  BY <1>1, Stages DEF Pending, Working
<1>3. NumFiles \in Layers /\ NumFiles + 1 \in Layers /\ NumFiles - 2 # NumFiles - 1
  BY ConstantsAssumption DEF Layers
<1>4. ASSUME NEW k \in Keys
      PROVE  /\ Layer(NumFiles, k) = tempfile[k]
             /\ Layer(NumFiles + 1, k) = filesys[Oldest][k]
             /\ Layer(NumFiles, k)' = Merged[k]
             /\ Layer(NumFiles + 1, k)' = None
  <2>1. filesys'[SecondOldest] = Merged
    BY <1>1 DEF MergeDone
  <2>2. /\ Layer(NumFiles, k) = InFile(NumFiles - 2, k)
        /\ Layer(NumFiles, k)' = InFile(NumFiles - 2, k)'
    BY <1>3, ConstantsAssumption, FileLayers
  <2>3. /\ Layer(NumFiles + 1, k) = InFile(NumFiles - 1, k)
        /\ Layer(NumFiles + 1, k)' = InFile(NumFiles - 1, k)'
    BY LastLayer
  <2> QED
    BY <1>1, <1>2, <2>1, <2>2, <2>3, OldestTwo, OldestTwoNext
<1>5. ASSUME NEW n \in Layers, n < NumFiles, NEW k \in Keys
      PROVE  Layer(n, k)' = Layer(n, k)
  <2>1. CASE n < 2
    BY <1>1, <2>1 DEF Layer, Layers
  <2>2. CASE n >= 2
    <3>1. /\ n - 2 \in 0 .. NumFiles - 1
          /\ n - 2 # NumFiles - 2 /\ n - 2 # NumFiles - 1
      BY <1>5, <2>2, ConstantsAssumption DEF Layers
    <3>2. Slot(n - 2)' = Slot(n - 2) /\ Slot(n - 2) # SecondOldest /\ Slot(n - 2) \in Index
      BY <1>1, <3>1, Slots DEF Slot
    <3>3. filesys'[Slot(n - 2)] = filesys[Slot(n - 2)]
      BY <1>1, <3>2 DEF MergeDone
    <3>4. InFile(n - 2, k)' = InFile(n - 2, k)
      BY <3>1, <3>2, <3>3 DEF InFile
    <3> QED BY <2>2, <3>4, FileLayers
  <2> QED BY <2>1, <2>2 DEF Layers
<1>6. \A k \in Keys : Merged[k] = LET newer == IF tempfile[k] # None THEN tempfile[k]
                                                            ELSE filesys[Oldest][k]
                                 IN  IF newer = Tomb THEN None ELSE newer
  BY DEF Merged, MergeFiles
<1>7. UNCHANGED <<memory, store>>
  BY DEF MergeDone, history
<1> QED
  BY <1>4, <1>5, <1>6, <1>7

\* The end of the merge preserves Coherent.
LEMMA MergeCoherent ==
  ASSUME TypeAndOwner, NEW a \in Adjusters, MergeDone(a),
         NEW k \in Keys, CoherentAt(k)
  PROVE  CoherentAt(k)'
<1>1. store' = store
  BY MergeLayers
<1>3. NumFiles \in Layers /\ NumFiles + 1 \in Layers
  BY ConstantsAssumption DEF Layers
<1>5. \A n \in Layers : n < NumFiles => Layer(n, k)' = Layer(n, k)
  BY MergeLayers
<1>6. \A n \in Layers : n < NumFiles \/ n = NumFiles \/ n = NumFiles + 1
  BY ConstantsAssumption DEF Layers
<1>7. CoherentAt(k)
  OBVIOUS
<1> DEFINE newer == IF Layer(NumFiles, k) # None THEN Layer(NumFiles, k)
                                             ELSE Layer(NumFiles + 1, k)
<1>8. /\ Layer(NumFiles, k)' = IF newer = Tomb THEN None ELSE newer
      /\ Layer(NumFiles + 1, k)' = None
  BY MergeLayers
<1>9. CASE \E n \in Layers : n < NumFiles /\ Layer(n, k) # None
  <2>1. PICK n \in Layers : n < NumFiles /\ Layer(n, k) # None /\ Layer(n, k) = store[k]
                         /\ \A m \in Layers : m < n => Layer(m, k) = None
    BY <1>7, <1>9, <1>6, ConstantsAssumption DEF CoherentAt, Layers
  <2>2. \A m \in Layers : m < n => Layer(m, k)' = None
    BY <1>5, <2>1, ConstantsAssumption DEF Layers
  <2> QED
    BY <1>1, <1>5, <2>1, <2>2 DEF CoherentAt, Layers
<1>10. CASE \A n \in Layers : n < NumFiles => Layer(n, k) = None
  <2>1. \A n \in Layers : n < NumFiles => Layer(n, k)' = None
    BY <1>5, <1>10
  <2>2. newer # None => newer = store[k]
    <3>1. CASE \A n \in Layers : Layer(n, k) = None
      BY <1>3, <3>1
    <3>2. CASE \E n \in Layers : /\ Layer(n, k) # None /\ Layer(n, k) = store[k]
                                /\ \A m \in Layers : m < n => Layer(m, k) = None
      BY <1>3, <1>6, <1>10, <3>2, ConstantsAssumption DEF Layers
    <3> QED BY <1>7, <3>1, <3>2 DEF CoherentAt
  <2>3. newer = None => store[k] \in {None, Tomb}
    BY <1>3, <1>6, <1>7, <1>10 DEF CoherentAt, Layers
  <2>4. CASE Layer(NumFiles, k)' # None
    <3>1. \A m \in Layers : m < NumFiles => Layer(m, k)' = None
      BY <2>1
    <3> QED
      BY <1>1, <1>3, <1>8, <2>2, <2>4, <3>1 DEF CoherentAt, Layers
  <2>5. CASE Layer(NumFiles, k)' = None
    <3>1. \A n \in Layers : Layer(n, k)' = None
      BY <1>6, <1>8, <2>1, <2>5
    <3>2. store[k] \in {None, Tomb}
      BY <1>8, <2>2, <2>3, <2>5
    <3> QED BY <1>1, <3>1, <3>2 DEF CoherentAt, Layers
  <2> QED BY <2>4, <2>5
<1> QED BY <1>9, <1>10

\* The publication moves every file one place down: the tree's place goes to
\* its file.
LEMMA PublishCoherent ==
  ASSUME TypeAndOwner, StageContent, NEW a \in Adjusters, AdjustPublish(a),
         NEW k \in Keys, CoherentAt(k)
  PROVE  CoherentAt(k)'
<1>1. /\ recent \in Index /\ recent' = (recent + 1) % NumFiles /\ store' = store
      /\ bintree' = bintree /\ reserve' = Null /\ filesys' = filesys
      /\ apc[a] = "synced" /\ apc'[a] = "unlock"
      /\ \A b \in Adjusters \ {a} : apc'[b] = apc[b]
  BY DEF AdjustPublish, Stage, history, TypeAndOwner, TypeOK
<1>2. ~Rewriting /\ Absorbed /\ ~Rewriting' /\ ~Absorbed'
  BY <1>1, Stages DEF Pending, Working
<1>3. reserve # Null /\ filesys[Oldest] = reserve
  BY <1>1, ConstantsAssumption, WorkingReserve
  DEF Working, StageContent, Contents, Entry
<1>4. /\ 0 \in Layers /\ 1 \in Layers /\ 2 \in Layers /\ NumFiles + 1 \in Layers
      /\ \A n \in Layers : n = 0 \/ n = 1 \/ n = 2 \/ n >= 3
  BY ConstantsAssumption DEF Layers
<1>5. /\ Layer(0, k)' = Layer(0, k) /\ Layer(1, k)' = None
      /\ Layer(2, k)' = Layer(1, k) /\ Layer(NumFiles + 1, k) = None
  <2>1. Layer(0, k)' = Layer(0, k) /\ Layer(1, k)' = None
    BY <1>1 DEF Layer
  <2>2. Layer(1, k) = filesys[Oldest][k]
    BY <1>3 DEF Layer
  <2>3. Layer(2, k)' = filesys[Oldest][k]
    BY <1>1, <1>2, SlotShift DEF Layer, InFile
  <2>4. Layer(NumFiles + 1, k) = None
    <3>1. Layer(NumFiles + 1, k) = InFile(NumFiles - 1, k)
      BY LastLayer
    <3> QED BY <1>1, <1>2, <3>1, OldestTwo
  <2> QED BY <2>1, <2>2, <2>3, <2>4
<1>6. ASSUME NEW n \in Layers, n >= 3
      PROVE  n - 1 \in Layers /\ Layer(n, k)' = Layer(n - 1, k)
  <2>1. /\ n - 2 \in 1 .. NumFiles - 1 /\ n - 2 - 1 = n - 3
        /\ n - 1 \in Layers /\ n - 1 >= 2 /\ n - 1 - 2 = n - 3
        /\ n - 3 # NumFiles - 1 /\ n >= 2
    BY <1>6, ConstantsAssumption DEF Layers
  <2>2. Slot(n - 2)' = Slot(n - 3)
    BY <1>1, <2>1, SlotShift
  <2>3. InFile(n - 2, k)' = filesys[Slot(n - 3)][k]
    BY <1>1, <1>2, <2>2 DEF InFile
  <2>4. InFile(n - 3, k) = filesys[Slot(n - 3)][k]
    BY <1>2, <2>1 DEF InFile
  <2>5. Layer(n, k)' = InFile(n - 2, k)'
    BY <2>1, FileLayers
  <2>6. Layer(n - 1, k) = InFile(n - 3, k)
    BY <2>1, FileLayers
  <2> QED BY <2>1, <2>3, <2>4, <2>5, <2>6
<1>7. CoherentAt(k)
  OBVIOUS
<1>8. CASE \A n \in Layers : Layer(n, k) = None
  BY <1>1, <1>4, <1>5, <1>6, <1>7, <1>8 DEF CoherentAt, Layers
<1>9. CASE \E n \in Layers : /\ Layer(n, k) # None /\ Layer(n, k) = store[k]
                            /\ \A m \in Layers : m < n => Layer(m, k) = None
  <2>1. PICK n \in Layers : /\ Layer(n, k) # None /\ Layer(n, k) = store[k]
                           /\ \A m \in Layers : m < n => Layer(m, k) = None
    BY <1>9
  <2>2. CASE n = 0
    <3>1. \A m \in Layers : ~(m < 0)
      BY DEF Layers
    <3> QED BY <1>1, <1>4, <1>5, <2>1, <2>2, <3>1 DEF CoherentAt, Layers
  <2>3. CASE n # 0
    <3>1. n + 1 \in Layers /\ n + 1 >= 2 /\ n \in Nat /\ n + 1 - 1 = n
      BY <1>5, <2>1, <2>3, ConstantsAssumption DEF Layers
    <3>2. Layer(n + 1, k)' = Layer(n, k)
      BY <1>4, <1>5, <1>6, <3>1 DEF Layers
    <3>3. ASSUME NEW m \in Layers, m < n + 1 PROVE Layer(m, k)' = None
      <4>1. CASE m = 0
        BY <1>4, <1>5, <2>1, <2>3, <4>1 DEF Layers
      <4>2. CASE m = 1
        BY <1>5, <4>2
      <4>3. CASE m = 2
        BY <1>4, <1>5, <2>1, <3>1, <3>3, <4>3
      <4>4. CASE m >= 3
        <5>1. m - 1 \in Layers /\ m - 1 < n
          BY <3>1, <3>3, <4>4, ConstantsAssumption DEF Layers
        <5> QED BY <1>6, <2>1, <4>4, <5>1
      <4> QED BY <1>4, <4>1, <4>2, <4>3, <4>4
    <3> QED BY <1>1, <2>1, <3>1, <3>2, <3>3 DEF CoherentAt, Layers
  <2> QED BY <2>2, <2>3
<1> QED BY <1>7, <1>8, <1>9 DEF CoherentAt
-----------------------------------------------------------------------------
(* The invariant *)

\* What each stage of an adjust relies on is left by the stage before.
LEMMA FilingStage ==
  ASSUME TypeAndOwner, StageContent, NEW a \in Adjusters, Filing(a)
  PROVE  StageContent'
<1>1. CASE AdjustUnlock(a) \/ AdjustPublish(a)
  <2>1. \A b \in Adjusters : apc'[b] \notin Working
    <3>1. apc[a] \in {"unlock", "synced"} /\ apc'[a] \in {"unlock", "none"}
          /\ \A b \in Adjusters \ {a} : apc'[b] = apc[b]
      BY <1>1 DEF AdjustUnlock, AdjustPublish, Stage, TypeAndOwner, TypeOK
    <3> QED BY <3>1 DEF Working, TypeAndOwner, OneAdjust
  <2> QED BY <2>1 DEF StageContent, Working
<1>2. CASE ~AdjustUnlock(a) /\ ~AdjustPublish(a)
  <2>1. apc[a] \in Pending /\ \A b \in Adjusters \ {a} : apc'[b] = apc[b]
    BY <1>2 DEF Filing, FileStep, AdjustBegin, AdjustTruncate, MergeFlush,
       MergeDone, AdjustReopen, DumpFlush, AdjustDump, SyncRecord, Stage,
       Pending, Working, TypeAndOwner, TypeOK
  <2>2. \A b \in Adjusters \ {a} : apc'[b] \notin Working
    BY <2>1 DEF Working, TypeAndOwner, OneAdjust
  <2>3. apc'[a] = "copied" => tempfile' = filesys'[SecondOldest']
    BY <1>2 DEF Filing, FileStep, AdjustBegin, AdjustTruncate, MergeFlush,
       MergeDone, AdjustReopen, DumpFlush, AdjustDump, SyncRecord, Stage,
       TypeAndOwner, TypeOK, memory, SecondOldest
  <2>4. apc'[a] \in {"dumped", "synced"} => filesys'[Oldest'] = reserve'
    <3>1. Oldest \in Index /\ filesys \in [Index -> Contents]
      BY RingTypes DEF TypeAndOwner, TypeOK
    <3>2. CASE AdjustDump(a)
      BY <3>1, <3>2 DEF AdjustDump, memory, Oldest
    <3>3. CASE SyncRecord(a)
      BY <3>3 DEF SyncRecord, Stage, StageContent, memory, Oldest
    <3>4. CASE ~AdjustDump(a) /\ ~SyncRecord(a)
      BY <1>2, <3>4 DEF Filing, FileStep, AdjustBegin, AdjustTruncate,
         MergeFlush, MergeDone, AdjustReopen, DumpFlush, Stage,
         TypeAndOwner, TypeOK
    <3> QED BY <3>2, <3>3, <3>4
  <2> QED BY <2>2, <2>3, <2>4 DEF StageContent, Working
<1> QED BY <1>1, <1>2

\* Serve threads write no files.
LEMMA ServeStage ==
  ASSUME TypeAndOwner, StageContent, NEW t \in Threads, Serve(t)
  PROVE  StageContent'
<1>1. CASE UNCHANGED <<tempfile, filesys, recent, reserve, apc>>
  BY <1>1 DEF StageContent, Oldest, SecondOldest
<1>2. CASE Check(t) /\ TreeFull
  <2>1. PICK a \in Adjusters : apc[a] = "none" /\ apc' = [apc EXCEPT ![a] = "wait"]
    BY <1>2 DEF Check
  <2>2. \A b \in Adjusters : apc'[b] \notin Working
    <3>1. \A b \in Adjusters : apc[b] \notin Pending
      BY <1>2 DEF TreeFull, TypeAndOwner, OneAdjust
    <3> QED BY <2>1, <3>1 DEF Pending, Working, TypeAndOwner, TypeOK
  <2> QED BY <2>2 DEF StageContent, Working
<1> QED
  BY <1>1, <1>2
  DEF Serve, DbWrite, DbRead, ScanFile, ReadDanger, Check, memory, disk

\* Every step leaves what the next stages rely on.
LEMMA StageStep ==
  ASSUME CoherentInv, [Next]_vars PROVE StageContent'
<1>1. CASE UNCHANGED vars
  BY <1>1 DEF CoherentInv, StageContent, Oldest, SecondOldest, vars, memory, disk
<1> QED
  BY <1>1, AdjustFiles, FilingStage, ServeStage DEF Next, CoherentInv

\* A step of a serve thread preserves the coherence of every key.
LEMMA ServeCoherent ==
  ASSUME TypeAndOwner, NEW t \in Threads, Serve(t), NEW k \in Keys, CoherentAt(k)
  PROVE  CoherentAt(k)'
<1>1. CASE \E j \in Keys, v \in Vals \cup {Tomb} : DbWrite(t, j, v)
  BY <1>1, WriteCoherent
<1>2. CASE (\E j \in Keys : DbRead(t, j)) \/ ScanFile(t) \/ ReadDanger(t)
  BY <1>2, ReadCoherent DEF DbRead, ScanFile, ReadDanger, history
<1>3. CASE Check(t)
  BY <1>3, CheckCoherent
<1> QED BY <1>1, <1>2, <1>3 DEF Serve

\* So does a step of adjust, whoever runs it.
LEMMA FilingCoherent ==
  ASSUME TypeAndOwner, StageContent, NEW a \in Adjusters, Filing(a),
         NEW k \in Keys, CoherentAt(k)
  PROVE  CoherentAt(k)'
  BY QuietCoherent, MergeCoherent, PublishCoherent

\* Every step preserves Coherent.
LEMMA CoherentStep ==
  ASSUME CoherentInv, [Next]_vars PROVE Coherent'
<1> SUFFICES ASSUME NEW k \in Keys PROVE CoherentAt(k)'
  BY EveryKey
<1>1. TypeAndOwner /\ StageContent /\ CoherentAt(k)
  BY EveryKey DEF CoherentInv
<1>2. CASE UNCHANGED vars
  BY <1>1, <1>2, ReadCoherent DEF vars, history
<1> QED
  BY <1>1, <1>2, ServeCoherent, FilingCoherent, AdjustFiles DEF Next

\* At the start no layer has an entry and nothing has been written.
LEMMA InitCoherent == Init => CoherentInv
<1> SUFFICES ASSUME Init PROVE CoherentInv
  OBVIOUS
<1>1. TypeAndOwner
  BY InitTypeAndOwner
<1>2. StageContent
  BY DEF Init, StageContent
<1>3. \A j \in 0 .. NumFiles - 1, k \in Keys : InFile(j, k) = None
  <2>1. ~Rewriting
    BY DEF Init, Rewriting
  <2>2. \A j \in 0 .. NumFiles - 1 : Slot(j) \in Index
    BY <1>1, Slots DEF TypeAndOwner, TypeOK
  <2> QED BY <2>1, <2>2 DEF InFile, Init, Empty
<1>4. \A n \in Layers, k \in Keys : Layer(n, k) = None
  <2> SUFFICES ASSUME NEW n \in Layers, NEW k \in Keys PROVE Layer(n, k) = None
    OBVIOUS
  <2>1. CASE n < 2
    <3>1. bintree[k] = None /\ reserve = Null
      BY DEF Init, Empty
    <3>2. n = 0 \/ n = 1
      BY <2>1, ConstantsAssumption DEF Layers
    <3> QED BY <3>1, <3>2 DEF Layer
  <2>2. CASE n >= 2
    <3>1. n - 2 \in 0 .. NumFiles - 1 /\ Layer(n, k) = InFile(n - 2, k)
      BY <2>2, FileLayers
    <3>2. InFile(n - 2, k) = None
      BY <1>3, <3>1
    <3> QED BY <3>1, <3>2
  <2> QED BY <2>1, <2>2, ConstantsAssumption DEF Layers
<1>5. Coherent
  BY <1>4 DEF Coherent, Init
<1> QED BY <1>1, <1>2, <1>5 DEF CoherentInv

\* Whatever serve and adjust do and however their steps interleave, the layers
\* of the store tell, for every key, what was last written to it.
THEOREM StoreCoherent == Spec => []Coherent
<1>1. CoherentInv /\ [Next]_vars => CoherentInv'
  BY StepTypeAndOwner, StageStep, CoherentStep DEF CoherentInv
<1>2. CoherentInv => Coherent
  BY DEF CoherentInv
<1> QED
  BY InitCoherent, <1>1, <1>2, PTL DEF Spec

\* A tree is freed only when the file that recent names from then on holds it,
\* and is never replaced by another.
THEOREM TreesReachFiles == Spec => TreeFreedOnceFiled
<1>1. ASSUME CoherentInv, [Next]_vars
      PROVE  reserve # Null /\ reserve' # reserve =>
               reserve' = Null /\ filesys'[recent'] = reserve
  <2> SUFFICES ASSUME reserve # Null, reserve' # reserve
               PROVE  reserve' = Null /\ filesys'[recent'] = reserve
    OBVIOUS
  <2>1. PICK a \in Adjusters : AdjustPublish(a)
    BY <1>1 DEF Next, Serve, DbWrite, DbRead, ScanFile, ReadDanger, Check, TreeFull,
       Adjust, FileStep, AdjustBegin, AdjustTruncate, MergeFlush, MergeDone,
       AdjustReopen, DumpFlush, AdjustDump, AdjustSync, AdjustUnlock, vars, memory
  <2> QED
    BY <1>1, <2>1 DEF CoherentInv, StageContent, AdjustPublish, Stage, Oldest
<1>2. CoherentInv /\ [Next]_vars => CoherentInv'
  BY StepTypeAndOwner, StageStep, CoherentStep DEF CoherentInv
<1> QED
  BY InitCoherent, <1>1, <1>2, PTL DEF Spec, TreeFreedOnceFiled
-----------------------------------------------------------------------------
(* The backups *)

\* The backup that logged reserve has it until the tree's file has, and is
\* empty when there is no reserve.
LogsHold ==
  \/ backups[OtherBackup] = IF reserve = Null THEN Empty ELSE reserve
  \/ /\ backups[OtherBackup] = Empty
     /\ \E a \in Adjusters : apc[a] = "synced"

BackupsHold == backups[current] = bintree /\ LogsHold

\* What the steps below need to know of the types.
LEMMA BackupTypes ==
  ASSUME TypeAndOwner
  PROVE  /\ current \in 0 .. 1 /\ OtherBackup \in 0 .. 1 /\ OtherBackup # current
         /\ backups \in [0 .. 1 -> Contents] /\ bintree \in Contents
         /\ reserve \in Contents \cup {Null} /\ Null \notin Contents
         /\ apc \in [Adjusters -> Pending \cup {"none", "unlock"}]
  BY OtherType, ConstantsAssumption DEF TypeAndOwner, TypeOK, Contents, Entry

\* Steps of adjust that write files are not taken while a tree waits to be
\* published.
LEMMA FileStepPending ==
  ASSUME TypeAndOwner, NEW a \in Adjusters, FileStep(a)
  PROVE  /\ apc[a] \in Pending \ {"synced"}
         /\ \A b \in Adjusters : apc[b] # "synced"
<1>1. apc[a] \in Pending \ {"synced"}
  BY DEF FileStep, AdjustBegin, AdjustTruncate, MergeFlush, MergeDone,
     AdjustReopen, DumpFlush, AdjustDump, Stage, Pending, Working
<1> QED
  BY <1>1 DEF TypeAndOwner, OneAdjust

\* No step of adjust touches the log of bintree, and the other backup keeps
\* reserve until its file has it.
LEMMA FilingLogs ==
  ASSUME TypeAndOwner, LogsHold, NEW a \in Adjusters, Filing(a)
  PROVE  /\ LogsHold'
         /\ UNCHANGED <<bintree, current>> /\ backups'[current] = backups[current]
<1>0. /\ current \in 0 .. 1 /\ OtherBackup \in 0 .. 1 /\ OtherBackup # current
      /\ backups \in [0 .. 1 -> Contents]
      /\ apc \in [Adjusters -> Pending \cup {"none", "unlock"}]
  BY BackupTypes
<1>1. CASE FileStep(a)
  <2>1. UNCHANGED <<memory, backups>>
    BY <1>1 DEF FileStep, AdjustBegin, AdjustTruncate, MergeFlush, MergeDone,
       AdjustReopen, DumpFlush, AdjustDump
  <2> QED
    BY <1>1, <2>1, FileStepPending DEF LogsHold, OtherBackup, memory
<1>2. CASE AdjustPublish(a)
  <2>1. /\ UNCHANGED <<bintree, current>> /\ reserve' = Null
        /\ backups'[current] = backups[current] /\ backups'[OtherBackup] = Empty
    BY <1>0, <1>2 DEF AdjustPublish, RetireBackup
  <2> QED
    BY <2>1 DEF LogsHold, OtherBackup
<1>3. CASE AdjustUnlock(a)
  <2>1. UNCHANGED <<memory, backups>> /\ \A b \in Adjusters : apc[b] = "synced" => apc'[b] = "synced"
    BY <1>0, <1>3 DEF AdjustUnlock, Stage, disk
  <2> QED
    BY <2>1 DEF LogsHold, OtherBackup, memory
<1>4. CASE SyncRecord(a)
  <2>1. /\ UNCHANGED memory /\ backups'[current] = backups[current] /\ apc'[a] = "synced"
        /\ \A b \in Adjusters : apc[b] = "synced" => apc'[b] = "synced"
        /\ \/ backups'[OtherBackup] = Empty
           \/ backups'[OtherBackup] = backups[OtherBackup]
    BY <1>0, <1>4 DEF SyncRecord, Stage, RetireBackup
  <2> QED
    BY <2>1 DEF LogsHold, OtherBackup, memory
<1> QED
  BY <1>1, <1>2, <1>3, <1>4 DEF Filing

\* Serve threads log what they write, and start a log when the one before is
\* empty.
LEMMA ServeBackups ==
  ASSUME TypeAndOwner, BackupsHold, NEW t \in Threads, Serve(t)
  PROVE  BackupsHold'
<1>0. /\ current \in 0 .. 1 /\ OtherBackup \in 0 .. 1 /\ OtherBackup # current
      /\ backups \in [0 .. 1 -> Contents] /\ bintree \in Contents
      /\ Null \notin Contents
  BY BackupTypes
<1>1. CASE UNCHANGED <<memory, disk, apc>>
  BY <1>1 DEF BackupsHold, LogsHold, OtherBackup, memory, disk
<1>2. ASSUME NEW k \in Keys, NEW v \in Vals \cup {Tomb}, DbWrite(t, k, v)
      PROVE  BackupsHold'
  <2>1. /\ backups'[current] = [backups[current] EXCEPT ![k] = v]
        /\ backups'[OtherBackup] = backups[OtherBackup]
        /\ bintree' = [bintree EXCEPT ![k] = v]
        /\ UNCHANGED <<current, reserve, apc>>
    BY <1>0, <1>2 DEF DbWrite
  <2> QED
    BY <2>1 DEF BackupsHold, LogsHold, OtherBackup
<1>3. CASE Check(t) /\ TreeFull
  <2>1. /\ current' = OtherBackup /\ bintree' = Empty /\ reserve' = bintree
        /\ backups' = [backups EXCEPT ![OtherBackup] = Empty]
    BY <1>3 DEF Check
  <2>2. OtherBackup' = current
    BY <1>0, <2>1 DEF OtherBackup
  <2>3. backups'[OtherBackup] = Empty /\ backups'[current] = bintree
    BY <1>0, <2>1 DEF BackupsHold
  <2>4. reserve' # Null
    BY <1>0, <2>1
  <2> QED
    BY <2>1, <2>2, <2>3, <2>4 DEF BackupsHold, LogsHold
<1> QED
  BY <1>1, <1>2, <1>3
  DEF Serve, DbRead, ScanFile, ReadDanger, Check, memory, disk

\* Every step leaves what memory alone holds in the backups.
LEMMA BackupsStep ==
  ASSUME CoherentInv, BackupsHold, [Next]_vars PROVE BackupsHold'
<1>1. CASE UNCHANGED vars
  BY <1>1 DEF BackupsHold, LogsHold, OtherBackup, vars, memory, disk
<1>2. ASSUME NEW a \in Adjusters, Adjust(a) PROVE BackupsHold'
  BY <1>2, AdjustFiles, FilingLogs DEF CoherentInv, BackupsHold
<1> QED
  BY <1>1, <1>2, ServeBackups DEF CoherentInv, Next

\* Whatever is in memory alone can be replayed from a backup, whenever the
\* process stops.
THEOREM BackupsKept == Spec => []BackupsCoverMemory
<1>1. Init => BackupsHold
  BY DEF Init, BackupsHold, LogsHold, OtherBackup
<1>2. CoherentInv /\ [Next]_vars => CoherentInv'
  BY StepTypeAndOwner, StageStep, CoherentStep DEF CoherentInv
<1>3. CoherentInv /\ BackupsHold => BackupsCoverMemory
  BY DEF CoherentInv, StageContent, BackupsHold, LogsHold, BackupsCoverMemory
<1> QED
  BY InitCoherent, <1>1, <1>2, <1>3, BackupsStep, PTL DEF Spec
=============================================================================
