--------------------------- MODULE RecoveryProofs ---------------------------
(***************************************************************************)
(* The proof of what a restart guarantees, for every number of keys,       *)
(* files, threads and ends of the process: RecoveredCoherent, BackupsFiled *)
(* and BloomCovers.  The invariant says, at each point of the constructor, *)
(* where the value last written to a key is found: in a backup that is     *)
(* still to be filed, or else in the files.                                *)
(***************************************************************************)
EXTENDS Recovery, MasterCoherence

Booting == {"down", "load0", "adjust0", "load1", "adjust1", "tree", "load",
            "bloom", "exit"}

RTypes ==
  /\ TypeAndOwner
  /\ now > 0
  /\ boot \in Booting \cup {"up"}
  /\ bloomOk \in BOOLEAN /\ torn \in BOOLEAN /\ swapped \in BOOLEAN
  /\ halfSet \in BOOLEAN
  /\ crashes \in Nat

\* What the two files an adjust rewrites hold: the second oldest the whole
\* merge once it has returned, and the oldest nothing but entries of the tree,
\* from its header on.
FileContent ==
  \A a \in Adjusters :
    /\ apc[a] = "merged" => filesys[SecondOldest] = Merged
    /\ apc[a] = "dumping" =>
         /\ \A k \in Keys : filesys[Oldest][k] \in {None, reserve[k]}
         /\ stamp[Oldest] = NoStamp => filesys[Oldest] = Empty
    /\ apc[a] \in {"dumped", "synced"} => stamp[Oldest] # NoStamp

\* A key that was never written is nowhere.
OnlyWritten ==
  \A k \in Keys : store[k] = None =>
    /\ bintree[k] = None /\ tempfile[k] = None
    /\ reserve # Null => reserve[k] = None
    /\ \A i \in Index : filesys[i][k] = None
    /\ \A b \in 0 .. 1 : backups[b][k] = None

\* What memory and the backups hold at each point of the constructor.
Phases ==
  /\ boot = "up" => backups[current] = bintree
  /\ boot # "up" => bintree = Empty
  /\ boot \in {"up", "adjust0", "adjust1"} => LogsHold
  /\ boot \notin {"up", "adjust0", "adjust1"} =>
       reserve = Null /\ \A a \in Adjusters : apc[a] = "none"
  /\ boot = "adjust0" => current = 1
  /\ boot \in {"adjust1", "load", "bloom"} => current = 0
  /\ boot \in {"load1", "adjust1", "tree", "load", "bloom"} => backups[0] = Empty
  /\ boot \in {"tree", "load", "bloom"} => backups[1] = Empty

\* The files alone, from file r back, tell what was last written to the key.
FilesTell(r, k) ==
  \/ \E j \in Index :
       /\ filesys[Behind(r, j)][k] # None /\ filesys[Behind(r, j)][k] = store[k]
       /\ \A m \in Index : m < j => filesys[Behind(r, m)][k] = None
  \/ /\ \A j \in Index : filesys[Behind(r, j)][k] = None
     /\ store[k] \in {None, Tomb}

\* Backup b has the value last written to the key, if it has one, and what
\* follows says what holds if it has none.
Logged(b, k, otherwise) ==
  IF backups[b][k] # None THEN backups[b][k] = store[k] ELSE otherwise

\* Where the value last written to the key is, until the constructor returns.
Found(k) ==
  /\ boot = "down" =>
       Logged(1, k, Logged(0, k, \A r \in Candidates : FilesTell(r, k)))
  /\ boot = "load0" => Logged(1, k, Logged(0, k, CoherentAt(k)))
  /\ boot \in {"adjust0", "load1"} => Logged(1, k, CoherentAt(k))
  /\ boot \in {"adjust1", "tree", "load", "bloom", "up"} => CoherentAt(k)

RInv ==
  /\ RTypes /\ StageContent /\ FileContent /\ OnlyWritten /\ Phases
  /\ ~torn /\ ~swapped => \A k \in Keys : Found(k)
-----------------------------------------------------------------------------
(* What an end of the process leaves in the files *)

\* The two trees come first.
LEMMA TopLayers ==
  ASSUME NEW k \in Keys, CoherentAt(k)
  PROVE  /\ bintree[k] # None => bintree[k] = store[k]
         /\ bintree[k] = None /\ reserve # Null /\ reserve[k] # None => reserve[k] = store[k]
<1>1. Layer(0, k) = bintree[k] /\ Layer(1, k) = IF reserve = Null THEN None ELSE reserve[k]
  BY DEF Layer
<1>2. 0 \in Layers /\ 1 \in Layers /\ \A n \in Layers : n = 0 \/ n = 1 \/ (0 < n /\ 1 < n)
  BY ConstantsAssumption DEF Layers
<1> QED
  BY <1>1, <1>2 DEF CoherentAt

\* Once the file being dumped has its header it is the newest: what it holds
\* of the key is what reserve holds, and the oldest counts for nothing.
LEMMA DumpTells ==
  ASSUME TypeAndOwner, StageContent, FileContent,
         NEW a \in Adjusters, apc[a] \in {"dumping", "dumped", "synced"},
         NEW k \in Keys, CoherentAt(k), bintree[k] = None,
         reserve[k] = None \/ apc[a] = "synced"
  PROVE  FilesTell(Oldest, k)
<1>1. /\ recent \in Index /\ recent \in Nat /\ Oldest = (recent + 1) % NumFiles
      /\ ~Rewriting /\ Absorbed /\ reserve \in Contents /\ reserve # Null
  <2>1. \A b \in Adjusters \ {a} : apc[b] \in {"none", "unlock"}
    BY DEF TypeAndOwner, OneAdjust, Pending, Working
  <2>2. reserve \in Contents
    BY WorkingReserve DEF Working
  <2> QED
    BY <2>1, <2>2, RingTypes, ConstantsAssumption
    DEF Rewriting, Absorbed, TypeAndOwner, TypeOK, Oldest, Contents, Entry
<1>2. Layer(0, k) = None /\ Layer(1, k) = reserve[k] /\ Layer(NumFiles + 1, k) = None
  BY <1>1, LastLayer, OldestTwo DEF Layer
<1>3. filesys[Oldest][k] = reserve[k]
  BY DEF StageContent, FileContent
<1>4. ASSUME NEW j \in Index PROVE j + 1 \in Layers /\ filesys[Behind(Oldest, j)][k] = Layer(j + 1, k)
  <2>1. CASE j = 0
    BY <1>1, <1>2, <1>3, <2>1, RingShift, ConstantsAssumption DEF Layers
  <2>2. CASE j # 0
    <3>1. j \in 1 .. NumFiles - 1 /\ j - 1 \in 0 .. NumFiles - 1 /\ j - 1 # NumFiles - 1
          /\ j - 1 + 2 = j + 1 /\ j + 1 \in Layers
      BY <2>2, ConstantsAssumption DEF Index, Layers
    <3>2. Behind(Oldest, j) = Behind(recent, j - 1) /\ Behind(recent, j - 1) = Slot(j - 1)
      <4>1. Behind(Oldest, j) = Behind(recent, j - 1)
        BY <1>1, <3>1, RingShift
      <4> QED BY <4>1 DEF Slot, Behind
    <3>3. InFile(j - 1, k) = filesys[Slot(j - 1)][k]
      BY <1>1, <3>1 DEF InFile
    <3>4. Layer(j + 1, k) = InFile(j - 1, k)
      BY <3>1, LayerOfFile
    <3> QED BY <3>1, <3>2, <3>3, <3>4
  <2> QED BY <2>1, <2>2
<1>5. CASE \A n \in Layers : Layer(n, k) = None
  <2>1. store[k] \in {None, Tomb}
    BY <1>5 DEF CoherentAt
  <2> QED BY <1>4, <1>5, <2>1 DEF FilesTell
<1>6. CASE \E n \in Layers : /\ Layer(n, k) # None /\ Layer(n, k) = store[k]
                            /\ \A m \in Layers : m < n => Layer(m, k) = None
  <2>1. PICK n \in Layers : /\ Layer(n, k) # None /\ Layer(n, k) = store[k]
                           /\ \A m \in Layers : m < n => Layer(m, k) = None
    BY <1>6
  <2>2. n - 1 \in Index /\ n - 1 + 1 = n
    BY <1>2, <2>1, ConstantsAssumption DEF Layers, Index
  <2>3. \A m \in Index : m < n - 1 => m + 1 < n
    BY <2>2 DEF Index
  <2> QED BY <1>4, <2>1, <2>2, <2>3 DEF FilesTell
<1> QED BY <1>5, <1>6 DEF CoherentAt
\* Otherwise the newest file is the one that recent names, and an end that
\* does not tear the merge leaves the two oldest files good for their copies.
LEMMA RecentTells ==
  ASSUME TypeAndOwner, StageContent, FileContent, OnlyWritten, ~MergeTorn,
         \A a \in Adjusters : apc[a] \in {"dumping", "dumped", "synced"} => stamp[Oldest] = NoStamp,
         NEW k \in Keys, CoherentAt(k), bintree[k] = None,
         reserve = Null \/ reserve[k] = None
  PROVE  FilesTell(recent, k)
<1> DEFINE newer == IF Layer(NumFiles, k) # None THEN Layer(NumFiles, k)
                                             ELSE Layer(NumFiles + 1, k)
           left  == IF filesys[SecondOldest][k] # None THEN filesys[SecondOldest][k]
                                                     ELSE filesys[Oldest][k]
<1>1. /\ recent \in Index /\ Oldest \in Index /\ SecondOldest \in Index
      /\ filesys \in [Index -> Contents]
  BY RingTypes DEF TypeAndOwner, TypeOK
<1>2. Layer(0, k) = None /\ Layer(1, k) = None
  BY DEF Layer
<1>3. /\ Layer(NumFiles, k) = IF Rewriting THEN tempfile[k] ELSE filesys[SecondOldest][k]
      /\ Layer(NumFiles + 1, k) = IF Absorbed THEN None ELSE filesys[Oldest][k]
  <2>1. NumFiles - 2 \in 0 .. NumFiles - 1 /\ NumFiles - 2 + 2 = NumFiles
    BY ConstantsAssumption
  <2>2. Layer(NumFiles, k) = InFile(NumFiles - 2, k)
    BY <2>1, LayerOfFile
  <2> QED BY <1>1, <2>2, LastLayer, OldestTwo
<1>4. Gone(left) = Gone(newer)
  <2>1. CASE ~Rewriting /\ ~Absorbed
    BY <1>3, <2>1
  <2>2. ASSUME NEW a \in Adjusters, apc[a] = "merging" PROVE Gone(left) = Gone(newer)
    <3>1. Rewriting /\ ~Absorbed
      BY <2>2 DEF Rewriting, Absorbed, TypeAndOwner, OneAdjust, Pending, Working
    <3>2. newer = IF tempfile[k] # None THEN tempfile[k] ELSE filesys[Oldest][k]
      BY <1>3, <3>1
    <3> QED BY <2>2, <3>2 DEF MergeTorn, Gone
  <2>3. ASSUME NEW a \in Adjusters, apc[a] = "merged" PROVE Gone(left) = Gone(newer)
    <3>1. ~Rewriting /\ Absorbed
      BY <2>3 DEF Rewriting, Absorbed, TypeAndOwner, OneAdjust, Pending, Working
    <3>2. filesys[SecondOldest][k] = Gone(IF tempfile[k] # None THEN tempfile[k] ELSE filesys[Oldest][k])
      BY <2>3 DEF FileContent, Merged, MergeFiles, Gone
    <3>3. Gone(left) = Gone(IF tempfile[k] # None THEN tempfile[k] ELSE filesys[Oldest][k])
      BY <2>3 DEF MergeTorn, Gone
    <3>4. newer = filesys[SecondOldest][k]
      BY <1>3, <3>1
    <3> QED BY <3>2, <3>3, <3>4, EntriesAssumption DEF Gone
  <2>4. ASSUME NEW a \in Adjusters, apc[a] \in {"dumping", "dumped", "synced"}
        PROVE  Gone(left) = Gone(newer)
    <3>1. ~Rewriting /\ Absorbed
      BY <2>4 DEF Rewriting, Absorbed, TypeAndOwner, OneAdjust, Pending, Working
    <3>2. filesys[Oldest][k] = None
      BY <2>4 DEF FileContent, Empty
    <3> QED BY <1>3, <3>1, <3>2
  <2> QED BY <2>1, <2>2, <2>3, <2>4 DEF Rewriting, Absorbed
<1>5. /\ left = newer \/ {left, newer} = {None, Tomb}
      /\ left # None => store[k] # None
  BY <1>1, <1>4, EntriesAssumption DEF Gone, OnlyWritten
<1>6. ASSUME NEW j \in Index
      PROVE  /\ j < NumFiles - 2 => /\ j + 2 \in Layers /\ j + 2 < NumFiles
                                    /\ filesys[Behind(recent, j)][k] = Layer(j + 2, k)
             /\ j = NumFiles - 2 => filesys[Behind(recent, j)][k] = filesys[SecondOldest][k]
             /\ j = NumFiles - 1 => filesys[Behind(recent, j)][k] = filesys[Oldest][k]
  <2>1. Behind(recent, j) = Slot(j)
    BY DEF Behind, Slot
  <2>2. CASE j < NumFiles - 2
    <3>1. /\ j + 2 \in Layers /\ j + 2 < NumFiles /\ j # NumFiles - 2 /\ j # NumFiles - 1
          /\ j \in 0 .. NumFiles - 1
      BY <2>2, ConstantsAssumption DEF Index, Layers
    <3> QED BY <2>1, <3>1, LayerOfFile DEF InFile
  <2>3. CASE j = NumFiles - 2 \/ j = NumFiles - 1
    <3>1. /\ j \in 0 .. NumFiles - 1 /\ ~(j < NumFiles - 2)
          /\ ~(j = NumFiles - 2 /\ j = NumFiles - 1)
      BY <2>3, ConstantsAssumption DEF Index
    <3>2. (Slot(j) = Oldest <=> j = NumFiles - 1) /\ (Slot(j) = SecondOldest <=> j = NumFiles - 2)
      BY <1>1, <3>1, Slots
    <3> QED BY <2>1, <2>3, <3>1, <3>2
  <2> QED BY <2>2, <2>3, ConstantsAssumption DEF Index
<1>7. /\ NumFiles - 2 \in Index /\ NumFiles - 1 \in Index
      /\ \A j \in Index : j < NumFiles - 2 \/ j = NumFiles - 2 \/ j = NumFiles - 1
      /\ NumFiles \in Layers /\ NumFiles + 1 \in Layers
      /\ \A n \in Layers : n = 0 \/ n = 1 \/ n = NumFiles \/ n = NumFiles + 1
                             \/ (n - 2 \in Index /\ n - 2 < NumFiles - 2 /\ n - 2 + 2 = n)
  BY ConstantsAssumption DEF Index, Layers
<1> HIDE DEF newer, left
<1>8. CASE \E n \in Layers : n < NumFiles /\ Layer(n, k) # None
  <2>1. PICK n \in Layers : /\ n < NumFiles /\ Layer(n, k) # None /\ Layer(n, k) = store[k]
                           /\ \A m \in Layers : m < n => Layer(m, k) = None
    BY <1>8, ConstantsAssumption DEF CoherentAt, Layers
  <2>2. n - 2 \in Index /\ n - 2 < NumFiles - 2 /\ n - 2 + 2 = n
    BY <1>2, <1>7, <2>1, ConstantsAssumption DEF Layers
  <2>3. \A m \in Index : m < n - 2 => m < NumFiles - 2 /\ m + 2 < n
    BY <2>2, ConstantsAssumption DEF Index
  <2> QED BY <1>6, <2>1, <2>2, <2>3 DEF FilesTell
<1>9. CASE \A n \in Layers : n < NumFiles => Layer(n, k) = None
  <2>1. \A j \in Index : j < NumFiles - 2 => filesys[Behind(recent, j)][k] = None
    BY <1>6, <1>9
  <2>2. newer # None => newer = store[k]
    <3>1. CASE \A n \in Layers : Layer(n, k) = None
      BY <1>7, <3>1 DEF newer
    <3>2. CASE \E n \in Layers : /\ Layer(n, k) # None /\ Layer(n, k) = store[k]
                                /\ \A m \in Layers : m < n => Layer(m, k) = None
      BY <1>7, <1>9, <3>2, ConstantsAssumption DEF newer, Layers
    <3> QED BY <3>1, <3>2 DEF CoherentAt
  <2>3. newer = None => store[k] \in {None, Tomb}
    BY <1>7, <1>9, ConstantsAssumption DEF newer, CoherentAt, Layers
  <2>4. IF left # None THEN left = store[k] ELSE store[k] \in {None, Tomb}
    BY <1>5, <2>2, <2>3, EntriesAssumption
  <2>5. CASE filesys[SecondOldest][k] # None
    BY <1>6, <1>7, <2>1, <2>4, <2>5, ConstantsAssumption DEF FilesTell, left, Index
  <2>6. CASE filesys[SecondOldest][k] = None /\ filesys[Oldest][k] # None
    <3>1. \A j \in Index : j < NumFiles - 1 => filesys[Behind(recent, j)][k] = None
      BY <1>6, <1>7, <2>1, <2>6, ConstantsAssumption DEF Index
    <3> QED BY <1>6, <1>7, <2>4, <2>6, <3>1 DEF FilesTell, left
  <2>7. CASE filesys[SecondOldest][k] = None /\ filesys[Oldest][k] = None
    <3>1. \A j \in Index : filesys[Behind(recent, j)][k] = None
      BY <1>6, <1>7, <2>1, <2>7
    <3> QED BY <2>4, <2>7, <3>1 DEF FilesTell, left
  <2> QED BY <2>5, <2>6, <2>7
<1> QED BY <1>8, <1>9

\* So the files tell what they should of every key that no tree knows, unless
\* the tree has just been filed.
LEMMA FilesSurvive ==
  ASSUME TypeAndOwner, StageContent, FileContent, OnlyWritten, ~MergeTorn,
         NEW k \in Keys, CoherentAt(k), bintree[k] = None,
         \/ reserve = Null \/ reserve[k] = None
         \/ \E a \in Adjusters : apc[a] = "synced"
  PROVE  FilesTell(NewestOnDisk, k)
<1>1. CASE \E a \in Adjusters : apc[a] \in {"dumping", "dumped", "synced"}
                                  /\ stamp[Oldest] # NoStamp
  <2>1. NewestOnDisk = Oldest
    BY <1>1 DEF NewestOnDisk
  <2>2. PICK a \in Adjusters : apc[a] \in {"dumping", "dumped", "synced"}
    BY <1>1
  <2>3. reserve # Null /\ \A b \in Adjusters : apc[b] = "synced" => b = a
    BY <2>2 DEF TypeAndOwner, OneAdjust, Pending, Working
  <2> QED BY <2>1, <2>2, <2>3, DumpTells
<1>2. CASE \A a \in Adjusters : apc[a] \in {"dumping", "dumped", "synced"} => stamp[Oldest] = NoStamp
  <2>1. NewestOnDisk = recent
    BY <1>2 DEF NewestOnDisk
  <2>2. \A a \in Adjusters : apc[a] # "synced"
    BY <1>2 DEF FileContent
  <2> QED BY <1>2, <2>1, <2>2, RecentTells
<1> QED BY <1>1, <1>2

\* A start that takes file r for the newest has the files as its layers.
LEMMA FilesAlone ==
  ASSUME NEW k \in Keys, NEW r, FilesTell(r, k), recent' = r,
         UNCHANGED <<filesys, store>>, bintree'[k] = None, reserve' = Null,
         \A a \in Adjusters : apc'[a] = "none"
  PROVE  CoherentAt(k)'
<1>1. Layer(0, k)' = None /\ Layer(1, k)' = None
  BY DEF Layer
<1>2. ASSUME NEW j \in Index
      PROVE  j + 2 \in Layers /\ Layer(j + 2, k)' = filesys[Behind(r, j)][k]
  <2>1. j \in 0 .. NumFiles - 1 /\ ~Rewriting' /\ ~Absorbed'
    BY DEF Index, Rewriting, Absorbed
  <2> QED BY <2>1, LayerOfFile DEF InFile, Slot, Behind
<1>3. \A n \in Layers : n = 0 \/ n = 1 \/ (n - 2 \in Index /\ n - 2 + 2 = n)
  BY ConstantsAssumption DEF Layers, Index
<1>4. \A n \in Layers : n = 0 \/ n = 1 \/ (n - 2 \in Index /\ Layer(n, k)' = filesys[Behind(r, n - 2)][k])
  BY <1>2, <1>3
<1>5. CASE \A j \in Index : filesys[Behind(r, j)][k] = None
  BY <1>1, <1>4, <1>5 DEF FilesTell, CoherentAt, Layers
<1>6. CASE \E j \in Index : filesys[Behind(r, j)][k] # None
  <2>1. PICK j \in Index :
          /\ filesys[Behind(r, j)][k] # None /\ filesys[Behind(r, j)][k] = store[k]
          /\ \A m \in Index : m < j => filesys[Behind(r, m)][k] = None
    BY <1>6 DEF FilesTell
  <2>2. \A n \in Layers : n < j + 2 => n = 0 \/ n = 1 \/ (n - 2 \in Index /\ n - 2 < j)
    BY <1>3 DEF Layers, Index
  <2>3. \A n \in Layers : n < j + 2 => Layer(n, k)' = None
    BY <1>1, <1>4, <2>1, <2>2
  <2> QED BY <1>2, <2>1, <2>3 DEF CoherentAt, Layers
<1> QED BY <1>5, <1>6

\* At any point where the process may end: unless the end hits one of the
\* windows, the value last written is in a backup or else in the files.
LEMMA EndFinds ==
  ASSUME RTypes, StageContent, FileContent, OnlyWritten, Phases,
         boot \notin {"down", "exit"}, ~HeadersAmbiguous, ~MergeTorn,
         NEW k \in Keys, Found(k),
         ~(current = 0 /\ backups[0][k] # None /\ backups[1][k] \notin {None, backups[0][k]})
  PROVE  Logged(1, k, Logged(0, k, \A r \in Candidates : FilesTell(r, k)))
<1> USE DEF RTypes
<1>1. Candidates = {NewestOnDisk}
  BY DEF HeadersAmbiguous
<1>2. Null \notin Contents /\ Empty[k] = None /\ current \in {0, 1}
      /\ reserve \in Contents \cup {Null}
  BY BackupTypes DEF Empty
<1>3. ASSUME CoherentAt(k), bintree[k] = None,
             \/ reserve = Null \/ reserve[k] = None
             \/ \E a \in Adjusters : apc[a] = "synced"
      PROVE  \A r \in Candidates : FilesTell(r, k)
  BY <1>1, <1>3, FilesSurvive
<1>4. /\ current = 0 => OtherBackup = 1
      /\ current = 1 => OtherBackup = 0
  BY DEF OtherBackup
\* What the backup that is not the log of bintree tells.
<1>5. ASSUME LogsHold, CoherentAt(k), bintree[k] = None
      PROVE  Logged(OtherBackup, k, \A r \in Candidates : FilesTell(r, k))
  <2>1. CASE backups[OtherBackup][k] # None
    <3>1. reserve # Null /\ backups[OtherBackup] = reserve
      BY <1>2, <1>5, <2>1 DEF LogsHold
    <3> QED BY <1>5, <2>1, <3>1, TopLayers DEF Logged
  <2>2. CASE backups[OtherBackup][k] = None
    <3>1. \/ reserve = Null \/ reserve[k] = None
          \/ \E a \in Adjusters : apc[a] = "synced"
      BY <1>5, <2>2 DEF LogsHold
    <3> QED BY <1>3, <1>5, <2>2, <3>1 DEF Logged
  <2> QED BY <2>1, <2>2
<1>6. CASE boot = "up"
  <2>1. CoherentAt(k) /\ backups[current] = bintree /\ LogsHold
    BY <1>6 DEF Found, Phases
  <2>2. CASE bintree[k] = None
    BY <1>2, <1>4, <1>5, <2>1, <2>2 DEF Logged
  <2>3. CASE bintree[k] # None
    BY <1>2, <2>1, <2>3, TopLayers DEF Logged
  <2> QED BY <2>2, <2>3
<1>7. CASE boot = "adjust0"
  <2>1. current = 1 /\ bintree[k] = None /\ LogsHold /\ Logged(1, k, CoherentAt(k))
    BY <1>2, <1>7 DEF Found, Phases
  <2> QED BY <1>4, <1>5, <2>1 DEF Logged
<1>8. CASE boot = "adjust1"
  <2>1. current = 0 /\ bintree[k] = None /\ LogsHold /\ CoherentAt(k)
        /\ backups[0][k] = None
    BY <1>2, <1>8 DEF Found, Phases
  <2> QED BY <1>4, <1>5, <2>1 DEF Logged
<1>9. CASE boot \in {"load0", "load1", "tree", "load", "bloom"}
  <2>1. bintree[k] = None /\ reserve = Null
    BY <1>2, <1>9 DEF Phases
  <2>2. Logged(1, k, Logged(0, k, CoherentAt(k)))
    BY <1>2, <1>9 DEF Found, Phases, Logged
  <2> QED BY <1>3, <2>1, <2>2 DEF Logged
<1> QED BY <1>6, <1>7, <1>8, <1>9 DEF Booting
-----------------------------------------------------------------------------
(* Types *)

\* Steps of adjust keep the types, also in a start.
LEMMA FilingTypes ==
  ASSUME TypeAndOwner, NEW a \in Adjusters, Filing(a)
  PROVE  TypeAndOwner' /\ now' >= now
<1>1. CASE Adjust(a)
  <2>1. TypeAndOwner'
    BY <1>1, AdjustTypes, AdjustOwner DEF TypeAndOwner
  <2>2. now' \in {now, now + 1} /\ now \in Nat
    BY <1>1 DEF Adjust, FileStep, AdjustBegin, AdjustTruncate, MergeFlush,
       MergeDone, AdjustReopen, DumpFlush, AdjustDump, AdjustSync,
       AdjustPublish, AdjustUnlock, TypeAndOwner, TypeOK
  <2> QED BY <2>1, <2>2
<1>2. CASE SyncRecord(a) /\ backups' = backups
  <2>1. /\ apc[a] \in Working /\ apc' = [apc EXCEPT ![a] = "synced"]
        /\ "synced" \in Working /\ now \in Nat
    BY <1>2 DEF SyncRecord, Stage, Working, TypeAndOwner, TypeOK
  <2>2. TypeOK'
    BY <1>2, <2>1 DEF SyncRecord, TypeAndOwner, TypeOK, Pending, Working, memory,
       readers, history
  <2>3. UNCHANGED <<reserve, fslock, now>>
    BY <1>2 DEF SyncRecord, memory
  <2>4. OneAdjust'
    BY <2>1, <2>3, KeepOwner
  <2> QED BY <2>1, <2>2, <2>3, <2>4 DEF TypeAndOwner
<1> QED
  BY <1>1, <1>2 DEF Filing, Adjust, SyncRecord, AdjustSync

\* The adjust threads of the constructor take the steps of adjust.
LEMMA BootFiles ==
  ASSUME NEW a, BootAdjust(a) PROVE Filing(a)
  BY DEF BootAdjust, BootSync, SyncRecord, Filing, disk

\* A state with no adjust thread and no tree to file.
Quiet == reserve = Null /\ fslock = Nobody /\ \A a \in Adjusters : apc[a] = "none"

\* Nothing is owed to anyone when no adjust runs.
LEMMA QuietOwner ==
  /\ Quiet => OneAdjust /\ StageContent /\ FileContent
  /\ Quiet' => OneAdjust' /\ StageContent' /\ FileContent'
  BY ConstantsAssumption
  DEF Quiet, OneAdjust, StageContent, FileContent, Pending, Working

\* An end of the process leaves well-typed files and nothing in memory.
LEMMA EndTypes ==
  ASSUME TypeAndOwner, Vanish, backups' \in [0 .. 1 -> Contents],
         nwrites' \in Nat, store' \in Contents
  PROVE  TypeAndOwner' /\ Quiet'
<1>1. Quiet'
  BY DEF Vanish, Quiet
<1>2. /\ bintree' \in Contents /\ reserve' \in Contents \cup {Null}
      /\ 0 \in Index /\ None \in Entry
  BY ContentTypes, ConstantsAssumption DEF Vanish, Index, Entry
<1>3. /\ pc' \in [Threads -> Reading \cup {"getline", "check"}]
      /\ \A t \in Threads : pc'[t] \notin Reading
      /\ key' \in [Threads -> Keys \cup {None}]
  BY DEF Vanish, Reading
<1>4. /\ snap' \in [Threads -> Index] /\ pos' \in [Threads -> Index]
      /\ reply' \in [Threads -> Entry] /\ window' \in [Threads -> SUBSET Entry]
      /\ lapped' \in [Threads -> BOOLEAN]
      /\ apc' \in [Adjusters -> Pending \cup {"none", "unlock"}]
  BY <1>2 DEF Vanish
<1>5. TypeOK'
  BY <1>2, <1>3, <1>4 DEF Vanish, TypeAndOwner, TypeOK
<1> QED BY <1>1, <1>5, QuietOwner DEF TypeAndOwner

\* A write that only its log has seen is well typed there.
LEMMA CutWriteTypes ==
  ASSUME TypeAndOwner, NEW t, NEW k \in Keys, NEW v \in Vals \cup {Tomb},
         CrashInWrite(t, k, v)
  PROVE  backups' \in [0 .. 1 -> Contents] /\ nwrites' \in Nat /\ store' \in Contents
<1>1. v \in Entry
  BY DEF Entry
<1> QED
  BY <1>1 DEF CrashInWrite, TypeAndOwner, TypeOK, Contents

\* The constructor's own steps keep the types.
LEMMA BootTypes ==
  ASSUME RTypes, Phases, Boot PROVE RTypes'
<1> USE DEF RTypes, Booting
<1>1. ASSUME UNCHANGED <<reserve, apc, fslock>> PROVE OneAdjust'
  BY <1>1 DEF TypeAndOwner, OneAdjust
<1>2. CASE BootRecent
  <2>1. recent' \in Index
    BY <1>2 DEF BootRecent, Candidates
  <2> QED
    BY <1>1, <1>2, <2>1 DEF BootRecent, unbooted, disk, history, TypeAndOwner, TypeOK
<1>3. ASSUME NEW i \in 0 .. 1, BootLoad(i) PROVE RTypes'
  <2>1. PICK a \in Adjusters : apc' = [apc EXCEPT ![a] = "wait"]
    BY <1>3 DEF BootLoad
  <2>2. boot \in {"load0", "load1"} /\ boot' \in {"adjust0", "adjust1"}
    BY <1>3 DEF BootLoad
  <2>3. reserve = Null /\ (\A b \in Adjusters : apc[b] = "none") /\ fslock' = fslock
    BY <1>3, <2>2 DEF Phases, BootLoad, unbooted
  <2>4. reserve' \in Contents /\ reserve' # Null /\ current' \in 0 .. 1
    BY <1>3, BackupTypes DEF BootLoad, BackupTurn
  <2>5. apc'[a] = "wait" /\ \A b \in Adjusters \ {a} : apc'[b] = "none"
    BY <2>1, <2>3 DEF TypeAndOwner, TypeOK
  <2>6. OneAdjust'
    BY <2>3, <2>4, <2>5 DEF TypeAndOwner, OneAdjust, Pending, Working
  <2>7. apc' \in [Adjusters -> Pending \cup {"none", "unlock"}]
    BY <2>1 DEF TypeAndOwner, TypeOK, Pending
  <2>8. now' \in Nat /\ now' > 0
    BY <1>3 DEF BootLoad, TypeAndOwner, TypeOK
  <2>9. TypeOK'
    BY <1>3, <2>4, <2>7, <2>8, ContentTypes
    DEF BootLoad, unbooted, history, NoStamp, TypeAndOwner, TypeOK
  <2> QED
    BY <1>3, <2>2, <2>6, <2>8, <2>9 DEF BootLoad, unbooted, TypeAndOwner
<1>4. CASE BootTree
  <2>1. bintree' \in Contents /\ current' \in 0 .. 1 /\ backups' \in [0 .. 1 -> Contents]
    BY <1>4, ContentTypes DEF BootTree, TypeAndOwner, TypeOK
  <2> QED
    BY <1>1, <1>4, <2>1 DEF BootTree, unbooted, history, TypeAndOwner, TypeOK
<1>5. CASE BootReturn \/ BootBloomLoad \/ BootBloomWrite
  BY <1>1, <1>5
  DEF BootReturn, BootBloomLoad, BootBloomWrite, unbooted, disk, history,
      TypeAndOwner, TypeOK
<1> QED BY <1>2, <1>3, <1>4, <1>5 DEF Boot
-----------------------------------------------------------------------------
(* What the files and the backups hold *)

\* Steps of adjust leave in the two files what the next stage relies on.
LEMMA FilingContent ==
  ASSUME RTypes, FileContent, NEW a \in Adjusters, Filing(a)
  PROVE  FileContent'
<1> USE DEF RTypes
<1>0. /\ Oldest \in Index /\ SecondOldest \in Index /\ Oldest # SecondOldest
      /\ filesys \in [Index -> Contents] /\ stamp \in [Index -> Nat]
      /\ apc \in [Adjusters -> Pending \cup {"none", "unlock"}]
      /\ recent \in Index /\ now \in Nat /\ NoStamp = 0
  <2>1. recent \in Index
    BY DEF TypeAndOwner, TypeOK
  <2>2. /\ NumFiles - 1 \in 0 .. NumFiles - 1 /\ NumFiles - 2 \in 0 .. NumFiles - 1
        /\ NumFiles - 1 # NumFiles - 2
    BY ConstantsAssumption
  <2> QED BY <2>1, <2>2, RingTypes, Slots DEF TypeAndOwner, TypeOK, NoStamp
<1>1. CASE AdjustUnlock(a) \/ AdjustPublish(a)
  <2>1. \A b \in Adjusters : apc'[b] \notin Working
    <3>1. apc[a] \in {"unlock", "synced"} /\ apc'[a] \in {"unlock", "none"}
          /\ \A b \in Adjusters \ {a} : apc'[b] = apc[b]
      BY <1>0, <1>1 DEF AdjustUnlock, AdjustPublish, Stage
    <3> QED BY <3>1 DEF Working, TypeAndOwner, OneAdjust
  <2> QED BY <2>1 DEF FileContent, Working
<1>2. CASE FileStep(a) \/ SyncRecord(a)
  <2>1. /\ apc[a] \in Pending /\ \A b \in Adjusters \ {a} : apc'[b] = apc[b]
        /\ UNCHANGED <<recent, reserve>>
    BY <1>0, <1>2 DEF FileStep, AdjustBegin, AdjustTruncate, MergeFlush,
       MergeDone, AdjustReopen, DumpFlush, AdjustDump, SyncRecord, Stage,
       Pending, Working, memory
  <2>2. \A b \in Adjusters \ {a} : apc'[b] \notin Working
    BY <2>1 DEF Working, TypeAndOwner, OneAdjust
  <2>3. Oldest' = Oldest /\ SecondOldest' = SecondOldest
    BY <2>1 DEF Oldest, SecondOldest
  <2>4. apc'[a] = "merged" => filesys'[SecondOldest] = Merged'
    <3>1. ASSUME apc'[a] = "merged" PROVE MergeDone(a)
      BY <1>0, <1>2, <3>1 DEF FileStep, AdjustBegin, AdjustTruncate, MergeFlush,
         AdjustReopen, DumpFlush, AdjustDump, SyncRecord, Stage
    <3>2. ASSUME MergeDone(a) PROVE filesys'[SecondOldest] = Merged'
      <4>1. filesys'[SecondOldest] = Merged /\ filesys'[Oldest] = filesys[Oldest]
            /\ tempfile' = tempfile
        BY <1>0, <3>2 DEF MergeDone
      <4> QED BY <2>3, <4>1 DEF Merged
    <3> QED BY <3>1, <3>2
  <2>5. ASSUME apc'[a] = "dumping"
        PROVE  /\ \A k \in Keys : filesys'[Oldest][k] \in {None, reserve[k]}
               /\ stamp'[Oldest] = NoStamp => filesys'[Oldest] = Empty
    <3>1. AdjustReopen(a) \/ \E m \in Keys \cup {0} : DumpFlush(a, m)
      BY <1>0, <1>2, <2>5 DEF FileStep, AdjustBegin, AdjustTruncate, MergeFlush,
         MergeDone, AdjustDump, SyncRecord, Stage
    <3>2. CASE AdjustReopen(a)
      BY <1>0, <3>2 DEF AdjustReopen, Truncated, Empty
    <3>3. CASE \E m \in Keys \cup {0} : DumpFlush(a, m)
      <4>1. PICK m \in Keys \cup {0} : filesys'[Oldest] = Prefix(reserve, m)
                                        /\ stamp'[Oldest] = now
        BY <1>0, <3>3 DEF DumpFlush, Flush
      <4> QED BY <1>0, <4>1 DEF Prefix
    <3> QED BY <3>1, <3>2, <3>3
  <2>6. ASSUME apc'[a] \in {"dumped", "synced"} PROVE stamp'[Oldest] # NoStamp
    <3>1. CASE AdjustDump(a)
      BY <1>0, <3>1 DEF AdjustDump
    <3>2. CASE SyncRecord(a)
      BY <1>0, <3>2 DEF SyncRecord, Stage, FileContent
    <3>3. CASE ~AdjustDump(a) /\ ~SyncRecord(a)
      BY <1>0, <1>2, <2>6, <3>3 DEF FileStep, AdjustBegin, AdjustTruncate,
         MergeFlush, MergeDone, AdjustReopen, DumpFlush, Stage
    <3> QED BY <3>1, <3>2, <3>3
  <2> QED BY <2>1, <2>2, <2>3, <2>4, <2>5, <2>6 DEF FileContent, Working
<1> QED BY <1>1, <1>2 DEF Filing

\* Serve threads write no files and start an adjust only when none works.
LEMMA ServeContent ==
  ASSUME TypeAndOwner, FileContent, NEW t \in Threads, Serve(t)
  PROVE  FileContent'
<1>1. CASE UNCHANGED <<tempfile, filesys, stamp, recent, reserve, apc>>
  BY <1>1 DEF FileContent, Oldest, SecondOldest, Merged
<1>2. CASE Check(t) /\ TreeFull
  <2>1. PICK a \in Adjusters : apc[a] = "none" /\ apc' = [apc EXCEPT ![a] = "wait"]
    BY <1>2 DEF Check
  <2>2. \A b \in Adjusters : apc'[b] \notin Working
    <3>1. \A b \in Adjusters : apc[b] \notin Pending
      BY <1>2 DEF TreeFull, TypeAndOwner, OneAdjust
    <3> QED BY <2>1, <3>1 DEF Pending, Working, TypeAndOwner, TypeOK
  <2> QED BY <2>2 DEF FileContent, Working
<1> QED
  BY <1>1, <1>2
  DEF Serve, DbWrite, DbRead, ScanFile, ReadDanger, Check, memory, disk

\* Adjust moves entries and makes up none.
LEMMA FilingWritten ==
  ASSUME TypeAndOwner, OnlyWritten, NEW a \in Adjusters, Filing(a)
  PROVE  OnlyWritten' /\ store' = store
<1>0. /\ Oldest \in Index /\ SecondOldest \in Index /\ OtherBackup \in 0 .. 1
      /\ filesys \in [Index -> Contents] /\ backups \in [0 .. 1 -> Contents]
      /\ \A k \in Keys : Empty[k] = None
  BY RingTypes, BackupTypes DEF TypeAndOwner, TypeOK, Empty
<1>1. store' = store /\ bintree' = bintree /\ (reserve' = reserve \/ reserve' = Null)
  BY DEF Filing, FileStep, AdjustBegin, AdjustTruncate, MergeFlush, MergeDone,
     AdjustReopen, DumpFlush, AdjustDump, SyncRecord, AdjustPublish,
     AdjustUnlock, memory, history
<1>2. tempfile' \in {tempfile, Empty, filesys[SecondOldest]}
  BY DEF Filing, FileStep, AdjustBegin, AdjustTruncate, MergeFlush, MergeDone,
     AdjustReopen, DumpFlush, AdjustDump, SyncRecord, AdjustPublish,
     AdjustUnlock, disk
<1>3. \A b \in 0 .. 1 : backups'[b] \in {backups[b], Empty}
  BY <1>0 DEF Filing, FileStep, AdjustBegin, AdjustTruncate, MergeFlush, MergeDone,
     AdjustReopen, DumpFlush, AdjustDump, SyncRecord, AdjustPublish,
     AdjustUnlock, disk, RetireBackup
<1> SUFFICES ASSUME NEW k \in Keys, store[k] = None
             PROVE  /\ bintree'[k] = None /\ tempfile'[k] = None
                    /\ reserve' # Null => reserve'[k] = None
                    /\ \A i \in Index : filesys'[i][k] = None
                    /\ \A b \in 0 .. 1 : backups'[b][k] = None
  BY <1>1 DEF OnlyWritten
<1>4. /\ tempfile[k] = None /\ \A i \in Index : filesys[i][k] = None
      /\ reserve # Null => reserve[k] = None
  BY DEF OnlyWritten
<1>5. ASSUME NEW i \in Index PROVE filesys'[i][k] = None
  <2>1. Merged[k] = None /\ \A m : Prefix(Merged, m)[k] = None
    BY <1>0, <1>4, EntriesAssumption DEF Merged, MergeFiles, Prefix
  <2>2. CASE \E m \in Keys \cup {0} : MergeFlush(a, m)
    BY <1>0, <1>4, <2>1, <2>2 DEF MergeFlush, Flush
  <2>3. CASE MergeDone(a)
    BY <1>0, <1>4, <2>1, <2>3 DEF MergeDone
  <2>4. CASE (\E m \in Keys \cup {0} : DumpFlush(a, m)) \/ AdjustDump(a)
    <3>1. reserve \in Contents
      BY <2>4, WorkingReserve DEF DumpFlush, AdjustDump, Stage, Working
    <3>2. reserve[k] = None /\ \A m : Prefix(reserve, m)[k] = None
      BY <1>4, <3>1, ConstantsAssumption DEF Prefix, Contents, Entry
    <3> QED BY <1>0, <1>4, <2>4, <3>2 DEF DumpFlush, Flush, AdjustDump
  <2>5. CASE AdjustTruncate(a) \/ AdjustReopen(a)
    BY <1>0, <1>4, <2>5 DEF AdjustTruncate, AdjustReopen, Truncated
  <2>6. CASE AdjustBegin(a) \/ SyncRecord(a) \/ AdjustPublish(a) \/ AdjustUnlock(a)
    BY <1>4, <2>6 DEF AdjustBegin, SyncRecord, AdjustPublish, AdjustUnlock, disk
  <2> QED BY <2>2, <2>3, <2>4, <2>5, <2>6 DEF Filing, FileStep
<1> QED BY <1>0, <1>1, <1>2, <1>3, <1>4, <1>5 DEF OnlyWritten

\* Serve threads record what they put into the tree.
LEMMA ServeWritten ==
  ASSUME TypeAndOwner, OnlyWritten, NEW t \in Threads, RunningWrite(t)
  PROVE  OnlyWritten'
<1>0. /\ \A k \in Keys : Empty[k] = None
      /\ backups \in [0 .. 1 -> Contents] /\ bintree \in Contents
      /\ store \in Contents /\ current \in 0 .. 1 /\ OtherBackup \in 0 .. 1
  BY BackupTypes DEF Empty, TypeAndOwner, TypeOK
<1>1. ASSUME NEW j \in Keys, NEW v \in Vals \cup {Tomb}, DbWrite(t, j, v)
      PROVE  OnlyWritten'
  <2>1. v # None
    BY EntriesAssumption
  <2>2. /\ store' = [store EXCEPT ![j] = v] /\ bintree' = [bintree EXCEPT ![j] = v]
        /\ backups' = [backups EXCEPT ![current][j] = v]
        /\ UNCHANGED <<tempfile, reserve, filesys>>
    BY <1>1 DEF DbWrite
  <2> SUFFICES ASSUME NEW k \in Keys, store'[k] = None
               PROVE  /\ bintree'[k] = None /\ tempfile'[k] = None
                      /\ reserve' # Null => reserve'[k] = None
                      /\ \A i \in Index : filesys'[i][k] = None
                      /\ \A b \in 0 .. 1 : backups'[b][k] = None
    BY DEF OnlyWritten
  <2>3. k # j /\ store[k] = None
    BY <1>0, <2>1, <2>2 DEF Contents
  <2>4. \A b \in 0 .. 1 : backups'[b][k] = backups[b][k]
    BY <1>0, <2>2, <2>3 DEF Contents
  <2>5. bintree'[k] = bintree[k]
    BY <1>0, <2>2, <2>3 DEF Contents
  <2> QED BY <2>2, <2>3, <2>4, <2>5 DEF OnlyWritten
<1>2. CASE Check(t)
  <2>1. /\ UNCHANGED <<store, tempfile, filesys>>
        /\ bintree' \in {bintree, Empty} /\ reserve' \in {reserve, bintree}
    BY <1>2 DEF Check
  <2>2. \A b \in 0 .. 1 : backups'[b] \in {backups[b], Empty}
    BY <1>0, <1>2 DEF Check
  <2>3. \A k \in Keys : reserve' # Null /\ store[k] = None => reserve'[k] = None
    BY <2>1 DEF OnlyWritten
  <2>4. \A k \in Keys : store[k] = None => bintree'[k] = None
    BY <1>0, <2>1 DEF OnlyWritten
  <2>5. \A k \in Keys, b \in 0 .. 1 : store[k] = None => backups'[b][k] = None
    BY <1>0, <2>2 DEF OnlyWritten
  <2> QED BY <2>1, <2>3, <2>4, <2>5 DEF OnlyWritten
<1> QED BY <1>1, <1>2 DEF RunningWrite
-----------------------------------------------------------------------------
(* The steps of the constructor *)

\* A tree loaded from a backup comes before the files.
LEMMA LoadTells ==
  ASSUME RTypes, Phases, NEW i \in 0 .. 1, BootLoad(i),
         NEW k \in Keys, Logged(i, k, CoherentAt(k))
  PROVE  CoherentAt(k)'
<1>1. boot \in {"load0", "load1"}
  BY DEF BootLoad
<1>2. /\ reserve = Null /\ bintree[k] = None /\ \A a \in Adjusters : apc[a] = "none"
      /\ backups[i] # Null
  BY <1>1, BackupTypes DEF RTypes, Phases, Empty
<1>3. /\ reserve' = backups[i] /\ UNCHANGED <<bintree, recent, filesys, store>>
      /\ ~Rewriting /\ ~Absorbed /\ ~Rewriting' /\ ~Absorbed'
  <2>1. PICK a \in Adjusters : apc' = [apc EXCEPT ![a] = "wait"]
    BY DEF BootLoad
  <2>2. \A b \in Adjusters : apc'[b] \in {"wait", "none"}
    BY <1>2, <2>1 DEF RTypes, TypeAndOwner, TypeOK
  <2> QED BY <1>2, <2>2 DEF BootLoad, unbooted, history, Rewriting, Absorbed
<1>4. /\ Layer(0, k) = None /\ Layer(0, k)' = None
      /\ Layer(1, k) = None /\ Layer(1, k)' = backups[i][k]
  BY <1>2, <1>3 DEF Layer
<1>5. \A n \in Layers : n # 0 /\ n # 1 => Layer(n, k)' = Layer(n, k)
  BY <1>3 DEF Layer, InFile, Slot
<1>6. /\ 0 \in Layers /\ 1 \in Layers /\ \A n \in Layers : n < 1 => n = 0
  BY ConstantsAssumption DEF Layers
<1>7. CASE backups[i][k] # None
  <2>1. store'[k] = backups[i][k]
    BY <1>3, <1>7 DEF Logged
  <2> QED BY <1>4, <1>6, <1>7, <2>1 DEF CoherentAt, Layers
<1>8. CASE backups[i][k] = None
  <2>1. \A n \in Layers : Layer(n, k)' = Layer(n, k)
    BY <1>4, <1>5, <1>8
  <2> QED BY <1>3, <1>8, <2>1, SameLayers DEF Logged
<1> QED BY <1>7, <1>8

\* The constructor goes from one phase to the next.
LEMMA BootPhases ==
  ASSUME RTypes, Phases, Boot PROVE Phases'
<1> USE DEF RTypes
<1>0. current \in 0 .. 1 /\ OtherBackup \in 0 .. 1
      /\ backups \in [0 .. 1 -> Contents] /\ Null \notin Contents
  BY BackupTypes
<1>1. CASE BootRecent
  BY <1>1 DEF BootRecent, Phases, disk, unbooted
<1>2. ASSUME NEW i \in 0 .. 1, BootLoad(i) PROVE Phases'
  <2>1. /\ boot = <<"load0", "load1">>[i + 1] /\ boot' = <<"adjust0", "adjust1">>[i + 1]
        /\ reserve' = backups[i] /\ current' = (i + 1) % 2
        /\ UNCHANGED <<bintree, backups>>
    BY <1>2 DEF BootLoad, BackupTurn
  <2>2. OtherBackup' = i
    BY <2>1 DEF OtherBackup
  <2>3. LogsHold'
    BY <1>0, <2>1, <2>2 DEF LogsHold
  <2>4. CASE i = 0
    BY <2>1, <2>3, <2>4 DEF Phases
  <2>5. CASE i = 1
    BY <2>1, <2>3, <2>5 DEF Phases
  <2> QED BY <2>4, <2>5
<1>3. CASE BootReturn
  <2>1. reserve = Null /\ \A a \in Adjusters : apc[a] = "none"
    BY <1>3 DEF BootReturn, TypeAndOwner, OneAdjust, Pending, Working
  <2>2. boot \in {"adjust0", "adjust1"} /\ backups[OtherBackup] = Empty
    BY <1>3, <2>1 DEF BootReturn, Phases, LogsHold
  <2>3. CASE boot = "adjust0"
    <3>1. OtherBackup = 0
      BY <2>3 DEF Phases, OtherBackup
    <3> QED BY <1>3, <2>1, <2>2, <2>3, <3>1 DEF BootReturn, Phases, disk
  <2>4. CASE boot = "adjust1"
    <3>1. OtherBackup = 1
      BY <2>4 DEF Phases, OtherBackup
    <3> QED BY <1>3, <2>1, <2>2, <2>4, <3>1 DEF BootReturn, Phases, disk
  <2> QED BY <2>2, <2>3, <2>4
<1>4. CASE BootTree
  BY <1>0, <1>4 DEF BootTree, Phases
<1>5. CASE BootBloomLoad
  BY <1>5 DEF BootBloomLoad, Phases, disk
<1>6. CASE BootBloomWrite
  BY <1>6 DEF BootBloomWrite, Phases, disk, LogsHold, OtherBackup
<1> QED BY <1>1, <1>2, <1>3, <1>4, <1>5, <1>6 DEF Boot

\* It makes up no entries, and no adjust works between its steps.
LEMMA BootContent ==
  ASSUME RTypes, StageContent, FileContent, OnlyWritten, Phases, Boot
  PROVE  StageContent' /\ FileContent' /\ OnlyWritten'
<1> USE DEF RTypes
<1>0. backups \in [0 .. 1 -> Contents] /\ \A k \in Keys : Empty[k] = None
  BY BackupTypes DEF Empty
<1>1. \A a \in Adjusters : apc'[a] \notin Working
  <2>1. CASE BootReturn
    BY <2>1 DEF BootReturn, Working
  <2>2. CASE ~BootReturn
    <3>1. \A a \in Adjusters : apc[a] = "none"
      BY <2>2 DEF Boot, BootRecent, BootLoad, BootTree, BootBloomLoad,
         BootBloomWrite, Phases
    <3> QED
      BY <2>2, <3>1 DEF Boot, BootRecent, BootLoad, BootTree, BootBloomLoad,
         BootBloomWrite, Working, TypeAndOwner, TypeOK
  <2> QED BY <2>1, <2>2
<1>2. StageContent' /\ FileContent'
  BY <1>1 DEF StageContent, FileContent, Working
<1>3. UNCHANGED <<store, filesys>> /\ tempfile' \in {tempfile, Empty}
      /\ bintree' \in {bintree, Empty}
      /\ (reserve' = reserve \/ \E b \in 0 .. 1 : reserve' = backups[b])
      /\ \A b \in 0 .. 1 : backups'[b] \in {backups[b], Empty}
  BY <1>0 DEF Boot, BootRecent, BootLoad, BootReturn, BootTree, BootBloomLoad,
     BootBloomWrite, unbooted, disk, history
<1>4. OnlyWritten'
  <2> SUFFICES ASSUME NEW k \in Keys, store[k] = None
               PROVE  /\ bintree'[k] = None /\ tempfile'[k] = None
                      /\ reserve' # Null => reserve'[k] = None
                      /\ \A i \in Index : filesys'[i][k] = None
                      /\ \A b \in 0 .. 1 : backups'[b][k] = None
    BY <1>3 DEF OnlyWritten
  <2> QED BY <1>0, <1>3 DEF OnlyWritten
<1> QED BY <1>2, <1>4

\* At each of its steps every key is found where it should be.
LEMMA BootFinds ==
  ASSUME RTypes, Phases, Boot, NEW k \in Keys, Found(k)
  PROVE  Found(k)'
<1>0. /\ store' = store
      /\ backups \in [0 .. 1 -> Contents] /\ Empty[k] = None
  BY BackupTypes
  DEF RTypes, Empty, Boot, BootRecent, BootLoad, BootReturn, BootTree,
      BootBloomLoad, BootBloomWrite, unbooted, history
<1>1. CASE BootRecent
  <2>1. /\ boot = "down" /\ boot' = "load0" /\ backups' = backups
        /\ recent' \in Candidates
    BY <1>1 DEF BootRecent, disk
  <2>2. (\A r \in Candidates : FilesTell(r, k)) => CoherentAt(k)'
    <3>1. /\ bintree'[k] = None /\ reserve' = Null /\ \A a \in Adjusters : apc'[a] = "none"
          /\ UNCHANGED <<filesys, store>>
      BY <1>0, <1>1, <2>1 DEF BootRecent, disk, Phases
    <3> QED BY <2>1, <3>1, FilesAlone
  <2> QED BY <1>0, <2>1, <2>2 DEF Found, Logged
<1>2. ASSUME NEW i \in 0 .. 1, BootLoad(i) PROVE Found(k)'
  <2>1. /\ boot = <<"load0", "load1">>[i + 1] /\ boot' = <<"adjust0", "adjust1">>[i + 1]
        /\ backups' = backups
    BY <1>2 DEF BootLoad
  <2>2. CASE i = 0
    BY <1>0, <1>2, <2>1, <2>2, LoadTells DEF Found, Logged
  <2>3. CASE i = 1
    BY <1>0, <1>2, <2>1, <2>3, LoadTells DEF Found, Logged
  <2> QED BY <2>2, <2>3
<1>3. CASE Boot /\ ~BootRecent /\ ~\E i \in 0 .. 1 : BootLoad(i)
  <2>1. UNCHANGED <<reserve, recent, filesys, tempfile, apc>> /\ boot # "down"
        /\ boot \in {"adjust0", "adjust1", "tree", "load", "bloom"}
    BY <1>3 DEF Boot, BootReturn, BootTree, BootBloomLoad, BootBloomWrite, disk
  <2>2. bintree' = bintree
    BY <1>3 DEF Boot, BootReturn, BootTree, BootBloomLoad, BootBloomWrite, Phases
  <2>3. \A n \in Layers : Layer(n, k)' = Layer(n, k)
    BY <2>1, <2>2 DEF Layer, InFile, Slot, Rewriting, Absorbed
  <2>4. CoherentAt(k) => CoherentAt(k)'
    BY <1>0, <2>3, SameLayers
  <2>5. CASE boot = "adjust0"
    <3>1. boot' = "load1" /\ backups' = backups
      BY <1>3, <2>5 DEF Boot, BootReturn, BootTree, BootBloomLoad, BootBloomWrite, disk
    <3> QED BY <1>0, <2>4, <2>5, <3>1 DEF Found, Logged
  <2>6. CASE boot # "adjust0"
    <3>1. boot' \in {"tree", "load", "bloom", "exit", "up"} /\ CoherentAt(k)
      BY <1>3, <2>1, <2>6 DEF Boot, BootReturn, BootTree, BootBloomLoad,
         BootBloomWrite, Found
    <3> QED BY <2>4, <3>1 DEF Found
  <2> QED BY <2>5, <2>6
<1> QED BY <1>1, <1>2, <1>3 DEF Boot
-----------------------------------------------------------------------------
(* The invariant *)

\* The invariant holds at first.
LEMMA InitRecovery == RInit => RInv
<1> SUFFICES ASSUME RInit PROVE RInv
  OBVIOUS
<1>1. CoherentInv
  BY InitCoherent DEF RInit
<1>2. RTypes /\ StageContent
  <2>1. now > 0
    BY ConstantsAssumption DEF RInit, Init
  <2> QED BY <1>1, <2>1 DEF RInit, CoherentInv, RTypes
<1>3. FileContent
  BY DEF RInit, Init, FileContent
<1>4. OnlyWritten
  BY DEF RInit, Init, OnlyWritten, Empty
<1>5. Phases
  BY DEF RInit, Init, Phases, LogsHold, OtherBackup
<1>6. \A k \in Keys : Found(k)
  BY <1>1, EveryKey DEF CoherentInv, RInit, Found
<1> QED BY <1>2, <1>3, <1>4, <1>5, <1>6 DEF RInv

\* Steps of the serve threads.
LEMMA WriteStep ==
  ASSUME RInv, NEW t \in Threads, RunningWrite(t) PROVE RInv'
<1> USE DEF RInv, RTypes
<1>1. Serve(t) /\ boot = "up" /\ UNCHANGED <<boot, bloomOk, crashes, torn, swapped, halfSet, now>>
  BY DEF RunningWrite, Serve, DbWrite, Check
<1>2. RTypes'
  BY <1>1, ServeTypes, ServeOwner DEF TypeAndOwner
<1>3. StageContent' /\ FileContent' /\ OnlyWritten'
  BY <1>1, ServeStage, ServeContent, ServeWritten
<1>4. Phases'
  <2>1. BackupsHold
    BY <1>1 DEF Phases, BackupsHold
  <2>2. BackupsHold'
    BY <1>1, <2>1, ServeBackups
  <2> QED BY <1>1, <2>2 DEF Phases, BackupsHold
<1>5. ASSUME ~torn', ~swapped', NEW k \in Keys PROVE Found(k)'
  <2>1. CoherentAt(k)
    BY <1>1, <1>5 DEF Found
  <2>2. CoherentAt(k)'
    BY <1>1, <2>1, ServeCoherent
  <2> QED BY <1>1, <2>2 DEF Found
<1> QED BY <1>2, <1>3, <1>4, <1>5

\* Steps of the adjust threads, at run time and in a start.
LEMMA AdjustStep ==
  ASSUME RInv, NEW a \in Adjusters, RunningAdjust(a) \/ BootAdjust(a) PROVE RInv'
<1> USE DEF RInv
<1>1. /\ Filing(a) /\ boot \in {"up", "adjust0", "adjust1"}
      /\ UNCHANGED <<boot, bloomOk, crashes, torn, swapped, halfSet>>
  BY AdjustFiles, BootFiles DEF RunningAdjust, BootAdjust
<1>2. RTypes'
  <2>1. TypeAndOwner' /\ now' >= now /\ now \in Nat /\ now' \in Nat
    BY <1>1, FilingTypes DEF RTypes, TypeAndOwner, TypeOK
  <2> QED BY <1>1, <2>1 DEF RTypes
<1>3. StageContent' /\ FileContent' /\ OnlyWritten' /\ store' = store
  BY <1>1, FilingStage, FilingContent, FilingWritten DEF RTypes
<1>4. LogsHold' /\ UNCHANGED <<bintree, current>> /\ backups'[current] = backups[current]
  BY <1>1, FilingLogs DEF RTypes, Phases
<1>5. Phases'
  BY <1>1, <1>4 DEF Phases
<1>6. ASSUME ~torn', ~swapped', NEW k \in Keys PROVE Found(k)'
  <2>1. Found(k)
    BY <1>1, <1>6
  <2>2. CoherentAt(k) => CoherentAt(k)'
    BY <1>1, FilingCoherent DEF RTypes
  <2>3. boot = "adjust0" => backups'[1] = backups[1]
    BY <1>1, <1>4 DEF Phases
  <2> QED BY <1>1, <1>3, <2>1, <2>2, <2>3 DEF Found, Logged
<1> QED BY <1>2, <1>3, <1>5, <1>6

\* The end of the process, whatever it interrupts.
LEMMA EndStep ==
  ASSUME RInv, Vanish, boot \notin {"down", "exit"}, halfSet' \in BOOLEAN,
         backups' \in [0 .. 1 -> Contents], nwrites' \in Nat, store' \in Contents,
         \A k \in Keys :
           \/ store'[k] = store[k] /\ \A b \in 0 .. 1 : backups'[b][k] = backups[b][k]
           \/ store'[k] # None /\ backups'[current][k] = store'[k]
  PROVE  RInv'
<1> USE DEF RInv
<1>1. TypeAndOwner' /\ Quiet'
  BY EndTypes DEF RTypes
<1>2. RTypes'
  BY <1>1 DEF RTypes, Vanish, Booting
<1>3. StageContent' /\ FileContent'
  BY <1>1, QuietOwner
<1>4. OnlyWritten'
  BY DEF Vanish, OnlyWritten, Empty
<1>5. Phases'
  BY <1>1 DEF Vanish, Phases, Quiet
<1>6. ASSUME ~torn', ~swapped', NEW k \in Keys PROVE Found(k)'
  <2>1. /\ Found(k) /\ ~HeadersAmbiguous /\ ~MergeTorn
        /\ ~(current = 0 /\ backups'[0][k] # None /\ backups'[1][k] \notin {None, backups'[0][k]})
    BY <1>6 DEF Vanish, LogsSwapped
  <2>2. /\ boot' = "down" /\ filesys' = filesys /\ Candidates' = Candidates
        /\ current \in 0 .. 1
    BY BackupTypes
    DEF Vanish, Candidates, CanKeep, CanDrop, Unread, Following, RTypes
  <2>3. SUFFICES Logged(1, k, Logged(0, k, \A r \in Candidates : FilesTell(r, k)))'
    BY <2>2 DEF Found
  <2>4. CASE store'[k] = store[k] /\ \A b \in 0 .. 1 : backups'[b][k] = backups[b][k]
    <3>1. Logged(1, k, Logged(0, k, \A r \in Candidates : FilesTell(r, k)))
      <4>1. ~(current = 0 /\ backups[0][k] # None /\ backups[1][k] \notin {None, backups[0][k]})
        BY <2>1, <2>4
      <4> QED BY <2>1, <4>1, EndFinds
    <3>2. \A r \in Candidates : FilesTell(r, k) => FilesTell(r, k)'
      BY <2>2, <2>4 DEF FilesTell
    <3> QED BY <2>2, <2>4, <3>1, <3>2 DEF Logged
  <2>5. CASE store'[k] # None /\ backups'[current][k] = store'[k]
    BY <2>1, <2>2, <2>5 DEF Logged
  <2> QED BY <2>4, <2>5
<1> QED BY <1>2, <1>3, <1>4, <1>5, <1>6

\* Every step preserves the invariant.
LEMMA RecoveryStep == RInv /\ [RNext]_rvars => RInv'
<1> SUFFICES ASSUME RInv, [RNext]_rvars PROVE RInv'
  OBVIOUS
<1>1. CASE Boot
  <2>1. UNCHANGED <<torn, swapped>>
    BY <1>1 DEF Boot, BootRecent, BootLoad, BootReturn, BootTree, BootBloomLoad,
       BootBloomWrite, unbooted
  <2> QED
    BY <1>1, <2>1, BootTypes, BootContent, BootPhases, BootFinds DEF RInv
<1>2. CASE Crash
  <2>1. /\ backups' \in [0 .. 1 -> Contents] /\ nwrites' \in Nat /\ store' \in Contents
        /\ halfSet' \in BOOLEAN /\ UNCHANGED <<backups, store>>
    BY <1>2 DEF Crash, RInv, RTypes, TypeAndOwner, TypeOK
  <2> QED BY <1>2, <2>1, EndStep DEF Crash
<1>3. ASSUME NEW t \in Threads, NEW j \in Keys, NEW v \in Vals \cup {Tomb},
             CrashInWrite(t, j, v)
      PROVE  RInv'
  <2>1. backups' \in [0 .. 1 -> Contents] /\ nwrites' \in Nat /\ store' \in Contents
    BY <1>3, CutWriteTypes DEF RInv, RTypes
  <2>2. /\ backups' = [backups EXCEPT ![current][j] = v] /\ store' = [store EXCEPT ![j] = v]
        /\ v # None /\ backups \in [0 .. 1 -> Contents] /\ store \in Contents
        /\ current \in 0 .. 1 /\ Vanish /\ boot = "up" /\ halfSet' = TRUE
    BY <1>3, EntriesAssumption DEF CrashInWrite, RInv, RTypes, TypeAndOwner, TypeOK
  <2>3. ASSUME NEW k \in Keys
        PROVE  \/ store'[k] = store[k] /\ \A b \in 0 .. 1 : backups'[b][k] = backups[b][k]
               \/ store'[k] # None /\ backups'[current][k] = store'[k]
    BY <2>2 DEF Contents
  <2> QED BY <2>1, <2>2, <2>3, EndStep
<1>4. CASE UNCHANGED rvars
  <2>1. UNCHANGED <<memory, disk, apc, store, fslock, readers, now, nwrites, history,
                    boot, bloomOk, crashes, torn, swapped, halfSet>>
    BY <1>4 DEF rvars, vars, history
  <2>2. TypeAndOwner' /\ RTypes'
    BY <2>1 DEF RInv, RTypes, TypeAndOwner, TypeOK, OneAdjust, memory, disk, readers, history
  <2>3. StageContent' /\ FileContent' /\ OnlyWritten'
    BY <2>1 DEF RInv, StageContent, FileContent, OnlyWritten, Oldest, SecondOldest,
       Merged, memory, disk
  <2>4. Phases'
    BY <2>1 DEF RInv, Phases, LogsHold, OtherBackup, memory, disk
  <2>5. ASSUME NEW k \in Keys, Found(k) PROVE Found(k)'
    <3>1. CoherentAt(k) => CoherentAt(k)'
      BY <2>1, ReadCoherent
    <3>2. Candidates' = Candidates /\ \A r \in Candidates : FilesTell(r, k) => FilesTell(r, k)'
      BY <2>1 DEF Candidates, CanKeep, CanDrop, Unread, Following, FilesTell, disk
    <3> QED BY <2>1, <2>5, <3>1, <3>2 DEF Found, Logged, disk
  <2> QED BY <2>1, <2>2, <2>3, <2>4, <2>5 DEF RInv
<1> QED
  BY <1>1, <1>2, <1>3, <1>4, WriteStep, AdjustStep DEF RNext

\* However often the process ends, at run time or in a start, the store that
\* has started again has for every key the value last written, unless an end
\* hit one of the windows that torn and swapped name.
THEOREM StoreRecovered == RSpec => []RecoveredCoherent
<1>1. RInv => RecoveredCoherent
  BY EveryKey DEF RInv, RecoveredCoherent, Found
<1> QED
  BY InitRecovery, RecoveryStep, <1>1, PTL DEF RSpec

\* In a restarted store, too, one adjust at a time has a tree to file.
THEOREM OwnershipRestarts == RSpec => []OneAdjust
<1>1. RInv => OneAdjust
  BY DEF RInv, RTypes, TypeAndOwner
<1> QED
  BY InitRecovery, RecoveryStep, <1>1, PTL DEF RSpec

\* Who empties a backup that holds something: adjust, when the tree's file has
\* it.
LEMMA FilingRetires ==
  ASSUME TypeAndOwner, StageContent, LogsHold, NEW a \in Adjusters, Filing(a),
         NEW b \in 0 .. 1, backups[b] # Empty, backups'[b] = Empty
  PROVE  \E i \in Index : filesys[i] = backups[b]
<1>0. /\ OtherBackup \in 0 .. 1 /\ backups \in [0 .. 1 -> Contents] /\ Oldest \in Index
      /\ reserve \in Contents \cup {Null}
  BY BackupTypes, RingTypes DEF TypeAndOwner, TypeOK
<1>1. RetireBackup /\ apc[a] \in {"dumped", "synced"}
  BY <1>0 DEF Filing, FileStep, AdjustBegin, AdjustTruncate, MergeFlush, MergeDone,
     AdjustReopen, DumpFlush, AdjustDump, SyncRecord, AdjustPublish,
     AdjustUnlock, disk, Stage
<1>2. b = OtherBackup
  BY <1>0, <1>1 DEF RetireBackup
<1>3. backups[b] = reserve
  BY <1>2 DEF LogsHold
<1>4. filesys[Oldest] = reserve
  BY <1>1 DEF StageContent
<1> QED BY <1>0, <1>3, <1>4

\* Whoever empties a backup that still holds a log, a file has all that it
\* logged.
THEOREM BackupsEmptiedOnceFiled == RSpec => BackupsFiled
<1>1. ASSUME RInv, [RNext]_rvars
      PROVE  \A b \in 0 .. 1 : backups[b] # Empty /\ backups'[b] = Empty =>
               \E i \in Index : filesys[i] = backups[b]
  <2> USE DEF RInv, RTypes
  <2> SUFFICES ASSUME NEW b \in 0 .. 1, backups[b] # Empty, backups'[b] = Empty
               PROVE  \E i \in Index : filesys[i] = backups[b]
    OBVIOUS
  <2>0. /\ current \in 0 .. 1 /\ OtherBackup \in 0 .. 1
        /\ backups \in [0 .. 1 -> Contents]
    BY <1>1, BackupTypes
  <2>1. ASSUME NEW k \in Keys, NEW v \in Vals \cup {Tomb},
               backups' = [backups EXCEPT ![current][k] = v]
        PROVE  FALSE
    <3>1. v # None
      BY EntriesAssumption
    <3>2. backups'[current][k] = v /\ (b # current => backups'[b] = backups[b])
      BY <2>0, <2>1 DEF Contents
    <3> QED BY <3>1, <3>2 DEF Empty
  <2>2. ASSUME NEW t \in Threads, RunningWrite(t) PROVE FALSE
    <3>1. CASE Check(t) /\ TreeFull
      <4>1. backups' = [backups EXCEPT ![OtherBackup] = Empty] /\ reserve = Null
        BY <3>1 DEF Check, TreeFull
      <4>2. backups[OtherBackup] = Empty
        BY <1>1, <2>2, <4>1 DEF RunningWrite, Phases, LogsHold
      <4> QED BY <2>0, <4>1, <4>2
    <3>2. CASE ~(Check(t) /\ TreeFull)
      BY <2>1, <2>2, <3>2 DEF RunningWrite, DbWrite, Check
    <3> QED BY <3>1, <3>2
  <2>3. CASE \E a \in Adjusters : RunningAdjust(a) \/ BootAdjust(a)
    <3>1. PICK a \in Adjusters : Filing(a) /\ boot \in {"up", "adjust0", "adjust1"}
      BY <2>3, AdjustFiles, BootFiles DEF RunningAdjust, BootAdjust
    <3> QED BY <1>1, <3>1, FilingRetires DEF Phases
  <2>4. CASE Boot
    <3>1. BootTree
      BY <2>4 DEF Boot, BootRecent, BootLoad, BootReturn, BootBloomLoad,
         BootBloomWrite, disk
    <3> QED BY <1>1, <2>0, <3>1 DEF BootTree, Phases
  <2>5. CASE Crash \/ UNCHANGED rvars
    BY <2>5 DEF Crash, rvars, vars, disk
  <2>6. CASE \E t \in Threads, k \in Keys, v \in Vals \cup {Tomb} : CrashInWrite(t, k, v)
    BY <2>1, <2>6 DEF CrashInWrite
  <2> QED BY <1>1, <2>2, <2>3, <2>4, <2>5, <2>6 DEF RNext
<1> QED
  BY InitRecovery, RecoveryStep, <1>1, PTL DEF RSpec, BackupsFiled

\* The filter has the bits of every key that was ever written.
FilterCovers == ~halfSet => \A k \in Keys : store[k] # None => BloomHas(k)

\* A key that was written passes the filter after any number of restarts,
\* unless its write was cut short.
THEOREM FilterSurvives == RSpec => []BloomCovers
<1>1. RInit => FilterCovers
  BY DEF RInit, Init, FilterCovers
<1>2. RInv /\ FilterCovers /\ [RNext]_rvars => FilterCovers'
  <2> SUFFICES ASSUME RInv, FilterCovers, [RNext]_rvars PROVE FilterCovers'
    OBVIOUS
  <2>1. ASSUME NEW t \in Threads, RunningWrite(t) PROVE FilterCovers'
    <3>1. CASE Check(t)
      BY <2>1, <3>1 DEF Check, RunningWrite, FilterCovers, BloomHas
    <3>2. ASSUME NEW k \in Keys, NEW v \in Vals \cup {Tomb}, DbWrite(t, k, v)
          PROVE  FilterCovers'
      <4>1. /\ store' = [store EXCEPT ![k] = v] /\ bloom' = bloom \cup Hash[k]
            /\ store \in Contents /\ halfSet' = halfSet
        BY <2>1, <3>2 DEF DbWrite, RunningWrite, RInv, RTypes, TypeAndOwner, TypeOK
      <4>2. \A j \in Keys : store'[j] # None => j = k \/ store[j] # None
        BY <4>1 DEF Contents
      <4> QED BY <4>1, <4>2 DEF FilterCovers, BloomHas
    <3> QED BY <2>1, <3>1, <3>2 DEF RunningWrite
  <2>2. CASE \E a \in Adjusters : RunningAdjust(a) \/ BootAdjust(a)
    <3>1. UNCHANGED <<store, bloom, halfSet>>
      BY <2>2 DEF RunningAdjust, BootAdjust, Adjust, FileStep, AdjustBegin,
         AdjustTruncate, MergeFlush, MergeDone, AdjustReopen, DumpFlush,
         AdjustDump, AdjustSync, BootSync, AdjustPublish, AdjustUnlock, memory, history
    <3> QED BY <3>1 DEF FilterCovers, BloomHas
  <2>3. CASE Boot \/ Crash \/ UNCHANGED rvars
    <3>1. UNCHANGED <<store, bloom, halfSet>>
      BY <2>3 DEF Boot, BootRecent, BootLoad, BootReturn, BootTree, BootBloomLoad,
         BootBloomWrite, unbooted, Crash, Vanish, rvars, vars, memory, history
    <3> QED BY <3>1 DEF FilterCovers, BloomHas
  <2>4. CASE \E t \in Threads, k \in Keys, v \in Vals \cup {Tomb} : CrashInWrite(t, k, v)
    BY <2>4 DEF CrashInWrite, FilterCovers
  <2> QED BY <2>1, <2>2, <2>3, <2>4 DEF RNext
<1>3. FilterCovers => BloomCovers
  BY DEF FilterCovers, BloomCovers
<1> QED
  BY InitRecovery, RecoveryStep, <1>1, <1>2, <1>3, PTL DEF RSpec
=============================================================================
