---------------------------- MODULE MasterProofs ----------------------------
(***************************************************************************)
(* Proofs about Master, for every number of keys, files, serve threads and *)
(* adjust threads, and every tree size.                                    *)
(***************************************************************************)
EXTENDS Master, TLAPS

-----------------------------------------------------------------------------
(* The ring of files, and contents of trees and files *)

\* Every remainder by NumFiles is the index of a file.
LEMMA ModIndex == ASSUME NEW i \in Nat PROVE i % NumFiles \in Index
  BY ConstantsAssumption DEF Index

\* Below twice NumFiles the remainder is at most one subtraction.
LEMMA ModWrap ==
  ASSUME NEW i \in Nat, i < 2 * NumFiles
  PROVE  i % NumFiles = IF i < NumFiles THEN i ELSE i - NumFiles
  BY ConstantsAssumption

\* The two files an adjust rewrites exist, and recent moves to one.
LEMMA RingTypes ==
  ASSUME recent \in Index
  PROVE  Oldest \in Index /\ SecondOldest \in Index /\ recent \in Nat
  BY ModIndex DEF Oldest, SecondOldest, Index

\* The two backups take turns.
LEMMA OtherType ==
  ASSUME current \in 0 .. 1
  PROVE  OtherBackup \in 0 .. 1 /\ OtherBackup # current
  BY DEF OtherBackup

\* Merging, cutting and emptying contents gives contents.
LEMMA ContentTypes ==
  /\ Empty \in Contents
  /\ \A c \in Contents : \A m : Prefix(c, m) \in Contents
  /\ \A c, d \in Contents : MergeFiles(c, d) \in Contents
  BY DEF Empty, Contents, Prefix, MergeFiles, Entry
-----------------------------------------------------------------------------
(* Types, and the one adjust that owns the files *)

TypeAndOwner == TypeOK /\ OneAdjust

\* The initial state satisfies the types and has no adjust.
LEMMA InitTypeAndOwner == Init => TypeAndOwner
<1> SUFFICES ASSUME Init PROVE TypeAndOwner
  OBVIOUS
<1>1. TypeOK
  <2>1. bintree \in Contents /\ reserve \in Contents \cup {Null} /\ tempfile \in Contents
    BY ContentTypes DEF Init
  <2>2. recent \in Index /\ 0 \in Index /\ stamp \in [Index -> Nat] /\ tempStamp \in Nat /\ now \in Nat
    BY ConstantsAssumption DEF Init, Index, NoStamp
  <2>3. filesys \in [Index -> Contents] /\ backups \in [0 .. 1 -> Contents]
    BY ContentTypes DEF Init
  <2>4. store \in Contents /\ reply \in [Threads -> Entry]
    BY DEF Init, Contents, Entry
  <2>5. pc \in [Threads -> Reading \cup {"getline", "check"}]
        /\ \A t \in Threads : pc[t] \notin Reading
    BY DEF Init, Reading
  <2> QED
    BY <2>1, <2>2, <2>3, <2>4, <2>5 DEF Init, TypeOK
<1>2. OneAdjust
  BY ConstantsAssumption DEF Init, OneAdjust, Pending, Working
<1> QED BY <1>1, <1>2 DEF TypeAndOwner

\* Every step of a serve thread preserves the types.
LEMMA ServeTypes ==
  ASSUME TypeAndOwner, NEW t \in Threads, Serve(t) PROVE TypeOK'
<1> USE DEF TypeAndOwner
<1>1. CASE \E k \in Keys, v \in Vals \cup {Tomb} : DbWrite(t, k, v)
  <2> PICK k \in Keys, v \in Vals \cup {Tomb} : DbWrite(t, k, v)
    BY <1>1
  <2>1. v \in Entry
    BY DEF Entry
  <2>2. bintree' \in Contents /\ store' \in Contents
    BY <2>1 DEF DbWrite, TypeOK, Contents
  <2>3. backups' \in [0 .. 1 -> Contents]
    BY <2>1 DEF DbWrite, TypeOK, Contents
  <2>4. bloom' \subseteq UNION {Hash[j] : j \in Keys}
    BY DEF DbWrite, TypeOK
  <2>5. window' \in [Threads -> SUBSET Entry]
    BY <2>1 DEF DbWrite, TypeOK
  <2>6. pc' \in [Threads -> Reading \cup {"getline", "check"}]
    BY DEF DbWrite, TypeOK
  <2>7. \A u \in Threads : pc'[u] \in Reading => key'[u] \in Keys
    BY DEF DbWrite, TypeOK, Reading
  <2> QED
    BY <2>2, <2>3, <2>4, <2>5, <2>6, <2>7 DEF DbWrite, TypeOK
<1>2. CASE \E k \in Keys : DbRead(t, k)
  <2> PICK k \in Keys : DbRead(t, k)
    BY <1>2
  <2>1. InMemory(k) \in Entry /\ None \in Entry /\ store[k] \in Entry
    BY DEF InMemory, TypeOK, Contents, Entry
  <2>2. window' \in [Threads -> SUBSET Entry] /\ reply' \in [Threads -> Entry]
    BY <2>1 DEF DbRead, TypeOK
  <2>3. /\ pc' \in [Threads -> Reading \cup {"getline", "check"}]
        /\ key' \in [Threads -> Keys \cup {None}]
        /\ \A u \in Threads : pc'[u] \in Reading => key'[u] \in Keys
    BY DEF DbRead, TypeOK, Reading
  <2> QED
    BY <2>2, <2>3 DEF DbRead, TypeOK, memory, disk
<1>3. CASE ScanFile(t)
  <2>1. Older(pos[t]) \in Index
    BY ModIndex, ConstantsAssumption DEF Older, TypeOK, Index
  <2>2. filesys[pos[t]][key[t]] \in Entry
    BY <1>3 DEF ScanFile, TypeOK, Contents, Reading
  <2> QED
    BY <1>3, <2>1, <2>2
    DEF ScanFile, TypeOK, Reading, memory, disk, history
<1>4. CASE ReadDanger(t)
  <2>1. (snap[t] + 2) % NumFiles \in Index /\ (snap[t] + 1) % NumFiles \in Index
    <3>1. snap[t] + 2 \in Nat /\ snap[t] + 1 \in Nat
      BY DEF TypeOK, Index
    <3> QED BY <3>1, ModIndex
  <2>2. InDanger(t) \in Entry
    BY <1>4, <2>1 DEF ReadDanger, InDanger, TypeOK, Contents, Reading
  <2> QED
    BY <1>4, <2>2 DEF ReadDanger, TypeOK, Reading, memory, disk, history
<1>5. CASE Check(t)
  <2>1. /\ reserve' \in Contents \cup {Null} /\ bintree' \in Contents
        /\ current' \in 0 .. 1 /\ backups' \in [0 .. 1 -> Contents]
    BY <1>5, OtherType, ContentTypes DEF Check, TypeOK
  <2>2. apc' \in [Adjusters -> Pending \cup {"none", "unlock"}]
    BY <1>5 DEF Check, TypeOK, Pending
  <2>3. /\ pc' \in [Threads -> Reading \cup {"getline", "check"}]
        /\ key' \in [Threads -> Keys \cup {None}]
        /\ \A u \in Threads : pc'[u] \in Reading => key'[u] \in Keys
    BY <1>5 DEF Check, TypeOK, Reading
  <2>4. /\ reply' \in [Threads -> Entry] /\ 0 \in Index
        /\ window' \in [Threads -> SUBSET Entry]
    BY <1>5, ConstantsAssumption DEF Check, TypeOK, Entry, Index
  <2> QED
    BY <1>5, <2>1, <2>2, <2>3, <2>4 DEF Check, TypeOK
<1> QED BY <1>1, <1>2, <1>3, <1>4, <1>5 DEF Serve
\* While an adjust works there is a tree to file.
LEMMA WorkingReserve ==
  ASSUME TypeAndOwner, NEW a \in Adjusters, apc[a] \in Working
  PROVE  reserve \in Contents
  BY DEF TypeAndOwner, TypeOK, OneAdjust, Pending

\* A flush leaves contents and a stamp.
LEMMA FlushTypes ==
  ASSUME TypeOK, NEW i \in Index, NEW h \in Nat, NEW c \in Contents, NEW m,
         Flush(i, h, c, m)
  PROVE  filesys' \in [Index -> Contents] /\ stamp' \in [Index -> Nat]
  BY ContentTypes DEF Flush, TypeOK

\* Every step of an adjust thread preserves the types.
LEMMA AdjustTypes ==
  ASSUME TypeAndOwner, NEW a \in Adjusters, Adjust(a) PROVE TypeOK'
<1> USE DEF TypeAndOwner
<1>0. /\ Oldest \in Index /\ SecondOldest \in Index /\ recent \in Nat
      /\ OtherBackup \in 0 .. 1 /\ Empty \in Contents /\ NoStamp \in Nat
  BY RingTypes, OtherType, ContentTypes, ConstantsAssumption DEF TypeOK, NoStamp
<1>1. Merged \in Contents
  BY <1>0, ContentTypes DEF Merged, TypeOK
<1>2. ASSUME NEW from, NEW to \in Pending \cup {"none", "unlock"}, Stage(a, from, to)
      PROVE  apc' \in [Adjusters -> Pending \cup {"none", "unlock"}]
  BY <1>2 DEF Stage, TypeOK
<1> USE DEF Pending, Working
<1>3. CASE AdjustBegin(a)
  BY <1>0, <1>2, <1>3
  DEF AdjustBegin, TypeOK, memory, readers, history
<1>4. CASE AdjustTruncate(a)
  <2>1. filesys' \in [Index -> Contents] /\ stamp' \in [Index -> Nat]
    BY <1>0, <1>4 DEF AdjustTruncate, Truncated, TypeOK
  <2>2. lapped' \in [Threads -> BOOLEAN]
    BY <1>4 DEF AdjustTruncate, TypeOK
  <2> QED
    BY <1>2, <1>4, <2>1, <2>2 DEF AdjustTruncate, TypeOK, memory, readers
<1>5. CASE \E m \in Keys \cup {0} : MergeFlush(a, m)
  <2>1. filesys' \in [Index -> Contents] /\ stamp' \in [Index -> Nat]
    BY <1>0, <1>1, <1>5, FlushTypes DEF MergeFlush, TypeOK
  <2> QED
    BY <1>5, <2>1 DEF MergeFlush, TypeOK, memory, readers, history
<1>6. CASE MergeDone(a)
  BY <1>0, <1>1, <1>2, <1>6
  DEF MergeDone, TypeOK, memory, readers, history
<1>7. CASE AdjustReopen(a)
  <2>1. filesys' \in [Index -> Contents] /\ stamp' \in [Index -> Nat]
    BY <1>0, <1>7 DEF AdjustReopen, Truncated, TypeOK
  <2>2. now' \in Nat
    BY <1>7 DEF AdjustReopen, TypeOK
  <2> QED
    BY <1>0, <1>2, <1>7, <2>1, <2>2
    DEF AdjustReopen, TypeOK, memory, readers, history
<1>8. CASE \E m \in Keys \cup {0} : DumpFlush(a, m)
  <2>1. reserve \in Contents
    BY <1>8, WorkingReserve DEF DumpFlush
  <2>2. filesys' \in [Index -> Contents] /\ stamp' \in [Index -> Nat]
    BY <1>0, <1>8, <2>1, FlushTypes DEF DumpFlush, TypeOK
  <2> QED
    BY <1>8, <2>2 DEF DumpFlush, TypeOK, memory, readers, history
<1>9. CASE AdjustDump(a)
  <2>1. reserve \in Contents
    BY <1>9, WorkingReserve DEF AdjustDump, Stage
  <2> QED
    BY <1>0, <1>2, <1>9, <2>1 DEF AdjustDump, TypeOK, memory, readers, history
<1>10. CASE AdjustSync(a)
  BY <1>0, <1>2, <1>10
  DEF AdjustSync, RetireBackup, TypeOK, memory, readers, history
<1>11. CASE AdjustPublish(a)
  <2>1. recent' \in Index
    BY <1>0, <1>11, ModIndex DEF AdjustPublish
  <2> QED
    BY <1>0, <1>2, <1>11, <2>1
    DEF AdjustPublish, RetireBackup, TypeOK, readers, history
<1>12. CASE AdjustUnlock(a)
  BY <1>2, <1>12
  DEF AdjustUnlock, TypeOK, memory, disk, readers, history
<1> QED
  BY <1>3, <1>4, <1>5, <1>6, <1>7, <1>8, <1>9, <1>10, <1>11, <1>12
  DEF Adjust, FileStep
\* Steps of the serve threads preserve the ownership of the files: a swap is
\* made only when no adjust has a tree to file.
LEMMA ServeOwner ==
  ASSUME TypeAndOwner, NEW t \in Threads, Serve(t) PROVE OneAdjust'
<1> USE DEF TypeAndOwner
<1>1. CASE UNCHANGED <<reserve, fslock, apc>>
  BY <1>1 DEF OneAdjust
<1>2. CASE Check(t) /\ TreeFull
  <2>1. PICK a \in Adjusters : apc[a] = "none" /\ apc' = [apc EXCEPT ![a] = "wait"]
    BY <1>2 DEF Check
  <2>2. reserve = Null /\ reserve' # Null /\ fslock' = fslock
    BY <1>2, ConstantsAssumption DEF Check, TreeFull, TypeOK, Contents, Entry
  <2>3. \A b \in Adjusters : apc[b] \in {"none", "unlock"}
    BY <2>2 DEF OneAdjust, TypeOK
  <2>4. apc'[a] = "wait" /\ \A b \in Adjusters \ {a} : apc'[b] = apc[b]
    BY <2>1 DEF TypeOK
  <2> QED
    BY <2>1, <2>2, <2>3, <2>4 DEF OneAdjust, Pending, Working
<1> QED
  BY <1>1, <1>2 DEF Serve, DbWrite, DbRead, ScanFile, ReadDanger, Check, memory

\* Steps of the adjust that keep its tree.
LEMMA KeepOwner ==
  ASSUME TypeAndOwner, NEW a \in Adjusters, apc[a] \in Working,
         NEW to \in Working, apc' = [apc EXCEPT ![a] = to],
         UNCHANGED <<reserve, fslock>>
  PROVE  OneAdjust'
<1>1. apc'[a] = to /\ \A b \in Adjusters \ {a} : apc'[b] = apc[b]
  BY DEF TypeAndOwner, TypeOK
<1> QED
  BY <1>1 DEF TypeAndOwner, OneAdjust, Pending, Working

\* Steps of the adjust threads preserve the ownership of the files.
LEMMA AdjustOwner ==
  ASSUME TypeAndOwner, NEW a \in Adjusters, Adjust(a) PROVE OneAdjust'
<1> USE DEF TypeAndOwner
<1>1. ASSUME NEW to, apc' = [apc EXCEPT ![a] = to]
      PROVE  apc'[a] = to /\ \A b \in Adjusters \ {a} : apc'[b] = apc[b]
  BY <1>1 DEF TypeOK
<1>2. CASE AdjustBegin(a)
  <2>1. apc[a] = "wait" /\ apc'[a] = "copied" /\ fslock' = a /\ reserve' = reserve
        /\ \A b \in Adjusters \ {a} : apc'[b] = apc[b]
    BY <1>1, <1>2 DEF AdjustBegin, Stage, memory
  <2>2. \A b \in Adjusters : apc[b] \notin Working \cup {"unlock"}
    BY <1>2, ConstantsAssumption DEF AdjustBegin, LockFree, OneAdjust
  <2> QED
    BY <2>1, <2>2 DEF OneAdjust, Pending, Working
<1>3. CASE AdjustPublish(a)
  <2>1. apc[a] = "synced" /\ apc'[a] = "unlock" /\ fslock' = fslock /\ reserve' = Null
        /\ \A b \in Adjusters \ {a} : apc'[b] = apc[b]
    BY <1>1, <1>3 DEF AdjustPublish, Stage
  <2>2. fslock = a /\ \A b \in Adjusters \ {a} : apc[b] = "none"
    BY <2>1 DEF OneAdjust, Pending, Working
  <2>3. \E b \in Adjusters : b # a
    BY ConstantsAssumption
  <2> QED
    BY <2>1, <2>2, <2>3 DEF OneAdjust, Pending, Working
<1>4. CASE AdjustUnlock(a)
  <2>1. apc[a] = "unlock" /\ apc'[a] = "none" /\ fslock' = Nobody /\ reserve' = reserve
        /\ \A b \in Adjusters \ {a} : apc'[b] = apc[b]
    BY <1>1, <1>4 DEF AdjustUnlock, Stage, memory
  <2>2. \A b \in Adjusters \ {a} : apc[b] \notin Working \cup {"unlock"}
    BY <2>1 DEF OneAdjust
  <2> QED
    BY <2>1, <2>2, ConstantsAssumption DEF OneAdjust, Pending, Working
<1>5. CASE /\ FileStep(a) \/ AdjustSync(a)
           /\ ~AdjustBegin(a)
  <2>1. UNCHANGED <<reserve, fslock>>
    BY <1>5 DEF FileStep, AdjustTruncate, MergeFlush, MergeDone, AdjustReopen,
       DumpFlush, AdjustDump, AdjustSync, memory
  <2>2. \/ apc' = apc
        \/ apc[a] \in Working /\ \E to \in Working : apc' = [apc EXCEPT ![a] = to]
    BY <1>5 DEF FileStep, AdjustTruncate, MergeFlush, MergeDone, AdjustReopen,
       DumpFlush, AdjustDump, AdjustSync, Stage, Working
  <2> QED
    BY <2>1, <2>2, KeepOwner DEF OneAdjust
<1> QED
  BY <1>2, <1>3, <1>4, <1>5 DEF Adjust, FileStep

\* The types and the ownership of the files are inductive.
LEMMA StepTypeAndOwner == TypeAndOwner /\ [Next]_vars => TypeAndOwner'
<1> SUFFICES ASSUME TypeAndOwner, [Next]_vars PROVE TypeAndOwner'
  OBVIOUS
<1>1. ASSUME NEW t \in Threads, Serve(t) PROVE TypeAndOwner'
  BY <1>1, ServeTypes, ServeOwner DEF TypeAndOwner
<1>2. ASSUME NEW a \in Adjusters, Adjust(a) PROVE TypeAndOwner'
  BY <1>2, AdjustTypes, AdjustOwner DEF TypeAndOwner
<1>3. CASE UNCHANGED vars
  BY <1>3 DEF vars, memory, disk, readers, history, TypeAndOwner, TypeOK, OneAdjust
<1> QED
  BY <1>1, <1>2, <1>3 DEF Next

\* Every variable of the running store keeps its type.
THEOREM TypeCorrect == Spec => []TypeOK
<1>1. TypeAndOwner => TypeOK
  BY DEF TypeAndOwner
<1> QED
  BY <1>1, InitTypeAndOwner, StepTypeAndOwner, PTL DEF Spec

\* At most one adjust has a tree to file, it alone holds fslock while it
\* works, and a swap always finds a name for a new one.
THEOREM Ownership == Spec => []OneAdjust
<1>1. TypeAndOwner => OneAdjust
  BY DEF TypeAndOwner
<1> QED
  BY <1>1, InitTypeAndOwner, StepTypeAndOwner, PTL DEF Spec
=============================================================================
