---------------------------- MODULE FileIOProofs ----------------------------
(***************************************************************************)
(* Proofs about FileIO with one serve thread, for every number and size of *)
(* blocks, and every number, size and version of files.                    *)
(***************************************************************************)
EXTENDS FileIO, SequenceTheorems, WellFoundedInduction, TLAPS

-----------------------------------------------------------------------------
(* The inductive invariant *)

Typed ==
  /\ version \in [Files -> Nat] /\ size \in [Files -> Nat]
  /\ opened \in [Handles -> Files \cup {NoFile}]
  /\ position \in [Handles -> Int]
  /\ DOMAIN buffer = Blocks
  /\ bufferMetaData \in [Blocks -> [fileHandle : Int, offset : Int]]
  /\ pc \in [Threads -> {"closed", "open"} \cup Loading]
  /\ fd \in [Threads -> Int] /\ offset \in [Threads -> Nat]
  /\ blk \in [Threads -> Blocks] /\ DOMAIN result = Threads

\* The handle of a thread is open, and one that is open is a thread's.
Owned ==
  /\ \A t \in Threads : IF pc[t] = "closed"
                          THEN result[t] = NoRead
                          ELSE fd[t] \in Handles /\ opened[fd[t]] \in Files
  /\ \A h \in Handles : opened[h] # NoFile =>
       \E t \in Threads : pc[t] # "closed" /\ fd[t] = h

\* What slot s of block i should hold, had the file on h at offset o been
\* read into it.
HasFrom(i, h, o) == \A s \in Slots :
  o + s < size[opened[h]] => buffer[i][s] = EntryAt(h, o + s)

\* A block in use is of a file that is open, and as long as the file lasts it
\* has what the file has.
Filled == \A i \in Blocks :
  bufferMetaData[i].fileHandle >= 0 =>
    /\ bufferMetaData[i].fileHandle \in Handles
    /\ opened[bufferMetaData[i].fileHandle] \in Files
    /\ HasFrom(i, bufferMetaData[i].fileHandle, bufferMetaData[i].offset)

\* The block that a thread reads into is in no other use.
Loads == \A t \in Threads : pc[t] \in Loading =>
  /\ offset[t] < size[opened[fd[t]]]
  /\ bufferMetaData[blk[t]].fileHandle < 0
  /\ pc[t] = "read" => position[fd[t]] = BlkOff(offset[t])
  /\ pc[t] = "loaded" => HasFrom(blk[t], fd[t], BlkOff(offset[t]))

IInv == Typed /\ Owned /\ Filled /\ Loads /\ ReadsFile

\* An offset lies in its block.
LEMMA InBlock ==
  ASSUME NEW o \in Nat
  PROVE  BlkOff(o) \in Int /\ o - BlkOff(o) \in Slots
<1>1. o % BlkSize \in 0 .. BlkSize - 1
  BY FileIOAssumption
<1> QED
  BY <1>1, FileIOAssumption DEF BlkOff, Slots

\* At first nothing is open and no block is in use.
LEMMA InitIInv == Init => IInv
<1> SUFFICES ASSUME Init PROVE IInv
  OBVIOUS
<1> USE FileIOAssumption
<1>1. Typed
  <2>1. size \in [Files -> Nat]
    BY DEF Init
  <2>2. 0 \in Blocks
    BY DEF Blocks
  <2> QED
    BY <2>1, <2>2 DEF Init, Typed, Unused
<1>2. Owned
  BY DEF Init, Owned
<1>3. Filled
  BY DEF Init, Filled, Unused
<1>4. Loads /\ ReadsFile
  BY DEF Init, Loads, Loading, ReadsFile
<1> QED
  BY <1>1, <1>2, <1>3, <1>4 DEF IInv
-----------------------------------------------------------------------------
(* Steps, with one thread *)

\* adjust does not touch a file that is open.
LEMMA RewriteStep ==
  ASSUME IInv, NEW f \in Files, Rewrite(f) PROVE IInv'
<1> USE FileIOAssumption DEF disk, kernel, buffers, threads
<1>1. \A h \in Handles : opened[h] \in Files =>
        version'[opened[h]] = version[opened[h]] /\ size'[opened[h]] = size[opened[h]]
  BY DEF IInv, Typed, Rewrite
<1>2. opened' = opened /\ buffer' = buffer /\ bufferMetaData' = bufferMetaData
      /\ pc' = pc /\ fd' = fd /\ offset' = offset /\ blk' = blk
      /\ result' = result /\ position' = position
  BY DEF Rewrite
<1>3. Typed'
  <2>1. version' \in [Files -> Nat] /\ size' \in [Files -> Nat]
    BY DEF IInv, Typed, Rewrite
  <2> QED
    BY <1>2, <2>1 DEF IInv, Typed
<1>4. Owned'
  BY <1>2 DEF IInv, Owned
<1>5. ASSUME NEW i \in Blocks, NEW h \in Handles, NEW o, opened[h] \in Files,
             HasFrom(i, h, o)
      PROVE  HasFrom(i, h, o)'
  BY <1>1, <1>2, <1>5 DEF HasFrom, EntryAt
<1>6. Filled'
  BY <1>2, <1>5 DEF IInv, Filled
<1>7. ASSUME NEW t \in Threads, pc[t] # "closed"
      PROVE  fd[t] \in Handles /\ opened[fd[t]] \in Files /\ blk[t] \in Blocks
  BY <1>7 DEF IInv, Owned, Typed
<1>8. Loads'
  BY <1>1, <1>2, <1>5, <1>7 DEF IInv, Loads, Loading, BlkOff
<1>9. ReadsFile'
  BY <1>1, <1>2, <1>7 DEF IInv, ReadsFile, EntryAt
<1> QED
  BY <1>3, <1>4, <1>6, <1>8, <1>9 DEF IInv

\* A handle is given out when no block is in use.
LEMMA OpenStep ==
  ASSUME IInv, NEW u, Threads = {u}, NEW f \in Files, OpenFile(u, f) PROVE IInv'
<1> USE FileIOAssumption DEF disk, kernel, buffers, threads
<1>1. pc[u] = "closed" /\ result[u] = NoRead
  BY DEF IInv, Owned, OpenFile
<1>2. \A h \in Handles : opened[h] = NoFile
  BY <1>1 DEF IInv, Owned
<1>3. \A i \in Blocks : bufferMetaData[i].fileHandle < 0
  BY <1>2 DEF IInv, Filled, Typed
<1>4. PICK h \in Handles : /\ opened' = [opened EXCEPT ![h] = f]
                           /\ position' = [position EXCEPT ![h] = 0]
                           /\ fd' = [fd EXCEPT ![u] = h]
  BY DEF OpenFile
<1>5. Handles \subseteq Int /\ u \in Threads
  BY DEF Handles
<1>6. Typed'
  BY <1>4, <1>5 DEF IInv, Typed, OpenFile, Loading
<1>7. Owned'
  BY <1>2, <1>4, <1>5 DEF IInv, Owned, OpenFile, Typed
<1>8. Filled'
  BY <1>3 DEF Filled, OpenFile, IInv, Typed
<1>9. pc'[u] = "open" /\ result'[u] = NoRead
  BY <1>1, <1>5 DEF OpenFile, IInv, Typed
<1>10. Loads' /\ ReadsFile'
  BY <1>9 DEF Loads, ReadsFile, Loading
<1> QED
  BY <1>6, <1>7, <1>8, <1>10 DEF IInv

\* With its handle the thread gives up every block.
LEMMA CloseStep ==
  ASSUME IInv, NEW u, Threads = {u}, CloseFile(u) PROVE IInv'
<1> USE FileIOAssumption DEF disk, kernel, buffers, threads
<1>1. u \in Threads /\ pc[u] = "open" /\ fd[u] \in Handles
  BY DEF IInv, Owned, CloseFile
<1>2. opened' = [opened EXCEPT ![fd[u]] = NoFile]
      /\ pc' = [pc EXCEPT ![u] = "closed"] /\ fd' = [fd EXCEPT ![u] = -1]
      /\ result' = [result EXCEPT ![u] = NoRead]
      /\ bufferMetaData' = [i \in Blocks |->
           IF bufferMetaData[i].fileHandle = fd[u] THEN Unused
                                                   ELSE bufferMetaData[i]]
  BY DEF CloseFile
<1>3. ASSUME NEW i \in Blocks PROVE bufferMetaData'[i].fileHandle < 0
  <2>1. bufferMetaData[i].fileHandle \in Int
    BY DEF IInv, Typed
  <2>2. bufferMetaData[i].fileHandle >= 0 => bufferMetaData[i].fileHandle = fd[u]
    BY <1>1 DEF IInv, Filled, Owned
  <2> QED
    BY <1>2, <2>1, <2>2 DEF Unused
<1>4. Typed'
  <2>1. bufferMetaData' \in [Blocks -> [fileHandle : Int, offset : Int]]
    BY <1>2 DEF IInv, Typed, Unused
  <2>2. opened' \in [Handles -> Files \cup {NoFile}]
    BY <1>2 DEF IInv, Typed
  <2> QED
    BY <1>1, <1>2, <2>1, <2>2 DEF IInv, Typed, CloseFile, Loading
<1>5. Owned'
  BY <1>1, <1>2 DEF IInv, Owned, Typed
<1>6. Filled'
  BY <1>3, <1>4 DEF Filled, Typed
<1>7. pc'[u] = "closed"
  BY <1>1, <1>2 DEF IInv, Typed
<1>8. Loads' /\ ReadsFile'
  BY <1>7 DEF Loads, ReadsFile, Loading
<1> QED
  BY <1>4, <1>5, <1>6, <1>8 DEF IInv

\* A block that holds the offset has it in its slot.
LEMMA HitStep ==
  ASSUME IInv, NEW u, Threads = {u}, NEW o \in 0 .. MaxSize - 1, Hit(u, o)
  PROVE  IInv'
<1> USE FileIOAssumption DEF disk, kernel, buffers, threads
<1>1. u \in Threads /\ pc[u] = "open" /\ fd[u] \in Handles
      /\ o \in Nat /\ o < size[opened[fd[u]]]
  BY DEF IInv, Owned, Hit
<1>2. PICK i \in Blocks :
        /\ Holds(i, fd[u], o)
        /\ result' = [result EXCEPT ![u] = buffer[i][o - bufferMetaData[i].offset]]
        /\ blk' = [blk EXCEPT ![u] = i]
  BY DEF Hit
<1>3. version' = version /\ size' = size /\ opened' = opened
      /\ position' = position /\ buffer' = buffer
      /\ bufferMetaData' = bufferMetaData /\ pc' = pc /\ fd' = fd
      /\ offset' = [offset EXCEPT ![u] = o]
  BY DEF Hit
<1>4. buffer[i][o - bufferMetaData[i].offset] = EntryAt(fd[u], o)
  <2> DEFINE b == bufferMetaData[i].offset
  <2>1. b \in Int /\ b <= o /\ o < b + BlkSize
        /\ bufferMetaData[i].fileHandle = fd[u]
    BY <1>2 DEF IInv, Typed, Holds
  <2>2. fd[u] >= 0
    BY <1>1 DEF Handles
  <2>3. HasFrom(i, fd[u], b)
    BY <2>1, <2>2 DEF IInv, Filled
  <2>4. o - b \in Slots /\ b + (o - b) = o
    BY <1>1, <2>1 DEF Slots
  <2> QED
    BY <1>1, <2>3, <2>4 DEF HasFrom
<1>5. Typed'
  BY <1>1, <1>2, <1>3 DEF IInv, Typed
<1>6. Owned'
  BY <1>1, <1>2, <1>3 DEF IInv, Owned
<1>7. Filled'
  BY <1>3 DEF IInv, Filled, HasFrom, EntryAt
<1>8. Loads'
  BY <1>1, <1>3 DEF Loads, Loading
<1>9. ReadsFile'
  <2>1. result'[u] = EntryAt(fd[u], o) /\ offset'[u] = o
    BY <1>1, <1>2, <1>3, <1>4 DEF IInv, Typed
  <2> QED
    BY <2>1, <1>3 DEF ReadsFile, EntryAt
<1> QED
  BY <1>5, <1>6, <1>7, <1>8, <1>9 DEF IInv

\* Taking a block changes nothing of what blocks in use hold: it is free, or
\* it is evicted and is then in no use.
LEMMA TakeStep ==
  ASSUME IInv, NEW u, Threads = {u}, NEW o \in 0 .. MaxSize - 1,
         Allocate(u, o) \/ Evict(u, o)
  PROVE  IInv'
<1> USE FileIOAssumption DEF disk, kernel, buffers, threads
<1>1. u \in Threads /\ pc[u] = "open" /\ fd[u] \in Handles
      /\ opened[fd[u]] \in Files /\ o \in Nat /\ o < size[opened[fd[u]]]
  BY DEF IInv, Owned, Allocate, Evict
<1>2. version' = version /\ size' = size /\ opened' = opened
      /\ buffer' = buffer /\ fd' = fd /\ result' = result
      /\ pc' = [pc EXCEPT ![u] = "seek"] /\ offset' = [offset EXCEPT ![u] = o]
  BY DEF Allocate, Evict
<1>3. PICK i \in Blocks :
        /\ blk' = [blk EXCEPT ![u] = i]
        /\ \/ bufferMetaData' = bufferMetaData /\ bufferMetaData[i].fileHandle < 0
              /\ position' = position
           \/ /\ bufferMetaData' = [bufferMetaData EXCEPT ![i] = Unused]
              /\ position' = [position EXCEPT ![bufferMetaData[i].fileHandle]
                                 = bufferMetaData[i].offset]
  BY DEF Allocate, Evict, Free
<1>4. /\ bufferMetaData'[i].fileHandle < 0
      /\ \A k \in Blocks : bufferMetaData'[k].fileHandle >= 0
                            => bufferMetaData'[k] = bufferMetaData[k]
  BY <1>3 DEF IInv, Typed, Unused
<1>5. Typed'
  <2>1. bufferMetaData' \in [Blocks -> [fileHandle : Int, offset : Int]]
    BY <1>3 DEF IInv, Typed, Unused
  <2>2. position' \in [Handles -> Int]
    BY <1>3 DEF IInv, Typed
  <2> QED
    BY <1>1, <1>2, <1>3, <2>1, <2>2 DEF IInv, Typed, Loading
<1>6. Owned'
  BY <1>1, <1>2 DEF IInv, Owned, Typed
<1>7. Filled'
  BY <1>2, <1>4 DEF IInv, Filled, HasFrom, EntryAt
<1>8. pc'[u] = "seek" /\ blk'[u] = i /\ offset'[u] = o
  BY <1>1, <1>2, <1>3 DEF IInv, Typed
<1>9. Loads'
  BY <1>1, <1>2, <1>4, <1>8 DEF Loads
<1>10. ReadsFile'
  BY <1>8 DEF ReadsFile
<1> QED
  BY <1>5, <1>6, <1>7, <1>9, <1>10 DEF IInv

\* The handle is set to where the block begins.
LEMMA SeekStep ==
  ASSUME IInv, NEW u, Threads = {u}, Seek(u) PROVE IInv'
<1> USE FileIOAssumption DEF disk, kernel, buffers, threads
<1>1. u \in Threads /\ pc[u] = "seek" /\ fd[u] \in Handles
      /\ offset[u] \in Nat
  BY DEF IInv, Owned, Seek, Typed
<1>2. position' = [position EXCEPT ![fd[u]] = BlkOff(offset[u])]
      /\ pc' = [pc EXCEPT ![u] = "read"]
      /\ version' = version /\ size' = size /\ opened' = opened
      /\ buffer' = buffer /\ bufferMetaData' = bufferMetaData /\ fd' = fd
      /\ offset' = offset /\ blk' = blk /\ result' = result
  BY DEF Seek
<1>3. BlkOff(offset[u]) \in Int
  BY <1>1, InBlock
<1>4. pc'[u] = "read" /\ position'[fd[u]] = BlkOff(offset[u])
  BY <1>1, <1>2 DEF IInv, Typed
<1>5. Typed'
  BY <1>1, <1>2, <1>3 DEF IInv, Typed, Loading
<1>6. Owned'
  BY <1>1, <1>2, <1>4 DEF IInv, Owned
<1>7. Filled'
  BY <1>2 DEF IInv, Filled, HasFrom, EntryAt
<1>8. Loads'
  BY <1>1, <1>2, <1>4 DEF IInv, Loads, Loading, BlkOff
<1>9. ReadsFile'
  BY <1>4 DEF ReadsFile
<1> QED
  BY <1>5, <1>6, <1>7, <1>8, <1>9 DEF IInv

\* What is read fills the block as far as the file goes.
LEMMA LoadStep ==
  ASSUME IInv, NEW u, Threads = {u}, Load(u) PROVE IInv'
<1> USE FileIOAssumption DEF disk, kernel, buffers, threads
<1>1. u \in Threads /\ pc[u] = "read" /\ fd[u] \in Handles
      /\ blk[u] \in Blocks /\ position[fd[u]] = BlkOff(offset[u])
      /\ bufferMetaData[blk[u]].fileHandle < 0
      /\ offset[u] < size[opened[fd[u]]]
  BY DEF IInv, Owned, Load, Typed, Loads, Loading
<1>2. pc' = [pc EXCEPT ![u] = "loaded"] /\ position' = position
      /\ version' = version /\ size' = size /\ opened' = opened
      /\ bufferMetaData' = bufferMetaData /\ fd' = fd
      /\ offset' = offset /\ blk' = blk /\ result' = result
  BY DEF Load
<1>3. DOMAIN buffer' = Blocks
      /\ \A i \in Blocks : i # blk[u] => buffer'[i] = buffer[i]
  BY DEF IInv, Typed, Load
<1>4. HasFrom(blk[u], fd[u], BlkOff(offset[u]))'
  <2>1. buffer'[blk[u]] = [s \in Slots |->
          IF position[fd[u]] + s < size[opened[fd[u]]]
            THEN EntryAt(fd[u], position[fd[u]] + s) ELSE buffer[blk[u]][s]]
    BY <1>1 DEF IInv, Typed, Load
  <2> QED
    BY <1>1, <1>2, <2>1 DEF HasFrom, EntryAt, BlkOff
<1>5. pc'[u] = "loaded"
  BY <1>1, <1>2 DEF IInv, Typed
<1>6. Typed'
  BY <1>2, <1>3 DEF IInv, Typed, Loading
<1>7. Owned'
  BY <1>1, <1>2, <1>5 DEF IInv, Owned
<1>8. Filled'
  <2>1. ASSUME NEW i \in Blocks, bufferMetaData[i].fileHandle >= 0
        PROVE  buffer'[i] = buffer[i]
    BY <1>1, <1>3, <2>1 DEF IInv, Typed
  <2> QED
    BY <1>2, <2>1 DEF IInv, Filled, HasFrom, EntryAt
<1>9. Loads'
  BY <1>1, <1>2, <1>4, <1>5 DEF Loads, BlkOff, HasFrom, EntryAt
<1>10. ReadsFile'
  BY <1>5 DEF ReadsFile
<1> QED
  BY <1>6, <1>7, <1>8, <1>9, <1>10 DEF IInv

\* The block read into is now in use, and has what was asked for.
LEMMA ReturnStep ==
  ASSUME IInv, NEW u, Threads = {u}, Return(u) PROVE IInv'
<1> USE FileIOAssumption DEF disk, kernel, buffers, threads
<1>1. u \in Threads /\ pc[u] = "loaded" /\ fd[u] \in Handles
      /\ opened[fd[u]] \in Files /\ blk[u] \in Blocks /\ offset[u] \in Nat
      /\ offset[u] < size[opened[fd[u]]]
      /\ HasFrom(blk[u], fd[u], BlkOff(offset[u]))
  BY DEF IInv, Owned, Return, Typed, Loads, Loading
<1>2. bufferMetaData' = [bufferMetaData EXCEPT ![blk[u]] = Noted(u)]
      /\ result' = [result EXCEPT ![u] =
                      buffer[blk[u]][offset[u] - BlkOff(offset[u])]]
      /\ pc' = [pc EXCEPT ![u] = "open"] /\ position' = position
      /\ version' = version /\ size' = size /\ opened' = opened
      /\ buffer' = buffer /\ fd' = fd /\ offset' = offset /\ blk' = blk
  BY DEF Return
<1>3. BlkOff(offset[u]) \in Int /\ offset[u] - BlkOff(offset[u]) \in Slots
  BY <1>1, InBlock
<1>4. result'[u] = EntryAt(fd[u], offset[u])
  <2>1. BlkOff(offset[u]) + (offset[u] - BlkOff(offset[u])) = offset[u]
    BY <1>1, <1>3
  <2>2. buffer[blk[u]][offset[u] - BlkOff(offset[u])] = EntryAt(fd[u], offset[u])
    BY <1>1, <1>3, <2>1 DEF HasFrom
  <2> QED
    BY <1>1, <1>2, <2>2 DEF IInv, Typed
<1>5. pc'[u] = "open" /\ Handles \subseteq Int
  BY <1>1, <1>2 DEF IInv, Typed, Handles
<1>6. Typed'
  <2>1. Noted(u) \in [fileHandle : Int, offset : Int]
    BY <1>1, <1>3, <1>5 DEF Noted
  <2>2. bufferMetaData' \in [Blocks -> [fileHandle : Int, offset : Int]]
    BY <1>2, <2>1 DEF IInv, Typed
  <2> QED
    BY <1>1, <1>2, <2>2 DEF IInv, Typed
<1>7. Owned'
  BY <1>1, <1>2, <1>5 DEF IInv, Owned
<1>8. Filled'
  <2>1. ASSUME NEW i \in Blocks, i # blk[u]
        PROVE  bufferMetaData'[i] = bufferMetaData[i]
    BY <1>2, <2>1 DEF IInv, Typed
  <2>2. bufferMetaData'[blk[u]] = Noted(u)
    BY <1>1, <1>2 DEF IInv, Typed
  <2>3. HasFrom(blk[u], fd[u], BlkOff(offset[u]))'
    BY <1>1, <1>2 DEF HasFrom, EntryAt, BlkOff
  <2> QED
    BY <1>1, <1>2, <2>1, <2>2, <2>3 DEF IInv, Filled, Noted, HasFrom, EntryAt, BlkOff
<1>9. Loads'
  BY <1>5 DEF Loads, Loading
<1>10. ReadsFile'
  BY <1>2, <1>4 DEF ReadsFile, EntryAt
<1> QED
  BY <1>6, <1>7, <1>8, <1>9, <1>10 DEF IInv

\* Every step of the one thread, and of adjust, keeps the invariant.
LEMMA NextIInv ==
  ASSUME NEW u, Threads = {u} PROVE IInv /\ [Next]_vars => IInv'
<1> SUFFICES ASSUME IInv, [Next]_vars PROVE IInv'
  OBVIOUS
<1>1. CASE UNCHANGED vars
  BY <1>1 DEF vars, disk, kernel, buffers, threads, IInv, Typed, Owned, Filled,
              Loads, ReadsFile, HasFrom, EntryAt, BlkOff
<1>2. CASE Next
  <2>1. CASE \E f \in Files : Rewrite(f)
    BY <2>1, RewriteStep
  <2>2. CASE \E f \in Files : OpenFile(u, f)
    BY <2>2, OpenStep
  <2>3. CASE \E o \in 0 .. MaxSize - 1 : Hit(u, o)
    BY <2>3, HitStep
  <2>4. CASE \E o \in 0 .. MaxSize - 1 : Allocate(u, o) \/ Evict(u, o)
    BY <2>4, TakeStep
  <2>5. CASE Seek(u)
    BY <2>5, SeekStep
  <2>6. CASE Load(u)
    BY <2>6, LoadStep
  <2>7. CASE Return(u)
    BY <2>7, ReturnStep
  <2>8. CASE CloseFile(u)
    BY <2>8, CloseStep
  <2> QED
    BY <1>2, <2>1, <2>2, <2>3, <2>4, <2>5, <2>6, <2>7, <2>8 DEF Next
<1> QED
  BY <1>1, <1>2
-----------------------------------------------------------------------------
\* One thread alone reads from its file whatever the sizes are: no block is
\* left over from an earlier use of its handle, and none is evicted, refilled
\* or cut short by the end of a file so that it shows.
THEOREM ReadsItsFile ==
  ASSUME NEW u, Threads = {u} PROVE Spec => []ReadsFile
<1>1. Init => IInv
  BY InitIInv
<1>2. IInv /\ [Next]_vars => IInv'
  BY NextIInv
<1>3. IInv => ReadsFile
  BY DEF IInv
<1> QED
  BY <1>1, <1>2, <1>3, PTL DEF Spec
-----------------------------------------------------------------------------
(* Lists of blocks *)

\* Lists of blocks that have no block twice.
Lists == {s \in Seq(Blocks) : \A m, n \in DOMAIN s : m # n => s[m] # s[n]}

\* Erasing a block from a list.
LEMMA ErasedOne ==
  ASSUME NEW s \in Lists, NEW i
  PROVE  RemoveFirst(s, i) \in Lists /\ ToSet(RemoveFirst(s, i)) = ToSet(s) \ {i}
<1>0. s \in Seq(Blocks) /\ Len(s) \in Nat /\ DOMAIN s = 1 .. Len(s)
      /\ \A m, n \in 1 .. Len(s) : m # n => s[m] # s[n]
  BY DEF Lists
<1>1. CASE ~\E k \in 1 .. Len(s) : s[k] = i
  BY <1>0, <1>1 DEF RemoveFirst, ToSet
<1>2. CASE \E k \in 1 .. Len(s) : s[k] = i
  <2>1. PICK k \in 1 .. Len(s) : s[k] = i
    BY <1>2
  <2>2. {n \in 1 .. Len(s) : s[n] = i} = {k}
    BY <1>0, <2>1
  <2>3. Min({k}) = k
    BY <2>1 DEF Min
  <2>4. SelectInSeq(s, LAMBDA v : v = i) = k
    BY <2>2, <2>3 DEF SelectInSeq
  <2> DEFINE a == SubSeq(s, 1, k - 1)
             b == SubSeq(s, k + 1, Len(s))
             r == a \o b
  <2>5. RemoveFirst(s, i) = r
    BY <1>2, <2>4 DEF RemoveFirst, RemoveAt
  <2>6. /\ a \in Seq(Blocks) /\ Len(a) = k - 1
        /\ \A n \in 1 .. k - 1 : a[n] = s[n]
    BY <1>0, <2>1, SubSeqProperties
  <2>7. /\ b \in Seq(Blocks) /\ Len(b) = Len(s) - k
        /\ \A n \in 1 .. Len(s) - k : b[n] = s[k + n]
    <3>1. k + 1 \in Int /\ Len(s) \in Int /\ \A n \in k + 1 .. Len(s) : s[n] \in Blocks
      BY <1>0, <2>1
    <3>2. /\ b \in Seq(Blocks)
          /\ Len(b) = IF k + 1 <= Len(s) THEN Len(s) - (k + 1) + 1 ELSE 0
          /\ \A n \in 1 .. Len(s) - (k + 1) + 1 : b[n] = s[k + 1 + n - 1]
      BY <3>1, SubSeqProperties
    <3>0. k \in Nat /\ Len(s) \in Nat /\ k <= Len(s)
      BY <1>0, <2>1
    <3>3. Len(s) - (k + 1) + 1 = Len(s) - k /\ (~(k + 1 <= Len(s)) => Len(s) - k = 0)
      BY <3>0
    <3>4. \A n \in 1 .. Len(s) - k : k + 1 + n - 1 = k + n
      BY <1>0, <2>1
    <3> HIDE DEF b
    <3> QED BY <3>2, <3>3, <3>4
  <2>8. /\ r \in Seq(Blocks) /\ Len(r) = Len(s) - 1 /\ DOMAIN r = 1 .. Len(s) - 1
        /\ \A n \in 1 .. Len(s) - 1 : r[n] = IF n < k THEN s[n] ELSE s[n + 1]
    <3> HIDE DEF a, b
    <3>1. /\ r \in Seq(Blocks) /\ Len(r) = Len(s) - 1
          /\ \A n \in 1 .. Len(s) - 1 :
               r[n] = IF n <= k - 1 THEN a[n] ELSE b[n - (k - 1)]
      <4>1. /\ r \in Seq(Blocks) /\ Len(r) = Len(a) + Len(b)
            /\ \A n \in 1 .. Len(a) + Len(b) :
                 r[n] = IF n <= Len(a) THEN a[n] ELSE b[n - Len(a)]
        BY <2>6, <2>7, ConcatProperties
      <4>2. Len(a) + Len(b) = Len(s) - 1
        BY <1>0, <2>1, <2>6, <2>7
      <4> HIDE DEF r
      <4> QED BY <2>6, <4>1, <4>2
    <3>2. DOMAIN r = 1 .. Len(s) - 1
      BY <3>1
    <3>3. ASSUME NEW n \in 1 .. Len(s) - 1
          PROVE  r[n] = IF n < k THEN s[n] ELSE s[n + 1]
      <4>1. CASE n < k
        BY <2>1, <2>6, <3>1, <4>1
      <4>2. CASE ~(n < k)
        <5>1. n - (k - 1) \in 1 .. Len(s) - k /\ k + (n - (k - 1)) = n + 1
          BY <1>0, <2>1, <4>2
        <5> QED BY <2>1, <2>7, <3>1, <4>2, <5>1
      <4> QED BY <4>1, <4>2
    <3> QED BY <3>1, <3>2, <3>3
  <2> HIDE DEF r
  <2>9. \A m, n \in 1 .. Len(s) - 1 : m # n => r[m] # r[n]
    BY <1>0, <2>1, <2>8
  <2>10. ToSet(r) = ToSet(s) \ {i}
    <3>1. ASSUME NEW n \in 1 .. Len(s) - 1
          PROVE  r[n] \in ToSet(s) \ {i}
      BY <1>0, <2>1, <2>8 DEF ToSet
    <3>2. ASSUME NEW n \in 1 .. Len(s), s[n] # i
          PROVE  s[n] \in ToSet(r)
      <4>1. CASE n < k
        <5>1. n \in 1 .. Len(s) - 1 /\ r[n] = s[n]
          BY <1>0, <2>1, <2>8, <4>1
        <5> QED BY <2>8, <5>1 DEF ToSet
      <4>2. CASE n > k
        <5>1. n - 1 \in 1 .. Len(s) - 1 /\ r[n - 1] = s[n]
          BY <1>0, <2>1, <2>8, <4>2
        <5> QED BY <2>8, <5>1 DEF ToSet
      <4> QED BY <2>1, <3>2, <4>1, <4>2
    <3> QED BY <1>0, <2>8, <3>1, <3>2 DEF ToSet
  <2> QED BY <2>5, <2>8, <2>9, <2>10 DEF Lists
<1> QED BY <1>1, <1>2

\* Putting a block in front of a list that does not have it.
LEMMA Pushed ==
  ASSUME NEW s \in Lists, NEW i \in Blocks, i \notin ToSet(s)
  PROVE  /\ <<i>> \o s \in Lists /\ ToSet(<<i>> \o s) = ToSet(s) \cup {i}
         /\ <<i>> \o s # <<>> /\ (<<i>> \o s)[1] = i
<1> DEFINE r == <<i>> \o s
<1>0. s \in Seq(Blocks) /\ Len(s) \in Nat /\ DOMAIN s = 1 .. Len(s)
      /\ \A m, n \in 1 .. Len(s) : m # n => s[m] # s[n]
  BY DEF Lists
<1>1. /\ r \in Seq(Blocks) /\ Len(r) = Len(s) + 1 /\ DOMAIN r = 1 .. Len(s) + 1
      /\ \A n \in 1 .. Len(s) + 1 : r[n] = IF n = 1 THEN i ELSE s[n - 1]
  BY <1>0, ConcatProperties
<1> HIDE DEF r
<1>2. \A n \in 1 .. Len(s) : s[n] # i
  BY <1>0 DEF ToSet
<1>3. \A m, n \in 1 .. Len(s) + 1 : m # n => r[m] # r[n]
  BY <1>0, <1>1, <1>2
<1>4. ToSet(r) = ToSet(s) \cup {i}
  <2>1. \A n \in 1 .. Len(s) + 1 : r[n] \in ToSet(s) \cup {i}
    BY <1>0, <1>1 DEF ToSet
  <2>2. \A n \in 1 .. Len(s) : n + 1 \in 1 .. Len(s) + 1 /\ r[n + 1] = s[n]
    BY <1>0, <1>1
  <2>3. 1 \in 1 .. Len(s) + 1 /\ r[1] = i
    BY <1>0, <1>1
  <2>4. ToSet(s) = {s[n] : n \in 1 .. Len(s)} /\ ToSet(r) = {r[n] : n \in 1 .. Len(s) + 1}
    BY <1>0, <1>1 DEF ToSet
  <2> QED BY <2>1, <2>2, <2>3, <2>4
<1>5. r # <<>> /\ r[1] = i
  BY <1>0, <1>1
<1> QED BY <1>1, <1>3, <1>4, <1>5 DEF Lists, r

\* Taking the last block off a list.
LEMMA Popped ==
  ASSUME NEW s \in Lists, s # <<>>
  PROVE  /\ Front(s) \in Lists /\ ToSet(Front(s)) = ToSet(s) \ {Last(s)}
         /\ Last(s) \in ToSet(s)
<1>0. s \in Seq(Blocks) /\ Len(s) \in Nat /\ Len(s) > 0 /\ DOMAIN s = 1 .. Len(s)
      /\ \A m, n \in 1 .. Len(s) : m # n => s[m] # s[n]
  BY EmptySeq DEF Lists
<1>1. /\ Front(s) \in Seq(Blocks) /\ DOMAIN Front(s) = 1 .. Len(s) - 1
      /\ \A n \in 1 .. Len(s) - 1 : Front(s)[n] = s[n]
  BY <1>0, SubSeqProperties DEF Front
<1>2. Last(s) = s[Len(s)] /\ Len(s) \in 1 .. Len(s)
  BY <1>0 DEF Last
<1>3. 1 .. Len(s) = (1 .. Len(s) - 1) \cup {Len(s)} /\ Len(s) \notin 1 .. Len(s) - 1
  BY <1>0
<1> QED BY <1>0, <1>1, <1>2, <1>3 DEF Lists, ToSet

\* Every set of numbers that is not empty has a least element.
LEMMA LeastNat ==
  ASSUME NEW S \in SUBSET Nat, S # {}
  PROVE  \E n \in S : \A m \in S : n <= m
<1> DEFINE R == {ss \in Nat \X Nat : ss[1] < ss[2]}
<1>1. IsWellFoundedOn(R, Nat)
  BY NatLessThanWellFounded DEF OpToRel
<1>2. PICK n \in S : \A m \in S : ~(<<m, n>> \in R)
  <2> HIDE DEF R
  <2> QED BY <1>1, WFMin, Zenon
<1>3. \A m \in S : <<m, n>> \in R <=> m < n
  OBVIOUS
<1>4. \A m \in S : n <= m
  <2> HIDE DEF R
  <2> TAKE m \in S
  <2>1. ~(m < n)
    BY <1>2, <1>3
  <2> QED BY <2>1
<1> QED BY <1>4

\* closeFile erases from the list the blocks of the handle.
LEMMA ErasedAll ==
  ASSUME NEW h, lruIndexQ \in Lists
  PROVE  /\ Erased(h) \in Lists
         /\ ToSet(Erased(h))
              = ToSet(lruIndexQ) \ {i \in Blocks : bufferMetaData[i].fileHandle = h}
<1> DEFINE cut(s, i) == IF bufferMetaData[i].fileHandle = h THEN RemoveFirst(s, i)
                                                            ELSE s
           step(g) == [n \in 0 .. MaxBlk |->
                         IF n = 0 THEN lruIndexQ ELSE cut(g[n - 1], n - 1)]
           left(n) == ToSet(lruIndexQ) \ {i \in 0 .. n - 1 :
                                            bufferMetaData[i].fileHandle = h}
           good(n) == {s \in Lists : ToSet(s) = left(n)}
           upTo == CHOOSE g : g = step(g)
<1>0. MaxBlk \in Nat /\ Blocks = 0 .. MaxBlk - 1
  BY FileIOAssumption DEF Blocks
<1>1. lruIndexQ \in good(0)
  BY DEF Lists
<1>2. ASSUME NEW n \in 0 .. MaxBlk, n # 0, NEW s \in good(n - 1)
      PROVE  cut(s, n - 1) \in good(n)
  <2>1. left(n) = IF bufferMetaData[n - 1].fileHandle = h THEN left(n - 1) \ {n - 1}
                                                          ELSE left(n - 1)
    <3>1. 0 .. n - 1 = (0 .. n - 1 - 1) \cup {n - 1}
      BY <1>0, <1>2
    <3> QED BY <3>1
  <2>2. /\ RemoveFirst(s, n - 1) \in Lists
        /\ ToSet(RemoveFirst(s, n - 1)) = ToSet(s) \ {n - 1}
    BY ErasedOne
  <2> HIDE DEF left
  <2> QED BY <2>1, <2>2
<1> HIDE DEF good, cut
\* The loop can be carried out.
<1>3. \A n \in 0 .. MaxBlk : \E g \in [0 .. n -> UNION {good(k) : k \in 0 .. n}] :
        /\ g[0] = lruIndexQ
        /\ \A k \in 0 .. n : k # 0 => g[k] = cut(g[k - 1], k - 1)
  <2> DEFINE W(n) == {g \in [0 .. n -> UNION {good(k) : k \in 0 .. n}] :
                        /\ g[0] = lruIndexQ /\ g[n] \in good(n)
                        /\ \A k \in 0 .. n : k # 0 => g[k] = cut(g[k - 1], k - 1)}
             Bad == {n \in 0 .. MaxBlk : W(n) = {}}
  <2>1. [k \in 0 .. 0 |-> lruIndexQ] \in W(0)
    BY <1>1
  <2>2. ASSUME NEW n \in 0 .. MaxBlk, n # 0, W(n - 1) # {}
        PROVE  W(n) # {}
    <3>1. PICK g \in W(n - 1) : TRUE
      BY <2>2
    <3> DEFINE f == [k \in 0 .. n |-> IF k = n THEN cut(g[n - 1], n - 1) ELSE g[k]]
    <3>2. f[n] \in good(n)
      BY <1>2, <2>2
    <3>3. \A k \in 0 .. n - 1 : f[k] = g[k]
      BY <1>0
    <3>4. f \in [0 .. n -> UNION {good(k) : k \in 0 .. n}]
      <4>1. ASSUME NEW k \in 0 .. n - 1
            PROVE  f[k] \in UNION {good(m) : m \in 0 .. n}
        <5>1. g[k] \in UNION {good(m) : m \in 0 .. n - 1}
          OBVIOUS
        <5>2. 0 .. n - 1 \subseteq 0 .. n
          BY <1>0
        <5> QED BY <3>3, <5>1, <5>2
      <4>2. \A k \in 0 .. n : k = n \/ k \in 0 .. n - 1
        BY <1>0
      <4> QED BY <3>2, <4>1, <4>2
    <3>5. ASSUME NEW k \in 0 .. n, k # 0
          PROVE  f[k] = cut(f[k - 1], k - 1)
      <4>1. k - 1 \in 0 .. n - 1 /\ (k = n \/ k \in 0 .. n - 1)
        BY <1>0, <3>5
      <4> QED BY <3>3, <3>5, <4>1
    <3>6. f[0] = lruIndexQ
      BY <1>0, <2>2, <3>3
    <3> HIDE DEF f
    <3> QED BY <3>2, <3>4, <3>5, <3>6
  <2> HIDE DEF W
  <2>3. Bad = {}
    <3> SUFFICES ASSUME Bad # {} PROVE FALSE
      OBVIOUS
    <3>1. PICK n \in Bad : \A m \in Bad : n <= m
      <4>1. Bad \in SUBSET Nat
        BY <1>0
      <4> HIDE DEF Bad
      <4> QED BY <4>1, LeastNat
    <3>2. n # 0
      BY <2>1, <3>1
    <3>3. n - 1 \in 0 .. MaxBlk /\ ~(n <= n - 1)
      BY <1>0, <3>1, <3>2
    <3> QED BY <2>2, <3>1, <3>2, <3>3
  <2> QED BY <2>3 DEF W
<1>4. upTo = step(upTo)
  <2>1. PICK g \in [0 .. MaxBlk -> UNION {good(k) : k \in 0 .. MaxBlk}] :
          /\ g[0] = lruIndexQ
          /\ \A k \in 0 .. MaxBlk : k # 0 => g[k] = cut(g[k - 1], k - 1)
    <3>1. MaxBlk \in 0 .. MaxBlk
      BY <1>0
    <3> QED BY <1>3, <3>1
  <2>2. g = step(g)
    BY <2>1
  <2> HIDE DEF step
  <2> QED BY <2>2
<1> HIDE DEF upTo
<1>5. \A n \in 0 .. MaxBlk :
        upTo[n] = IF n = 0 THEN lruIndexQ ELSE cut(upTo[n - 1], n - 1)
  BY <1>4
<1>6. upTo[MaxBlk] \in good(MaxBlk)
  <2> DEFINE Bad == {n \in 0 .. MaxBlk : upTo[n] \notin good(n)}
  <2> SUFFICES ASSUME Bad # {} PROVE FALSE
    BY <1>0
  <2>1. PICK n \in Bad : \A m \in Bad : n <= m
    <3>1. Bad \in SUBSET Nat
      BY <1>0
    <3> HIDE DEF Bad
    <3> QED BY <3>1, LeastNat
  <2>2. n # 0
    BY <1>1, <1>5, <2>1
  <2>3. n - 1 \in 0 .. MaxBlk /\ ~(n <= n - 1)
    BY <1>0, <2>1, <2>2
  <2>4. upTo[n - 1] \in good(n - 1)
    BY <2>1, <2>3
  <2> QED BY <1>2, <1>5, <2>1, <2>2, <2>4
<1>7. Erased(h) = upTo[MaxBlk]
  BY DEF Erased, upTo, cut
<1> QED BY <1>0, <1>6, <1>7 DEF good
-----------------------------------------------------------------------------
(* The list of the buffer, with one thread *)

\* The list has the blocks in use, and what a thread read last, or is about to
\* read, in front.
ListInv ==
  /\ IInv /\ lruIndexQ \in Lists /\ ListMatches
  /\ \A t \in Threads : pc[t] \in Loading \/ result[t] # NoRead
       => lruIndexQ # <<>> /\ lruIndexQ[1] = blk[t]

\* With one thread, what the list should have.
LEMMA OneList ==
  ASSUME NEW u, Threads = {u}, Typed
  PROVE  lruIndexQ \in Lists =>
           (ListMatches <=>
              ToSet(lruIndexQ) = InUse \cup (IF pc[u] \in Loading THEN {blk[u]} ELSE {}))
<1> SUFFICES ASSUME lruIndexQ \in Lists
             PROVE  {blk[t] : t \in {v \in Threads : pc[v] \in Loading}}
                      = IF pc[u] \in Loading THEN {blk[u]} ELSE {}
  BY DEF Lists, ListMatches
<1> QED OBVIOUS

\* A hit moves a block of the list to the front.
LEMMA HitList ==
  ASSUME ListInv, NEW u, Threads = {u}, NEW o \in 0 .. MaxSize - 1, Hit(u, o)
  PROVE  ListInv'
<1> USE DEF ListInv
<1>1. IInv'
  BY HitStep
<1>2. /\ pc[u] = "open" /\ pc' = pc /\ InUse' = InUse
      /\ u \in Threads /\ blk \in [Threads -> Blocks] /\ fd[u] >= 0
  BY DEF Hit, InUse, IInv, Typed, Owned, Handles
<1>3. PICK i \in Blocks : /\ Holds(i, fd[u], o) /\ lruIndexQ' = ToFront(i)
                          /\ blk' = [blk EXCEPT ![u] = i]
  BY DEF Hit, Touched
<1>4. ToSet(lruIndexQ) = InUse
  BY <1>2, OneList DEF IInv, Loading
<1>5. i \in InUse
  BY <1>2, <1>3 DEF InUse, Holds
<1>6. /\ lruIndexQ' \in Lists /\ ToSet(lruIndexQ') = InUse
      /\ lruIndexQ' # <<>> /\ lruIndexQ'[1] = i
  <2>1. /\ RemoveFirst(lruIndexQ, i) \in Lists
        /\ ToSet(RemoveFirst(lruIndexQ, i)) = InUse \ {i}
    BY <1>4, ErasedOne
  <2> DEFINE r == RemoveFirst(lruIndexQ, i)
  <2>2. lruIndexQ' = <<i>> \o r /\ r \in Lists /\ i \notin ToSet(r)
        /\ ToSet(r) \cup {i} = InUse
    BY <1>3, <1>5, <2>1 DEF ToFront
  <2> HIDE DEF r
  <2> QED BY <2>2, Pushed
<1>7. ListMatches'
  <2>1. pc'[u] \notin Loading
    BY <1>2 DEF Loading
  <2> QED BY <1>1, <1>2, <1>6, <2>1, OneList DEF IInv, Lists, ListMatches
<1> QED BY <1>1, <1>2, <1>3, <1>6, <1>7

\* A block is taken that is not in the list, or that is taken off it.
LEMMA TakeList ==
  ASSUME ListInv, NEW u, Threads = {u}, NEW o \in 0 .. MaxSize - 1,
         Allocate(u, o) \/ Evict(u, o)
  PROVE  ListInv'
<1> USE DEF ListInv
<1>1. IInv'
  BY TakeStep
<1>2. /\ pc[u] = "open" /\ pc' = [pc EXCEPT ![u] = "seek"] /\ pc'[u] = "seek"
      /\ u \in Threads /\ blk \in [Threads -> Blocks]
      /\ bufferMetaData \in [Blocks -> [fileHandle : Int, offset : Int]]
  BY DEF Allocate, Evict, IInv, Typed
<1>3. ToSet(lruIndexQ) = InUse
  BY <1>2, OneList DEF IInv, Loading
<1>4. PICK i \in Blocks :
        /\ blk' = [blk EXCEPT ![u] = i]
        /\ lruIndexQ' \in Lists /\ lruIndexQ' # <<>> /\ lruIndexQ'[1] = i
        /\ ToSet(lruIndexQ') = InUse' \cup {i}
  <2>1. CASE Allocate(u, o)
    <3>1. PICK i \in Free : /\ lruIndexQ' = <<i>> \o lruIndexQ
                            /\ blk' = [blk EXCEPT ![u] = i]
      BY <2>1 DEF Allocate
    <3>2. i \in Blocks /\ i \notin InUse /\ InUse' = InUse
      BY <1>2, <2>1, <3>1 DEF Free, InUse, Allocate
    <3> QED BY <1>3, <3>1, <3>2, Pushed
  <2>2. CASE Evict(u, o)
    <3>1. PICK i \in Blocks :
            /\ i = Last(lruIndexQ) /\ lruIndexQ # <<>>
            /\ bufferMetaData' = [bufferMetaData EXCEPT ![i] = Unused]
            /\ lruIndexQ' = <<i>> \o Front(lruIndexQ)
            /\ blk' = [blk EXCEPT ![u] = i]
      BY <2>2 DEF Evict, Evicted
    <3>2. InUse' = InUse \ {i}
      BY <1>2, <3>1 DEF InUse, Unused
    <3>3. Front(lruIndexQ) \in Lists /\ ToSet(Front(lruIndexQ)) = InUse \ {i}
      BY <1>3, <3>1, Popped
    <3> QED BY <3>1, <3>2, <3>3, Pushed
  <2> QED BY <2>1, <2>2
<1>5. ListMatches'
  <2>1. pc'[u] \in Loading /\ blk'[u] = i
    BY <1>2, <1>4 DEF Loading
  <2> QED BY <1>1, <1>4, <2>1, OneList DEF IInv, Lists, ListMatches
<1> QED BY <1>1, <1>2, <1>4, <1>5

\* A block is in use once it was read.
LEMMA ReturnList ==
  ASSUME ListInv, NEW u, Threads = {u}, Return(u)
  PROVE  ListInv'
<1> USE DEF ListInv
<1>1. IInv'
  BY ReturnStep
<1>2. /\ pc[u] = "loaded" /\ pc'[u] = "open" /\ u \in Threads
      /\ lruIndexQ' = lruIndexQ /\ blk' = blk /\ blk[u] \in Blocks /\ fd[u] >= 0
      /\ bufferMetaData' = [bufferMetaData EXCEPT ![blk[u]] = Noted(u)]
      /\ bufferMetaData \in [Blocks -> [fileHandle : Int, offset : Int]]
  BY DEF Return, IInv, Typed, Owned, Handles
<1>3. InUse' = InUse \cup {blk[u]}
  BY <1>2 DEF InUse, Noted
<1>4. ToSet(lruIndexQ) = InUse \cup {blk[u]}
  BY <1>2, OneList DEF IInv, Loading
<1>5. ListMatches'
  <2>1. pc'[u] \notin Loading
    BY <1>2 DEF Loading
  <2> QED BY <1>1, <1>2, <1>3, <1>4, <2>1, OneList DEF IInv, Lists, ListMatches
<1> QED BY <1>1, <1>2, <1>5 DEF Loading

\* Closing a file takes its blocks off the list.
LEMMA CloseList ==
  ASSUME ListInv, NEW u, Threads = {u}, CloseFile(u)
  PROVE  ListInv'
<1> USE DEF ListInv
<1>1. IInv'
  BY CloseStep
<1>2. /\ pc[u] = "open" /\ pc'[u] = "closed" /\ u \in Threads
      /\ result'[u] = NoRead /\ lruIndexQ' = Erased(fd[u]) /\ fd[u] >= 0
      /\ bufferMetaData' = [i \in Blocks |->
           IF bufferMetaData[i].fileHandle = fd[u] THEN Unused ELSE bufferMetaData[i]]
  BY DEF CloseFile, IInv, Typed, Owned, Handles
<1>3. InUse' = InUse \ {i \in Blocks : bufferMetaData[i].fileHandle = fd[u]}
  BY <1>2 DEF InUse, Unused
<1>4. ToSet(lruIndexQ) = InUse
  BY <1>2, OneList DEF IInv, Loading
<1>5. lruIndexQ' \in Lists /\ ToSet(lruIndexQ') = InUse'
  BY <1>2, <1>3, <1>4, ErasedAll
<1>6. ListMatches'
  <2>1. pc'[u] \notin Loading
    BY <1>2 DEF Loading
  <2> QED BY <1>1, <1>5, <2>1, OneList DEF IInv, Lists, ListMatches
<1> QED BY <1>1, <1>2, <1>5, <1>6 DEF Loading

\* The other steps do not touch the list.
LEMMA OtherList ==
  ASSUME ListInv, NEW u, Threads = {u},
         \/ \E f \in Files : Rewrite(f) \/ OpenFile(u, f)
         \/ Seek(u) \/ Load(u) \/ UNCHANGED vars
  PROVE  ListInv'
<1> USE DEF ListInv
<1>1. IInv'
  BY NextIInv DEF Next
<1>2. /\ UNCHANGED <<lruIndexQ, bufferMetaData, blk, result>> /\ u \in Threads
      /\ pc'[u] \in Loading <=> pc[u] \in Loading
  BY DEF Rewrite, OpenFile, Seek, Load, vars, disk, kernel, buffers, threads,
         IInv, Typed, Loading
<1>3. InUse' = InUse
  BY <1>2 DEF InUse
<1>4. ListMatches'
  BY <1>1, <1>2, <1>3, OneList DEF IInv, Lists, ListMatches
<1> QED BY <1>1, <1>2, <1>4

\* Every step keeps the list.
LEMMA NextList ==
  ASSUME NEW u, Threads = {u}
  PROVE  ListInv /\ [Next]_vars => ListInv'
<1> SUFFICES ASSUME ListInv, [Next]_vars PROVE ListInv'
  OBVIOUS
<1>1. CASE \E f \in Files : Rewrite(f) \/ OpenFile(u, f)
  BY <1>1, OtherList
<1>2. CASE Seek(u) \/ Load(u) \/ UNCHANGED vars
  BY <1>2, OtherList
<1>3. CASE \E o \in 0 .. MaxSize - 1 : Hit(u, o) \/ Allocate(u, o) \/ Evict(u, o)
  BY <1>3, HitList, TakeList
<1>4. CASE Return(u) \/ CloseFile(u)
  BY <1>4, ReturnList, CloseList
<1> QED BY <1>1, <1>2, <1>3, <1>4 DEF Next

\* At first the list is empty.
LEMMA InitList == Init => ListInv
<1> SUFFICES ASSUME Init PROVE ListInv
  OBVIOUS
<1>1. lruIndexQ = <<>> /\ InUse = {} /\ \A t \in Threads : pc[t] = "closed"
  BY DEF Init, InUse, Unused
<1>2. lruIndexQ \in Lists /\ ToSet(lruIndexQ) = {}
  BY <1>1 DEF Lists, ToSet
<1>3. ListMatches
  BY <1>1, <1>2 DEF ListMatches, Lists, Loading
<1> QED BY <1>1, <1>2, <1>3, InitIInv DEF ListInv, Init, Loading

\* The list of one thread's buffer has every block in use, and the one being
\* read into, once, through every hit, miss, eviction and closing of a file.
THEOREM ListKept ==
  ASSUME NEW u, Threads = {u} PROVE Spec => []ListMatches
<1>1. ListInv /\ [Next]_vars => ListInv'
  BY NextList
<1>2. ListInv => ListMatches
  BY DEF ListInv
<1> QED BY InitList, <1>1, <1>2, PTL DEF Spec

\* With two blocks or more, one thread never evicts the block it read last.
THEOREM OldestEvicted ==
  ASSUME NEW u, Threads = {u}, MaxBlk > 1
  PROVE  Spec => EvictsOldest
<1>1. ASSUME ListInv, [Next]_vars
      PROVE  [\A t \in Threads :
                pc[t] = "open" /\ pc'[t] = "seek" /\ Free = {} /\ result[t] # NoRead
                  => blk'[t] # blk[t]]_vars
  <2> SUFFICES ASSUME pc[u] = "open", pc'[u] = "seek", Free = {}, result[u] # NoRead
               PROVE  blk'[u] # blk[u]
    OBVIOUS
  <2>1. PICK o \in 0 .. MaxSize - 1 : Allocate(u, o) \/ Evict(u, o)
    BY <1>1 DEF Next, ListInv, IInv, Typed, Rewrite, OpenFile, Hit, Seek, Load, Return,
         CloseFile, vars, threads, disk, kernel, buffers
  <2>2. Evict(u, o)
    BY <2>1 DEF Allocate
  <2>3. blk'[u] = Last(lruIndexQ) /\ lruIndexQ # <<>>
    BY <1>1, <2>2 DEF Evict, Evicted, ListInv, IInv, Typed
  <2>4. lruIndexQ \in Lists /\ lruIndexQ[1] = blk[u]
    BY <1>1 DEF ListInv
  <2>5. ToSet(lruIndexQ) = Blocks
    <3>1. ToSet(lruIndexQ) = InUse
      BY <1>1, OneList DEF ListInv, IInv, Loading
    <3>2. InUse = Blocks
      BY <1>1 DEF ListInv, IInv, Typed, InUse, Free
    <3> QED BY <3>1, <3>2
  <2>6. Len(lruIndexQ) \in Nat /\ Len(lruIndexQ) > 1 /\ DOMAIN lruIndexQ = 1 .. Len(lruIndexQ)
    <3>1. 0 \in ToSet(lruIndexQ) /\ 1 \in ToSet(lruIndexQ)
      BY <2>5, FileIOAssumption DEF Blocks
    <3>2. PICK m, n \in DOMAIN lruIndexQ : lruIndexQ[m] = 0 /\ lruIndexQ[n] = 1
      BY <3>1 DEF ToSet
    <3>3. Len(lruIndexQ) \in Nat /\ DOMAIN lruIndexQ = 1 .. Len(lruIndexQ)
      BY <2>4 DEF Lists
    <3>4. m # n
      BY <3>2
    <3> QED BY <3>2, <3>3, <3>4
  <2> QED BY <2>3, <2>4, <2>6 DEF Lists, Last
<1>2. ListInv /\ [Next]_vars => ListInv'
  BY NextList
<1> QED BY InitList, <1>1, <1>2, PTL DEF Spec, EvictsOldest
=============================================================================
