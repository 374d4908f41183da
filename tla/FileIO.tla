------------------------------- MODULE FileIO -------------------------------
(***************************************************************************)
(* The block buffer through which dbread searches the files of the store   *)
(* (src/scratch/src/BufferManager/FileIO.cpp): a static array of blocks,   *)
(* their metadata and a list of them, the least recently used one last.    *)
(* Nothing guards them, and every serve thread calls fread, so a miss is   *)
(* cut at its system calls.                                                *)
(*                                                                         *)
(* Offsets count entries, which never lie across two blocks; an entry of   *)
(* a file is named by the file, its version and its offset.  adjust        *)
(* rewrites a file in place, and only (unless it laps a reader, which is   *)
(* a matter of module Master) while no reader has it open.                 *)
(***************************************************************************)
EXTENDS Integers, FiniteSets, Sequences, SequencesExt

CONSTANTS
  Threads,     \* the serve threads
  Files,       \* the files of the ring
  MaxBlk,      \* MAX_BLK
  BlkSize,     \* BLK_SIZE, in entries
  MaxSize,     \* bound: entries of a file
  MaxVersion,  \* bound: times a file is rewritten
  Zero,        \* what a block holds before anything is read into it
  NoRead,      \* in place of a result: nothing was read yet
  NoFile       \* in place of a file: the handle is not open

ASSUME FileIOAssumption ==
  /\ IsFiniteSet(Threads)
  /\ MaxBlk \in Nat \ {0} /\ BlkSize \in Nat \ {0}
  /\ MaxSize \in Nat /\ MaxVersion \in Nat
  /\ NoFile \notin Files /\ Zero # NoRead

VARIABLES
  version,         \* [Files -> times it was rewritten]
  size,            \* [Files -> its entries]
  opened,          \* the kernel's table: [handle -> the file open on it]
  position,        \* [handle -> where its next read begins]
  buffer,          \* [block -> [0 .. BlkSize - 1 -> entry]]
  bufferMetaData,  \* [block -> [fileHandle, offset]]
  lruIndexQ,       \* the blocks in use, the most recently used first
  pc,              \* [Threads -> where it is in findEntry and fread]
  fd,              \* [Threads -> its fileHandle]
  offset,          \* [Threads -> the offset of its fread]
  blk,             \* [Threads -> the block of its last fread]
  result           \* [Threads -> what its last fread put into *ptr]

disk    == <<version, size>>
kernel  == <<opened, position>>
buffers == <<buffer, bufferMetaData, lruIndexQ>>
threads == <<pc, fd, offset, blk, result>>
vars == <<disk, kernel, buffers, threads>>

Handles == 0 .. Cardinality(Threads) - 1
Blocks  == 0 .. MaxBlk - 1
Slots   == 0 .. BlkSize - 1
Unused  == [fileHandle |-> -1, offset |-> 0]

\* What the file open on handle h has at offset o.
EntryAt(h, o) == <<opened[h], version[opened[h]], o>>

\* The offset at which the block with offset o begins.
BlkOff(o) == o - (o % BlkSize)

Init ==
  /\ version = [f \in Files |-> 0] /\ size \in [Files -> 0 .. MaxSize]
  /\ opened = [h \in Handles |-> NoFile] /\ position = [h \in Handles |-> 0]
  /\ buffer = [i \in Blocks |-> [s \in Slots |-> Zero]]
  /\ bufferMetaData = [i \in Blocks |-> Unused]
  /\ lruIndexQ = <<>>
  /\ pc = [t \in Threads |-> "closed"] /\ fd = [t \in Threads |-> -1]
  /\ offset = [t \in Threads |-> 0] /\ blk = [t \in Threads |-> 0]
  /\ result = [t \in Threads |-> NoRead]
-----------------------------------------------------------------------------
(* Files *)

\* adjust writes a file anew.
Rewrite(f) ==
  /\ version[f] < MaxVersion
  /\ \A h \in Handles : opened[h] # f
  /\ version' = [version EXCEPT ![f] = @ + 1]
  /\ \E n \in 0 .. MaxSize : size' = [size EXCEPT ![f] = n]
  /\ UNCHANGED <<kernel, buffers, threads>>

\* openFile: the kernel gives out the lowest handle that is free.
OpenFile(t, f) ==
  /\ pc[t] = "closed"
  /\ \E h \in Handles :
       /\ opened[h] = NoFile /\ \A g \in Handles : g < h => opened[g] # NoFile
       /\ opened' = [opened EXCEPT ![h] = f]
       /\ position' = [position EXCEPT ![h] = 0]
       /\ fd' = [fd EXCEPT ![t] = h]
  /\ pc' = [pc EXCEPT ![t] = "open"]
  /\ UNCHANGED <<disk, buffers, offset, blk, result>>

\* mutant: the blocks of the file stay in the buffer.
CloseForgetsNothing(t) ==
  /\ pc[t] = "open"
  /\ opened' = [opened EXCEPT ![fd[t]] = NoFile]
  /\ pc' = [pc EXCEPT ![t] = "closed"] /\ fd' = [fd EXCEPT ![t] = -1]
  /\ result' = [result EXCEPT ![t] = NoRead]
  /\ UNCHANGED <<disk, position, buffers, offset, blk>>

\* mutant: the blocks it gives up stay in the list.
CloseKeepsList(t) ==
  /\ pc[t] = "open"
  /\ opened' = [opened EXCEPT ![fd[t]] = NoFile]
  /\ bufferMetaData' = [i \in Blocks |->
       IF bufferMetaData[i].fileHandle = fd[t] THEN Unused
                                               ELSE bufferMetaData[i]]
  /\ pc' = [pc EXCEPT ![t] = "closed"] /\ fd' = [fd EXCEPT ![t] = -1]
  /\ result' = [result EXCEPT ![t] = NoRead]
  /\ UNCHANGED <<disk, position, buffer, lruIndexQ, offset, blk>>

\* What the loop of closeFile leaves of the list: block after block, those of
\* handle h are erased.
Erased(h) ==
  LET upTo[n \in 0 .. MaxBlk] ==
        IF n = 0 THEN lruIndexQ
        ELSE IF bufferMetaData[n - 1].fileHandle = h
             THEN RemoveFirst(upTo[n - 1], n - 1)
             ELSE upTo[n - 1]
  IN  upTo[MaxBlk]

\* closeFile gives up the blocks of the file: the handle will be given out
\* again.
CloseFile(t) ==
  /\ pc[t] = "open"
  /\ opened' = [opened EXCEPT ![fd[t]] = NoFile]
  /\ bufferMetaData' = [i \in Blocks |->
       IF bufferMetaData[i].fileHandle = fd[t] THEN Unused
                                               ELSE bufferMetaData[i]]
  /\ lruIndexQ' = Erased(fd[t])
  /\ pc' = [pc EXCEPT ![t] = "closed"] /\ fd' = [fd EXCEPT ![t] = -1]
  /\ result' = [result EXCEPT ![t] = NoRead]
  /\ UNCHANGED <<disk, position, buffer, offset, blk>>
-----------------------------------------------------------------------------
(* fread *)

\* Whether block i holds offset o of the file on handle h.
Holds(i, h, o) ==
  /\ bufferMetaData[i].fileHandle = h /\ bufferMetaData[i].offset <= o
  /\ o < bufferMetaData[i].offset + BlkSize

\* The block is moved to the front of the list.
ToFront(i) == <<i>> \o RemoveFirst(lruIndexQ, i)

InPlace(i) == lruIndexQ   \* mutant: the list is not touched

\* What a hit makes of the list.
Touched(i) == ToFront(i)

\* fread at an offset that the first block to hold it has in the buffer.
Hit(t, o) ==
  /\ pc[t] = "open" /\ o < size[opened[fd[t]]]
  /\ \E i \in Blocks :
       /\ Holds(i, fd[t], o) /\ \A j \in Blocks : j < i => ~Holds(j, fd[t], o)
       /\ result' = [result EXCEPT ![t] = buffer[i][o - bufferMetaData[i].offset]]
       /\ lruIndexQ' = Touched(i)
       /\ blk' = [blk EXCEPT ![t] = i]
  /\ offset' = [offset EXCEPT ![t] = o]
  /\ UNCHANGED <<disk, kernel, buffer, bufferMetaData, pc, fd>>

Free == {i \in Blocks : bufferMetaData[i].fileHandle < 0}

\* allocateBlock when a block is free.
Allocate(t, o) ==
  /\ pc[t] = "open" /\ o < size[opened[fd[t]]]
  /\ \A i \in Blocks : ~Holds(i, fd[t], o)
  /\ \E i \in Free :
       /\ \A j \in Free : i <= j
       /\ lruIndexQ' = <<i>> \o lruIndexQ
       /\ blk' = [blk EXCEPT ![t] = i]
  /\ pc' = [pc EXCEPT ![t] = "seek"] /\ offset' = [offset EXCEPT ![t] = o]
  /\ UNCHANGED <<disk, kernel, buffer, bufferMetaData, fd, result>>

Evicted == Last(lruIndexQ)

\* allocateBlock when it has to evict one.  The block is written back, which
\* a handle that is open for reading refuses, but for the lseek before it.
Evict(t, o) ==
  /\ pc[t] = "open" /\ o < size[opened[fd[t]]]
  /\ \A i \in Blocks : ~Holds(i, fd[t], o)
  /\ Free = {} /\ lruIndexQ # <<>>
  /\ \E i \in Blocks :
       LET victim == bufferMetaData[i]
       IN  /\ i = Evicted
           /\ position' = [position EXCEPT ![victim.fileHandle] = victim.offset]
           /\ bufferMetaData' = [bufferMetaData EXCEPT ![i] = Unused]
           /\ lruIndexQ' = <<i>> \o Front(lruIndexQ)
           /\ blk' = [blk EXCEPT ![t] = i]
  /\ pc' = [pc EXCEPT ![t] = "seek"] /\ offset' = [offset EXCEPT ![t] = o]
  /\ UNCHANGED <<disk, opened, buffer, fd, result>>

Seek(t) ==
  /\ pc[t] = "seek"
  /\ position' = [position EXCEPT ![fd[t]] = BlkOff(offset[t])]
  /\ pc' = [pc EXCEPT ![t] = "read"]
  /\ UNCHANGED <<disk, opened, buffers, fd, offset, blk, result>>

\* read: at the end of the file it fills the front of the block.
Load(t) ==
  /\ pc[t] = "read"
  /\ buffer' = [buffer EXCEPT ![blk[t]] = [s \in Slots |->
       LET o == position[fd[t]] + s
       IN  IF o < size[opened[fd[t]]] THEN EntryAt(fd[t], o) ELSE @[s]]]
  /\ pc' = [pc EXCEPT ![t] = "loaded"]
  /\ UNCHANGED <<disk, kernel, bufferMetaData, lruIndexQ, fd, offset, blk,
                 result>>

\* Only now the block is seen to be in use.
Noted(t) == [fileHandle |-> fd[t], offset |-> BlkOff(offset[t])]

Return(t) ==
  /\ pc[t] = "loaded"
  /\ bufferMetaData' = [bufferMetaData EXCEPT ![blk[t]] = Noted(t)]
  /\ result' = [result EXCEPT ![t] =
                  buffer[blk[t]][offset[t] - BlkOff(offset[t])]]
  /\ pc' = [pc EXCEPT ![t] = "open"]
  /\ UNCHANGED <<disk, kernel, buffer, lruIndexQ, fd, offset, blk>>

Next ==
  \/ \E f \in Files : Rewrite(f)
  \/ \E t \in Threads :
       \/ \E f \in Files : OpenFile(t, f)
       \/ \E o \in 0 .. MaxSize - 1 : Hit(t, o) \/ Allocate(t, o) \/ Evict(t, o)
       \/ Seek(t) \/ Load(t) \/ Return(t) \/ CloseFile(t)

Spec == Init /\ [][Next]_vars
-----------------------------------------------------------------------------
(* Properties *)

Loading == {"seek", "read", "loaded"}
InUse   == {i \in Blocks : bufferMetaData[i].fileHandle >= 0}

\* FileIO.hpp:54 "Reads from fileHandle": what fread puts into *ptr is the
\* entry that the file open on the handle has at the offset, although handles
\* and blocks are used again and a short read leaves the end of a block as it
\* was.
ReadsFile == \A t \in Threads :
  pc[t] = "open" /\ result[t] # NoRead => result[t] = EntryAt(fd[t], offset[t])

\* The list has every block in use, and the one being read into, once: so the
\* one evicted is in use, and none is in use for ever.
ListMatches ==
  /\ \A m, n \in DOMAIN lruIndexQ : m # n => lruIndexQ[m] # lruIndexQ[n]
  /\ ToSet(lruIndexQ)
       = InUse \cup {blk[t] : t \in {u \in Threads : pc[u] \in Loading}}

\* What a thread read last is not what it evicts: with two blocks, the least
\* recently used one goes.
EvictsOldest ==
  [][\A t \in Threads :
       pc[t] = "open" /\ pc'[t] = "seek" /\ Free = {} /\ result[t] # NoRead
         => blk'[t] # blk[t]]_vars
=============================================================================
