# Verification of the cs387 stores

The repository holds two log-structured merge (LSM) stores and what measures them:
`scratch/`, a key-value store written from scratch in C++, and `pglsm-docker/lsm3/`, a
PostgreSQL index access method. This directory holds TLA+ modules of them, TLC runs
and TLAPS proofs. Line numbers are those of the files under `src/`.

## 1. The system

### scratch

| component | source | state | operations |
|---|---|---|---|
| store | `scratch/src/master.cpp` | trees `bintree`, `reserve`; `recent`, `current`; ten files, two backups, `tempfile`; `memlock`, `fslock` | `serve` (one thread per batch file), `dbread`, `dbwrite`, `adjust` (a detached thread per retired tree), `run` |
| start and end | `Master::Master`, `main.cpp` | the files | find `recent` by the headers, file the backups, load the filter; `main` sleeps a second and exits |
| tree and log | `RBTree/rbtree.hpp` | a binary search tree, a log file | `insert`, `del`, `search`, `dump`, `fromFile`, `_inorder`, `_free` |
| bloom filter | `Bloom/bloom.hpp` | a bit array and its copy in `bloomdump` | `set`, `get`, load and rewrite at a start |
| lookup | `Core/Read.hpp` | none | `findEntry`, binary search in a sorted file |
| merge | `Core/Merge.hpp` | none | `merge_files`, two sorted files into one |
| block buffer | `BufferManager/FileIO.cpp` | static blocks, metadata, LRU list | `openFile`, `fread`, `closeFile` |
| mkfs | `fs.cpp` | the empty files | run once |

A write goes to `bintree`, whose log is `backup<current>`, and to the filter. At the end
of each turn of its loop a serve thread retires a full tree: it becomes `reserve`, the
other backup becomes the log of a new one, and a detached `adjust` starts. Under `fslock`
that thread merges the oldest file into the second oldest (through `tempfile`), dumps the
reserve over the oldest, and then, under `memlock`, names it the newest, empties the
backup and frees the tree. A read looks, under `memlock`, at the filter and the two
trees, then at the files from its copy of `recent` downwards under no lock, and at the
last two files under `fslock`.

Hard here: readers that run beside a merge in place; the copy of `recent` that goes stale;
trees, files and backups that change owner in steps; the process ending at any step (it
always may: `main` does not wait for adjusts), and starts that are themselves cut short.

### lsm3

One control entry per index in shared memory (`Lsm3DictEntry`), two top B-trees and a
base B-tree. Inserts go to the active top index; on overflow a backend swaps the two under
a spinlock, and the last insert into the old one wakes a background worker that copies it
to the base index and truncates it. Scans merge the three. Hard here: the count of
inserts under way, swaps decided outside the spinlock, errors and cancellations between
two updates of the entry, and scans that run while entries are in two indexes. The hook that
creates and drops the top indexes, and the dictionary of control entries, are not modelled.

`PROJECT.json` lists every component with its status, and under `hazards` what in this code
is hard to test, at its line, with the properties that catch it going wrong. Where the code
does go wrong and no run states it, or a property excepts the case, a note says so; section 3
("What the runs found") lists these.

### What makes each component correct

- store: a read returns a value its key had while it ran; an adjust, at any of its steps,
  loses, revives and ages nothing; every retired tree reaches a file; every read returns.
- start: what was written before the end is there after it; a start always ends.
- lookup: finds exactly the keys of the file, and reads nothing but its entries.
- merge: the newer entry of every key, in order, tombstones dropped.
- tree and log: replaying the log rebuilds the tree. Filter: no false negatives.
- buffer: a read returns the bytes of the file.
- lsm3: no entry is truncated before it is in the base index; a scan returns each once,
  in order; a merge that was asked for happens.

## 2. Modules

| module | what it is |
|---|---|
| `Entries` | what trees and files hold, and what a merge promises |
| `KVStore` | the abstract store: a map, writes at an instant, reads that take time |
| `Master` | the store at run time |
| `MasterProofs`, `MasterCoherence`, `MasterReads` | its theorems |
| `Recovery`, `RecoveryProofs` | `Master` with ends of the process and the constructor |
| `FindEntry` | the binary search |
| `Merge` | the merge pass |
| `SearchMerged`, `SearchMergedProofs` | the two together: the file a merge left is searched |
| `FileIO`, `FileIOProofs` | the block buffer |
| `IndexSet` | the abstract index: a set that grows, part of it settled in the base index |
| `Lsm3`, `Lsm3Proofs` | the merge protocol of lsm3 |
| `Lsm3Scan`, `Lsm3ScanProofs` | its merged scan |
| `MC*` | instances for TLC |

`Recovery` extends `Master`, which refines `KVStore`; `SearchMerged` extends `Merge` and
`FindEntry`; `Lsm3` refines `IndexSet`. `Lsm3Scan` has the merge protocol reduced to what
it does to the three indexes. It takes for granted that an entry is inserted into one top index,
that nobody inserts into the index being copied (`MergeAlone`), that what is truncated has been
copied (`NoEntryLost`), and that the base index has each entry once. The last holds up to
restarts of the server (`CopiedOnce`); after a restart in the middle of a merge it does not, so
what `Lsm3Scan` shows is not about scans after such a restart and the merge that repeats the
copy. That a restart leaves entries in a top index and in the base index is among its initial
states. What `Master` takes of a merge and a lookup is what `SearchMerged` shows.

### Master

The variables have the names of the fields. The contents of a tree or file are a function
from keys to a value, the tombstone or `None`; `backups[b]` is the tree that `fromFile` would
rebuild from `backup<b>`; `stamp[i]` is the second in the header of `file<i>`, 0 when the
file has none. `pc`, `key`, `snap`, `pos` and `reply` are the program counter and locals of
serve threads, `apc` the stage of an adjust thread.

| action | code |
|---|---|
| `DbWrite` | `dbwrite`, under `memlock` (71-84) |
| `Check` | the end of serve's loop, under `memlock` (135-149) |
| `DbRead` | `dbread` up to the release of `memlock` (4-36) |
| `ScanFile` | one turn of the scan, no lock (40-49) |
| `ReadDanger` | the last two files, under `fslock` (54-68) |
| `AdjustBegin` | lock, copy to `tempfile` (156-168) |
| `AdjustTruncate` | empty the second oldest file (171, 183) |
| `MergeFlush`, `MergeDone` | the merge, with a part of it on disk, and complete (187-190) |
| `AdjustReopen` | empty `tempfile`, open the oldest file, read the clock (204-207) |
| `DumpFlush`, `AdjustDump`, `AdjustSync` | `dump`: part of the file, the `fflush`, the `_sync_` record (208) |
| `AdjustPublish`, `AdjustUnlock` | the block under `memlock`, the release of `fslock` (212-231) |

What runs under `memlock` is one step, since all that touches those fields takes it. (adjust
reads `recent` and `current` outside; only adjust, under `fslock`, changes `recent`, and
serve changes `current` only when there is no reserve, so the values are stable.)
`merge_files` and `dump` write through stdio, so any front of their output may be in the
file: `MergeFlush` and `DumpFlush`, which `Merge` justifies (`GrowsInOrder`). A `findEntry` in
one file is one step; `FindEntry` is its inside. The initial state is the one after `fs` and
a first start: two adjusts have run, so `recent` is 1.

`store`, `window` and `lapped` are history variables: the last value written to each key, the
values a pending read may return, and whether a second adjust has begun to rewrite files
under a reader.

### Recovery

`Crash` may happen at any step; `CrashInWrite` ends the process between the two halves of
`dbwrite`. Only what was given to the operating system is left, and it is all left: losses of
the system's own cache (power failures) are not modelled. A start then runs, in order:
`BootRecent` (the headers, 270-295), for each backup `BootLoad` (`fromFile`), the steps of
`adjust` (those of `Master`; the `_sync_` record goes to `tempfile`, so `BootSync` replaces
`AdjustSync`) and `BootReturn`, then `BootTree`, `BootBloomLoad` and `BootBloomWrite`. A start
may be cut short at each of them. Headers that cannot be read make the comparison of two
files nondeterministic. Reads are left out: they change nothing, and `Coherent` says what
they would find.

Ends of the process do damage in three windows, each a definition, remembered in a history
variable: `HeadersAmbiguous` and `MergeTorn` (`torn`), `LogsSwapped` (`swapped`); `halfSet` says
that a write was cut between its log record and its bits. `RecoveredCoherent` says that these
are the only ones.

### FindEntry and Merge

`FindEntry` is the loop of `findEntry` over a file given by its keys; entry 0 is the header and
may read as any key. `Merge` is the pass of `merge_files`: the entries in hand and what is
written. A file is its contents, read in the order of the keys, so the next `fread` returns
the least key not read, or sets `feof`.

`SearchMerged` begins a search when the merge has returned, in the file that it left, any
header before it, or in one that the next step of adjust has emptied.

### FileIO

Entries are named by file, version and offset, so that a stale one shows. Offsets count
entries; an entry never lies across two blocks (`BLK_SIZE` is a multiple of its size).

| action | code |
|---|---|
| `OpenFile`, `CloseFile` | `open` gives out the lowest free handle; closing gives up the handle's blocks and, block after block, erases them from the list (`Erased`, 9-37) |
| `Hit` | a block of the buffer has the offset; it moves to the front of the list (56-79) |
| `Allocate`, `Evict` | `allocateBlock` with a free block, or with the last of the list, which is "written back" to a handle that is open for reading: only the `lseek` before has an effect (102-140) |
| `Seek`, `Load`, `Return` | the two system calls of a miss, and the metadata and the copy after them (83-99) |
| `Rewrite` | adjust rewrites a file that nobody has open |

`flushFile` has no caller.

### Lsm3

The variables of the first block are the fields of `Lsm3DictEntry`. A block under the
spinlock is one step, but for the launch of the merger, which keeps the spinlock.

| action | code in `lsm3.c` |
|---|---|
| `BeginStmt`, `EndStmt`, `Abort` | the executor opens the indexes; `lsm3_executor_finish` (951-970); an error |
| `Ticket`, `BtInsert`, `CheckOverflow`, `Finish` | `lsm3_insert`: 450-454, 457-462, 464-466, 468-504 |
| `AskMerger`, `LaunchRegister`, `LaunchDone`, `LaunchError` | the request, and `lsm3_launch_bgworker` |
| `StartMerge`, `WaitBegin`, `WaitReturn` | `lsm3_start_merge`, `lsm3_wait_merge_completion` |
| `Read`, `EndTransaction` | a transaction that reads keeps a lock on the top indexes |
| `MergerStart` ... `MergerExit` | `lsm3_merger_main`: latch, look at `start_merge`, copy entry by entry, truncate, commit, clear the flag, leave |
| `Cancel`, `MergerError`, `Restart` | SIGTERM to the worker, an error in its transaction, a restart of the server |

`Faults` says which of the failures may happen: errors, launches that fail, cancelled mergers,
restarts, transactions that read and go on. An error of the merger may come at any step of its
transaction, also between the truncation and the commit. A restart forgets shared memory;
`lsm3_get_entry` makes the entry anew. It compares blocks, which the model does not have: a top
index with entries has more than one without, and of two alike either may be taken (`Larger`).
`inserted` and `twice` are history variables.

### Lsm3Scan

Three cursors over sets of entries, each on a page that was read as a whole: what is inserted
into it later is not seen. `GetTuple` begins a call and advances the index of the last
tuple, `First` positions a cursor, `Compare` is one turn of the loop, `Return` its end
(575-649). Line 582 reads `active_index` twice, outside the spinlock; `GetTuple` reads it once,
as compiled code does for a field that is not volatile (a build that loads it twice, around a
swap, could try one top index twice and the other not at all). `GetBitmap` and `BitmapIndex` are `lsm3_getbitmap`. Beside it other processes insert,
swap and merge; a scan's own lock keeps the merger from truncating (`Locked`).

## 3. Runs

| run | properties | shows | distinct states |
|---|---|---|---|
| `master_one` | `TypeOK`, `Coherent`, `BackupsCoverMemory`, `TreeFreedOnceFiled`, `Linearizable`, `ReserveDrained`, `ReadReturns` | one thread, five writes: files with values are merged into each other, what memory holds is in a backup until it is in the newest file, `Master` implements `KVStore`, and progress | 0.4 million |
| `master_ring` | `OneAdjust`, `ReadsValid`, `ScanUndisturbed` | two threads that read while adjusts run, and four files, so that the scan without lock passes one that no adjust touches | 1.9 million |
| `master_lapped` | `NoMissedKey` (violated) | a read that two adjusts overtake | |
| `recovery_safe` | `RecoveredCoherent`, `BloomCovers`, `BackupsFiled`, `StartEnds` | two ends of the process, anywhere | 0.6 million |
| `recovery_logs` | `LoggedWritesWin` (violated) | backups replayed in the wrong order | |
| `search_merged` | `MergesAll`, `GrowsInOrder`, `ReadsEntries`, `FindsKey`, `LookupNewest`, `AppendsInOrder`, `LookupEnds` | every pair of files over four keys is merged, and every key searched in the result | 0.4 million |
| `lsm3_safe` | `TypeOK`, `NoEntryLost`, `MergeAlone`, `AssertionsHold` | every fault | 3.1 million |
| `lsm3_live` | `CopiedOnce`, `MergeRemembered`, `ReclaimsReleased`, `MergeCompletes`, `WaitReturns`, `StatementEnds`, `SpinlockFreed`, `IsIndexSet`, `SwapsToEmpty` | no fault: progress, and `Lsm3` implements `IndexSet` | 62 thousand |
| `lsm3_scan` | `NoneSkipped`, `BitmapComplete`, `InOrder` | scans in either direction beside inserts, a swap and merges | 1.6 million |
| `lsm3_unique` | `NoneSkipped` (violated) | a lookup in a unique index | |
| `fileio` | `ReadsFile`, `ListMatches`, `EvictsOldest` | one thread, a buffer smaller than a file, files rewritten between two openings | 0.9 million |
| `fileio_race` | `ReadsFile` (violated) | two threads that miss at the same time | |

Every property of a passing run has a mutant: a change to a mapped definition, of the kind a
slip in the code would be, under which TLC finds the property violated.

**Bounds.** *Master, Recovery.* `NumFiles` is 3 or 4 for 10: the ring has a newest, an oldest
and a second oldest file, and with 4 one more that no adjust touches. `MaxTreeSize` is 1 for
1024, so that a tree retires whenever it can; it grows to two keys while an adjust runs.
`MaxWrites` bounds the writes, hence the adjusts: with three files the fourth merges two files
with values, and with two a reader is lapped. In `recovery_safe` two writes are enough for a
tree, a reserve and a backup of each at an end of the process; the files that a start merges
are then mostly empty, and that merges keep what files hold is what `master_one` shows. `MaxTime`
bounds the clock, which may stand still (two dumps in one second) or tick; in the `Master`
runs it stands still, because nothing there reads stamps. `Adjusters` are names, reused; two
are enough (`OneAdjust`). `Hash` gives one key bits that cover the other's, so that the filter
lets a read of an absent key pass. `MaxCrashes` bounds ends of the process. One ordinary value
and the tombstone tell an old entry from a new one in most cases; `recovery_logs` has two.

*SearchMerged.* Four keys, each absent, a tombstone or a value in each file: every way in
which two files can interleave, end together or be empty. A file for a search has up to
four entries behind its header.

*FileIO.* Blocks of two entries, files of up to five, so that the last block is cut short; a
buffer of two blocks, so that one file overflows it; two versions of each of two files.

*Lsm3.* Two backends: what counts is whether somebody else is between two blocks under the
spinlock, and who was last. `TopIndexSize` 0 makes every insert an overflow; `CheckPeriod` 2 in
`lsm3_safe` makes it miss checks. Three inserts and one or two requested merges swap each index
in and out. `MaxRestarts` is 1: after a restart everything but the indexes is as at first.

*Lsm3Scan.* Three entries, in any distribution over three indexes and any division into pages,
and one swap: with a second one the scan's lock keeps the merger waiting.

Symmetry is used in runs without liveness. Deadlock is checked in the `Master` and `fileio`
runs, where a thread always has something to do; it is not in `Recovery` (a store whose writes
are spent idles, one that has given up has stopped), in `SearchMerged` (which returns), in `Lsm3`
(inserts are bounded) and in `Lsm3Scan` (a scan ends).

**Fairness.** Weak fairness of each adjust thread and of each step of a serve thread but
`getline`: the operating system runs threads that can run. Weak fairness of a reader's
`ReadDanger` suffices for these bounds, since a behaviour has finitely many adjusts; that a
`std::mutex` is fair to a reader among endless merges is not claimed. In `Recovery` the
constructor runs on once it has started, in `SearchMerged` a merge or a search that runs, runs
on. In `Lsm3` the steps of a statement that has begun, of a wait, of a transaction's end and of
the merger are weakly fair; nobody has to begin a statement, and none of the faults has to
happen.

### What the runs found

1. `master_lapped`: the comment in `dbread` (`master.cpp:52-53`) is right for one adjust, not
   for two. A reader that has copied `recent` and is then overtaken by two finds neither the
   old place of an entry nor the new one, and answers "Key Not Found!" for a stored key.
2. `recovery_logs`: the constructor replays `backup0` before `backup1` whichever is newer
   (`master.cpp:301`). If the process ends while the newer tree logs to `backup0` and the older
   is not filed, the older value wins after the restart.
3. `fileio_race`: `fread` marks a block as taken only after it has read into it
   (`FileIO.cpp:81`, 93-94), and dbread calls it from every serve thread under no lock. Two that
   miss at the same time read into the same block, and one is given the other's entry: it finds
   nothing, or the wrong value. What `Master` shows of reads is about the protocol above the
   buffer.
4. `lsm3_unique`: the stop after the first index that has an entry for a full key
   (`lsm3.c:602-610`) is wrong for an index of row versions: the one the snapshot sees may be in
   an index that is then not searched.

The models show more, which no run of the list states. Each is seen by changing one constant of
a run, or is excepted by name in the property mentioned:

- `recovery_safe`, `boot = "exit"`: `bloomdump` is emptied before it is written back
  (`bloom.hpp:92`), and an end of the process between the two makes every later start give up.
- `lsm3_live` with `"error"` in `Faults`: `MergeRemembered` fails. An error in `btinsert` leaves
  `access_count` raised (`lsm3.c:452`), and once that index is swapped out it is never merged.
  `ReclaimsReleased` fails too: `Lsm3ReleasedLocks` outlives the statement (490, 957); so it does
  with `"launch"`.
- `lsm3_live` with `"cancel"`: `WaitReturns` fails. The merger clears `entry->merger` after its last
  look at `start_merge` and without the spinlock (346), so a request in between wakes nobody.
- `lsm3_live` with `"block"`: `WaitReturns` fails. A transaction that has read the table waits for a
  merge that waits for its lock (1093), and the deadlock detector sees no lock in the wait.
- `lsm3_live` with `"launch"`: `SpinlockFreed` fails; the error is raised under the spinlock (176).
- `CopiedOnce` excepts restarts: a server that goes down between the copy and the truncation
  copies the same entries again (233), and nothing removes them from the base index. A scan
  drops one of two equal entries of different indexes (626), not of one index, and returns both.
- `recovery_safe`: `RecoveredCoherent` excepts ends in the windows `MergeTorn` (the second oldest
  file is only in `tempfile`, `master.cpp:171`) and `HeadersAmbiguous` (a file without a header,
  275, or two of one second, 290), and `BloomCovers` excepts a write cut between its log record
  and its bits (77): what these leave, the next start does not mend.
- `lsm3_scan` with `Turns = TRUE`: `InOrder` fails. After a change of direction the cursors of the
  other two indexes stand on the wrong side (589), although 674 says `amcanbackward`.

## 4. Proofs

TLAPS proves, for all values of the constants that satisfy the named assumptions (at least
three files, a positive tree size, at least two adjuster names, special values that are no keys, values
or contents):

- `TypeCorrect`, `Ownership` (`MasterProofs`). `TypeOK` and `OneAdjust` are inductive only
  together (`TypeAndOwner`): a step of an adjust is typed because the reserve is not null
  while it works.
- `TreesReachFiles`, `StoreCoherent` (`MasterCoherence`). `Coherent` is not inductive: that the
  merged file is right depends on what was copied, and that a reserve may be dropped on what
  was dumped. `StageContent` says, stage by stage, what `tempfile` and the files under rewrite
  hold; `CoherentInv` is the conjunction. The argument: the layers, from `bintree` to the
  oldest file, form a list; each action is shown to keep the first non-empty layer of every
  key. Reads change none of it. `AdjustPublish` renumbers the ring, so its step rests on
  lemmas on the arithmetic of indexes modulo `NumFiles`.
- `BackupsKept` (`MasterCoherence`), with `CoherentInv`: the log of a tree may be emptied before
  the publication because `StageContent` has the tree in its file by then.
- `ScanSafe`, `ReadsReturnValues` (`MasterReads`), for any number of threads. `ReadsValid` is about
  the reply, so the invariant has to say what a read under way is going to find. `ReaderOK` does:
  from the file it has come to, the reader's files, taken as the layers they stand for until
  `recent` moves and as they are from then on, begin with a value its key had (`FindsFrom`);
  at most one publication has happened, with no rewrite since (`Overlap`); and what came to
  memory meanwhile is in `window` (`FreshMemory`), which is why the new newest file, read last
  in the second loop, may answer after an older one. A merge that drops a tombstone turns the
  value found into none, which the promise allows for a deleted key.
- `OneThreadLinearizable` (`MasterReads`): with one thread `Master` implements `KVStore`. A lone
  reader is never overtaken (`SoloInv`), because only serve starts an adjust; so each reply is one
  `ReadInv` allows, and every step is a step of `KVStore` or none (`StepPromise`).
- `StoreRecovered`, `OwnershipRestarts`, `BackupsEmptiedOnceFiled`, `FilterSurvives`
  (`RecoveryProofs`), for any number of ends of the process. `RecoveredCoherent` is about a store
  that is up, so the invariant `RInv` follows the value last written through a start. `Phases` says,
  for each value of `boot`, what memory and the backups hold; `Found` names where the value of a key
  is at that point: in the layers when the store is up, else in the backups that are still to be
  filed, or behind them in the files. `FileContent` and `OnlyWritten` say what a file under rewrite
  can hold: without them an end in the middle of a merge or a dump could leave anything. Three
  lemmas carry the step that ends the process: `DumpTells` (once the file being dumped has its
  header it is the newest, and what it has of a key is what the reserve has), `RecentTells` (before
  that the newest is the one that `recent` names, and what a merge has left in the two oldest is
  good for their copies, unless it was torn) and `EndFinds` (what the layers answer at the end,
  backups and files answer after it). The steps of `adjust` are shared with the run time, so the
  lemmas of `MasterCoherence` are stated for whoever runs it (`Filing`), a thread or the constructor.
- `SearchStaysInFile`, `SearchCorrect` (`SearchMergedProofs`), from the loop invariant `SearchInv`:
  what is left of `low` is smaller, what is right of `high` greater.
- `MergeGrowsInOrder`, `MergeCorrect`, `MergeSorted` (`SearchMergedProofs`), from `MergeInv`: what is
  written is the merge up to the entries in hand, and a file whose entry in hand is ahead has
  nothing between (`Ahead`); without the latter, a key of the file ahead could have been
  missed. `MergeCorrect` and `MergeGrowsInOrder` are what `Master` assumes of `merge_files`.
- `MergedLookup` (`SearchMergedProofs`), for every finite set of keys: the two invariants together
  (`BothInv`). A search begins in a file with the keys that the merge left, in their order, which is
  what `SearchInv` needs.
- `ReadsItsFile` (`FileIOProofs`), for one thread: `ReadsFile` follows from `Filled`, that a block
  in use is of an open file and has what the file has as far as it goes. A thread that reads
  into a block that is in no use (`Loads`) is what two threads break.
- `ListKept`, `OldestEvicted` (`FileIOProofs`), for one thread, the second for at least two blocks
  (with one there is nothing else to evict). `ListInv` adds that what was read last is at the
  front. `ErasedAll` says what the loop of `closeFile` leaves of the list, for every number of
  blocks: a recursive function, of which the lemma shows that it exists and what it computes.
- `Invariant` (`Lsm3Proofs`), with every fault: `IInv` is the conjunction of the types, of
  `Alone` (the count of an index is at least the number of inserts under way into it; a merge is
  asked for, or at work, only when there is none into the index that is not active), of
  `Current` (a backend whose `n_merges` is still the entry's works on the active index), of
  `Copied` (what the merger has left behind is in the base index) and of `NoEntryLost`. From it
  follow `TypeCorrect`, `NothingLost`, `MergesAlone`, `Assertions` and `ImplementsIndexSet`. `MergedOnce`
  and `EmptyAtSwap` need more (`Once`): without a restart the active index has nothing in common
  with the base index, and the other one is empty unless a merge is in progress.
- `MergeNotForgotten` (`Lsm3Proofs`), without errors but with all other faults: the count of an
  index is then not only a bound but equal to the number of inserts under way into it (`Exact`), so
  the last of them sees 0 and asks for the merge (`Pending`). `LocksReclaimed`, without errors and
  failed launches, from `Locked`: a statement holds each of the two locks or has given it up, never
  both, and outside of statements there is neither. The hypotheses are needed: see "What the runs
  found".
- `BitmapWhole` (`Lsm3ScanProofs`): what the snapshot sees is in the bitmap or in an index still to be
  read. It rests on `OthersStep`: entries move only towards the base index, which is read last, and
  while the scan has its lock no index loses one.
- `ScanInOrder` (`Lsm3ScanProofs`), for scans that do not turn: every cursor is at its end or beyond
  the entry returned last, but for the one it came from, which the next call moves first
  (`Moving`); and `min` is the first of those compared so far (`Best`). `NextEntry` is what
  `_bt_next` does, within a page or to the next one.
- `ScanWhole` (`Lsm3ScanProofs`), if besides the index is not unique: every entry the snapshot sees
  was returned, or some cursor is still to come to it in an index that has it (`Cover`). It takes
  what `Kept` says, that entries of a page read stay in their index: of two cursors at the same entry
  one moves on, and the entry must still be where the other one stands. Turning is excluded because
  the code then breaks `InOrder`, the option `unique` because it breaks `NoneSkipped` (finding 4).

The proofs take natural numbers by their least elements (`WFMin` of the library) where they need
induction.

Model-checked only: liveness under fairness (`ReserveDrained`, `ReadReturns`, `StartEnds`, `LookupEnds`,
`MergeCompletes`, `WaitReturns`, `StatementEnds`, `SpinlockFreed`), which is out of TLAPS's reach. Every
invariant and every other property of the passing runs is a theorem, with the hypotheses above
where a run has them as its constants: one thread for `Linearizable` and `FileIO`, no faults for
two of `Lsm3`.

## 5. Not modelled

Of scratch: losses of the operating system's cache; failing system calls; the parsing of batch
lines and the output files; the uninitialised `tm_isdst` in the constructor; the flush after
`fclose` (`master.cpp:191-192`), which syncs nothing; the shape of the tree, `del` and its log
records, which the store does not use; the bytes of one `set` of the filter, of which a crash
may leave some on disk (`halfSet` stands for all of them); the filter in memory only, which a
test uses.

Of lsm3: the utility hook that creates, invalidates and drops the top indexes and holds
`Lsm3DictLock` across transactions, the dictionary and the options. Their behaviour is
mostly that of PostgreSQL's catalogs, lock manager and planner, which a model here would have
to invent. Vacuum, and the tables of function pointers, have no state of their own.

Docker files, scripts, tests and the data generator have no state.

## 6. Plan

Done: `Entries`, `KVStore`, `Master`, `Recovery`, `FindEntry`, `Merge` and their composition, `FileIO`,
`Lsm3`, `IndexSet`, `Lsm3Scan`, and proofs of all their safety properties.

Left, in this order:

1. That `Lsm3` implements the part of `Lsm3Scan` which stands for it (`Others`), with the scan's lock.
2. `BinaryTree`: the log with its records, and what `fromFile` rebuilds from it.
3. The filter's writes byte by byte, with ends between them.
4. The dictionary of lsm3 and the hook that fills it.
