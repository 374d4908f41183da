------------------------------- MODULE Master -------------------------------
(***************************************************************************)
(* The LSM store while it runs (src/scratch/src/master.cpp): serve threads *)
(* that read and write, and detached adjust threads that move a full tree  *)
(* into the ring of files.                                                 *)
(*                                                                         *)
(* Every block the code runs under memlock is one step.  What runs under   *)
(* fslock, or under no lock at all, is cut wherever another thread, or a   *)
(* crash (module Recovery), can tell the difference.                       *)
(***************************************************************************)
EXTENDS Entries

CONSTANTS
  Null,          \* the NULL reserve pointer
  Hash,          \* [Keys -> the bits the bloom filter sets for the key]
  NumFiles,      \* NUMFILES
  MaxTreeSize,   \* MAX_TREE_SIZE
  Threads,       \* the serve threads, one per batch file
  Adjusters,     \* names for the adjust threads alive at one time
  Nobody,        \* holder of a free fslock
  MaxWrites,     \* bound: writes in a behaviour
  MaxTime        \* bound: the second up to which the clock ticks by itself

ASSUME ConstantsAssumption ==
  /\ NumFiles \in Nat /\ NumFiles >= 3
  /\ MaxTreeSize \in Nat \ {0}
  /\ MaxWrites \in Nat /\ MaxTime \in Nat
  /\ Null \notin [Keys -> Vals \cup {Tomb, None}]
  /\ Nobody \notin Adjusters /\ \E a, b \in Adjusters : a # b

VARIABLES
  bintree,    \* the tree writes go to
  reserve,    \* the full tree on its way to a file, or Null
  bloom,      \* the bits set, in memory and in bloomdump
  recent,     \* the index of the newest file
  current,    \* the index of the backup that logs bintree
  filesys,    \* [index -> entries of file<index>]
  stamp,      \* [index -> second in its header, NoStamp when it has none]
  tempfile,   \* the entries of tempfile
  tempStamp,  \* its header
  backups,    \* [0..1 -> the tree fromFile would rebuild from backup<index>]
  fslock,     \* the adjust thread that holds fslock, or Nobody
  apc,        \* [Adjusters -> stage of adjust()]
  pc,         \* [Threads -> stage of the serve loop]
  key,        \* [Threads -> K1, the key of the read being served]
  snap,       \* [Threads -> r, dbread's copy of recent]
  pos,        \* [Threads -> i, the file dbread looks at next]
  reply,      \* [Threads -> value the call returned, None for not found]
  now,        \* the clock, in seconds
  nwrites,    \* writes so far
  store,      \* history: the last value written to each key
  window,     \* history: values the key read had since its dbread began
  lapped      \* history: a second adjust has begun to rewrite files under it

memory   == <<bintree, reserve, bloom, recent, current>>
disk     == <<filesys, stamp, tempfile, tempStamp, backups>>
readers  == <<pc, key, snap, pos, reply>>
history  == <<store, window, lapped>>
vars == <<memory, disk, fslock, apc, readers, now, nwrites, history>>

Index   == 0 .. NumFiles - 1
NoStamp == 0
Reading == {"scan", "danger"}

OtherBackupNoWrap == current + 1   \* mutant: no "% 2"
Oldest       == (recent + 1) % NumFiles
SecondOldest == (recent + 2) % NumFiles
OtherBackup  == (current + 1) % 2

Init ==
  /\ bintree = Empty /\ reserve = Null /\ bloom = {}
  /\ recent = 1 /\ current = 0
  /\ filesys = [i \in Index |-> Empty]
  /\ stamp = [i \in Index |-> IF i <= 1 THEN NumFiles + 1 + i ELSE i + 1]
  /\ tempfile = Empty /\ tempStamp = NoStamp
  /\ backups = [b \in 0 .. 1 |-> Empty]
  /\ fslock = Nobody
  /\ apc = [a \in Adjusters |-> "none"]
  /\ pc = [t \in Threads |-> "getline"]
  /\ key = [t \in Threads |-> None]
  /\ snap = [t \in Threads |-> 0] /\ pos = [t \in Threads |-> 0]
  /\ reply = [t \in Threads |-> None]
  /\ now = NumFiles + 2 /\ nwrites = 0
  /\ store = [k \in Keys |-> None]
  /\ window = [t \in Threads |-> {}]
  /\ lapped = [t \in Threads |-> FALSE]
-----------------------------------------------------------------------------
(* Writes *)

BloomHas(k) == Hash[k] \subseteq bloom

\* dbwrite, one block under memlock.
DbWrite(t, k, v) ==
  /\ pc[t] = "getline" /\ nwrites < MaxWrites
  /\ bintree' = [bintree EXCEPT ![k] = v]
  /\ backups' = [backups EXCEPT ![current][k] = v]
  /\ bloom'   = bloom \cup Hash[k]
  /\ pc'      = [pc EXCEPT ![t] = "check"]
  /\ nwrites' = nwrites + 1
  /\ store'   = [store EXCEPT ![k] = v]
  /\ window'  = [u \in Threads |-> IF pc[u] \in Reading /\ key[u] = k
                                   THEN window[u] \cup {v} ELSE window[u]]
  /\ UNCHANGED <<reserve, recent, current, filesys, stamp, tempfile,
                 tempStamp, fslock, apc, key, snap, pos, reply, now, lapped>>

TreeFullOnly == Size(bintree) >= MaxTreeSize   \* mutant: reserve unchecked

\* When serve retires the tree.  Of the condition on reserve only "== NULL"
\* can hold: the other half, "this-reserve->size == 0", is about an address.
TreeFull == Size(bintree) >= MaxTreeSize /\ reserve = Null

\* The end of each turn of serve's loop: a full tree becomes the reserve and
\* an adjust thread starts.
Check(t) ==
  /\ pc[t] = "check"
  /\ IF TreeFull
     THEN /\ reserve' = bintree
          /\ current' = OtherBackup
          /\ bintree' = Empty
          /\ backups' = [backups EXCEPT ![current'] = Empty]
          /\ \E a \in Adjusters :
               apc[a] = "none" /\ apc' = [apc EXCEPT ![a] = "wait"]
     ELSE UNCHANGED <<reserve, current, bintree, backups, apc>>
  /\ pc'     = [pc EXCEPT ![t] = "getline"]
  /\ key'    = [key EXCEPT ![t] = None]
  /\ snap'   = [snap EXCEPT ![t] = 0]
  /\ pos'    = [pos EXCEPT ![t] = 0]
  /\ reply'  = [reply EXCEPT ![t] = None]
  /\ window' = [window EXCEPT ![t] = {}]
  /\ lapped' = [lapped EXCEPT ![t] = FALSE]
  /\ UNCHANGED <<bloom, recent, filesys, stamp, tempfile, tempStamp,
                 fslock, now, nwrites, store>>
-----------------------------------------------------------------------------
(* Reads *)

InMemoryTreeOnly(k) == bintree[k]   \* mutant: reserve is not searched

\* What dbread finds while it holds memlock.
InMemory(k) ==
  CASE bintree[k] # None -> bintree[k]
    [] bintree[k] = None /\ reserve # Null -> reserve[k]
    [] OTHER -> None

\* dbread up to the release of memlock.
DbRead(t, k) ==
  /\ pc[t] = "getline"
  /\ key'  = [key EXCEPT ![t] = k]
  /\ snap' = [snap EXCEPT ![t] = recent]
  /\ pos'  = [pos EXCEPT ![t] = recent]
  /\ window' = [window EXCEPT ![t] = {store[k]}]
  /\ IF ~BloomHas(k) \/ InMemory(k) # None
     THEN /\ reply' = [reply EXCEPT ![t] = IF BloomHas(k) THEN InMemory(k)
                                                          ELSE None]
          /\ pc' = [pc EXCEPT ![t] = "check"]
     ELSE /\ pc' = [pc EXCEPT ![t] = "scan"]
          /\ UNCHANGED reply
  /\ UNCHANGED <<memory, disk, fslock, apc, now, nwrites, store, lapped>>

OlderNoWrap(i) == IF i = 0 THEN 0 ELSE i - 1   \* mutant: no "% NUMFILES"
ScanEndLate(t) == (snap[t] + 1) % NumFiles      \* mutant: scans one file more

Older(i)   == (i + NumFiles - 1) % NumFiles
ScanEnd(t) == (snap[t] + 2) % NumFiles

\* One turn of dbread's first loop: findEntry in a file, under no lock.
ScanFile(t) ==
  /\ pc[t] = "scan"
  /\ LET found == filesys[pos[t]][key[t]]
         next  == Older(pos[t])
     IN  IF found # None
         THEN /\ reply' = [reply EXCEPT ![t] = found]
              /\ pc' = [pc EXCEPT ![t] = "check"]
              /\ UNCHANGED pos
         ELSE /\ pos' = [pos EXCEPT ![t] = next]
              /\ pc' = [pc EXCEPT ![t] =
                          IF next = ScanEnd(t) THEN "danger" ELSE "scan"]
              /\ UNCHANGED reply
  /\ UNCHANGED <<memory, disk, fslock, apc, key, snap, now, nwrites, history>>

NoLock == TRUE   \* mutant: fslock is not taken

LockFree == fslock = Nobody

\* mutant: the oldest file is read first.
InDangerOldFirst(t) ==
  LET newer == filesys[(snap[t] + 2) % NumFiles][key[t]]
      older == filesys[(snap[t] + 1) % NumFiles][key[t]]
  IN  IF older # None THEN older ELSE newer

\* What the two files an adjust may rewrite hold for the key.
InDanger(t) ==
  LET newer == filesys[(snap[t] + 2) % NumFiles][key[t]]
      older == filesys[(snap[t] + 1) % NumFiles][key[t]]
  IN  IF newer # None THEN newer ELSE older

\* dbread's second loop, under fslock.
ReadDanger(t) ==
  /\ pc[t] = "danger" /\ LockFree
  /\ reply' = [reply EXCEPT ![t] = InDanger(t)]
  /\ pc' = [pc EXCEPT ![t] = "check"]
  /\ UNCHANGED <<memory, disk, fslock, apc, key, snap, pos, now, nwrites,
                 history>>
-----------------------------------------------------------------------------
(* adjust() *)

Stage(a, from, to) ==
  /\ apc[a] = from
  /\ apc' = [apc EXCEPT ![a] = to]

\* Take fslock, then copy the second oldest file.
AdjustBegin(a) ==
  /\ Stage(a, "wait", "copied")
  /\ LockFree /\ fslock' = a
  /\ tempfile'  = filesys[SecondOldest]
  /\ tempStamp' = stamp[SecondOldest]
  /\ UNCHANGED <<memory, filesys, stamp, backups, readers, now, nwrites,
                 history>>

Truncated(i) ==
  /\ filesys' = [filesys EXCEPT ![i] = Empty]
  /\ stamp'   = [stamp EXCEPT ![i] = NoStamp]

\* resize_file, then fopen "wb", on the second oldest file.
AdjustTruncate(a) ==
  /\ Stage(a, "copied", "merging")
  /\ Truncated(SecondOldest)
  /\ lapped' = [t \in Threads |-> \/ lapped[t]
                                  \/ pc[t] \in Reading /\ snap[t] # recent]
  /\ UNCHANGED <<memory, tempfile, tempStamp, backups, fslock, readers, now,
                 nwrites, store, window>>

\* stdio writes a full buffer before the file is complete.
Flush(i, header, c, m) ==
  /\ \A k \in Keys : filesys[i][k] # None => k <= m
  /\ filesys' = [filesys EXCEPT ![i] = Prefix(c, m)]
  /\ stamp'   = [stamp EXCEPT ![i] = header]

Merged == MergeFiles(tempfile, filesys[Oldest])

MergeFlush(a, m) ==
  /\ apc[a] = "merging"
  /\ Flush(SecondOldest, tempStamp, Merged, m)
  /\ UNCHANGED <<memory, tempfile, tempStamp, backups, fslock, apc, readers,
                 now, nwrites, history>>

\* merge_files has returned and fclose has flushed what was left.
MergeDone(a) ==
  /\ Stage(a, "merging", "merged")
  /\ filesys' = [filesys EXCEPT ![SecondOldest] = Merged]
  /\ stamp'   = [stamp EXCEPT ![SecondOldest] = tempStamp]
  /\ UNCHANGED <<memory, tempfile, tempStamp, backups, fslock, readers, now,
                 nwrites, history>>

\* Empty tempfile, reopen the oldest file "wb", and read the clock.
AdjustReopen(a) ==
  /\ Stage(a, "merged", "dumping")
  /\ tempfile' = Empty /\ tempStamp' = NoStamp
  /\ Truncated(Oldest)
  /\ now' \in {now} \cup ({now + 1} \cap 0 .. MaxTime)
  /\ UNCHANGED <<memory, backups, fslock, readers, nwrites, history>>

DumpFlush(a, m) ==
  /\ apc[a] = "dumping"
  /\ Flush(Oldest, now, reserve, m)
  /\ UNCHANGED <<memory, tempfile, tempStamp, backups, fslock, apc, readers,
                 now, nwrites, history>>

\* dump's fflush: the whole tree is in the file.
AdjustDump(a) ==
  /\ Stage(a, "dumping", "dumped")
  /\ filesys' = [filesys EXCEPT ![Oldest] = reserve]
  /\ stamp'   = [stamp EXCEPT ![Oldest] = now]
  /\ UNCHANGED <<memory, tempfile, tempStamp, backups, fslock, readers, now,
                 nwrites, history>>

RetireCurrent == backups' = [backups EXCEPT ![current] = Empty]   \* mutant

RetireBackup == backups' = [backups EXCEPT ![OtherBackup] = Empty]

\* dump's _sync_ record in the log of the tree, which fromFile stops at.
AdjustSync(a) ==
  /\ Stage(a, "dumped", "synced")
  /\ RetireBackup
  /\ UNCHANGED <<memory, filesys, stamp, tempfile, tempStamp, fslock, readers,
                 now, nwrites, history>>

\* The block under memlock: the dumped file is the newest, its backup is
\* emptied and the tree is gone.
AdjustPublish(a) ==
  /\ Stage(a, "synced", "unlock")
  /\ recent'  = (recent + 1) % NumFiles
  /\ RetireBackup
  /\ reserve' = Null
  /\ UNCHANGED <<bintree, bloom, current, filesys, stamp, tempfile, tempStamp,
                 fslock, readers, now, nwrites, history>>

\* mutant: fslock stays locked.
AdjustReturn(a) ==
  /\ Stage(a, "unlock", "none")
  /\ UNCHANGED <<memory, disk, fslock, readers, now, nwrites, history>>

AdjustUnlock(a) ==
  /\ Stage(a, "unlock", "none")
  /\ fslock' = Nobody
  /\ UNCHANGED <<memory, disk, readers, now, nwrites, history>>

FileStep(a) ==
  \/ AdjustBegin(a)
  \/ AdjustTruncate(a)
  \/ \E m \in Keys \cup {0} : MergeFlush(a, m)
  \/ MergeDone(a)
  \/ AdjustReopen(a)
  \/ \E m \in Keys \cup {0} : DumpFlush(a, m)
  \/ AdjustDump(a)

Adjust(a) ==
  \/ FileStep(a)
  \/ AdjustSync(a)
  \/ AdjustPublish(a)
  \/ AdjustUnlock(a)
-----------------------------------------------------------------------------
Serve(t) ==
  \/ \E k \in Keys, v \in Vals \cup {Tomb} : DbWrite(t, k, v)
  \/ \E k \in Keys : DbRead(t, k)
  \/ ScanFile(t)
  \/ ReadDanger(t)
  \/ Check(t)

Next == (\E t \in Threads : Serve(t)) \/ (\E a \in Adjusters : Adjust(a))

Spec == Init /\ [][Next]_vars

\* Threads that can run do run.  Nothing is assumed of getline: a batch file
\* may end at any time.
Fairness ==
  /\ \A a \in Adjusters : WF_vars(Adjust(a))
  /\ \A t \in Threads :
       WF_vars(ScanFile(t)) /\ WF_vars(ReadDanger(t)) /\ WF_vars(Check(t))

FairSpec == Spec /\ Fairness
-----------------------------------------------------------------------------
(* What the store guarantees *)

Working == {"copied", "merging", "merged", "dumping", "dumped", "synced"}
Pending == Working \cup {"wait"}

\* The type of every variable.
TypeOK ==
  /\ bintree \in Contents
  /\ reserve \in Contents \cup {Null}
  /\ bloom \subseteq UNION {Hash[k] : k \in Keys}
  /\ recent \in Index /\ current \in 0 .. 1
  /\ filesys \in [Index -> Contents] /\ stamp \in [Index -> Nat]
  /\ tempfile \in Contents /\ tempStamp \in Nat
  /\ backups \in [0 .. 1 -> Contents]
  /\ fslock \in Adjusters \cup {Nobody}
  /\ apc \in [Adjusters -> Pending \cup {"none", "unlock"}]
  /\ pc \in [Threads -> Reading \cup {"getline", "check"}]
  /\ key \in [Threads -> Keys \cup {None}]
  /\ \A t \in Threads : pc[t] \in Reading => key[t] \in Keys
  /\ snap \in [Threads -> Index] /\ pos \in [Threads -> Index]
  /\ reply \in [Threads -> Entry]
  /\ now \in Nat /\ nwrites \in Nat
  /\ store \in Contents
  /\ window \in [Threads -> SUBSET Entry]
  /\ lapped \in [Threads -> BOOLEAN]

\* serve starts an adjust exactly when it sets reserve, and adjust clears
\* reserve before it unlocks: so the adjust that works under fslock is the
\* only one there is with a reserve to file, every reserve has one, and serve
\* always finds a free name for the next.
OneAdjust ==
  /\ \A a \in Adjusters : apc[a] \in Working \cup {"unlock"} <=> fslock = a
  /\ reserve # Null <=> \E a \in Adjusters : apc[a] \in Pending
  /\ \A a \in Adjusters : apc[a] \in Pending =>
       \A b \in Adjusters \ {a} : apc[b] \in {"none", "unlock"}
  /\ reserve = Null => \E a \in Adjusters : apc[a] = "none"

\* The store, newest layer first: bintree, reserve, then the files from the
\* newest to the oldest.  While the merge rewrites the second oldest file its
\* content is in tempfile; once it is rewritten the oldest counts for nothing.
Slot(j)   == (recent + NumFiles - j) % NumFiles
Rewriting == \E a \in Adjusters : apc[a] = "merging"
Absorbed  == \E a \in Adjusters :
               apc[a] \in {"merged", "dumping", "dumped", "synced"}

InFile(j, k) ==
  CASE j = NumFiles - 2 /\ Rewriting -> tempfile[k]
    [] j = NumFiles - 1 /\ Absorbed  -> None
    [] OTHER -> filesys[Slot(j)][k]

Layers == 0 .. NumFiles + 1
Layer(n, k) ==
  CASE n = 0 -> bintree[k]
    [] n = 1 -> IF reserve = Null THEN None ELSE reserve[k]
    [] OTHER -> InFile(n - 2, k)

\* No adjust, at any of its steps, loses a key, brings a deleted one back or
\* lets an older value win: the newest layer that knows a key has the value
\* last written to it, and a key no layer knows was never written or was
\* deleted.
Coherent ==
  \A k \in Keys :
    \/ \E n \in Layers : /\ Layer(n, k) # None /\ Layer(n, k) = store[k]
                         /\ \A m \in Layers : m < n => Layer(m, k) = None
    \/ (\A n \in Layers : Layer(n, k) = None) /\ store[k] \in {None, Tomb}

\* What memory alone holds is in the backups: bintree in one, and reserve in
\* the other until dump has flushed the file that takes it over.
BackupsCoverMemory ==
  /\ backups[current] = bintree
  /\ \/ backups[OtherBackup] = IF reserve = Null THEN Empty ELSE reserve
     \/ \E a \in Adjusters : apc[a] = "synced" /\ filesys[Oldest] = reserve

\* dbread's first loop takes no lock: it must never be at a file that an
\* adjust is rewriting.  A reader that a second adjust overtakes has no such
\* protection (NoMissedKey).
ScanUndisturbed ==
  \A t \in Threads : pc[t] = "scan" /\ ~lapped[t] =>
    /\ pos[t] = Oldest => ~Absorbed
    /\ pos[t] = SecondOldest => ~Rewriting

\* The promise and how it is kept: a read is pending while dbread looks at
\* files.
KV == INSTANCE KVStore WITH
  Clients <- Threads,
  status  <- [t \in Threads |-> CASE pc[t] = "getline" -> "idle"
                                  [] pc[t] = "check"   -> "answered"
                                  [] OTHER             -> "asked"],
  asked   <- [t \in Threads |-> IF pc[t] \in Reading THEN key[t] ELSE None],
  window  <- [t \in Threads |-> IF pc[t] \in Reading THEN window[t] ELSE {}]

\* With one serve thread the store is linearizable, merges or not.
Linearizable == KV!Spec

ReturnedRead(t) == pc[t] = "check" /\ key[t] # None

\* With several, a read that at most one adjust overlapped still returns a
\* value that the key had while it ran.
ReadsValid ==
  \A t \in Threads : ReturnedRead(t) /\ ~lapped[t] =>
    reply[t] \in UNION {KV!Seen(w) : w \in window[t]}

\* Of dbread's last loop master.cpp says "if recent has been updated, last is
\* redundant": a read finds the key even if adjusts ran since it began.
NoMissedKey ==
  \A t \in Threads : ReturnedRead(t) /\ reply[t] = None =>
    None \in UNION {KV!Seen(w) : w \in window[t]}

\* adjust frees a tree only when the file that recent then names holds it,
\* and serve never replaces a tree that is not freed.
TreeFreedOnceFiled ==
  [][reserve # Null /\ reserve' # reserve =>
       reserve' = Null /\ filesys'[recent'] = reserve]_vars

\* Every retired tree reaches a file, however reads and merges contend for
\* fslock.
ReserveDrained == reserve # Null ~> reserve = Null

\* Every read returns.
ReadReturns == \A t \in Threads : pc[t] \in Reading ~> pc[t] = "check"
=============================================================================
