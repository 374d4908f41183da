------------------------------ MODULE Recovery ------------------------------
(***************************************************************************)
(* The store across the end of its process and the next start.  The        *)
(* process may be killed at any step, and ending normally is no different: *)
(* main waits one second for the detached adjust threads and exits.  What  *)
(* was handed to the operating system survives.                            *)
(*                                                                         *)
(* The constructor finds the newest file by the headers, files the two     *)
(* backups with adjust(), and loads the bloom filter.  Reads are left out: *)
(* they change nothing, and Coherent says what they would find.            *)
(***************************************************************************)
EXTENDS Master

CONSTANT MaxCrashes   \* bound: ends of the process in a behaviour

ASSUME MaxCrashesAssumption == MaxCrashes \in Nat

VARIABLES
  boot,      \* where the constructor is; "up" once it has returned
  bloomOk,   \* bloomdump is complete
  crashes,   \* ends of the process so far
  torn,      \* history: an end left files the next start misreads
  swapped,   \* history: an end left the newer of two values in backup0
  halfSet    \* history: a write was logged and its bloom bits were not set

rvars == <<vars, boot, bloomOk, crashes, torn, swapped, halfSet>>

RInit ==
  /\ Init
  /\ boot = "up" /\ bloomOk = TRUE /\ crashes = 0
  /\ torn = FALSE /\ swapped = FALSE /\ halfSet = FALSE
-----------------------------------------------------------------------------
(* The end of the process *)

\* Whether the constructor can see the header of file i + 1 as older than
\* that of file i, or not older.  Without a header it compares bytes nobody
\* wrote.
Following(i) == (i + 1) % NumFiles
Unread(i)    == stamp[i] = NoStamp \/ stamp[Following(i)] = NoStamp
CanDrop(i)   == Unread(i) \/ stamp[Following(i)] < stamp[i]
CanKeep(i)   == Unread(i) \/ stamp[Following(i)] >= stamp[i]

\* The files the constructor may take for the newest: the first one that is
\* followed by an older one, or the last.
Candidates ==
  {r \in Index : /\ \A i \in Index : i < r => CanKeep(i)
                 /\ r = NumFiles - 1 \/ CanDrop(r)}

\* The newest file on disk: the one being dumped, from its header on.
NewestOnDisk ==
  IF \E a \in Adjusters : apc[a] \in {"dumping", "dumped", "synced"}
                            /\ stamp[Oldest] # NoStamp
  THEN Oldest ELSE recent

\* The windows in which an end of the process does damage:
\* the headers do not tell which file is the newest;
HeadersAmbiguous == Candidates # {NewestOnDisk}

\* the second oldest file is being rewritten and its only copy is tempfile,
\* which the next start empties, or a tombstone is gone and what it hid is not;
Gone(v) == IF v = Tomb THEN None ELSE v
MergeTorn ==
  \E a \in Adjusters : apc[a] \in {"merging", "merged"} /\
    LET over(c) == [k \in Keys |-> IF c[k] # None THEN Gone(c[k])
                                   ELSE Gone(filesys[Oldest][k])]
    IN  over(filesys[SecondOldest]) # over(tempfile)

\* backup0, which is filed first, logs the newer tree, and its values differ.
LogsSwapped(logs) ==
  /\ current = 0
  /\ \E k \in Keys : logs[0][k] # None /\ logs[1][k] \notin {None, logs[0][k]}

\* What is left when the process has ended.
Vanish ==
  /\ bintree' = Empty /\ reserve' = Null /\ recent' = 0 /\ current' = 0
  /\ fslock' = Nobody
  /\ apc' = [a \in Adjusters |-> "none"]
  /\ pc' = [t \in Threads |-> "getline"]
  /\ key' = [t \in Threads |-> None] /\ reply' = [t \in Threads |-> None]
  /\ snap' = [t \in Threads |-> 0] /\ pos' = [t \in Threads |-> 0]
  /\ window' = [t \in Threads |-> {}] /\ lapped' = [t \in Threads |-> FALSE]
  /\ crashes < MaxCrashes /\ crashes' = crashes + 1
  /\ boot' = "down"
  /\ bloomOk' = (bloomOk /\ boot # "bloom")
  /\ torn' = (torn \/ HeadersAmbiguous \/ MergeTorn)
  /\ swapped' = (swapped \/ LogsSwapped(backups'))
  /\ UNCHANGED <<filesys, stamp, tempfile, tempStamp, bloom, now>>

Crash ==
  /\ boot \notin {"down", "exit"}
  /\ UNCHANGED <<backups, nwrites, store, halfSet>>
  /\ Vanish

\* The end inside dbwrite, after the record of the write and before the bits.
CrashInWrite(t, k, v) ==
  /\ boot = "up" /\ pc[t] = "getline" /\ nwrites < MaxWrites
  /\ backups' = [backups EXCEPT ![current][k] = v]
  /\ Vanish
  /\ nwrites' = nwrites + 1
  /\ store' = [store EXCEPT ![k] = v]
  /\ halfSet' = TRUE
-----------------------------------------------------------------------------
(* Master::Master() *)

unbooted == <<bloom, fslock, pc, key, snap, pos, reply, nwrites, history,
              crashes, torn, swapped, halfSet>>

BootRecent ==
  /\ boot = "down"
  /\ recent' \in Candidates
  /\ boot' = "load0"
  /\ UNCHANGED <<bintree, reserve, current, disk, apc, now, bloomOk, unbooted>>

BackupTurnSame(i) == i   \* mutant: adjust empties the other backup

\* adjust() empties OtherBackup: current is set so that it is backup i.
BackupTurn(i) == (i + 1) % 2

\* A tree whose log empties tempfile takes the entries of a backup, and the
\* constructor runs adjust() on it; before the second it sleeps a second.
BootLoad(i) ==
  /\ boot = <<"load0", "load1">>[i + 1]
  /\ reserve' = backups[i]
  /\ current' = BackupTurn(i)
  /\ tempfile' = Empty /\ tempStamp' = NoStamp
  /\ \E a \in Adjusters : apc' = [apc EXCEPT ![a] = "wait"]
  /\ now' = now + i
  /\ boot' = <<"adjust0", "adjust1">>[i + 1]
  /\ UNCHANGED <<bintree, recent, filesys, stamp, backups, bloomOk, unbooted>>

\* The _sync_ record of dump goes to the log of the tree: tempfile, whose
\* content nothing reads.
BootSync(a) ==
  /\ Stage(a, "dumped", "synced")
  /\ UNCHANGED <<memory, disk, fslock, readers, now, nwrites, history>>

BootAdjust(a) ==
  /\ boot \in {"adjust0", "adjust1"}
  /\ FileStep(a) \/ BootSync(a) \/ AdjustPublish(a) \/ AdjustUnlock(a)
  /\ UNCHANGED <<boot, bloomOk, crashes, torn, swapped, halfSet>>

BootReturn ==
  /\ boot \in {"adjust0", "adjust1"}
  /\ \A a \in Adjusters : apc[a] = "none"
  /\ boot' = IF boot = "adjust0" THEN "load1" ELSE "tree"
  /\ UNCHANGED <<bintree, reserve, recent, current, disk, apc, now, bloomOk,
                 unbooted>>

\* The first tree logs to backup0, which it empties.
BootTree ==
  /\ boot = "tree"
  /\ current' = 0 /\ bintree' = Empty
  /\ backups' = [backups EXCEPT ![0] = Empty]
  /\ boot' = "load"
  /\ UNCHANGED <<reserve, recent, filesys, stamp, tempfile, tempStamp, apc, now,
                 bloomOk, unbooted>>

\* BloomFile reads bloomdump, gives up if it is short, and reopens it "wb".
BootBloomLoad ==
  /\ boot = "load"
  /\ boot' = IF bloomOk THEN "bloom" ELSE "exit"
  /\ UNCHANGED <<bintree, reserve, recent, current, disk, apc, now, bloomOk,
                 unbooted>>

\* mutant: it starts from no bits.
BootBloomFresh ==
  /\ boot = "bloom"
  /\ boot' = "up" /\ bloom' = {}
  /\ UNCHANGED <<bintree, reserve, recent, current, disk, apc, now, bloomOk,
                 fslock, pc, key, snap, pos, reply, nwrites, history, crashes,
                 torn, swapped, halfSet>>

\* It then writes back what it has read.
BootBloomWrite ==
  /\ boot = "bloom"
  /\ boot' = "up"
  /\ UNCHANGED <<bintree, reserve, recent, current, disk, apc, now, bloomOk,
                 unbooted>>

Boot ==
  \/ BootRecent
  \/ \E i \in 0 .. 1 : BootLoad(i)
  \/ BootReturn
  \/ BootTree
  \/ BootBloomLoad
  \/ BootBloomWrite
-----------------------------------------------------------------------------
RunningWrite(t) ==
  /\ boot = "up"
  /\ \/ \E k \in Keys, v \in Vals \cup {Tomb} : DbWrite(t, k, v)
     \/ Check(t)
  /\ UNCHANGED <<boot, bloomOk, crashes, torn, swapped, halfSet>>

RunningAdjust(a) ==
  /\ boot = "up"
  /\ Adjust(a)
  /\ UNCHANGED <<boot, bloomOk, crashes, torn, swapped, halfSet>>

RNext ==
  \/ \E t \in Threads : RunningWrite(t)
  \/ \E a \in Adjusters : RunningAdjust(a) \/ BootAdjust(a)
  \/ Boot
  \/ Crash
  \/ \E t \in Threads, k \in Keys, v \in Vals \cup {Tomb} : CrashInWrite(t, k, v)

RSpec == RInit /\ [][RNext]_rvars

\* A started constructor runs on.
RFairSpec ==
  /\ RSpec
  /\ WF_rvars(Boot)
  /\ \A a \in Adjusters : WF_rvars(BootAdjust(a))
-----------------------------------------------------------------------------
(* What a restart guarantees *)

\* However often the process ends, also while it starts: unless an end hits
\* one of the windows, the store that has started again has, for every key,
\* the value last written.
RecoveredCoherent == boot = "up" /\ ~torn /\ ~swapped => Coherent

\* Whoever empties a backup, adjust at run time or at a start, or the new log
\* that serve and the constructor open: a file then holds all that it logged.
BackupsFiled ==
  [][\A b \in 0 .. 1 : backups[b] # Empty /\ backups'[b] = Empty =>
       \E i \in Index : filesys[i] = backups[b]]_rvars

\* A key that was written passes the filter after any number of restarts,
\* unless its write was cut short.
BloomCovers ==
  boot = "up" /\ ~halfSet => \A k \in Keys : store[k] # None => BloomHas(k)

\* Every start ends: the store is up or has given up on bloomdump.
StartEnds == boot = "down" ~> boot \in {"up", "exit"}

\* dbwrite "writes to memory and backup", and the start "writes backups, if
\* any, to file": with the files intact, no write that returned is undone by a
\* restart.
LoggedWritesWin == boot = "up" /\ ~torn /\ ~halfSet => Coherent
=============================================================================
