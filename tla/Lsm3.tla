-------------------------------- MODULE Lsm3 --------------------------------
(***************************************************************************)
(* The merge protocol of the lsm3 access method                            *)
(* (src/pglsm-docker/lsm3/lsm3.c): backends that insert into the active    *)
(* one of two top indexes, the swap of the two, and the background worker, *)
(* the merger, that copies the other one to the base index and truncates   *)
(* it.                                                                     *)
(*                                                                         *)
(* A block under the entry's spinlock is one step, but for the launch of   *)
(* the merger, which holds the spinlock while the worker starts.           *)
(*                                                                         *)
(* What PostgreSQL does is taken from how lsm3.c relies on it: a statement *)
(* that modifies the table holds RowExclusiveLock on both top indexes from *)
(* the start of its executor to its end, readers hold AccessShareLock to   *)
(* the end of their transaction, requests for a lock queue behind one that *)
(* waits for AccessExclusiveLock, an abort frees locks but not the         *)
(* spinlock, and a restart keeps what is in the indexes and nothing of     *)
(* shared memory (what a crash loses of the log is its end, so losing it   *)
(* is a crash at an earlier step).                                         *)
(***************************************************************************)
EXTENDS Naturals, FiniteSets

CONSTANTS
  Backends,      \* the server processes
  Free,          \* holder of a spinlock nobody holds
  TopIndexSize,  \* lsm3.top_index_size; an entry counts for one unit
  CheckPeriod,   \* LSM3_CHECK_TOP_INDEX_SIZE_PERIOD
  Faults,        \* which of "error", "launch", "cancel", "crash", "block" occur
  MaxInserts,    \* bound: inserts begun
  MaxMerges,     \* bound: n_merges up to which lsm3_start_merge is called
  MaxRestarts    \* bound: restarts of the server

ASSUME Lsm3Assumption ==
  /\ IsFiniteSet(Backends) /\ Free \notin Backends
  /\ CheckPeriod \in Nat \ {0} /\ TopIndexSize \in Nat
  /\ MaxInserts \in Nat /\ MaxMerges \in Nat /\ MaxRestarts \in Nat

VARIABLES
  active_index, access_count, n_merges, n_inserts,  \* Lsm3DictEntry
  start_merge, merge_in_progress,
  merger,      \* entry->merger # NULL
  spinlock,    \* the backend that holds entry->spinlock, or Free
  top,         \* [0..1 -> the entries of the top index]
  base,        \* the entries of the base index
  twice,       \* history: entries put into the base index a second time
  pc,          \* [Backends -> where it is in its statement]
  act,         \* [Backends -> local active_index of lsm3_insert]
  seen,        \* [Backends -> local n_merges of lsm3_insert]
  overflow,    \* [Backends -> local overflow of lsm3_insert]
  ent,         \* [Backends -> the entry it inserts]
  locks,       \* [Backends -> top indexes its statement holds a lock on]
  released,    \* [Backends -> Lsm3ReleasedLocks]
  share,       \* [Backends -> its transaction has read the table]
  mpc,         \* where the merger is
  merge_index, \* local of lsm3_merger_main
  todo,        \* what its scan of the top index has not copied yet
  latch,       \* its latch
  cancel,      \* Lsm3Cancel
  issued,      \* inserts begun
  inserted,    \* history: entries whose btinsert has returned
  restarts     \* restarts so far

counters == <<access_count, n_merges, n_inserts>>
requests == <<start_merge, merge_in_progress, merger, spinlock>>
indexes  == <<top, base, twice>>
local    == <<act, seen, overflow, ent>>
worker   == <<mpc, merge_index, todo, latch, cancel>>
held     == <<locks, released, share>>
ghosts   == <<issued, inserted, restarts>>
vars == <<active_index, counters, requests, indexes, pc, local, held, worker,
          ghosts>>

Top     == 0 .. 1
Entries == 1 .. MaxInserts
Other   == 1 - active_index

SwappedOn == active_index + 1   \* mutant: counts on

\* The index that inserts turn to at a swap (active_index ^= 1).
Swapped == 1 - active_index

\* A lock request on top index i waits behind the merger's.
Awaited(i) == mpc \in {"truncate", "commit"} /\ merge_index = i

Init ==
  /\ active_index = 0 /\ access_count = [i \in Top |-> 0]
  /\ n_merges = 0 /\ n_inserts = 0
  /\ start_merge = FALSE /\ merge_in_progress = FALSE
  /\ merger = FALSE /\ spinlock = Free
  /\ pc = [b \in Backends |-> "idle"]
  /\ act = [b \in Backends |-> 0] /\ seen = [b \in Backends |-> 0]
  /\ overflow = [b \in Backends |-> FALSE] /\ ent = [b \in Backends |-> 0]
  /\ locks = [b \in Backends |-> {}] /\ released = [b \in Backends |-> {}]
  /\ share = [b \in Backends |-> FALSE]
  /\ mpc = "off" /\ merge_index = 0 /\ todo = {}
  /\ latch = FALSE /\ cancel = FALSE
  /\ top = [i \in Top |-> {}] /\ base = {} /\ twice = {}
  /\ issued = 0 /\ inserted = {} /\ restarts = 0
-----------------------------------------------------------------------------
(* The merger is asked to work *)

\* Set start_merge and wake the merger, with the spinlock held; without a
\* merger, keep the spinlock and launch one.  SetLatch on a worker that is
\* gone reaches nobody.
AskMerger(b, resume) ==
  /\ start_merge' = TRUE
  /\ IF merger
     THEN /\ latch' = (mpc # "off")
          /\ pc' = [pc EXCEPT ![b] = resume]
          /\ UNCHANGED spinlock
     ELSE /\ spinlock' = b
          /\ pc' = [pc EXCEPT ![b] = "launch"]
          /\ UNCHANGED latch

AskNobody(b, resume) ==
  /\ pc' = [pc EXCEPT ![b] = resume]
  /\ UNCHANGED <<start_merge, latch, spinlock>>

\* lsm3_launch_bgworker: registers the worker and waits for it to start.
LaunchRegister(b) ==
  /\ pc[b] = "launch" /\ mpc = "off"
  /\ mpc' = "start" /\ latch' = FALSE /\ cancel' = FALSE
  /\ pc' = [pc EXCEPT ![b] = "launching"]
  /\ UNCHANGED <<active_index, counters, requests, indexes, local, held,
                 merge_index, todo, ghosts>>

\* The launch is part of a statement that inserts, or of lsm3_start_merge.
Resume(b) == IF locks[b] \cup released[b] = Top THEN "stmt" ELSE "idle"

StartedWork == mpc \in {"check", "copy"}   \* mutant: waits for it to work

Started == mpc \notin {"off", "start"}

\* The worker is in the process array: wake it and release the spinlock.
LaunchDone(b) ==
  /\ pc[b] = "launching" /\ Started
  /\ merger' = TRUE /\ latch' = TRUE /\ spinlock' = Free
  /\ pc' = [pc EXCEPT ![b] = Resume(b)]
  /\ UNCHANGED <<active_index, counters, start_merge, merge_in_progress,
                 indexes, local, held, mpc, merge_index, todo, cancel, ghosts>>

\* No worker could be registered or started: the error leaves the spinlock
\* as it is.
LaunchError(b) ==
  /\ "launch" \in Faults
  /\ pc[b] = "launch" \/ (pc[b] = "launching" /\ mpc = "off")
  /\ pc' = [pc EXCEPT ![b] = "idle"]
  /\ locks' = [locks EXCEPT ![b] = {}]
  /\ UNCHANGED <<active_index, counters, requests, indexes, local, released,
                 share, worker, ghosts>>
-----------------------------------------------------------------------------
(* Statements that insert *)

\* The executor opens all indexes of the table.
BeginStmt(b) ==
  /\ pc[b] = "idle" /\ issued < MaxInserts
  /\ \A i \in Top : ~Awaited(i)
  /\ pc' = [pc EXCEPT ![b] = "stmt"]
  /\ locks' = [locks EXCEPT ![b] = Top]
  /\ UNCHANGED <<active_index, counters, requests, indexes, local, released,
                 share, worker, ghosts>>

\* lsm3_insert, first block under the spinlock.
Ticket(b) ==
  /\ pc[b] = "stmt" /\ spinlock = Free /\ issued < MaxInserts
  /\ act' = [act EXCEPT ![b] = active_index]
  /\ access_count' = [access_count EXCEPT ![active_index] = @ + 1]
  /\ seen' = [seen EXCEPT ![b] = n_merges]
  /\ ent' = [ent EXCEPT ![b] = issued + 1]
  /\ issued' = issued + 1
  /\ pc' = [pc EXCEPT ![b] = "insert"]
  /\ UNCHANGED <<active_index, n_merges, n_inserts, requests, indexes,
                 overflow, held, worker, inserted, restarts>>

\* btinsert, under RowExclusiveLock on the top index.
BtInsert(b) ==
  /\ pc[b] = "insert"
  /\ act[b] \in locks[b] \/ ~Awaited(act[b])
  /\ top' = [top EXCEPT ![act[b]] = @ \cup {ent[b]}]
  /\ inserted' = inserted \cup {ent[b]}
  /\ pc' = [pc EXCEPT ![b] = "check"]
  /\ UNCHANGED <<active_index, counters, requests, base, twice, local, held,
                 worker, issued, restarts>>

\* The test for overflow, outside of the spinlock.
CheckOverflow(b) ==
  /\ pc[b] = "check"
  /\ overflow' = [overflow EXCEPT ![b] =
       /\ ~merge_in_progress
       /\ n_inserts % CheckPeriod = 0
       /\ Cardinality(top[act[b]]) > TopIndexSize]
  /\ pc' = [pc EXCEPT ![b] = "finish"]
  /\ UNCHANGED <<active_index, counters, requests, indexes, act, seen, ent,
                 held, worker, ghosts>>

SwapBlindly(b) == overflow[b]   \* mutant: somebody else may have swapped

\* Whether a backend that saw an overflow is the one to swap.
Swaps(b) == overflow[b] /\ ~merge_in_progress /\ n_merges = seen[b]

StartEarly(b, active) == active # act[b]   \* mutant: others still insert
StartNever(b, active) ==                   \* mutant: its own is not counted
  active # act[b] /\ access_count[act[b]] = 0

\* Whether this was the last insert into an index that is not active.
LastInsert(b, active) == active # act[b] /\ access_count[act[b]] = 1

RecordedHeld(b) == act[b]   \* mutant: the wrong one of the two

\* The index of which a lock is given up is the one to take again.
Recorded(b) == 1 - act[b]

\* lsm3_insert, second block under the spinlock.
Finish(b) ==
  /\ pc[b] = "finish" /\ spinlock = Free
  /\ IF Swaps(b)
     THEN /\ merge_in_progress' = TRUE
          /\ active_index' = Swapped
          /\ n_merges' = n_merges + 1
     ELSE UNCHANGED <<merge_in_progress, active_index, n_merges>>
  /\ access_count' = [access_count EXCEPT ![act[b]] = @ - 1]
  /\ n_inserts' = n_inserts + 1
  /\ IF merge_in_progress' /\ 1 - act[b] \in locks[b]
     THEN /\ locks' = [locks EXCEPT ![b] = @ \ {1 - act[b]}]
          /\ released' = [released EXCEPT ![b] = @ \cup {Recorded(b)}]
     ELSE UNCHANGED <<locks, released>>
  /\ IF merge_in_progress' /\ LastInsert(b, active_index')
     THEN AskMerger(b, "stmt")
     ELSE AskNobody(b, "stmt")
  /\ UNCHANGED <<merger, indexes, local, share, mpc, merge_index, todo,
                 cancel, ghosts>>

RelocksAll(b) == Top   \* mutant: whatever it released

Relocks(b) == released[b]

\* lsm3_executor_finish takes the released locks again, then the executor
\* closes the indexes.
EndStmt(b) ==
  /\ pc[b] = "stmt"
  /\ \A i \in Relocks(b) : ~Awaited(i)
  /\ locks' = [locks EXCEPT ![b] = {}]
  /\ released' = [released EXCEPT ![b] = {}]
  /\ pc' = [pc EXCEPT ![b] = "idle"]
  /\ UNCHANGED <<active_index, counters, requests, indexes, local, share,
                 worker, ghosts>>

\* An error, in btinsert or elsewhere in the statement: the transaction is
\* aborted, but Lsm3ReleasedLocks and the count of inserts stay.
Abort(b) ==
  /\ "error" \in Faults
  /\ pc[b] \in {"insert", "stmt"}
  /\ locks' = [locks EXCEPT ![b] = {}]
  /\ pc' = [pc EXCEPT ![b] = "idle"]
  /\ UNCHANGED <<active_index, counters, requests, indexes, local, released,
                 share, worker, ghosts>>
-----------------------------------------------------------------------------
(* The functions of the extension, and transactions that read *)

NeverQuiet(i) == FALSE   \* mutant: leaves the merge to the inserts

\* No insert into top index i is under way.
Quiet(i) == access_count[i] = 0

\* lsm3_start_merge.
StartMerge(b) ==
  /\ pc[b] = "idle" /\ spinlock = Free /\ n_merges < MaxMerges
  /\ ~merge_in_progress
  /\ merge_in_progress' = TRUE
  /\ active_index' = Swapped
  /\ n_merges' = n_merges + 1
  /\ IF Quiet(active_index)
     THEN AskMerger(b, "idle")
     ELSE AskNobody(b, "idle")
  /\ UNCHANGED <<access_count, n_inserts, merger, indexes, local, held, mpc,
                 merge_index, todo, cancel, ghosts>>

\* lsm3_wait_merge_completion polls merge_in_progress.
WaitBegin(b) ==
  /\ pc[b] = "idle" /\ merge_in_progress
  /\ pc' = [pc EXCEPT ![b] = "waiting"]
  /\ UNCHANGED <<active_index, counters, requests, indexes, local, held,
                 worker, ghosts>>

WaitReturn(b) ==
  /\ pc[b] = "waiting" /\ ~merge_in_progress
  /\ pc' = [pc EXCEPT ![b] = "idle"]
  /\ UNCHANGED <<active_index, counters, requests, indexes, local, held,
                 worker, ghosts>>

\* A query in a transaction block: lsm3_beginscan and the planner take
\* AccessShareLock on the top indexes.
Read(b) ==
  /\ "block" \in Faults
  /\ pc[b] = "idle" /\ ~share[b]
  /\ \A i \in Top : ~Awaited(i)
  /\ share' = [share EXCEPT ![b] = TRUE]
  /\ UNCHANGED <<active_index, counters, requests, indexes, pc, local, locks,
                 released, worker, ghosts>>

EndTransaction(b) ==
  /\ pc[b] = "idle" /\ share[b]
  /\ share' = [share EXCEPT ![b] = FALSE]
  /\ UNCHANGED <<active_index, counters, requests, indexes, pc, local, locks,
                 released, worker, ghosts>>
-----------------------------------------------------------------------------
(* The merger *)

\* The head of the loop of lsm3_merger_main.
LoopHead == IF cancel THEN "exit" ELSE "wait"

MergerStart ==
  /\ mpc = "start"
  /\ mpc' = LoopHead
  /\ UNCHANGED <<active_index, counters, requests, indexes, pc, local, held,
                 merge_index, todo, latch, cancel, ghosts>>

\* WaitLatch, and ResetLatch unless it is to end.
MergerWake ==
  /\ mpc = "wait" /\ latch
  /\ IF cancel THEN mpc' = "exit" /\ UNCHANGED latch
               ELSE mpc' = "check" /\ latch' = FALSE
  /\ UNCHANGED <<active_index, counters, requests, indexes, pc, local, held,
                 merge_index, todo, cancel, ghosts>>

ActiveMerged == active_index   \* mutant: not swapped yet

ToMerge == 1 - active_index

\* Is a merge requested?  (Under the spinlock.)
MergerCheck ==
  /\ mpc = "check" /\ spinlock = Free
  /\ IF start_merge
     THEN /\ merge_index' = ToMerge /\ todo' = top[ToMerge]
          /\ start_merge' = FALSE
          /\ mpc' = "copy"
     ELSE /\ mpc' = LoopHead
          /\ UNCHANGED <<merge_index, todo, start_merge>>
  /\ UNCHANGED <<active_index, counters, merge_in_progress, merger, spinlock,
                 indexes, pc, local, held, latch, cancel, ghosts>>

\* lsm3_merge_indexes, one entry.
MergerCopy(e) ==
  /\ mpc = "copy" /\ e \in todo
  /\ base' = base \cup {e}
  /\ twice' = IF e \in base THEN twice \cup {e} ELSE twice
  /\ todo' = todo \ {e}
  /\ UNCHANGED <<active_index, counters, requests, top, pc, local, held, mpc,
                 merge_index, latch, cancel, ghosts>>

MergerCopied ==
  /\ mpc = "copy" /\ todo = {}
  /\ mpc' = "truncate"
  /\ UNCHANGED <<active_index, counters, requests, indexes, pc, local, held,
                 merge_index, todo, latch, cancel, ghosts>>

NotTruncated == top   \* mutant: left as it is

Truncated == [top EXCEPT ![merge_index] = {}]

\* lsm3_truncate_index, under AccessExclusiveLock.
MergerTruncate ==
  /\ mpc = "truncate"
  /\ \A b \in Backends : merge_index \notin locks[b] /\ ~share[b]
  /\ top' = Truncated
  /\ mpc' = "commit"
  /\ UNCHANGED <<active_index, counters, requests, base, twice, pc, local,
                 held, merge_index, todo, latch, cancel, ghosts>>

MergerCommit ==
  /\ mpc = "commit"
  /\ mpc' = "done"
  /\ UNCHANGED <<active_index, counters, requests, indexes, pc, local, held,
                 merge_index, todo, latch, cancel, ghosts>>

\* The merge is marked as completed, under the spinlock.
MergerDone ==
  /\ mpc = "done" /\ spinlock = Free
  /\ merge_in_progress' = FALSE
  /\ mpc' = LoopHead
  /\ UNCHANGED <<active_index, counters, start_merge, merger, spinlock,
                 indexes, pc, local, held, merge_index, todo, latch, cancel,
                 ghosts>>

\* After the loop: entry->merger = NULL, under no lock.
MergerExit ==
  /\ mpc = "exit"
  /\ merger' = FALSE
  /\ mpc' = "off"
  /\ UNCHANGED <<active_index, counters, start_merge, merge_in_progress,
                 spinlock, indexes, pc, local, held, merge_index, todo, latch,
                 cancel, ghosts>>

\* lsm3_merge_cancel, the handler of SIGINT, SIGQUIT and SIGTERM.
Cancel ==
  /\ "cancel" \in Faults
  /\ mpc \notin {"off", "exit"} /\ ~cancel
  /\ cancel' = TRUE /\ latch' = TRUE
  /\ UNCHANGED <<active_index, counters, requests, indexes, pc, local, held,
                 mpc, merge_index, todo, ghosts>>

\* An error in the transaction of a merge, up to its commit, ends the worker,
\* which is never restarted; entry->merger still points to it.  Neither what
\* was copied nor a truncation is undone.
MergerError ==
  /\ "error" \in Faults
  /\ mpc \in {"copy", "truncate", "commit"}
  /\ mpc' = "off" /\ todo' = {}
  /\ UNCHANGED <<active_index, counters, requests, indexes, pc, local, held,
                 merge_index, latch, cancel, ghosts>>

\* lsm3_get_entry takes the top index with more blocks.  One with entries has
\* more than one without; of two alike either may.
Larger == {i \in Top : top[i] # {} \/ top[1 - i] = {}}

\* The server is restarted, and the entry made anew.
Restart ==
  /\ "crash" \in Faults /\ restarts < MaxRestarts
  /\ restarts' = restarts + 1
  /\ active_index' \in Larger
  /\ access_count' = [i \in Top |-> 0]
  /\ n_merges' = 0 /\ n_inserts' = 0
  /\ start_merge' = FALSE /\ merge_in_progress' = FALSE
  /\ merger' = FALSE /\ spinlock' = Free
  /\ pc' = [b \in Backends |-> "idle"]
  /\ act' = [b \in Backends |-> 0] /\ seen' = [b \in Backends |-> 0]
  /\ overflow' = [b \in Backends |-> FALSE] /\ ent' = [b \in Backends |-> 0]
  /\ locks' = [b \in Backends |-> {}] /\ released' = [b \in Backends |-> {}]
  /\ share' = [b \in Backends |-> FALSE]
  /\ mpc' = "off" /\ merge_index' = 0 /\ todo' = {}
  /\ latch' = FALSE /\ cancel' = FALSE
  /\ UNCHANGED <<indexes, issued, inserted>>
-----------------------------------------------------------------------------
InsertSteps(b) == BtInsert(b) \/ CheckOverflow(b) \/ Finish(b)
LaunchSteps(b) == LaunchRegister(b) \/ LaunchDone(b)

MergerNext ==
  \/ MergerStart \/ MergerWake \/ MergerCheck
  \/ \E e \in Entries : MergerCopy(e)
  \/ MergerCopied \/ MergerTruncate \/ MergerCommit \/ MergerDone
  \/ MergerExit

Next ==
  \/ \E b \in Backends :
       \/ BeginStmt(b) \/ Ticket(b) \/ InsertSteps(b) \/ EndStmt(b)
       \/ Abort(b) \/ LaunchSteps(b) \/ LaunchError(b)
       \/ StartMerge(b) \/ WaitBegin(b) \/ WaitReturn(b)
       \/ Read(b) \/ EndTransaction(b)
  \/ MergerNext \/ Cancel \/ MergerError
  \/ Restart

Spec == Init /\ [][Next]_vars

\* Statements, transactions and the merger run on; nobody has to begin one.
Fairness ==
  /\ \A b \in Backends :
       /\ WF_vars(InsertSteps(b)) /\ WF_vars(EndStmt(b))
       /\ WF_vars(LaunchSteps(b)) /\ WF_vars(WaitReturn(b))
       /\ WF_vars(EndTransaction(b))
  /\ WF_vars(MergerNext)

FairSpec == Spec /\ Fairness
-----------------------------------------------------------------------------
(* Properties *)

TypeOK ==
  /\ active_index \in Top
  /\ access_count \in [Top -> Nat] /\ n_merges \in Nat /\ n_inserts \in Nat
  /\ start_merge \in BOOLEAN /\ merge_in_progress \in BOOLEAN
  /\ merger \in BOOLEAN /\ spinlock \in Backends \cup {Free}
  /\ top \in [Top -> SUBSET Entries] /\ base \subseteq Entries
  /\ twice \subseteq Entries
  /\ pc \in [Backends -> {"idle", "stmt", "insert", "check", "finish",
                          "launch", "launching", "waiting"}]
  /\ act \in [Backends -> Top] /\ seen \in [Backends -> Nat]
  /\ overflow \in [Backends -> BOOLEAN] /\ ent \in [Backends -> Nat]
  /\ locks \in [Backends -> SUBSET Top]
  /\ released \in [Backends -> SUBSET Top]
  /\ share \in [Backends -> BOOLEAN]
  /\ mpc \in {"off", "start", "wait", "check", "copy", "truncate", "commit",
              "done", "exit"}
  /\ merge_index \in Top /\ todo \subseteq Entries
  /\ latch \in BOOLEAN /\ cancel \in BOOLEAN
  /\ issued \in 0 .. MaxInserts /\ inserted \subseteq Entries
  /\ restarts \in Nat

Content     == top[0] \cup top[1] \cup base
Inserting   == {"insert", "check", "finish"}
InFlight(i) == {b \in Backends : pc[b] \in Inserting /\ act[b] = i}
Merging     == mpc \in {"copy", "truncate", "commit"}

\* No entry whose btinsert returned is ever in none of the three indexes:
\* what the merger truncates it has copied, and nobody inserts behind it.
NoEntryLost == inserted \subseteq Content

\* While the merger copies or truncates a top index, no backend inserts into
\* it, or has read active_index and is about to (the count of lsm3.c:445).
MergeAlone == Merging => merge_index = Other /\ InFlight(merge_index) = {}

\* The two assertions of lsm3_insert (lsm3.c:472 and 477): a backend about to
\* swap still works on the active index, and its insert is counted.
AssertionsHold == \A b \in Backends : pc[b] = "finish" =>
  /\ Swaps(b) => active_index = act[b]
  /\ access_count[act[b]] > 0

\* A merge that is in progress is asked for, at work, or waits for an insert
\* under way that will ask for it (lsm3.c:493).
MergeRemembered == merge_in_progress =>
  \/ InFlight(Other) # {}
  \/ start_merge \/ mpc \in {"copy", "truncate", "commit", "done"}

\* A restart aside, a merge never puts an entry into the base index that is
\* there already, and an index is empty when inserts turn to it.
CopiedOnce == twice # {} => restarts > 0
SwapsToEmpty ==
  [][active_index' # active_index /\ restarts' = 0
       => top[active_index'] = {}]_vars

\* lsm3_executor_finish takes again only locks the statement has released.
ReclaimsReleased == \A b \in Backends : locks[b] \cap released[b] = {}

\* A merge in progress ends, and lsm3_wait_merge_completion returns.
MergeCompletes == merge_in_progress ~> ~merge_in_progress
WaitReturns == \A b \in Backends : pc[b] = "waiting" ~> pc[b] # "waiting"

\* A statement ends: it gets back the locks it gave up for the merger.
StatementEnds == \A b \in Backends : pc[b] = "stmt" ~> pc[b] = "idle"

\* The spinlock held while a merger starts is released.
SpinlockFreed == spinlock # Free ~> spinlock = Free

Index == INSTANCE IndexSet WITH content <- Content, settled <- base

\* To its users the three indexes are one that loses nothing.
IsIndexSet == Index!Spec
=============================================================================
