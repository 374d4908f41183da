----------------------------- MODULE Lsm3Proofs -----------------------------
(***************************************************************************)
(* Proofs about Lsm3, for every number of backends and inserts and every   *)
(* set of faults.                                                          *)
(***************************************************************************)
EXTENDS Lsm3, FiniteSetTheorems, TLAPS

-----------------------------------------------------------------------------
(* The invariant *)

AtWork == Merging \/ mpc = "done"

\* An insert under way has its entry.
HasEntry == \A b \in Backends : pc[b] \in Inserting => ent[b] \in Entries

\* access_count counts at least the inserts under way (those that failed are
\* never taken off).
Counted == \A i \in Top : Cardinality(InFlight(i)) <= access_count[i]

\* A merge is asked for, or done, only when no insert is counted in the index
\* that is not active, and no insert is left there when it is over.
Asked ==
  /\ start_merge \/ AtWork => merge_in_progress
  /\ start_merge \/ AtWork \/ ~merge_in_progress => access_count[Other] = 0
Working ==
  AtWork => ~start_merge /\ merge_index = Other

\* A backend that has seen no swap since it began works on the active index.
Current == \A b \in Backends : pc[b] \in Inserting =>
  seen[b] <= n_merges /\ (seen[b] = n_merges => act[b] = active_index)

\* What the merger has read of the top index and not to do any more is in the
\* base index.
Copied ==
  /\ mpc = "copy" => todo \subseteq top[merge_index]
                     /\ top[merge_index] \subseteq base \cup todo
  /\ mpc = "truncate" => top[merge_index] \subseteq base

Typed == TypeOK /\ HasEntry
Alone == Counted /\ Asked /\ Working
IInv  == Typed /\ Alone /\ Current /\ Copied /\ NoEntryLost

\* Without a restart: where the entries are.
Unmerged ==
  /\ top[active_index] \cap (base \cup top[Other]) = {}
  /\ ~merge_in_progress => top[Other] = {}
  /\ merge_in_progress /\ (access_count[Other] > 0 \/ start_merge)
       => top[Other] \cap base = {}
  /\ mpc = "copy" => todo \cap base = {}
  /\ mpc \in {"commit", "done"} => top[merge_index] = {}

\* Entries are numbered as they are inserted.
Fresh ==
  /\ Content \subseteq 1 .. issued
  /\ \A b \in Backends : pc[b] \in Inserting => ent[b] \in 1 .. issued
  /\ \A b \in Backends : pc[b] = "insert" => ent[b] \notin Content
  /\ \A b, c \in Backends :
       b # c /\ pc[b] = "insert" /\ pc[c] \in Inserting => ent[b] # ent[c]

Once == Fresh /\ (restarts = 0 => Unmerged /\ twice = {})

\* A step that leaves alone all that the invariant speaks of, but for backends
\* that leave an insert and for a merger that is not at work after it; only an
\* error ends an insert or a merge so.
Light ==
  /\ UNCHANGED <<active_index, access_count, n_merges, start_merge,
                 merge_in_progress, top, base, twice, act, seen, ent,
                 merge_index, issued, inserted, restarts>>
  /\ \/ UNCHANGED <<mpc, todo>>
     \/ mpc' \in {"off", "start", "wait", "check", "exit"}
  /\ \A c \in Backends :
       /\ pc'[c] \in Inserting => pc[c] \in Inserting
       /\ pc'[c] = "insert" => pc[c] = "insert"
  /\ \/ "error" \in Faults
     \/ /\ AtWork => mpc' = mpc
        /\ \A c \in Backends : pc[c] \in Inserting => pc'[c] \in Inserting

BackendStep(b) ==
  \/ BeginStmt(b) \/ Ticket(b) \/ InsertSteps(b) \/ EndStmt(b)
  \/ Abort(b) \/ LaunchSteps(b) \/ LaunchError(b)
  \/ StartMerge(b) \/ WaitBegin(b) \/ WaitReturn(b)
  \/ Read(b) \/ EndTransaction(b)
-----------------------------------------------------------------------------
(* Types *)

\* The two top indexes.
LEMMA TopTypes ==
  /\ 0 \in Top /\ 1 \in Top
  /\ \A i \in Top : 1 - i \in Top /\ 1 - i # i /\ 1 - (1 - i) = i
                   /\ \A j \in Top : j = i \/ j = 1 - i
  BY DEF Top

\* The merger, faults and restarts keep the types.
LEMMA MergerTypes ==
  ASSUME Typed, MergerNext \/ Cancel \/ MergerError \/ Restart
  PROVE  Typed'
<1> USE DEF Typed, HasEntry, counters, requests, indexes, local, worker,
      held, ghosts
<1>1. CASE MergerStart
  BY <1>1 DEF MergerStart, LoopHead, TypeOK
<1>2. CASE MergerWake
  BY <1>2 DEF MergerWake, TypeOK
<1>3. CASE MergerCheck
  <2>1. ToMerge \in Top /\ top[ToMerge] \subseteq Entries
    BY TopTypes DEF TypeOK, ToMerge
  <2>2. merge_index' \in Top /\ todo' \subseteq Entries /\ start_merge' \in BOOLEAN
        /\ mpc' \in {"copy", "exit", "wait"}
    BY <1>3, <2>1 DEF MergerCheck, LoopHead, TypeOK
  <2> QED
    BY <1>3, <2>2 DEF MergerCheck, TypeOK
<1>4. CASE \E e \in Entries : MergerCopy(e)
  BY <1>4 DEF MergerCopy, TypeOK
<1>5. CASE MergerCopied
  BY <1>5 DEF MergerCopied, TypeOK
<1>6. CASE MergerTruncate
  BY <1>6 DEF MergerTruncate, Truncated, TypeOK
<1>7. CASE MergerCommit
  BY <1>7 DEF MergerCommit, TypeOK
<1>8. CASE MergerDone
  BY <1>8 DEF MergerDone, LoopHead, TypeOK
<1>9. CASE MergerExit
  BY <1>9 DEF MergerExit, TypeOK
<1>10. CASE Cancel
  BY <1>10 DEF Cancel, TypeOK
<1>11. CASE MergerError
  BY <1>11 DEF MergerError, TypeOK
<1>12. CASE Restart
  <2>1. active_index' \in Top /\ merge_index' \in Top /\ todo' \subseteq Entries
    BY <1>12, TopTypes DEF Restart, Larger
  <2>2. access_count' \in [Top -> Nat] /\ act' \in [Backends -> Top]
        /\ locks' \in [Backends -> SUBSET Top]
        /\ released' \in [Backends -> SUBSET Top]
    BY <1>12, TopTypes DEF Restart
  <2>3. restarts' \in Nat /\ n_merges' \in Nat /\ n_inserts' \in Nat
    BY <1>12 DEF Restart, TypeOK
  <2>4. /\ pc' \in [Backends -> {"idle"}] /\ seen' \in [Backends -> Nat]
        /\ overflow' \in [Backends -> BOOLEAN] /\ ent' \in [Backends -> Nat]
        /\ share' \in [Backends -> BOOLEAN]
    BY <1>12 DEF Restart
  <2>5. /\ start_merge' = FALSE /\ merge_in_progress' = FALSE /\ merger' = FALSE
        /\ spinlock' = Free /\ mpc' = "off" /\ latch' = FALSE /\ cancel' = FALSE
        /\ top' = top /\ base' = base /\ twice' = twice /\ issued' = issued
        /\ inserted' = inserted
    BY <1>12 DEF Restart
  <2> QED
    BY <2>1, <2>2, <2>3, <2>4, <2>5 DEF TypeOK, Inserting
<1> QED
  BY <1>1, <1>2, <1>3, <1>4, <1>5, <1>6, <1>7, <1>8, <1>9, <1>10, <1>11, <1>12
     DEF MergerNext

-----------------------------------------------------------------------------
(* Inserts under way *)

\* Each is counted.
LEMMA CountedInsert ==
  ASSUME Typed, Counted, NEW b \in Backends, pc[b] \in Inserting
  PROVE  access_count[act[b]] \in Nat \ {0}
<1>1. act[b] \in Top
  BY DEF Typed, TypeOK
<1>2. b \in InFlight(act[b]) /\ IsFiniteSet(InFlight(act[b]))
  BY FS_Subset, Lsm3Assumption DEF InFlight
<1>3. Cardinality(InFlight(act[b])) \in Nat \ {0}
  BY <1>2, FS_CardinalityType, FS_EmptySet
<1> QED
  BY <1>1, <1>3 DEF Counted, Typed, TypeOK

\* With none counted in an index, no insert into it is under way.
LEMMA NoneCounted ==
  ASSUME Typed, Counted, NEW i \in Top, access_count[i] = 0
  PROVE  InFlight(i) = {}
  BY CountedInsert DEF InFlight

\* The count stays right when it follows the inserts under way.
LEMMA CountsFollow ==
  ASSUME Typed, NEW S \in SUBSET Backends, NEW T \in SUBSET Backends,
         NEW n \in Nat, Cardinality(S) <= n
  PROVE  /\ T \subseteq S => Cardinality(T) <= n
         /\ \A b \in Backends : T \subseteq S \cup {b}
                               => Cardinality(T) <= n + 1
         /\ \A b \in S : T \subseteq S \ {b} => Cardinality(T) <= n - 1
<1>1. IsFiniteSet(S) /\ IsFiniteSet(T)
  BY FS_Subset, Lsm3Assumption
<1>2. Cardinality(S) \in Nat /\ Cardinality(T) \in Nat
  BY <1>1, FS_CardinalityType
<1>3. T \subseteq S => Cardinality(T) <= n
  <2> HAVE T \subseteq S
  <2>1. Cardinality(T) <= Cardinality(S)
    BY <1>1, FS_Subset
  <2> QED
    BY <2>1, <1>2
<1>4. ASSUME NEW b \in Backends, T \subseteq S \cup {b}
      PROVE  Cardinality(T) <= n + 1
  <2>1. /\ IsFiniteSet(S \cup {b})
        /\ Cardinality(S \cup {b}) = Cardinality(S)
           \/ Cardinality(S \cup {b}) = Cardinality(S) + 1
    BY <1>1, FS_AddElement
  <2>2. Cardinality(T) <= Cardinality(S \cup {b})
    BY <2>1, <1>4, FS_Subset
  <2> QED
    BY <2>1, <2>2, <1>2
<1>5. ASSUME NEW b \in S, T \subseteq S \ {b}
      PROVE  Cardinality(T) <= n - 1
  <2>1. /\ IsFiniteSet(S \ {b})
        /\ Cardinality(S \ {b}) = Cardinality(S) - 1
    BY <1>1, FS_RemoveElement
  <2>2. Cardinality(T) <= Cardinality(S \ {b})
    BY <2>1, <1>5, FS_Subset
  <2> QED
    BY <2>1, <2>2, <1>2
<1> QED
  BY <1>3, <1>4, <1>5

\* What the end of an insert does.
LEMMA FinishEffect ==
  ASSUME Typed, Counted, NEW b \in Backends, Finish(b)
  PROVE  /\ pc[b] \in Inserting /\ act[b] \in Top
         /\ access_count[act[b]] \in Nat \ {0}
         /\ access_count' = [access_count EXCEPT ![act[b]] = @ - 1]
         /\ access_count' \in [Top -> Nat]
         /\ pc'[b] \notin Inserting
         /\ \A c \in Backends \ {b} : pc'[c] = pc[c]
         /\ \/ /\ Swaps(b) /\ merge_in_progress'
               /\ active_index' = 1 - active_index /\ n_merges' = n_merges + 1
            \/ UNCHANGED <<merge_in_progress, active_index, n_merges>>
         /\ IF merge_in_progress' /\ LastInsert(b, active_index')
            THEN start_merge' = TRUE ELSE start_merge' = start_merge
         /\ UNCHANGED <<top, base, twice, act, seen, ent, mpc, merge_index,
                        todo, issued, inserted, restarts>>
<1>1. pc[b] \in Inserting /\ act[b] \in Top
  BY DEF Finish, Inserting, Typed, TypeOK
<1>2. access_count[act[b]] \in Nat \ {0}
  BY <1>1, CountedInsert
<1>3. access_count' = [access_count EXCEPT ![act[b]] = @ - 1]
  BY DEF Finish
<1>4. access_count' \in [Top -> Nat]
  BY <1>1, <1>2, <1>3 DEF Typed, TypeOK
<1>5. IF merge_in_progress' /\ LastInsert(b, active_index')
      THEN start_merge' = TRUE ELSE start_merge' = start_merge
  BY DEF Finish, AskMerger, AskNobody
<1>6. pc'[b] \notin Inserting /\ \A c \in Backends \ {b} : pc'[c] = pc[c]
  BY DEF Finish, AskMerger, AskNobody, Typed, TypeOK, Inserting
<1>7. \/ /\ Swaps(b) /\ merge_in_progress'
         /\ active_index' = 1 - active_index /\ n_merges' = n_merges + 1
      \/ UNCHANGED <<merge_in_progress, active_index, n_merges>>
  BY DEF Finish, Swapped
<1>8. UNCHANGED <<top, base, twice, act, seen, ent, mpc, merge_index,
                  todo, issued, inserted, restarts>>
  BY DEF Finish, indexes, local, ghosts
<1> QED
  BY <1>1, <1>2, <1>3, <1>4, <1>5, <1>6, <1>7, <1>8

\* What a swap asked for by lsm3_start_merge does.
LEMMA StartMergeEffect ==
  ASSUME Typed, NEW b \in Backends, StartMerge(b)
  PROVE  /\ ~merge_in_progress /\ merge_in_progress'
         /\ active_index' = 1 - active_index /\ n_merges' = n_merges + 1
         /\ IF access_count[active_index] = 0
            THEN start_merge' = TRUE ELSE start_merge' = start_merge
         /\ pc'[b] \notin Inserting
         /\ \A c \in Backends \ {b} : pc'[c] = pc[c]
         /\ UNCHANGED <<access_count, top, base, twice, act, seen, ent, mpc,
                        merge_index, todo, issued, inserted, restarts>>
<1>1. IF access_count[active_index] = 0
      THEN start_merge' = TRUE ELSE start_merge' = start_merge
  BY DEF StartMerge, AskMerger, AskNobody, Quiet
<1>2. pc'[b] \notin Inserting /\ \A c \in Backends \ {b} : pc'[c] = pc[c]
  BY DEF StartMerge, AskMerger, AskNobody, Typed, TypeOK, Inserting
<1> QED
  BY <1>1, <1>2 DEF StartMerge, Swapped, indexes, local, ghosts

\* A backend keeps the types.
LEMMA BackendTypes ==
  ASSUME Typed, Counted, NEW b \in Backends, BackendStep(b)
  PROVE  Typed'
<1> USE DEF Typed, HasEntry, counters, requests, indexes, local, worker, held,
      ghosts
<1>1. CASE BeginStmt(b)
  BY <1>1, TopTypes DEF BeginStmt, TypeOK, Inserting
<1>2. CASE Ticket(b)
  <2>1. issued + 1 \in Entries /\ issued + 1 \in Nat
        /\ issued + 1 \in 0 .. MaxInserts
    BY <1>2, Lsm3Assumption DEF Ticket, TypeOK, Entries
  <2>2. access_count' \in [Top -> Nat] /\ act' \in [Backends -> Top]
        /\ seen' \in [Backends -> Nat] /\ ent' \in [Backends -> Nat]
    BY <1>2, <2>1 DEF Ticket, TypeOK
  <2>3. HasEntry'
    BY <1>2, <2>1 DEF Ticket, TypeOK
  <2> QED
    BY <1>2, <2>1, <2>2, <2>3 DEF Ticket, TypeOK
<1>3. CASE BtInsert(b)
  BY <1>3 DEF BtInsert, TypeOK, Inserting
<1>4. CASE CheckOverflow(b)
  BY <1>4 DEF CheckOverflow, TypeOK, Inserting
<1>5. CASE Finish(b)
  <2>1. access_count' \in [Top -> Nat] /\ ent' = ent
        /\ \A c \in Backends : pc'[c] \in Inserting => pc[c] \in Inserting
    <3>1. Typed
      OBVIOUS
    <3>2. /\ access_count' \in [Top -> Nat] /\ UNCHANGED <<ent, mpc>>
          /\ pc'[b] \notin Inserting
          /\ \A c \in Backends \ {b} : pc'[c] = pc[c]
      BY <1>5, <3>1, FinishEffect
    <3> QED
      BY <3>2
  <2>2. active_index' \in Top /\ n_merges' \in Nat /\ n_inserts' \in Nat
        /\ merge_in_progress' \in BOOLEAN
    <3>1. CASE Swaps(b)
      <4>1. merge_in_progress' = TRUE /\ active_index' = 1 - active_index
            /\ n_merges' = n_merges + 1 /\ n_inserts' = n_inserts + 1
        BY <1>5, <3>1 DEF Finish, Swapped
      <4> QED
        BY <4>1, TopTypes DEF TypeOK
    <3>2. CASE ~Swaps(b)
      <4>1. n_inserts' = n_inserts + 1
            /\ UNCHANGED <<merge_in_progress, active_index, n_merges>>
        BY <1>5, <3>2 DEF Finish
      <4> QED
        BY <4>1 DEF TypeOK
    <3> QED
      BY <3>1, <3>2
  <2>3. locks' \in [Backends -> SUBSET Top]
        /\ released' \in [Backends -> SUBSET Top]
    <3>1. Recorded(b) \in Top
      BY TopTypes DEF Recorded, TypeOK
    <3> QED
      BY <1>5, <3>1 DEF Finish, TypeOK
  <2>4. /\ start_merge' \in BOOLEAN /\ latch' \in BOOLEAN
        /\ spinlock' \in Backends \cup {Free}
        /\ pc' \in [Backends -> {"idle", "stmt", "insert", "check", "finish",
                                 "launch", "launching", "waiting"}]
    BY <1>5 DEF Finish, AskMerger, AskNobody, TypeOK
  <2>5. UNCHANGED <<merger, indexes, local, share, mpc, merge_index, todo,
                    cancel, ghosts>>
    BY <1>5 DEF Finish
  <2> QED
    BY <2>1, <2>2, <2>3, <2>4, <2>5 DEF TypeOK
<1>6. CASE EndStmt(b)
  BY <1>6 DEF EndStmt, TypeOK, Inserting
<1>7. CASE Abort(b)
  BY <1>7 DEF Abort, TypeOK, Inserting
<1>8. CASE LaunchRegister(b)
  BY <1>8 DEF LaunchRegister, TypeOK, Inserting
<1>9. CASE LaunchDone(b)
  BY <1>9 DEF LaunchDone, Resume, TypeOK, Inserting
<1>10. CASE LaunchError(b)
  BY <1>10 DEF LaunchError, TypeOK, Inserting
<1>11. CASE StartMerge(b)
  <2>1. ent' = ent
        /\ \A c \in Backends : pc'[c] \in Inserting => pc[c] \in Inserting
    BY <1>11, StartMergeEffect
  <2>2. active_index' \in Top /\ n_merges' \in Nat /\ merge_in_progress' \in BOOLEAN
    BY <1>11, TopTypes DEF StartMerge, Swapped, TypeOK
  <2>3. /\ start_merge' \in BOOLEAN /\ latch' \in BOOLEAN
        /\ spinlock' \in Backends \cup {Free}
        /\ pc' \in [Backends -> {"idle", "stmt", "insert", "check", "finish",
                                 "launch", "launching", "waiting"}]
    BY <1>11 DEF StartMerge, AskMerger, AskNobody, TypeOK
  <2>4. UNCHANGED <<access_count, n_inserts, merger, indexes, local, held, mpc,
                    merge_index, todo, cancel, ghosts>>
    BY <1>11 DEF StartMerge
  <2> QED
    BY <2>1, <2>2, <2>3, <2>4 DEF TypeOK
<1>12. CASE WaitBegin(b) \/ WaitReturn(b)
  BY <1>12 DEF WaitBegin, WaitReturn, TypeOK, Inserting
<1>13. CASE Read(b) \/ EndTransaction(b)
  BY <1>13 DEF Read, EndTransaction, TypeOK
<1> QED
  BY <1>1, <1>2, <1>3, <1>4, <1>5, <1>6, <1>7, <1>8, <1>9, <1>10, <1>11,
     <1>12, <1>13 DEF BackendStep, InsertSteps, LaunchSteps
-----------------------------------------------------------------------------
(* The invariant is kept *)

\* Any other step is light.
LEMMA NextCases ==
  ASSUME Typed, [Next]_vars
  PROVE  \/ Light
         \/ \E b \in Backends :
              Ticket(b) \/ BtInsert(b) \/ Finish(b) \/ StartMerge(b)
         \/ MergerCheck \/ \E e \in Entries : MergerCopy(e)
         \/ MergerCopied \/ MergerTruncate \/ MergerCommit \/ MergerDone
         \/ Restart
<1> USE DEF Light, AtWork, Merging, counters, requests, indexes, local, worker,
      held, ghosts
<1>1. ASSUME NEW b \in Backends,
             \/ BeginStmt(b) \/ CheckOverflow(b) \/ EndStmt(b) \/ Abort(b)
             \/ LaunchSteps(b) \/ LaunchError(b)
             \/ WaitBegin(b) \/ WaitReturn(b) \/ Read(b) \/ EndTransaction(b)
      PROVE  Light
  <2>1. CASE BeginStmt(b) \/ EndStmt(b) \/ Abort(b)
    BY <2>1 DEF BeginStmt, EndStmt, Abort, Typed, TypeOK, Inserting
  <2>2. CASE CheckOverflow(b)
    BY <2>2 DEF CheckOverflow, Typed, TypeOK, Inserting
  <2>3. CASE LaunchRegister(b) \/ LaunchError(b)
    BY <2>3 DEF LaunchRegister, LaunchError, Typed, TypeOK, Inserting
  <2>4. CASE LaunchDone(b)
    BY <2>4 DEF LaunchDone, Resume, Typed, TypeOK, Inserting
  <2>5. CASE WaitBegin(b) \/ WaitReturn(b)
    BY <2>5 DEF WaitBegin, WaitReturn, Typed, TypeOK, Inserting
  <2>6. CASE Read(b) \/ EndTransaction(b)
    BY <2>6 DEF Read, EndTransaction
  <2> QED
    BY <1>1, <2>1, <2>2, <2>3, <2>4, <2>5, <2>6 DEF LaunchSteps
<1>2. CASE MergerStart \/ MergerWake \/ MergerExit \/ Cancel \/ MergerError
  <2>1. CASE MergerStart \/ MergerExit
    BY <2>1 DEF MergerStart, MergerExit, LoopHead
  <2>2. CASE MergerWake
    BY <2>2 DEF MergerWake
  <2>3. CASE Cancel \/ MergerError
    BY <2>3 DEF Cancel, MergerError
  <2> QED
    BY <1>2, <2>1, <2>2, <2>3
<1>3. CASE UNCHANGED vars
  BY <1>3 DEF vars
<1> QED
  BY <1>1, <1>2, <1>3 DEF Next, MergerNext, InsertSteps

\* The types are kept.
LEMMA TypedStep ==
  ASSUME Typed, Counted, [Next]_vars
  PROVE  Typed'
<1>1. CASE \E b \in Backends : BackendStep(b)
  BY <1>1, BackendTypes
<1>2. CASE MergerNext \/ Cancel \/ MergerError \/ Restart
  BY <1>2, MergerTypes
<1>3. CASE UNCHANGED vars
  BY <1>3 DEF vars, Typed, TypeOK, HasEntry, counters, requests, indexes, local,
     worker, held, ghosts
<1> QED
  BY <1>1, <1>2, <1>3 DEF Next, BackendStep

\* The inserts under way stay counted.
LEMMA CountedStep ==
  ASSUME Typed, Counted, [Next]_vars
  PROVE  Counted'
<1>0. \A i \in Top : access_count[i] \in Nat /\ InFlight(i) \in SUBSET Backends
                     /\ InFlight(i)' \in SUBSET Backends
                     /\ Cardinality(InFlight(i)) <= access_count[i]
  BY DEF Counted, InFlight, Typed, TypeOK
<1>1. ASSUME access_count' = access_count,
             \A i \in Top : InFlight(i)' \subseteq InFlight(i)
      PROVE  Counted'
  BY <1>0, <1>1, CountsFollow DEF Counted
<1>2. CASE Light
  BY <1>1, <1>2 DEF Light, InFlight
<1>3. ASSUME NEW b \in Backends, Ticket(b)
      PROVE  Counted'
  <2>1. ASSUME NEW i \in Top
        PROVE  Cardinality(InFlight(i)') <= access_count'[i]
    <3>1. CASE i = active_index
      <4>1. access_count'[i] = access_count[i] + 1
        BY <1>3, <3>1 DEF Ticket, Typed, TypeOK
      <4>2. InFlight(i)' \subseteq InFlight(i) \cup {b}
        BY <1>3 DEF Ticket, InFlight, Typed, TypeOK
      <4> QED
        BY <1>0, <4>1, <4>2, CountsFollow
    <3>2. CASE i # active_index
      <4>1. access_count'[i] = access_count[i]
        BY <1>3, <3>2 DEF Ticket, Typed, TypeOK
      <4>2. InFlight(i)' \subseteq InFlight(i)
        BY <1>3, <3>2 DEF Ticket, InFlight, Typed, TypeOK
      <4> QED
        BY <1>0, <4>1, <4>2, CountsFollow
    <3> QED
      BY <3>1, <3>2
  <2> QED
    BY <2>1 DEF Counted
<1>4. ASSUME NEW b \in Backends, BtInsert(b)
      PROVE  Counted'
  BY <1>1, <1>4 DEF BtInsert, InFlight, Inserting, counters, local, Typed, TypeOK
<1>5. ASSUME NEW b \in Backends, Finish(b)
      PROVE  Counted'
  <2>1. /\ b \in InFlight(act[b]) /\ act' = act /\ pc'[b] \notin Inserting
        /\ access_count' = [access_count EXCEPT ![act[b]] = @ - 1]
        /\ \A c \in Backends \ {b} : pc'[c] = pc[c]
    BY <1>5, FinishEffect DEF InFlight
  <2>2. ASSUME NEW i \in Top
        PROVE  Cardinality(InFlight(i)') <= access_count'[i]
    <3>1. InFlight(i)' \subseteq InFlight(i) \ {b}
      BY <2>1 DEF InFlight
    <3>2. CASE i = act[b]
      <4>1. access_count'[i] = access_count[i] - 1 /\ b \in InFlight(i)
        BY <2>1, <3>2 DEF Typed, TypeOK
      <4> QED
        BY <1>0, <3>1, <4>1, CountsFollow
    <3>3. CASE i # act[b]
      <4>1. access_count'[i] = access_count[i]
        BY <2>1, <3>3 DEF Typed, TypeOK
      <4>2. InFlight(i)' \subseteq InFlight(i)
        BY <3>1
      <4> QED
        BY <1>0, <4>1, <4>2, CountsFollow
    <3> QED
      BY <3>2, <3>3
  <2> QED
    BY <2>2 DEF Counted
<1>6. ASSUME NEW b \in Backends, StartMerge(b)
      PROVE  Counted'
  <2>1. \A i \in Top : InFlight(i)' \subseteq InFlight(i)
    BY <1>6, StartMergeEffect DEF InFlight
  <2> QED
    BY <1>1, <1>6, <2>1, StartMergeEffect
<1>7. CASE MergerCheck \/ (\E e \in Entries : MergerCopy(e)) \/ MergerCopied
  BY <1>1, <1>7 DEF MergerCheck, MergerCopy, MergerCopied, InFlight, counters,
     local
<1>8. CASE MergerTruncate \/ MergerCommit \/ MergerDone
  BY <1>1, <1>8 DEF MergerTruncate, MergerCommit, MergerDone, InFlight,
     counters, local
<1>9. CASE Restart
  <2>1. \A i \in Top : InFlight(i)' = {} /\ access_count'[i] = 0
    BY <1>9 DEF Restart, InFlight, Inserting
  <2> QED
    BY <2>1, FS_EmptySet DEF Counted
<1> QED
  BY <1>2, <1>3, <1>4, <1>5, <1>6, <1>7, <1>8, <1>9, NextCases

\* A merge is asked for only when it may begin.
LEMMA AskedStep ==
  ASSUME Typed, Counted, Asked, Working, Current, [Next]_vars
  PROVE  Asked' /\ Working'
<1> USE DEF Asked, Working, AtWork, Merging
<1>0. /\ active_index \in Top /\ Other \in Top /\ Other # active_index
      /\ 1 - Other = active_index
      /\ access_count \in [Top -> Nat]
  BY TopTypes DEF Other, Typed, TypeOK
<1>1. CASE Light
  BY <1>1 DEF Light, Other
<1>2. ASSUME NEW b \in Backends, Ticket(b)
      PROVE  Asked' /\ Working'
  <2>1. access_count'[Other] = access_count[Other]
    BY <1>0, <1>2 DEF Ticket
  <2> QED
    BY <1>2, <2>1 DEF Ticket, Other, requests, worker
<1>3. ASSUME NEW b \in Backends, BtInsert(b)
      PROVE  Asked' /\ Working'
  BY <1>3 DEF BtInsert, Other, counters, requests, worker
<1>4. ASSUME NEW b \in Backends, Finish(b)
      PROVE  Asked' /\ Working'
  <2>0. /\ pc[b] \in Inserting /\ act[b] \in Top
        /\ access_count[act[b]] \in Nat \ {0}
        /\ access_count' = [access_count EXCEPT ![act[b]] = @ - 1]
        /\ IF merge_in_progress' /\ LastInsert(b, active_index')
           THEN start_merge' = TRUE ELSE start_merge' = start_merge
        /\ UNCHANGED <<mpc, merge_index>>
    BY <1>4, FinishEffect
  <2>1. CASE /\ Swaps(b) /\ merge_in_progress'
             /\ active_index' = 1 - active_index
    <3>1. /\ act[b] = active_index /\ ~merge_in_progress
          /\ ~start_merge /\ ~AtWork
      BY <2>0, <2>1 DEF Swaps, Current
    <3>2. Other' = active_index
      BY <1>0, <2>1, TopTypes DEF Other
    <3>3. start_merge' => access_count'[Other'] = 0
      <4> HAVE start_merge'
      <4>1. access_count[active_index] = 1
        BY <2>0, <3>1 DEF LastInsert
      <4>2. access_count'[active_index] = 0
        BY <1>0, <2>0, <3>1, <4>1
      <4> QED
        BY <3>2, <4>2
    <3> QED
      BY <2>0, <2>1, <3>1, <3>3
  <2>2. CASE UNCHANGED <<merge_in_progress, active_index, n_merges>>
    <3>1. Other' = Other
      BY <2>2 DEF Other
    <3>2. CASE access_count[Other] = 0
      <4>1. act[b] = active_index
        BY <1>0, <2>0, <3>2, TopTypes DEF Other
      <4>2. access_count'[Other] = access_count[Other]
        BY <1>0, <2>0, <4>1
      <4>3. start_merge' = start_merge
        BY <2>0, <2>2, <4>1 DEF LastInsert
      <4> QED
        BY <2>0, <2>2, <3>1, <4>2, <4>3
    <3>3. CASE access_count[Other] # 0
      <4>1. ~start_merge /\ ~AtWork /\ merge_in_progress /\ ~AtWork'
        BY <2>0, <3>3
      <4>2. start_merge' => access_count'[Other] = 0
        <5> HAVE start_merge'
        <5>1. act[b] = Other /\ access_count[act[b]] = 1
          BY <1>0, <2>0, <2>2, <4>1, TopTypes DEF LastInsert, Other
        <5> QED
          BY <1>0, <2>0, <5>1
      <4> QED
        BY <2>2, <3>1, <4>1, <4>2
    <3> QED
      BY <3>2, <3>3
  <2> QED
    BY <1>4, <2>1, <2>2, FinishEffect
<1>5. ASSUME NEW b \in Backends, StartMerge(b)
      PROVE  Asked' /\ Working'
  <2>1. /\ ~merge_in_progress /\ merge_in_progress'
        /\ active_index' = 1 - active_index
        /\ IF access_count[active_index] = 0
           THEN start_merge' = TRUE ELSE start_merge' = start_merge
        /\ UNCHANGED <<access_count, mpc, merge_index>>
    BY <1>5, StartMergeEffect
  <2>2. Other' = active_index
    BY <1>0, <2>1, TopTypes DEF Other
  <2> QED
    BY <2>1, <2>2
<1>6. CASE MergerCheck
  BY <1>6 DEF MergerCheck, ToMerge, LoopHead, Other, counters
<1>7. CASE \/ \E e \in Entries : MergerCopy(e)
           \/ MergerCopied \/ MergerTruncate \/ MergerCommit
  BY <1>7 DEF MergerCopy, MergerCopied, MergerTruncate, MergerCommit, Other,
     counters, requests
<1>8. CASE MergerDone
  BY <1>8 DEF MergerDone, LoopHead, Other, counters
<1>9. CASE Restart
  <2>1. Other' \in Top
    BY <1>9, TopTypes DEF Restart, Larger, Other
  <2> QED
    BY <1>9, <2>1 DEF Restart
<1> QED
  BY <1>1, <1>2, <1>3, <1>4, <1>5, <1>6, <1>7, <1>8, <1>9, NextCases

\* Backends that saw no swap work on the active index.
LEMMA CurrentStep ==
  ASSUME Typed, Counted, Current, [Next]_vars
  PROVE  Current'
<1> USE DEF Current
<1>0. n_merges \in Nat /\ seen \in [Backends -> Nat] /\ act \in [Backends -> Top]
  BY DEF Typed, TypeOK
<1>1. CASE Light
  BY <1>1 DEF Light
<1>2. ASSUME NEW b \in Backends, Ticket(b)
      PROVE  Current'
  BY <1>0, <1>2 DEF Ticket, Typed, TypeOK
<1>3. ASSUME NEW b \in Backends, BtInsert(b)
      PROVE  Current'
  BY <1>0, <1>3 DEF Typed, TypeOK, BtInsert, Inserting, counters, local
<1>4. ASSUME NEW b \in Backends, Finish(b)
      PROVE  Current'
  <2>1. /\ pc'[b] \notin Inserting /\ UNCHANGED <<act, seen>>
        /\ \A c \in Backends \ {b} : pc'[c] = pc[c]
        /\ n_merges' = n_merges + 1 \/ UNCHANGED <<active_index, n_merges>>
    BY <1>4, FinishEffect
  <2> QED
    BY <1>0, <2>1
<1>5. ASSUME NEW b \in Backends, StartMerge(b)
      PROVE  Current'
  <2>1. /\ pc'[b] \notin Inserting /\ UNCHANGED <<act, seen>>
        /\ \A c \in Backends \ {b} : pc'[c] = pc[c]
        /\ n_merges' = n_merges + 1
    BY <1>5, StartMergeEffect
  <2> QED
    BY <1>0, <2>1
<1>6. CASE \/ MergerCheck \/ \E e \in Entries : MergerCopy(e)
           \/ MergerCopied \/ MergerTruncate \/ MergerCommit \/ MergerDone
  BY <1>6 DEF MergerCheck, MergerCopy, MergerCopied, MergerTruncate,
     MergerCommit, MergerDone, counters, local
<1>7. CASE Restart
  BY <1>7 DEF Restart, Inserting
<1> QED
  BY <1>1, <1>2, <1>3, <1>4, <1>5, <1>6, <1>7, NextCases

\* While the merger is at work, no insert is under way into its index.
LEMMA NoneBehind ==
  ASSUME Typed, Alone, AtWork
  PROVE  merge_index = Other /\ InFlight(merge_index) = {}
<1>1. merge_index = Other /\ access_count[merge_index] = 0
  BY DEF Alone, Asked, Working
<1>2. merge_index \in Top
  BY DEF Typed, TypeOK
<1> QED
  BY <1>1, <1>2, NoneCounted DEF Alone

\* What is truncated has been copied.
LEMMA CopiedStep ==
  ASSUME Typed, Alone, Copied, [Next]_vars
  PROVE  Copied'
<1> USE DEF Copied
<1>0. top \in [Top -> SUBSET Entries] /\ merge_index \in Top
  BY DEF Typed, TypeOK
<1>1. CASE Light
  BY <1>1 DEF Light
<1>2. ASSUME NEW b \in Backends, Ticket(b) \/ Finish(b) \/ StartMerge(b)
      PROVE  Copied'
  BY <1>2 DEF Ticket, Finish, StartMerge, indexes, worker
<1>3. ASSUME NEW b \in Backends, BtInsert(b)
      PROVE  Copied'
  <2>1. AtWork => act[b] # merge_index
    BY <1>3, NoneBehind DEF BtInsert, InFlight, Inserting
  <2>2. AtWork => top'[merge_index] = top[merge_index]
    BY <1>0, <1>3, <2>1 DEF BtInsert
  <2> QED
    BY <1>3, <2>2 DEF BtInsert, worker, AtWork, Merging
<1>4. CASE MergerCheck
  BY <1>4 DEF MergerCheck, LoopHead, indexes
<1>5. ASSUME NEW e \in Entries, MergerCopy(e)
      PROVE  Copied'
  BY <1>5 DEF MergerCopy
<1>6. CASE MergerCopied
  BY <1>6 DEF MergerCopied, indexes
<1>7. CASE MergerTruncate \/ MergerCommit
  BY <1>7 DEF MergerTruncate, MergerCommit
<1>8. CASE MergerDone \/ Restart
  BY <1>8 DEF MergerDone, LoopHead, Restart
<1> QED
  BY <1>1, <1>2, <1>3, <1>4, <1>5, <1>6, <1>7, <1>8, NextCases

\* The three indexes lose nothing, and gain one entry at a time.
LEMMA ContentStep ==
  ASSUME Typed, Alone, Copied, [Next]_vars
  PROVE  \/ UNCHANGED <<Content, base, inserted>>
         \/ \E e \in Entries : /\ Content' = Content \cup {e} /\ base' = base
                               /\ inserted' = inserted \cup {e}
         \/ \E e \in Content : /\ base' = base \cup {e}
                               /\ UNCHANGED <<Content, inserted>>
<1> USE DEF Content
<1>0. /\ top \in [Top -> SUBSET Entries] /\ merge_index \in Top
      /\ base \subseteq Entries /\ 0 \in Top /\ 1 \in Top
      /\ \A i \in Top : i = 0 \/ i = 1
  BY DEF Typed, TypeOK, Top
<1>1. CASE Light
  BY <1>1 DEF Light
<1>2. ASSUME NEW b \in Backends, Ticket(b) \/ Finish(b) \/ StartMerge(b)
      PROVE  UNCHANGED <<Content, base, inserted>>
  BY <1>2 DEF Ticket, Finish, StartMerge, indexes, ghosts
<1>3. ASSUME NEW b \in Backends, BtInsert(b)
      PROVE  \E e \in Entries : /\ Content' = Content \cup {e} /\ base' = base
                               /\ inserted' = inserted \cup {e}
  <2>1. ent[b] \in Entries /\ act[b] \in Top
    BY <1>3 DEF BtInsert, Typed, TypeOK, HasEntry, Inserting
  <2>2. top'[0] \cup top'[1] = top[0] \cup top[1] \cup {ent[b]}
    BY <1>0, <1>3, <2>1 DEF BtInsert
  <2> QED
    BY <1>3, <2>1, <2>2 DEF BtInsert
<1>4. CASE MergerCheck \/ MergerCopied \/ MergerCommit \/ MergerDone \/ Restart
  BY <1>4 DEF MergerCheck, MergerCopied, MergerCommit, MergerDone, Restart,
     indexes, ghosts
<1>5. ASSUME NEW e \in Entries, MergerCopy(e)
      PROVE  e \in Content /\ base' = base \cup {e}
             /\ UNCHANGED <<Content, inserted>>
  <2>1. e \in top[merge_index]
    BY <1>5 DEF MergerCopy, Copied
  <2> QED
    BY <1>0, <1>5, <2>1 DEF MergerCopy, ghosts
<1>6. CASE MergerTruncate
  <2>1. top[merge_index] \subseteq base
    BY <1>6 DEF MergerTruncate, Copied
  <2>2. \A i \in Top \ {merge_index} : top'[i] = top[i]
    BY <1>0, <1>6 DEF MergerTruncate, Truncated
  <2>3. top'[merge_index] = {}
    BY <1>0, <1>6 DEF MergerTruncate, Truncated
  <2>4. top'[0] \cup top'[1] \cup base = top[0] \cup top[1] \cup base
    BY <1>0, <2>1, <2>2, <2>3
  <2> QED
    BY <1>6, <2>4 DEF MergerTruncate, ghosts
<1> QED
  BY <1>1, <1>2, <1>3, <1>4, <1>5, <1>6, NextCases

\* The invariant holds at first and is kept.
LEMMA InitIInv == Init => IInv
<1> SUFFICES ASSUME Init PROVE IInv
  OBVIOUS
<1>1. TypeOK
  <2>1. /\ act \in [Backends -> Top] /\ seen \in [Backends -> Nat]
        /\ ent \in [Backends -> Nat] /\ overflow \in [Backends -> BOOLEAN]
        /\ share \in [Backends -> BOOLEAN] /\ locks \in [Backends -> SUBSET Top]
        /\ released \in [Backends -> SUBSET Top]
    BY TopTypes DEF Init
  <2>2. pc \in [Backends -> {"idle"}] /\ top \in [Top -> SUBSET Entries]
        /\ access_count \in [Top -> Nat]
    BY DEF Init
  <2>3. active_index \in Top /\ merge_index \in Top /\ 0 \in 0 .. MaxInserts
    BY TopTypes, Lsm3Assumption DEF Init
  <2> QED
    BY <2>1, <2>2, <2>3 DEF Init, TypeOK
<1>2. \A i \in Top : InFlight(i) = {}
  BY DEF Init, InFlight, Inserting
<1>3. Counted
  BY <1>2, FS_EmptySet DEF Init, Counted
<1>4. Other \in Top
  BY TopTypes DEF Init, Other
<1> QED
  BY <1>1, <1>3, <1>4 DEF Init, IInv, Typed, HasEntry, Alone, Asked, Working,
     AtWork, Merging, Current, Copied, NoEntryLost, Inserting

\* Every step keeps the invariant.
LEMMA NextIInv == IInv /\ [Next]_vars => IInv'
<1> SUFFICES ASSUME IInv, [Next]_vars PROVE IInv'
  OBVIOUS
<1>1. Typed' /\ Counted'
  BY TypedStep, CountedStep DEF IInv, Alone
<1>2. Asked' /\ Working'
  BY AskedStep DEF IInv, Alone
<1>3. Current'
  BY CurrentStep DEF IInv, Alone
<1>4. Copied'
  BY CopiedStep DEF IInv
<1>5. NoEntryLost'
  BY ContentStep DEF IInv, NoEntryLost
<1> QED
  BY <1>1, <1>2, <1>3, <1>4, <1>5 DEF IInv, Alone

\* The inductive invariant of the protocol.
THEOREM Invariant == Spec => []IInv
  BY InitIInv, NextIInv, PTL DEF Spec
-----------------------------------------------------------------------------
(* What follows from it *)

\* Every variable keeps its type, whatever fails.
THEOREM TypeCorrect == Spec => []TypeOK
<1>1. IInv => TypeOK
  BY DEF IInv, Typed
<1> QED
  BY Invariant, <1>1, PTL

\* An entry whose insert returned stays in one of the three indexes, through
\* merges, errors, launches that fail, cancelled workers and restarts.
THEOREM NothingLost == Spec => []NoEntryLost
<1>1. IInv => NoEntryLost
  BY DEF IInv
<1> QED
  BY Invariant, <1>1, PTL

\* Nobody inserts into the index that is being merged: the count of inserts
\* under way (lsm3.c:445, 489) is enough, although the insert itself is not
\* under the spinlock.
THEOREM MergesAlone == Spec => []MergeAlone
<1>1. IInv => MergeAlone
  BY NoneBehind DEF IInv, MergeAlone, AtWork
<1> QED
  BY Invariant, <1>1, PTL

\* The assertions of lsm3_insert hold: n_merges tells a backend whether the
\* indexes were swapped between its two blocks under the spinlock.
THEOREM Assertions == Spec => []AssertionsHold
<1>1. ASSUME IInv PROVE AssertionsHold
  <2> SUFFICES ASSUME NEW b \in Backends, pc[b] = "finish"
               PROVE  /\ Swaps(b) => active_index = act[b]
                      /\ access_count[act[b]] > 0
    BY DEF AssertionsHold
  <2>1. pc[b] \in Inserting
    BY DEF Inserting
  <2>2. access_count[act[b]] \in Nat \ {0}
    BY <1>1, <2>1, CountedInsert DEF IInv, Alone
  <2>3. Swaps(b) => active_index = act[b]
    BY <1>1, <2>1 DEF IInv, Current, Swaps
  <2> QED
    BY <2>2, <2>3
<1> QED
  BY Invariant, <1>1, PTL

\* The index with its two tops implements a set that only grows.
THEOREM ImplementsIndexSet == Spec => IsIndexSet
<1>1. Init => Index!Init
  BY TopTypes DEF Init, Index!Init, Content
<1>2. ASSUME IInv, [Next]_vars
      PROVE  [Index!Next]_<<Content, base>>
  BY <1>2, ContentStep DEF IInv, Index!Next, Index!Insert, Index!Settle
<1> QED
  BY Invariant, <1>1, <1>2, PTL DEF Spec, IsIndexSet, Index!Spec
-----------------------------------------------------------------------------
(* Without a restart nothing is merged twice *)

\* Entries stay new until they are inserted.
LEMMA FreshStep ==
  ASSUME IInv, Fresh, [Next]_vars
  PROVE  Fresh'
<1> USE DEF Fresh
<1>0. Typed /\ issued \in Nat /\ ent \in [Backends -> Nat]
  BY DEF IInv, Typed, TypeOK
<1>1. CASE Light
  <2>1. Content' = Content /\ UNCHANGED <<ent, issued>>
    BY <1>1 DEF Light, Content
  <2>2. \A c \in Backends : /\ pc'[c] \in Inserting => pc[c] \in Inserting
                            /\ pc'[c] = "insert" => pc[c] = "insert"
    BY <1>1 DEF Light
  <2> QED
    BY <2>1, <2>2
<1>2. ASSUME NEW b \in Backends, Ticket(b)
      PROVE  Fresh'
  <2>1. /\ Content' = Content /\ issued' = issued + 1 /\ ent'[b] = issued + 1
        /\ \A c \in Backends \ {b} : pc'[c] = pc[c] /\ ent'[c] = ent[c]
    BY <1>0, <1>2 DEF Ticket, Content, indexes, Typed, TypeOK
  <2>2. issued + 1 \notin 1 .. issued /\ 1 .. issued \subseteq 1 .. (issued + 1)
        /\ issued + 1 \in 1 .. (issued + 1)
    BY <1>0
  <2>3. Content' \subseteq 1 .. issued'
    BY <2>1, <2>2
  <2>4. \A c \in Backends : pc'[c] \in Inserting => ent'[c] \in 1 .. issued'
    BY <2>1, <2>2
  <2>5. \A c \in Backends : pc'[c] = "insert" => ent'[c] \notin Content'
    BY <2>1, <2>2
  <2>6. ASSUME NEW c \in Backends, NEW d \in Backends, c # d,
               pc'[c] = "insert", pc'[d] \in Inserting
        PROVE  ent'[c] # ent'[d]
    <3>1. CASE c = b
      BY <2>1, <2>2, <2>6, <3>1
    <3>2. CASE d = b
      BY <2>1, <2>2, <2>6, <3>2 DEF Inserting
    <3>3. CASE c # b /\ d # b
      BY <2>1, <2>6, <3>3
    <3> QED
      BY <3>1, <3>2, <3>3
  <2> QED
    BY <2>3, <2>4, <2>5, <2>6
<1>3. ASSUME NEW b \in Backends, BtInsert(b)
      PROVE  Fresh'
  <2>1. /\ pc[b] = "insert" /\ pc'[b] = "check" /\ ent' = ent
        /\ issued' = issued /\ \A c \in Backends \ {b} : pc'[c] = pc[c]
    BY <1>0, <1>3 DEF BtInsert, local, Typed, TypeOK
  <2>2. Content' \subseteq Content \cup {ent[b]}
    BY <1>0, <1>3 DEF BtInsert, Content, Typed, TypeOK, Top
  <2> QED
    BY <2>1, <2>2 DEF Inserting
<1>4. ASSUME NEW b \in Backends, Finish(b) \/ StartMerge(b)
      PROVE  Fresh'
  <2>1. /\ pc'[b] \notin Inserting
        /\ \A c \in Backends \ {b} : pc'[c] = pc[c]
        /\ UNCHANGED <<ent, issued, top, base>>
    BY <1>4, FinishEffect, StartMergeEffect DEF IInv, Alone
  <2>2. Content' = Content
    BY <2>1 DEF Content
  <2> QED
    BY <2>1, <2>2 DEF Inserting
<1>5. CASE \/ MergerCheck \/ \E e \in Entries : MergerCopy(e)
           \/ MergerCopied \/ MergerTruncate \/ MergerCommit \/ MergerDone
  <2>1. UNCHANGED <<pc, ent, issued, inserted>>
    BY <1>5 DEF MergerCheck, MergerCopy, MergerCopied, MergerTruncate,
       MergerCommit, MergerDone, local, ghosts
  <2>2. Content' = Content
    <3>1. CASE MergerCheck \/ MergerCopied \/ MergerCommit \/ MergerDone
      BY <3>1 DEF MergerCheck, MergerCopied, MergerCommit, MergerDone, indexes,
         Content
    <3>2. ASSUME NEW e \in Entries, MergerCopy(e)
          PROVE  Content' = Content
      <4>1. e \in top[merge_index] /\ merge_index \in Top
        BY <3>2 DEF MergerCopy, IInv, Copied, Typed, TypeOK
      <4> QED
        BY <3>2, <4>1 DEF MergerCopy, Content, Top
    <3>3. CASE MergerTruncate
      BY <1>0, <3>3 DEF MergerTruncate, Truncated, Content, IInv, Copied, Top,
         Typed, TypeOK
    <3> QED
      BY <1>5, <3>1, <3>2, <3>3
  <2> QED
    BY <2>1, <2>2
<1>6. CASE Restart
  <2>1. Content' = Content /\ issued' = issued
        /\ \A c \in Backends : pc'[c] = "idle"
    BY <1>6 DEF Restart, Content, indexes
  <2> QED
    BY <2>1 DEF Inserting
<1> QED
  BY <1>0, <1>1, <1>2, <1>3, <1>4, <1>5, <1>6, NextCases

\* At a swap, the index that inserts turn to is empty, and what they leave has
\* nothing in common with the base index.
LEMMA SwapUnmerged ==
  ASSUME IInv, Unmerged, ~merge_in_progress, active_index' = 1 - active_index,
         merge_in_progress', UNCHANGED <<top, base, mpc, todo, merge_index>>
  PROVE  Unmerged' /\ top[active_index'] = {}
<1>1. active_index \in Top /\ Other = active_index' /\ Other' = active_index
  BY TopTypes DEF Other, IInv, Typed, TypeOK
<1>2. ~AtWork
  BY DEF IInv, Alone, Asked
<1> QED
  BY <1>1, <1>2 DEF Unmerged, AtWork, Merging

\* Entries are in one index until a merge copies them.
LEMMA UnmergedStep ==
  ASSUME IInv, Once, restarts' = 0, [Next]_vars
  PROVE  Unmerged' /\ twice' = {}
         /\ (active_index' # active_index => top[active_index'] = {})
<1> USE DEF AtWork, Merging
<1>0. /\ Typed /\ Counted /\ Asked /\ Working /\ Alone
      /\ top \in [Top -> SUBSET Entries]
      /\ active_index \in Top /\ Other \in Top /\ Other # active_index
      /\ merge_index \in Top /\ access_count \in [Top -> Nat]
      /\ merge_in_progress \in BOOLEAN
      /\ \A i \in Top : i = active_index \/ i = Other
  BY TopTypes DEF IInv, Alone, Typed, TypeOK, Other
<1>1. CASE restarts' # restarts
  <2>1. ~Restart
    BY DEF Restart, IInv, Typed, TypeOK
  <2> QED
    BY <1>0, <1>1, <2>1, NextCases, FinishEffect, StartMergeEffect
       DEF Light, Ticket, BtInsert, MergerCheck, MergerCopy, MergerCopied,
           MergerTruncate, MergerCommit, MergerDone, ghosts
<1>2. CASE restarts' = restarts
  <2>0. Unmerged /\ twice = {}
    BY <1>2 DEF Once
  <2>1. CASE Light
    BY <1>0, <2>0, <2>1 DEF Light, Unmerged, Other
  <2>2. ASSUME NEW b \in Backends, Ticket(b)
        PROVE  Unmerged' /\ UNCHANGED <<active_index, twice>>
    <3>1. access_count'[Other] = access_count[Other]
      BY <1>0, <2>2 DEF Ticket
    <3> QED
      BY <2>0, <2>2, <3>1 DEF Ticket, Unmerged, Other, requests, indexes, worker
  <2>3. ASSUME NEW b \in Backends, BtInsert(b)
        PROVE  Unmerged' /\ UNCHANGED <<active_index, twice>>
    <3>1. /\ act[b] \in Top /\ ent[b] \notin Content
          /\ pc[b] \in Inserting /\ pc[b] = "insert"
          /\ top' = [top EXCEPT ![act[b]] = @ \cup {ent[b]}]
          /\ UNCHANGED <<active_index, access_count, start_merge, mpc, todo,
                         merge_in_progress, base, twice, merge_index>>
      BY <2>3 DEF BtInsert, Once, Fresh, IInv, Typed, TypeOK, Inserting,
         counters, requests, worker
    <3>2. act[b] = Other => access_count[Other] > 0
      BY <1>0, <3>1, CountedInsert
    <3>3. ent[b] \notin base /\ \A i \in Top : ent[b] \notin top[i]
      BY <3>1 DEF Content, Top
    <3>4. CASE act[b] = active_index
      <4>1. top'[Other] = top[Other] /\ Other' = Other
            /\ top'[active_index] = top[active_index] \cup {ent[b]}
        BY <1>0, <3>1, <3>4 DEF Other
      <4>2. AtWork => merge_index = Other
        BY <1>0 DEF Working
      <4> QED
        BY <1>0, <2>0, <3>1, <3>3, <4>1, <4>2 DEF Unmerged
    <3>5. CASE act[b] = Other
      <4>1. top'[active_index] = top[active_index] /\ Other' = Other
            /\ top'[Other] = top[Other] \cup {ent[b]}
        BY <1>0, <3>1, <3>5 DEF Other
      <4>2. merge_in_progress /\ ~AtWork
        BY <1>0, <3>2, <3>5 DEF Asked
      <4> QED
        BY <1>0, <2>0, <3>1, <3>3, <4>1, <4>2 DEF Unmerged
    <3> QED
      BY <1>0, <3>1, <3>4, <3>5
  <2>4. ASSUME NEW b \in Backends, Finish(b)
        PROVE  Unmerged' /\ twice' = twice
               /\ (active_index' # active_index => top[active_index'] = {})
    <3>1. /\ act[b] \in Top /\ access_count[act[b]] \in Nat \ {0}
          /\ access_count' = [access_count EXCEPT ![act[b]] = @ - 1]
          /\ IF merge_in_progress' /\ LastInsert(b, active_index')
             THEN start_merge' = TRUE ELSE start_merge' = start_merge
          /\ UNCHANGED <<top, base, twice, mpc, todo, merge_index>>
      BY <1>0, <2>4, FinishEffect
    <3>2. CASE /\ Swaps(b) /\ merge_in_progress'
               /\ active_index' = 1 - active_index
      BY <2>0, <3>1, <3>2, SwapUnmerged DEF Swaps
    <3>3. CASE UNCHANGED <<merge_in_progress, active_index>>
      <4>1. Other' = Other
        BY <3>3 DEF Other
      <4>2. access_count'[Other] > 0 => access_count[Other] > 0
        BY <1>0, <3>1
      <4>3. start_merge' => start_merge \/ access_count[Other] > 0
        <5>1. LastInsert(b, active_index') => act[b] = Other
          BY <1>0, <3>1, <3>3 DEF LastInsert
        <5>2. CASE LastInsert(b, active_index')
          BY <3>1, <5>1, <5>2
        <5>3. CASE ~LastInsert(b, active_index')
          BY <3>1, <5>3
        <5> QED
          BY <5>2, <5>3
      <4> QED
        BY <2>0, <3>1, <3>3, <4>1, <4>2, <4>3 DEF Unmerged
    <3> QED
      BY <1>0, <2>4, <3>2, <3>3, FinishEffect
  <2>5. ASSUME NEW b \in Backends, StartMerge(b)
        PROVE  Unmerged' /\ twice' = twice /\ top[active_index'] = {}
    BY <1>0, <2>0, <2>5, StartMergeEffect, SwapUnmerged
  <2>6. CASE MergerCheck
    <3>1. start_merge => top[ToMerge] \cap base = {}
      BY <1>0, <2>0 DEF Asked, Unmerged, ToMerge, Other
    <3> QED
      BY <2>0, <2>6, <3>1 DEF MergerCheck, LoopHead, Unmerged, Other, indexes,
         counters
  <2>7. ASSUME NEW e \in Entries, MergerCopy(e)
        PROVE  Unmerged' /\ UNCHANGED <<active_index, twice>>
    <3>1. /\ e \in top[Other] /\ e \notin base /\ ~start_merge
          /\ access_count[Other] = 0 /\ merge_in_progress
      BY <1>0, <2>0, <2>7 DEF MergerCopy, IInv, Copied, Asked, Working, Unmerged
    <3>2. /\ base' = base \cup {e} /\ todo' = todo \ {e} /\ twice' = twice
          /\ mpc = "copy"
          /\ UNCHANGED <<active_index, access_count, start_merge, mpc,
                         merge_in_progress, top, merge_index>>
      BY <2>7, <3>1 DEF MergerCopy, counters, requests
    <3> QED
      BY <2>0, <3>1, <3>2 DEF Unmerged, Other
  <2>8. CASE MergerCopied
    BY <2>0, <2>8 DEF MergerCopied, Unmerged, Other, indexes, counters, requests
  <2>9. CASE MergerTruncate
    <3>1. /\ merge_index = Other /\ top'[Other] = {}
          /\ top'[active_index] = top[active_index]
      BY <1>0, <2>9 DEF MergerTruncate, Truncated, Working
    <3> QED
      BY <2>0, <2>9, <3>1 DEF MergerTruncate, Unmerged, Other, counters, requests
  <2>10. CASE MergerCommit
    BY <2>0, <2>10 DEF MergerCommit, Unmerged, Other, indexes, counters, requests
  <2>11. CASE MergerDone
    <3>1. merge_index = Other
      BY <1>0, <2>11 DEF MergerDone, Working
    <3> QED
      BY <2>0, <2>11, <3>1 DEF MergerDone, LoopHead, Unmerged, Other, indexes,
         counters
  <2>12. CASE Restart
    BY <1>2, <2>12 DEF Restart, IInv, Typed, TypeOK
  <2>13. Light \/ MergerCheck \/ MergerCopied \/ MergerTruncate
         \/ MergerCommit \/ MergerDone => UNCHANGED <<active_index, twice>>
    BY DEF Light, MergerCheck, MergerCopied, MergerTruncate, MergerCommit,
       MergerDone, indexes
  <2> QED
    BY <1>0, <2>0, <2>1, <2>2, <2>3, <2>4, <2>5, <2>6, <2>7, <2>8, <2>9, <2>10,
       <2>11, <2>12, <2>13, NextCases
<1> QED
  BY <1>1, <1>2

\* The second invariant holds at first and is kept.
LEMMA InitOnce == Init => Once
<1> SUFFICES ASSUME Init PROVE Once
  OBVIOUS
<1>1. Content = {} /\ \A i \in Top : top[i] = {}
  BY DEF Init, Content, Top
<1>2. active_index \in Top /\ Other \in Top /\ merge_index \in Top
  BY TopTypes DEF Init, Other
<1> QED
  BY <1>1, <1>2 DEF Init, Once, Fresh, Unmerged, Inserting

\* Every step keeps it.
LEMMA NextOnce == IInv /\ Once /\ [Next]_vars => Once'
<1> SUFFICES ASSUME IInv, Once, [Next]_vars PROVE Once'
  OBVIOUS
<1> QED
  BY FreshStep, UnmergedStep DEF Once

\* An entry is put into the base index a second time only after a restart: the
\* merger finds no entry of its index there, whatever else fails.
THEOREM MergedOnce == Spec => []CopiedOnce
<1>1. IInv /\ Once => CopiedOnce
  BY DEF IInv, Typed, TypeOK, Once, CopiedOnce
<1> QED
  BY Invariant, InitOnce, NextOnce, <1>1, PTL DEF Spec

\* Inserts turn to an empty index at each swap: a merge is over before the
\* next one, however inserts, functions and failures are interleaved.
THEOREM EmptyAtSwap == Spec => SwapsToEmpty
<1>1. ASSUME IInv, Once, [Next]_vars
      PROVE  [active_index' # active_index /\ restarts' = 0
                => top[active_index'] = {}]_vars
  <2> SUFFICES ASSUME active_index' # active_index, restarts' = 0
               PROVE  top[active_index'] = {}
    OBVIOUS
  <2> QED
    BY <1>1, UnmergedStep
<1> QED
  BY Invariant, InitOnce, NextOnce, <1>1, PTL DEF Spec, SwapsToEmpty
-----------------------------------------------------------------------------
(* Without errors a merge is not forgotten *)

\* access_count counts the inserts under way and nothing else.
Exact == \A i \in Top : access_count[i] = Cardinality(InFlight(i))

\* The insert that the last one counted in the index it left will ask for the
\* merge, if nobody has.
Pending ==
  merge_in_progress => access_count[Other] > 0 \/ start_merge \/ AtWork

\* The count is exact as long as no insert fails.
LEMMA ExactStep ==
  ASSUME "error" \notin Faults, Typed, Counted, Exact, [Next]_vars
  PROVE  Exact'
<1> USE DEF Exact
<1>0. \A i \in Top : /\ access_count[i] \in Nat
                     /\ IsFiniteSet(InFlight(i))
                     /\ access_count[i] = Cardinality(InFlight(i))
  BY FS_Subset, Lsm3Assumption DEF InFlight, Typed, TypeOK
<1>1. ASSUME access_count' = access_count,
             \A i \in Top : InFlight(i)' = InFlight(i)
      PROVE  Exact'
  BY <1>0, <1>1
<1>2. CASE Light
  BY <1>1, <1>2 DEF Light, InFlight
<1>3. ASSUME NEW b \in Backends, Ticket(b)
      PROVE  Exact'
  <2>1. ASSUME NEW i \in Top
        PROVE  access_count'[i] = Cardinality(InFlight(i)')
    <3>1. CASE i = active_index
      <4>1. access_count'[i] = access_count[i] + 1
        BY <1>3, <3>1 DEF Ticket, Typed, TypeOK
      <4>2. InFlight(i)' = InFlight(i) \cup {b} /\ b \notin InFlight(i)
        BY <1>3, <3>1 DEF Ticket, InFlight, Inserting, Typed, TypeOK
      <4> QED
        BY <1>0, <4>1, <4>2, FS_AddElement
    <3>2. CASE i # active_index
      <4>1. access_count'[i] = access_count[i]
        BY <1>3, <3>2 DEF Ticket, Typed, TypeOK
      <4>2. InFlight(i)' = InFlight(i)
        BY <1>3, <3>2 DEF Ticket, InFlight, Inserting, Typed, TypeOK
      <4> QED
        BY <1>0, <4>1, <4>2
    <3> QED
      BY <3>1, <3>2
  <2> QED
    BY <2>1
<1>4. ASSUME NEW b \in Backends, BtInsert(b)
      PROVE  Exact'
  <2>1. access_count' = access_count /\ act' = act
        /\ pc[b] \in Inserting /\ pc'[b] \in Inserting
        /\ \A c \in Backends \ {b} : pc'[c] = pc[c]
    BY <1>4 DEF BtInsert, Inserting, counters, local, Typed, TypeOK
  <2> QED
    BY <1>1, <2>1 DEF InFlight
<1>5. ASSUME NEW b \in Backends, Finish(b)
      PROVE  Exact'
  <2>1. /\ b \in InFlight(act[b]) /\ act' = act /\ pc'[b] \notin Inserting
        /\ access_count' = [access_count EXCEPT ![act[b]] = @ - 1]
        /\ \A c \in Backends \ {b} : pc'[c] = pc[c]
    BY <1>5, FinishEffect DEF InFlight
  <2>2. ASSUME NEW i \in Top
        PROVE  access_count'[i] = Cardinality(InFlight(i)')
    <3>1. InFlight(i)' = InFlight(i) \ {b}
      BY <2>1 DEF InFlight
    <3>2. CASE i = act[b]
      <4>1. access_count'[i] = access_count[i] - 1 /\ b \in InFlight(i)
        BY <2>1, <3>2 DEF Typed, TypeOK
      <4> QED
        BY <1>0, <3>1, <4>1, FS_RemoveElement
    <3>3. CASE i # act[b]
      <4>1. access_count'[i] = access_count[i]
        BY <2>1, <3>3 DEF Typed, TypeOK
      <4>2. InFlight(i)' = InFlight(i)
        BY <3>1, <3>3 DEF InFlight
      <4> QED
        BY <1>0, <4>1, <4>2
    <3> QED
      BY <3>2, <3>3
  <2> QED
    BY <2>2
<1>6. ASSUME NEW b \in Backends, StartMerge(b)
      PROVE  Exact'
  <2>1. pc[b] \notin Inserting
    BY <1>6 DEF StartMerge, Inserting
  <2>2. \A i \in Top : InFlight(i)' = InFlight(i)
    BY <1>6, <2>1, StartMergeEffect DEF InFlight
  <2> QED
    BY <1>1, <1>6, <2>2, StartMergeEffect
<1>7. CASE MergerCheck \/ (\E e \in Entries : MergerCopy(e)) \/ MergerCopied
  BY <1>1, <1>7 DEF MergerCheck, MergerCopy, MergerCopied, InFlight, counters,
     local
<1>8. CASE MergerTruncate \/ MergerCommit \/ MergerDone
  BY <1>1, <1>8 DEF MergerTruncate, MergerCommit, MergerDone, InFlight,
     counters, local
<1>9. CASE Restart
  <2>1. \A i \in Top : InFlight(i)' = {} /\ access_count'[i] = 0
    BY <1>9 DEF Restart, InFlight, Inserting
  <2> QED
    BY <2>1, FS_EmptySet
<1> QED
  BY <1>2, <1>3, <1>4, <1>5, <1>6, <1>7, <1>8, <1>9, NextCases

\* Whoever swaps asks for the merge, or leaves it to an insert that is counted;
\* the last of these asks for it.
LEMMA PendingStep ==
  ASSUME "error" \notin Faults, IInv, Pending, [Next]_vars
  PROVE  Pending'
<1> USE DEF Pending, AtWork, Merging
<1>0. /\ Typed /\ Counted
      /\ active_index \in Top /\ Other \in Top /\ Other # active_index
      /\ 1 - Other = active_index
      /\ access_count \in [Top -> Nat]
  BY TopTypes DEF Other, IInv, Alone, Typed, TypeOK
<1>1. CASE Light
  BY <1>1 DEF Light, Other
<1>2. ASSUME NEW b \in Backends, Ticket(b)
      PROVE  Pending'
  <2>1. access_count'[Other] = access_count[Other]
    BY <1>0, <1>2 DEF Ticket
  <2> QED
    BY <1>2, <2>1 DEF Ticket, Other, requests, worker
<1>3. ASSUME NEW b \in Backends, BtInsert(b)
      PROVE  Pending'
  BY <1>3 DEF BtInsert, Other, counters, requests, worker
<1>4. ASSUME NEW b \in Backends, Finish(b)
      PROVE  Pending'
  <2>0. /\ pc[b] \in Inserting /\ act[b] \in Top
        /\ access_count[act[b]] \in Nat \ {0}
        /\ access_count' = [access_count EXCEPT ![act[b]] = @ - 1]
        /\ IF merge_in_progress' /\ LastInsert(b, active_index')
           THEN start_merge' = TRUE ELSE start_merge' = start_merge
        /\ UNCHANGED <<mpc, merge_index>>
    BY <1>0, <1>4, FinishEffect
  <2>1. CASE /\ Swaps(b) /\ merge_in_progress'
             /\ active_index' = 1 - active_index
    <3>1. act[b] = active_index
      BY <2>0, <2>1 DEF IInv, Swaps, Current
    <3>2. Other' = act[b] /\ active_index' # act[b]
      BY <1>0, <2>1, <3>1, TopTypes DEF Other
    <3>3. access_count'[act[b]] = access_count[act[b]] - 1
      BY <1>0, <2>0
    <3>4. CASE access_count[act[b]] = 1
      BY <2>0, <2>1, <3>2, <3>4 DEF LastInsert
    <3>5. CASE access_count[act[b]] # 1
      BY <2>0, <3>2, <3>3, <3>5
    <3> QED
      BY <3>4, <3>5
  <2>2. CASE UNCHANGED <<merge_in_progress, active_index>>
    <3>1. Other' = Other
      BY <2>2 DEF Other
    <3>2. start_merge => start_merge'
      BY <2>0
    <3>3. CASE act[b] = Other /\ access_count[Other] = 1
      <4>1. LastInsert(b, active_index')
        BY <1>0, <2>2, <3>3 DEF LastInsert
      <4> QED
        BY <2>0, <4>1
    <3>4. CASE ~(act[b] = Other /\ access_count[Other] = 1)
      <4>1. access_count[Other] > 0 => access_count'[Other] > 0
        BY <1>0, <2>0, <3>4
      <4> QED
        BY <2>0, <2>2, <3>1, <3>2, <4>1
    <3> QED
      BY <3>3, <3>4
  <2> QED
    BY <1>0, <1>4, <2>1, <2>2, FinishEffect
<1>5. ASSUME NEW b \in Backends, StartMerge(b)
      PROVE  Pending'
  <2>1. /\ active_index' = 1 - active_index
        /\ IF access_count[active_index] = 0
           THEN start_merge' = TRUE ELSE start_merge' = start_merge
        /\ access_count' = access_count
    BY <1>0, <1>5, StartMergeEffect
  <2>2. Other' = active_index
    BY <1>0, <2>1, TopTypes DEF Other
  <2> QED
    BY <1>0, <2>1, <2>2
<1>6. CASE MergerCheck
  BY <1>6 DEF MergerCheck, Other, counters
<1>7. CASE \/ \E e \in Entries : MergerCopy(e)
           \/ MergerCopied \/ MergerTruncate \/ MergerCommit
  BY <1>7 DEF MergerCopy, MergerCopied, MergerTruncate, MergerCommit, Other,
     counters, requests
<1>8. CASE MergerDone \/ Restart
  BY <1>8 DEF MergerDone, Restart
<1> QED
  BY <1>0, <1>1, <1>2, <1>3, <1>4, <1>5, <1>6, <1>7, <1>8, NextCases

\* A merge in progress is asked for, at work, or waits for an insert that will
\* ask for it, unless an error has ended an insert or the merger.
THEOREM MergeNotForgotten ==
  ASSUME "error" \notin Faults
  PROVE  Spec => []MergeRemembered
<1>1. Init => Exact /\ Pending
  <2> SUFFICES ASSUME Init PROVE Exact /\ Pending
    OBVIOUS
  <2>1. \A i \in Top : InFlight(i) = {} /\ access_count[i] = 0
    BY DEF Init, InFlight, Inserting
  <2> QED
    BY <2>1, FS_EmptySet DEF Init, Exact, Pending
<1>2. IInv /\ Exact /\ Pending /\ [Next]_vars => (Exact /\ Pending)'
  BY ExactStep, PendingStep DEF IInv, Alone
<1>3. ASSUME IInv, Exact, Pending
      PROVE  MergeRemembered
  <2>1. Other \in Top
    BY <1>3, TopTypes DEF Other, IInv, Typed, TypeOK
  <2>2. access_count[Other] > 0 => InFlight(Other) # {}
    BY <1>3, <2>1, FS_EmptySet DEF Exact
  <2> QED
    BY <1>3, <2>2 DEF Pending, MergeRemembered, AtWork, Merging
<1> QED
  BY Invariant, <1>1, <1>2, <1>3, PTL DEF Spec
-----------------------------------------------------------------------------
(* Without errors a statement takes again the locks it gave up *)

\* Between its begin and its end a statement holds or has given up each of the
\* two locks, and never both; outside of statements there is neither.
Locked == \A b \in Backends :
  LET none == locks[b] = {} /\ released[b] = {}
      all  == locks[b] \cup released[b] = Top
  IN  /\ locks[b] \cap released[b] = {}
      /\ pc[b] \in {"idle", "waiting"} => none
      /\ pc[b] \in {"stmt"} \cup Inserting => all
      /\ pc[b] \in {"launch", "launching"} => none \/ all

\* A step of a backend keeps its locks in order.
LEMMA LockedBackend ==
  ASSUME Faults \cap {"error", "launch"} = {}, Typed, Locked,
         NEW b \in Backends, BackendStep(b)
  PROVE  Locked'
<1> USE DEF Locked
<1>0. /\ pc \in [Backends -> {"idle", "stmt", "insert", "check", "finish",
                              "launch", "launching", "waiting"}]
      /\ locks \in [Backends -> SUBSET Top]
      /\ released \in [Backends -> SUBSET Top]
      /\ act \in [Backends -> Top]
  BY DEF Typed, TypeOK
<1>1. CASE BeginStmt(b)
  BY <1>0, <1>1 DEF BeginStmt, Inserting
<1>2. CASE Ticket(b) \/ BtInsert(b) \/ CheckOverflow(b)
  <2>1. UNCHANGED <<locks, released>>
        /\ pc[b] \in {"stmt"} \cup Inserting /\ pc'[b] \in Inserting
        /\ \A c \in Backends \ {b} : pc'[c] = pc[c]
    BY <1>0, <1>2 DEF Ticket, BtInsert, CheckOverflow, held, Inserting
  <2> QED
    BY <1>0, <2>1 DEF Inserting
<1>3. CASE Finish(b)
  <2>1. /\ locks[b] \cup released[b] = Top /\ locks[b] \cap released[b] = {}
        /\ Recorded(b) = 1 - act[b]
    BY <1>3 DEF Finish, Inserting, Recorded
  <2>2. locks'[b] \cup released'[b] = Top /\ locks'[b] \cap released'[b] = {}
        /\ \A c \in Backends \ {b} : locks'[c] = locks[c]
                                    /\ released'[c] = released[c]
    BY <1>0, <1>3, <2>1 DEF Finish
  <2>3. pc'[b] \in {"stmt", "launch"}
        /\ \A c \in Backends \ {b} : pc'[c] = pc[c]
    BY <1>0, <1>3 DEF Finish, AskMerger, AskNobody
  <2> QED
    BY <2>2, <2>3 DEF Inserting
<1>4. CASE EndStmt(b)
  BY <1>0, <1>4 DEF EndStmt, Inserting
<1>5. CASE LaunchRegister(b)
  BY <1>0, <1>5 DEF LaunchRegister, held, Inserting
<1>6. CASE LaunchDone(b)
  <2>1. /\ UNCHANGED <<locks, released>> /\ pc[b] = "launching"
        /\ pc'[b] = Resume(b) /\ \A c \in Backends \ {b} : pc'[c] = pc[c]
    BY <1>0, <1>6 DEF LaunchDone, held
  <2> QED
    BY <2>1 DEF Resume, Inserting
<1>7. CASE StartMerge(b)
  <2>1. /\ UNCHANGED <<locks, released>> /\ pc[b] = "idle"
        /\ pc'[b] \in {"idle", "launch"}
        /\ \A c \in Backends \ {b} : pc'[c] = pc[c]
    BY <1>0, <1>7 DEF StartMerge, AskMerger, AskNobody, held
  <2> QED
    BY <2>1 DEF Inserting
<1>8. CASE WaitBegin(b) \/ WaitReturn(b)
  BY <1>0, <1>8 DEF WaitBegin, WaitReturn, held, Inserting
<1>9. CASE Read(b) \/ EndTransaction(b)
  BY <1>9 DEF Read, EndTransaction
<1>10. ~Abort(b) /\ ~LaunchError(b)
  BY DEF Abort, LaunchError
<1> QED
  BY <1>1, <1>2, <1>3, <1>4, <1>5, <1>6, <1>7, <1>8, <1>9, <1>10
     DEF BackendStep, InsertSteps, LaunchSteps

\* The merger and restarts leave them so.
LEMMA LockedStep ==
  ASSUME Faults \cap {"error", "launch"} = {}, Typed, Locked, [Next]_vars
  PROVE  Locked'
<1>1. CASE \E b \in Backends : BackendStep(b)
  BY <1>1, LockedBackend
<1>2. CASE MergerNext \/ Cancel \/ MergerError
  <2>1. UNCHANGED <<pc, locks, released>>
    BY <1>2 DEF MergerNext, MergerStart, MergerWake, MergerCheck, MergerCopy,
       MergerCopied, MergerTruncate, MergerCommit, MergerDone, MergerExit,
       Cancel, MergerError, held
  <2> QED
    BY <2>1 DEF Locked
<1>3. CASE Restart
  BY <1>3 DEF Restart, Locked, Inserting
<1>4. CASE UNCHANGED vars
  BY <1>4 DEF vars, held, Locked
<1> QED
  BY <1>1, <1>2, <1>3, <1>4 DEF Next, BackendStep

\* lsm3_executor_finish takes again only what this statement gave up, unless an
\* error in a statement has left Lsm3ReleasedLocks behind.
THEOREM LocksReclaimed ==
  ASSUME Faults \cap {"error", "launch"} = {}
  PROVE  Spec => []ReclaimsReleased
<1>1. Init => Locked
  BY DEF Init, Locked, Inserting
<1>2. IInv /\ Locked /\ [Next]_vars => Locked'
  BY LockedStep DEF IInv
<1>3. Locked => ReclaimsReleased
  BY DEF Locked, ReclaimsReleased
<1> QED
  BY Invariant, <1>1, <1>2, <1>3, PTL DEF Spec
=============================================================================
