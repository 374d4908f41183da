---------------------------- MODULE SearchMerged ----------------------------
(***************************************************************************)
(* merge_files and findEntry together: adjust merges two files and dbread  *)
(* then searches the one they became.  The file is the entries in newfd,   *)
(* in the order they were appended, behind a header.                       *)
(***************************************************************************)
EXTENDS Merge, FindEntry

CONSTANT NoSearch   \* result: no search has begun

ASSUME SearchMergedAssumption ==
  /\ IsFiniteSet(Keys)   \* a key has a fixed number of bytes
  /\ NoSearch \notin {"search", "found", "missing"}

allVars == <<vars, searchVars>>

\* The file of the entries of c has them in the order of their keys; its
\* header reads as the key h.
IsFile(f, c, h) ==
  LET keys == {k \in Keys : c[k] # None}
  IN  /\ f \in [0 .. Size(c) -> Keys] /\ f[0] = h
      /\ {f[i] : i \in 1 .. Size(c)} = keys
      /\ Sorted(f, Size(c) + 1)

BothInit ==
  /\ Init
  /\ size = 0 /\ file = <<>> /\ key = None
  /\ low = LowStart /\ high = HighStart(0) /\ result = NoSearch

\* dbread searches for k in the merged file, or the one that adjust truncates after
\* the merge, which is empty.
BeginSearch(h, k) ==
  /\ loop = "return" /\ result = NoSearch
  /\ \/ /\ size' = Size(newfd) + 1
        /\ file' \in {f \in [0 .. Size(newfd) -> Keys] : IsFile(f, newfd, h)}
     \/ size' = 0 /\ file' = <<>>
  /\ low' = LowStart /\ high' = HighStart(size')
  /\ result' = "search"
  /\ key' = k
  /\ UNCHANGED vars

BothNext ==
  \/ Next /\ UNCHANGED searchVars
  \/ \E h, k \in Keys : BeginSearch(h, k)
  \/ SearchNext /\ UNCHANGED vars

\* A merge and a search that run, run on.
BothSpec == BothInit /\ [][BothNext]_allVars /\ WF_allVars(BothNext)
-----------------------------------------------------------------------------
\* Looked up in the merged file, a key has the newer of its two entries, and
\* is not found if there is none or if that is a tombstone.
LookupNewest == size > 0 =>
  /\ result = "found"   => /\ newfd[file[Mid]] = MergeFiles(oldest2, oldest1)[key]
                           /\ newfd[file[Mid]] # None
  /\ result = "missing" => MergeFiles(oldest2, oldest1)[key] = None

\* The merge ends, through all of its three loops, and so does the search.
LookupEnds == <>(result \in {"found", "missing"})
=============================================================================
