------------------------------ MODULE KVStore ------------------------------
(***************************************************************************)
(* What the store promises to the serve threads that use it, with none of *)
(* the trees, files and locks that provide it: a map from keys to values, *)
(* written at one instant, and reads that return a value the key had at   *)
(* some instant between the call of the read and its return.              *)
(*                                                                         *)
(* A key written with the all-ones tombstone value counts as deleted: a   *)
(* read of it returns the tombstone as long as it is stored and nothing   *)
(* once a merge has dropped it, and the promise allows both.              *)
(***************************************************************************)

CONSTANTS
  Keys,      \* the keys
  Vals,      \* the ordinary values
  Tomb,      \* the tombstone value: every byte TOMBSTONE_BYTE
  None,      \* no value
  Clients    \* the threads that call the store

VARIABLES
  store,     \* [Keys -> value or None]
  status,    \* [Clients -> "idle", "asked", "answered"]
  asked,     \* [Clients -> the key a pending read asks for, or None]
  window,    \* [Clients -> the values that key had since the read began]
  reply      \* [Clients -> what the last call returned]

kvars == <<store, status, asked, window, reply>>

Init ==
  /\ store  = [k \in Keys |-> None]
  /\ status = [c \in Clients |-> "idle"]
  /\ asked  = [c \in Clients |-> None]
  /\ window = [c \in Clients |-> {}]
  /\ reply  = [c \in Clients |-> None]

\* What a read may return when the key's value is w.
Seen(w) == IF w = Tomb THEN {Tomb, None} ELSE {w}

Return(c, v) ==
  /\ status' = [status EXCEPT ![c] = "answered"]
  /\ reply'  = [reply EXCEPT ![c] = v]

\* A write takes effect at one instant, and every pending read of the key
\* may return the new value from then on.
Put(c, k, v) ==
  /\ status[c] = "idle"
  /\ store'  = [store EXCEPT ![k] = v]
  /\ window' = [d \in Clients |->
                  IF asked[d] = k THEN window[d] \cup {v} ELSE window[d]]
  /\ Return(c, None)
  /\ UNCHANGED asked

\* A read that returns at once.
Get(c, k) ==
  /\ status[c] = "idle"
  /\ \E v \in Seen(store[k]) : Return(c, v)
  /\ UNCHANGED <<store, asked, window>>

\* A read that takes time.
Ask(c, k) ==
  /\ status[c] = "idle"
  /\ status' = [status EXCEPT ![c] = "asked"]
  /\ asked'  = [asked EXCEPT ![c] = k]
  /\ window' = [window EXCEPT ![c] = {store[k]}]
  /\ UNCHANGED <<store, reply>>

Answer(c) ==
  /\ status[c] = "asked"
  /\ \E w \in window[c] : \E v \in Seen(w) : Return(c, v)
  /\ asked'  = [asked EXCEPT ![c] = None]
  /\ window' = [window EXCEPT ![c] = {}]
  /\ UNCHANGED store

Done(c) ==
  /\ status[c] = "answered"
  /\ status' = [status EXCEPT ![c] = "idle"]
  /\ reply'  = [reply EXCEPT ![c] = None]
  /\ UNCHANGED <<store, asked, window>>

Next == \E c \in Clients :
  \/ \E k \in Keys, v \in Vals \cup {Tomb} : Put(c, k, v)
  \/ \E k \in Keys : Get(c, k) \/ Ask(c, k)
  \/ Answer(c)
  \/ Done(c)

Spec == Init /\ [][Next]_kvars
=============================================================================
