----------------------------- MODULE CacheStore -----------------------------
(***************************************************************************)
(* The listing cache: a map in memory over a redb table on disk,           *)
(* src-tauri/src/cache/store.rs.                                           *)
(*                                                                         *)
(* Its methods run on several threads.  Each takes the mutex of the map    *)
(* and a transaction of redb one after the other and never both, so a call *)
(* is two steps, with steps of other calls in between.  An entry past its  *)
(* window is answered as a miss and otherwise kept like any other, and a   *)
(* profile that has not been validated gets no answer: neither changes a   *)
(* layer, so time and the gate are left out, as are reads that memory      *)
(* answers, and the store without a disk of a session that could not open  *)
(* the file.                                                               *)
(***************************************************************************)
EXTENDS Naturals, FiniteSets

CONSTANTS
  Caller,       \* threads that may be inside the store at one time
  CacheKey,     \* cache keys
  Value,        \* what is cached
  Scope,        \* the sets of keys that one call may invalidate
  MaxEntries,   \* max_in_memory_entries
  Gone          \* no entry

ASSUME CacheAssumption ==
  /\ Gone \notin Value
  /\ Scope \subseteq SUBSET CacheKey
  /\ MaxEntries \in Nat

VARIABLES
  mem,        \* the map: key -> value
  disk,       \* the table: key -> value
  call,       \* calls between their two steps
  possible    \* history: what a read of each key may find, see below

cacheVars == <<mem, disk, call, possible>>

\* reading: a get that missed memory;  filling: it has read the disk;
\* writing: a put or an invalidation that has changed memory.
CallStage == {"idle", "reading", "filling", "writing"}
Entry == Value \cup {Gone}
Call == [stage : CallStage, keys : SUBSET CacheKey, value : Entry, clean : SUBSET CacheKey]
Idle == [stage |-> "idle", keys |-> {}, value |-> Gone, clean |-> {}]

CacheTypeOK ==
  /\ mem \in [CacheKey -> Entry] /\ disk \in [CacheKey -> Entry]
  /\ call \in [Caller -> Call]
  /\ possible \in [CacheKey -> SUBSET Entry]

\* The table is what the last session left.
CacheInit ==
  /\ mem = [k \in CacheKey |-> Gone]
  /\ disk \in [CacheKey -> Entry]
  /\ call = [c \in Caller |-> Idle]
  /\ possible = [k \in CacheKey |-> {disk[k]}]

-----------------------------------------------------------------------------
(***************************************************************************)
(* History.  A call that puts a value into a layer makes it possible.  If  *)
(* it ends well, and no other call was under way on a key meanwhile, its   *)
(* value is the only possible one of that key (clean).                     *)
(***************************************************************************)

Under(c) == call[c].stage \in {"filling", "writing"}
Pending(k) == {c \in Caller : Under(c) /\ k \in call[c].keys}

Enter(c, stage, K, v) ==
  /\ call' = [i \in Caller |->
       IF i = c THEN [stage |-> stage, keys |-> K, value |-> v,
                      clean |-> {k \in K : Pending(k) = {}}]
       ELSE [call[i] EXCEPT !.clean = @ \ K]]
  /\ possible' = [k \in CacheKey |-> IF k \in K THEN possible[k] \cup {v} ELSE possible[k]]

ReturnFrom(c) == call' = [call EXCEPT ![c] = Idle]

Settle(c) ==
  possible' = [k \in CacheKey |-> IF k \in call[c].clean THEN {call[c].value} ELSE possible[k]]

With(layer, K, v) == [k \in CacheKey |-> IF k \in K THEN v ELSE layer[k]]

-----------------------------------------------------------------------------
(***************************************************************************)
(* get.                                                                    *)
(***************************************************************************)

\* Memory has no entry.
Miss(c, k) ==
  /\ call[c] = Idle
  /\ mem[k] = Gone
  /\ call' = [call EXCEPT ![c] = [Idle EXCEPT !.stage = "reading", !.keys = {k}]]
  /\ UNCHANGED <<mem, disk, possible>>

\* The disk has none either, or cannot be read.
NotFound(c) ==
  /\ call[c].stage = "reading"
  /\ ReturnFrom(c)
  /\ UNCHANGED <<mem, disk, possible>>

Found(c, k) ==
  /\ call[c].stage = "reading" /\ call[c].keys = {k}
  /\ disk[k] # Gone
  /\ Enter(c, "filling", {k}, disk[k])
  /\ UNCHANGED <<mem, disk>>

\* What the disk had goes into memory; the capacity is not looked at.
Fill(c) ==
  /\ call[c].stage = "filling"
  /\ mem' = With(mem, call[c].keys, call[c].value)
  /\ Settle(c) /\ ReturnFrom(c)
  /\ UNCHANGED disk

-----------------------------------------------------------------------------
(***************************************************************************)
(* put; invalidate, invalidate_profile and clear_all.                      *)
(***************************************************************************)

Cached == {k \in CacheKey : mem[k] # Gone}

\* A new key in a full map takes the place of an arbitrary one.
Put(c, k, v) ==
  /\ call[c] = Idle
  /\ IF k \notin Cached /\ Cached # {} /\ Cardinality(Cached) >= MaxEntries
       THEN \E e \in Cached : mem' = [mem EXCEPT ![e] = Gone, ![k] = v]
       ELSE mem' = [mem EXCEPT ![k] = v]
  /\ Enter(c, "writing", {k}, v)
  /\ UNCHANGED disk

Invalidate(c, K) ==
  /\ call[c] = Idle
  /\ mem' = With(mem, K, Gone)
  /\ Enter(c, "writing", K, Gone)
  /\ UNCHANGED disk

\* Mutant: the transaction that removes an entry is not committed.
WriteOnly(c) ==
  /\ call[c].stage = "writing"
  /\ disk' = IF call[c].value = Gone THEN disk
                                     ELSE With(disk, call[c].keys, call[c].value)
  /\ Settle(c) /\ ReturnFrom(c)
  /\ UNCHANGED mem

\* One transaction, on all keys of the call.
WriteDisk(c) ==
  /\ call[c].stage = "writing"
  /\ disk' = With(disk, call[c].keys, call[c].value)
  /\ Settle(c) /\ ReturnFrom(c)
  /\ UNCHANGED mem

\* redb fails: put reports it, an invalidation does not.
WriteFails(c) ==
  /\ call[c].stage = "writing"
  /\ ReturnFrom(c)
  /\ UNCHANGED <<mem, disk, possible>>

\* The app is stopped or dies, and is started again.
Restart ==
  /\ mem' = [k \in CacheKey |-> Gone]
  /\ call' = [c \in Caller |-> Idle]
  /\ UNCHANGED <<disk, possible>>

CallStep(c) ==
  \/ \E k \in CacheKey : Miss(c, k) \/ Found(c, k)
  \/ NotFound(c) \/ Fill(c)
  \/ \E k \in CacheKey, v \in Value : Put(c, k, v)
  \/ \E K \in Scope : Invalidate(c, K)
  \/ WriteDisk(c) \/ WriteFails(c)

CacheNext == Restart \/ \E c \in Caller : CallStep(c)

CacheSpec == CacheInit /\ [][CacheNext]_cacheVars

-----------------------------------------------------------------------------
(***************************************************************************)
(* Safety.                                                                 *)
(***************************************************************************)

(***************************************************************************)
(* Neither layer has anything older than the last call on a key that ended *)
(* well and met no other call: what it stored is found, what it removed is *)
(* not, by every later get, after evictions, failed writes of other keys,  *)
(* and a restart, until the next call on the key.                          *)
(***************************************************************************)
NoOldEntry ==
  \A k \in CacheKey : disk[k] \in possible[k] /\ mem[k] \in possible[k] \cup {Gone}

=============================================================================
